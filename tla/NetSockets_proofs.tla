--------------------------- MODULE NetSockets_proofs ---------------------------
(***************************************************************************)
(* Proofs about NetSockets, for any number of fibers, sockets and control  *)
(* blocks.  Slots: none dangles, however the sockets are used.  When no    *)
(* socket is created while a held one is CLOSED, every callback reaches    *)
(* the socket it is for, no receive buffer is lost, a TCP socket's buffer  *)
(* holds what follows in its own connection's stream less the bytes that   *)
(* found no room, and a read announces the end of the stream only after    *)
(* all the others were read.                                               *)
(***************************************************************************)
EXTENDS NetSockets, FiniteSetTheorems, TLAPS

SockType ==
    /\ sock \in [Slots -> SlotRecord]
    /\ \A s \in Slots : Len(sock[s].data) <= Capacity

PcbType == pcb \in [Pcbs -> PcbRecord]

HandleType == handle \in [Users -> Slots \cup {NoSlot}]

Detached == {"free", "closing"}

(* The control block a slot points to is alive and calls back that slot. *)
SlotInv ==
    \A s \in Slots : sock[s].pcb # NoPcb =>
        /\ pcb[sock[s].pcb].state \notin Detached
        /\ pcb[sock[s].pcb].arg = s

(* Callbacks are set exactly on the control blocks in use. *)
ArgInv == \A p \in Pcbs : pcb[p].state \in Detached <=> pcb[p].arg = NoSlot

IInv == SockType /\ PcbType /\ HandleType /\ SlotInv /\ ArgInv

-----------------------------------------------------------------------------
(* Data                                                                    *)

(* What a read leaves in the buffer is a sequence of received bytes. *)
LEMMA RestType ==
    ASSUME NEW data \in Seq(Units), NEW max_len \in Nat
    PROVE  /\ Rest(data, Min2(Len(data), max_len)) \in Seq(Units)
           /\ Len(Rest(data, Min2(Len(data), max_len))) <= Len(data)
           /\ Len(Rest(data, Min2(Len(data), max_len))) \in Nat
<1>1. Min2(Len(data), max_len) \in 0 .. Len(data)
  BY DEF Min2
<1> QED  BY <1>1 DEF Rest

(* What a callback appends is one, too. *)
LEMMA CopyType ==
    ASSUME NEW p \in Pcbs, NEW k \in Nat, NEW f \in [1 .. k -> 1 .. MaxSent]
    PROVE  /\ [i \in 1 .. k |-> <<p, f[i]>>] \in Seq(Units)
           /\ Len([i \in 1 .. k |-> <<p, f[i]>>]) = k
BY DEF Units

LEMMA ConcatType ==
    ASSUME NEW S, NEW a \in Seq(S), NEW b \in Seq(S)
    PROVE  a \o b \in Seq(S) /\ Len(a \o b) = Len(a) + Len(b)
OBVIOUS

(* The number of bytes a callback copies: no more than came, or than fit. *)
LEMMA ToCopyType ==
    ASSUME SockType, NEW s \in Slots, NEW len \in Nat
    PROVE  /\ ToCopy(sock[s], len) \in 0 .. len
           /\ Len(sock[s].data) + ToCopy(sock[s], len) <= Capacity
<1>1. Len(sock[s].data) \in Nat /\ Len(sock[s].data) <= Capacity
  BY DEF SockType, SlotRecord
<1>2. \A n \in Nat : n <= Capacity =>
        Min2(len, Capacity - n) \in 0 .. len /\ n + Min2(len, Capacity - n) <= Capacity
  BY SocketAssumption DEF Min2
<1> QED  BY <1>1, <1>2 DEF ToCopy

(* A freed slot points to no control block. *)
LEMMA FreedType ==
    ASSUME NEW r \in SlotRecord
    PROVE  Freed(r) \in SlotRecord /\ Freed(r).pcb = NoPcb /\ Freed(r).data = r.data
BY DEF Freed, SlotRecord

LEMMA FreshType ==
    ASSUME NEW proto \in {"TCP", "UDP"}, NEW state \in {"CLOSED", "CONNECTED"},
           NEW p \in Pcbs \cup {NoPcb}, NEW b \in BOOLEAN
    PROVE  /\ Fresh(proto, state, p, b) \in SlotRecord
           /\ Fresh(proto, state, p, b).pcb = p
           /\ Len(Fresh(proto, state, p, b).data) <= Capacity
BY SocketAssumption DEF Fresh, SlotRecord

(* Replacing a slot by one that points to the same control block, or to    *)
(* none, while the control blocks stay as they are.                        *)
LEMMA SlotUpdate ==
    ASSUME IInv, NEW s \in Slots, NEW r \in SlotRecord,
           r.pcb \in {sock[s].pcb, NoPcb}, Len(r.data) <= Capacity,
           sock' = [sock EXCEPT ![s] = r]
    PROVE  /\ SockType'
           /\ \A t \in Slots : sock'[t].pcb \in {sock[t].pcb, NoPcb}
BY DEF IInv, SockType, SlotInv

-----------------------------------------------------------------------------
(* Calls                                                                   *)

(* A creation that fails leaves at most a blank slot. *)
LEMMA CreateFailsKeeps ==
    ASSUME IInv, NEW u \in Users, NEW proto \in {"TCP", "UDP"}, NEW pool,
           CreateFails(u, proto, pool)
    PROVE  IInv'
<1>0. SockType /\ PcbType /\ HandleType /\ SlotInv /\ ArgInv
  BY DEF IInv
<1>1. ArgInv' /\ PcbType' /\ HandleType' /\ pcb' = pcb
  BY <1>0 DEF CreateFails, ArgInv, PcbType, HandleType
<1>2. CASE UNCHANGED sock
  BY <1>0, <1>1, <1>2 DEF SockType, SlotInv, IInv
<1>3. ASSUME NEW s \in Slots, NEW r \in SlotRecord, r.pcb = NoPcb, Len(r.data) <= Capacity,
             sock' = [sock EXCEPT ![s] = r]
      PROVE  IInv'
  <2>1. /\ SockType'
        /\ \A t \in Slots : sock'[t].pcb \in {sock[t].pcb, NoPcb}
    BY <1>3, SlotUpdate, SocketAssumption
  <2>2. SlotInv'
    BY <1>0, <1>1, <2>1 DEF SlotInv
  <2> QED  BY <1>1, <2>1, <2>2 DEF IInv
<1>4. /\ Blank(proto) \in SlotRecord /\ Blank(proto).pcb = NoPcb
      /\ Len(Blank(proto).data) <= Capacity
  BY FreshType DEF Blank
<1>5. /\ Fresh(proto, "CLOSED", NoPcb, TRUE) \in SlotRecord
      /\ Len(Fresh(proto, "CLOSED", NoPcb, TRUE).data) <= Capacity
  BY FreshType
<1>6. /\ Freed(Fresh(proto, "CLOSED", NoPcb, TRUE)) \in SlotRecord
      /\ Freed(Fresh(proto, "CLOSED", NoPcb, TRUE)).pcb = NoPcb
      /\ Len(Freed(Fresh(proto, "CLOSED", NoPcb, TRUE)).data) <= Capacity
  BY <1>5, FreedType
<1> QED  BY <1>2, <1>3, <1>4, <1>6 DEF CreateFails

(* A creation takes a free control block and ties it to the slot. *)
LEMMA CreateKeeps ==
    ASSUME IInv, NEW u \in Users, NEW proto \in {"TCP", "UDP"},
           NEW pool \in SUBSET Pcbs,
           NEW socketState \in {"CLOSED", "CONNECTED"},
           NEW pcbState \in {"new", "udp"},
           Create(u, proto, pool, socketState, pcbState)
    PROVE  IInv'
<1>0. SockType /\ PcbType /\ HandleType /\ SlotInv /\ ArgInv
  BY DEF IInv
<1>a. PICK s \in Slots, p \in pool :
        /\ pcb[p].state = "free"
        /\ sock' = [sock EXCEPT ![s] = Fresh(proto, socketState, p, TRUE)]
        /\ pcb' = [pcb EXCEPT ![p] = [state |-> pcbState, arg |-> s, sent |-> 0]]
        /\ handle' = [handle EXCEPT ![u] = s]
  BY DEF Create
<1>b. p \in Pcbs /\ p # NoPcb /\ s # NoSlot /\ s \in Int
  BY SocketAssumption DEF Pcbs, Slots, NoSlot
<1>c. /\ Fresh(proto, socketState, p, TRUE) \in SlotRecord
      /\ Fresh(proto, socketState, p, TRUE).pcb = p
      /\ Len(Fresh(proto, socketState, p, TRUE).data) <= Capacity
  BY <1>b, FreshType
<1>1. SockType'
  BY <1>0, <1>a, <1>c, SocketAssumption DEF SockType
<1>2. PcbType'
  BY <1>0, <1>a, <1>b, SocketAssumption DEF PcbType, PcbRecord
<1>3. HandleType'
  BY <1>0, <1>a DEF HandleType, Create
<1>4. /\ pcb'[p].state = pcbState /\ pcb'[p].arg = s
      /\ \A q \in Pcbs : q # p => pcb'[q] = pcb[q]
  BY <1>0, <1>a, <1>b DEF PcbType
<1>5. /\ sock'[s].pcb = p
      /\ \A t \in Slots : t # s => sock'[t] = sock[t]
  BY <1>0, <1>a, <1>c DEF SockType
<1>6. \A t \in Slots : sock[t].pcb \in Pcbs \cup {NoPcb} /\ sock[t].pcb # p
  BY <1>0, <1>a, <1>b DEF SockType, SlotRecord, SlotInv, Detached
<1>7. SlotInv'
  BY <1>4, <1>5, <1>6, <1>0 DEF SlotInv, Detached
<1>8. ArgInv'
  BY <1>0, <1>4, <1>b DEF ArgInv, Detached, NoSlot
<1> QED  BY <1>1, <1>2, <1>3, <1>7, <1>8 DEF IInv

(* Only the data of a slot changes. *)
LEMMA ReadKeeps ==
    ASSUME IInv, NEW s \in Slots, NEW u, NEW max_len \in Nat,
           ReadFrom(u, s, max_len), UNCHANGED pcb, HandleType'
    PROVE  IInv'
<1>0. SockType /\ PcbType /\ SlotInv /\ ArgInv
  BY DEF IInv
<1> DEFINE rest == Rest(sock[s].data, Min2(Len(sock[s].data), max_len))
           r == [sock[s] EXCEPT !.data = rest]
<1>1. sock[s] \in SlotRecord /\ sock[s].data \in Seq(Units)
      /\ Len(sock[s].data) <= Capacity /\ Len(sock[s].data) \in Nat
  BY <1>0 DEF SockType, SlotRecord
<1>2. rest \in Seq(Units) /\ Len(rest) <= Capacity
  <2>1. rest \in Seq(Units) /\ Len(rest) <= Len(sock[s].data) /\ Len(rest) \in Nat
    BY <1>1, RestType
  <2> QED  BY <2>1, <1>1, SocketAssumption
<1>3. r \in SlotRecord /\ r.pcb = sock[s].pcb /\ r.data = rest
  BY <1>1, <1>2 DEF SlotRecord
<1>4. sock' = [sock EXCEPT ![s] = r]
  BY <1>0 DEF ReadFrom, SockType
<1>5. /\ SockType'
      /\ \A t \in Slots : sock'[t].pcb \in {sock[t].pcb, NoPcb}
  BY <1>2, <1>3, <1>4, SlotUpdate
<1>6. SlotInv'
  BY <1>0, <1>5 DEF SlotInv
<1>7. PcbType' /\ ArgInv'
  BY <1>0 DEF PcbType, ArgInv
<1> QED  BY <1>5, <1>6, <1>7 DEF IInv

(* tcp_connect moves a control block from one live state to another. *)
LEMMA ConnectKeeps ==
    ASSUME IInv, NEW u \in Users, TcpConnect(u)
    PROVE  IInv'
<1>0. SockType /\ PcbType /\ HandleType /\ SlotInv /\ ArgInv
  BY DEF IInv
<1> DEFINE s == handle[u]
           p == sock[s].pcb
<1>1. s \in Slots /\ p \in Pcbs /\ pcb[p].state = "new"
  BY <1>0 DEF TcpConnect, Holds, HandleType, SockType, SlotRecord
<1>2. SockType' /\ \A t \in Slots : sock'[t].pcb = sock[t].pcb
  <2> DEFINE r == [sock[s] EXCEPT !.state = "CONNECTING"]
  <2>0. sock[s] \in SlotRecord /\ Len(sock[s].data) <= Capacity
    BY <1>0, <1>1 DEF SockType
  <2>1. r \in SlotRecord /\ r.pcb = sock[s].pcb /\ r.data = sock[s].data
    BY <2>0 DEF SlotRecord
  <2>2. sock' = [sock EXCEPT ![s] = r]
    BY <1>0 DEF TcpConnect, SockType
  <2> HIDE DEF r
  <2>3. \A t \in Slots : sock'[t].pcb = sock[t].pcb
    BY <1>0, <2>1, <2>2 DEF SockType
  <2> QED  BY <1>1, <2>0, <2>1, <2>2, <2>3, SlotUpdate
<1>3. PcbType' /\ HandleType'
  BY <1>0, <1>1 DEF TcpConnect, PcbType, PcbRecord, HandleType
<1>4. \A q \in Pcbs : /\ pcb'[q].arg = pcb[q].arg
                      /\ pcb'[q].state \in Detached <=> pcb[q].state \in Detached
  BY <1>0, <1>1 DEF TcpConnect, PcbType, PcbRecord, Detached
<1>a. \A t \in Slots : sock[t].pcb \in Pcbs \cup {NoPcb}
  BY <1>0 DEF SockType, SlotRecord
<1>5. SlotInv'
  <2>1. SUFFICES ASSUME NEW t \in Slots, sock'[t].pcb # NoPcb
                 PROVE  /\ pcb'[sock'[t].pcb].state \notin Detached
                        /\ pcb'[sock'[t].pcb].arg = t
    BY DEF SlotInv
  <2>2. /\ sock'[t].pcb = sock[t].pcb /\ sock[t].pcb \in Pcbs
        /\ pcb[sock[t].pcb].state \notin Detached /\ pcb[sock[t].pcb].arg = t
    BY <1>0, <1>2, <1>a, <2>1 DEF SlotInv
  <2> QED  BY <1>4, <2>2
<1>6. ArgInv'
  BY <1>0, <1>4 DEF ArgInv
<1> QED  BY <1>2, <1>3, <1>5, <1>6 DEF IInv

(* Closing detaches the control block and the slot from each other. *)
LEMMA CloseKeeps ==
    ASSUME IInv, NEW u \in Users, TcpClose(u) \/ UdpClose(u)
    PROVE  IInv'
<1>0. SockType /\ PcbType /\ HandleType /\ SlotInv /\ ArgInv
  BY DEF IInv
<1> DEFINE s == handle[u]
           p == sock[s].pcb
<1>1. s \in Slots /\ p \in Pcbs \cup {NoPcb} /\ sock[s] \in SlotRecord
      /\ Len(sock[s].data) <= Capacity
  BY <1>0 DEF TcpClose, UdpClose, Holds, HandleType, SockType, SlotRecord
<1>2. /\ Freed(sock[s]) \in SlotRecord /\ Freed(sock[s]).pcb = NoPcb
      /\ Len(Freed(sock[s]).data) <= Capacity
  BY <1>1, FreedType
<1>3. sock' = [sock EXCEPT ![s] = Freed(sock[s])]
  BY DEF TcpClose, UdpClose, Release
<1>4. /\ SockType' /\ sock'[s].pcb = NoPcb
      /\ \A t \in Slots : t # s => sock'[t] = sock[t]
  BY <1>0, <1>1, <1>2, <1>3 DEF SockType
<1>5. HandleType'
  BY <1>0, <1>1 DEF TcpClose, UdpClose, Release, HandleType
<1>6. CASE p = NoPcb
  <2>1. pcb' = pcb
    BY <1>6 DEF TcpClose, UdpClose
  <2>2. SlotInv' /\ PcbType' /\ ArgInv'
    BY <1>0, <1>4, <2>1 DEF SlotInv, PcbType, ArgInv
  <2> QED  BY <1>4, <1>5, <2>2 DEF IInv
<1>7. CASE p # NoPcb
  <2>1. PICK new \in PcbRecord :
          /\ new.state \in Detached /\ new.arg = NoSlot
          /\ pcb' = [pcb EXCEPT ![p] = new]
    <3>1. pcb[p] \in PcbRecord
      BY <1>0, <1>1, <1>7 DEF PcbType
    <3>2. /\ FreePcb \in PcbRecord
          /\ FreePcb.state \in Detached /\ FreePcb.arg = NoSlot
      BY SocketAssumption DEF FreePcb, PcbRecord, Detached
    <3>3. /\ ClosePcb(p) \in PcbRecord
          /\ ClosePcb(p).state \in Detached /\ ClosePcb(p).arg = NoSlot
      BY <3>1, <3>2 DEF ClosePcb, PcbRecord, Detached
    <3> QED  BY <1>7, <3>2, <3>3 DEF TcpClose, UdpClose
  <2>2. PcbType'
    BY <1>0, <2>1 DEF PcbType
  <2>3. ArgInv'
    BY <1>0, <1>1, <1>7, <2>1 DEF ArgInv, PcbType
  <2>4. \A t \in Slots : t # s => sock[t].pcb # p
    BY <1>0, <1>1, <1>7 DEF SlotInv
  <2>5. SlotInv'
    BY <1>0, <1>1, <1>4, <2>1, <2>4 DEF SlotInv, SockType, SlotRecord, PcbType
  <2> QED  BY <1>4, <1>5, <2>2, <2>3, <2>5 DEF IInv
<1> QED  BY <1>6, <1>7

(* Reading a datagram empties the buffer, if it reads anything. *)
LEMMA RecvfromKeeps ==
    ASSUME IInv, NEW u \in Users, NEW max_len, UdpRecvfrom(u, max_len)
    PROVE  IInv'
<1>0. SockType /\ PcbType /\ HandleType /\ SlotInv /\ ArgInv
  BY DEF IInv
<1> DEFINE s == handle[u]
<1>1. s \in Slots
  BY <1>0 DEF UdpRecvfrom, Holds, HandleType
<1>b. /\ sock[s] \in SlotRecord /\ sock[s].data \in Seq(Units)
      /\ Len(sock[s].data) <= Capacity /\ Len(<<>>) <= Capacity
  BY <1>0, <1>1, SocketAssumption DEF SockType, SlotRecord
<1>c. PICK left : /\ left \in Seq(Units) /\ Len(left) <= Capacity
                  /\ left = IF Min2(Len(sock[s].data), max_len) > 0 THEN <<>> ELSE sock[s].data
  <2>1. <<>> \in Seq(Units)
    OBVIOUS
  <2> QED  BY <1>b, <2>1, Zenon
<1> DEFINE r == [sock[s] EXCEPT !.data = left]
<1>2. r \in SlotRecord /\ r.pcb = sock[s].pcb /\ r.data = left
  BY <1>b, <1>c DEF SlotRecord
<1>a. sock' = [sock EXCEPT ![s] = r]
  BY <1>0, <1>c DEF UdpRecvfrom, SockType
<1>3. SockType' /\ \A t \in Slots : sock'[t].pcb = sock[t].pcb
  BY <1>0, <1>1, <1>2, <1>a, <1>b, <1>c DEF SockType
<1>4. PcbType' /\ HandleType' /\ ArgInv' /\ SlotInv'
  BY <1>0, <1>3 DEF UdpRecvfrom, PcbType, HandleType, ArgInv, SlotInv
<1> QED  BY <1>3, <1>4 DEF IInv

(* Binding moves a control block from one live state to another. *)
LEMMA BindsKeeps ==
    ASSUME IInv, NEW u \in Users, UdpBind(u) \/ UdpSendto(u)
    PROVE  /\ IInv'
           /\ \A q \in Pcbs : pcb'[q].arg = pcb[q].arg
<1>0. SockType /\ PcbType /\ HandleType /\ SlotInv /\ ArgInv
  BY DEF IInv
<1> DEFINE p == sock[handle[u]].pcb
<1>1. p \in Pcbs /\ pcb[p].state \notin Detached /\ Binds(p) /\ UNCHANGED <<sock, handle>>
  BY <1>0 DEF UdpBind, UdpSendto, Holds, HandleType, SockType, SlotRecord, SlotInv
<1>2. PcbType'
  BY <1>0, <1>1 DEF Binds, PcbType, PcbRecord
<1>3. \A q \in Pcbs : /\ pcb'[q].arg = pcb[q].arg
                      /\ pcb'[q].state \in Detached <=> pcb[q].state \in Detached
  BY <1>0, <1>1 DEF Binds, PcbType, PcbRecord, Detached
<1>4. SockType' /\ HandleType' /\ ArgInv'
  BY <1>0, <1>1, <1>3 DEF SockType, HandleType, ArgInv
<1>5. SlotInv'
  <2>1. \A t \in Slots : sock'[t] = sock[t] /\ sock[t].pcb \in Pcbs \cup {NoPcb}
    BY <1>0, <1>1 DEF SockType, SlotRecord
  <2> QED  BY <1>0, <1>3, <2>1 DEF SlotInv
<1> QED  BY <1>2, <1>3, <1>4, <1>5 DEF IInv

(* net_init leaves the table as it is, or with no control block in it. *)
LEMMA WifiConnectKeeps ==
    ASSUME IInv, WifiConnect
    PROVE  IInv'
<1>0. SockType /\ PcbType /\ HandleType /\ SlotInv /\ ArgInv
  BY DEF IInv
<1>1. PcbType' /\ HandleType' /\ ArgInv' /\ UNCHANGED pcb
  BY <1>0 DEF WifiConnect, PcbType, HandleType, ArgInv
<1>2. CASE UNCHANGED sock
  BY <1>0, <1>1, <1>2 DEF SockType, SlotInv, IInv
<1>3. CASE sock' = EmptyTable
  <2>1. /\ Blank("TCP") \in SlotRecord /\ Blank("TCP").pcb = NoPcb
        /\ Len(Blank("TCP").data) <= Capacity
    BY FreshType DEF Blank
  <2>2. SockType' /\ SlotInv'
    BY <1>3, <2>1 DEF EmptyTable, SockType, SlotInv
  <2> QED  BY <1>1, <2>2 DEF IInv
<1> QED  BY <1>2, <1>3 DEF WifiConnect, AfterNetInit

-----------------------------------------------------------------------------
(* Callbacks                                                               *)

(* Connecting, receiving and the end of the stream change the slot the     *)
(* control block names, and neither's link to the other.                   *)
LEMMA LiveKeeps ==
    ASSUME IInv, NEW p \in Pcbs, NEW r \in SlotRecord, NEW new \in PcbRecord,
           pcb[p].state \notin Detached,
           new.arg = pcb[p].arg, new.state \notin Detached,
           r.pcb = sock[pcb[p].arg].pcb, Len(r.data) <= Capacity,
           sock' = [sock EXCEPT ![pcb[p].arg] = r],
           pcb' = [pcb EXCEPT ![p] = new],
           HandleType'
    PROVE  IInv'
<1>0. SockType /\ PcbType /\ SlotInv /\ ArgInv
  BY DEF IInv
<1>1. pcb[p].arg \in Slots
  BY <1>0 DEF ArgInv, PcbType, PcbRecord
<1>2. SockType' /\ \A t \in Slots : sock'[t].pcb = sock[t].pcb
  BY <1>0, <1>1 DEF SockType
<1>3. \A q \in Pcbs : /\ pcb'[q].arg = pcb[q].arg
                      /\ pcb'[q].state \in Detached <=> pcb[q].state \in Detached
  BY <1>0 DEF PcbType
<1>4. PcbType' /\ ArgInv'
  BY <1>0, <1>3 DEF PcbType, ArgInv
<1>5. SlotInv'
  BY <1>0, <1>2, <1>3 DEF SlotInv, SockType, SlotRecord
<1> QED  BY <1>2, <1>4, <1>5 DEF IInv

(* The callbacks that LiveKeeps covers. *)
LEMMA ConnectedKeeps ==
    ASSUME IInv, NEW p \in Pcbs, Connected(p) \/ RemoteClosed(p)
    PROVE  IInv'
<1>0. SockType /\ PcbType /\ HandleType /\ ArgInv
  BY DEF IInv
<1>1. /\ pcb[p] \in PcbRecord /\ pcb[p].arg \in Slots
      /\ pcb[p].state \notin Detached
  BY <1>0 DEF Connected, RemoteClosed, ArgInv, PcbType, PcbRecord, Detached
<1>2. sock[pcb[p].arg] \in SlotRecord /\ Len(sock[pcb[p].arg].data) <= Capacity
  BY <1>0, <1>1 DEF SockType
<1>3. HandleType'
  BY <1>0 DEF Connected, RemoteClosed, Callback, userVars, HandleType
<1>4. PICK state \in {"CONNECTED", "CLOSED"}, ps \in {"established", "close_wait"} :
        /\ sock' = [sock EXCEPT ![pcb[p].arg] = [sock[pcb[p].arg] EXCEPT !.state = state]]
        /\ pcb' = [pcb EXCEPT ![p] = [pcb[p] EXCEPT !.state = ps]]
  BY <1>0 DEF Connected, RemoteClosed, EndOfStream, SockType, PcbType
<1> DEFINE r == [sock[pcb[p].arg] EXCEPT !.state = state]
           new == [pcb[p] EXCEPT !.state = ps]
<1>5. /\ r \in SlotRecord /\ r.pcb = sock[pcb[p].arg].pcb
      /\ r.data = sock[pcb[p].arg].data
  BY <1>2 DEF SlotRecord
<1>6. new \in PcbRecord /\ new.arg = pcb[p].arg /\ new.state \notin Detached
  BY <1>1 DEF PcbRecord, Detached
<1> QED  BY <1>1, <1>2, <1>3, <1>4, <1>5, <1>6, LiveKeeps

(* A callback with an error: the state of the slot changes, or nothing. *)
LEMMA FailedKeeps ==
    ASSUME IInv, NEW p \in Pcbs, ConnectFailed(p) \/ ReceiveFailed(p)
    PROVE  IInv'
<1>0. SockType /\ PcbType /\ HandleType /\ ArgInv
  BY DEF IInv
<1>1. /\ pcb[p] \in PcbRecord /\ pcb[p].arg \in Slots
      /\ pcb[p].state \notin Detached
  BY <1>0 DEF ConnectFailed, ReceiveFailed, ArgInv, PcbType, PcbRecord, Detached
<1>2. sock[pcb[p].arg] \in SlotRecord /\ Len(sock[pcb[p].arg].data) <= Capacity
  BY <1>0, <1>1 DEF SockType
<1>3. HandleType' /\ pcb' = [pcb EXCEPT ![p] = pcb[p]]
  BY <1>0 DEF ConnectFailed, ReceiveFailed, Callback, userVars, HandleType, PcbType
<1>4. CASE ConnectFailed(p)
  <2> DEFINE r == [sock[pcb[p].arg] EXCEPT !.state = "ERROR"]
  <2>1. sock' = [sock EXCEPT ![pcb[p].arg] = r]
    BY <1>0, <1>4 DEF ConnectFailed, SockType
  <2>2. /\ r \in SlotRecord /\ r.pcb = sock[pcb[p].arg].pcb
        /\ r.data = sock[pcb[p].arg].data
    BY <1>2 DEF SlotRecord
  <2> QED  BY <1>1, <1>2, <1>3, <2>1, <2>2, LiveKeeps
<1>5. CASE ReceiveFailed(p)
  <2>1. sock' = [sock EXCEPT ![pcb[p].arg] = sock[pcb[p].arg]]
    BY <1>0, <1>5 DEF ReceiveFailed, SockType
  <2> QED  BY <1>1, <1>2, <1>3, <2>1, LiveKeeps
<1> QED  BY <1>4, <1>5

(* Data is appended within the capacity. *)
LEMMA DataKeeps ==
    ASSUME IInv, NEW p \in Pcbs, NEW len \in 1 .. Window,
           TcpReceived(p, len) \/ UdpReceived(p, len)
    PROVE  IInv'
<1>0. SockType /\ PcbType /\ HandleType /\ ArgInv
  BY DEF IInv
<1> DEFINE s == pcb[p].arg
           k == ToCopy(sock[s], len)
           data == sock[s].data
<1>1. /\ pcb[p] \in PcbRecord /\ s \in Slots /\ pcb[p].state \notin Detached
      /\ pcb[p].sent \in 0 .. MaxSent
  BY <1>0 DEF TcpReceived, UdpReceived, ArgInv, PcbType, PcbRecord, Detached
<1>2. /\ sock[s] \in SlotRecord /\ data \in Seq(Units) /\ Len(data) \in Nat
      /\ sock[s].src \in 0 .. MaxSent /\ sock[s].lost \in Nat
  BY <1>0, <1>1 DEF SockType, SlotRecord
<1>3. k \in 0 .. len /\ k \in Nat /\ Len(data) + k <= Capacity
  <2>1. len \in Nat
    BY SocketAssumption
  <2>2. k \in 0 .. len /\ Len(data) + k <= Capacity
    BY <1>0, <1>1, <2>1, ToCopyType
  <2> QED  BY <2>1, <2>2
<1>4. HandleType'
  BY <1>0 DEF TcpReceived, UdpReceived, Callback, userVars, HandleType
<1>5. ASSUME NEW copied \in Seq(Units), Len(copied) = k, NEW src \in 0 .. MaxSent,
             NEW lost \in Nat, NEW sent \in 0 .. MaxSent,
             sock' = [sock EXCEPT ![s] = [sock[s] EXCEPT !.data = data \o copied,
                                            !.src = src, !.lost = lost]],
             pcb' = [pcb EXCEPT ![p] = [pcb[p] EXCEPT !.sent = sent]]
      PROVE  IInv'
  <2> DEFINE r == [sock[s] EXCEPT !.data = data \o copied, !.src = src, !.lost = lost]
             new == [pcb[p] EXCEPT !.sent = sent]
  <2>1. data \o copied \in Seq(Units) /\ Len(data \o copied) = Len(data) + k
    BY <1>2, <1>5, ConcatType
  <2>2. r \in SlotRecord /\ r.pcb = sock[s].pcb /\ r.data = data \o copied
    BY <1>2, <1>5, <2>1 DEF SlotRecord
  <2>3. new \in PcbRecord /\ new.arg = s /\ new.state \notin Detached
    BY <1>1, <1>5 DEF PcbRecord
  <2> QED  BY <1>1, <1>3, <1>4, <1>5, <2>1, <2>2, <2>3, LiveKeeps
<1>6. CASE TcpReceived(p, len)
  <2> DEFINE f == [i \in 1 .. k |-> pcb[p].sent + i]
             copied == [i \in 1 .. k |-> <<p, pcb[p].sent + i>>]
             lost == sock[s].lost + len - k
  <2>1. pcb[p].sent + len <= MaxSent
    BY <1>6 DEF TcpReceived
  <2>9. lost \in Nat
    <3>1. sock[s].lost \in Nat /\ k \in 0 .. len /\ len \in Nat
      BY <1>2, <1>3, SocketAssumption
    <3> HIDE DEF k
    <3> QED  BY <3>1
  <2>2. f \in [1 .. k -> 1 .. MaxSent]
    BY <1>1, <1>3, <2>1, SocketAssumption
  <2>3. /\ [i \in 1 .. k |-> <<p, f[i]>>] \in Seq(Units)
        /\ Len([i \in 1 .. k |-> <<p, f[i]>>]) = k
    BY <1>3, <2>2, CopyType
  <2>4. copied = [i \in 1 .. k |-> <<p, f[i]>>]
    OBVIOUS
  <2>5. copied \in Seq(Units) /\ Len(copied) = k
    BY <2>3, <2>4
  <2>6. sock' = [sock EXCEPT ![s] =
                   [sock[s] EXCEPT !.data = data \o copied, !.src = sock[s].src, !.lost = lost]]
    <3>1. sock' = [sock EXCEPT ![s] = [sock[s] EXCEPT !.data = data \o copied, !.lost = lost]]
      BY <1>0, <1>6 DEF TcpReceived, SockType
    <3>2. sock[s] \in SlotRecord
      BY <1>0, <1>1 DEF SockType
    <3> HIDE DEF copied, data, lost
    <3>3. [sock[s] EXCEPT !.data = data \o copied, !.lost = lost]
          = [sock[s] EXCEPT !.data = data \o copied, !.src = sock[s].src, !.lost = lost]
      BY <3>2 DEF SlotRecord
    <3> QED  BY <3>1, <3>3
  <2>7. pcb' = [pcb EXCEPT ![p] = [pcb[p] EXCEPT !.sent = pcb[p].sent + len]]
    BY <1>0, <1>6 DEF TcpReceived, PcbType
  <2>8. pcb[p].sent + len \in 0 .. MaxSent
    BY <1>1, <2>1, SocketAssumption
  <2> QED  BY <1>2, <1>5, <2>5, <2>6, <2>7, <2>8, <2>9
<1>7. CASE UdpReceived(p, len)
  <2> DEFINE from == pcb[p].sent + 1
             f == [i \in 1 .. k |-> from]
             copied == [i \in 1 .. k |-> <<p, from>>]
             src == IF k > 0 THEN from ELSE sock[s].src
  <2>1. from \in 1 .. MaxSent
    <3>1. pcb[p].sent < MaxSent
      BY <1>7 DEF UdpReceived
    <3> QED  BY <1>1, <3>1, SocketAssumption
  <2>2. f \in [1 .. k -> 1 .. MaxSent]
    BY <1>3, <2>1
  <2>3. /\ [i \in 1 .. k |-> <<p, f[i]>>] \in Seq(Units)
        /\ Len([i \in 1 .. k |-> <<p, f[i]>>]) = k
    BY <1>3, <2>2, CopyType
  <2>4. copied = [i \in 1 .. k |-> <<p, f[i]>>]
    OBVIOUS
  <2>5. copied \in Seq(Units) /\ Len(copied) = k
    BY <2>3, <2>4
  <2>6. sock' = [sock EXCEPT ![s] = [sock[s] EXCEPT !.data = data \o copied, !.src = src,
                                                    !.lost = sock[s].lost]]
    <3>1. sock' = [sock EXCEPT ![s] = [sock[s] EXCEPT !.data = data \o copied, !.src = src]]
      BY <1>0, <1>1, <1>2, <1>7 DEF UdpReceived, SockType, SlotRecord
    <3> HIDE DEF copied, data, src
    <3>2. [sock[s] EXCEPT !.data = data \o copied, !.src = src]
          = [sock[s] EXCEPT !.data = data \o copied, !.src = src, !.lost = sock[s].lost]
      BY <1>2 DEF SlotRecord
    <3> QED  BY <3>1, <3>2
  <2>7. pcb' = [pcb EXCEPT ![p] = [pcb[p] EXCEPT !.sent = from]]
    BY <1>0, <1>7 DEF UdpReceived, PcbType
  <2>8. src \in 0 .. MaxSent /\ from \in 0 .. MaxSent
    BY <1>2, <2>1
  <2> QED  BY <1>2, <1>5, <2>5, <2>6, <2>7, <2>8
<1> QED  BY <1>6, <1>7

(* tcp_err: the control block is freed and its slot lets go of it. *)
LEMMA ResetKeeps ==
    ASSUME IInv, NEW p \in Pcbs, Reset(p)
    PROVE  IInv'
<1>0. SockType /\ PcbType /\ HandleType /\ SlotInv /\ ArgInv
  BY DEF IInv
<1> DEFINE s == pcb[p].arg
           r == Failed(sock[s])
<1>1. s \in Slots /\ pcb[p] \in PcbRecord /\ pcb[p].state \notin Detached
  BY <1>0 DEF Reset, ArgInv, PcbType, PcbRecord, Detached
<1>2. sock[s] \in SlotRecord /\ Len(sock[s].data) <= Capacity
  BY <1>0, <1>1 DEF SockType
<1>3. r \in SlotRecord /\ r.pcb = NoPcb /\ r.data = sock[s].data
  BY <1>2 DEF Failed, SlotRecord
<1>4. sock' = [sock EXCEPT ![s] = r] /\ pcb' = [pcb EXCEPT ![p] = FreePcb]
  BY DEF Reset
<1>5. /\ SockType' /\ sock'[s].pcb = NoPcb
      /\ \A t \in Slots : t # s => sock'[t] = sock[t]
  BY <1>0, <1>1, <1>2, <1>3, <1>4 DEF SockType
<1>6. FreePcb \in PcbRecord /\ FreePcb.state \in Detached /\ FreePcb.arg = NoSlot
  BY SocketAssumption DEF FreePcb, PcbRecord, Detached
<1>7. PcbType' /\ ArgInv'
  BY <1>0, <1>1, <1>4, <1>6 DEF PcbType, ArgInv
<1>8. \A t \in Slots : t # s => sock[t].pcb # p
  BY <1>0, <1>1, SocketAssumption DEF SlotInv, Pcbs
<1>9. SlotInv'
  BY <1>0, <1>4, <1>5, <1>8 DEF SlotInv, SockType, SlotRecord, PcbType
<1>10. HandleType'
  BY <1>0 DEF Reset, Callback, userVars, HandleType
<1> QED  BY <1>5, <1>7, <1>9, <1>10 DEF IInv

(* lwIP frees a control block that the program closed. *)
LEMMA ClosedKeeps ==
    ASSUME IInv, NEW p \in Pcbs, Closed(p)
    PROVE  IInv'
<1>0. SockType /\ PcbType /\ HandleType /\ SlotInv /\ ArgInv
  BY DEF IInv
<1>1. SockType' /\ HandleType' /\ sock' = sock
  BY <1>0 DEF Closed, Callback, userVars, SockType, HandleType
<1>2. FreePcb \in PcbRecord /\ FreePcb.state \in Detached /\ FreePcb.arg = NoSlot
  BY SocketAssumption DEF FreePcb, PcbRecord, Detached
<1>3. PcbType' /\ ArgInv'
  BY <1>0, <1>2 DEF Closed, PcbType, ArgInv, Detached
<1>4. \A t \in Slots : sock[t].pcb # NoPcb => sock[t].pcb # p
  BY <1>0 DEF Closed, SlotInv, Detached
<1>5. SlotInv'
  BY <1>0, <1>1, <1>4 DEF Closed, SlotInv, PcbType, SockType, SlotRecord
<1> QED  BY <1>1, <1>3, <1>5 DEF IInv

-----------------------------------------------------------------------------
(* The invariant                                                           *)

LEMMA InitIInv == Init => IInv
<1> SUFFICES ASSUME Init PROVE IInv
  OBVIOUS
<1>1. /\ Blank("TCP") \in SlotRecord /\ Blank("TCP").pcb = NoPcb
      /\ Len(Blank("TCP").data) <= Capacity
  BY FreshType DEF Blank
<1>2. SockType /\ SlotInv
  BY <1>1 DEF Init, SockType, SlotInv
<1>3. PcbType /\ ArgInv
  BY SocketAssumption DEF Init, FreePcb, PcbType, PcbRecord, ArgInv, Detached
<1>4. HandleType
  BY DEF Init, HandleType
<1> QED  BY <1>2, <1>3, <1>4 DEF IInv

LEMMA CallKeeps ==
    ASSUME IInv, NEW u \in Users, Call(u)
    PROVE  IInv'
<1>0. HandleType
  BY DEF IInv
<1>1. CASE TcpCreate(u)
  BY <1>1, CreateFailsKeeps, CreateKeeps DEF TcpCreate, Pcbs
<1>2. CASE TcpConnect(u)
  BY <1>2, ConnectKeeps
<1>3. CASE TcpWrite(u)
  BY <1>3 DEF TcpWrite, IInv, SockType, PcbType, HandleType, SlotInv, ArgInv
<1>4. CASE TcpClose(u) \/ UdpClose(u)
  BY <1>4, CloseKeeps
<1>5. ASSUME NEW max_len \in 0 .. Capacity, TcpRead(u, max_len)
      PROVE  IInv'
  <2>1. max_len \in Nat /\ handle[u] \in Slots
    BY <1>0, <1>5, SocketAssumption DEF TcpRead, Holds, HandleType
  <2>2. HandleType' /\ UNCHANGED pcb /\ ReadFrom(u, handle[u], max_len)
    BY <1>0, <1>5 DEF TcpRead, HandleType
  <2> QED  BY <2>1, <2>2, ReadKeeps
<1>6. CASE UdpCreate(u)
  BY <1>6, CreateFailsKeeps, CreateKeeps DEF UdpCreate, Pcbs
<1>7. ASSUME NEW max_len \in 0 .. Capacity, UdpRecvfrom(u, max_len) PROVE IInv'
  BY <1>7, RecvfromKeeps
<1>8. CASE UdpBind(u) \/ UdpSendto(u)
  BY <1>8, BindsKeeps
<1> QED  BY <1>1, <1>2, <1>3, <1>4, <1>5, <1>6, <1>7, <1>8 DEF Call

LEMMA NextKeeps == IInv /\ [Next]_vars => IInv'
<1> SUFFICES ASSUME IInv, [Next]_vars PROVE IInv'
  OBVIOUS
<1>1. ASSUME NEW u \in Users, Call(u) PROVE IInv'
  BY <1>1, CallKeeps
<1>3. ASSUME NEW p \in TcpPcbs, TcpEvent(p) PROVE IInv'
  BY <1>3, ConnectedKeeps, FailedKeeps, ResetKeeps, ClosedKeeps, DataKeeps DEF TcpEvent, Pcbs
<1>4. ASSUME NEW p \in UdpPcbs, NEW len \in 1 .. Window, UdpReceived(p, len)
      PROVE  IInv'
  BY <1>4, DataKeeps DEF Pcbs
<1>5. CASE UNCHANGED vars
  BY <1>5 DEF vars, IInv, SockType, PcbType, HandleType, SlotInv, ArgInv
<1> QED  BY <1>1, <1>3, <1>4, <1>5, WifiConnectKeeps DEF Next

THEOREM InvariantHolds == Spec => []IInv
BY InitIInv, NextKeeps, PTL DEF Spec

(* Whatever fibers and peers do, a slot never points to a freed control    *)
(* block.                                                                  *)
THEOREM NoDanglingPcbHolds == Spec => []NoDanglingPcb
<1>1. IInv => NoDanglingPcb
  BY DEF IInv, SlotInv, NoDanglingPcb, Detached
<1> QED  BY <1>1, InvariantHolds, PTL

-----------------------------------------------------------------------------
(* Slots handed out once                                                   *)

(* No two fibers hold one slot, every slot that is called back is held,    *)
(* and the control block that calls back is the slot's.                    *)
OwnerInv ==
    /\ \A u, v \in Users : handle[u] # NoSlot /\ handle[u] = handle[v] => u = v
    /\ \A p \in Pcbs : pcb[p].arg # NoSlot =>
          /\ sock[pcb[p].arg].pcb = p
          /\ \E u \in Users : handle[u] = pcb[p].arg

(* Before net_init nothing has happened. *)
BeforeInit ==
    ~net_initialized =>
        /\ \A p \in Pcbs : pcb[p] = FreePcb
        /\ \A u \in Users : handle[u] = NoSlot

LEMMA NextBeforeInit == IInv /\ BeforeInit /\ [Next]_vars => BeforeInit'
<1> SUFFICES ASSUME IInv, BeforeInit, [Next]_vars, ~net_initialized' PROVE BeforeInit'
  BY DEF BeforeInit
<1>1. ASSUME NEW u \in Users, Call(u) PROVE net_initialized' = net_initialized
  <2>1. CASE TcpCreate(u) \/ UdpCreate(u)
    BY <2>1 DEF TcpCreate, UdpCreate, CreateFails, Create
  <2>2. CASE TcpConnect(u) \/ TcpWrite(u) \/ UdpBind(u) \/ UdpSendto(u)
    BY <2>2 DEF TcpConnect, TcpWrite, UdpBind, UdpSendto
  <2>3. CASE TcpClose(u) \/ UdpClose(u)
    BY <2>3 DEF TcpClose, UdpClose, Release
  <2>4. ASSUME NEW max_len, TcpRead(u, max_len) \/ UdpRecvfrom(u, max_len)
        PROVE  net_initialized' = net_initialized
    BY <2>4 DEF TcpRead, UdpRecvfrom
  <2> QED  BY <1>1, <2>1, <2>2, <2>3, <2>4 DEF Call
<1>2. ASSUME NEW p, TcpEvent(p) \/ \E len \in 1 .. Window : UdpReceived(p, len)
      PROVE  net_initialized' = net_initialized
  BY <1>2 DEF TcpEvent, Connected, ConnectFailed, ReceiveFailed, RemoteClosed, Reset, Closed,
        TcpReceived, UdpReceived,
        Callback, userVars
<1>3. ~net_initialized
  <2>1. CASE WifiConnect
    BY <2>1 DEF WifiConnect
  <2>2. CASE UNCHANGED vars
    BY <2>2 DEF vars
  <2> QED  BY <1>1, <1>2, <2>1, <2>2 DEF Next
<1>4. /\ \A p \in Pcbs : pcb[p] = FreePcb
      /\ \A u \in Users : handle[u] = NoSlot
  BY <1>3 DEF BeforeInit
<1>5. ASSUME NEW u \in Users, Call(u) PROVE FALSE
  BY <1>3, <1>4, <1>5 DEF Call, TcpCreate, UdpCreate, CreateFails, Create, MayCreate,
        TcpConnect, TcpWrite, TcpRead, TcpClose, UdpBind, UdpSendto, UdpRecvfrom,
        UdpClose, Holds
<1>6. ASSUME NEW p \in Pcbs, TcpEvent(p) \/ \E len \in 1 .. Window : UdpReceived(p, len)
      PROVE  FALSE
  <2>1. pcb[p].state = "free"
    BY <1>4 DEF FreePcb
  <2>2. CASE TcpEvent(p)
    BY <2>1, <2>2 DEF TcpEvent, Connected, ConnectFailed, ReceiveFailed, RemoteClosed, Reset,
          Closed, TcpReceived
  <2>3. CASE \E len \in 1 .. Window : UdpReceived(p, len)
    BY <2>1, <2>3 DEF UdpReceived
  <2> QED  BY <1>6, <2>2, <2>3
<1>7. UNCHANGED vars
  BY <1>5, <1>6 DEF Next, WifiConnect, Pcbs
<1> QED  BY <1>4, <1>7 DEF vars, BeforeInit

(* With Careful, the slot a creation takes is held by nobody. *)
LEMMA FreshSlot ==
    ASSUME IInv, OwnerInv, Careful, NEW u \in Users, MayCreate(u),
           NEW s \in Slots, Allocatable(s)
    PROVE  /\ \A v \in Users : handle[v] # s
           /\ \A p \in Pcbs : pcb[p].arg # s
<1>1. \A v \in Users : handle[v] # s
  BY DEF MayCreate, Allocatable, Slots, NoSlot
<1>2. s # NoSlot
  BY DEF Slots, NoSlot
<1> QED  BY <1>1, <1>2 DEF OwnerInv

LEMMA CreateFailsOwner ==
    ASSUME IInv, OwnerInv, Careful, NEW u \in Users, NEW proto, NEW pool,
           CreateFails(u, proto, pool)
    PROVE  OwnerInv'
<1>1. MayCreate(u) /\ UNCHANGED <<pcb, handle>>
  BY DEF CreateFails
<1>2. \A p \in Pcbs : pcb[p].arg # NoSlot =>
        sock'[pcb[p].arg] = sock[pcb[p].arg]
  <2>1. CASE UNCHANGED sock
    BY <2>1
  <2>2. ASSUME NEW s \in Slots, FirstFree(s), NEW r, sock' = [sock EXCEPT ![s] = r]
        PROVE  \A p \in Pcbs : pcb[p].arg # NoSlot => sock'[pcb[p].arg] = sock[pcb[p].arg]
    <3>1. \A p \in Pcbs : pcb[p].arg # s
      BY <1>1, <2>2, FreshSlot DEF FirstFree
    <3>2. \A p \in Pcbs : pcb[p].arg # NoSlot => pcb[p].arg \in Slots
      BY DEF IInv, PcbType, PcbRecord
    <3> QED  BY <2>2, <3>1, <3>2 DEF IInv, SockType
  <2> QED  BY <2>1, <2>2 DEF CreateFails
<1> QED  BY <1>1, <1>2 DEF OwnerInv

LEMMA CreateOwner ==
    ASSUME IInv, OwnerInv, Careful, NEW u \in Users, NEW proto,
           NEW pool \in SUBSET Pcbs, NEW socketState, NEW pcbState,
           Create(u, proto, pool, socketState, pcbState)
    PROVE  OwnerInv'
<1>a. PICK s \in Slots, p \in pool :
        /\ FirstFree(s)
        /\ sock' = [sock EXCEPT ![s] = Fresh(proto, socketState, p, TRUE)]
        /\ pcb' = [pcb EXCEPT ![p] = [state |-> pcbState, arg |-> s, sent |-> 0]]
        /\ handle' = [handle EXCEPT ![u] = s]
  BY DEF Create
<1>1. /\ \A v \in Users : handle[v] # s
      /\ \A q \in Pcbs : pcb[q].arg # s
  BY <1>a, FreshSlot DEF Create, FirstFree
<1>2. /\ handle'[u] = s
      /\ \A v \in Users : v # u => handle'[v] = handle[v]
      /\ handle[u] = NoSlot
  BY <1>a DEF IInv, HandleType, Create, MayCreate
<1>3. /\ p \in Pcbs /\ pcb'[p].arg = s
      /\ \A q \in Pcbs : q # p => pcb'[q] = pcb[q]
  BY <1>a DEF IInv, PcbType
<1>4. /\ sock'[s].pcb = p
      /\ \A t \in Slots : t # s => sock'[t] = sock[t]
  BY <1>a DEF IInv, SockType, Fresh
<1>5. \A v, w \in Users : handle'[v] # NoSlot /\ handle'[v] = handle'[w] => v = w
  BY <1>1, <1>2 DEF OwnerInv
<1>6. ASSUME NEW q \in Pcbs, pcb'[q].arg # NoSlot
      PROVE  /\ sock'[pcb'[q].arg].pcb = q
             /\ \E v \in Users : handle'[v] = pcb'[q].arg
  <2>1. CASE q = p
    BY <1>2, <1>3, <1>4, <2>1
  <2>2. CASE q # p
    <3>1. pcb'[q] = pcb[q] /\ pcb[q].arg \in Slots /\ pcb[q].arg # s
      BY <1>1, <1>3, <1>6, <2>2 DEF IInv, PcbType, PcbRecord
    <3>2. PICK v \in Users : handle[v] = pcb[q].arg
      BY <1>6, <3>1 DEF OwnerInv
    <3>3. handle'[v] = pcb'[q].arg
      BY <1>2, <1>6, <3>1, <3>2
    <3> QED  BY <1>4, <1>6, <3>1, <3>3 DEF OwnerInv
  <2> QED  BY <2>1, <2>2
<1> QED  BY <1>5, <1>6 DEF OwnerInv

(* Steps that only detach, or that leave links and handles alone. *)
LEMMA DetachOwner ==
    ASSUME OwnerInv, UNCHANGED handle,
           \A p \in Pcbs : pcb'[p].arg \in {pcb[p].arg, NoSlot},
           \A p \in Pcbs : pcb'[p].arg # NoSlot =>
               sock'[pcb'[p].arg].pcb = sock[pcb'[p].arg].pcb
    PROVE  OwnerInv'
BY DEF OwnerInv

LEMMA CloseOwner ==
    ASSUME IInv, OwnerInv, NEW u \in Users, TcpClose(u) \/ UdpClose(u)
    PROVE  OwnerInv'
<1> DEFINE s == handle[u]
           p == sock[s].pcb
<1>0. SockType /\ PcbType /\ HandleType /\ SlotInv /\ ArgInv
  BY DEF IInv
<1>1. s \in Slots /\ p \in Pcbs \cup {NoPcb}
  BY <1>0 DEF TcpClose, UdpClose, Holds, HandleType, SockType, SlotRecord
<1>2. /\ handle'[u] = NoSlot
      /\ \A v \in Users : v # u => handle'[v] = handle[v]
      /\ \A t \in Slots : t # s => sock'[t] = sock[t]
  BY <1>0, <1>1 DEF TcpClose, UdpClose, Release, HandleType, SockType
<1>3. \A q \in Pcbs : /\ q # p => pcb'[q] = pcb[q]
                      /\ q = p => pcb'[q].arg = NoSlot
  <2>1. \A q \in Pcbs : ClosePcb(q).arg = NoSlot /\ FreePcb.arg = NoSlot
    BY <1>0 DEF ClosePcb, FreePcb, PcbType, PcbRecord
  <2> QED  BY <1>0, <1>1, <2>1, SocketAssumption DEF TcpClose, UdpClose, PcbType, Pcbs
<1>4. ASSUME NEW q \in Pcbs, pcb'[q].arg # NoSlot
      PROVE  /\ sock'[pcb'[q].arg].pcb = q
             /\ \E v \in Users : handle'[v] = pcb'[q].arg
  <2>1. q # p /\ pcb'[q] = pcb[q] /\ pcb[q].arg \in Slots
    BY <1>0, <1>3, <1>4 DEF PcbType, PcbRecord
  <2>2. sock[pcb[q].arg].pcb = q
    BY <1>4, <2>1 DEF OwnerInv
  <2>3. pcb[q].arg # s
    BY <2>1, <2>2
  <2>4. PICK v \in Users : handle[v] = pcb[q].arg
    BY <1>4, <2>1 DEF OwnerInv
  <2>5. v # u /\ handle'[v] = pcb'[q].arg
    BY <1>2, <2>1, <2>3, <2>4
  <2>6. sock'[pcb'[q].arg].pcb = q
    BY <1>2, <2>1, <2>2, <2>3
  <2> QED  BY <2>5, <2>6
<1>5. \A v, w \in Users : handle'[v] # NoSlot /\ handle'[v] = handle'[w] => v = w
  BY <1>2 DEF OwnerInv
<1> QED  BY <1>4, <1>5 DEF OwnerInv

(* The control block of a callback keeps its slot, and the slot its        *)
(* control block.                                                          *)
LEMMA CallbackOwner ==
    ASSUME IInv, OwnerInv, NEW p \in Pcbs, pcb[p].arg \in Slots,
           UNCHANGED handle,
           NEW r, sock' = [sock EXCEPT ![pcb[p].arg] = r],
           NEW new, pcb' = [pcb EXCEPT ![p] = new],
           \/ new.arg = pcb[p].arg /\ r.pcb = sock[pcb[p].arg].pcb
           \/ new.arg = NoSlot
    PROVE  OwnerInv'
<1>0. SockType /\ PcbType
  BY DEF IInv
<1>1. \A q \in Pcbs : q # p => pcb'[q] = pcb[q]
  BY <1>0 DEF PcbType
<1>2. pcb'[p] = new
  BY <1>0 DEF PcbType
<1>3. /\ sock'[pcb[p].arg] = r
      /\ \A t \in Slots : t # pcb[p].arg => sock'[t] = sock[t]
  BY <1>0 DEF SockType
<1>4. \A q \in Pcbs : pcb'[q].arg \in {pcb[q].arg, NoSlot}
  BY <1>1, <1>2
<1>5. ASSUME NEW q \in Pcbs, pcb'[q].arg # NoSlot
      PROVE  sock'[pcb'[q].arg].pcb = sock[pcb'[q].arg].pcb
  <2>1. CASE q = p
    BY <1>2, <1>3, <1>5, <2>1
  <2>2. CASE q # p
    <3>1. pcb'[q].arg = pcb[q].arg /\ pcb[q].arg \in Slots
      BY <1>0, <1>1, <1>5, <2>2 DEF PcbType, PcbRecord
    <3>2. pcb[q].arg # pcb[p].arg
      BY <1>5, <2>2, <3>1 DEF OwnerInv, Slots, NoSlot
    <3> QED  BY <1>3, <3>1, <3>2
  <2> QED  BY <2>1, <2>2
<1> QED  BY <1>4, <1>5, DetachOwner

(* What a read leaves alone. *)
LEMMA ReadOwner ==
    ASSUME IInv, OwnerInv, NEW s \in Slots, NEW u, NEW max_len,
           ReadFrom(u, s, max_len), UNCHANGED <<pcb, handle>>
    PROVE  OwnerInv'
<1>0. SockType
  BY DEF IInv
<1>1. \A t \in Slots : sock'[t].pcb = sock[t].pcb
  BY <1>0 DEF ReadFrom, SockType, SlotRecord
<1>2. \A p \in Pcbs : pcb[p].arg # NoSlot => pcb[p].arg \in Slots
  BY DEF IInv, PcbType, PcbRecord
<1> QED  BY <1>1, <1>2, DetachOwner

LEMMA ConnectOwner ==
    ASSUME IInv, OwnerInv, NEW u \in Users, TcpConnect(u)
    PROVE  OwnerInv'
<1> DEFINE s == handle[u]
           p == sock[s].pcb
<1>0. SockType /\ PcbType /\ HandleType
  BY DEF IInv
<1>1. s \in Slots /\ p \in Pcbs
  BY <1>0 DEF TcpConnect, Holds, HandleType, SockType, SlotRecord
<1>2. \A t \in Slots : sock'[t].pcb = sock[t].pcb
  BY <1>0, <1>1 DEF TcpConnect, SockType, SlotRecord
<1>3. \A q \in Pcbs : pcb'[q].arg = pcb[q].arg
  BY <1>0, <1>1 DEF TcpConnect, PcbType, PcbRecord
<1>4. \A q \in Pcbs : pcb[q].arg # NoSlot => pcb[q].arg \in Slots
  BY <1>0 DEF PcbType, PcbRecord
<1>5. UNCHANGED handle
  BY DEF TcpConnect
<1> QED  BY <1>2, <1>3, <1>4, <1>5, DetachOwner

LEMMA RecvfromOwner ==
    ASSUME IInv, OwnerInv, NEW u \in Users, NEW max_len, UdpRecvfrom(u, max_len)
    PROVE  OwnerInv'
<1>0. SockType /\ PcbType /\ HandleType
  BY DEF IInv
<1>1. \A t \in Slots : sock'[t].pcb = sock[t].pcb
  BY <1>0 DEF UdpRecvfrom, SockType, SlotRecord
<1>2. \A q \in Pcbs : pcb[q].arg # NoSlot => pcb[q].arg \in Slots
  BY <1>0 DEF PcbType, PcbRecord
<1>3. UNCHANGED <<pcb, handle>>
  BY DEF UdpRecvfrom
<1> QED  BY <1>1, <1>2, <1>3, DetachOwner

LEMMA EventOwner ==
    ASSUME IInv, OwnerInv, NEW p \in Pcbs,
           \/ Connected(p) \/ ConnectFailed(p) \/ ReceiveFailed(p)
           \/ RemoteClosed(p) \/ Reset(p) \/ Closed(p)
           \/ \E len \in 1 .. Window : TcpReceived(p, len) \/ UdpReceived(p, len)
    PROVE  OwnerInv'
<1>0. SockType /\ PcbType /\ ArgInv
  BY DEF IInv
<1>1. UNCHANGED handle
  BY DEF Connected, ConnectFailed, ReceiveFailed, RemoteClosed, Reset, Closed, TcpReceived,
        UdpReceived, Callback, userVars
<1>2. CASE Closed(p)
  <2>1. \A q \in Pcbs : pcb'[q].arg \in {pcb[q].arg, NoSlot}
    BY <1>0, <1>2 DEF Closed, FreePcb, PcbType
  <2>2. sock' = sock
    BY <1>2 DEF Closed
  <2> QED  BY <1>1, <2>1, <2>2, DetachOwner
<1>3. CASE ~Closed(p)
  <2>1. pcb[p].arg \in Slots
    BY <1>0, <1>3 DEF Connected, ConnectFailed, ReceiveFailed, RemoteClosed, Reset,
          TcpReceived, UdpReceived, ArgInv, PcbType, PcbRecord, Detached
  <2>2. PICK r, new :
          /\ sock' = [sock EXCEPT ![pcb[p].arg] = r]
          /\ pcb' = [pcb EXCEPT ![p] = new]
          /\ \/ new.arg = pcb[p].arg /\ r.pcb = sock[pcb[p].arg].pcb
             \/ new.arg = NoSlot
    <3> DEFINE s == pcb[p].arg
    <3>1. sock[s] \in SlotRecord /\ pcb[p] \in PcbRecord
      BY <1>0, <2>1 DEF SockType, PcbType
    <3>2. CASE Connected(p)
      <4> DEFINE r1 == [sock[s] EXCEPT !.state = "CONNECTED"]
                 n1 == [pcb[p] EXCEPT !.state = "established"]
      <4>1. sock' = [sock EXCEPT ![s] = r1] /\ pcb' = [pcb EXCEPT ![p] = n1]
        BY <1>0, <3>2 DEF Connected, SockType, PcbType
      <4>2. n1.arg = s /\ r1.pcb = sock[s].pcb
        BY <3>1 DEF SlotRecord, PcbRecord
      <4> QED  BY <4>1, <4>2
    <3>3. CASE RemoteClosed(p)
      <4> DEFINE r2 == EndOfStream(sock[s])
                 n2 == [pcb[p] EXCEPT !.state = "close_wait"]
      <4>1. sock' = [sock EXCEPT ![s] = r2] /\ pcb' = [pcb EXCEPT ![p] = n2]
        BY <1>0, <3>3 DEF RemoteClosed, SockType, PcbType
      <4>2. n2.arg = s /\ r2.pcb = sock[s].pcb
        BY <3>1 DEF SlotRecord, PcbRecord, EndOfStream
      <4> QED  BY <4>1, <4>2
    <3>4. CASE Reset(p)
      <4>1. sock' = [sock EXCEPT ![s] = Failed(sock[s])] /\ pcb' = [pcb EXCEPT ![p] = FreePcb]
        BY <1>0, <3>4 DEF Reset, SockType, PcbType
      <4>2. FreePcb.arg = NoSlot
        BY DEF FreePcb
      <4> QED  BY <4>1, <4>2
    <3>7. CASE ConnectFailed(p)
      <4> DEFINE r5 == [sock[s] EXCEPT !.state = "ERROR"]
      <4>1. sock' = [sock EXCEPT ![s] = r5] /\ pcb' = [pcb EXCEPT ![p] = pcb[p]]
        BY <1>0, <3>7 DEF ConnectFailed, SockType, PcbType
      <4>2. r5.pcb = sock[s].pcb
        BY <3>1 DEF SlotRecord
      <4> QED  BY <4>1, <4>2
    <3>8. CASE ReceiveFailed(p)
      <4>1. sock' = [sock EXCEPT ![s] = sock[s]] /\ pcb' = [pcb EXCEPT ![p] = pcb[p]]
        BY <1>0, <3>8 DEF ReceiveFailed, SockType, PcbType
      <4> QED  BY <4>1
    <3>5. ASSUME NEW len \in 1 .. Window, TcpReceived(p, len)
          PROVE  \E r, new :
                   /\ sock' = [sock EXCEPT ![s] = r]
                   /\ pcb' = [pcb EXCEPT ![p] = new]
                   /\ new.arg = s /\ r.pcb = sock[s].pcb
      <4> DEFINE copied == [i \in 1 .. ToCopy(sock[s], len) |-> <<p, pcb[p].sent + i>>]
                 r3 == [sock[s] EXCEPT !.data = sock[s].data \o copied,
                                       !.lost = @ + len - ToCopy(sock[s], len)]
                 n3 == [pcb[p] EXCEPT !.sent = pcb[p].sent + len]
      <4>1. sock' = [sock EXCEPT ![s] = r3] /\ pcb' = [pcb EXCEPT ![p] = n3]
        BY <1>0, <3>5 DEF TcpReceived, SockType, PcbType
      <4>2. n3.arg = s /\ r3.pcb = sock[s].pcb
        BY <3>1 DEF SlotRecord, PcbRecord
      <4> HIDE DEF r3, n3
      <4> QED  BY <4>1, <4>2
    <3>6. ASSUME NEW len \in 1 .. Window, UdpReceived(p, len)
          PROVE  \E r, new :
                   /\ sock' = [sock EXCEPT ![s] = r]
                   /\ pcb' = [pcb EXCEPT ![p] = new]
                   /\ new.arg = s /\ r.pcb = sock[s].pcb
      <4> DEFINE from == pcb[p].sent + 1
                 k == ToCopy(sock[s], len)
                 d4 == sock[s].data \o [i \in 1 .. k |-> <<p, from>>]
                 src4 == IF k > 0 THEN from ELSE sock[s].src
                 r4 == [sock[s] EXCEPT !.data = d4, !.src = src4]
                 n4 == [pcb[p] EXCEPT !.sent = from]
      <4>1. sock' = [sock EXCEPT ![s] = r4] /\ pcb' = [pcb EXCEPT ![p] = n4]
        <5>1. sock' = [sock EXCEPT ![s] = r4]
          BY <1>0, <3>6 DEF UdpReceived, SockType
        <5>2. pcb' = [pcb EXCEPT ![p] = n4]
          BY <1>0, <3>6 DEF UdpReceived, PcbType
        <5> QED  BY <5>1, <5>2
      <4>2. n4.arg = s /\ r4.pcb = sock[s].pcb
        BY <3>1 DEF SlotRecord, PcbRecord
      <4> HIDE DEF r4, n4
      <4> QED  BY <4>1, <4>2
    <3> QED  BY <1>3, <3>2, <3>3, <3>4, <3>5, <3>6, <3>7, <3>8
  <2> QED  BY <1>1, <2>1, <2>2, CallbackOwner
<1> QED  BY <1>2, <1>3

LEMMA BindsOwner ==
    ASSUME IInv, OwnerInv, NEW u \in Users, UdpBind(u) \/ UdpSendto(u)
    PROVE  OwnerInv'
<1>1. \A q \in Pcbs : pcb'[q].arg = pcb[q].arg
  BY BindsKeeps
<1>2. UNCHANGED <<sock, handle>>
  BY DEF UdpBind, UdpSendto
<1> QED  BY <1>1, <1>2, DetachOwner

LEMMA NextOwner == IInv /\ BeforeInit /\ OwnerInv /\ Careful /\ [Next]_vars => OwnerInv'
<1> SUFFICES ASSUME IInv, BeforeInit, OwnerInv, Careful, [Next]_vars PROVE OwnerInv'
  OBVIOUS
<1>0. HandleType
  BY DEF IInv
<1>1. ASSUME NEW u \in Users, Call(u) PROVE OwnerInv'
  <2>1. CASE TcpCreate(u)
    BY <2>1, CreateFailsOwner, CreateOwner DEF TcpCreate, Pcbs
  <2>2. CASE UdpCreate(u)
    BY <2>2, CreateFailsOwner, CreateOwner DEF UdpCreate, Pcbs
  <2>3. CASE TcpConnect(u)
    BY <2>3, ConnectOwner
  <2>4. CASE TcpWrite(u)
    BY <2>4 DEF TcpWrite, OwnerInv
  <2>5. CASE TcpClose(u) \/ UdpClose(u)
    BY <2>5, CloseOwner
  <2>6. ASSUME NEW max_len \in 0 .. Capacity, TcpRead(u, max_len) PROVE OwnerInv'
    <3>1. handle[u] \in Slots /\ UNCHANGED <<pcb, handle>>
      BY <1>0, <2>6 DEF TcpRead, Holds, HandleType
    <3> QED  BY <2>6, <3>1, ReadOwner DEF TcpRead
  <2>7. ASSUME NEW max_len \in 0 .. Capacity, UdpRecvfrom(u, max_len) PROVE OwnerInv'
    BY <2>7, RecvfromOwner
  <2>8. CASE UdpBind(u) \/ UdpSendto(u)
    BY <2>8, BindsOwner
  <2> QED  BY <1>1, <2>1, <2>2, <2>3, <2>4, <2>5, <2>6, <2>7, <2>8 DEF Call
<1>2. CASE WifiConnect
  <2>1. CASE net_initialized
    BY <1>2, <2>1 DEF WifiConnect, AfterNetInit, OwnerInv
  <2>2. CASE ~net_initialized
    BY <1>2, <2>2 DEF WifiConnect, BeforeInit, FreePcb, OwnerInv
  <2> QED  BY <2>1, <2>2
<1>3. ASSUME NEW p \in TcpPcbs, TcpEvent(p) PROVE OwnerInv'
  BY <1>3, EventOwner DEF TcpEvent, Pcbs
<1>4. ASSUME NEW p \in UdpPcbs, NEW len \in 1 .. Window, UdpReceived(p, len)
      PROVE  OwnerInv'
  BY <1>4, EventOwner DEF Pcbs
<1>5. CASE UNCHANGED vars
  BY <1>5 DEF vars, OwnerInv
<1> QED  BY <1>1, <1>2, <1>3, <1>4, <1>5 DEF Next

LEMMA InitOwner == Init => OwnerInv /\ BeforeInit
BY DEF Init, OwnerInv, BeforeInit, FreePcb

(* As long as no socket is created while a held one is CLOSED, data, ends  *)
(* of streams and errors reach the socket of the connection they belong to.*)
THEOREM CallbackReachesOwnerHolds ==
    ASSUME Careful
    PROVE  Spec => []CallbackReachesOwner
<1>1. IInv /\ BeforeInit /\ OwnerInv /\ [Next]_vars => (BeforeInit /\ OwnerInv)'
  BY NextOwner, NextBeforeInit
<1>2. OwnerInv => CallbackReachesOwner
  BY DEF OwnerInv, CallbackReachesOwner
<1>3. Spec => []OwnerInv
  BY <1>1, InitOwner, InvariantHolds, PTL DEF Spec
<1> QED  BY <1>2, <1>3, PTL

-----------------------------------------------------------------------------
(* Buffers                                                                 *)

Buffered(table) == {s \in Slots : table[s].buf}

(* A slot with a buffer is held by a fiber, and bufs counts these slots. *)
BufInv ==
    /\ NoBufferLeak
    /\ \A s \in Slots : sock[s].buf => \E u \in Users : handle[u] = s

LEMMA BufferedFinite == \A table : IsFiniteSet(Buffered(table))
<1>1. IsFiniteSet(Slots)
  BY SocketAssumption, FS_Interval DEF Slots
<1> QED  BY <1>1, FS_Subset DEF Buffered

(* One slot's buffer appears or goes, or stays. *)
LEMMA BufferedUpdate ==
    ASSUME SockType, NEW s \in Slots, NEW r, sock' = [sock EXCEPT ![s] = r]
    PROVE  /\ (r.buf <=> sock[s].buf) =>
                Cardinality(Buffered(sock')) = Cardinality(Buffered(sock))
           /\ r.buf /\ ~sock[s].buf =>
                Cardinality(Buffered(sock')) = Cardinality(Buffered(sock)) + 1
           /\ ~r.buf /\ sock[s].buf =>
                Cardinality(Buffered(sock')) = Cardinality(Buffered(sock)) - 1
<1>1. IsFiniteSet(Buffered(sock))
  BY BufferedFinite
<1>2. sock'[s] = r /\ \A t \in Slots : t # s => sock'[t] = sock[t]
  BY DEF SockType
<1>3. ASSUME r.buf <=> sock[s].buf
      PROVE  Buffered(sock') = Buffered(sock)
  BY <1>2, <1>3 DEF Buffered
<1>4. ASSUME r.buf, ~sock[s].buf
      PROVE  s \notin Buffered(sock) /\ Buffered(sock') = Buffered(sock) \cup {s}
  BY <1>2, <1>4 DEF Buffered
<1>5. ASSUME ~r.buf, sock[s].buf
      PROVE  s \in Buffered(sock) /\ Buffered(sock') = Buffered(sock) \ {s}
  BY <1>2, <1>5 DEF Buffered
<1>6. /\ Cardinality(Buffered(sock) \cup {s}) =
           IF s \in Buffered(sock) THEN Cardinality(Buffered(sock)) ELSE Cardinality(Buffered(sock)) + 1
      /\ Cardinality(Buffered(sock) \ {s}) =
           IF s \in Buffered(sock) THEN Cardinality(Buffered(sock)) - 1 ELSE Cardinality(Buffered(sock))
  BY <1>1, FS_AddElement, FS_RemoveElement
<1>7. (r.buf <=> sock[s].buf) => Cardinality(Buffered(sock')) = Cardinality(Buffered(sock))
  BY <1>3, Zenon
<1>8. r.buf /\ ~sock[s].buf => Cardinality(Buffered(sock')) = Cardinality(Buffered(sock)) + 1
  BY <1>4, <1>6, Zenon
<1>9. ~r.buf /\ sock[s].buf => Cardinality(Buffered(sock')) = Cardinality(Buffered(sock)) - 1
  BY <1>5, <1>6, Zenon
<1> QED  BY <1>7, <1>8, <1>9

(* Steps that leave every slot its buffer, or the lack of one. *)
LEMMA BuffersStay ==
    ASSUME BufInv, UNCHANGED bufs, \A s \in Slots : sock'[s].buf = sock[s].buf,
           \A s \in Slots : (\E u \in Users : handle[u] = s) =>
                            (\E u \in Users : handle'[u] = s)
    PROVE  BufInv'
<1>1. {s \in Slots : sock'[s].buf} = {s \in Slots : sock[s].buf}
  OBVIOUS
<1> QED  BY <1>1 DEF BufInv, NoBufferLeak

LEMMA CreateFailsBuffers ==
    ASSUME IInv, OwnerInv, BufInv, Careful, NEW u \in Users, NEW proto \in {"TCP", "UDP"},
           NEW pool, CreateFails(u, proto, pool)
    PROVE  BufInv'
<1>1. MayCreate(u) /\ UNCHANGED <<bufs, handle>>
  BY DEF CreateFails
<1>2. CASE UNCHANGED sock
  BY <1>1, <1>2, BuffersStay
<1>3. ASSUME NEW s \in Slots, FirstFree(s), NEW r, ~r.buf, sock' = [sock EXCEPT ![s] = r]
      PROVE  BufInv'
  <2>1. \A v \in Users : handle[v] # s
    BY <1>1, <1>3, FreshSlot DEF FirstFree
  <2>2. ~sock[s].buf
    BY <2>1 DEF BufInv
  <2>3. sock[s].buf \in BOOLEAN /\ sock'[s] = r /\ \A t \in Slots : t # s => sock'[t] = sock[t]
    BY <1>3 DEF IInv, SockType, SlotRecord
  <2>4. {t \in Slots : sock'[t].buf} = {t \in Slots : sock[t].buf}
    BY <1>3, <2>2, <2>3
  <2>5. \A t \in Slots : sock'[t].buf => \E v \in Users : handle'[v] = t
    BY <1>1, <1>3, <2>3 DEF BufInv
  <2> QED  BY <1>1, <2>4, <2>5 DEF BufInv, NoBufferLeak
<1>4. ~Blank(proto).buf /\ ~Freed(Fresh(proto, "CLOSED", NoPcb, TRUE)).buf
  BY DEF Blank, Freed, Fresh
<1> QED  BY <1>2, <1>3, <1>4 DEF CreateFails

LEMMA CreateBuffers ==
    ASSUME IInv, OwnerInv, BufInv, Careful, NEW u \in Users, NEW proto,
           NEW pool, NEW socketState, NEW pcbState,
           Create(u, proto, pool, socketState, pcbState)
    PROVE  BufInv'
<1>a. PICK s \in Slots, p \in pool :
        /\ FirstFree(s)
        /\ sock' = [sock EXCEPT ![s] = Fresh(proto, socketState, p, TRUE)]
        /\ handle' = [handle EXCEPT ![u] = s]
  BY DEF Create
<1>0. MayCreate(u) /\ bufs' = bufs + 1 /\ handle[u] = NoSlot
  BY DEF Create, MayCreate
<1>1. \A v \in Users : handle[v] # s
  BY <1>0, <1>a, FreshSlot DEF FirstFree
<1>2. ~sock[s].buf
  BY <1>1 DEF BufInv
<1>3. Fresh(proto, socketState, p, TRUE).buf = TRUE
  BY DEF Fresh
<1>4. Cardinality(Buffered(sock')) = Cardinality(Buffered(sock)) + 1
  BY <1>a, <1>2, <1>3, BufferedUpdate, Zenon DEF IInv
<1>5. NoBufferLeak'
  BY <1>0, <1>4 DEF BufInv, NoBufferLeak, Buffered
<1>6. ASSUME NEW t \in Slots, sock'[t].buf  PROVE \E v \in Users : handle'[v] = t
  <2>1. CASE t = s
    BY <1>a, <2>1 DEF IInv, HandleType
  <2>2. CASE t # s
    <3>1. sock[t].buf
      BY <1>a, <1>6, <2>2 DEF IInv, SockType
    <3>2. PICK v \in Users : handle[v] = t
      BY <3>1 DEF BufInv
    <3>3. v # u
      BY <1>0, <3>2 DEF Slots, NoSlot
    <3> QED  BY <1>a, <3>2, <3>3 DEF IInv, HandleType
  <2> QED  BY <2>1, <2>2
<1> QED  BY <1>5, <1>6 DEF BufInv

LEMMA CloseBuffers ==
    ASSUME IInv, BufInv, NEW u \in Users, TcpClose(u) \/ UdpClose(u)
    PROVE  BufInv'
<1> DEFINE s == handle[u]
<1>0. /\ s \in Slots
      /\ sock' = [sock EXCEPT ![s] = Freed(sock[s])]
      /\ bufs' = bufs - BufferOf(sock[s])
      /\ handle' = [handle EXCEPT ![u] = NoSlot]
  BY DEF TcpClose, UdpClose, Release, Holds, IInv, HandleType, SockType
<1>1. Freed(sock[s]).buf = FALSE /\ sock[s].buf \in BOOLEAN
  BY <1>0 DEF IInv, SockType, SlotRecord, Freed
<1>2. Cardinality(Buffered(sock')) = Cardinality(Buffered(sock)) - BufferOf(sock[s])
  <2>1. SockType /\ Cardinality(Buffered(sock)) \in Nat
    BY BufferedFinite, FS_CardinalityType DEF IInv
  <2>2. CASE sock[s].buf
    <3>1. Cardinality(Buffered(sock')) = Cardinality(Buffered(sock)) - 1
      BY <1>0, <1>1, <2>1, <2>2, BufferedUpdate, Zenon
    <3> QED  BY <2>2, <3>1 DEF BufferOf
  <2>3. CASE ~sock[s].buf
    <3>1. Cardinality(Buffered(sock')) = Cardinality(Buffered(sock))
      BY <1>0, <1>1, <2>1, <2>3, BufferedUpdate, Zenon
    <3> QED  BY <2>1, <2>3, <3>1 DEF BufferOf
  <2> QED  BY <2>2, <2>3
<1>3. NoBufferLeak'
  BY <1>0, <1>2 DEF BufInv, NoBufferLeak, Buffered
<1>4. ASSUME NEW t \in Slots, sock'[t].buf  PROVE \E v \in Users : handle'[v] = t
  <2>1. t # s /\ sock[t].buf
    BY <1>0, <1>1, <1>4 DEF IInv, SockType
  <2>2. PICK v \in Users : handle[v] = t
    BY <2>1 DEF BufInv
  <2> QED  BY <1>0, <2>1, <2>2 DEF IInv, HandleType
<1> QED  BY <1>3, <1>4 DEF BufInv

LEMMA NextBuffers ==
    IInv /\ BeforeInit /\ OwnerInv /\ BufInv /\ Careful /\ [Next]_vars => BufInv'
<1> SUFFICES ASSUME IInv, BeforeInit, OwnerInv, BufInv, Careful, [Next]_vars PROVE BufInv'
  OBVIOUS
<1>0. SockType /\ PcbType /\ HandleType /\ ArgInv
  BY DEF IInv
<1>1. ASSUME NEW u \in Users, Call(u) PROVE BufInv'
  <2>1. CASE TcpCreate(u) \/ UdpCreate(u)
    BY <2>1, CreateFailsBuffers, CreateBuffers DEF TcpCreate, UdpCreate
  <2>2. CASE TcpConnect(u)
    BY <1>0, <2>2, BuffersStay DEF TcpConnect, SockType, SlotRecord
  <2>3. CASE TcpWrite(u) \/ UdpBind(u) \/ UdpSendto(u)
    BY <2>3, BuffersStay DEF TcpWrite, UdpBind, UdpSendto
  <2>4. CASE TcpClose(u) \/ UdpClose(u)
    BY <2>4, CloseBuffers
  <2>5. ASSUME NEW max_len, TcpRead(u, max_len) PROVE BufInv'
    BY <1>0, <2>5, BuffersStay DEF TcpRead, ReadFrom, SockType, SlotRecord
  <2>6. ASSUME NEW max_len, UdpRecvfrom(u, max_len) PROVE BufInv'
    BY <1>0, <2>6, BuffersStay DEF UdpRecvfrom, SockType, SlotRecord
  <2> QED  BY <1>1, <2>1, <2>2, <2>3, <2>4, <2>5, <2>6 DEF Call
<1>2. CASE WifiConnect
  <2>1. CASE net_initialized
    BY <1>2, <2>1, BuffersStay DEF WifiConnect, AfterNetInit
  <2>2. CASE ~net_initialized
    <3>1. \A s \in Slots : ~sock[s].buf
      BY <2>2 DEF BeforeInit, BufInv, Slots, NoSlot
    <3>2. \A s \in Slots : sock'[s].buf = FALSE
      BY <1>2, <2>2 DEF WifiConnect, AfterNetInit, EmptyTable, Blank, Fresh
    <3>3. {s \in Slots : sock'[s].buf} = {s \in Slots : sock[s].buf}
      BY <3>1, <3>2
    <3> QED  BY <1>2, <3>2, <3>3 DEF WifiConnect, BufInv, NoBufferLeak
  <2> QED  BY <2>1, <2>2
<1>3. ASSUME NEW p \in Pcbs,
             TcpEvent(p) \/ \E len \in 1 .. Window : UdpReceived(p, len)
      PROVE  BufInv'
  <2>1. UNCHANGED <<bufs, handle>>
    BY <1>3 DEF TcpEvent, Connected, ConnectFailed, ReceiveFailed, RemoteClosed, Reset, Closed,
        TcpReceived, UdpReceived,
          Callback, userVars
  <2>2. \A s \in Slots : sock'[s].buf = sock[s].buf
    <3>1. CASE \/ Connected(p) \/ ConnectFailed(p) \/ ReceiveFailed(p)
               \/ RemoteClosed(p) \/ Reset(p) \/ Closed(p)
      <4>1. CASE Connected(p)
        BY <1>0, <4>1 DEF Connected, SockType, SlotRecord
      <4>2. CASE RemoteClosed(p)
        BY <1>0, <4>2 DEF RemoteClosed, EndOfStream, SockType, SlotRecord
      <4>3. CASE Reset(p)
        BY <1>0, <4>3 DEF Reset, Failed, SockType, SlotRecord
      <4>4. CASE Closed(p)
        BY <4>4 DEF Closed
      <4>5. CASE ConnectFailed(p)
        BY <1>0, <4>5 DEF ConnectFailed, SockType, SlotRecord
      <4>6. CASE ReceiveFailed(p)
        BY <4>6 DEF ReceiveFailed
      <4> QED  BY <3>1, <4>1, <4>2, <4>3, <4>4, <4>5, <4>6
    <3>2. ASSUME NEW len, TcpReceived(p, len) PROVE \A s \in Slots : sock'[s].buf = sock[s].buf
      <4>1. \E data, lost : sock' = [sock EXCEPT ![pcb[p].arg] =
                              [sock[pcb[p].arg] EXCEPT !.data = data, !.lost = lost]]
        BY <1>0, <3>2 DEF TcpReceived, SockType
      <4> QED  BY <1>0, <4>1 DEF SockType, SlotRecord
    <3>3. ASSUME NEW len, UdpReceived(p, len) PROVE \A s \in Slots : sock'[s].buf = sock[s].buf
      <4>1. \E data, src : sock' = [sock EXCEPT ![pcb[p].arg] =
                              [sock[pcb[p].arg] EXCEPT !.data = data, !.src = src]]
        BY <1>0, <3>3 DEF UdpReceived, SockType
      <4> QED  BY <1>0, <4>1 DEF SockType, SlotRecord
    <3> QED  BY <1>3, <3>1, <3>2, <3>3 DEF TcpEvent
  <2> QED  BY <2>1, <2>2, BuffersStay
<1>4. CASE UNCHANGED vars
  BY <1>4, BuffersStay DEF vars
<1> QED  BY <1>1, <1>2, <1>3, <1>4 DEF Next, Pcbs

LEMMA InitBuffers == Init => BufInv
<1> SUFFICES ASSUME Init PROVE BufInv
  OBVIOUS
<1>1. {s \in Slots : sock[s].buf} = {}
  BY DEF Init, Blank, Fresh
<1> QED  BY <1>1, FS_EmptySet DEF Init, BufInv, NoBufferLeak, Blank, Fresh

(* As long as no socket is created while a held one is CLOSED, every       *)
(* buffer malloc has handed out hangs in a slot: none is lost.             *)
THEOREM NoBufferLeakHolds ==
    ASSUME Careful
    PROVE  Spec => []NoBufferLeak
<1>1. IInv /\ BeforeInit /\ OwnerInv /\ BufInv /\ [Next]_vars
        => (BeforeInit /\ OwnerInv /\ BufInv)'
  BY NextOwner, NextBeforeInit, NextBuffers
<1>2. BufInv => NoBufferLeak
  BY DEF BufInv
<1>3. Spec => []BufInv
  BY <1>1, InitOwner, InitBuffers, InvariantHolds, PTL DEF Spec
<1> QED  BY <1>2, <1>3, PTL

-----------------------------------------------------------------------------
(* Histories                                                               *)

HistoryType ==
    /\ opened \subseteq Users
    /\ taken \in [Users -> 0 .. MaxSent]
    /\ conn \in [Users -> Pcbs \cup {NoPcb}]

LEMMA InitHistory == Init => HistoryType
BY SocketAssumption DEF Init, HistoryType

LEMMA MinType == \A n \in Nat : Min2(n, MaxSent) \in 0 .. MaxSent
BY SocketAssumption DEF Min2

LEMMA NextHistory == IInv /\ HistoryType /\ [Next]_vars => HistoryType'
<1> SUFFICES ASSUME IInv, HistoryType, [Next]_vars PROVE HistoryType'
  OBVIOUS
<1>1. ASSUME NEW u \in Users, Call(u) PROVE HistoryType'
  <2>1. CASE CreateFails(u, "TCP", TcpPcbs) \/ CreateFails(u, "UDP", UdpPcbs)
    BY <2>1 DEF CreateFails, HistoryType
  <2>2. CASE \/ Create(u, "TCP", TcpPcbs, "CLOSED", "new")
             \/ Create(u, "UDP", UdpPcbs, "CONNECTED", "udp")
    <3>1. \E p \in Pcbs : conn' = [conn EXCEPT ![u] = p]
      BY <2>2 DEF Create, Pcbs
    <3>2. opened' = opened /\ taken' = [taken EXCEPT ![u] = 0]
      BY <2>2 DEF Create
    <3> QED  BY <3>1, <3>2, SocketAssumption DEF HistoryType
  <2>3. CASE TcpConnect(u) \/ TcpWrite(u) \/ UdpBind(u) \/ UdpSendto(u)
    BY <2>3 DEF TcpConnect, TcpWrite, UdpBind, UdpSendto, HistoryType
  <2>4. CASE TcpClose(u) \/ UdpClose(u)
    BY <2>4, SocketAssumption DEF TcpClose, UdpClose, Release, HistoryType
  <2>5. ASSUME NEW max_len \in 0 .. Capacity, TcpRead(u, max_len) PROVE HistoryType'
    <3> DEFINE s == handle[u]
               k == Min2(Len(sock[s].data), max_len)
    <3>1. s \in Slots /\ sock[s].data \in Seq(Units)
      BY <2>5 DEF TcpRead, Holds, IInv, HandleType, SockType, SlotRecord
    <3>2. k \in 0 .. Len(sock[s].data) /\ Len(sock[s].data) \in Nat
      BY <2>5, <3>1, SocketAssumption DEF Min2
    <3>3. SubSeq(sock[s].data, 1, k) \in Seq(Units) /\ Len(SubSeq(sock[s].data, 1, k)) = k
      BY <3>1, <3>2
    <3>4. ret'.units = SubSeq(sock[s].data, 1, k)
      BY <2>5 DEF TcpRead, ReadFrom
    <3>5. taken[u] + k \in Nat
      BY <3>2, SocketAssumption DEF HistoryType
    <3>6. taken' = [taken EXCEPT ![u] = Min2(taken[u] + k, MaxSent)] /\ UNCHANGED <<opened, conn>>
      BY <2>5, <3>3, <3>4 DEF TcpRead, HistoryType
    <3> QED  BY <3>5, <3>6, MinType DEF HistoryType
  <2>6. ASSUME NEW max_len, UdpRecvfrom(u, max_len) PROVE HistoryType'
    BY <2>6 DEF UdpRecvfrom, HistoryType
  <2> QED  BY <1>1, <2>1, <2>2, <2>3, <2>4, <2>5, <2>6 DEF Call, TcpCreate, UdpCreate
<1>2. ASSUME NEW p, TcpEvent(p) \/ \E len \in 1 .. Window : UdpReceived(p, len)
      PROVE  HistoryType'
  BY <1>2 DEF TcpEvent, Connected, ConnectFailed, ReceiveFailed, RemoteClosed, Reset, Closed,
        TcpReceived, UdpReceived,
        Callback, userVars, HistoryType
<1>3. CASE WifiConnect \/ UNCHANGED vars
  BY <1>3 DEF WifiConnect, vars, HistoryType
<1> QED  BY <1>1, <1>2, <1>3 DEF Next

-----------------------------------------------------------------------------
(* Streams                                                                 *)

(* What comes after the first n bytes of a connection, with at most lost    *)
(* bytes left out.                                                         *)
Follows(data, p, n, lost) ==
    /\ \A i \in DOMAIN data : data[i][1] = p /\ data[i][2] - (n + i) \in 0 .. lost
    /\ \A i, j \in DOMAIN data : i < j => data[i][2] < data[j][2]

(* What a callback copies of a connection whose first n bytes came before. *)
Run(copied, p, n) ==
    \A i \in 1 .. Len(copied) : copied[i][1] = p /\ copied[i][2] = n + i

(* The stream of fiber u: what it has read, what waits in its slot and     *)
(* what found no room there are all that its control block has received,   *)
(* in order; after a reset the slot has no control block any more.         *)
StreamOf(u) ==
    LET s == sock[handle[u]] IN
    /\ conn[u] \in TcpPcbs
    /\ s.pcb \in {NoPcb, conn[u]}
    /\ s.state # "ERROR" => s.pcb # NoPcb
    /\ s.pcb # NoPcb => pcb[conn[u]].sent = taken[u] + Len(s.data) + s.lost
    /\ taken[u] + Len(s.data) + s.lost <= MaxSent
    /\ Follows(s.data, conn[u], taken[u], s.lost)

StreamInv ==
    /\ \A u \in opened : Holds(u, "TCP")
    /\ \A u \in Users : Holds(u, "TCP") => StreamOf(u)

(* The control block of a TCP socket is a TCP one, and calls back the slot. *)
LEMMA StreamPcb ==
    ASSUME IInv, StreamInv, NEW u \in Users, Holds(u, "TCP"),
           sock[handle[u]].pcb # NoPcb
    PROVE  /\ handle[u] \in Slots
           /\ sock[handle[u]].pcb = conn[u] /\ conn[u] \in TcpPcbs /\ conn[u] \in Pcbs
           /\ pcb[conn[u]].arg = handle[u] /\ pcb[conn[u]].state \notin Detached
BY DEF StreamInv, StreamOf, Holds, IInv, HandleType, SlotInv, Pcbs

(* A step that leaves the socket of v and its connection alone. *)
Untouched(v) ==
    /\ handle'[v] = handle[v] /\ conn'[v] = conn[v] /\ taken'[v] = taken[v]
    /\ handle[v] # NoSlot => sock'[handle[v]] = sock[handle[v]]
    /\ Holds(v, "TCP") /\ sock[handle[v]].pcb # NoPcb =>
         pcb'[conn[v]].sent = pcb[conn[v]].sent

LEMMA UntouchedStream ==
    ASSUME StreamInv, NEW v \in Users, Untouched(v)
    PROVE  /\ Holds(v, "TCP")' <=> Holds(v, "TCP")
           /\ Holds(v, "TCP") => StreamOf(v)'
<1>1. Holds(v, "TCP")' <=> Holds(v, "TCP")
  BY DEF Untouched, Holds
<1>2. ASSUME Holds(v, "TCP") PROVE StreamOf(v)'
  <2>1. StreamOf(v) /\ NoPcb \notin TcpPcbs
    BY <1>2, SocketAssumption DEF StreamInv
  <2>2. /\ handle'[v] = handle[v] /\ conn'[v] = conn[v] /\ taken'[v] = taken[v]
        /\ sock'[handle[v]] = sock[handle[v]]
    BY <1>2 DEF Untouched, Holds
  <2>3. sock[handle[v]].pcb # NoPcb => pcb'[conn[v]].sent = pcb[conn[v]].sent
    BY <1>2, <2>1 DEF Untouched, StreamOf
  <2> QED  BY <2>1, <2>2, <2>3 DEF StreamOf
<1> QED  BY <1>1, <1>2

(* A step about one socket. *)
LEMMA OneStream ==
    ASSUME HistoryType, StreamInv, NEW u \in Users,
           \A v \in Users : v # u => Untouched(v),
           Holds(u, "TCP")' => StreamOf(u)',
           opened' \subseteq opened \cup {u},
           u \in opened' => Holds(u, "TCP")'
    PROVE  StreamInv'
<1>1. \A v \in Users : v # u => /\ Holds(v, "TCP")' <=> Holds(v, "TCP")
                                /\ Holds(v, "TCP") => StreamOf(v)'
  BY UntouchedStream
<1>2. \A v \in Users : Holds(v, "TCP")' => StreamOf(v)'
  BY <1>1
<1>3. \A v \in opened' : Holds(v, "TCP")'
  <2> SUFFICES ASSUME NEW v \in opened', v # u PROVE Holds(v, "TCP")'
    OBVIOUS
  <2>1. v \in opened /\ v \in Users
    BY DEF HistoryType
  <2> QED  BY <1>1, <2>1 DEF StreamInv
<1> QED  BY <1>2, <1>3 DEF StreamInv

(* A step about none. *)
LEMMA NoStream ==
    ASSUME HistoryType, StreamInv, \A v \in Users : Untouched(v), opened' \subseteq opened
    PROVE  StreamInv'
<1>1. \A v \in Users : /\ Holds(v, "TCP")' <=> Holds(v, "TCP")
                       /\ Holds(v, "TCP") => StreamOf(v)'
  BY UntouchedStream
<1> QED  BY <1>1 DEF StreamInv, HistoryType

(* The other fibers, when a step changes one slot and one control block. *)
LEMMA OthersUntouched ==
    ASSUME IInv, OwnerInv, HistoryType, StreamInv, NEW u \in Users, handle[u] \in Slots,
           \A t \in Slots : t # handle[u] => sock'[t] = sock[t],
           \A q \in Pcbs : pcb[q].arg \notin {handle[u], NoSlot} =>
               pcb'[q].sent = pcb[q].sent,
           NEW v \in Users, v # u,
           handle'[v] = handle[v], conn'[v] = conn[v], taken'[v] = taken[v]
    PROVE  Untouched(v)
<1>1. ASSUME handle[v] # NoSlot
      PROVE  handle[v] \in Slots /\ handle[v] # handle[u]
  BY <1>1 DEF OwnerInv, IInv, HandleType
<1>2. ASSUME Holds(v, "TCP"), sock[handle[v]].pcb # NoPcb
      PROVE  pcb'[conn[v]].sent = pcb[conn[v]].sent
  <2>1. pcb[conn[v]].arg = handle[v] /\ conn[v] \in Pcbs /\ handle[v] # NoSlot
    BY <1>2, StreamPcb DEF Holds
  <2> QED  BY <1>1, <2>1
<1> QED  BY <1>1, <1>2 DEF Untouched

(* An action about one socket leaves the streams of the others alone. *)
LEMMA CreateFailsStream ==
    ASSUME IInv, OwnerInv, HistoryType, StreamInv, Careful, NEW u \in Users,
           NEW proto, NEW pool, CreateFails(u, proto, pool)
    PROVE  StreamInv'
<1>1. MayCreate(u) /\ UNCHANGED <<pcb, handle, opened, taken, conn>>
  BY DEF CreateFails
<1>2. \A v \in Users : handle[v] # NoSlot => sock'[handle[v]] = sock[handle[v]]
  <2>1. CASE UNCHANGED sock
    BY <2>1
  <2>2. ASSUME NEW s \in Slots, FirstFree(s), NEW r, sock' = [sock EXCEPT ![s] = r],
               NEW v \in Users, handle[v] # NoSlot
        PROVE  sock'[handle[v]] = sock[handle[v]]
    <3>1. handle[v] # s /\ handle[v] \in Slots
      BY <1>1, <2>2, FreshSlot DEF FirstFree, IInv, HandleType
    <3> QED  BY <2>2, <3>1 DEF IInv, SockType
  <2> QED  BY <2>1, <2>2 DEF CreateFails
<1> QED  BY <1>1, <1>2, NoStream DEF Untouched

LEMMA CreateStream ==
    ASSUME IInv, OwnerInv, HistoryType, StreamInv, Careful, NEW u \in Users,
           \/ Create(u, "TCP", TcpPcbs, "CLOSED", "new")
           \/ Create(u, "UDP", UdpPcbs, "CONNECTED", "udp")
    PROVE  StreamInv'
<1>0. SockType /\ PcbType /\ HandleType /\ SlotInv
  BY DEF IInv
<1>a. PICK proto \in {"TCP", "UDP"}, state \in {"CLOSED", "CONNECTED"}, ps \in {"new", "udp"},
           s \in Slots, p \in Pcbs :
        /\ proto = "TCP" => p \in TcpPcbs
        /\ FirstFree(s) /\ pcb[p].state = "free"
        /\ sock' = [sock EXCEPT ![s] = Fresh(proto, state, p, TRUE)]
        /\ pcb' = [pcb EXCEPT ![p] = [state |-> ps, arg |-> s, sent |-> 0]]
        /\ handle' = [handle EXCEPT ![u] = s]
        /\ conn' = [conn EXCEPT ![u] = p]
        /\ taken' = [taken EXCEPT ![u] = 0]
        /\ opened' = opened
  <2>1. CASE Create(u, "TCP", TcpPcbs, "CLOSED", "new")
    BY <2>1, Zenon DEF Create, Pcbs
  <2>2. CASE Create(u, "UDP", UdpPcbs, "CONNECTED", "udp")
    BY <2>2 DEF Create, Pcbs
  <2> QED  BY <2>1, <2>2
<1>b. MayCreate(u) /\ handle[u] = NoSlot
  BY DEF Create, MayCreate
<1>1. \A v \in Users : handle[v] # s
  BY <1>a, <1>b, FreshSlot DEF FirstFree
<1>2. ASSUME NEW v \in Users, v # u PROVE Untouched(v)
  <2>1. handle'[v] = handle[v] /\ conn'[v] = conn[v] /\ taken'[v] = taken[v]
    BY <1>0, <1>2, <1>a DEF HistoryType, HandleType
  <2>2. handle[v] # NoSlot => sock'[handle[v]] = sock[handle[v]]
    BY <1>0, <1>1, <1>a DEF SockType, HandleType
  <2>3. ASSUME Holds(v, "TCP"), sock[handle[v]].pcb # NoPcb
        PROVE  pcb'[conn[v]].sent = pcb[conn[v]].sent
    BY <1>0, <1>a, <2>3, StreamPcb DEF PcbType, Detached
  <2> QED  BY <2>1, <2>2, <2>3 DEF Untouched
<1>3. ASSUME Holds(u, "TCP")' PROVE StreamOf(u)'
  <2>1. handle'[u] = s /\ conn'[u] = p /\ taken'[u] = 0 /\ pcb'[p].sent = 0
    BY <1>0, <1>a DEF HistoryType, HandleType, PcbType
  <2>2. sock'[s] = Fresh(proto, state, p, TRUE)
    BY <1>0, <1>a DEF SockType
  <2>3. /\ sock'[s].proto = proto /\ sock'[s].pcb = p /\ sock'[s].data = <<>>
        /\ sock'[s].lost = 0
    BY <2>2 DEF Fresh
  <2>4. p \in TcpPcbs
    BY <1>3, <1>a, <2>1, <2>3 DEF Holds
  <2>5. p # NoPcb
    BY <2>4, SocketAssumption
  <2> QED  BY <2>1, <2>3, <2>4, <2>5, SocketAssumption DEF StreamOf, Follows
<1>4. u \notin opened
  BY <1>b DEF StreamInv, Holds
<1> QED  BY <1>2, <1>3, <1>4, <1>a, OneStream

LEMMA ConnectStream ==
    ASSUME IInv, OwnerInv, HistoryType, StreamInv, NEW u \in Users, TcpConnect(u)
    PROVE  StreamInv'
<1> DEFINE s == handle[u]
           p == sock[s].pcb
<1>0. SockType /\ PcbType /\ HandleType
  BY DEF IInv
<1>1. /\ Holds(u, "TCP") /\ s \in Slots /\ p \in Pcbs /\ p = conn[u] /\ p \in TcpPcbs
      /\ p # NoPcb
  BY StreamPcb DEF TcpConnect
<1>2. /\ sock' = [sock EXCEPT ![s].state = "CONNECTING"]
      /\ \/ pcb' = [pcb EXCEPT ![p].state = "syn"]
         \/ UNCHANGED pcb
      /\ UNCHANGED <<handle, opened, taken, conn>>
  BY DEF TcpConnect
<1>3. \A q \in Pcbs : pcb'[q].sent = pcb[q].sent
  BY <1>0, <1>2 DEF PcbType, PcbRecord
<1>4. /\ sock'[s].pcb = sock[s].pcb /\ sock'[s].data = sock[s].data
      /\ sock'[s].proto = sock[s].proto /\ sock'[s].lost = sock[s].lost
      /\ \A t \in Slots : t # s => sock'[t] = sock[t]
  BY <1>0, <1>1, <1>2 DEF SockType, SlotRecord
<1>5. StreamOf(u)'
  <2>1. StreamOf(u)
    BY <1>1 DEF StreamInv
  <2>2. handle'[u] = s /\ conn'[u] = conn[u] /\ taken'[u] = taken[u]
    BY <1>2
  <2>3. pcb'[conn[u]].sent = pcb[conn[u]].sent
    BY <1>1, <1>3
  <2> QED  BY <1>1, <1>4, <2>1, <2>2, <2>3 DEF StreamOf
<1>6. \A v \in Users : v # u => Untouched(v)
  BY <1>1, <1>2, <1>3, <1>4, OthersUntouched
<1>7. Holds(u, "TCP")'
  BY <1>1, <1>2, <1>4 DEF Holds
<1> QED  BY <1>2, <1>5, <1>6, <1>7, OneStream

(* What a read leaves is the rest of the stream. *)
LEMMA RestShift ==
    ASSUME NEW data \in Seq(Units), NEW k \in 0 .. Len(data)
    PROVE  /\ Len(Rest(data, k)) = Len(data) - k
           /\ DOMAIN Rest(data, k) = 1 .. Len(data) - k
           /\ \A i \in 1 .. Len(data) - k : Rest(data, k)[i] = data[k + i]
BY DEF Rest

LEMMA ReadStream ==
    ASSUME IInv, OwnerInv, HistoryType, StreamInv, NEW u \in Users,
           NEW max_len \in 0 .. Capacity, TcpRead(u, max_len)
    PROVE  StreamInv' /\ EndAfterAllData'
<1> DEFINE s == handle[u]
           data == sock[s].data
           k == Min2(Len(data), max_len)
<1>0. SockType /\ PcbType /\ HandleType
  BY DEF IInv
<1>1. /\ Holds(u, "TCP") /\ u \in opened /\ s \in Slots /\ data \in Seq(Units)
      /\ max_len \in Nat /\ taken[u] \in Nat /\ MaxSent \in Nat /\ sock[s].lost \in Nat
  <2>1. Holds(u, "TCP") /\ u \in opened
    BY DEF TcpRead
  <2>2. s \in Slots /\ data \in Seq(Units) /\ sock[s].lost \in Nat
    BY <1>0, <2>1 DEF Holds, HandleType, SockType, SlotRecord
  <2>3. max_len \in Nat /\ taken[u] \in Nat /\ MaxSent \in Nat
    BY SocketAssumption DEF HistoryType
  <2> QED  BY <2>1, <2>2, <2>3
<1>2. Len(data) \in Nat /\ k \in 0 .. Len(data) /\ StreamOf(u)
  BY <1>1 DEF Min2, StreamInv
<1>3. /\ SubSeq(data, 1, k) \in Seq(Units) /\ Len(SubSeq(data, 1, k)) = k
  BY <1>1, <1>2
<1>4. /\ sock' = [sock EXCEPT ![s].data = Rest(@, k)]
      /\ ret' = [user |-> u, max |-> max_len, n |-> ReadResult(sock[s], k),
                 units |-> SubSeq(data, 1, k), src |-> 0]
      /\ taken' = [taken EXCEPT ![u] = Min2(@ + Len(ret'.units), MaxSent)]
      /\ UNCHANGED <<pcb, handle, opened, conn>>
  BY DEF TcpRead, ReadFrom
<1>5. taken'[u] = taken[u] + k
  <2>1. taken[u] + Len(data) + sock[s].lost <= MaxSent /\ sock[s].lost \in Nat
    BY <1>1, <1>2 DEF StreamOf
  <2>2. Min2(taken[u] + k, MaxSent) = taken[u] + k
    <3>1. /\ taken[u] \in Nat /\ MaxSent \in Nat
          /\ Len(data) \in Nat /\ k \in 0 .. Len(data)
      BY <1>1, <1>2
    <3> HIDE DEF k, data
    <3>2. taken[u] + k <= MaxSent
      BY <2>1, <3>1
    <3> QED  BY <3>1, <3>2 DEF Min2
  <2>3. Len(ret'.units) = k
    BY <1>3, <1>4
  <2> QED  BY <1>4, <2>2, <2>3 DEF HistoryType
<1>6. /\ sock'[s].data = Rest(data, k)
      /\ sock'[s].pcb = sock[s].pcb /\ sock'[s].proto = sock[s].proto
      /\ sock'[s].state = sock[s].state /\ sock'[s].lost = sock[s].lost
      /\ \A t \in Slots : t # s => sock'[t] = sock[t]
  BY <1>0, <1>1, <1>4 DEF SockType, SlotRecord
<1>7. /\ Len(Rest(data, k)) = Len(data) - k
      /\ DOMAIN Rest(data, k) = 1 .. Len(data) - k
      /\ \A i \in 1 .. Len(data) - k : Rest(data, k)[i] = data[k + i]
  BY <1>1, <1>2, RestShift
<1>8. StreamOf(u)'
  <2>1. \A i \in 1 .. Len(data) - k :
           /\ data[k + i][1] = conn[u]
           /\ data[k + i][2] - (taken[u] + k + i) \in 0 .. sock[s].lost
    <3> SUFFICES ASSUME NEW i \in 1 .. Len(data) - k
                 PROVE  /\ data[k + i][1] = conn[u]
                        /\ data[k + i][2] - (taken[u] + k + i) \in 0 .. sock[s].lost
      OBVIOUS
    <3>1. k + i \in DOMAIN data /\ taken[u] + (k + i) = taken[u] + k + i
      BY <1>1, <1>2
    <3>2. /\ data[k + i][1] = conn[u]
          /\ data[k + i][2] - (taken[u] + (k + i)) \in 0 .. sock[s].lost
      BY <1>2, <3>1 DEF StreamOf, Follows
    <3> QED  BY <3>1, <3>2
  <2>4. ASSUME NEW i \in 1 .. Len(data) - k, NEW j \in 1 .. Len(data) - k, i < j
        PROVE  data[k + i][2] < data[k + j][2]
    <3>1. k + i \in DOMAIN data /\ k + j \in DOMAIN data /\ k + i < k + j
      BY <1>1, <1>2, <2>4
    <3> QED  BY <1>2, <3>1 DEF StreamOf, Follows
  <2>2. Follows(Rest(data, k), conn[u], taken'[u], sock[s].lost)
    <3> DEFINE rest == Rest(data, k)
    <3>1. /\ DOMAIN rest = 1 .. Len(data) - k
          /\ \A i \in DOMAIN rest : rest[i] = data[k + i]
      BY <1>7
    <3> HIDE DEF rest
    <3>2. \A i \in DOMAIN rest : /\ rest[i][1] = conn[u]
                                 /\ rest[i][2] - (taken[u] + k + i) \in 0 .. sock[s].lost
      BY <2>1, <3>1
    <3>3. \A i, j \in DOMAIN rest : i < j => rest[i][2] < rest[j][2]
      BY <2>4, <3>1
    <3>4. \A i \in DOMAIN rest : /\ rest[i][1] = conn[u]
                                 /\ rest[i][2] - (taken'[u] + i) \in 0 .. sock[s].lost
      BY <1>5, <3>2
    <3> QED  BY <3>3, <3>4 DEF Follows, rest
  <2>3. taken'[u] + Len(Rest(data, k)) = taken[u] + Len(data)
    BY <1>1, <1>2, <1>5, <1>7
  <2> QED  BY <1>2, <1>4, <1>6, <2>2, <2>3 DEF StreamOf
<1>9. \A v \in Users : v # u => Untouched(v)
  BY <1>1, <1>4, <1>6, OthersUntouched DEF HistoryType
<1>10. Holds(u, "TCP")'
  BY <1>1, <1>4, <1>6 DEF Holds
<1>11. StreamInv'
  BY <1>4, <1>8, <1>9, <1>10, OneStream
<1>12. ASSUME ret'.n = -2, ret'.max > 0
       PROVE  taken'[ret'.user] + sock'[handle'[ret'.user]].lost
                = pcb'[conn'[ret'.user]].sent
  <2>1. ret'.user = u /\ max_len > 0 /\ ReadResult(sock[s], k) = -2
    BY <1>4, <1>12
  <2>2. k = 0 /\ sock[s].state = "CLOSED"
    BY <1>2, <2>1 DEF ReadResult
  <2>3. Len(data) = 0
    BY <1>1, <1>2, <2>1, <2>2 DEF Min2
  <2>4. pcb[conn[u]].sent = taken[u] + Len(data) + sock[s].lost
    BY <1>2, <2>2 DEF StreamOf
  <2> QED  BY <1>1, <1>4, <1>5, <1>6, <2>1, <2>2, <2>3, <2>4
<1> QED  BY <1>11, <1>12 DEF EndAfterAllData

LEMMA CloseStream ==
    ASSUME IInv, OwnerInv, HistoryType, StreamInv, NEW u \in Users,
           TcpClose(u) \/ UdpClose(u)
    PROVE  StreamInv'
<1> DEFINE s == handle[u]
           p == sock[s].pcb
<1>0. SockType /\ PcbType /\ HandleType /\ SlotInv
  BY DEF IInv
<1>1. s \in Slots /\ s # NoSlot /\ p \in Pcbs \cup {NoPcb}
  BY <1>0 DEF TcpClose, UdpClose, Holds, HandleType, SockType, SlotRecord
<1>2. /\ sock' = [sock EXCEPT ![s] = Freed(@)]
      /\ handle' = [handle EXCEPT ![u] = NoSlot]
      /\ opened' = opened \ {u}
      /\ taken' = [taken EXCEPT ![u] = 0]
      /\ conn' = [conn EXCEPT ![u] = NoPcb]
  BY DEF TcpClose, UdpClose, Release
<1>3. \A q \in Pcbs : pcb[q].arg \notin {s, NoSlot} => pcb'[q].sent = pcb[q].sent
  <2>1. \A q \in Pcbs : q # p => pcb'[q] = pcb[q]
    BY <1>0 DEF TcpClose, UdpClose, PcbType
  <2>2. p # NoPcb => pcb[p].arg = s
    BY <1>0, <1>1 DEF SlotInv
  <2> QED  BY <2>1, <2>2, SocketAssumption DEF Pcbs
<1>4. \A t \in Slots : t # s => sock'[t] = sock[t]
  BY <1>0, <1>2 DEF SockType
<1>5. \A v \in Users : v # u => Untouched(v)
  <2> SUFFICES ASSUME NEW v \in Users, v # u PROVE Untouched(v)
    OBVIOUS
  <2>1. handle'[v] = handle[v] /\ conn'[v] = conn[v] /\ taken'[v] = taken[v]
    BY <1>0, <1>2 DEF HandleType, HistoryType
  <2> QED  BY <1>1, <1>3, <1>4, <2>1, OthersUntouched
<1>6. ~Holds(u, "TCP")' /\ u \notin opened' /\ opened' \subseteq opened
  BY <1>0, <1>2 DEF Holds, HandleType
<1> QED  BY <1>5, <1>6, OneStream

(* The UDP calls touch no TCP socket. *)
LEMMA UdpCallStream ==
    ASSUME IInv, OwnerInv, HistoryType, StreamInv, NEW u \in Users,
           \/ \E max_len \in 0 .. Capacity : UdpRecvfrom(u, max_len)
           \/ UdpBind(u) \/ UdpSendto(u)
    PROVE  StreamInv'
<1> DEFINE s == handle[u]
<1>0. SockType /\ PcbType /\ HandleType
  BY DEF IInv
<1>1. s \in Slots /\ sock[s].proto = "UDP" /\ UNCHANGED <<handle, opened, taken, conn>>
  BY <1>0 DEF UdpRecvfrom, UdpBind, UdpSendto, Holds, HandleType
<1>2. /\ sock'[s].proto = sock[s].proto
      /\ \A t \in Slots : t # s => sock'[t] = sock[t]
  <2>1. CASE UdpBind(u) \/ UdpSendto(u)
    BY <2>1 DEF UdpBind, UdpSendto
  <2>2. ASSUME NEW max_len \in 0 .. Capacity, UdpRecvfrom(u, max_len)
        PROVE  \E data : sock' = [sock EXCEPT ![s] = [sock[s] EXCEPT !.data = data]]
    BY <1>0, <2>2 DEF UdpRecvfrom, SockType
  <2>3. ASSUME NEW data, sock' = [sock EXCEPT ![s] = [sock[s] EXCEPT !.data = data]]
        PROVE  /\ sock'[s].proto = sock[s].proto
               /\ \A t \in Slots : t # s => sock'[t] = sock[t]
    <3>1. sock[s] \in SlotRecord
      BY <1>0, <1>1 DEF SockType
    <3> QED  BY <1>0, <1>1, <2>3, <3>1 DEF SockType, SlotRecord
  <2> QED  BY <2>1, <2>2, <2>3
<1>3. \A q \in Pcbs : pcb'[q].sent = pcb[q].sent
  <2>1. ASSUME NEW q \in Pcbs, Binds(q) PROVE \A o \in Pcbs : pcb'[o].sent = pcb[o].sent
    BY <1>0, <2>1 DEF Binds, PcbType, PcbRecord
  <2>2. CASE UNCHANGED pcb
    BY <2>2
  <2>3. CASE UdpBind(u) \/ UdpSendto(u)
    <3>1. sock[s].pcb \in Pcbs /\ Binds(sock[s].pcb)
      BY <1>0, <1>1, <2>3 DEF UdpBind, UdpSendto, SockType, SlotRecord
    <3> QED  BY <2>1, <3>1
  <2> QED  BY <2>2, <2>3 DEF UdpRecvfrom
<1>4. \A v \in Users : v # u => Untouched(v)
  BY <1>1, <1>2, <1>3, OthersUntouched
<1>5. ~Holds(u, "TCP") /\ ~Holds(u, "TCP")'
  BY <1>1, <1>2 DEF Holds
<1>6. u \notin opened
  BY <1>5 DEF StreamInv
<1> QED  BY <1>1, <1>4, <1>5, <1>6, OneStream

-----------------------------------------------------------------------------
(* What the callbacks do to the stream of the socket they are for          *)

(* The fiber whose socket a control block calls back. *)
LEMMA PcbOwner ==
    ASSUME IInv, OwnerInv, NEW p \in Pcbs, pcb[p].state \notin Detached
    PROVE  /\ pcb[p].arg \in Slots /\ sock[pcb[p].arg].pcb = p
           /\ \E u \in Users : handle[u] = pcb[p].arg
<1>1. pcb[p].arg \in Slots /\ pcb[p].arg # NoSlot
  BY DEF IInv, ArgInv, PcbType, PcbRecord
<1> QED  BY <1>1 DEF OwnerInv

(* A callback that changes its control block and its slot, not its proto.  *)
LEMMA CallbackStream ==
    ASSUME IInv, OwnerInv, HistoryType, StreamInv,
           NEW p \in Pcbs, pcb[p].state \notin Detached,
           NEW r, NEW new, r.proto = sock[pcb[p].arg].proto,
           sock' = [sock EXCEPT ![pcb[p].arg] = r],
           pcb' = [pcb EXCEPT ![p] = new],
           UNCHANGED <<handle, opened, taken, conn>>,
           ASSUME NEW u \in Users, handle[u] = pcb[p].arg, Holds(u, "TCP"),
                  conn[u] = p, StreamOf(u), sock[handle[u]].pcb = p
           PROVE  StreamOf(u)'
    PROVE  StreamInv'
<1> DEFINE s == pcb[p].arg
<1>0. SockType /\ PcbType
  BY DEF IInv
<1>1. PICK u \in Users : s \in Slots /\ handle[u] = s /\ sock[s].pcb = p
  BY PcbOwner
<1>2. /\ sock'[s] = r /\ sock'[s].proto = sock[s].proto
      /\ \A t \in Slots : t # s => sock'[t] = sock[t]
  BY <1>0, <1>1 DEF SockType
<1>3. \A q \in Pcbs : pcb[q].arg # s => pcb'[q] = pcb[q]
  BY <1>0 DEF PcbType
<1>4. \A v \in Users : v # u => Untouched(v)
  BY <1>1, <1>2, <1>3, OthersUntouched
<1>5. Holds(u, "TCP")' <=> Holds(u, "TCP")
  BY <1>1, <1>2 DEF Holds
<1>6. ASSUME Holds(u, "TCP") PROVE StreamOf(u)'
  <2>1. StreamOf(u) /\ p # NoPcb
    BY <1>6, SocketAssumption DEF StreamInv, Pcbs
  <2>2. conn[u] = p /\ sock[handle[u]].pcb = p
    BY <1>1, <1>6, <2>1, StreamPcb
  <2> QED  BY <1>1, <1>6, <2>1, <2>2
<1>7. u \in opened' => Holds(u, "TCP")'
  BY <1>5 DEF StreamInv
<1> QED  BY <1>4, <1>5, <1>6, <1>7, OneStream

(* The connection, its end and its reset leave the data as it is. *)
LEMMA EventStream ==
    ASSUME IInv, OwnerInv, HistoryType, StreamInv, NEW p \in Pcbs,
           Connected(p) \/ ConnectFailed(p) \/ RemoteClosed(p) \/ Reset(p)
    PROVE  StreamInv'
<1> DEFINE s == pcb[p].arg
<1>0. SockType /\ PcbType
  BY DEF IInv
<1>1. pcb[p].state \notin Detached
  BY DEF Connected, ConnectFailed, RemoteClosed, Reset, Detached
<1>2. s \in Slots /\ sock[s].pcb = p /\ sock[s] \in SlotRecord /\ pcb[p] \in PcbRecord
  BY <1>0, <1>1, PcbOwner DEF SockType, PcbType
<1>3. UNCHANGED <<handle, opened, taken, conn>>
  BY DEF Connected, ConnectFailed, RemoteClosed, Reset, Callback, userVars
<1>4. ASSUME NEW state \in {"CONNECTED", "CLOSED", "ERROR"}, NEW ps,
             sock' = [sock EXCEPT ![s] = [sock[s] EXCEPT !.state = state]],
             pcb' = [pcb EXCEPT ![p] = [pcb[p] EXCEPT !.state = ps]]
      PROVE  StreamInv'
  <2> DEFINE r == [sock[s] EXCEPT !.state = state]
             new == [pcb[p] EXCEPT !.state = ps]
  <2>1. /\ r.proto = sock[s].proto /\ r.pcb = sock[s].pcb /\ r.data = sock[s].data
        /\ r.lost = sock[s].lost /\ new.sent = pcb[p].sent /\ p # NoPcb
    BY <1>2, SocketAssumption DEF SlotRecord, PcbRecord, Pcbs
  <2>2. sock'[s] = r /\ pcb'[p] = new
    BY <1>0, <1>2, <1>4 DEF SockType, PcbType
  <2>3. ASSUME NEW u \in Users, handle[u] = s, Holds(u, "TCP"),
               conn[u] = p, StreamOf(u), sock[handle[u]].pcb = p
        PROVE  StreamOf(u)'
    <3> HIDE DEF r, new
    <3>1. handle'[u] = s /\ conn'[u] = p /\ taken'[u] = taken[u]
      BY <1>3, <2>3
    <3> QED  BY <2>1, <2>2, <2>3, <3>1 DEF StreamOf
  <2> HIDE DEF r, new
  <2> QED  BY <1>1, <1>3, <1>4, <2>1, <2>3, CallbackStream DEF r, new
<1>5. CASE Connected(p)
  <2>1. sock' = [sock EXCEPT ![s] = [sock[s] EXCEPT !.state = "CONNECTED"]]
    BY <1>0, <1>5 DEF Connected, SockType
  <2>2. pcb' = [pcb EXCEPT ![p] = [pcb[p] EXCEPT !.state = "established"]]
    BY <1>0, <1>5 DEF Connected, PcbType
  <2> QED  BY <1>4, <2>1, <2>2
<1>6. CASE RemoteClosed(p)
  <2>1. sock' = [sock EXCEPT ![s] = [sock[s] EXCEPT !.state = "CLOSED"]]
    BY <1>0, <1>6 DEF RemoteClosed, EndOfStream, SockType
  <2>2. pcb' = [pcb EXCEPT ![p] = [pcb[p] EXCEPT !.state = "close_wait"]]
    BY <1>0, <1>6 DEF RemoteClosed, PcbType
  <2> QED  BY <1>4, <2>1, <2>2
<1>7. CASE Reset(p)
  <2> DEFINE r == Failed(sock[s])
  <2>1. /\ r.proto = sock[s].proto /\ r.pcb = NoPcb /\ r.data = sock[s].data
        /\ r.state = "ERROR" /\ r.lost = sock[s].lost
    BY <1>2 DEF SlotRecord, Failed
  <2>2. sock' = [sock EXCEPT ![s] = r] /\ sock'[s] = r /\ pcb' = [pcb EXCEPT ![p] = FreePcb]
    BY <1>0, <1>2, <1>7 DEF Reset, SockType
  <2>3. ASSUME NEW u \in Users, handle[u] = s, Holds(u, "TCP"),
               conn[u] = p, StreamOf(u), sock[handle[u]].pcb = p
        PROVE  StreamOf(u)'
    <3> HIDE DEF r
    <3>1. handle'[u] = s /\ conn'[u] = p /\ taken'[u] = taken[u]
      BY <1>3, <2>3
    <3> QED  BY <2>1, <2>2, <2>3, <3>1 DEF StreamOf
  <2> HIDE DEF r
  <2> QED  BY <1>1, <1>3, <2>1, <2>2, <2>3, CallbackStream
<1>8. CASE ConnectFailed(p)
  <2>1. sock' = [sock EXCEPT ![s] = [sock[s] EXCEPT !.state = "ERROR"]]
    BY <1>0, <1>8 DEF ConnectFailed, SockType
  <2>2. pcb' = [pcb EXCEPT ![p] = [pcb[p] EXCEPT !.state = pcb[p].state]]
    BY <1>0, <1>8 DEF ConnectFailed, PcbType, PcbRecord
  <2> QED  BY <1>4, <2>1, <2>2
<1> QED  BY <1>5, <1>6, <1>7, <1>8

(* lwIP frees a control block that no slot points to. *)
LEMMA ClosedStream ==
    ASSUME IInv, HistoryType, StreamInv, NEW p \in Pcbs, Closed(p)
    PROVE  StreamInv'
<1>1. UNCHANGED <<sock, handle, opened, taken, conn>>
  BY DEF Closed, Callback, userVars
<1>2. \A q \in Pcbs : pcb[q].state \notin Detached => pcb'[q] = pcb[q]
  BY DEF Closed, IInv, PcbType, Detached
<1>3. \A v \in Users : Untouched(v)
  BY <1>1, <1>2, StreamPcb DEF Untouched
<1> QED  BY <1>1, <1>3, NoStream

(* A callback with an error for a segment changes nothing. *)
LEMMA SegmentFailedStream ==
    ASSUME HistoryType, StreamInv, NEW p \in Pcbs, ReceiveFailed(p)
    PROVE  StreamInv'
<1>1. UNCHANGED <<sock, pcb, handle, opened, taken, conn>>
  BY DEF ReceiveFailed, Callback, userVars
<1>2. \A v \in Users : Untouched(v)
  BY <1>1 DEF Untouched
<1> QED  BY <1>1, <1>2, NoStream

(* A stream that goes on: len bytes follow those that wait and those that   *)
(* are lost, and more may be lost behind them.                             *)
LEMMA StreamGrows ==
    ASSUME NEW data \in Seq(Units), NEW p, NEW n \in Nat,
           NEW lost \in Nat, NEW more \in Nat, lost <= more,
           Follows(data, p, n, lost),
           NEW copied \in Seq(Units), Run(copied, p, n + Len(data) + lost)
    PROVE  /\ Len(data \o copied) = Len(data) + Len(copied)
           /\ Follows(data \o copied, p, n, more)
<1> DEFINE all == data \o copied
           k == Len(copied)
           sent == n + Len(data) + lost
<1>0. /\ k \in Nat /\ sent \in Nat
      /\ \A i \in 1 .. k : copied[i][1] = p /\ copied[i][2] = sent + i
  BY DEF Run
<1> HIDE DEF k
<1>1. Len(all) = Len(data) + k /\ all \in Seq(Units)
  BY ConcatType, Zenon DEF k
<1>2. Len(data) \in Nat /\ \A i \in DOMAIN data : data[i][2] \in Int
  BY DEF Units
<1>3. DOMAIN all = 1 .. Len(data) + k
  BY <1>0, <1>1, <1>2
<1>4. \A i \in DOMAIN data : all[i] = data[i]
  BY <1>2
<1>5. \A i \in 1 .. Len(data) + k :
        i > Len(data) => i - Len(data) \in 1 .. k /\ all[i] = copied[i - Len(data)]
  BY <1>0, <1>2 DEF k
<1> HIDE DEF all
<1>6. ASSUME NEW i \in 1 .. Len(data) + k, i > Len(data)
      PROVE  all[i][1] = p /\ all[i][2] = n + i + lost
  <2>1. sent + (i - Len(data)) = n + i + lost
    BY <1>2
  <2> HIDE DEF sent
  <2> QED  BY <1>0, <1>5, <1>6, <2>1
<1>7. ASSUME NEW i \in 1 .. Len(data) + k, i <= Len(data)
      PROVE  /\ all[i] = data[i] /\ i \in DOMAIN data /\ all[i][2] \in Int
             /\ all[i][1] = p /\ all[i][2] - (n + i) \in 0 .. lost
  <2>1. i \in DOMAIN data
    BY <1>0, <1>2, <1>7
  <2> QED  BY <1>2, <1>4, <2>1 DEF Follows
<1>8. ASSUME NEW i \in 1 .. Len(data) + k
      PROVE  all[i][1] = p /\ all[i][2] - (n + i) \in 0 .. more
  <2>1. CASE i <= Len(data)
    BY <1>7, <2>1
  <2>2. CASE i > Len(data)
    <3>1. n + i + lost - (n + i) \in 0 .. more
      BY <1>2
    <3> QED  BY <1>6, <2>2, <3>1
  <2> QED  BY <1>0, <1>2, <2>1, <2>2
<1>9. ASSUME NEW i \in 1 .. Len(data) + k, NEW j \in 1 .. Len(data) + k, i < j
      PROVE  all[i][2] < all[j][2]
  <2>1. CASE j <= Len(data)
    <3>1. i <= Len(data)
      BY <1>0, <1>2, <1>9, <2>1
    <3> QED  BY <1>7, <1>9, <2>1, <3>1 DEF Follows
  <2>2. CASE j > Len(data) /\ i <= Len(data)
    <3>1. all[j][2] = n + j + lost
      BY <1>6, <2>2
    <3>2. all[i][2] \in Int /\ all[i][2] - (n + i) \in 0 .. lost
      BY <1>7, <2>2
    <3> QED  BY <1>0, <1>2, <1>9, <3>1, <3>2
  <2>3. CASE i > Len(data)
    <3>1. all[i][2] = n + i + lost /\ all[j][2] = n + j + lost
      BY <1>0, <1>2, <1>6, <1>9, <2>3
    <3> QED  BY <1>0, <1>2, <1>9, <3>1
  <2> QED  BY <1>0, <1>2, <2>1, <2>2, <2>3
<1> QED  BY <1>1, <1>3, <1>8, <1>9 DEF Follows, all, k

(* What fits of a segment goes behind what waits. *)
LEMMA ReceivedStream ==
    ASSUME IInv, OwnerInv, HistoryType, StreamInv, NEW p \in TcpPcbs,
           NEW len \in 1 .. Window, TcpReceived(p, len)
    PROVE  StreamInv'
<1> DEFINE s == pcb[p].arg
           data == sock[s].data
           sent == pcb[p].sent
           k == ToCopy(sock[s], len)
           lost == sock[s].lost
           more == sock[s].lost + len - k
           f == [i \in 1 .. k |-> sent + i]
           copied == [i \in 1 .. k |-> <<p, sent + i>>]
           r == [sock[s] EXCEPT !.data = data \o copied, !.lost = more]
           new == [pcb[p] EXCEPT !.sent = sent + len]
<1>0. SockType /\ PcbType /\ p \in Pcbs /\ p # NoPcb
  BY SocketAssumption DEF IInv, Pcbs
<1>1. pcb[p].state \notin Detached /\ sent + len <= MaxSent
  BY DEF TcpReceived, Detached
<1>2. /\ s \in Slots /\ sock[s].pcb = p /\ sock[s] \in SlotRecord /\ pcb[p] \in PcbRecord
      /\ UNCHANGED <<handle, opened, taken, conn>>
  BY <1>0, <1>1, PcbOwner DEF SockType, PcbType, TcpReceived, Callback, userVars
<1>3. sock' = [sock EXCEPT ![s] = r] /\ pcb' = [pcb EXCEPT ![p] = new]
  BY <1>0 DEF TcpReceived, SockType, PcbType
<1>4. /\ r.proto = sock[s].proto /\ r.pcb = sock[s].pcb /\ r.state = sock[s].state
      /\ r.data = data \o copied /\ r.lost = more /\ new.sent = sent + len
  BY <1>2 DEF SlotRecord, PcbRecord
<1>5. sock'[s] = r /\ pcb'[p] = new
  BY <1>0, <1>2, <1>3 DEF SockType, PcbType
<1>6. /\ data \in Seq(Units) /\ Len(data) \in Nat /\ sent \in Nat /\ len \in Nat
      /\ lost \in Nat /\ MaxSent \in Nat
  <2>1. data \in Seq(Units) /\ sent \in 0 .. MaxSent /\ lost \in Nat
    BY <1>2 DEF SlotRecord, PcbRecord
  <2> QED  BY <2>1, SocketAssumption
<1> HIDE DEF r, new
<1>8. k \in 0 .. len /\ k \in Nat
  <2>1. k \in 0 .. len
    BY <1>0, <1>2, <1>6, ToCopyType
  <2> HIDE DEF k
  <2> QED  BY <1>6, <2>1
<1>9. f \in [1 .. k -> 1 .. MaxSent]
  <2> HIDE DEF k, sent
  <2> QED  BY <1>1, <1>6, <1>8 DEF f
<1>10. /\ copied \in Seq(Units) /\ Len(copied) = k
       /\ \A i \in 1 .. k : copied[i][1] = p /\ copied[i][2] = sent + i
  <2>1. copied = [i \in 1 .. k |-> <<p, f[i]>>]
    OBVIOUS
  <2>2. copied \in Seq(Units) /\ Len(copied) = k
    BY <1>0, <1>8, <1>9, <2>1, CopyType
  <2> QED  BY <2>2
<1>11. more \in Nat /\ lost <= more /\ k + more = len + lost
  <2> HIDE DEF k
  <2> QED  BY <1>6, <1>8
<1>7. ASSUME NEW u \in Users, handle[u] = s, Holds(u, "TCP"),
             conn[u] = p, StreamOf(u), sock[handle[u]].pcb = p
      PROVE  StreamOf(u)'
  <2>1. /\ sent = taken[u] + Len(data) + lost /\ taken[u] \in Nat
        /\ Follows(data, p, taken[u], lost)
    <3>1. taken[u] \in Nat
      BY SocketAssumption DEF HistoryType
    <3> QED  BY <1>0, <1>7, <3>1 DEF StreamOf
  <2> HIDE DEF copied, f, data, sent, k, lost, more
  <2>7. /\ Len(data \o copied) = Len(data) + k
        /\ Follows(data \o copied, p, taken[u], more)
    <3>1. /\ data \in Seq(Units) /\ taken[u] \in Nat /\ copied \in Seq(Units)
          /\ lost \in Nat /\ more \in Nat /\ lost <= more
      BY <1>6, <1>10, <1>11, <2>1
    <3>2. Run(copied, p, taken[u] + Len(data) + lost)
      BY <1>10, <2>1 DEF Run
    <3>3. Follows(data, p, taken[u], lost)
      BY <2>1
    <3>4. /\ Len(data \o copied) = Len(data) + Len(copied)
          /\ Follows(data \o copied, p, taken[u], more)
      BY ONLY <3>1, <3>2, <3>3, StreamGrows
    <3> QED  BY <1>10, <3>4
  <2>8. /\ new.sent = taken[u] + Len(r.data) + r.lost
        /\ taken[u] + Len(r.data) + r.lost <= MaxSent
    <3>1. taken[u] + (Len(data) + k) + more = sent + len
      BY <1>6, <1>8, <1>11, <2>1
    <3> QED  BY <1>1, <1>4, <2>7, <3>1
  <2>9. handle'[u] = s /\ conn'[u] = p /\ taken'[u] = taken[u]
    BY <1>2, <1>7
  <2>10. r.pcb = p /\ p \in TcpPcbs
    BY <1>2, <1>4
  <2> QED  BY <1>0, <1>4, <1>5, <2>7, <2>8, <2>9, <2>10 DEF StreamOf
<1> QED  BY <1>0, <1>1, <1>2, <1>3, <1>4, <1>7, CallbackStream

(* A datagram goes to a UDP socket. *)
LEMMA DatagramStream ==
    ASSUME IInv, OwnerInv, HistoryType, StreamInv, NEW p \in UdpPcbs,
           NEW len \in 1 .. Window, UdpReceived(p, len)
    PROVE  StreamInv'
<1> DEFINE s == pcb[p].arg
           from == pcb[p].sent + 1
           k == ToCopy(sock[s], len)
           d == sock[s].data \o [i \in 1 .. k |-> <<p, from>>]
           src == IF k > 0 THEN from ELSE sock[s].src
           r == [sock[s] EXCEPT !.data = d, !.src = src]
           new == [pcb[p] EXCEPT !.sent = from]
<1>0. SockType /\ PcbType /\ p \in Pcbs /\ p \notin TcpPcbs
  BY SocketAssumption DEF IInv, Pcbs
<1>1. pcb[p].state \notin Detached
  BY DEF UdpReceived, Detached
<1>2. /\ sock[s] \in SlotRecord /\ UNCHANGED <<handle, opened, taken, conn>>
  BY <1>0, <1>1, PcbOwner DEF SockType, UdpReceived, Callback, userVars
<1>3. sock' = [sock EXCEPT ![s] = r] /\ pcb' = [pcb EXCEPT ![p] = new]
  BY <1>0 DEF UdpReceived, SockType, PcbType
<1>4. r.proto = sock[s].proto
  BY <1>2 DEF SlotRecord
<1>5. ASSUME NEW u \in Users, conn[u] = p, StreamOf(u) PROVE FALSE
  BY <1>0, <1>5 DEF StreamOf
<1> HIDE DEF r, new
<1> QED  BY <1>0, <1>1, <1>2, <1>3, <1>4, <1>5, CallbackStream

-----------------------------------------------------------------------------
(* Every step                                                              *)

LEMMA CallStream ==
    ASSUME IInv, OwnerInv, HistoryType, StreamInv, EndAfterAllData, Careful,
           NEW u \in Users, Call(u)
    PROVE  StreamInv' /\ EndAfterAllData'
<1> USE DEF EndAfterAllData, NoRet
<1>1. CASE TcpCreate(u) \/ UdpCreate(u)
  <2>1. ret' = NoRet
    BY <1>1 DEF TcpCreate, UdpCreate, CreateFails, Create
  <2> QED  BY <1>1, <2>1, CreateFailsStream, CreateStream DEF TcpCreate, UdpCreate
<1>2. CASE TcpConnect(u)
  <2>1. ret' = NoRet
    BY <1>2 DEF TcpConnect
  <2> QED  BY <1>2, <2>1, ConnectStream
<1>3. CASE TcpWrite(u)
  <2>1. \A v \in Users : Untouched(v)
    BY <1>3 DEF TcpWrite, Untouched
  <2>2. Holds(u, "TCP")' /\ StreamOf(u)'
    BY <1>3 DEF TcpWrite, Holds, StreamInv, StreamOf
  <2> QED  BY <1>3, <2>1, <2>2, OneStream DEF TcpWrite
<1>4. CASE TcpClose(u) \/ UdpClose(u)
  <2>1. ret' = NoRet
    BY <1>4 DEF TcpClose, UdpClose, Release
  <2> QED  BY <1>4, <2>1, CloseStream
<1>5. ASSUME NEW max_len \in 0 .. Capacity, TcpRead(u, max_len)
      PROVE  StreamInv' /\ EndAfterAllData'
  BY <1>5, ReadStream
<1>6. ASSUME NEW max_len \in 0 .. Capacity, UdpRecvfrom(u, max_len)
      PROVE  StreamInv' /\ EndAfterAllData'
  <2>1. Len(sock[handle[u]].data) \in Nat
    BY <1>6 DEF UdpRecvfrom, Holds, IInv, HandleType, SockType, SlotRecord
  <2>2. ret'.n = Min2(Len(sock[handle[u]].data), max_len)
    BY <1>6 DEF UdpRecvfrom
  <2>3. ret'.n >= 0 /\ ret'.n \in Int
    BY <2>1, <2>2, SocketAssumption DEF Min2
  <2>4. ret'.n # -2
    BY <2>3
  <2> QED  BY <1>6, <2>4, UdpCallStream
<1>7. CASE UdpBind(u) \/ UdpSendto(u)
  BY <1>7, UdpCallStream DEF UdpBind, UdpSendto
<1> QED  BY <1>1, <1>2, <1>3, <1>4, <1>5, <1>6, <1>7 DEF Call

LEMMA NextStream ==
    /\ IInv /\ BeforeInit /\ OwnerInv /\ HistoryType /\ StreamInv /\ EndAfterAllData
    /\ Careful /\ [Next]_vars
    => StreamInv' /\ EndAfterAllData'
<1> SUFFICES ASSUME IInv, BeforeInit, OwnerInv, HistoryType, StreamInv, EndAfterAllData,
                    Careful, [Next]_vars
             PROVE  StreamInv' /\ EndAfterAllData'
  OBVIOUS
<1>1. ASSUME NEW u \in Users, Call(u) PROVE StreamInv' /\ EndAfterAllData'
  BY <1>1, CallStream
<1>2. CASE WifiConnect
  <2>1. \A v \in Users : Untouched(v)
    BY <1>2 DEF WifiConnect, AfterNetInit, BeforeInit, Untouched
  <2> QED  BY <1>2, <2>1, NoStream DEF WifiConnect, EndAfterAllData, NoRet
<1>3. ASSUME NEW p \in TcpPcbs, TcpEvent(p) PROVE StreamInv' /\ EndAfterAllData'
  <2>1. ret' = NoRet /\ p \in Pcbs
    BY <1>3 DEF TcpEvent, Connected, ConnectFailed, ReceiveFailed, RemoteClosed, Reset,
          Closed, TcpReceived, Callback, Pcbs
  <2>2. StreamInv'
    BY <1>3, <2>1, EventStream, SegmentFailedStream, ClosedStream, ReceivedStream DEF TcpEvent
  <2> QED  BY <2>1, <2>2 DEF EndAfterAllData, NoRet
<1>4. ASSUME NEW p \in UdpPcbs, NEW len \in 1 .. Window, UdpReceived(p, len)
      PROVE  StreamInv' /\ EndAfterAllData'
  <2>1. ret' = NoRet
    BY <1>4 DEF UdpReceived, Callback
  <2> QED  BY <1>4, <2>1, DatagramStream DEF EndAfterAllData, NoRet
<1>5. CASE UNCHANGED vars
  BY <1>5 DEF vars, StreamInv, StreamOf, Holds, EndAfterAllData
<1> QED  BY <1>1, <1>2, <1>3, <1>4, <1>5 DEF Next

LEMMA InitStream == Init => StreamInv /\ EndAfterAllData
BY DEF Init, StreamInv, Holds, EndAfterAllData, NoRet

LEMMA StreamInvHolds ==
    ASSUME Careful
    PROVE  Spec => [](IInv /\ OwnerInv /\ HistoryType /\ StreamInv /\ EndAfterAllData)
<1>1. IInv /\ BeforeInit /\ OwnerInv /\ HistoryType /\ StreamInv /\ EndAfterAllData /\ [Next]_vars
        => (BeforeInit /\ OwnerInv /\ HistoryType /\ StreamInv /\ EndAfterAllData)'
  BY NextOwner, NextBeforeInit, NextHistory, NextStream
<1> QED  BY <1>1, InitOwner, InitHistory, InitStream, InvariantHolds, PTL DEF Spec

(* As long as no socket is created while a held one is CLOSED, what waits  *)
(* in a TCP socket is of its own connection, in order, and no more bytes   *)
(* are missing from it than found no room.                                 *)
THEOREM StreamInOrderHolds ==
    ASSUME Careful
    PROVE  Spec => []StreamInOrder
<1>1. HistoryType /\ StreamInv => StreamInOrder
  BY DEF HistoryType, StreamInv, StreamOf, Follows, StreamInOrder
<1> QED  BY <1>1, StreamInvHolds, PTL

(* Every byte acknowledged to a peer was read, waits in the buffer, or is  *)
(* one of those that found no room.                                        *)
AcknowledgedAccounted ==
    \A u \in opened : LET s == sock[handle[u]] IN
        s.pcb # NoPcb => pcb[s.pcb].sent = taken[u] + Len(s.data) + s.lost

(* Under the same condition, no byte is lost but for want of room.         *)
THEOREM AcknowledgedAccountedHolds ==
    ASSUME Careful
    PROVE  Spec => []AcknowledgedAccounted
<1>1. IInv /\ HistoryType /\ StreamInv => AcknowledgedAccounted
  <2> SUFFICES ASSUME IInv, HistoryType, StreamInv, NEW u \in opened,
                      sock[handle[u]].pcb # NoPcb
               PROVE  pcb[sock[handle[u]].pcb].sent
                        = taken[u] + Len(sock[handle[u]].data) + sock[handle[u]].lost
    BY DEF AcknowledgedAccounted
  <2>1. u \in Users /\ Holds(u, "TCP") /\ StreamOf(u)
    BY DEF HistoryType, StreamInv
  <2>2. sock[handle[u]].pcb = conn[u]
    BY <2>1, StreamPcb
  <2> QED  BY <2>1, <2>2 DEF StreamOf
<1> QED  BY <1>1, StreamInvHolds, PTL

(* ... and a read into a buffer answers -2 only after all that the peer    *)
(* sent was read, except what found no room.                               *)
THEOREM EndAfterAllDataHolds ==
    ASSUME Careful
    PROVE  Spec => []EndAfterAllData
BY StreamInvHolds, PTL

-----------------------------------------------------------------------------
(* Types                                                                   *)

(* net_initialized is a flag, and malloc never hands out more than fits.   *)
CountType == net_initialized \in BOOLEAN /\ bufs <= HeapBufs

LEMMA NextCount ==
    ASSUME IInv, BufInv, CountType, [Next]_vars, bufs \in Nat
    PROVE  CountType'
<1> USE SocketAssumption DEF CountType
<1>1. ASSUME NEW u \in Users, Call(u) PROVE CountType'
  <2>1. CASE TcpCreate(u) \/ UdpCreate(u)
    <3>1. ASSUME NEW proto, NEW pool, CreateFails(u, proto, pool) PROVE CountType'
      BY <3>1 DEF CreateFails
    <3>2. ASSUME NEW proto, NEW pool, NEW state, NEW ps, Create(u, proto, pool, state, ps)
          PROVE  CountType'
      BY <3>2 DEF Create
    <3> QED  BY <2>1, <3>1, <3>2 DEF TcpCreate, UdpCreate
  <2>2. CASE TcpConnect(u) \/ TcpWrite(u) \/ UdpBind(u) \/ UdpSendto(u)
    BY <2>2 DEF TcpConnect, TcpWrite, UdpBind, UdpSendto
  <2>3. CASE TcpClose(u) \/ UdpClose(u)
    BY <2>3 DEF TcpClose, UdpClose, Release, BufferOf
  <2>4. ASSUME NEW max_len, TcpRead(u, max_len) \/ UdpRecvfrom(u, max_len)
        PROVE  CountType'
    BY <2>4 DEF TcpRead, UdpRecvfrom
  <2> QED  BY <1>1, <2>1, <2>2, <2>3, <2>4 DEF Call
<1>2. ASSUME NEW p, TcpEvent(p) \/ \E len \in 1 .. Window : UdpReceived(p, len)
      PROVE  CountType'
  BY <1>2 DEF TcpEvent, Connected, ConnectFailed, ReceiveFailed, RemoteClosed, Reset, Closed,
        TcpReceived, UdpReceived,
        Callback, userVars
<1>3. CASE WifiConnect \/ UNCHANGED vars
  BY <1>3 DEF WifiConnect, vars
<1> QED  BY <1>1, <1>2, <1>3 DEF Next

(* Every variable keeps its type as long as no socket is created while a   *)
(* held one is CLOSED; the buffer count is what needs that.                *)
THEOREM TypeCorrect ==
    ASSUME Careful
    PROVE  Spec => []TypeOK
<1>0. BufInv => bufs \in Nat
  <2>1. Cardinality(Buffered(sock)) \in Nat
    BY BufferedFinite, FS_CardinalityType
  <2> QED  BY <2>1 DEF BufInv, NoBufferLeak, Buffered
<1>1. IInv /\ BeforeInit /\ OwnerInv /\ BufInv /\ HistoryType /\ CountType /\ [Next]_vars
        => (BeforeInit /\ OwnerInv /\ BufInv /\ HistoryType /\ CountType)'
  BY <1>0, NextOwner, NextBeforeInit, NextBuffers, NextHistory, NextCount
<1>2. Init => CountType
  <2>1. Init => bufs <= HeapBufs
    BY SocketAssumption DEF Init
  <2>2. Init => net_initialized \in BOOLEAN
    BY DEF Init
  <2> QED  BY <2>1, <2>2 DEF CountType
<1>3. IInv /\ BufInv /\ HistoryType /\ CountType => TypeOK
  BY <1>0, SocketAssumption DEF IInv, SockType, PcbType, HandleType, HistoryType, CountType, TypeOK
<1>4. Spec => [](IInv /\ BufInv /\ HistoryType /\ CountType)
  BY <1>1, <1>2, InitOwner, InitBuffers, InitHistory, InvariantHolds, PTL DEF Spec
<1> QED  BY <1>3, <1>4, PTL

=============================================================================
