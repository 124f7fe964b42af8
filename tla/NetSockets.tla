------------------------------ MODULE NetSockets ------------------------------
(***************************************************************************)
(* The socket table of net_stubs.c: the calls wifi_connect, pico_tcp_* and *)
(* pico_udp_* on one side, the callbacks lwIP makes while it is polled on  *)
(* the other.                                                              *)
(* Both run on the core that owns the network, so a call, or a callback,   *)
(* is one step.  lwIP itself and the peers are external.                   *)
(***************************************************************************)
EXTENDS Integers, Sequences, FiniteSets

CONSTANTS
    Users,          \* the fibers that hold a socket
    TcpPcbs, UdpPcbs,   \* lwIP's pools: MEMP_NUM_TCP_PCB, MEMP_NUM_UDP_PCB
    MaxSockets,     \* MAX_SOCKETS
    Capacity,       \* MAX_RECV_BUFFER
    Window,         \* TCP_WND
    HeapBufs,       \* receive buffers that fit in the heap
    MaxSent,        \* bound: bytes, or datagrams, a peer sends
    Careful,        \* TRUE: no socket is created while a held one is CLOSED
    NoPcb

ASSUME SocketAssumption ==
    /\ MaxSockets \in Nat /\ Capacity \in Nat \ {0} /\ Window \in Nat \ {0}
    /\ HeapBufs \in Nat /\ MaxSent \in Nat
    /\ Careful \in BOOLEAN
    /\ TcpPcbs \cap UdpPcbs = {} /\ NoPcb \notin TcpPcbs \cup UdpPcbs

Slots == 0 .. MaxSockets - 1
NoSlot == -1
Pcbs == TcpPcbs \cup UdpPcbs

VARIABLES
    sock,       \* sockets[]; recv_len is Len(data), buf is recv_buf /= NULL;
                \* history: lost, the bytes for which there was no room
    net_initialized,
    bufs,       \* receive buffers malloc has handed out
    pcb,        \* lwIP's control blocks: connection, callback argument, bytes received
    handle,     \* the socket id each user holds
    opened,     \* the users whose connection was seen established
    taken,      \* history: how many bytes each user has read, up to MaxSent
    conn,       \* the control block each user's socket was created with
    ret         \* what the last call that reads returned

vars == <<sock, net_initialized, bufs, pcb, handle, opened, taken, conn, ret>>

NoRet == [user |-> "none", max |-> 0, n |-> 0, units |-> <<>>, src |-> 0]

(* A slot after memset; b: whether it has a receive buffer. *)
Fresh(proto, state, p, b) ==
    [proto |-> proto, state |-> state, pcb |-> p,
     buf |-> b, data |-> <<>>, src |-> 0, lost |-> 0]

Blank(proto) == Fresh(proto, "CLOSED", NoPcb, FALSE)

FreePcb == [state |-> "free", arg |-> NoSlot, sent |-> 0]

Init ==
    /\ sock = [s \in Slots |-> Blank("TCP")]
    /\ net_initialized = FALSE
    /\ bufs = 0
    /\ pcb = [p \in Pcbs |-> FreePcb]
    /\ handle = [u \in Users |-> NoSlot]
    /\ opened = {}
    /\ taken = [u \in Users |-> 0]
    /\ conn = [u \in Users |-> NoPcb]
    /\ ret = NoRet

-----------------------------------------------------------------------------
(* wifi_connect, whether it succeeds or not, calls net_init first          *)

EmptyTable == [s \in Slots |-> Blank("TCP")]

(* Faulty variant: every connect clears the table. *)
ClearedAgain == EmptyTable

AfterNetInit == IF net_initialized THEN sock ELSE EmptyTable

WifiConnect ==
    /\ sock' = AfterNetInit
    /\ net_initialized' = TRUE
    /\ ret' = NoRet
    /\ UNCHANGED <<bufs, pcb, handle, opened, taken, conn>>

-----------------------------------------------------------------------------
(* Slots                                                                   *)

(* Faulty variant: any slot will do. *)
AllocatableAny(s) == TRUE

Allocatable(s) == sock[s].state = "CLOSED"

FirstFree(s) ==
    Allocatable(s) /\ \A t \in Slots : Allocatable(t) => s <= t

(* Faulty variant: pcb.tcp keeps its value. *)
FreedKeepsPcb(s) == [s EXCEPT !.buf = FALSE, !.state = "CLOSED"]

Freed(s) == [s EXCEPT !.buf = FALSE, !.state = "CLOSED", !.pcb = NoPcb]

(* Faulty variant: recv_buf is forgotten without free(). *)
BufferOfNone(s) == 0

BufferOf(s) == IF s.buf THEN 1 ELSE 0

(* Programs connect to the WiFi network before they open a socket.         *)
MayCreate(u) ==
    /\ net_initialized /\ handle[u] = NoSlot
    /\ Careful =>
         \A v \in Users : handle[v] # NoSlot => sock[handle[v]].state # "CLOSED"

(* No closed slot, or no memory, or no control block: -1.                  *)
CreateFails(u, proto, pool) ==
    /\ MayCreate(u)
    /\ \/ /\ \A s \in Slots : ~Allocatable(s)
          /\ UNCHANGED sock
       \/ \E s \in Slots :
            /\ FirstFree(s) /\ bufs = HeapBufs
            /\ sock' = [sock EXCEPT ![s] = Blank(proto)]
       \/ \E s \in Slots :
            /\ FirstFree(s) /\ bufs < HeapBufs
            /\ \A p \in pool : pcb[p].state # "free"
            /\ sock' = [sock EXCEPT ![s] = Freed(Fresh(proto, "CLOSED", NoPcb, TRUE))]
    /\ ret' = NoRet
    /\ UNCHANGED <<net_initialized, bufs, pcb, handle, opened, taken, conn>>

Create(u, proto, pool, socketState, pcbState) ==
    /\ MayCreate(u) /\ bufs < HeapBufs
    /\ \E s \in Slots, p \in pool :
         /\ FirstFree(s) /\ pcb[p].state = "free"
         /\ sock' = [sock EXCEPT ![s] = Fresh(proto, socketState, p, TRUE)]
         /\ pcb' = [pcb EXCEPT ![p] = [state |-> pcbState, arg |-> s, sent |-> 0]]
         /\ handle' = [handle EXCEPT ![u] = s]
         /\ conn' = [conn EXCEPT ![u] = p]
    /\ bufs' = bufs + 1
    /\ taken' = [taken EXCEPT ![u] = 0]
    /\ ret' = NoRet
    /\ UNCHANGED <<net_initialized, opened>>

-----------------------------------------------------------------------------
(* TCP calls                                                               *)

Holds(u, proto) == handle[u] # NoSlot /\ sock[handle[u]].proto = proto

TcpCreate(u) ==
    \/ CreateFails(u, "TCP", TcpPcbs)
    \/ Create(u, "TCP", TcpPcbs, "CLOSED", "new")

(* tcp_connect sends the SYN, or fails and leaves the control block alone. *)
TcpConnect(u) ==
    /\ Holds(u, "TCP")
    /\ LET s == handle[u]
           p == sock[s].pcb
       IN  /\ p # NoPcb /\ pcb[p].state = "new"
           /\ sock' = [sock EXCEPT ![s].state = "CONNECTING"]
           /\ \/ pcb' = [pcb EXCEPT ![p].state = "syn"]
              \/ UNCHANGED pcb
    /\ ret' = NoRet
    /\ UNCHANGED <<net_initialized, bufs, handle, opened, taken, conn>>

(* A write is also how a user learns that the socket is connected.         *)
TcpWrite(u) ==
    /\ Holds(u, "TCP")
    /\ sock[handle[u]].pcb # NoPcb /\ sock[handle[u]].state = "CONNECTED"
    /\ opened' = opened \cup {u}
    /\ ret' = NoRet
    /\ UNCHANGED <<sock, net_initialized, bufs, pcb, handle, taken, conn>>

Min2(a, b) == IF a < b THEN a ELSE b

(* Faulty variant: the data left behind is not shifted to the front. *)
RestUnshifted(data, n) == SubSeq(data, 1, Len(data) - n)

(* The data left after n bytes were read *)
Rest(data, n) == SubSeq(data, n + 1, Len(data))

(* Faulty variant: a closed socket ends at once, whatever it still holds. *)
ReadResultEager(s, n) == IF s.state = "CLOSED" THEN -2 ELSE n

ReadResult(s, n) == IF n = 0 /\ s.state = "CLOSED" THEN -2 ELSE n

ReadFrom(u, s, max_len) ==
    LET n == Min2(Len(sock[s].data), max_len)
    IN  /\ sock' = [sock EXCEPT ![s].data = Rest(@, n)]
        /\ ret' = [user |-> u, max |-> max_len, n |-> ReadResult(sock[s], n),
                   units |-> SubSeq(sock[s].data, 1, n), src |-> 0]

(* max_len is 0 when the scheduler probes the socket. *)
TcpRead(u, max_len) ==
    /\ Holds(u, "TCP") /\ u \in opened
    /\ ReadFrom(u, handle[u], max_len)
    /\ taken' = [taken EXCEPT ![u] = Min2(@ + Len(ret'.units), MaxSent)]
    /\ UNCHANGED <<net_initialized, bufs, pcb, handle, opened, conn>>

(* tcp_close frees a control block without a peer; lwIP finishes the rest. *)
ClosePcb(p) ==
    IF pcb[p].state \in {"new", "syn"} THEN FreePcb
    ELSE [pcb[p] EXCEPT !.state = "closing", !.arg = NoSlot]

Release(u) ==
    /\ sock' = [sock EXCEPT ![handle[u]] = Freed(@)]
    /\ bufs' = bufs - BufferOf(sock[handle[u]])
    /\ handle' = [handle EXCEPT ![u] = NoSlot]
    /\ opened' = opened \ {u}
    /\ taken' = [taken EXCEPT ![u] = 0]
    /\ conn' = [conn EXCEPT ![u] = NoPcb]
    /\ ret' = NoRet
    /\ UNCHANGED net_initialized

TcpClose(u) ==
    /\ Holds(u, "TCP")
    /\ LET p == sock[handle[u]].pcb
       IN  pcb' = IF p = NoPcb THEN pcb ELSE [pcb EXCEPT ![p] = ClosePcb(p)]
    /\ Release(u)

-----------------------------------------------------------------------------
(* UDP calls                                                               *)

UdpCreate(u) ==
    \/ CreateFails(u, "UDP", UdpPcbs)
    \/ Create(u, "UDP", UdpPcbs, "CONNECTED", "udp")

(* lwIP binds the control block, or returns an error. *)
Binds(p) == pcb' = [pcb EXCEPT ![p].state = "bound"] \/ UNCHANGED pcb

UdpBind(u) ==
    /\ Holds(u, "UDP") /\ sock[handle[u]].pcb # NoPcb
    /\ Binds(sock[handle[u]].pcb)
    /\ ret' = NoRet
    /\ UNCHANGED <<sock, net_initialized, bufs, handle, opened, taken, conn>>

(* No pbuf, or no route: -1.  The first datagram binds the control block.  *)
UdpSendto(u) ==
    /\ Holds(u, "UDP") /\ sock[handle[u]].pcb # NoPcb
    /\ Binds(sock[handle[u]].pcb)
    /\ ret' = NoRet
    /\ UNCHANGED <<sock, net_initialized, bufs, handle, opened, taken, conn>>

(* A read takes the first max_len bytes and drops the others. *)
UdpRecvfrom(u, max_len) ==
    /\ Holds(u, "UDP")
    /\ LET s == handle[u]
           n == Min2(Len(sock[s].data), max_len)
       IN  /\ sock' = [sock EXCEPT ![s].data = IF n > 0 THEN <<>> ELSE @]
           /\ ret' = [user |-> u, max |-> max_len, n |-> n,
                      units |-> SubSeq(sock[s].data, 1, n),
                      src |-> IF n > 0 THEN sock[s].src ELSE 0]
    /\ UNCHANGED <<net_initialized, bufs, pcb, handle, opened, taken, conn>>

UdpClose(u) ==
    /\ Holds(u, "UDP")
    /\ LET p == sock[handle[u]].pcb
       IN  pcb' = IF p = NoPcb THEN pcb ELSE [pcb EXCEPT ![p] = FreePcb]
    /\ Release(u)

-----------------------------------------------------------------------------
(* Callbacks, on the slot the control block's argument names               *)

userVars == <<net_initialized, handle, opened, taken, conn>>

Callback == ret' = NoRet /\ UNCHANGED userVars

Connected(p) ==
    /\ pcb[p].state = "syn"
    /\ pcb' = [pcb EXCEPT ![p].state = "established"]
    /\ sock' = [sock EXCEPT ![pcb[p].arg].state = "CONNECTED"]
    /\ Callback /\ UNCHANGED bufs

(* Another error than ERR_OK, which lwIP does not pass at present: the      *)
(* socket keeps its control block.                                         *)
ConnectFailed(p) ==
    /\ pcb[p].state = "syn"
    /\ sock' = [sock EXCEPT ![pcb[p].arg].state = "ERROR"]
    /\ Callback /\ UNCHANGED <<pcb, bufs>>

ToCopy(s, len) == Min2(len, Capacity - Len(s.data))

(* A segment of len bytes: what fits is kept, all of it is acknowledged.   *)
TcpReceived(p, len) ==
    /\ pcb[p].state = "established" /\ pcb[p].sent + len <= MaxSent
    /\ LET s == pcb[p].arg
           sent == pcb[p].sent
           copied == [i \in 1 .. ToCopy(sock[s], len) |-> <<p, sent + i>>]
       IN  sock' = [sock EXCEPT ![s].data = @ \o copied,
                                ![s].lost = @ + len - ToCopy(sock[s], len)]
    /\ pcb' = [pcb EXCEPT ![p].sent = @ + len]
    /\ Callback /\ UNCHANGED bufs

(* Likewise an error: the segment is neither kept nor acknowledged.        *)
ReceiveFailed(p) ==
    /\ pcb[p].state = "established"
    /\ Callback /\ UNCHANGED <<sock, pcb, bufs>>

EndOfStream(s) == [s EXCEPT !.state = "CLOSED"]

RemoteClosed(p) ==
    /\ pcb[p].state = "established"
    /\ pcb' = [pcb EXCEPT ![p].state = "close_wait"]
    /\ sock' = [sock EXCEPT ![pcb[p].arg] = EndOfStream(@)]
    /\ Callback /\ UNCHANGED bufs

(* Faulty variant: the freed control block stays in the slot. *)
FailedKeepsPcb(s) == [s EXCEPT !.state = "ERROR"]

Failed(s) == [s EXCEPT !.state = "ERROR", !.pcb = NoPcb]

(* tcp_err: lwIP has freed the control block. *)
Reset(p) ==
    /\ pcb[p].state \in {"syn", "established", "close_wait"}
    /\ pcb' = [pcb EXCEPT ![p] = FreePcb]
    /\ sock' = [sock EXCEPT ![pcb[p].arg] = Failed(@)]
    /\ Callback /\ UNCHANGED bufs

(* lwIP ends a connection the program has closed; no callback is set.      *)
Closed(p) ==
    /\ pcb[p].state = "closing"
    /\ pcb' = [pcb EXCEPT ![p] = FreePcb]
    /\ Callback /\ UNCHANGED <<sock, bufs>>

(* A datagram of len bytes; a byte carries the number of its datagram. *)
UdpReceived(p, len) ==
    /\ pcb[p].state = "bound" /\ pcb[p].sent < MaxSent
    /\ LET s == pcb[p].arg
           from == pcb[p].sent + 1
           to_copy == ToCopy(sock[s], len)
       IN  /\ sock' = [sock EXCEPT
                ![s].data = @ \o [i \in 1 .. to_copy |-> <<p, from>>],
                ![s].src = IF to_copy > 0 THEN from ELSE @]
           /\ pcb' = [pcb EXCEPT ![p].sent = from]
    /\ Callback /\ UNCHANGED bufs

Call(u) ==
    \/ TcpCreate(u) \/ TcpConnect(u) \/ TcpWrite(u) \/ TcpClose(u)
    \/ \E max_len \in 0 .. Capacity : TcpRead(u, max_len) \/ UdpRecvfrom(u, max_len)
    \/ UdpCreate(u) \/ UdpBind(u) \/ UdpSendto(u) \/ UdpClose(u)

TcpEvent(p) ==
    \/ Connected(p) \/ ConnectFailed(p) \/ ReceiveFailed(p)
    \/ RemoteClosed(p) \/ Reset(p) \/ Closed(p)
    \/ \E len \in 1 .. Window : TcpReceived(p, len)

Next ==
    \/ WifiConnect
    \/ \E u \in Users : Call(u)
    \/ \E p \in TcpPcbs : TcpEvent(p)
    \/ \E p \in UdpPcbs : \E len \in 1 .. Window : UdpReceived(p, len)

Spec == Init /\ [][Next]_vars

-----------------------------------------------------------------------------
(* Properties                                                              *)

Units == Pcbs \X (1 .. MaxSent)

SlotRecord ==
    [proto : {"TCP", "UDP"},
     state : {"CLOSED", "CONNECTING", "CONNECTED", "ERROR"},
     pcb : Pcbs \cup {NoPcb}, buf : BOOLEAN,
     data : Seq(Units), src : 0 .. MaxSent, lost : Nat]

PcbRecord ==
    [state : {"free", "new", "syn", "established", "close_wait", "closing", "udp", "bound"},
     arg : Slots \cup {NoSlot}, sent : 0 .. MaxSent]

(* The type of every variable; recv_len never exceeds recv_capacity. *)
TypeOK ==
    /\ sock \in [Slots -> SlotRecord]
    /\ \A s \in Slots : Len(sock[s].data) <= Capacity
    /\ net_initialized \in BOOLEAN
    /\ bufs \in 0 .. HeapBufs
    /\ pcb \in [Pcbs -> PcbRecord]
    /\ handle \in [Users -> Slots \cup {NoSlot}]
    /\ opened \subseteq Users
    /\ taken \in [Users -> 0 .. MaxSent]
    /\ conn \in [Users -> Pcbs \cup {NoPcb}]

(* A slot never points to a control block that lwIP has freed, or is about *)
(* to free: tcp_write and tcp_close on it are safe in every state.         *)
NoDanglingPcb ==
    \A s \in Slots : sock[s].pcb # NoPcb =>
        pcb[sock[s].pcb].state \notin {"free", "closing"}

(* A callback finds in its slot the control block it is called for: one    *)
(* connection's data, end or error never lands in the socket of another.   *)
CallbackReachesOwner ==
    \A p \in Pcbs : pcb[p].arg # NoSlot => sock[pcb[p].arg].pcb = p

(* Every receive buffer that was allocated hangs in a slot, to be freed.   *)
NoBufferLeak == bufs = Cardinality({s \in Slots : sock[s].buf})

(* What waits in a TCP socket is of its own connection, in the order it    *)
(* was sent, and follows what the user has read; between two of its bytes, *)
(* or before it, no more bytes are missing than found no room.             *)
StreamInOrder ==
    \A u \in opened : LET s == sock[handle[u]] IN
        /\ \A i \in DOMAIN s.data :
             /\ s.data[i][1] = conn[u]
             /\ s.data[i][2] - (taken[u] + i) \in 0 .. s.lost
        /\ \A i, j \in DOMAIN s.data : i < j => s.data[i][2] < s.data[j][2]

(* A read into a buffer that answers -2 comes after all the peer had sent  *)
(* was read, except the bytes that found no room: data that arrived before *)
(* the end of the stream and was stored is not lost.                       *)
EndAfterAllData ==
    ret.n = -2 /\ ret.max > 0 =>
        taken[ret.user] + sock[handle[ret.user]].lost = pcb[conn[ret.user]].sent

(* All that was acknowledged to a peer ("Acknowledge received data") is in *)
(* the buffer or was read.                                                 *)
AcknowledgedIsKept ==
    \A u \in opened : sock[handle[u]].pcb # NoPcb =>
        pcb[sock[handle[u]].pcb].sent = taken[u] + Len(sock[handle[u]].data)

=============================================================================
