----------------------------- MODULE PioScheduler -----------------------------
(***************************************************************************)
(* The fiber scheduler of pio.ml: one run queue of closures, fibers as     *)
(* one-shot continuations, promises, waits for sockets, and Switch.run.    *)
(* There is one switch.  The fibers' programs are arbitrary: they perform  *)
(* any effect at any time.  A socket is named by the fiber that opened it; *)
(* the network is external and changes sockets when it is serviced.        *)
(***************************************************************************)
EXTENDS Integers, Sequences, FiniteSets

CONSTANTS
    Main,           \* the fiber Switch.run starts
    Children,       \* the fibers the others fork
    MaxTimeout,     \* max_timeout of a waiter
    MaxData,        \* bound: pieces of data a peer sends and a socket holds
    MaxEffects,     \* bound: effects a fiber performs
    Shared,         \* TRUE: a fiber may close a socket of another
    NoFiber

ASSUME SchedulerAssumption ==
    /\ Main \notin Children /\ NoFiber \notin Children \cup {Main}
    /\ MaxTimeout \in Nat /\ MaxData \in Nat /\ MaxEffects \in Nat
    /\ Shared \in BOOLEAN

Fibers == Children \cup {Main}

VARIABLES
    run_queue,      \* closures, as what they will do and for which fiber
    io_waiters,     \* the list of waiters, its head first
    promise,        \* the promise each forked fiber resolves
    status,         \* where each fiber is in its life
    kind,           \* how each fiber was started
    owed,           \* the awaits Fiber.both and Fiber.all have yet to make
    left,           \* effects each fiber may still perform
    sock,           \* each fiber's socket
    dropped,        \* history: fibers whose wait another one's Tcp_close ended
    fibers,         \* sw.fibers
    result, exn_ref,    \* whether Switch.run has a result, an exception
    pc,             \* "check" and "take" of the loops, "fiber", "returned"
    current,        \* the fiber that runs
    rewrapped,      \* main runs inside a second match_with
    depth           \* schedulers nested above main_scheduler

schedVars == <<fibers, result, exn_ref, depth, pc, current, rewrapped>>
vars == <<run_queue, io_waiters, promise, status, kind, owed, left, sock, dropped, schedVars>>

Task(type, f, on, ok) == [type |-> type, fiber |-> f, on |-> on, ok |-> ok]
Start(f) == Task("start", f, NoFiber, TRUE)
Resume(f, ok) == Task("resume", f, NoFiber, ok)     \* continue or discontinue
Awaited(f, p) == Task("awaited", f, p, TRUE)        \* the waker of a promise

Closed == [state |-> "none", data |-> 0]

Init ==
    /\ run_queue = <<Start(Main)>>
    /\ io_waiters = <<>>
    /\ promise = [f \in Fibers |-> [state |-> "none", waiters |-> <<>>]]
    /\ status = [f \in Fibers |-> IF f = Main THEN "forked" ELSE "unborn"]
    /\ kind = [f \in Fibers |-> "unit"]
    /\ owed = [f \in Fibers |-> <<>>]
    /\ left = [f \in Fibers |-> MaxEffects]
    /\ sock = [f \in Fibers |-> Closed] /\ dropped = {}
    /\ fibers = 1 /\ result = FALSE /\ exn_ref = FALSE
    /\ pc = "check" /\ current = NoFiber /\ rewrapped = FALSE /\ depth = 0

-----------------------------------------------------------------------------
(* Sockets                                                                 *)

(* What the network may do to a socket while it is serviced; one whose     *)
(* peer has closed may still be reset.                                     *)
Evolved(s) ==
    CASE s.state = "CONNECTING" -> {[s EXCEPT !.state = "CONNECTED"],
                                    [s EXCEPT !.state = "ERROR"]}
      [] s.state = "CONNECTED"  -> {[s EXCEPT !.state = "CLOSED"],
                                    [s EXCEPT !.state = "ERROR"]}
                                   \cup {[s EXCEPT !.data = n] :
                                           n \in {s.data + 1} \cap 1 .. MaxData}
      [] s.state = "CLOSED"     -> {[s EXCEPT !.state = "ERROR"]}
      [] OTHER -> {}

Serviced ==
    {sock} \cup UNION {{[sock EXCEPT ![f] = s] : s \in Evolved(sock[f])} : f \in Fibers}

(* tcp_read_raw: the number of pieces read, or -2 *)
tcp_read(s, max_len) ==
    LET n == IF s.data < max_len THEN s.data ELSE max_len
    IN  IF n = 0 /\ s.state \in {"CLOSED", "none"} THEN -2 ELSE n

Drained(s) == [s EXCEPT !.data = 0]

-----------------------------------------------------------------------------
(* The scheduler's loop                                                    *)

(* The elements of s at the places I, in their order: List.filter. *)
Selected(s, I) ==
    [k \in 1 .. Cardinality(I) |->
        s[CHOOSE i \in I : Cardinality({j \in I : j <= i}) = k]]

Reversed(s) == [i \in 1 .. Len(s) |-> s[Len(s) + 1 - i]]

IsReady(w, net) ==
    CASE w.operation = "Connect" -> net[w.fiber].state = "CONNECTED"
      [] w.operation = "Read"    -> LET n == tcp_read(net[w.fiber], 0)
                                    IN  n > 0 \/ n = -2

(* Faulty variant: the counter of a waiter is not advanced. *)
AgedNever(w) == w

Aged(w) == [w EXCEPT !.timeout_count = @ + 1]

(* Faulty variant: a waiter that timed out stays in the list. *)
RemainsLonger(w, net) == ~IsReady(w, net)

Remains(w, net) == ~IsReady(w, net) /\ w.timeout_count < MaxTimeout

Wakes(w, net) == IsReady(w, net) \/ w.timeout_count >= MaxTimeout

Woken(w, net) ==
    Task(CASE IsReady(w, net) /\ w.operation = "Connect" -> "connected"
           [] IsReady(w, net) /\ w.operation = "Read"    -> "readable"
           [] OTHER -> IF w.operation = "Connect" THEN "connect_timeout"
                       ELSE "read_timeout",
         w.fiber, NoFiber, TRUE)

(* The fold conses, so both lists come out reversed. *)
CheckIoCompletions ==
    /\ pc = "check" /\ pc' = "take"
    /\ \E net \in Serviced :
         LET remaining == Selected(io_waiters,
                            {i \in DOMAIN io_waiters : Remains(io_waiters[i], net)})
             to_wake == Selected(io_waiters,
                            {i \in DOMAIN io_waiters : Wakes(io_waiters[i], net)})
         IN  /\ io_waiters' = Reversed([i \in 1 .. Len(remaining) |-> Aged(remaining[i])])
             /\ run_queue' = run_queue \o
                    Reversed([i \in 1 .. Len(to_wake) |-> Woken(to_wake[i], net)])
             /\ sock' = net
    /\ UNCHANGED <<promise, status, kind, owed, left, dropped, fibers, result,
                   exn_ref, current, rewrapped, depth>>

(* A fiber starts or is resumed; a resumed main gets a second handler, and *)
(* an exception skips the awaits that both or all had yet to make.         *)
RunFiber(t) ==
    /\ t.type \in {"start", "resume"}
    /\ run_queue' = Tail(run_queue)
    /\ status' = [status EXCEPT ![t.fiber] = "running"]
    /\ owed' = IF t.ok THEN owed ELSE [owed EXCEPT ![t.fiber] = <<>>]
    /\ pc' = "fiber" /\ current' = t.fiber
    /\ rewrapped' = (t.fiber = Main /\ t.type = "resume")
    /\ UNCHANGED <<io_waiters, promise, kind, left, sock, dropped, fibers, result,
                   exn_ref, depth>>

Requeue(t, ok) ==
    /\ run_queue' = Append(Tail(run_queue), Resume(t.fiber, ok))
    /\ pc' = "check"
    /\ UNCHANGED <<io_waiters, promise, status, kind, owed, left, dropped, fibers,
                   result, exn_ref, current, rewrapped, depth>>

(* The closures wake and on_timeout of a waiter, and the waker of a        *)
(* promise, enqueue the closure that resumes the fiber.                    *)
RunConnected(t) == t.type = "connected" /\ Requeue(t, TRUE) /\ UNCHANGED sock

RunReadable(t) ==
    /\ t.type = "readable"
    /\ Requeue(t, tcp_read(sock[t.fiber], MaxData) > 0)
    /\ sock' = [sock EXCEPT ![t.fiber] = Drained(@)]

RunConnectTimeout(t) ==
    /\ t.type = "connect_timeout"
    /\ Requeue(t, FALSE)
    /\ sock' = [sock EXCEPT ![t.fiber] = Closed]

RunReadTimeout(t) == t.type = "read_timeout" /\ Requeue(t, FALSE) /\ UNCHANGED sock

RunAwaited(t) ==
    /\ t.type = "awaited" /\ promise[t.on].state # "Pending"
    /\ Requeue(t, promise[t.on].state = "Resolved")
    /\ UNCHANGED sock

TakeTask ==
    /\ pc = "take" /\ run_queue # <<>>
    /\ LET t == Head(run_queue)
       IN  \/ RunFiber(t) \/ RunConnected(t) \/ RunReadable(t)
           \/ RunConnectTimeout(t) \/ RunReadTimeout(t) \/ RunAwaited(t)

(* Faulty variant: the waiters are not looked at. *)
HasWorkFibers == fibers > 0

HasWork == fibers > 0 \/ io_waiters # <<>>

Idle ==
    /\ pc = "take" /\ run_queue = <<>>
    /\ \/ /\ depth = 0 /\ (result \/ exn_ref \/ ~HasWork)
          /\ pc' = "returned" /\ UNCHANGED <<depth, sock>>
       \/ /\ HasWork /\ (depth = 0 => ~result /\ ~exn_ref)
          /\ sock' \in Serviced
          /\ pc' = "check" /\ UNCHANGED depth
       \/ /\ depth > 0 /\ ~HasWork
          /\ depth' = depth - 1
          /\ pc' = "check" /\ UNCHANGED sock
    /\ UNCHANGED <<run_queue, io_waiters, promise, status, kind, owed, left, dropped,
                   fibers, result, exn_ref, current, rewrapped>>

-----------------------------------------------------------------------------
(* Fibers                                                                  *)

(* The closures of both and all run outside every handler. *)
Runs(f) == pc = "fiber" /\ current = f /\ kind[f] # "bare"

Performs(f) ==
    /\ Runs(f) /\ left[f] > 0
    /\ left' = [left EXCEPT ![f] = @ - 1]

Continues == UNCHANGED <<status, schedVars>>

(* Faulty variant: the counter is left alone. *)
FiberDoneNot(n) == n

FiberDone(n) == n - 1

(* Control leaves the fiber: its effect handler, or its retc, calls the    *)
(* scheduler; main's do not, and when main was resumed the second handler  *)
(* takes the return of the first for the result.                           *)
Leaves(f, st, count) ==
    /\ status' = [status EXCEPT ![f] = st]
    /\ pc' = "check" /\ current' = NoFiber /\ rewrapped' = FALSE
    /\ depth' = IF f = Main THEN depth ELSE depth + 1
    /\ fibers' = IF rewrapped THEN FiberDone(count) ELSE count
    /\ result' = (result \/ rewrapped \/ (f = Main /\ st = "done"))

Suspends(f) == Leaves(f, "blocked", fibers) /\ UNCHANGED exn_ref

Yield(f) ==
    /\ Performs(f) /\ owed[f] = <<>>
    /\ run_queue' = Append(run_queue, Resume(f, TRUE))
    /\ Suspends(f)
    /\ UNCHANGED <<io_waiters, promise, kind, owed, sock, dropped>>

Fork(f, c, k) ==
    /\ Performs(f) /\ owed[f] = <<>> /\ status[c] = "unborn"
    /\ fibers' = fibers + 1
    /\ run_queue' = Append(run_queue, Start(c))
    /\ status' = [status EXCEPT ![c] = "forked"]
    /\ kind' = [kind EXCEPT ![c] = k]
    /\ promise' = IF k = "promise" THEN [promise EXCEPT ![c].state = "Pending"]
                  ELSE promise
    /\ UNCHANGED <<io_waiters, owed, sock, dropped, result, exn_ref, pc, current, rewrapped, depth>>

(* Fiber.both, and Fiber.all of two: bare closures, then an await of each. *)
Both(f, a, b) ==
    /\ Performs(f) /\ owed[f] = <<>>
    /\ a # b /\ status[a] = "unborn" /\ status[b] = "unborn"
    /\ run_queue' = run_queue \o <<Start(a), Start(b)>>
    /\ status' = [status EXCEPT ![a] = "forked", ![b] = "forked"]
    /\ kind' = [kind EXCEPT ![a] = "bare", ![b] = "bare"]
    /\ promise' = [promise EXCEPT ![a].state = "Pending", ![b].state = "Pending"]
    /\ owed' = [owed EXCEPT ![f] = <<a, b>>]
    /\ UNCHANGED <<io_waiters, sock, dropped, schedVars>>

(* Faulty variant: the waker is enqueued although the promise is pending. *)
AddWaiterEager(p, f) ==
    run_queue' = Append(run_queue, Awaited(f, p)) /\ UNCHANGED promise

AddWaiter(p, f) ==
    promise' = [promise EXCEPT ![p].waiters = <<f>> \o @] /\ UNCHANGED run_queue

Await(f, p) ==
    /\ promise[p].state # "none" /\ p # f
    /\ \/ owed[f] # <<>> /\ p = Head(owed[f]) /\ Runs(f) /\ UNCHANGED left
       \/ owed[f] = <<>> /\ Performs(f)
    /\ IF promise[p].state = "Pending"
       THEN /\ AddWaiter(p, f)
            /\ owed' = IF owed[f] = <<>> THEN owed ELSE [owed EXCEPT ![f] = Tail(@)]
            /\ Suspends(f)
       ELSE /\ owed' = [owed EXCEPT ![f] =
                           IF promise[p].state = "Failed" \/ @ = <<>> THEN <<>> ELSE Tail(@)]
            /\ Continues /\ UNCHANGED <<promise, run_queue>>
    /\ UNCHANGED <<io_waiters, kind, sock, dropped>>

Watch(f, operation) ==
    io_waiters' = <<[fiber |-> f, operation |-> operation, timeout_count |-> 0]>> \o io_waiters

(* Creation, lookup or tcp_connect fail at once, or the fiber waits. *)
TcpConnect(f) ==
    /\ Performs(f) /\ owed[f] = <<>> /\ sock[f].state = "none"
    /\ \/ Continues /\ UNCHANGED <<sock, io_waiters>>
       \/ /\ sock' = [sock EXCEPT ![f] = [state |-> "CONNECTING", data |-> 0]]
          /\ Watch(f, "Connect")
          /\ Suspends(f)
    /\ UNCHANGED <<run_queue, promise, kind, owed, dropped>>

TcpRead(f) ==
    /\ Performs(f) /\ owed[f] = <<>> /\ sock[f].state # "none"
    /\ \E net \in Serviced :
         IF tcp_read(net[f], MaxData) # 0
         THEN /\ sock' = [net EXCEPT ![f] = Drained(@)]
              /\ Continues /\ UNCHANGED io_waiters
         ELSE sock' = net /\ Watch(f, "Read") /\ Suspends(f)
    /\ UNCHANGED <<run_queue, promise, kind, owed, dropped>>

(* Faulty variant: the waiters stay. *)
UnwatchedKeeps(g) == io_waiters

Unwatched(g) ==
    Selected(io_waiters, {i \in DOMAIN io_waiters : io_waiters[i].fiber # g})

TcpClose(f, g) ==
    /\ Performs(f) /\ owed[f] = <<>> /\ sock[g].state # "none"
    /\ f = g \/ Shared
    /\ io_waiters' = Unwatched(g)
    /\ dropped' = IF g \in {io_waiters[i].fiber : i \in DOMAIN io_waiters}
                  THEN dropped \cup {g} ELSE dropped
    /\ sock' = [sock EXCEPT ![g] = Closed]
    /\ Continues
    /\ UNCHANGED <<run_queue, promise, kind, owed>>

(* The effects that service the network and continue: Tcp_write, and       *)
(* likewise Udp_sendto and each round of Udp_recvfrom.  The other effects  *)
(* (Udp_create, Udp_bind, Udp_close, Dns_resolve, Wifi_connect) continue   *)
(* at once and touch nothing of this module.                               *)
NetEffect(f) ==
    /\ Runs(f) /\ owed[f] = <<>> /\ sock' \in Serviced \ {sock}
    /\ UNCHANGED <<run_queue, io_waiters, promise, status, kind, owed, left, dropped, schedVars>>

(* Faulty variant: only the newest waiter is enqueued. *)
WakersFirst(f) ==
    [i \in DOMAIN promise[f].waiters \cap {1} |-> Awaited(promise[f].waiters[i], f)]

Wakers(f) == [i \in 1 .. Len(promise[f].waiters) |-> Awaited(promise[f].waiters[i], f)]

(* Faulty variant: an exception leaves the promise pending. *)
SettleUnlessFailed(f, state) ==
    IF state = "Failed" THEN UNCHANGED <<promise, run_queue>>
    ELSE /\ promise' = [promise EXCEPT ![f] = [state |-> state, waiters |-> <<>>]]
         /\ run_queue' = run_queue \o Wakers(f)

Settle(f, state) ==
    /\ promise' = [promise EXCEPT ![f] = [state |-> state, waiters |-> <<>>]]
    /\ run_queue' = run_queue \o Wakers(f)

(* run_fiber, and main: nobody waits for the result. *)
EndsUnit(f, end) ==
    /\ kind[f] = "unit"
    /\ Leaves(f, end, FiberDone(fibers))
    /\ UNCHANGED <<promise, run_queue>>

(* run_promise_fiber: an Error is a value too. *)
EndsPromise(f, end) ==
    /\ kind[f] = "promise"
    /\ Settle(f, "Resolved")
    /\ Leaves(f, end, FiberDone(fibers))

(* A closure of both or all; it also fails when it performs an effect,     *)
(* which has no handler there.                                             *)
EndsBare(f, end) ==
    /\ kind[f] = "bare"
    /\ Settle(f, IF end = "done" THEN "Resolved" ELSE "Failed")
    /\ status' = [status EXCEPT ![f] = end]
    /\ pc' = "check" /\ current' = NoFiber
    /\ UNCHANGED <<fibers, result, depth, rewrapped>>

(* The fiber's function returns (ok) or raises. *)
Finish(f, ok) ==
    /\ pc = "fiber" /\ current = f /\ owed[f] = <<>>
    /\ LET end == IF ok THEN "done" ELSE "raised"
       IN  EndsUnit(f, end) \/ EndsPromise(f, end) \/ EndsBare(f, end)
    /\ exn_ref' = (exn_ref \/ (f = Main /\ ~ok))
    /\ UNCHANGED <<io_waiters, kind, owed, left, sock, dropped>>

FiberStep(f) ==
    \/ Yield(f) \/ TcpConnect(f) \/ TcpRead(f) \/ NetEffect(f)
    \/ \E ok \in BOOLEAN : Finish(f, ok)
    \/ \E c \in Children : Fork(f, c, "unit") \/ Fork(f, c, "promise")
    \/ \E a, b \in Children : Both(f, a, b)
    \/ \E p \in Children : Await(f, p)
    \/ \E g \in Fibers : TcpClose(f, g)

Next ==
    \/ CheckIoCompletions
    \/ TakeTask
    \/ Idle
    \/ \E f \in Fibers : FiberStep(f)

Spec == Init /\ [][Next]_vars

(* The processor keeps running; a fiber's function performs effects, and   *)
(* ends.                                                                   *)
FairSpec == Spec /\ WF_vars(Next)

-----------------------------------------------------------------------------
(* Properties                                                              *)

TaskTypes == {"start", "resume", "connected", "readable", "connect_timeout",
              "read_timeout", "awaited"}

(* The type of every variable. *)
TypeOK ==
    /\ run_queue \in Seq([type : TaskTypes, fiber : Fibers,
                          on : Fibers \cup {NoFiber}, ok : BOOLEAN])
    /\ io_waiters \in Seq([fiber : Fibers, operation : {"Connect", "Read"},
                           timeout_count : 0 .. MaxTimeout])
    /\ promise \in [Fibers -> [state : {"none", "Pending", "Resolved", "Failed"},
                               waiters : Seq(Fibers)]]
    /\ status \in [Fibers -> {"unborn", "forked", "running", "blocked", "done", "raised"}]
    /\ kind \in [Fibers -> {"unit", "promise", "bare"}]
    /\ owed \in [Fibers -> Seq(Fibers)]
    /\ left \in [Fibers -> 0 .. MaxEffects]
    /\ sock \in [Fibers -> [state : {"none", "CONNECTING", "CONNECTED", "CLOSED", "ERROR"},
                            data : 0 .. MaxData]]
    /\ fibers \in Int /\ depth \in Nat
    /\ result \in BOOLEAN /\ exn_ref \in BOOLEAN /\ rewrapped \in BOOLEAN
    /\ dropped \subseteq Fibers
    /\ pc \in {"check", "take", "fiber", "returned"}
    /\ current \in Fibers \cup {NoFiber}

Resumers(f) ==
    Cardinality({i \in DOMAIN run_queue : run_queue[i].fiber = f})
    + Cardinality({i \in DOMAIN io_waiters : io_waiters[i].fiber = f})
    + Cardinality(UNION {{p} \X {i \in DOMAIN promise[p].waiters :
                                    promise[p].waiters[i] = f} : p \in Children})

(* A continuation is resumed at most once: of a fiber that waits, one      *)
(* closure at most is in the run queue, on a promise or on a socket, and   *)
(* none of a fiber that runs or has ended.                                 *)
ResumedOnce ==
    \A f \in Fibers :
        Resumers(f) <= IF status[f] \in {"forked", "blocked"} THEN 1 ELSE 0

(* A fiber that waits is known to something that will resume it, unless    *)
(* another fiber closed the socket it waited for.                          *)
NotForgotten ==
    \A f \in Fibers :
        status[f] \in {"forked", "blocked"} /\ f \notin dropped => Resumers(f) >= 1

(* The waker of a promise runs after the promise was settled: it never     *)
(* fails with "Promise still pending".                                     *)
WakersSeeSettled ==
    \A i \in DOMAIN run_queue : run_queue[i].type = "awaited" =>
        promise[run_queue[i].on].state \in {"Resolved", "Failed"}

(* A promise is settled when its fiber has ended, and nobody is left       *)
(* waiting on it.                                                          *)
SettledAtTheEnd ==
    \A f \in Children : kind[f] # "unit" =>
        /\ status[f] \in {"done", "raised"} <=> promise[f].state # "Pending"
        /\ promise[f].state # "Pending" => promise[f].waiters = <<>>

(* A socket that is watched is open: no waiter probes a freed slot.        *)
WatchedSocketsOpen ==
    \A i \in DOMAIN io_waiters : sock[io_waiters[i].fiber].state # "none"

Counted == {f \in Fibers : kind[f] # "bare" /\ status[f] \in {"forked", "running", "blocked"}}

(* The switch never counts more fibers than there are: a scheduler does    *)
(* not go round for fibers that have ended.                                *)
NoPhantomFibers == fibers <= Cardinality(Counted)

(* When Switch.run returns, nothing is left to run and nobody but main     *)
(* waits for a socket: the children's input and output has ended.          *)
ReturnAbandonsNoIo ==
    pc = "returned" =>
        /\ run_queue = <<>>
        /\ \A i \in DOMAIN io_waiters : io_waiters[i].fiber = Main

(* A child that waits for a socket, or is in the run queue, runs again:    *)
(* every wait ends, if only by its timeout.                                *)
ChildServed ==
    \A c \in Children :
        (\/ \E i \in DOMAIN run_queue : run_queue[i].fiber = c
         \/ \E i \in DOMAIN io_waiters : io_waiters[i].fiber = c)
        ~> status[c] = "running"

(* When every fiber has ended Switch.run returns. *)
Returns ==
    (\A f \in Fibers : status[f] \in {"unborn", "done", "raised"}) ~> pc = "returned"

(* Switch.run returns a result only when main has ended. *)
MainCompletes == pc = "returned" /\ result /\ ~exn_ref => status[Main] = "done"

(* A read is given up for want of data only when there is none. *)
TimeoutMeansNoData ==
    [][\A i \in DOMAIN io_waiters :
         LET w == io_waiters[i] IN
         w.operation = "Read" /\ pc = "check" /\ w.timeout_count >= MaxTimeout
         /\ ~IsReady(w, sock') => sock'[w.fiber].data = 0]_vars

=============================================================================
