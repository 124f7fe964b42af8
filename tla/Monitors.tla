------------------------------- MODULE Monitors -------------------------------
(***************************************************************************)
(* What the runtime asks of pthreads: recursive mutexes that exclude, and  *)
(* condition variables, here without spurious wakeups.  A wait gives the   *)
(* mutex back and joins the wait set in one step, so that no signal falls  *)
(* between; a core in a wait set does nothing until it is notified, and    *)
(* then takes the mutex again like any other.                              *)
(***************************************************************************)
EXTENDS Integers

CONSTANTS Cores, Mutexes, Conds

VARIABLES
    depth,    \* how often each core has each mutex
    waitset   \* the cores that wait for each condition variable

Init ==
    /\ depth = [c \in Cores |-> [m \in Mutexes |-> 0]]
    /\ waitset = [v \in Conds |-> {}]

Awake(c) == \A v \in Conds : c \notin waitset[v]

Acquire(c, m) ==
    /\ Awake(c)
    /\ \A d \in Cores \ {c} : depth[d][m] = 0
    /\ depth' = [depth EXCEPT ![c][m] = @ + 1]
    /\ UNCHANGED waitset

Release(c, m) ==
    /\ Awake(c)
    /\ depth[c][m] > 0
    /\ depth' = [depth EXCEPT ![c][m] = @ - 1]
    /\ UNCHANGED waitset

Sleep(c, v) ==
    /\ Awake(c)
    /\ waitset' = [waitset EXCEPT ![v] = @ \cup {c}]

Wait(c, v, m) ==
    /\ Sleep(c, v)
    /\ depth[c][m] > 0
    /\ depth' = [depth EXCEPT ![c][m] = @ - 1]

(* The mutex of the wait has no slot in the pool: it was never locked. *)
WaitUnlocked(c, v) == Sleep(c, v) /\ UNCHANGED depth

(* pthread_cond_signal, too, wakes all. *)
Notify(v) ==
    /\ waitset' = [waitset EXCEPT ![v] = {}]
    /\ UNCHANGED depth

Next ==
    \/ \E c \in Cores, m \in Mutexes : Acquire(c, m) \/ Release(c, m)
    \/ \E c \in Cores, v \in Conds :
          WaitUnlocked(c, v) \/ \E m \in Mutexes : Wait(c, v, m)
    \/ \E v \in Conds : Notify(v)

Spec == Init /\ [][Next]_<<depth, waitset>>

=============================================================================
