----------------------------- MODULE Core1Thread -----------------------------
(***************************************************************************)
(* The life of core 1: pthread_create launches it for every second call    *)
(* (the others are backup threads, which are faked), core1_wrapper runs    *)
(* the domain's function and cleans up after it, pthread_join and the next *)
(* pthread_create wait for that.  Core 0 and core 1 share the flags        *)
(* core1_started and core1_finished; each access is a step.                *)
(*                                                                         *)
(* External, from the comments of pthread_create: domain 0 asks for its    *)
(* backup thread before the first spawn, and a domain on core 1 for its    *)
(* own, once it runs, unless the runtime's flag says that it has one.      *)
(***************************************************************************)
EXTENDS Integers

CONSTANTS
    Funcs,       \* the functions of the domains the program spawns
    Mutexes,     \* what a domain may leave locked
    MaxDepth,    \* bound of the model: nesting of one mutex
    NoFunc,
    Handshake,   \* a spawn returns only when the new domain has reported
    JoinFirst    \* a spawn follows the end of the previous domain

ASSUME ThreadAssumption ==
    /\ NoFunc \notin Funcs /\ MaxDepth \in Nat
    /\ Handshake \in BOOLEAN /\ JoinFirst \in BOOLEAN

VARIABLES
    main,           \* where core 0 is
    pc1,            \* where core 1 is
    create_count,   \* pthread_create_count
    entry_func,     \* core1_entry_func
    started,        \* core1_started
    finished,       \* core1_finished
    held_counts,    \* held_counts[1]
    tls,            \* tls_values[1] holds values
    backup0,        \* external: domain 0 has its backup thread
    backup1,        \* external: so has the domain of core 1
    running,        \* the function core 1 is in
    created,        \* history: the functions spawned
    target,         \* history: the last one
    begun,          \* history: those that started to run
    ended,          \* history: those that returned
    faked,          \* history: those taken for a backup thread
    joined          \* history: those pthread_join returned for

flagVars == <<create_count, entry_func, started, finished>>
domainVars == <<held_counts, tls, backup0, backup1, running>>
history == <<created, target, begun, ended, faked, joined>>
vars == <<main, pc1, flagVars, domainVars, history>>

Init ==
    /\ main = "run" /\ pc1 = "off"
    /\ create_count = 0 /\ entry_func = NoFunc
    /\ started = 0 /\ finished = 0
    /\ held_counts = [m \in Mutexes |-> 0] /\ tls = FALSE
    /\ backup0 = FALSE /\ backup1 = FALSE /\ running = NoFunc
    /\ created = {} /\ target = NoFunc
    /\ begun = {} /\ ended = {} /\ faked = {} /\ joined = {}

-----------------------------------------------------------------------------
(* Core 0                                                                  *)

(* An odd call: nothing is launched. *)
BackupCreate ==
    /\ main = "run" /\ ~backup0
    /\ create_count' = create_count + 1
    /\ backup0' = TRUE
    /\ UNCHANGED <<main, pc1, entry_func, started, finished, held_counts, tls,
                   backup1, running, history>>

(* The call for a domain's thread, whatever its number turns out to be. *)
Create(f) ==
    /\ main = "run" /\ backup0 /\ f \notin created
    /\ JoinFirst => created \subseteq ended
    /\ create_count' = create_count + 1
    /\ created' = created \cup {f} /\ target' = f
    /\ IF create_count' % 2 = 1
         THEN /\ faked' = faked \cup {f}
              /\ main' = IF Handshake THEN "handshake" ELSE "run"
              /\ UNCHANGED <<entry_func, started>>
         ELSE /\ entry_func' = f /\ started' = 0
              /\ main' = IF create_count' > 2 THEN "await" ELSE "launch"
              /\ UNCHANGED faked
    /\ UNCHANGED <<pc1, finished, domainVars, begun, ended, joined>>

(* Faulty variant: core 1 is reset without waiting. *)
AwaitNothing ==
    /\ main = "await"
    /\ main' = "reset"
    /\ UNCHANGED <<pc1, flagVars, domainVars, history>>

AwaitFinished ==
    /\ main = "await" /\ finished = 1
    /\ main' = "reset"
    /\ UNCHANGED <<pc1, flagVars, domainVars, history>>

(* multicore_reset_core1 stops core 1 where it is; then its TLS is cleared. *)
ResetCore1 ==
    /\ main = "reset"
    /\ main' = "launch" /\ pc1' = "off"
    /\ running' = NoFunc /\ tls' = FALSE
    /\ UNCHANGED <<flagVars, held_counts, backup0, backup1, history>>

Launch ==
    /\ main = "launch"
    /\ main' = "spin" /\ pc1' = "start"
    /\ UNCHANGED <<flagVars, domainVars, history>>

(* while (!core1_started): pthread_create returns. *)
SeeStarted ==
    /\ main = "spin" /\ started = 1
    /\ main' = IF Handshake THEN "handshake" ELSE "run"
    /\ UNCHANGED <<pc1, flagVars, domainVars, history>>

(* External: Domain.spawn returns when the new domain has reported. *)
SeeReport ==
    /\ main = "handshake" /\ target \in begun
    /\ main' = "run"
    /\ UNCHANGED <<pc1, flagVars, domainVars, history>>

JoinCall ==
    /\ main = "run" /\ target \in created \ (joined \cup faked)
    /\ main' = "join"
    /\ UNCHANGED <<pc1, flagVars, domainVars, history>>

JoinReturn ==
    /\ main = "join" /\ finished = 1
    /\ main' = "run"
    /\ joined' = joined \cup {target}
    /\ UNCHANGED <<pc1, flagVars, domainVars, created, target, begun, ended, faked>>

-----------------------------------------------------------------------------
(* Core 1: core1_wrapper                                                   *)

(* Faulty variant: the launching core is not told. *)
StartSilently ==
    /\ pc1 = "start"
    /\ pc1' = "unfinish"
    /\ UNCHANGED <<main, flagVars, domainVars, history>>

Start ==
    /\ pc1 = "start"
    /\ started' = 1
    /\ pc1' = "unfinish"
    /\ UNCHANGED <<main, create_count, entry_func, finished, domainVars, history>>

(* Faulty variant: the flag of the previous domain stays. *)
UnfinishNothing ==
    /\ pc1 = "unfinish"
    /\ pc1' = "call"
    /\ UNCHANGED <<main, flagVars, domainVars, history>>

Unfinish ==
    /\ pc1 = "unfinish"
    /\ finished' = 0
    /\ pc1' = "call"
    /\ UNCHANGED <<main, create_count, entry_func, started, domainVars, history>>

CallEntry ==
    /\ pc1 = "call"
    /\ running' = entry_func
    /\ begun' = begun \cup {entry_func}
    /\ pc1' = "backup"
    /\ UNCHANGED <<main, flagVars, held_counts, tls, backup0, backup1, created, target,
                   ended, faked, joined>>

(* External: the new domain asks for its backup thread, if it has none. *)
InstallBackup ==
    /\ pc1 = "backup"
    /\ create_count' = IF backup1 THEN create_count ELSE create_count + 1
    /\ backup1' = TRUE
    /\ pc1' = "body"
    /\ UNCHANGED <<main, entry_func, started, finished, held_counts, tls, backup0,
                   running, history>>

(* What the domain's function does of interest here. *)
LockMutex(m) ==
    /\ pc1 = "body" /\ held_counts[m] < MaxDepth
    /\ held_counts' = [held_counts EXCEPT ![m] = @ + 1]
    /\ UNCHANGED <<main, pc1, flagVars, tls, backup0, backup1, running, history>>

SetTls ==
    /\ pc1 = "body" /\ tls' = TRUE
    /\ UNCHANGED <<main, pc1, flagVars, held_counts, backup0, backup1, running, history>>

Return ==
    /\ pc1 = "body"
    /\ ended' = ended \cup {running}
    /\ pc1' = "cleanup"
    /\ UNCHANGED <<main, flagVars, domainVars, created, target, begun, faked, joined>>

StillHeld(m) == held_counts[m] > 0

(* One turn of the loops that release what is still locked, or their end. *)
Cleanup ==
    /\ pc1 = "cleanup"
    /\ \/ \E m \in Mutexes :
            /\ StillHeld(m)
            /\ held_counts' = [held_counts EXCEPT ![m] = @ - 1]
            /\ UNCHANGED pc1
       \/ /\ \A m \in Mutexes : ~StillHeld(m)
          /\ pc1' = "backup_state"
          /\ UNCHANGED held_counts
    /\ UNCHANGED <<main, flagVars, tls, backup0, backup1, running, history>>

(* Faulty variant: the backup thread stays marked as running. *)
KeepBackupState ==
    /\ pc1 = "backup_state"
    /\ pc1' = "finish"
    /\ UNCHANGED <<main, flagVars, domainVars, history>>

ResetBackupState ==
    /\ pc1 = "backup_state"
    /\ backup1' = FALSE
    /\ pc1' = "finish"
    /\ UNCHANGED <<main, flagVars, held_counts, tls, backup0, running, history>>

Finish ==
    /\ pc1 = "finish"
    /\ finished' = 1
    /\ pc1' = "parked"
    /\ UNCHANGED <<main, create_count, entry_func, started, domainVars, history>>

-----------------------------------------------------------------------------
Core0 ==
    \/ BackupCreate \/ \E f \in Funcs : Create(f)
    \/ AwaitFinished \/ ResetCore1 \/ Launch \/ SeeStarted \/ SeeReport
    \/ JoinCall \/ JoinReturn

Core1 ==
    \/ Start \/ Unfinish \/ CallEntry \/ InstallBackup
    \/ \E m \in Mutexes : LockMutex(m)
    \/ SetTls \/ Return \/ Cleanup \/ ResetBackupState \/ Finish

Next == Core0 \/ Core1

Spec == Init /\ [][Next]_vars

(* Both cores run their code; external: domain functions return. *)
Fairness ==
    /\ WF_vars(AwaitFinished \/ ResetCore1 \/ Launch \/ SeeStarted \/ SeeReport
               \/ JoinReturn)
    /\ WF_vars(Start \/ Unfinish \/ CallEntry \/ InstallBackup \/ Cleanup
               \/ ResetBackupState \/ Finish)
    /\ WF_vars(Return)

FairSpec == Spec /\ Fairness

-----------------------------------------------------------------------------
(* Properties                                                              *)

(* The type of every variable. *)
TypeOK ==
    /\ main \in {"run", "await", "reset", "launch", "spin", "handshake", "join"}
    /\ pc1 \in {"off", "start", "unfinish", "call", "backup", "body", "cleanup",
                "backup_state", "finish", "parked"}
    /\ create_count \in Nat
    /\ entry_func \in Funcs \cup {NoFunc}
    /\ started \in {0, 1} /\ finished \in {0, 1}
    /\ held_counts \in [Mutexes -> Nat]
    /\ {tls, backup0, backup1} \subseteq BOOLEAN
    /\ running \in Funcs \cup {NoFunc} /\ target \in Funcs \cup {NoFunc}
    /\ created \subseteq Funcs /\ begun \subseteq Funcs \cup {NoFunc}
    /\ ended \subseteq Funcs \cup {NoFunc}
    /\ faked \subseteq Funcs /\ joined \subseteq Funcs

(* When pthread_join returns for a domain's thread, the function has       *)
(* returned and what it left locked is released: the finished flag it saw  *)
(* is this thread's, not that of the one before.                           *)
JoinAfterFinish ==
    [][\A f \in joined' \ joined : f \in ended /\ pc1 = "parked"]_vars

(* ocaml_stubs.c:587, "Wait for previous domain's cleanup to complete":    *)
(* core 1 is reset only when it is parked.                                 *)
ResetAfterCleanup == [][pc1 /= "off" /\ pc1' = "off" => pc1 = "parked"]_vars

(* Core 1 starts a domain with nothing of the previous one: no mutex held, *)
(* no TLS value, no backup thread marked as running.                       *)
CleanStart ==
    pc1 = "start" =>
        (\A m \in Mutexes : held_counts[m] = 0) /\ ~tls /\ ~backup1

(* ocaml_stubs.c:567, "odd calls are backup threads (skip), even calls are *)
(* domain threads": no domain's thread is taken for a backup thread.       *)
DomainsLaunched == faked = {}

(* A spawn or a join under way on core 0 comes to its end. *)
MainReturns == main /= "run" ~> main = "run"

=============================================================================
