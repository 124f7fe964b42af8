-------------------------- MODULE Core1Thread_proofs --------------------------
(***************************************************************************)
(* Proofs about Core1Thread for programs that spawn a domain after the     *)
(* previous one has ended, under a runtime whose spawn waits for the new   *)
(* domain to report (what OCaml's Domain.spawn and Domain.join do), for    *)
(* any number of domains and mutexes.                                      *)
(***************************************************************************)
EXTENDS Core1Thread, TLAPS

(* The environment the theorems are about. *)
Disciplined == Handshake /\ JoinFirst

Odd(n) == n % 2 = 1

Starting == {"start", "unfinish", "call"}
Ending == {"cleanup", "backup_state", "finish", "parked"}

(* The parity of the call counter tells the two kinds of call apart. *)
ParityInv ==
    /\ faked = {}
    /\ ~backup0 => create_count = 0 /\ main = "run" /\ created = {}
    /\ (main \in {"await", "reset", "launch"} \/ pc1 \in Starting \cup {"backup"})
          => ~Odd(create_count)
    /\ backup0 /\ main \notin {"await", "reset", "launch"}
          /\ pc1 \notin Starting \cup {"backup"} => Odd(create_count)
    /\ main = "run" /\ pc1 = "off" => create_count < 2
    /\ pc1 /= "off" \/ main /= "run" => backup0 /\ create_count >= 2

(* Where core 1 can be for each place of core 0. *)
PlaceInv ==
    /\ created = {} => main = "run" /\ pc1 = "off"
    /\ created /= {} => target \in created
    /\ main = "await" => pc1 \in Ending
    /\ main = "reset" => pc1 = "parked"
    /\ main = "launch" => pc1 = "off"
    /\ main \in {"spin", "handshake"} => pc1 /= "off"
    /\ main \in {"run", "join"} /\ created /= {} =>
          target \in begun /\ pc1 \notin Starting \cup {"off"}
    /\ main /= "run" => created /= {}

(* Which function core 1 is in, and how far it got. *)
RunInv ==
    /\ begun \subseteq created /\ ended \subseteq begun
    /\ main \in {"await", "reset", "launch"} => target \notin begun
    /\ main \notin {"run", "join"} => entry_func = target
    /\ pc1 \in Starting => target \notin begun /\ entry_func = target
    /\ pc1 \in {"backup", "body"} => running = target /\ target \notin ended
                                      /\ target \in begun
    /\ main \notin {"await", "reset"} /\ pc1 \in Ending => target \in ended

(* The finished flag, and what core 1 has cleaned up. *)
CleanInv ==
    /\ finished = 1 => pc1 \in {"parked", "off", "start", "unfinish"}
    /\ pc1 \in Starting \cup {"off", "backup", "backup_state", "finish", "parked"} =>
          \A m \in Mutexes : held_counts[m] = 0
    /\ pc1 \in Starting \cup {"off", "backup"} => ~tls
    /\ pc1 \in {"body", "cleanup", "backup_state"} <=> backup1

IInv == TypeOK /\ ParityInv /\ PlaceInv /\ RunInv /\ CleanInv

LEMMA InitIInv == Init => IInv
<1> SUFFICES ASSUME Init  PROVE IInv
  OBVIOUS
<1>1. TypeOK
  BY DEF Init, TypeOK
<1>2. ParityInv
  BY DEF Init, ParityInv, Starting
<1>3. PlaceInv /\ RunInv
  BY DEF Init, PlaceInv, RunInv, Starting, Ending
<1>4. CleanInv
  BY DEF Init, CleanInv, Starting
<1> QED  BY <1>1, <1>2, <1>3, <1>4 DEF IInv

LEMMA ParityAlternates == \A n \in Nat : Odd(n + 1) <=> ~Odd(n)
BY DEF Odd

(* The first call is odd. *)
LEMMA BackupCreateKeeps ==
    ASSUME Disciplined, IInv, BackupCreate
    PROVE  IInv'
<1>0. TypeOK /\ ParityInv /\ PlaceInv /\ RunInv /\ CleanInv
  BY DEF IInv
<1>1. TypeOK'
  BY <1>0, ThreadAssumption DEF BackupCreate, flagVars, domainVars, history, TypeOK
<1>2. ParityInv'
  BY <1>0, ThreadAssumption DEF BackupCreate, flagVars, domainVars, history, ParityInv, Odd, PlaceInv, Starting, Ending, RunInv, TypeOK
<1>3. PlaceInv'
  BY <1>0, ThreadAssumption DEF BackupCreate, flagVars, domainVars, history, PlaceInv, Starting, Ending, RunInv, ParityInv, CleanInv, TypeOK
<1>4. RunInv'
  BY <1>0, ThreadAssumption DEF BackupCreate, flagVars, domainVars, history, RunInv, PlaceInv, Starting, Ending, TypeOK
<1>5. CleanInv'
  BY <1>0, ThreadAssumption DEF BackupCreate, flagVars, domainVars, history, CleanInv, PlaceInv, Starting, Ending, TypeOK
<1> QED  BY <1>1, <1>2, <1>3, <1>4, <1>5 DEF IInv

(* A call for a domain is even: the previous domain has ended, so its own
   backup call is over. *)
LEMMA CreateFacts ==
    ASSUME Disciplined, IInv, NEW f \in Funcs, Create(f)
    PROVE  /\ main = "run" /\ backup0 /\ f \notin created
           /\ created \subseteq ended
           /\ created = {} => pc1 = "off"
           /\ created /= {} => pc1 \in Ending
           /\ create_count' \in Nat /\ create_count' >= 2 /\ ~Odd(create_count')
           /\ created' = created \cup {f} /\ target' = f /\ entry_func' = f
           /\ main' = IF created = {} THEN "launch" ELSE "await"
           /\ UNCHANGED <<faked, pc1, finished, domainVars, begun, ended, joined>>
<1>0. TypeOK /\ ParityInv /\ PlaceInv /\ RunInv
  BY DEF IInv
<1>1. /\ main = "run" /\ created \subseteq ended /\ backup0 /\ f \notin created
      /\ created /= {} => pc1 \in Ending
      /\ created = {} => pc1 = "off"
  BY <1>0 DEF Create, Disciplined, TypeOK, PlaceInv, RunInv, Starting, Ending
<1>2. Odd(create_count) /\ create_count \in Nat
  BY <1>0, <1>1 DEF TypeOK, ParityInv, Starting, Ending
<1>3. ~Odd(create_count') /\ create_count' = create_count + 1
  BY <1>2, ParityAlternates DEF Create
<1>4. /\ entry_func' = f /\ target' = f /\ created' = created \cup {f}
      /\ main' = IF create_count' > 2 THEN "await" ELSE "launch"
      /\ UNCHANGED <<faked, pc1, finished, domainVars, begun, ended, joined>>
  BY <1>3 DEF Create, Odd
<1>5. create_count >= 1 /\ create_count /= 2
  BY <1>2 DEF Odd
<1>6. created = {} <=> create_count < 2
  BY <1>0, <1>1, <1>2 DEF ParityInv, Ending
<1>7. create_count' > 2 <=> created /= {}
  BY <1>2, <1>3, <1>5, <1>6
<1> QED  BY <1>1, <1>2, <1>3, <1>4, <1>5, <1>7

(* So Create keeps the invariant. *)
LEMMA CreateKeeps ==
    ASSUME Disciplined, IInv, NEW f \in Funcs, Create(f)
    PROVE  IInv'
<1>0. TypeOK /\ ParityInv /\ PlaceInv /\ RunInv /\ CleanInv
  BY DEF IInv
<1>1. TypeOK'
  BY <1>0, ThreadAssumption DEF Create, flagVars, domainVars, history, TypeOK, Disciplined
<1>2. ParityInv'
  BY <1>0, CreateFacts DEF domainVars, ParityInv, Starting, Ending
<1>3. PlaceInv'
  BY <1>0, CreateFacts DEF PlaceInv, Starting, Ending
<1>4. RunInv'
  BY <1>0, CreateFacts DEF domainVars, RunInv, Starting, Ending
<1>5. CleanInv'
  BY <1>0, ThreadAssumption DEF Create, flagVars, domainVars, history, CleanInv, PlaceInv, Starting, Ending, TypeOK, Disciplined
<1> QED  BY <1>1, <1>2, <1>3, <1>4, <1>5 DEF IInv

(* The flag is set only by a parked core. *)
LEMMA AwaitFinishedKeeps ==
    ASSUME Disciplined, IInv, AwaitFinished
    PROVE  IInv'
<1>0. TypeOK /\ ParityInv /\ PlaceInv /\ RunInv /\ CleanInv
  BY DEF IInv
<1>1. TypeOK'
  BY <1>0, ThreadAssumption DEF AwaitFinished, flagVars, domainVars, history, TypeOK
<1>2. ParityInv'
  BY <1>0, ThreadAssumption DEF AwaitFinished, flagVars, domainVars, history, ParityInv, Odd, PlaceInv, Starting, Ending, RunInv, TypeOK
<1>3. PlaceInv'
  BY <1>0, ThreadAssumption DEF AwaitFinished, flagVars, domainVars, history, PlaceInv, Starting, Ending, RunInv, ParityInv, CleanInv, TypeOK
<1>4. RunInv'
  BY <1>0, ThreadAssumption DEF AwaitFinished, flagVars, domainVars, history, RunInv, PlaceInv, Starting, Ending, TypeOK
<1>5. CleanInv'
  BY <1>0, ThreadAssumption DEF AwaitFinished, flagVars, domainVars, history, CleanInv, PlaceInv, Starting, Ending, TypeOK
<1> QED  BY <1>1, <1>2, <1>3, <1>4, <1>5 DEF IInv

(* Resetting the parked core. *)
LEMMA ResetCore1Keeps ==
    ASSUME Disciplined, IInv, ResetCore1
    PROVE  IInv'
<1>0. TypeOK /\ ParityInv /\ PlaceInv /\ RunInv /\ CleanInv
  BY DEF IInv
<1>1. TypeOK'
  BY <1>0, ThreadAssumption DEF ResetCore1, flagVars, domainVars, history, TypeOK
<1>2. ParityInv'
  BY <1>0, ThreadAssumption DEF ResetCore1, flagVars, domainVars, history, ParityInv, Odd, PlaceInv, Starting, Ending, RunInv, TypeOK
<1>3. PlaceInv'
  BY <1>0, ThreadAssumption DEF ResetCore1, flagVars, domainVars, history, PlaceInv, Starting, Ending, RunInv, ParityInv, CleanInv, TypeOK
<1>4. RunInv'
  BY <1>0, ThreadAssumption DEF ResetCore1, flagVars, domainVars, history, RunInv, PlaceInv, Starting, Ending, TypeOK
<1>5. CleanInv'
  BY <1>0, ThreadAssumption DEF ResetCore1, flagVars, domainVars, history, CleanInv, PlaceInv, Starting, Ending, TypeOK
<1> QED  BY <1>1, <1>2, <1>3, <1>4, <1>5 DEF IInv

(* Launching it. *)
LEMMA LaunchKeeps ==
    ASSUME Disciplined, IInv, Launch
    PROVE  IInv'
<1>0. TypeOK /\ ParityInv /\ PlaceInv /\ RunInv /\ CleanInv
  BY DEF IInv
<1>1. TypeOK'
  BY <1>0, ThreadAssumption DEF Launch, flagVars, domainVars, history, TypeOK
<1>2. ParityInv'
  BY <1>0, ThreadAssumption DEF Launch, flagVars, domainVars, history, ParityInv, Odd, PlaceInv, Starting, Ending, RunInv, TypeOK
<1>3. PlaceInv'
  BY <1>0, ThreadAssumption DEF Launch, flagVars, domainVars, history, PlaceInv, Starting, Ending, RunInv, ParityInv, CleanInv, TypeOK
<1>4. RunInv'
  BY <1>0, ThreadAssumption DEF Launch, flagVars, domainVars, history, RunInv, PlaceInv, Starting, Ending, TypeOK
<1>5. CleanInv'
  BY <1>0, ThreadAssumption DEF Launch, flagVars, domainVars, history, CleanInv, PlaceInv, Starting, Ending, TypeOK
<1> QED  BY <1>1, <1>2, <1>3, <1>4, <1>5 DEF IInv

(* Seeing that it started. *)
LEMMA SeeStartedKeeps ==
    ASSUME Disciplined, IInv, SeeStarted
    PROVE  IInv'
<1>0. TypeOK /\ ParityInv /\ PlaceInv /\ RunInv /\ CleanInv
  BY DEF IInv
<1>1. TypeOK'
  BY <1>0, ThreadAssumption DEF SeeStarted, flagVars, domainVars, history, TypeOK, Disciplined
<1>2. ParityInv'
  BY <1>0, ThreadAssumption DEF SeeStarted, flagVars, domainVars, history, ParityInv, Odd, PlaceInv, Starting, Ending, RunInv, TypeOK, Disciplined
<1>3. PlaceInv'
  BY <1>0, ThreadAssumption DEF SeeStarted, flagVars, domainVars, history, PlaceInv, Starting, Ending, RunInv, ParityInv, CleanInv, TypeOK, Disciplined
<1>4. RunInv'
  BY <1>0, ThreadAssumption DEF SeeStarted, flagVars, domainVars, history, RunInv, PlaceInv, Starting, Ending, TypeOK, Disciplined
<1>5. CleanInv'
  BY <1>0, ThreadAssumption DEF SeeStarted, flagVars, domainVars, history, CleanInv, PlaceInv, Starting, Ending, TypeOK, Disciplined
<1> QED  BY <1>1, <1>2, <1>3, <1>4, <1>5 DEF IInv

(* Seeing that the domain runs. *)
LEMMA SeeReportKeeps ==
    ASSUME Disciplined, IInv, SeeReport
    PROVE  IInv'
<1>0. TypeOK /\ ParityInv /\ PlaceInv /\ RunInv /\ CleanInv
  BY DEF IInv
<1>1. TypeOK'
  BY <1>0, ThreadAssumption DEF SeeReport, flagVars, domainVars, history, TypeOK
<1>2. ParityInv'
  BY <1>0, ThreadAssumption DEF SeeReport, flagVars, domainVars, history, ParityInv, Odd, PlaceInv, Starting, Ending, RunInv, TypeOK
<1>3. PlaceInv'
  BY <1>0, ThreadAssumption DEF SeeReport, flagVars, domainVars, history, PlaceInv, Starting, Ending, RunInv, ParityInv, CleanInv, TypeOK
<1>4. RunInv'
  BY <1>0, ThreadAssumption DEF SeeReport, flagVars, domainVars, history, RunInv, PlaceInv, Starting, Ending, TypeOK
<1>5. CleanInv'
  BY <1>0, ThreadAssumption DEF SeeReport, flagVars, domainVars, history, CleanInv, PlaceInv, Starting, Ending, TypeOK
<1> QED  BY <1>1, <1>2, <1>3, <1>4, <1>5 DEF IInv

(* Calling pthread_join. *)
LEMMA JoinCallKeeps ==
    ASSUME Disciplined, IInv, JoinCall
    PROVE  IInv'
<1>0. TypeOK /\ ParityInv /\ PlaceInv /\ RunInv /\ CleanInv
  BY DEF IInv
<1>1. TypeOK'
  BY <1>0, ThreadAssumption DEF JoinCall, flagVars, domainVars, history, TypeOK
<1>2. ParityInv'
  BY <1>0, ThreadAssumption DEF JoinCall, flagVars, domainVars, history, ParityInv, Odd, PlaceInv, Starting, Ending, RunInv, TypeOK
<1>3. PlaceInv'
  BY <1>0, ThreadAssumption DEF JoinCall, flagVars, domainVars, history, PlaceInv, Starting, Ending, RunInv, ParityInv, CleanInv, TypeOK
<1>4. RunInv'
  BY <1>0, ThreadAssumption DEF JoinCall, flagVars, domainVars, history, RunInv, PlaceInv, Starting, Ending, TypeOK
<1>5. CleanInv'
  BY <1>0, ThreadAssumption DEF JoinCall, flagVars, domainVars, history, CleanInv, PlaceInv, Starting, Ending, TypeOK
<1> QED  BY <1>1, <1>2, <1>3, <1>4, <1>5 DEF IInv

(* Its return. *)
LEMMA JoinReturnKeeps ==
    ASSUME Disciplined, IInv, JoinReturn
    PROVE  IInv'
<1>0. TypeOK /\ ParityInv /\ PlaceInv /\ RunInv /\ CleanInv
  BY DEF IInv
<1>1. TypeOK'
  BY <1>0 DEF JoinReturn, flagVars, domainVars, TypeOK, PlaceInv
<1>2. ParityInv'
  BY <1>0, ThreadAssumption DEF JoinReturn, flagVars, domainVars, history, ParityInv, Odd, PlaceInv, Starting, Ending, RunInv, TypeOK
<1>3. PlaceInv'
  BY <1>0, ThreadAssumption DEF JoinReturn, flagVars, domainVars, history, PlaceInv, Starting, Ending, RunInv, ParityInv, CleanInv, TypeOK
<1>4. RunInv'
  BY <1>0, ThreadAssumption DEF JoinReturn, flagVars, domainVars, history, RunInv, PlaceInv, Starting, Ending, TypeOK
<1>5. CleanInv'
  BY <1>0, ThreadAssumption DEF JoinReturn, flagVars, domainVars, history, CleanInv, PlaceInv, Starting, Ending, TypeOK
<1> QED  BY <1>1, <1>2, <1>3, <1>4, <1>5 DEF IInv

(* core1_started = 1. *)
LEMMA StartKeeps ==
    ASSUME Disciplined, IInv, Start
    PROVE  IInv'
<1>0. TypeOK /\ ParityInv /\ PlaceInv /\ RunInv /\ CleanInv
  BY DEF IInv
<1>1. TypeOK'
  BY <1>0, ThreadAssumption DEF Start, flagVars, domainVars, history, TypeOK
<1>2. ParityInv'
  BY <1>0, ThreadAssumption DEF Start, flagVars, domainVars, history, ParityInv, Odd, PlaceInv, Starting, Ending, RunInv, TypeOK
<1>3. PlaceInv'
  BY <1>0, ThreadAssumption DEF Start, flagVars, domainVars, history, PlaceInv, Starting, Ending, RunInv, ParityInv, CleanInv, TypeOK
<1>4. RunInv'
  BY <1>0, ThreadAssumption DEF Start, flagVars, domainVars, history, RunInv, PlaceInv, Starting, Ending, TypeOK
<1>5. CleanInv'
  BY <1>0, ThreadAssumption DEF Start, flagVars, domainVars, history, CleanInv, PlaceInv, Starting, Ending, TypeOK
<1> QED  BY <1>1, <1>2, <1>3, <1>4, <1>5 DEF IInv

(* core1_finished = 0. *)
LEMMA UnfinishKeeps ==
    ASSUME Disciplined, IInv, Unfinish
    PROVE  IInv'
<1>0. TypeOK /\ ParityInv /\ PlaceInv /\ RunInv /\ CleanInv
  BY DEF IInv
<1>1. TypeOK'
  BY <1>0, ThreadAssumption DEF Unfinish, flagVars, domainVars, history, TypeOK
<1>2. ParityInv'
  BY <1>0, ThreadAssumption DEF Unfinish, flagVars, domainVars, history, ParityInv, Odd, PlaceInv, Starting, Ending, RunInv, TypeOK
<1>3. PlaceInv'
  BY <1>0, ThreadAssumption DEF Unfinish, flagVars, domainVars, history, PlaceInv, Starting, Ending, RunInv, ParityInv, CleanInv, TypeOK
<1>4. RunInv'
  BY <1>0, ThreadAssumption DEF Unfinish, flagVars, domainVars, history, RunInv, PlaceInv, Starting, Ending, TypeOK
<1>5. CleanInv'
  BY <1>0, ThreadAssumption DEF Unfinish, flagVars, domainVars, history, CleanInv, PlaceInv, Starting, Ending, TypeOK
<1> QED  BY <1>1, <1>2, <1>3, <1>4, <1>5 DEF IInv

(* Calling the function. *)
LEMMA CallEntryKeeps ==
    ASSUME Disciplined, IInv, CallEntry
    PROVE  IInv'
<1>0. TypeOK /\ ParityInv /\ PlaceInv /\ RunInv /\ CleanInv
  BY DEF IInv
<1>1. TypeOK'
  BY <1>0, ThreadAssumption DEF CallEntry, flagVars, domainVars, history, TypeOK
<1>2. ParityInv'
  BY <1>0, ThreadAssumption DEF CallEntry, flagVars, domainVars, history, ParityInv, Odd, PlaceInv, Starting, Ending, RunInv, TypeOK
<1>3. PlaceInv'
  BY <1>0, ThreadAssumption DEF CallEntry, flagVars, domainVars, history, PlaceInv, Starting, Ending, RunInv, ParityInv, CleanInv, TypeOK
<1>4. RunInv'
  BY <1>0, ThreadAssumption DEF CallEntry, flagVars, domainVars, history, RunInv, PlaceInv, Starting, Ending, TypeOK
<1>5. CleanInv'
  BY <1>0, ThreadAssumption DEF CallEntry, flagVars, domainVars, history, CleanInv, PlaceInv, Starting, Ending, TypeOK
<1> QED  BY <1>1, <1>2, <1>3, <1>4, <1>5 DEF IInv

(* The odd call of the new domain. *)
LEMMA InstallBackupKeeps ==
    ASSUME Disciplined, IInv, InstallBackup
    PROVE  IInv'
<1>0. TypeOK /\ ParityInv /\ PlaceInv /\ RunInv /\ CleanInv
  BY DEF IInv
<1>1. TypeOK'
  BY <1>0, ThreadAssumption DEF InstallBackup, flagVars, domainVars, history, TypeOK
<1>2. ParityInv'
  <2>1. ~backup1 /\ create_count' = create_count + 1 /\ ~Odd(create_count)
    BY <1>0 DEF InstallBackup, CleanInv, ParityInv
  <2>2. Odd(create_count')
    BY <1>0, <2>1, ParityAlternates DEF TypeOK
  <2>3. create_count \in Nat /\ main \notin {"await", "reset", "launch"}
    BY <1>0 DEF InstallBackup, TypeOK, PlaceInv, Ending
  <2> QED
    BY <1>0, <2>1, <2>2, <2>3 DEF InstallBackup, history, ParityInv, PlaceInv, Starting
<1>3. PlaceInv'
  BY <1>0, ThreadAssumption DEF InstallBackup, flagVars, domainVars, history, PlaceInv, Starting, Ending, RunInv, ParityInv, CleanInv, TypeOK
<1>4. RunInv'
  BY <1>0, ThreadAssumption DEF InstallBackup, flagVars, domainVars, history, RunInv, PlaceInv, Starting, Ending, TypeOK
<1>5. CleanInv'
  BY <1>0, ThreadAssumption DEF InstallBackup, flagVars, domainVars, history, CleanInv, PlaceInv, Starting, Ending, TypeOK
<1> QED  BY <1>1, <1>2, <1>3, <1>4, <1>5 DEF IInv

(* The domain takes a mutex. *)
LEMMA LockMutexKeeps ==
    ASSUME Disciplined, IInv, NEW m \in Mutexes, LockMutex(m)
    PROVE  IInv'
<1>0. TypeOK /\ ParityInv /\ PlaceInv /\ RunInv /\ CleanInv
  BY DEF IInv
<1>1. TypeOK'
  BY <1>0, ThreadAssumption DEF LockMutex, flagVars, domainVars, history, TypeOK
<1>2. ParityInv'
  BY <1>0, ThreadAssumption DEF LockMutex, flagVars, domainVars, history, ParityInv, Odd, PlaceInv, Starting, Ending, RunInv, TypeOK
<1>3. PlaceInv'
  BY <1>0, ThreadAssumption DEF LockMutex, flagVars, domainVars, history, PlaceInv, Starting, Ending, RunInv, ParityInv, CleanInv, TypeOK
<1>4. RunInv'
  BY <1>0, ThreadAssumption DEF LockMutex, flagVars, domainVars, history, RunInv, PlaceInv, Starting, Ending, TypeOK
<1>5. CleanInv'
  BY <1>0, ThreadAssumption DEF LockMutex, flagVars, domainVars, history, CleanInv, PlaceInv, Starting, Ending, TypeOK
<1> QED  BY <1>1, <1>2, <1>3, <1>4, <1>5 DEF IInv

(* The domain sets a TLS value. *)
LEMMA SetTlsKeeps ==
    ASSUME Disciplined, IInv, SetTls
    PROVE  IInv'
<1>0. TypeOK /\ ParityInv /\ PlaceInv /\ RunInv /\ CleanInv
  BY DEF IInv
<1>1. TypeOK'
  BY <1>0, ThreadAssumption DEF SetTls, flagVars, domainVars, history, TypeOK
<1>2. ParityInv'
  BY <1>0, ThreadAssumption DEF SetTls, flagVars, domainVars, history, ParityInv, Odd, PlaceInv, Starting, Ending, RunInv, TypeOK
<1>3. PlaceInv'
  BY <1>0, ThreadAssumption DEF SetTls, flagVars, domainVars, history, PlaceInv, Starting, Ending, RunInv, ParityInv, CleanInv, TypeOK
<1>4. RunInv'
  BY <1>0, ThreadAssumption DEF SetTls, flagVars, domainVars, history, RunInv, PlaceInv, Starting, Ending, TypeOK
<1>5. CleanInv'
  BY <1>0, ThreadAssumption DEF SetTls, flagVars, domainVars, history, CleanInv, PlaceInv, Starting, Ending, TypeOK
<1> QED  BY <1>1, <1>2, <1>3, <1>4, <1>5 DEF IInv

(* The function returns. *)
LEMMA ReturnKeeps ==
    ASSUME Disciplined, IInv, Return
    PROVE  IInv'
<1>0. TypeOK /\ ParityInv /\ PlaceInv /\ RunInv /\ CleanInv
  BY DEF IInv
<1>1. TypeOK'
  BY <1>0, ThreadAssumption DEF Return, flagVars, domainVars, history, TypeOK
<1>2. ParityInv'
  BY <1>0, ThreadAssumption DEF Return, flagVars, domainVars, history, ParityInv, Odd, PlaceInv, Starting, Ending, RunInv, TypeOK
<1>3. PlaceInv'
  BY <1>0, ThreadAssumption DEF Return, flagVars, domainVars, history, PlaceInv, Starting, Ending, RunInv, ParityInv, CleanInv, TypeOK
<1>4. RunInv'
  BY <1>0, ThreadAssumption DEF Return, flagVars, domainVars, history, RunInv, PlaceInv, Starting, Ending, TypeOK
<1>5. CleanInv'
  BY <1>0, ThreadAssumption DEF Return, flagVars, domainVars, history, CleanInv, PlaceInv, Starting, Ending, TypeOK
<1> QED  BY <1>1, <1>2, <1>3, <1>4, <1>5 DEF IInv

(* Its mutexes are released. *)
LEMMA CleanupKeeps ==
    ASSUME Disciplined, IInv, Cleanup
    PROVE  IInv'
<1>0. TypeOK /\ ParityInv /\ PlaceInv /\ RunInv /\ CleanInv
  BY DEF IInv
<1>1. TypeOK'
  BY <1>0, ThreadAssumption DEF Cleanup, flagVars, domainVars, history, TypeOK, StillHeld
<1>2. ParityInv'
  BY <1>0, ThreadAssumption DEF Cleanup, flagVars, domainVars, history, ParityInv, Odd, PlaceInv, Starting, Ending, RunInv, TypeOK, StillHeld
<1>3. PlaceInv'
  BY <1>0, ThreadAssumption DEF Cleanup, flagVars, domainVars, history, PlaceInv, Starting, Ending, RunInv, ParityInv, CleanInv, TypeOK, StillHeld
<1>4. RunInv'
  BY <1>0, ThreadAssumption DEF Cleanup, flagVars, domainVars, history, RunInv, PlaceInv, Starting, Ending, TypeOK, StillHeld
<1>5. CleanInv'
  BY <1>0, ThreadAssumption DEF Cleanup, flagVars, domainVars, history, CleanInv, PlaceInv, Starting, Ending, TypeOK, StillHeld
<1> QED  BY <1>1, <1>2, <1>3, <1>4, <1>5 DEF IInv

(* Its backup thread is forgotten. *)
LEMMA ResetBackupStateKeeps ==
    ASSUME Disciplined, IInv, ResetBackupState
    PROVE  IInv'
<1>0. TypeOK /\ ParityInv /\ PlaceInv /\ RunInv /\ CleanInv
  BY DEF IInv
<1>1. TypeOK'
  BY <1>0, ThreadAssumption DEF ResetBackupState, flagVars, domainVars, history, TypeOK
<1>2. ParityInv'
  BY <1>0, ThreadAssumption DEF ResetBackupState, flagVars, domainVars, history, ParityInv, Odd, PlaceInv, Starting, Ending, RunInv, TypeOK
<1>3. PlaceInv'
  BY <1>0, ThreadAssumption DEF ResetBackupState, flagVars, domainVars, history, PlaceInv, Starting, Ending, RunInv, ParityInv, CleanInv, TypeOK
<1>4. RunInv'
  BY <1>0, ThreadAssumption DEF ResetBackupState, flagVars, domainVars, history, RunInv, PlaceInv, Starting, Ending, TypeOK
<1>5. CleanInv'
  BY <1>0, ThreadAssumption DEF ResetBackupState, flagVars, domainVars, history, CleanInv, PlaceInv, Starting, Ending, TypeOK
<1> QED  BY <1>1, <1>2, <1>3, <1>4, <1>5 DEF IInv

(* core1_finished = 1. *)
LEMMA FinishKeeps ==
    ASSUME Disciplined, IInv, Finish
    PROVE  IInv'
<1>0. TypeOK /\ ParityInv /\ PlaceInv /\ RunInv /\ CleanInv
  BY DEF IInv
<1>1. TypeOK'
  BY <1>0, ThreadAssumption DEF Finish, flagVars, domainVars, history, TypeOK
<1>2. ParityInv'
  BY <1>0, ThreadAssumption DEF Finish, flagVars, domainVars, history, ParityInv, Odd, PlaceInv, Starting, Ending, RunInv, TypeOK
<1>3. PlaceInv'
  BY <1>0, ThreadAssumption DEF Finish, flagVars, domainVars, history, PlaceInv, Starting, Ending, RunInv, ParityInv, CleanInv, TypeOK
<1>4. RunInv'
  BY <1>0, ThreadAssumption DEF Finish, flagVars, domainVars, history, RunInv, PlaceInv, Starting, Ending, TypeOK
<1>5. CleanInv'
  BY <1>0, ThreadAssumption DEF Finish, flagVars, domainVars, history, CleanInv, PlaceInv, Starting, Ending, TypeOK
<1> QED  BY <1>1, <1>2, <1>3, <1>4, <1>5 DEF IInv

LEMMA IInvInductive ==
    ASSUME Disciplined, IInv, [Next]_vars
    PROVE  IInv'
<1>1. CASE Core0
  BY <1>1, BackupCreateKeeps, CreateKeeps, AwaitFinishedKeeps, ResetCore1Keeps, LaunchKeeps,
     SeeStartedKeeps, SeeReportKeeps, JoinCallKeeps, JoinReturnKeeps DEF Core0
<1>2. CASE Core1
  BY <1>2, StartKeeps, UnfinishKeeps, CallEntryKeeps, InstallBackupKeeps, LockMutexKeeps,
     SetTlsKeeps, ReturnKeeps, CleanupKeeps, ResetBackupStateKeeps, FinishKeeps DEF Core1
<1>3. CASE UNCHANGED vars
  BY <1>3 DEF vars, flagVars, domainVars, history, IInv, TypeOK, ParityInv, PlaceInv, RunInv,
     CleanInv
<1> QED  BY <1>1, <1>2, <1>3 DEF Next

LEMMA InvariantHolds ==
    ASSUME Disciplined
    PROVE  Spec => []IInv
<1>1. IInv /\ [Next]_vars => IInv'
  BY IInvInductive
<1> QED  BY <1>1, InitIInv, PTL DEF Spec

(* Every variable keeps its type: held_counts never goes below zero. *)
THEOREM TypeCorrect ==
    ASSUME Disciplined
    PROVE  Spec => []TypeOK
<1>1. IInv => TypeOK
  BY DEF IInv
<1> QED  BY <1>1, InvariantHolds, PTL

(* A domain's thread is never taken for a backup thread. *)
THEOREM DomainsLaunchedHolds ==
    ASSUME Disciplined
    PROVE  Spec => []DomainsLaunched
<1>1. IInv => DomainsLaunched
  BY DEF IInv, ParityInv, DomainsLaunched
<1> QED  BY <1>1, InvariantHolds, PTL

(* Core 1 starts every domain clean. *)
THEOREM CleanStartHolds ==
    ASSUME Disciplined
    PROVE  Spec => []CleanStart
<1>1. IInv => CleanStart
  BY DEF IInv, CleanInv, CleanStart, Starting
<1> QED  BY <1>1, InvariantHolds, PTL

(* pthread_join returns after the function and its cleanup. *)
THEOREM JoinAfterFinishHolds ==
    ASSUME Disciplined
    PROVE  Spec => JoinAfterFinish
<1>1. ASSUME IInv, [Next]_vars, NEW f \in joined' \ joined
      PROVE  f \in ended /\ pc1 = "parked"
  <2>1. JoinReturn
    BY <1>1 DEF Next, Core0, Core1, vars, flagVars, domainVars, history, BackupCreate, Create,
       AwaitFinished, ResetCore1, Launch, SeeStarted, SeeReport, JoinCall, Start, Unfinish,
       CallEntry, InstallBackup, LockMutex, SetTls, Return, Cleanup, ResetBackupState, Finish
  <2>2. f = target /\ main = "join" /\ finished = 1
    BY <1>1, <2>1 DEF JoinReturn
  <2>3. pc1 = "parked"
    BY <1>1, <2>2 DEF IInv, PlaceInv, CleanInv, Starting
  <2> QED  BY <1>1, <2>2, <2>3 DEF IInv, RunInv, Ending
<1>2. IInv /\ [Next]_vars => [\A f \in joined' \ joined : f \in ended /\ pc1 = "parked"]_vars
  BY <1>1
<1> QED  BY <1>2, InvariantHolds, PTL DEF Spec, JoinAfterFinish

(* Core 1 is reset only after its cleanup. *)
THEOREM ResetAfterCleanupHolds ==
    ASSUME Disciplined
    PROVE  Spec => ResetAfterCleanup
<1>1. ASSUME IInv, [Next]_vars, pc1 /= "off", pc1' = "off"
      PROVE  pc1 = "parked"
  <2>1. ResetCore1
    BY <1>1 DEF Next, Core0, Core1, vars, flagVars, domainVars, history, BackupCreate, Create,
       AwaitFinished, Launch, SeeStarted, SeeReport, JoinCall, JoinReturn, Start, Unfinish,
       CallEntry, InstallBackup, LockMutex, SetTls, Return, Cleanup, ResetBackupState, Finish
  <2> QED  BY <1>1, <2>1 DEF ResetCore1, IInv, PlaceInv
<1>2. IInv /\ [Next]_vars => [pc1 /= "off" /\ pc1' = "off" => pc1 = "parked"]_vars
  BY <1>1
<1> QED  BY <1>2, InvariantHolds, PTL DEF Spec, ResetAfterCleanup

===============================================================================
