---------------------------- MODULE Services_proofs ----------------------------
(***************************************************************************)
(* Proofs about Services, for any cores, any heap and any texts: no byte   *)
(* of the heap is given twice or beyond its limit, and a core that has     *)
(* come back from a call holds neither lock; no text is interleaved with   *)
(* another or overwritten, and no core that sleeps for the output lock is  *)
(* forgotten; one core that looks names up gets the answers to its own     *)
(* questions, and contacts an address that is known for each of them.      *)
(***************************************************************************)
EXTENDS Services, TLAPS

-----------------------------------------------------------------------------
(* The composition                                                         *)

(* A step of the system is a step of each component or leaves it alone.    *)
LEMMA NextOfEach ==
    [Next]_vars => [HeapNext]_heapVars /\ [RawNext]_rawVars /\ [LookupNext]_lookupVars
<1>1. ASSUME NEW c \in Cores, InHeap(c)
      PROVE  HeapNext /\ UNCHANGED <<rawVars, lookupVars>>
  BY <1>1 DEF InHeap, HeapNext
<1>2. ASSUME NEW c \in Writers, InRawOutput(c)
      PROVE  RawNext /\ UNCHANGED <<heapVars, lookupVars>>
  BY <1>2 DEF InRawOutput, RawNext
<1>3. ASSUME NEW c \in Callers, InLookup(c)
      PROVE  LookupNext /\ UNCHANGED <<heapVars, rawVars>>
  BY <1>3 DEF InLookup, LookupNext
<1>4. ASSUME Boots PROVE HeapNext /\ UNCHANGED <<rawVars, lookupVars>>
  BY <1>4 DEF Boots, HeapNext
<1>5. ASSUME Resolves PROVE LookupNext /\ UNCHANGED <<heapVars, rawVars>>
  BY <1>5 DEF Resolves, LookupNext
<1>6. ASSUME UNCHANGED vars PROVE UNCHANGED <<heapVars, rawVars, lookupVars>>
  BY <1>6 DEF vars
<1> QED  BY <1>1, <1>2, <1>3, <1>4, <1>5, <1>6 DEF Next

(* The services together implement each of them: what a core does in one   *)
(* never shows in another.                                                 *)
THEOREM ImplementsHeap == Spec => HeapSpec
<1>1. Init => HeapInit
  BY DEF Init
<1> QED  BY <1>1, NextOfEach, PTL DEF Spec, HeapSpec

(* Beside the others, serial output is what RawOutput says of it.           *)
THEOREM ImplementsRawOutput == Spec => RawSpec
<1>1. Init => RawInit
  BY DEF Init
<1> QED  BY <1>1, NextOfEach, PTL DEF Spec, RawSpec

(* Beside the others, lookups are what Lookup says of them.                 *)
THEOREM ImplementsLookup == Spec => LookupSpec
<1>1. Init => LookupInit
  BY DEF Init
<1> QED  BY <1>1, NextOfEach, PTL DEF Spec, LookupSpec

-----------------------------------------------------------------------------
(* Memory: rounding                                                        *)

(* A quotient, from below and above *)
LEMMA DivBounds ==
    ASSUME NEW a \in Nat, NEW m \in Nat \ {0}
    PROVE  /\ a \div m \in Nat
           /\ (a \div m) * m <= a
           /\ a < (a \div m) * m + m
<1>1. a = m * (a \div m) + (a % m) /\ a % m \in 0 .. m - 1 /\ a \div m \in Nat
  OBVIOUS
<1> QED  BY <1>1

(* Rounding up to a multiple of m adds less than m. *)
LEMMA RoundUpBounds ==
    ASSUME NEW n \in Nat, NEW m \in Nat \ {0}
    PROVE  RoundUp(n, m) \in Nat /\ n <= RoundUp(n, m) /\ RoundUp(n, m) < n + m
<1> DEFINE a == n + m - 1
           q == a \div m
<1>1. a \in Nat
  OBVIOUS
<1>2. q \in Nat /\ q * m <= a /\ a < q * m + m
  BY <1>1, DivBounds
<1>3. RoundUp(n, m) = q * m
  BY DEF RoundUp
<1> HIDE DEF q
<1>4. q * m \in Nat
  BY <1>2
<1> QED  BY <1>2, <1>3, <1>4

-----------------------------------------------------------------------------
(* Where a core is                                                         *)

SbrkPlaces == {"read", "store", "exit", "oom"}

CallPlaces == SbrkPlaces \cup {"sbrk", "got", "failed"}

LazyPlaces == {"init", "flag"}

OwnPlaces == {"fit", "cut", "unlock"}

MallocPlaces == LazyPlaces \cup OwnPlaces \cup {"lock", "enter"}

HeapRecord ==
    [at : {"idle"} \cup CallPlaces \cup MallocPlaces, for : {"none", "mmap", "malloc"},
     size : Nat, align : Nat, incr : Nat, prev : Nat]

TypeInv ==
    /\ boot \in {"reset", "malloc", "up"}
    /\ heap_ptr \in Nat
    /\ sbrk_ready \in BOOLEAN /\ malloc_ready \in BOOLEAN
    /\ sbrk_owner \in Cores \cup {NoCore} /\ malloc_owner \in Cores \cup {NoCore}
    /\ chunk \in [lo : Nat, hi : Nat]
    /\ heap \in [Cores -> HeapRecord]

(* What each call has asked for; malloc asks for all it will cut. *)
CallInv ==
    \A c \in Cores :
        /\ heap[c].at \in MallocPlaces => heap[c].for = "malloc"
        /\ heap[c].at \in CallPlaces =>
             \/ heap[c].for = "mmap" /\ heap[c].size <= heap[c].incr
             \/ heap[c].for = "malloc" /\ Asked(heap[c].size, heap[c].align) <= heap[c].incr

(* posix_memalign asks malloc for no less than its caller asked.           *)
LEMMA AskedType == \A n, align \in Nat : Asked(n, align) \in Nat /\ n <= Asked(n, align)
BY HeapAssumption DEF Asked

(* A step that changes one core's record. *)
LEMMA OneRecord ==
    ASSUME TypeInv, CallInv, NEW c \in Cores, NEW r \in HeapRecord,
           heap' = [heap EXCEPT ![c] = r],
           r.at \in MallocPlaces => r.for = "malloc",
           r.at \in CallPlaces =>
             \/ r.for = "mmap" /\ r.size <= r.incr
             \/ r.for = "malloc" /\ Asked(r.size, r.align) <= r.incr
    PROVE  heap' \in [Cores -> HeapRecord] /\ CallInv'
BY DEF TypeInv, CallInv

(* A step to another place of the same call. *)
LEMMA GotoKeeps ==
    ASSUME TypeInv, CallInv, NEW c \in Cores, NEW place, Goto(c, place),
           \/ place \in CallPlaces /\ heap[c].at \in CallPlaces
           \/ place \in MallocPlaces /\ heap[c].for = "malloc"
    PROVE  heap' \in [Cores -> HeapRecord] /\ CallInv'
<1> DEFINE r == [heap[c] EXCEPT !.at = place]
<1>0. heap[c] \in HeapRecord
  BY DEF TypeInv
<1>1. r \in HeapRecord /\ r.for = heap[c].for /\ r.size = heap[c].size
      /\ r.align = heap[c].align /\ r.incr = heap[c].incr /\ r.at = place
  BY <1>0 DEF HeapRecord
<1>2. heap' = [heap EXCEPT ![c] = r]
  BY DEF Goto, TypeInv
<1>3. CallPlaces \cap MallocPlaces = {}
  BY DEF CallPlaces, MallocPlaces, SbrkPlaces, LazyPlaces, OwnPlaces
<1> HIDE DEF r
<1> QED  BY <1>1, <1>2, <1>3, OneRecord DEF CallInv

(* A core at rest has a record of the right shape.                         *)
LEMMA RestingType == Resting \in HeapRecord /\ Resting.at = "idle"
BY DEF Resting, HeapRecord

(* Nothing a resting core has can break what is said of calls.              *)
LEMMA IdleKeeps ==
    ASSUME TypeInv, CallInv, NEW c \in Cores, heap' = [heap EXCEPT ![c] = Resting]
    PROVE  heap' \in [Cores -> HeapRecord] /\ CallInv'
<1>1. "idle" \notin MallocPlaces /\ "idle" \notin CallPlaces
  BY DEF CallPlaces, MallocPlaces, SbrkPlaces, LazyPlaces, OwnPlaces
<1> QED  BY <1>1, RestingType, OneRecord

(* Every step leaves each core in a place its call can be in.              *)
LEMMA HeapRecordKeeps ==
    ASSUME TypeInv, CallInv, [HeapNext]_heapVars
    PROVE  heap' \in [Cores -> HeapRecord] /\ CallInv'
<1> USE DEF CallPlaces, MallocPlaces, SbrkPlaces, LazyPlaces, OwnPlaces
<1>1. CASE Booting \/ UNCHANGED heapVars
  BY <1>1 DEF Booting, InitMallocMutex, InitSbrkMutex, heapVars, TypeInv, CallInv
<1>2. ASSUME NEW c \in Cores, NEW n \in Sizes, Mmap(c, n)
      PROVE  heap' \in [Cores -> HeapRecord] /\ CallInv'
  <2> DEFINE r == [Resting EXCEPT !.at = "sbrk", !.for = "mmap",
                                  !.size = n, !.incr = RoundUp(n, Round)]
  <2>1. n \in Nat /\ RoundUp(n, Round) \in Nat /\ n <= RoundUp(n, Round)
    BY HeapAssumption, RoundUpBounds
  <2>2. r \in HeapRecord /\ r.at = "sbrk" /\ r.for = "mmap" /\ r.size = n
        /\ r.incr = RoundUp(n, Round)
    BY <2>1 DEF Resting, HeapRecord
  <2>3. heap' = [heap EXCEPT ![c] = r]
    BY <1>2 DEF Mmap
  <2> HIDE DEF r
  <2> QED  BY <2>1, <2>2, <2>3, OneRecord
<1>3. ASSUME NEW c \in Cores, NEW n \in Sizes, NEW align \in {0, 2 * Pointer},
             Malloc(c, n, align)
      PROVE  heap' \in [Cores -> HeapRecord] /\ CallInv'
  <2> DEFINE r == [Resting EXCEPT !.at = "lock", !.for = "malloc",
                                  !.size = n, !.align = align]
  <2>1. n \in Nat /\ align \in Nat
    BY HeapAssumption
  <2>2. r \in HeapRecord /\ r.at = "lock" /\ r.for = "malloc"
    BY <2>1 DEF Resting, HeapRecord
  <2>3. heap' = [heap EXCEPT ![c] = r]
    BY <1>3 DEF Malloc
  <2> HIDE DEF r
  <2> QED  BY <2>2, <2>3, OneRecord
<1>4. ASSUME NEW c \in Cores, HeapStep(c)
      PROVE  heap' \in [Cores -> HeapRecord] /\ CallInv'
  <2>0. heap[c] \in HeapRecord
    BY DEF TypeInv
  <2>1. CASE SbrkEnter(c) \/ SbrkStore(c) \/ SbrkExit(c)
    BY <2>1, GotoKeeps DEF SbrkEnter, SbrkStore, SbrkExit, At
  <2>2. CASE SbrkRead(c)
    <3>1. PICK place \in {"oom", "store"} :
            heap' = [heap EXCEPT ![c].prev = heap_ptr, ![c].at = place]
      BY <2>2 DEF SbrkRead
    <3> DEFINE r == [heap[c] EXCEPT !.prev = heap_ptr, !.at = place]
    <3>2. heap' = [heap EXCEPT ![c] = r]
      BY <3>1 DEF TypeInv
    <3>3. r \in HeapRecord /\ r.for = heap[c].for /\ r.size = heap[c].size
          /\ r.align = heap[c].align /\ r.incr = heap[c].incr /\ r.at = place
      BY <2>0 DEF HeapRecord, TypeInv
    <3>4. heap[c].at \in CallPlaces
      BY <2>2 DEF SbrkRead, At
    <3> HIDE DEF r
    <3> QED  BY <3>2, <3>3, <3>4, OneRecord DEF CallInv
  <2>3. CASE MmapReturn(c) \/ MallocUnlock(c)
    BY <2>3, IdleKeeps DEF MmapReturn, MallocUnlock
  <2>4. CASE MallocCheck(c) \/ MallocLazyInit(c) \/ MallocSetFlag(c) \/ MallocEnter(c)
    <3>1. heap[c].for = "malloc"
      BY <2>4 DEF MallocCheck, MallocLazyInit, MallocSetFlag, MallocEnter, At, CallInv
    <3> QED  BY <2>4, <3>1, GotoKeeps
          DEF MallocCheck, MallocLazyInit, MallocSetFlag, MallocEnter
  <2>5. CASE MallocFit(c)
    <3> DEFINE asked == Asked(heap[c].size, heap[c].align)
               fits == [heap[c] EXCEPT !.at = "cut", !.prev = chunk.lo]
               grows == [heap[c] EXCEPT !.at = "sbrk", !.incr = RoundUp(asked, Page)]
    <3>1. heap[c].for = "malloc"
      BY <2>5 DEF MallocFit, At, CallInv
    <3>2. asked \in Nat /\ RoundUp(asked, Page) \in Nat /\ asked <= RoundUp(asked, Page)
      <4>1. asked \in Nat
        BY <2>0, AskedType DEF HeapRecord
      <4> QED  BY <4>1, RoundUpBounds, HeapAssumption
    <3>3. heap' = [heap EXCEPT ![c] = fits] \/ heap' = [heap EXCEPT ![c] = grows]
      BY <2>5 DEF MallocFit, TypeInv
    <3> HIDE DEF asked
    <3>4. fits \in HeapRecord /\ fits.at = "cut" /\ fits.for = "malloc"
      BY <2>0, <3>1 DEF TypeInv, HeapRecord
    <3>5. /\ grows \in HeapRecord /\ grows.at = "sbrk" /\ grows.for = "malloc"
          /\ grows.size = heap[c].size /\ grows.align = heap[c].align
          /\ grows.incr = RoundUp(asked, Page)
      BY <2>0, <3>1, <3>2 DEF HeapRecord
    <3>6. Asked(grows.size, grows.align) <= grows.incr
      BY <3>2, <3>5 DEF asked
    <3> HIDE DEF fits, grows
    <3> QED  BY <3>3, <3>4, <3>5, <3>6, OneRecord
  <2>6. CASE MallocCut(c)
    BY <2>6, GotoKeeps DEF MallocCut
  <2> QED  BY <1>4, <2>1, <2>2, <2>3, <2>4, <2>5, <2>6 DEF HeapStep
<1> QED  BY <1>1, <1>2, <1>3, <1>4 DEF HeapNext, MmapFixed, HeapCall

(* The other variables *)
LEMMA TypeKeeps ==
    ASSUME TypeInv, CallInv, [HeapNext]_heapVars
    PROVE  TypeInv'
<1>0. heap' \in [Cores -> HeapRecord]
  BY HeapRecordKeeps
<1>1. CASE Booting \/ UNCHANGED heapVars
  BY <1>0, <1>1 DEF Booting, InitMallocMutex, InitSbrkMutex, SbrkReadyNow, heapVars, locks, TypeInv
<1>2. ASSUME NEW c \in Cores, HeapCall(c) PROVE TypeInv'
  BY <1>0, <1>2 DEF HeapCall, Mmap, Malloc, locks, TypeInv
<1>4. ASSUME NEW c \in Cores, HeapStep(c)
      PROVE  TypeInv'
  <2>0. heap[c] \in HeapRecord
    BY DEF TypeInv
  <2>1. CASE SbrkEnter(c) \/ SbrkExit(c) \/ SbrkRead(c) \/ MmapReturn(c)
    BY <1>0, <2>1 DEF SbrkEnter, SbrkExit, SbrkRead, MmapReturn, Released, locks, TypeInv
  <2>2. CASE SbrkStore(c)
    <3>1. heap_ptr' \in Nat
      BY <2>0, <2>2 DEF SbrkStore, HeapRecord
    <3> QED  BY <1>0, <2>2, <3>1 DEF SbrkStore, locks, TypeInv
  <2>3. CASE MallocCheck(c) \/ MallocLazyInit(c) \/ MallocSetFlag(c) \/ MallocEnter(c)
             \/ MallocFit(c) \/ MallocUnlock(c)
    BY <1>0, <2>3 DEF MallocCheck, MallocLazyInit, MallocSetFlag, MallocEnter, MallocFit,
          MallocUnlock, locks, TypeInv
  <2>4. CASE MallocCut(c)
    <3> DEFINE asked == Asked(heap[c].size, heap[c].align)
    <3>1. asked \in Nat /\ heap[c].prev \in Nat /\ heap[c].incr \in Nat
      BY <2>0, AskedType DEF HeapRecord
    <3>2. \/ chunk' = [chunk EXCEPT !.lo = heap[c].prev + asked]
          \/ chunk' = [lo |-> heap[c].prev + asked, hi |-> heap[c].prev + heap[c].incr]
          \/ chunk' = chunk
      BY <2>4 DEF MallocCut
    <3> HIDE DEF asked
    <3>3. chunk' \in [lo : Nat, hi : Nat]
      BY <3>1, <3>2 DEF TypeInv
    <3> QED  BY <1>0, <2>4, <3>3 DEF MallocCut, locks, TypeInv
  <2> QED  BY <1>4, <2>1, <2>2, <2>3, <2>4 DEF HeapStep
<1> QED  BY <1>1, <1>2, <1>4 DEF HeapNext, MmapFixed

(* At reset every core rests. *)
LEMMA InitType == HeapInit => TypeInv /\ CallInv
<1> SUFFICES ASSUME HeapInit PROVE TypeInv /\ CallInv
  OBVIOUS
<1>1. TypeInv
  BY RestingType DEF HeapInit, TypeInv
<1>2. CallInv
  BY RestingType DEF HeapInit, CallInv, CallPlaces, MallocPlaces, SbrkPlaces, LazyPlaces, OwnPlaces
<1> QED  BY <1>1, <1>2

-----------------------------------------------------------------------------
(* Locks                                                                   *)

InSbrk(c) == heap[c].at \in SbrkPlaces

InMalloc(c) == heap[c].for = "malloc" /\ heap[c].at \in OwnPlaces \cup CallPlaces

(* Until core 1 runs there is no lock, and core 0 alone. *)
BootInv ==
    /\ boot # "reset" => malloc_ready
    /\ sbrk_ready <=> boot = "up"
    /\ boot # "up" => sbrk_owner = NoCore /\ \A c \in Cores : c # Core0 => At(c, "idle")

(* A lock is held by the core that is between its entry and its exit. *)
LockInv ==
    /\ \A c \in Cores : heap[c].at \in LazyPlaces => ~malloc_ready
    /\ \A c \in Cores : At(c, "enter") \/ InMalloc(c) => malloc_ready
    /\ \A c \in Cores : malloc_owner = c <=> InMalloc(c)
    /\ sbrk_ready => \A c \in Cores : sbrk_owner = c <=> InSbrk(c)

(* Two cores are never in sbrk at once, nor in malloc. *)
LEMMA OneInSbrk ==
    ASSUME BootInv, LockInv, NEW c \in Cores, InSbrk(c)
    PROVE  \A d \in Cores : d # c => ~InSbrk(d)
<1>1. CASE sbrk_ready
  BY <1>1 DEF LockInv
<1>2. CASE ~sbrk_ready
  BY <1>2 DEF BootInv, InSbrk, At, SbrkPlaces
<1> QED  BY <1>1, <1>2

(* At most one core is between malloc_mutex taken and given back.          *)
LEMMA OneInMalloc ==
    ASSUME LockInv, NEW c \in Cores, InMalloc(c)
    PROVE  \A d \in Cores : d # c => ~InMalloc(d)
BY DEF LockInv

(* At reset no lock is taken, and boot has not begun. *)
LEMMA InitLocks == HeapInit => BootInv /\ LockInv
<1> SUFFICES ASSUME HeapInit PROVE BootInv /\ LockInv
  OBVIOUS
<1>1. \A c \in Cores : heap[c].at = "idle" /\ c # NoCore
  BY RestingType, HeapAssumption DEF HeapInit
<1> QED  BY <1>1 DEF HeapInit, BootInv, LockInv, At, InSbrk, InMalloc, CallPlaces,
               SbrkPlaces, LazyPlaces, OwnPlaces

(* The locks are set up before a second core runs, by any step.            *)
LEMMA BootKeeps ==
    ASSUME TypeInv, BootInv, LockInv, [HeapNext]_heapVars
    PROVE  BootInv'
<1>1. CASE Booting
  <2>1. boot # "up" /\ ~sbrk_ready /\ heap' = heap
    BY <1>1 DEF Booting, InitMallocMutex, InitSbrkMutex, BootInv
  <2>2. \A c \in Cores : c # Core0 => At(c, "idle")'
    BY <2>1 DEF BootInv, At
  <2>3. CASE InitMallocMutex
    <3>1. boot' = "malloc" /\ malloc_ready' /\ ~sbrk_ready' /\ sbrk_owner' = NoCore
      BY <2>1, <2>3 DEF InitMallocMutex, BootInv
    <3> QED  BY <2>2, <3>1 DEF BootInv
  <2>4. CASE InitSbrkMutex
    <3>1. boot' = "up" /\ sbrk_ready' /\ malloc_ready'
      BY <2>4 DEF InitSbrkMutex, SbrkReadyNow, BootInv
    <3> QED  BY <3>1 DEF BootInv
  <2> QED  BY <1>1, <2>3, <2>4 DEF Booting
<1>2. CASE UNCHANGED heapVars
  BY <1>2 DEF heapVars, locks, BootInv, At
<1>3. ASSUME NEW c \in Cores, HeapCall(c) \/ HeapStep(c) PROVE BootInv'
  <2>1. /\ UNCHANGED <<boot, sbrk_ready>>
        /\ malloc_ready => malloc_ready'
    <3>1. CASE MallocSetFlag(c)
      BY <3>1 DEF MallocSetFlag
    <3>2. CASE HeapCall(c)
      BY <3>2 DEF HeapCall, Mmap, Malloc, locks
    <3>3. CASE HeapStep(c) /\ ~MallocSetFlag(c)
      <4>1. UNCHANGED <<boot, sbrk_ready, malloc_ready>>
        BY <3>3 DEF HeapStep, SbrkEnter, SbrkRead, SbrkStore, SbrkExit, MmapReturn,
              MallocCheck, MallocLazyInit, MallocEnter, MallocFit, MallocCut, MallocUnlock,
              locks
      <4> QED  BY <4>1
    <3> QED  BY <1>3, <3>1, <3>2, <3>3
  <2>2. ~sbrk_ready => sbrk_owner' = sbrk_owner
    BY <1>3 DEF HeapCall, HeapStep, Mmap, Malloc, SbrkEnter, SbrkRead, SbrkStore, SbrkExit,
          Released, MmapReturn, MallocCheck, MallocLazyInit, MallocSetFlag, MallocEnter,
          MallocFit, MallocCut, MallocUnlock, locks
  <2>3. \A d \in Cores : d # c => heap'[d] = heap[d]
    BY <1>3 DEF TypeInv, HeapCall, HeapStep, Mmap, Malloc, SbrkEnter, SbrkRead, SbrkStore,
          SbrkExit, MmapReturn, MallocCheck, MallocLazyInit, MallocSetFlag, MallocEnter,
          MallocFit, MallocCut, MallocUnlock, Goto
  <2>4. c = Core0 \/ boot = "up"
    <3>1. ASSUME c # Core0, boot # "up" PROVE FALSE
      <4>1. At(c, "idle") /\ ~Running(c)
        BY <3>1 DEF BootInv, Running
      <4>2. CASE HeapCall(c)
        BY <4>1, <4>2 DEF HeapCall, Mmap, Malloc
      <4>3. CASE HeapStep(c)
        <5>1. CASE MmapReturn(c)
          BY <4>1, <5>1 DEF MmapReturn, At
        <5>2. CASE MallocCut(c)
          BY <4>1, <5>2 DEF MallocCut, At
        <5> QED  BY <4>1, <4>3, <5>1, <5>2
              DEF HeapStep, SbrkEnter, SbrkRead, SbrkStore, SbrkExit, MallocCheck,
                  MallocLazyInit, MallocSetFlag, MallocEnter, MallocFit, MallocUnlock, At
      <4> QED  BY <1>3, <4>2, <4>3
    <3> QED  BY <3>1
  <2> QED  BY <2>1, <2>2, <2>3, <2>4 DEF BootInv, At
<1> QED  BY <1>1, <1>2, <1>3 DEF HeapNext, MmapFixed

(* What LockInv asks of the core that made a step, and of the lock words.  *)
LEMMA OneLock ==
    ASSUME TypeInv, LockInv, NEW c \in Cores,
           \A d \in Cores : d # c => heap'[d] = heap[d],
           UNCHANGED sbrk_ready, malloc_ready' \in {malloc_ready, TRUE},
           heap'[c].at \in LazyPlaces => ~malloc_ready',
           malloc_ready' # malloc_ready =>
               \A d \in Cores : d # c => heap[d].at \notin LazyPlaces,
           heap'[c].at = "enter" \/ InMalloc(c)' => malloc_ready',
           malloc_owner' = c <=> InMalloc(c)',
           sbrk_ready => (sbrk_owner' = c <=> InSbrk(c)'),
           \A d \in Cores : d # c =>
               /\ malloc_owner' = d <=> malloc_owner = d
               /\ sbrk_owner' = d <=> sbrk_owner = d
    PROVE  LockInv'
<1>1. \A d \in Cores : d # c => /\ InSbrk(d)' <=> InSbrk(d)
                                /\ InMalloc(d)' <=> InMalloc(d)
  BY DEF InSbrk, InMalloc
<1>2. malloc_ready => malloc_ready'
  BY DEF TypeInv
<1>3. \A d \in Cores : heap'[d].at \in LazyPlaces => ~malloc_ready'
  BY DEF LockInv
<1>4. \A d \in Cores : heap'[d].at = "enter" \/ InMalloc(d)' => malloc_ready'
  BY <1>1, <1>2 DEF LockInv, At
<1>5. \A d \in Cores : malloc_owner' = d <=> InMalloc(d)'
  BY <1>1 DEF LockInv
<1>6. sbrk_ready' => \A d \in Cores : sbrk_owner' = d <=> InSbrk(d)'
  BY <1>1 DEF LockInv
<1> QED  BY <1>3, <1>4, <1>5, <1>6 DEF LockInv, At

(* A lock is taken by who enters and given back by who leaves.             *)
LEMMA LockKeeps ==
    ASSUME TypeInv, CallInv, BootInv, LockInv, [HeapNext]_heapVars
    PROVE  LockInv'
<1> USE DEF CallPlaces, SbrkPlaces, LazyPlaces, OwnPlaces
<1>0. \A c \in Cores : c # NoCore
  BY HeapAssumption
<1>1. CASE Booting
  <2>1. /\ \A c \in Cores : At(c, "idle")
        /\ heap' = heap
    BY <1>1 DEF Booting, InitMallocMutex, InitSbrkMutex, BootInv
  <2>2. \A c \in Cores : ~InMalloc(c) /\ ~InSbrk(c)
    BY <2>1 DEF InMalloc, InSbrk, At
  <2>3. \A c \in Cores : malloc_owner' # c
    BY <1>0, <1>1, <2>2 DEF Booting, InitMallocMutex, InitSbrkMutex, LockInv
  <2>4. \A c \in Cores : sbrk_owner' # c
    <3>1. sbrk_owner = NoCore
      BY <1>1 DEF Booting, InitMallocMutex, InitSbrkMutex, BootInv
    <3> QED  BY <1>0, <1>1, <3>1 DEF Booting, InitMallocMutex, InitSbrkMutex
  <2>5. \A c \in Cores : heap'[c].at = "idle" /\ ~InMalloc(c)' /\ ~InSbrk(c)'
    BY <2>1, <2>2 DEF InMalloc, InSbrk, At
  <2> QED  BY <2>3, <2>4, <2>5 DEF LockInv, At
<1>2. CASE UNCHANGED heapVars
  BY <1>2 DEF heapVars, locks, LockInv, At, InSbrk, InMalloc
<1>3. ASSUME NEW c \in Cores, HeapCall(c) PROVE LockInv'
  <2>1. /\ UNCHANGED locks /\ heap[c].at = "idle" /\ heap'[c].at \in {"sbrk", "lock"}
        /\ heap'[c].at = "sbrk" => heap'[c].for = "mmap"
        /\ \A d \in Cores : d # c => heap'[d] = heap[d]
    <3>1. CASE \E n \in Sizes : Mmap(c, n)
      BY <3>1 DEF Mmap, At, TypeInv, Resting
    <3>2. CASE \E n \in Sizes, align \in {0, 2 * Pointer} : Malloc(c, n, align)
      BY <3>2 DEF Malloc, At, TypeInv, Resting
    <3> QED  BY <1>3, <3>1, <3>2 DEF HeapCall
  <2>2. ~InMalloc(c) /\ ~InSbrk(c) /\ ~InMalloc(c)' /\ ~InSbrk(c)'
    BY <2>1 DEF InMalloc, InSbrk
  <2> QED  BY <2>1, <2>2, OneLock DEF locks, LockInv
<1>4. ASSUME NEW c \in Cores, HeapStep(c) PROVE LockInv'
  <2>0. heap[c] \in HeapRecord
    BY DEF TypeInv
  <2>1. ASSUME NEW place, Goto(c, place)
        PROVE  /\ heap'[c].at = place /\ heap'[c].for = heap[c].for
               /\ \A d \in Cores : d # c => heap'[d] = heap[d]
    BY <2>0, <2>1 DEF Goto, TypeInv, HeapRecord
  <2>2. CASE SbrkEnter(c)
    <3>1. /\ heap[c].at = "sbrk" /\ heap'[c].at = "read" /\ heap'[c].for = heap[c].for
          /\ \A d \in Cores : d # c => heap'[d] = heap[d]
      BY <2>1, <2>2 DEF SbrkEnter, At
    <3>2. (InMalloc(c)' <=> InMalloc(c)) /\ InSbrk(c)' /\ ~InSbrk(c)
      BY <3>1 DEF InMalloc, InSbrk
    <3>3. /\ UNCHANGED <<sbrk_ready, malloc_ready, malloc_owner>>
          /\ sbrk_ready => sbrk_owner = NoCore /\ sbrk_owner' = c
          /\ ~sbrk_ready => sbrk_owner' = sbrk_owner
      BY <2>2 DEF SbrkEnter
    <3> QED  BY <1>0, <3>1, <3>2, <3>3, OneLock DEF LockInv
  <2>3. CASE SbrkRead(c) \/ SbrkStore(c)
    <3>1. /\ heap[c].at \in {"read", "store"} /\ heap'[c].at \in {"store", "exit", "oom"}
          /\ heap'[c].for = heap[c].for
          /\ \A d \in Cores : d # c => heap'[d] = heap[d]
      BY <2>0, <2>1, <2>3 DEF SbrkRead, SbrkStore, At, TypeInv, HeapRecord
    <3>2. (InMalloc(c)' <=> InMalloc(c)) /\ InSbrk(c)' /\ InSbrk(c)
      BY <3>1 DEF InMalloc, InSbrk
    <3>3. UNCHANGED locks
      BY <2>3 DEF SbrkRead, SbrkStore
    <3> QED  BY <3>1, <3>2, <3>3, OneLock DEF locks, LockInv
  <2>4. CASE SbrkExit(c)
    <3>1. /\ heap[c].at \in {"exit", "oom"} /\ heap'[c].at \in {"got", "failed"}
          /\ heap'[c].for = heap[c].for
          /\ \A d \in Cores : d # c => heap'[d] = heap[d]
      BY <2>1, <2>4 DEF SbrkExit, At
    <3>2. (InMalloc(c)' <=> InMalloc(c)) /\ ~InSbrk(c)' /\ InSbrk(c)
      BY <3>1 DEF InMalloc, InSbrk
    <3>3. /\ UNCHANGED <<sbrk_ready, malloc_ready, malloc_owner>>
          /\ sbrk_ready => sbrk_owner = c /\ sbrk_owner' = NoCore
          /\ ~sbrk_ready => sbrk_owner' = sbrk_owner
      BY <2>4, <3>2 DEF SbrkExit, Released, LockInv
    <3> QED  BY <1>0, <3>1, <3>2, <3>3, OneLock DEF LockInv
  <2>5. CASE MmapReturn(c)
    <3>1. /\ heap[c].for = "mmap" /\ heap[c].at \in {"got", "failed"} /\ heap'[c].at = "idle"
          /\ \A d \in Cores : d # c => heap'[d] = heap[d]
      BY <2>5, RestingType DEF MmapReturn, At, TypeInv
    <3>2. ~InMalloc(c)' /\ ~InMalloc(c) /\ ~InSbrk(c)' /\ ~InSbrk(c)
      BY <3>1 DEF InMalloc, InSbrk
    <3>3. UNCHANGED locks
      BY <2>5 DEF MmapReturn
    <3> QED  BY <3>1, <3>2, <3>3, OneLock DEF locks, LockInv
  <2>6. CASE MallocCheck(c)
    <3>1. /\ heap[c].at = "lock" /\ heap'[c].at = (IF malloc_ready THEN "enter" ELSE "init")
          /\ \A d \in Cores : d # c => heap'[d] = heap[d]
      BY <2>1, <2>6 DEF MallocCheck, At
    <3>2. ~InMalloc(c)' /\ ~InMalloc(c) /\ ~InSbrk(c)' /\ ~InSbrk(c)
      BY <3>1 DEF InMalloc, InSbrk
    <3>3. UNCHANGED locks
      BY <2>6 DEF MallocCheck
    <3> QED  BY <3>1, <3>2, <3>3, OneLock DEF locks, LockInv
  <2>7. CASE MallocLazyInit(c) \/ MallocSetFlag(c)
    <3>1. heap[c].at \in LazyPlaces /\ ~malloc_ready
      BY <2>7 DEF MallocLazyInit, MallocSetFlag, At, LockInv
    <3>2. \A d \in Cores : d # c => heap[d].at = "idle"
      BY <3>1 DEF BootInv, At
    <3>3. /\ heap'[c].at = (IF heap[c].at = "init" THEN "flag" ELSE "enter")
          /\ \A d \in Cores : d # c => heap'[d] = heap[d]
      BY <2>1, <2>7 DEF MallocLazyInit, MallocSetFlag, At
    <3>4. \A d \in Cores : ~InMalloc(d)
      BY <3>1, <3>2 DEF InMalloc
    <3>5. ~InMalloc(c)' /\ ~InSbrk(c)' /\ ~InSbrk(c)
      BY <3>1, <3>3 DEF InMalloc, InSbrk
    <3>6. \A d \in Cores : malloc_owner' # d /\ malloc_owner # d
      BY <1>0, <2>7, <3>4 DEF MallocLazyInit, MallocSetFlag, LockInv
    <3>7. /\ UNCHANGED <<sbrk_ready, sbrk_owner>>
          /\ malloc_ready' = (IF heap[c].at = "init" THEN malloc_ready ELSE TRUE)
      BY <2>7, <3>1 DEF MallocLazyInit, MallocSetFlag, At
    <3>8. sbrk_ready => (sbrk_owner' = c <=> InSbrk(c)')
      BY <3>5, <3>7 DEF LockInv
    <3>9. \A d \in Cores : d # c => heap[d].at \notin LazyPlaces
      BY <3>2
    <3>10. heap'[c].at \in LazyPlaces => ~malloc_ready'
      BY <3>1, <3>3, <3>7
    <3>11. heap'[c].at = "enter" => malloc_ready'
      BY <3>1, <3>3, <3>7
    <3> QED  BY <3>3, <3>5, <3>6, <3>7, <3>8, <3>9, <3>10, <3>11, OneLock
  <2>8. CASE MallocEnter(c)
    <3>1. /\ heap[c].at = "enter" /\ heap'[c].at = "fit" /\ heap'[c].for = heap[c].for
          /\ \A d \in Cores : d # c => heap'[d] = heap[d]
      BY <2>1, <2>8 DEF MallocEnter, At
    <3>2. heap[c].for = "malloc"
      BY <3>1 DEF CallInv, MallocPlaces
    <3>3. InMalloc(c)' /\ ~InMalloc(c) /\ ~InSbrk(c)' /\ ~InSbrk(c)
      BY <3>1, <3>2 DEF InMalloc, InSbrk
    <3>4. /\ UNCHANGED <<sbrk_ready, sbrk_owner, malloc_ready>>
          /\ malloc_owner = NoCore /\ malloc_owner' = c
      BY <2>8 DEF MallocEnter
    <3> QED  BY <1>0, <3>1, <3>3, <3>4, OneLock DEF LockInv, At
  <2>9. CASE MallocFit(c) \/ MallocCut(c)
    <3>1. /\ heap[c].for = "malloc" /\ heap[c].at \in {"fit", "cut", "got", "failed"}
          /\ heap'[c].at \in {"cut", "sbrk", "unlock"} /\ heap'[c].for = "malloc"
          /\ \A d \in Cores : d # c => heap'[d] = heap[d]
      <4>1. CASE MallocFit(c)
        <5>1. heap[c].for = "malloc" /\ heap[c].at = "fit"
          BY <4>1 DEF MallocFit, At, CallInv, MallocPlaces
        <5> QED  BY <2>0, <4>1, <5>1 DEF MallocFit, TypeInv, HeapRecord
      <4>2. CASE MallocCut(c)
        BY <2>1, <4>2 DEF MallocCut, At
      <4> QED  BY <2>9, <4>1, <4>2
    <3>2. InMalloc(c)' /\ InMalloc(c) /\ ~InSbrk(c)' /\ ~InSbrk(c)
      BY <3>1 DEF InMalloc, InSbrk
    <3>3. UNCHANGED locks
      BY <2>9 DEF MallocFit, MallocCut
    <3> QED  BY <3>1, <3>2, <3>3, OneLock DEF locks, LockInv
  <2>10. CASE MallocUnlock(c)
    <3>1. /\ heap[c].at = "unlock" /\ heap'[c].at = "idle"
          /\ \A d \in Cores : d # c => heap'[d] = heap[d]
      BY <2>10, RestingType DEF MallocUnlock, At, TypeInv
    <3>2. heap[c].for = "malloc"
      BY <3>1 DEF CallInv, MallocPlaces
    <3>3. ~InMalloc(c)' /\ InMalloc(c) /\ ~InSbrk(c)' /\ ~InSbrk(c)
      BY <3>1, <3>2 DEF InMalloc, InSbrk
    <3>4. /\ UNCHANGED <<sbrk_ready, sbrk_owner, malloc_ready>>
          /\ malloc_owner = c /\ malloc_owner' = NoCore
      BY <2>10, <3>3 DEF MallocUnlock, LockInv
    <3> QED  BY <1>0, <3>1, <3>3, <3>4, OneLock DEF LockInv
  <2> QED  BY <1>4, <2>2, <2>3, <2>4, <2>5, <2>6, <2>7, <2>8, <2>9, <2>10 DEF HeapStep
<1> QED  BY <1>1, <1>2, <1>3, <1>4 DEF HeapNext, MmapFixed

-----------------------------------------------------------------------------
(* Memory                                                                  *)

(* The bytes a core has from sbrk and has not given to its caller yet, and *)
(* those that malloc keeps for later.                                      *)
Pending(c, x) ==
    heap[c].at \in {"exit", "got"} /\ heap[c].prev <= x /\ x < heap[c].prev + heap[c].incr

Kept(x) == chunk.lo <= x /\ x < chunk.hi

(* What a core has read of heap_ptr, or of the chunk, is still so. *)
ReadInv ==
    \A c \in Cores :
        /\ At(c, "store") => /\ heap[c].prev = heap_ptr
                             /\ heap[c].prev + heap[c].incr <= HeapSize
        /\ At(c, "cut") => /\ heap[c].prev = chunk.lo
                           /\ chunk.lo + Asked(heap[c].size, heap[c].align) <= chunk.hi
        /\ heap[c].at \in {"exit", "got"} => heap[c].prev + heap[c].incr <= heap_ptr

(* No byte is given twice, and none is two of: given, kept, and pending    *)
(* for a core; all of these are below heap_ptr.                            *)
MemInv ==
    /\ twice = {}
    /\ heap_ptr <= HeapSize /\ chunk.hi <= heap_ptr
    /\ \A x \in used : /\ x \in Nat /\ x < heap_ptr /\ ~Kept(x)
                       /\ \A c \in Cores : ~Pending(c, x)
    /\ \A c \in Cores : \A x \in Nat : Pending(c, x) =>
         /\ ~Kept(x)
         /\ \A d \in Cores : d # c => ~Pending(d, x)

(* At reset no byte is given. *)
LEMMA InitMem == HeapInit => ReadInv /\ MemInv
<1> SUFFICES ASSUME HeapInit PROVE ReadInv /\ MemInv
  OBVIOUS
<1>1. \A c \in Cores : heap[c].at = "idle"
  BY RestingType DEF HeapInit
<1>2. ReadInv
  BY <1>1 DEF ReadInv, At
<1>3. MemInv
  BY <1>1, HeapAssumption DEF HeapInit, MemInv, Pending
<1> QED  BY <1>2, <1>3

(* A step that gives, keeps and takes no memory. *)
LEMMA MemStays ==
    ASSUME TypeInv, ReadInv, MemInv, NEW c \in Cores,
           \A d \in Cores : d # c => heap'[d] = heap[d],
           UNCHANGED <<heap_ptr, chunk, used, twice>>,
           heap'[c].at = "store" => /\ heap'[c].prev = heap_ptr
                                    /\ heap'[c].prev + heap'[c].incr <= HeapSize,
           heap'[c].at = "cut" => /\ heap'[c].prev = chunk.lo
                                  /\ chunk.lo + Asked(heap'[c].size, heap'[c].align) <= chunk.hi,
           heap'[c].at \in {"exit", "got"} =>
             /\ heap[c].at \in {"exit", "got"}
             /\ heap'[c].prev = heap[c].prev /\ heap'[c].incr = heap[c].incr
    PROVE  ReadInv' /\ MemInv'
<1>1. ReadInv'
  BY DEF ReadInv, At
<1>2. \A d \in Cores : \A x \in Nat : Pending(d, x)' => Pending(d, x)
  BY DEF Pending
<1>3. \A x \in Nat : Kept(x)' <=> Kept(x)
  BY DEF Kept
<1> QED  BY <1>1, <1>2, <1>3 DEF MemInv

(* The block that is given lies in the memory that malloc was asked for. *)
LEMMA BlockBounds ==
    ASSUME NEW lo \in Nat, NEW size \in Nat, NEW align \in Nat
    PROVE  LET p == Aligned(lo, align)
               first == IF align = 0 THEN p ELSE p - Pointer
           IN  /\ first \in Nat /\ p \in Nat
               /\ lo <= first /\ p + size <= lo + Asked(size, align)
<1>1. CASE align = 0
  BY <1>1 DEF Aligned, Asked
<1>2. CASE align # 0
  <2>1. lo + Pointer \in Nat /\ align \in Nat \ {0} /\ Pointer \in Nat
    BY <1>2, HeapAssumption
  <2> DEFINE p == RoundUp(lo + Pointer, align)
  <2>2. p \in Nat /\ lo + Pointer <= p /\ p < lo + Pointer + align
    BY <2>1, RoundUpBounds
  <2>3. Aligned(lo, align) = p /\ Asked(size, align) = size + align + Pointer
    BY <1>2 DEF Aligned, Asked
  <2> HIDE DEF p
  <2>4. p - Pointer \in Nat /\ lo <= p - Pointer /\ p + size <= lo + (size + align + Pointer)
    BY <2>1, <2>2
  <2> QED  BY <1>2, <2>2, <2>3, <2>4
<1> QED  BY <1>1, <1>2

(* Giving memory nobody has. *)
LEMMA GiveNew ==
    ASSUME NEW lo \in Nat, NEW hi \in Nat, Give(lo, hi), twice = {},
           \A x \in Nat : lo <= x /\ x < hi => x \notin used
    PROVE  twice' = {} /\ \A x : x \in used' <=> x \in used \/ (x \in Nat /\ lo <= x /\ x < hi)
BY DEF Give

(* The last step of a call that gives: what is given, or kept for later,   *)
(* was pending or kept.                                                    *)
LEMMA MemGiven ==
    ASSUME TypeInv, TypeInv', ReadInv, MemInv, NEW c \in Cores,
           \A d \in Cores : d # c => heap'[d] = heap[d] /\ (At(d, "cut") => chunk' = chunk),
           heap'[c].at \notin {"store", "cut", "exit", "got"},
           UNCHANGED heap_ptr,
           NEW lo \in Nat, NEW hi \in Nat, Give(lo, hi),
           \A x \in Nat : lo <= x /\ x < hi => (Pending(c, x) \/ Kept(x)) /\ ~Kept(x)',
           \A x \in Nat : Kept(x)' => Pending(c, x) \/ Kept(x),
           chunk'.hi <= heap_ptr
    PROVE  ReadInv' /\ MemInv'
<1>1. ReadInv'
  BY DEF ReadInv, At
<1>2. \A d \in Cores : \A x \in Nat : Pending(d, x)' => Pending(d, x) /\ d # c
  BY DEF Pending
<1>3. \A x \in Nat : lo <= x /\ x < hi => x \notin used
  BY DEF MemInv
<1>4. twice' = {} /\ \A x : x \in used' <=> x \in used \/ (x \in Nat /\ lo <= x /\ x < hi)
  BY <1>3, GiveNew DEF MemInv
<1>5. ASSUME NEW x \in Nat, Pending(c, x) \/ Kept(x)
      PROVE  x < heap_ptr /\ \A d \in Cores : ~Pending(d, x)'
  <2>1. x < heap_ptr
    <3>1. CASE Pending(c, x)
      <4>1. heap[c].prev + heap[c].incr <= heap_ptr /\ x < heap[c].prev + heap[c].incr
        BY <3>1 DEF Pending, ReadInv
      <4>2. heap[c].prev + heap[c].incr \in Nat /\ heap_ptr \in Nat
        BY DEF TypeInv, HeapRecord
      <4> QED  BY <4>1, <4>2
    <3>2. CASE Kept(x)
      <4>1. x < chunk.hi /\ chunk.hi <= heap_ptr /\ chunk.hi \in Nat /\ heap_ptr \in Nat
        BY <3>2 DEF Kept, MemInv, TypeInv
      <4> QED  BY <4>1
    <3> QED  BY <1>5, <3>1, <3>2
  <2>2. \A d \in Cores : ~Pending(d, x)'
    BY <1>2, <1>5 DEF MemInv
  <2> QED  BY <2>1, <2>2
<1>6. \A x \in used' : /\ x \in Nat /\ x < heap_ptr /\ ~Kept(x)'
                       /\ \A d \in Cores : ~Pending(d, x)'
  <2> SUFFICES ASSUME NEW x \in used'
               PROVE  /\ x \in Nat /\ x < heap_ptr /\ ~Kept(x)'
                      /\ \A d \in Cores : ~Pending(d, x)'
    OBVIOUS
  <2>1. CASE x \in used
    BY <1>2, <2>1 DEF MemInv
  <2>2. CASE x \in Nat /\ lo <= x /\ x < hi
    BY <1>5, <2>2
  <2> QED  BY <1>4, <2>1, <2>2
<1>7. \A d \in Cores : \A x \in Nat : Pending(d, x)' =>
         /\ ~Kept(x)'
         /\ \A e \in Cores : e # d => ~Pending(e, x)'
  BY <1>2 DEF MemInv
<1>8. heap_ptr' <= HeapSize /\ chunk'.hi <= heap_ptr'
  BY DEF MemInv
<1>9. MemInv'
  BY <1>4, <1>6, <1>7, <1>8 DEF MemInv
<1> QED  BY <1>1, <1>9

(* sbrk's pointer moves over memory that nobody has. *)
LEMMA StoreMem ==
    ASSUME TypeInv, TypeInv', ReadInv, MemInv, BootInv, LockInv, NEW c \in Cores, SbrkStore(c)
    PROVE  ReadInv' /\ MemInv'
<1>0. /\ heap[c].at = "store" /\ heap[c] \in HeapRecord
      /\ heap_ptr' = heap[c].prev + heap[c].incr
      /\ UNCHANGED <<chunk, used, twice>>
      /\ heap' = [heap EXCEPT ![c].at = "exit"]
  BY DEF SbrkStore, At, TypeInv, Goto, given
<1>1. /\ heap'[c].at = "exit" /\ heap'[c].prev = heap[c].prev /\ heap'[c].incr = heap[c].incr
      /\ \A d \in Cores : d # c => heap'[d] = heap[d]
  BY <1>0 DEF TypeInv, HeapRecord
<1>2. /\ heap[c].prev = heap_ptr /\ heap_ptr' <= HeapSize /\ heap_ptr' = heap_ptr + heap[c].incr
      /\ heap[c].incr \in Nat /\ heap_ptr \in Nat /\ heap_ptr' \in Nat
  BY <1>0 DEF ReadInv, At, HeapRecord, TypeInv
<1>3. heap_ptr <= heap_ptr'
  BY <1>2
<1>4. \A d \in Cores : d # c => heap[d].at # "store"
  BY <1>0, OneInSbrk DEF InSbrk, SbrkPlaces
<1>5. ReadInv'
  <2>1. SUFFICES ASSUME NEW d \in Cores, d # c, heap[d].at \in {"exit", "got"}
                 PROVE  heap[d].prev + heap[d].incr <= heap_ptr'
    BY <1>0, <1>1, <1>2, <1>4 DEF ReadInv, At
  <2>2. heap[d].prev + heap[d].incr <= heap_ptr /\ heap[d].prev + heap[d].incr \in Nat
    BY <2>1 DEF ReadInv, TypeInv, HeapRecord
  <2> QED  BY <1>2, <1>3, <2>2
<1>6. \A x \in Nat : Pending(c, x)' <=> heap_ptr <= x /\ x < heap_ptr'
  BY <1>1, <1>2 DEF Pending
<1>7. \A d \in Cores : \A x \in Nat : d # c => (Pending(d, x)' <=> Pending(d, x))
  BY <1>1 DEF Pending
<1>8. \A x \in Nat : Kept(x)' <=> Kept(x)
  BY <1>0 DEF Kept
<1>9. \A x \in Nat : Kept(x) => x < heap_ptr
  BY DEF Kept, MemInv, TypeInv
<1>10. \A d \in Cores : \A x \in Nat : Pending(d, x) => x < heap_ptr
  <2> SUFFICES ASSUME NEW d \in Cores, NEW x \in Nat, Pending(d, x) PROVE x < heap_ptr
    OBVIOUS
  <2>1. x < heap[d].prev + heap[d].incr /\ heap[d].prev + heap[d].incr <= heap_ptr
    BY DEF Pending, ReadInv
  <2>2. heap[d].prev + heap[d].incr \in Nat /\ heap_ptr \in Nat
    BY DEF TypeInv, HeapRecord
  <2> QED  BY <2>1, <2>2
<1>11. \A x \in used' : /\ x \in Nat /\ x < heap_ptr' /\ ~Kept(x)'
                        /\ \A d \in Cores : ~Pending(d, x)'
  <2> SUFFICES ASSUME NEW x \in used
               PROVE  /\ x \in Nat /\ x < heap_ptr' /\ ~Kept(x)'
                      /\ \A d \in Cores : ~Pending(d, x)'
    BY <1>0
  <2>1. x \in Nat /\ x < heap_ptr /\ ~Kept(x) /\ \A d \in Cores : ~Pending(d, x)
    BY DEF MemInv
  <2>2. x < heap_ptr' /\ ~(heap_ptr <= x)
    BY <1>2, <1>3, <2>1
  <2> QED  BY <1>6, <1>7, <1>8, <2>1, <2>2
<1>12. \A d \in Cores : \A x \in Nat : Pending(d, x)' =>
         /\ ~Kept(x)'
         /\ \A e \in Cores : e # d => ~Pending(e, x)'
  <2> SUFFICES ASSUME NEW d \in Cores, NEW x \in Nat, Pending(d, x)'
               PROVE  ~Kept(x)' /\ \A e \in Cores : e # d => ~Pending(e, x)'
    OBVIOUS
  <2>1. CASE d = c
    <3>1. heap_ptr <= x /\ ~(x < heap_ptr)
      BY <1>2, <1>6, <2>1
    <3> QED  BY <1>7, <1>8, <1>9, <1>10, <2>1, <3>1
  <2>2. CASE d # c
    <3>1. Pending(d, x) /\ ~(heap_ptr <= x)
      BY <1>2, <1>7, <1>10, <2>2
    <3> QED  BY <1>6, <1>7, <1>8, <3>1, <2>2 DEF MemInv
  <2> QED  BY <2>1, <2>2
<1>13. chunk'.hi <= heap_ptr'
  BY <1>0, <1>2, <1>3 DEF MemInv, TypeInv
<1> QED  BY <1>0, <1>2, <1>5, <1>11, <1>12, <1>13 DEF MemInv

(* malloc cuts a block: from the chunk it keeps, or from a new one. *)
LEMMA CutMem ==
    ASSUME TypeInv, TypeInv', CallInv, ReadInv, MemInv, LockInv, NEW c \in Cores, MallocCut(c)
    PROVE  ReadInv' /\ MemInv'
<1> DEFINE size == heap[c].size
           align == heap[c].align
           lo == heap[c].prev
           rest == lo + Asked(size, align)
           p == Aligned(lo, align)
           first == IF align = 0 THEN p ELSE p - Pointer
<1>0. /\ heap[c] \in HeapRecord /\ lo \in Nat /\ size \in Nat /\ align \in Nat
      /\ heap[c].incr \in Nat /\ heap[c].for = "malloc"
  BY DEF TypeInv, HeapRecord, MallocCut
<1>1. /\ heap'[c].at = "unlock" /\ UNCHANGED heap_ptr
      /\ \A d \in Cores : d # c => heap'[d] = heap[d]
  BY <1>0 DEF MallocCut, Goto, TypeInv, HeapRecord
<1>2. /\ first \in Nat /\ p + size \in Nat /\ lo <= first /\ p + size <= rest
      /\ rest \in Nat /\ lo <= rest
  <2>1. first \in Nat /\ p \in Nat /\ lo <= first /\ p + size <= rest
    BY <1>0, BlockBounds
  <2>2. Asked(size, align) \in Nat
    BY <1>0, AskedType
  <2> HIDE DEF p, size
  <2> QED  BY <1>0, <2>1, <2>2 DEF size
<1>3. InMalloc(c) => \A d \in Cores : d # c => ~At(d, "cut")
  <2>1. \A d \in Cores : At(d, "cut") => InMalloc(d)
    BY DEF At, InMalloc, CallInv, MallocPlaces, OwnPlaces
  <2> QED  BY <2>1, OneInMalloc
<1>4. chunk \in [lo : Nat, hi : Nat] /\ chunk' \in [lo : Nat, hi : Nat] /\ heap_ptr \in Nat
  BY DEF TypeInv
<1>5. CASE At(c, "cut")
  <2>1. chunk' = [chunk EXCEPT !.lo = rest] /\ Give(first, p + size)
    BY <1>5 DEF MallocCut, At
  <2>2. lo = chunk.lo /\ rest <= chunk.hi /\ chunk'.lo = rest /\ chunk'.hi = chunk.hi
    BY <1>4, <1>5, <2>1 DEF ReadInv
  <2>3. \A d \in Cores : d # c => ~At(d, "cut")
    BY <1>0, <1>3, <1>5 DEF InMalloc, At, OwnPlaces
  <2> HIDE DEF first, p, rest, lo, size
  <2>4. \A x \in Nat : first <= x /\ x < p + size => Kept(x) /\ ~Kept(x)'
    BY <1>0, <1>2, <1>4, <2>2 DEF Kept
  <2>5. \A x \in Nat : Kept(x)' => Kept(x)
    BY <1>0, <1>2, <1>4, <2>2 DEF Kept
  <2>6. chunk'.hi <= heap_ptr
    BY <2>2 DEF MemInv
  <2> QED  BY <1>1, <1>2, <2>1, <2>3, <2>4, <2>5, <2>6, MemGiven
<1>6. CASE At(c, "got")
  <2>1. /\ chunk' = [lo |-> rest, hi |-> lo + heap[c].incr] /\ Give(first, p + size)
    BY <1>6 DEF MallocCut, At
  <2>2. rest <= lo + heap[c].incr
    <3>1. Asked(size, align) <= heap[c].incr /\ Asked(size, align) \in Nat
      BY <1>0, <1>6, AskedType DEF CallInv, At, CallPlaces
    <3> QED  BY <1>0, <3>1
  <2>3. \A d \in Cores : d # c => ~At(d, "cut")
    BY <1>0, <1>3, <1>6 DEF InMalloc, At, CallPlaces
  <2>4. chunk'.lo = rest /\ chunk'.hi = lo + heap[c].incr
    BY <2>1
  <2>5. chunk'.hi <= heap_ptr
    BY <1>6, <2>4 DEF ReadInv, At
  <2>6. \A x \in Nat : Pending(c, x) <=> lo <= x /\ x < lo + heap[c].incr
    BY <1>6 DEF Pending, At
  <2>7. \A x \in Nat : Kept(x)' <=> rest <= x /\ x < lo + heap[c].incr
    BY <2>4 DEF Kept
  <2>8. lo + heap[c].incr \in Nat
    BY <1>0
  <2> HIDE DEF first, p, rest, lo, size
  <2>9. \A x \in Nat : first <= x /\ x < p + size => Pending(c, x) /\ ~Kept(x)'
    BY <1>0, <1>2, <2>2, <2>6, <2>7, <2>8
  <2>10. \A x \in Nat : Kept(x)' => Pending(c, x)
    BY <1>0, <1>2, <2>6, <2>7
  <2> QED  BY <1>1, <1>2, <2>1, <2>3, <2>5, <2>9, <2>10, MemGiven
<1>7. CASE At(c, "failed")
  BY <1>1, <1>7, MemStays DEF MallocCut, At, given
<1> QED  BY <1>5, <1>6, <1>7 DEF MallocCut

(* mmap gives the bytes that its sbrk took.                                *)
LEMMA MmapReturnMem ==
    ASSUME TypeInv, TypeInv', CallInv, ReadInv, MemInv, NEW c \in Cores, MmapReturn(c)
    PROVE  ReadInv' /\ MemInv'
<1> DEFINE lo == heap[c].prev
           hi == heap[c].prev + heap[c].size
<1>1. /\ heap'[c].at = "idle" /\ UNCHANGED <<heap_ptr, chunk>>
      /\ \A d \in Cores : d # c => heap'[d] = heap[d]
  BY RestingType DEF MmapReturn, TypeInv
<1>2. CASE At(c, "got")
  <2>1. Give(lo, hi) /\ heap[c].for = "mmap"
    BY <1>2 DEF MmapReturn, At
  <2>2. lo \in Nat /\ hi \in Nat /\ heap[c].incr \in Nat /\ heap[c].size \in Nat
    BY DEF TypeInv, HeapRecord
  <2>3. heap[c].size <= heap[c].incr
    BY <1>2, <2>1 DEF CallInv, At, CallPlaces
  <2>4. \A x \in Nat : lo <= x /\ x < hi => Pending(c, x)
    BY <1>2, <2>2, <2>3 DEF Pending, At
  <2>5. \A x \in Nat : Kept(x)' <=> Kept(x)
    BY <1>1 DEF Kept
  <2>6. \A x \in Nat : Pending(c, x) => ~Kept(x)
    BY DEF MemInv
  <2>7. chunk'.hi <= heap_ptr
    BY <1>1 DEF MemInv
  <2> HIDE DEF lo, hi
  <2> QED  BY <1>1, <2>1, <2>2, <2>4, <2>5, <2>6, <2>7, MemGiven
<1>3. CASE At(c, "failed")
  BY <1>1, <1>3, MemStays DEF MmapReturn, At, given
<1> QED  BY <1>2, <1>3 DEF MmapReturn

(* Every step keeps the three kinds of bytes apart.                        *)
LEMMA MemKeeps ==
    ASSUME TypeInv, TypeInv', CallInv, BootInv, LockInv, ReadInv, MemInv, [HeapNext]_heapVars
    PROVE  ReadInv' /\ MemInv'
<1>1. CASE Booting \/ UNCHANGED heapVars
  <2>1. UNCHANGED <<heap, heap_ptr, chunk, used, twice>>
    BY <1>1 DEF Booting, InitMallocMutex, InitSbrkMutex, heapVars, given
  <2> QED  BY <2>1 DEF ReadInv, MemInv, Pending, Kept, At
<1>2. ASSUME NEW c \in Cores, HeapCall(c) PROVE ReadInv' /\ MemInv'
  <2>1. /\ UNCHANGED <<heap_ptr, chunk, used, twice>>
        /\ heap'[c].at \in {"sbrk", "lock"}
        /\ \A d \in Cores : d # c => heap'[d] = heap[d]
    <3>1. CASE \E n \in Sizes : Mmap(c, n)
      BY <3>1 DEF Mmap, TypeInv, Resting, given
    <3>2. CASE \E n \in Sizes, align \in {0, 2 * Pointer} : Malloc(c, n, align)
      BY <3>2 DEF Malloc, TypeInv, Resting, given
    <3> QED  BY <1>2, <3>1, <3>2 DEF HeapCall
  <2> QED  BY <2>1, MemStays
<1>3. ASSUME NEW c \in Cores, HeapStep(c) PROVE ReadInv' /\ MemInv'
  <2>0. heap[c] \in HeapRecord
    BY DEF TypeInv
  <2>1. CASE SbrkStore(c)
    BY <2>1, StoreMem
  <2>2. CASE MmapReturn(c)
    BY <2>2, MmapReturnMem
  <2>3. CASE MallocCut(c)
    BY <2>3, CutMem
  <2>4. CASE SbrkRead(c)
    <3>1. /\ UNCHANGED <<heap_ptr, chunk, used, twice>>
          /\ \A d \in Cores : d # c => heap'[d] = heap[d]
      BY <2>4 DEF SbrkRead, TypeInv, given
    <3>2. /\ heap'[c].prev = heap_ptr /\ heap'[c].incr = heap[c].incr
          /\ heap'[c].at = (IF heap_ptr + heap[c].incr > HeapSize THEN "oom" ELSE "store")
      BY <2>0, <2>4 DEF SbrkRead, TypeInv, HeapRecord
    <3>3. heap_ptr + heap[c].incr \in Nat /\ HeapSize \in Nat
      BY <2>0, HeapAssumption DEF TypeInv, HeapRecord
    <3>4. heap'[c].at = "store" => heap'[c].prev + heap'[c].incr <= HeapSize
      BY <3>2, <3>3
    <3> QED  BY <3>1, <3>2, <3>4, MemStays
  <2>5. CASE MallocFit(c)
    <3> DEFINE asked == Asked(heap[c].size, heap[c].align)
    <3>1. /\ UNCHANGED <<heap_ptr, chunk, used, twice>>
          /\ \A d \in Cores : d # c => heap'[d] = heap[d]
      BY <2>5 DEF MallocFit, TypeInv, given
    <3>2. asked \in Nat /\ chunk.lo \in Nat /\ chunk.hi \in Nat
      BY <2>0, AskedType DEF HeapRecord, TypeInv
    <3>3. \/ /\ chunk.hi - chunk.lo >= asked
             /\ heap' = [heap EXCEPT ![c] = [@ EXCEPT !.at = "cut", !.prev = chunk.lo]]
          \/ heap' = [heap EXCEPT ![c] = [@ EXCEPT !.at = "sbrk", !.incr = RoundUp(asked, Page)]]
      BY <2>5 DEF MallocFit
    <3>4. \/ /\ chunk.hi - chunk.lo >= asked
             /\ heap'[c].at = "cut" /\ heap'[c].prev = chunk.lo
             /\ heap'[c].size = heap[c].size /\ heap'[c].align = heap[c].align
          \/ heap'[c].at = "sbrk"
      <4> HIDE DEF asked
      <4> DEFINE fits == [heap[c] EXCEPT !.at = "cut", !.prev = chunk.lo]
                 grows == [heap[c] EXCEPT !.at = "sbrk", !.incr = RoundUp(asked, Page)]
      <4>1. /\ fits.at = "cut" /\ fits.prev = chunk.lo /\ grows.at = "sbrk"
            /\ fits.size = heap[c].size /\ fits.align = heap[c].align
        BY <2>0 DEF HeapRecord
      <4>2. \/ chunk.hi - chunk.lo >= asked /\ heap'[c] = fits
            \/ heap'[c] = grows
        BY <3>3 DEF TypeInv
      <4> HIDE DEF fits, grows
      <4> QED  BY <4>1, <4>2
    <3>5. heap'[c].at = "cut" => chunk.lo + asked <= chunk.hi
      <4> HIDE DEF asked
      <4> QED  BY <3>2, <3>4
    <3> QED  BY <3>1, <3>4, <3>5, MemStays
  <2>6. CASE SbrkExit(c)
    <3>1. /\ UNCHANGED <<heap_ptr, chunk, used, twice>>
          /\ \A d \in Cores : d # c => heap'[d] = heap[d]
      BY <2>6 DEF SbrkExit, Goto, TypeInv, given
    <3>2. /\ heap'[c].at = (IF At(c, "exit") THEN "got" ELSE "failed")
          /\ heap'[c].prev = heap[c].prev /\ heap'[c].incr = heap[c].incr
      BY <2>0, <2>6 DEF SbrkExit, Goto, TypeInv, HeapRecord
    <3> QED  BY <3>1, <3>2, MemStays DEF At
  <2>7. CASE SbrkEnter(c) \/ MallocCheck(c) \/ MallocLazyInit(c) \/ MallocSetFlag(c)
             \/ MallocEnter(c) \/ MallocUnlock(c)
    <3>1. UNCHANGED <<heap_ptr, chunk, used, twice>>
      BY <2>7 DEF SbrkEnter, MallocCheck, MallocLazyInit, MallocSetFlag, MallocEnter,
            MallocUnlock, given
    <3>2. /\ heap'[c].at \in {"read", "enter", "init", "flag", "fit", "idle"}
          /\ \A d \in Cores : d # c => heap'[d] = heap[d]
      <4>1. CASE MallocUnlock(c)
        BY <4>1, RestingType DEF MallocUnlock, TypeInv
      <4>2. ASSUME NEW place, Goto(c, place)
            PROVE  heap'[c].at = place /\ \A d \in Cores : d # c => heap'[d] = heap[d]
        BY <2>0, <4>2 DEF Goto, TypeInv, HeapRecord
      <4> QED  BY <2>7, <4>1, <4>2 DEF SbrkEnter, MallocCheck, MallocLazyInit, MallocSetFlag,
                MallocEnter
    <3> QED  BY <3>1, <3>2, MemStays
  <2> QED  BY <1>3, <2>1, <2>2, <2>3, <2>4, <2>5, <2>6, <2>7 DEF HeapStep
<1> QED  BY <1>1, <1>2, <1>3 DEF HeapNext, MmapFixed

-----------------------------------------------------------------------------
(* The invariant                                                           *)

HeapIInv == TypeInv /\ CallInv /\ BootInv /\ LockInv /\ ReadInv /\ MemInv

(* The invariant is inductive. *)
LEMMA HeapNextIInv == HeapIInv /\ [HeapNext]_heapVars => HeapIInv'
<1> SUFFICES ASSUME HeapIInv, [HeapNext]_heapVars PROVE HeapIInv'
  OBVIOUS
<1>1. TypeInv' /\ CallInv'
  BY TypeKeeps, HeapRecordKeeps DEF HeapIInv
<1>2. BootInv' /\ LockInv'
  BY BootKeeps, LockKeeps DEF HeapIInv
<1>3. ReadInv' /\ MemInv'
  BY <1>1, MemKeeps DEF HeapIInv
<1> QED  BY <1>1, <1>2, <1>3 DEF HeapIInv

(* The invariant of the allocators holds while the other services run.     *)
THEOREM HeapInvariantHolds == Spec => []HeapIInv
<1>1. HeapInit => HeapIInv
  BY InitType, InitLocks, InitMem DEF HeapIInv
<1> QED  BY <1>1, HeapNextIInv, ImplementsHeap, PTL DEF HeapSpec

(* Whichever cores allocate, however the memory is asked for and however   *)
(* large the heap is, no byte is given twice, kept and given, or beyond    *)
(* the limit.                                                              *)
THEOREM BlocksDisjointHolds == Spec => []BlocksDisjoint
<1>1. HeapIInv => BlocksDisjoint
  <2> SUFFICES ASSUME HeapIInv PROVE BlocksDisjoint
    OBVIOUS
  <2>1. heap_ptr \in Nat /\ HeapSize \in Nat /\ heap_ptr <= HeapSize
    BY HeapAssumption DEF HeapIInv, TypeInv, MemInv
  <2>2. chunk.lo \in Nat /\ chunk.hi \in Nat
    BY DEF HeapIInv, TypeInv
  <2>3. \A x \in used : x \in Nat /\ x < heap_ptr /\ ~Kept(x)
    BY DEF HeapIInv, MemInv
  <2>4. used \subseteq 0 .. HeapSize - 1
    BY <2>1, <2>3
  <2>5. used \cap (chunk.lo .. chunk.hi - 1) = {}
    BY <2>2, <2>3 DEF Kept
  <2> QED  BY <2>4, <2>5 DEF HeapIInv, MemInv, BlocksDisjoint
<1> QED  BY <1>1, HeapInvariantHolds, PTL

(* A core that has come back from a call holds neither lock. *)
THEOREM LocksGivenBackHolds == Spec => []LocksGivenBack
<1>1. HeapIInv => LocksGivenBack
  <2> SUFFICES ASSUME HeapIInv, NEW c \in Cores, At(c, "idle")
               PROVE  c # sbrk_owner /\ c # malloc_owner
    BY DEF LocksGivenBack
  <2>1. ~InSbrk(c) /\ ~InMalloc(c)
    BY DEF At, InSbrk, InMalloc, SbrkPlaces, CallPlaces, OwnPlaces
  <2>2. c # malloc_owner
    BY <2>1 DEF HeapIInv, LockInv
  <2>3. c # sbrk_owner
    BY <2>1, HeapAssumption DEF HeapIInv, LockInv, BootInv
  <2> QED  BY <2>2, <2>3
<1> QED  BY <1>1, HeapInvariantHolds, PTL

-----------------------------------------------------------------------------
(* Output                                                                  *)

Printed == Texts \cup {CrLf}

Item == [text : Printed, buffered : BOOLEAN]

RawType ==
    /\ raw_output_lock \in {0, 1}
    /\ event \in [Writers -> BOOLEAN]
    /\ raw \in [Writers -> {"idle", "lock", "wfe", "put", "sev"}]
    /\ pos \in [Writers -> Nat]
    /\ todo \in [Writers -> Seq(Item)]
    /\ print_buf \in [Writers -> Printed \cup {<<>>}]

(* The lock is taken exactly while one core prints. *)
HolderInv ==
    /\ raw_output_lock = 1 <=> \E c \in Writers : raw[c] = "put"
    /\ \A c, d \in Writers : raw[c] = "put" /\ raw[d] = "put" => c = d
    /\ (\A c \in Writers : raw[c] # "put") => out = <<>>

(* A core in a call has a text before it, in its own buffer if it was      *)
(* copied; only the first can be; and what is out is its beginning.        *)
TextInv ==
    \A c \in Writers :
        /\ raw[c] # "idle" =>
             /\ todo[c] # <<>>
             /\ Head(todo[c]).buffered => print_buf[c] = Head(todo[c]).text
        /\ \A i \in 2 .. Len(todo[c]) : ~todo[c][i].buffered
        /\ raw[c] \in {"idle", "lock", "wfe"} => pos[c] = 0
        /\ raw[c] = "put" => /\ pos[c] <= Len(Head(todo[c]).text)
                             /\ out = SubSeq(Head(todo[c]).text, 1, pos[c])

(* The beginnings of a text, as they grow by a character.                  *)
LEMMA TextType ==
    ASSUME NEW text \in Printed
    PROVE  /\ Len(text) \in Nat
           /\ SubSeq(text, 1, 0) = <<>>
           /\ SubSeq(text, 1, Len(text)) = text
           /\ \A n \in Nat : n < Len(text) =>
                Append(SubSeq(text, 1, n), text[n + 1]) = SubSeq(text, 1, n + 1)
<1> DEFINE S == {text[i] : i \in DOMAIN text}
<1>1. text \in Seq(S)
  BY OutputAssumption DEF Printed
<1> HIDE DEF S
<1>2. Len(text) \in Nat /\ SubSeq(text, 1, 0) = <<>> /\ SubSeq(text, 1, Len(text)) = text
  BY <1>1
<1>3. \A n \in Nat : n < Len(text) =>
        Append(SubSeq(text, 1, n), text[n + 1]) = SubSeq(text, 1, n + 1)
  BY <1>1
<1> QED  BY <1>2, <1>3

(* What the calls leave to print *)
LEMMA OneItem ==
    ASSUME NEW item \in Item
    PROVE  /\ <<item>> \in Seq(Item) /\ <<item>> # <<>> /\ Head(<<item>>) = item
           /\ \A i \in 2 .. Len(<<item>>) : ~<<item>>[i].buffered
OBVIOUS

(* pico_print: a text, then the end of the line. *)
LEMMA TwoItems ==
    ASSUME NEW a \in Item, NEW b \in Item, b.buffered = FALSE
    PROVE  /\ <<a>> \o <<b>> \in Seq(Item) /\ <<a>> \o <<b>> # <<>> /\ Head(<<a>> \o <<b>>) = a
           /\ \A i \in 2 .. Len(<<a>> \o <<b>>) : ~(<<a>> \o <<b>>)[i].buffered
<1> DEFINE s == <<a>> \o <<b>>
<1>1. <<a>> \in Seq(Item) /\ <<b>> \in Seq(Item) /\ Len(<<a>>) = 1 /\ Len(<<b>>) = 1
  OBVIOUS
<1>2. s \in Seq(Item) /\ Len(s) = 2
  BY <1>1
<1>3. s[1] = a /\ s[2] = b
  BY <1>1
<1> HIDE DEF s
<1>4. s # <<>> /\ Head(s) = s[1]
  BY <1>2
<1>5. \A i \in 2 .. Len(s) : i = 2
  BY <1>2
<1>6. s \in Seq(Item) /\ s # <<>> /\ Head(s) = a /\ \A i \in 2 .. Len(s) : ~s[i].buffered
  BY <1>2, <1>3, <1>4, <1>5
<1> QED  BY <1>6 DEF s

(* The two kinds of items. *)
LEMMA ItemType ==
    ASSUME NEW text \in Printed
    PROVE  /\ From(text) \in Item /\ From(text).text = text /\ From(text).buffered = FALSE
           /\ Buffered(text) \in Item /\ Buffered(text).text = text
           /\ Buffered(text).buffered = TRUE
BY DEF From, Buffered, Item

(* After the first text: the rest, none of which is in the buffer. *)
LEMMA TailItems ==
    ASSUME NEW s \in Seq(Item), s # <<>>, \A i \in 2 .. Len(s) : ~s[i].buffered
    PROVE  /\ Tail(s) \in Seq(Item)
           /\ \A i \in 2 .. Len(Tail(s)) : ~Tail(s)[i].buffered
           /\ Len(s) > 1 => Tail(s) # <<>> /\ ~Head(Tail(s)).buffered
<1>1. Len(s) \in Nat /\ Len(s) > 0 /\ Tail(s) \in Seq(Item) /\ Len(Tail(s)) = Len(s) - 1
      /\ \A i \in 1 .. Len(Tail(s)) : Tail(s)[i] = s[i + 1]
  OBVIOUS
<1>2. \A i \in 2 .. Len(Tail(s)) : ~Tail(s)[i].buffered
  <2> SUFFICES ASSUME NEW i \in 2 .. Len(Tail(s)) PROVE ~Tail(s)[i].buffered
    OBVIOUS
  <2>1. i \in 1 .. Len(Tail(s)) /\ i + 1 \in 2 .. Len(s)
    BY <1>1
  <2> QED  BY <1>1, <2>1
<1>3. ASSUME Len(s) > 1 PROVE Tail(s) # <<>> /\ ~Head(Tail(s)).buffered
  <2> DEFINE t == Tail(s)
  <2>1. t \in Seq(Item) /\ Len(t) > 0 /\ t[1] = s[2] /\ 2 \in 2 .. Len(s)
    BY <1>1, <1>3
  <2> HIDE DEF t
  <2>2. t # <<>> /\ Head(t) = t[1]
    BY <2>1
  <2>3. t # <<>> /\ ~Head(t).buffered
    BY <2>1, <2>2
  <2> QED  BY <2>3 DEF t
<1> QED  BY <1>1, <1>2, <1>3

RawInv == RawType /\ HolderInv /\ TextInv

(* At reset nobody prints. *)
LEMMA RawInitInv == RawInit => RawInv /\ SleeperWoken
BY DEF RawInit, RawInv, RawType, HolderInv, TextInv, SleeperWoken

(* Steps that begin a call *)
LEMMA CallText ==
    ASSUME RawInv, SleeperWoken, NEW c \in Writers, NEW items \in Seq(Item),
           NEW buf \in Printed \cup {<<>>},
           raw[c] = "idle", items # <<>>, Head(items).buffered => buf = Head(items).text,
           \A i \in 2 .. Len(items) : ~items[i].buffered,
           raw' = [raw EXCEPT ![c] = "lock"], todo' = [todo EXCEPT ![c] = items],
           print_buf' = [print_buf EXCEPT ![c] = buf],
           UNCHANGED <<raw_output_lock, event, pos, out>>
    PROVE  RawInv' /\ SleeperWoken'
<1>1. RawType'
  BY DEF RawInv, RawType
<1>2. /\ raw'[c] = "lock" /\ todo'[c] = items /\ print_buf'[c] = buf
      /\ \A d \in Writers : d # c => raw'[d] = raw[d] /\ todo'[d] = todo[d] /\ print_buf'[d] = print_buf[d]
  BY DEF RawInv, RawType
<1>3. HolderInv'
  BY <1>2 DEF RawInv, HolderInv
<1>4. TextInv'
  BY <1>2 DEF RawInv, TextInv
<1>5. SleeperWoken'
  BY <1>2 DEF SleeperWoken
<1> QED  BY <1>1, <1>3, <1>4, <1>5 DEF RawInv

(* raw_puts and pico_print_string, up to raw_lock.                         *)
LEMMA RawCallKeeps ==
    ASSUME RawInv, SleeperWoken, NEW c \in Writers, RawCall(c)
    PROVE  RawInv' /\ SleeperWoken'
<1>0. PICK text \in Texts :
        \/ RawPuts(c, text)
        \/ \E ending \in {<<>>, <<From(CrLf)>>} : PrintString(c, text, ending)
  BY DEF RawCall
<1>1. text \in Printed /\ CrLf \in Printed
  BY DEF Printed
<1>2. CASE RawPuts(c, text)
  <2> DEFINE items == <<From(text)>>
  <2>1. items \in Seq(Item) /\ items # <<>> /\ Head(items).buffered = FALSE
        /\ \A i \in 2 .. Len(items) : ~items[i].buffered
    BY <1>1, ItemType, OneItem
  <2>2. print_buf' = [print_buf EXCEPT ![c] = print_buf[c]] /\ print_buf[c] \in Printed \cup {<<>>}
    BY <1>2 DEF RawPuts, RawInv, RawType
  <2>3. raw[c] = "idle" /\ raw' = [raw EXCEPT ![c] = "lock"] /\ todo' = [todo EXCEPT ![c] = items]
        /\ UNCHANGED <<raw_output_lock, event, pos, out>>
    BY <1>2 DEF RawPuts
  <2> HIDE DEF items
  <2> QED  BY <2>1, <2>2, <2>3, CallText
<1>3. ASSUME NEW ending \in {<<>>, <<From(CrLf)>>}, PrintString(c, text, ending)
      PROVE  RawInv' /\ SleeperWoken'
  <2> DEFINE items == <<Buffered(text)>> \o ending
  <2>1. items \in Seq(Item) /\ items # <<>> /\ Head(items) = Buffered(text)
        /\ \A i \in 2 .. Len(items) : ~items[i].buffered
    <3>1. CASE ending = <<>>
      <4>1. items = <<Buffered(text)>>
        BY <3>1
      <4> HIDE DEF items
      <4> QED  BY <1>1, <4>1, ItemType, OneItem
    <3>2. CASE ending = <<From(CrLf)>>
      <4>1. items = <<Buffered(text)>> \o <<From(CrLf)>>
        BY <3>2
      <4>2. Buffered(text) \in Item /\ From(CrLf) \in Item /\ From(CrLf).buffered = FALSE
        BY <1>1, ItemType
      <4> HIDE DEF items
      <4> QED  BY <4>1, <4>2, TwoItems
    <3> QED  BY <3>1, <3>2
  <2>2. Head(items).text = text
    BY <1>1, <2>1, ItemType
  <2>3. raw[c] = "idle" /\ raw' = [raw EXCEPT ![c] = "lock"] /\ todo' = [todo EXCEPT ![c] = items]
        /\ print_buf' = [print_buf EXCEPT ![c] = text]
        /\ UNCHANGED <<raw_output_lock, event, pos, out>>
    BY <1>3 DEF PrintString, BufferOfCore
  <2> HIDE DEF items
  <2> QED  BY <1>1, <2>1, <2>2, <2>3, CallText
<1> QED  BY <1>0, <1>2, <1>3

(* What a core in a call reads from is the text of the call: print_buf of  *)
(* this core has not been written since.                                   *)
LEMMA SourceIsText ==
    ASSUME RawInv, NEW c \in Writers, raw[c] # "idle"
    PROVE  /\ todo[c] \in Seq(Item) /\ todo[c] # <<>>
           /\ Head(todo[c]) \in Item /\ Head(todo[c]).text \in Printed
           /\ Source(c) = Head(todo[c]).text
<1>1. todo[c] \in Seq(Item) /\ todo[c] # <<>>
  BY DEF RawInv, RawType, TextInv
<1>2. Head(todo[c]) \in Item
  BY <1>1
<1>3. Source(c) = Head(todo[c]).text
  BY DEF Source, BufferOfCore, RawInv, TextInv
<1> QED  BY <1>1, <1>2, <1>3 DEF Item

(* raw_lock, the loop and raw_unlock. *)
LEMMA RawStepKeeps ==
    ASSUME RawInv, SleeperWoken, NEW c \in Writers, RawStep(c)
    PROVE  RawInv' /\ SleeperWoken'
<1>0. RawType /\ HolderInv /\ TextInv
  BY DEF RawInv
<1>1. CASE RawLock(c)
  <2>1. /\ raw[c] = "lock" /\ raw_output_lock = 0 /\ raw_output_lock' = 1
        /\ raw' = [raw EXCEPT ![c] = "put"]
        /\ UNCHANGED <<event, print_buf, todo, pos, out>>
    BY <1>1 DEF RawLock, TestAndSet
  <2>2. /\ raw'[c] = "put" /\ \A d \in Writers : d # c => raw'[d] = raw[d]
        /\ \A d \in Writers : raw[d] # "put"
    BY <1>0, <2>1 DEF RawType, HolderInv
  <2>3. out = <<>> /\ pos[c] = 0
    BY <1>0, <2>1, <2>2 DEF HolderInv, TextInv
  <2>4. pos[c] <= Len(Head(todo[c]).text) /\ out = SubSeq(Head(todo[c]).text, 1, pos[c])
    <3>1. Head(todo[c]).text \in Printed
      BY <2>1, SourceIsText
    <3> QED  BY <2>3, <3>1, TextType
  <2>5. RawType'
    BY <1>0, <2>1 DEF RawType
  <2>6. HolderInv'
    BY <2>1, <2>2 DEF HolderInv
  <2>7. TextInv'
    BY <1>0, <2>1, <2>2, <2>4 DEF TextInv
  <2>8. SleeperWoken'
    BY <2>1 DEF SleeperWoken
  <2> QED  BY <2>5, <2>6, <2>7, <2>8 DEF RawInv
<1>2. CASE RawLockBusy(c) \/ Wfe(c)
  <2>1. /\ raw[c] \in {"lock", "wfe"} /\ UNCHANGED <<raw_output_lock, print_buf, todo, pos, out>>
        /\ event' \in [Writers -> BOOLEAN]
        /\ raw'[c] \in {"lock", "wfe"} /\ raw' \in [Writers -> {"idle", "lock", "wfe", "put", "sev"}]
        /\ \A d \in Writers : d # c => raw'[d] = raw[d] /\ event'[d] = event[d]
    BY <1>0, <1>2 DEF RawLockBusy, Wfe, RawType
  <2>2. raw'[c] = "wfe" => raw_output_lock = 1
    BY <1>0, <1>2 DEF RawLockBusy, Wfe, TestAndSet, RawType
  <2>3. RawType'
    BY <1>0, <2>1 DEF RawType
  <2>4. HolderInv'
    BY <1>0, <2>1 DEF HolderInv
  <2>5. TextInv'
    BY <1>0, <2>1 DEF TextInv
  <2>6. SleeperWoken'
    BY <2>1, <2>2 DEF SleeperWoken
  <2> QED  BY <2>3, <2>4, <2>5, <2>6 DEF RawInv
<1>3. CASE PutChar(c)
  <2> DEFINE text == Head(todo[c]).text
             n == pos[c]
  <2>1. /\ raw[c] = "put" /\ n < Len(text) /\ out' = Append(out, text[n + 1])
        /\ pos' = [pos EXCEPT ![c] = n + 1]
        /\ UNCHANGED <<raw_output_lock, event, print_buf, raw, todo>>
    BY <1>3, SourceIsText DEF PutChar
  <2>2. text \in Printed /\ n \in Nat /\ Len(text) \in Nat
    BY <1>0, <2>1, SourceIsText, TextType DEF RawType
  <2>3. out = SubSeq(text, 1, n)
    BY <1>0, <2>1 DEF TextInv
  <2>4. out' = SubSeq(text, 1, n + 1) /\ n + 1 <= Len(text) /\ n + 1 \in Nat
    <3>1. Append(SubSeq(text, 1, n), text[n + 1]) = SubSeq(text, 1, n + 1)
      BY <2>1, <2>2, TextType
    <3> HIDE DEF text, n
    <3>2. n + 1 <= Len(text) /\ n + 1 \in Nat
      BY <2>1, <2>2
    <3> QED  BY <2>1, <2>3, <3>1, <3>2
  <2>5. pos'[c] = n + 1 /\ \A d \in Writers : d # c => pos'[d] = pos[d] /\ raw[d] # "put"
    BY <1>0, <2>1 DEF RawType, HolderInv
  <2>6. RawType'
    BY <1>0, <2>1, <2>4 DEF RawType
  <2>7. HolderInv'
    BY <1>0, <2>1 DEF HolderInv
  <2>8. TextInv'
    BY <1>0, <2>1, <2>4, <2>5 DEF TextInv
  <2>9. SleeperWoken'
    BY <2>1 DEF SleeperWoken
  <2> QED  BY <2>6, <2>7, <2>8, <2>9 DEF RawInv
<1>4. CASE RawUnlock(c)
  <2>1. /\ raw[c] = "put" /\ raw_output_lock' = 0 /\ out' = <<>>
        /\ raw' = [raw EXCEPT ![c] = "sev"]
        /\ UNCHANGED <<event, print_buf, todo, pos>>
    BY <1>4 DEF RawUnlock
  <2>2. /\ raw'[c] = "sev" /\ \A d \in Writers : d # c => raw'[d] = raw[d] /\ raw[d] # "put"
    BY <1>0, <2>1 DEF RawType, HolderInv
  <2>3. RawType'
    BY <1>0, <2>1 DEF RawType
  <2>4. HolderInv'
    BY <2>1, <2>2 DEF HolderInv
  <2>5. TextInv'
    BY <1>0, <2>1, <2>2 DEF TextInv
  <2>6. SleeperWoken'
    BY <2>2 DEF SleeperWoken
  <2> QED  BY <2>3, <2>4, <2>5, <2>6 DEF RawInv
<1>5. CASE RawSev(c)
  <2> DEFINE next == IF Len(todo[c]) > 1 THEN "lock" ELSE "idle"
  <2>1. /\ raw[c] = "sev" /\ event' = [d \in Writers |-> TRUE]
        /\ print_buf' = [print_buf EXCEPT ![c] = <<>>]
        /\ todo' = [todo EXCEPT ![c] = Tail(todo[c])]
        /\ pos' = [pos EXCEPT ![c] = 0]
        /\ raw' = [raw EXCEPT ![c] = next]
        /\ UNCHANGED <<raw_output_lock, out>>
    BY <1>5 DEF RawSev, Sev, BufferOfCore
  <2>2. /\ Tail(todo[c]) \in Seq(Item)
        /\ \A i \in 2 .. Len(Tail(todo[c])) : ~Tail(todo[c])[i].buffered
        /\ Len(todo[c]) > 1 => Tail(todo[c]) # <<>> /\ ~Head(Tail(todo[c])).buffered
    <3>1. todo[c] \in Seq(Item) /\ todo[c] # <<>>
      BY <2>1, SourceIsText
    <3>2. \A i \in 2 .. Len(todo[c]) : ~todo[c][i].buffered
      BY <1>0 DEF TextInv
    <3> QED  BY <3>1, <3>2, TailItems
  <2>3. /\ raw'[c] = next /\ todo'[c] = Tail(todo[c]) /\ pos'[c] = 0
        /\ \A d \in Writers : d # c =>
             /\ raw'[d] = raw[d] /\ todo'[d] = todo[d] /\ pos'[d] = pos[d]
             /\ print_buf'[d] = print_buf[d]
    BY <1>0, <2>1 DEF RawType
  <2>4. next \in {"idle", "lock"} /\ (next = "lock" => Len(todo[c]) > 1)
    OBVIOUS
  <2> HIDE DEF next
  <2>5. RawType'
    BY <1>0, <2>1, <2>2, <2>4 DEF RawType
  <2>6. HolderInv'
    BY <1>0, <2>1, <2>3, <2>4 DEF HolderInv
  <2>7. TextInv'
    <3>1. ASSUME NEW d \in Writers, d # c
          PROVE  /\ raw'[d] # "idle" =>
                      /\ todo'[d] # <<>>
                      /\ Head(todo'[d]).buffered => print_buf'[d] = Head(todo'[d]).text
                 /\ \A i \in 2 .. Len(todo'[d]) : ~todo'[d][i].buffered
                 /\ raw'[d] \in {"idle", "lock", "wfe"} => pos'[d] = 0
                 /\ raw'[d] = "put" => /\ pos'[d] <= Len(Head(todo'[d]).text)
                                       /\ out' = SubSeq(Head(todo'[d]).text, 1, pos'[d])
      BY <1>0, <2>1, <2>3, <3>1 DEF TextInv
    <3>2. /\ raw'[c] # "idle" => todo'[c] # <<>> /\ ~Head(todo'[c]).buffered
          /\ \A i \in 2 .. Len(todo'[c]) : ~todo'[c][i].buffered
          /\ pos'[c] = 0 /\ raw'[c] # "put"
      BY <2>2, <2>3, <2>4
    <3> QED  BY <3>1, <3>2 DEF TextInv
  <2>8. SleeperWoken'
    BY <2>1 DEF SleeperWoken
  <2> QED  BY <2>5, <2>6, <2>7, <2>8 DEF RawInv
<1> QED  BY <1>1, <1>2, <1>3, <1>4, <1>5 DEF RawStep

(* The invariant of the output is inductive. *)
LEMMA RawNextKeeps == RawInv /\ SleeperWoken /\ [RawNext]_rawVars => RawInv' /\ SleeperWoken'
<1>1. CASE UNCHANGED rawVars
  BY <1>1 DEF rawVars, RawInv, RawType, HolderInv, TextInv, SleeperWoken
<1> QED  BY <1>1, RawCallKeeps, RawStepKeeps DEF RawNext

(* It gives the property. *)
LEMMA InvTexts == RawInv => TextsWhole
<1> SUFFICES ASSUME RawInv, NEW c \in Writers, raw[c] = "put"
             PROVE  LET text == Head(todo[c]).text IN
                    /\ pos[c] <= Len(text) /\ out = SubSeq(text, 1, pos[c])
                    /\ pos[c] = Len(Source(c)) => out = text
  BY DEF TextsWhole
<1>1. Source(c) = Head(todo[c]).text /\ Head(todo[c]).text \in Printed
  BY SourceIsText
<1>2. pos[c] <= Len(Head(todo[c]).text) /\ out = SubSeq(Head(todo[c]).text, 1, pos[c])
  BY DEF RawInv, TextInv
<1> QED  BY <1>1, <1>2, TextType

(* What is sent under the output lock is the text its holder was given,    *)
(* whole and in order, whichever cores print at the same time.             *)
THEOREM TextsWholeHolds == Spec => []TextsWhole
<1>1. RawInit => RawInv /\ SleeperWoken
  BY RawInitInv
<1>2. RawInv /\ SleeperWoken /\ [RawNext]_rawVars => RawInv' /\ SleeperWoken'
  BY RawNextKeeps
<1> QED  BY <1>1, <1>2, InvTexts, ImplementsRawOutput, PTL DEF RawSpec

(* No core sleeps in raw_lock without a holder that will wake it.          *)
THEOREM SleeperWokenHolds == Spec => []SleeperWoken
<1>1. RawInit => RawInv /\ SleeperWoken
  BY RawInitInv
<1>2. RawInv /\ SleeperWoken /\ [RawNext]_rawVars => RawInv' /\ SleeperWoken'
  BY RawNextKeeps
<1> QED  BY <1>1, <1>2, ImplementsRawOutput, PTL DEF RawSpec

-----------------------------------------------------------------------------
(* Lookups: which addresses survive the boxing, for any size of word       *)

(* The remainder by the number of OCaml integers: the top bit is lost. *)
LEMMA TopBit ==
    ASSUME NEW x \in Words
    PROVE  x % (2 * Quarter) = IF x < 2 * Quarter THEN x ELSE x - 2 * Quarter
<1> DEFINE m == 2 * Quarter
<1>1. m \in Nat /\ m > 0 /\ x \in Nat /\ x < m + m
  BY LookupAssumption DEF Words
<1>2. \A n, k \in Nat : k > 0 /\ n < k + k => n % k = IF n < k THEN n ELSE n - k
  OBVIOUS
<1> QED  BY <1>1, <1>2

(* An address comes back from Val_int and Int_val as it was exactly if its *)
(* two top bits are the same.                                              *)
THEOREM RoundTrip ==
    ASSUME NEW x \in Words
    PROVE  IntVal(ValInt(x)) = x <=> TopBitsAgree(x)
<1> DEFINE r == IF x < 2 * Quarter THEN x ELSE x - 2 * Quarter
<1>1. ValInt(x) = 2 * r + 1
  BY TopBit DEF ValInt
<1>2. r \in Nat /\ (2 * r + 1) \div 2 = r /\ x \in Nat /\ Quarter \in Nat
  BY LookupAssumption DEF Words
<1>3. x < 4 * Quarter
  BY LookupAssumption DEF Words
<1> QED  BY <1>1, <1>2, <1>3 DEF IntVal, TopBitsAgree

(* It is shown as it is exactly if its top bit is 0: a last octet from 128 *)
(* on is shown as another one.                                             *)
THEOREM ShownExactly ==
    ASSUME NEW x \in Words
    PROVE  Shown(ValInt(x)) = x <=> x < 2 * Quarter
<1> DEFINE r == IF x < 2 * Quarter THEN x ELSE x - 2 * Quarter
<1>1. ValInt(x) = 2 * r + 1
  BY TopBit DEF ValInt
<1>2. r \in Nat /\ (2 * r + 1) \div 2 = r /\ x \in Nat
  BY LookupAssumption DEF Words
<1> QED  BY <1>1, <1>2, LookupAssumption DEF Shown

-----------------------------------------------------------------------------
(* Lookups, one core at a time                                             *)

OneCaller == \A c, d \in Callers : c = d

LookupType ==
    /\ dns_result_ip \in Addresses \cup {0}
    /\ cache \in [Names -> Addresses \cup {0}]
    /\ request \in [Callers -> Names \cup {NoName}]
    /\ looking \in [Callers -> {"idle", "wait", "back", "used"}]
    /\ ip \in [Callers -> Int]
    /\ meant \in [Callers -> Addresses \cup {0}]
    /\ target \in [Callers -> Int]

(* While lwIP works on the request the flag is down; when it is up, the    *)
(* result is that of the caller.                                           *)
CallerInv ==
    \A c \in Callers :
        /\ request[c] # NoName => looking[c] = "wait" /\ dns_done = 0
        /\ looking[c] = "wait" /\ dns_done = 1 => dns_result_ip = meant[c]
        /\ looking[c] = "idle" => meant[c] = 0

(* What becomes of an address on its way through an OCaml integer. *)
Contacted(x) ==
    IF TopBitsAgree(x) THEN x ELSE (x + 2 * Quarter) % (4 * Quarter)

LookupIInv == LookupType /\ CallerInv /\ OwnAnswer

LEMMA LookupInitInv == LookupInit => LookupIInv /\ ContactsHostOrTwin
BY DEF LookupInit, LookupIInv, LookupType, CallerInv, OwnAnswer, ContactsHostOrTwin

(* Boxed and unboxed words are integers. *)
LEMMA BoxType == \A x \in Addresses \cup {0} : ValInt(x) \in Int /\ IntVal(ValInt(x)) \in Int
<1> SUFFICES ASSUME NEW x \in Addresses \cup {0} PROVE ValInt(x) \in Int /\ IntVal(ValInt(x)) \in Int
  OBVIOUS
<1>1. x \in Words
  BY LookupAssumption DEF Words
<1>2. ValInt(x) \in Int
  BY <1>1, TopBit, LookupAssumption DEF ValInt, Words
<1> QED  BY <1>2, LookupAssumption DEF IntVal

(* The steps of a lookup up to its result. *)
LEMMA ResolveKeeps ==
    ASSUME LookupIInv, OneCaller, NEW c \in Callers,
           \/ \E n \in Names : DnsResolve(c, n)
           \/ \E a \in Addresses \cup {0} : DnsCallback(c, a) \/ ResolveLiteral(c, a)
           \/ DnsReturn(c)
    PROVE  LookupIInv' /\ looking'[c] # "used"
<1>0. LookupType /\ CallerInv /\ OwnAnswer
  BY DEF LookupIInv
<1>a. \A d \in Callers : d = c
  BY DEF OneCaller
<1>b. ValInt(0) \in Int /\ \A n \in Names : ValInt(cache[n]) \in Int
  BY <1>0, BoxType DEF LookupType
<1>1. ASSUME NEW n \in Names, DnsResolve(c, n) PROVE LookupIInv' /\ looking'[c] # "used"
  <2>1. LookupType'
    BY <1>0, <1>1, <1>b DEF DnsResolve, LookupType
  <2>2. CallerInv' /\ OwnAnswer' /\ looking'[c] # "used"
    BY <1>0, <1>1, <1>a DEF DnsResolve, ClearDone, LookupType, CallerInv, OwnAnswer
  <2> QED  BY <2>1, <2>2 DEF LookupIInv
<1>2. ASSUME NEW a \in Addresses \cup {0}, DnsCallback(c, a) PROVE LookupIInv' /\ looking'[c] # "used"
  <2>1. LookupType'
    BY <1>0, <1>2 DEF DnsCallback, ResultOf, LookupType
  <2>2. looking[c] = "wait"
    BY <1>0, <1>2 DEF DnsCallback, CallerInv
  <2>3. CallerInv' /\ OwnAnswer'
    BY <1>0, <1>2, <1>a, <2>2 DEF DnsCallback, ResultOf, LookupType, CallerInv, OwnAnswer
  <2> QED  BY <1>2, <2>1, <2>2, <2>3 DEF DnsCallback, LookupIInv
<1>3. ASSUME NEW a \in Addresses \cup {0}, ResolveLiteral(c, a) PROVE LookupIInv' /\ looking'[c] # "used"
  <2>1. LookupType'
    BY <1>0, <1>3, BoxType DEF ResolveLiteral, LookupType
  <2>2. CallerInv' /\ OwnAnswer' /\ looking'[c] # "used"
    BY <1>0, <1>3, <1>a DEF ResolveLiteral, LookupType, CallerInv, OwnAnswer
  <2> QED  BY <2>1, <2>2 DEF LookupIInv
<1>4. CASE DnsReturn(c)
  <2>1. LookupType'
    BY <1>0, <1>4, BoxType DEF DnsReturn, LookupType
  <2>2. CallerInv' /\ OwnAnswer' /\ looking'[c] # "used"
    BY <1>0, <1>4, <1>a DEF DnsReturn, LookupType, CallerInv, OwnAnswer
  <2> QED  BY <2>1, <2>2 DEF LookupIInv
<1> QED  BY <1>1, <1>2, <1>3, <1>4

(* What a caller does with the result, and the resolver with its cache. *)
LEMMA UseKeeps ==
    ASSUME LookupIInv, NEW c \in Callers, UseAddress(c) \/ LookupOver(c)
    PROVE  LookupIInv'
<1>0. LookupType /\ CallerInv /\ OwnAnswer
  BY DEF LookupIInv
<1>1. CASE UseAddress(c)
  <2>1. ip[c] = ValInt(meant[c]) /\ IntVal(ip[c]) \in Int
    BY <1>0, <1>1, BoxType DEF UseAddress, LookupType, OwnAnswer
  <2>2. LookupType'
    BY <1>0, <1>1, <2>1 DEF UseAddress, LookupType
  <2>3. CallerInv' /\ OwnAnswer'
    BY <1>0, <1>1 DEF UseAddress, LookupType, CallerInv, OwnAnswer
  <2> QED  BY <2>2, <2>3 DEF LookupIInv
<1>2. CASE LookupOver(c)
  <2>1. LookupType'
    BY <1>0, <1>2 DEF LookupOver, LookupType
  <2>2. CallerInv' /\ OwnAnswer'
    BY <1>0, <1>2 DEF LookupOver, LookupType, CallerInv, OwnAnswer
  <2> QED  BY <2>1, <2>2 DEF LookupIInv
<1> QED  BY <1>1, <1>2

LEMMA ExpireKeeps ==
    ASSUME LookupIInv, (\E n \in Names : Expire(n)) \/ UNCHANGED lookupVars
    PROVE  LookupIInv' /\ UNCHANGED <<looking, meant, target>>
BY DEF LookupIInv, Expire, lookupVars, LookupType, CallerInv, OwnAnswer

LEMMA LookupNextKeeps == LookupIInv /\ OneCaller /\ [LookupNext]_lookupVars => LookupIInv'
BY ResolveKeeps, UseKeeps, ExpireKeeps DEF LookupNext, LookupStep, Answer

(* With one core that looks names up, every call of dns_resolve returns    *)
(* the answer to its own question, however long lwIP takes and whatever    *)
(* earlier lookups left behind.                                            *)
THEOREM OwnAnswerHolds ==
    ASSUME OneCaller
    PROVE  LookupSpec => []OwnAnswer
<1>1. LookupIInv /\ [LookupNext]_lookupVars => LookupIInv'
  BY LookupNextKeeps
<1>2. LookupIInv => OwnAnswer
  BY DEF LookupIInv
<1> QED  BY <1>1, <1>2, LookupInitInv, PTL DEF LookupSpec

(* What is unboxed is the address that was boxed, or the one 128 away in    *)
(* its last octet; only 0, and the twin of 0, are taken for a failure.     *)
LEMMA Unboxed ==
    ASSUME NEW x \in Words
    PROVE  (IF ValInt(x) = ValInt(0) THEN 0 ELSE IntVal(ValInt(x))) = Contacted(x)
<1> DEFINE r == IF x < 2 * Quarter THEN x ELSE x - 2 * Quarter
<1>1. x \in Nat /\ x < 4 * Quarter /\ Quarter \in Nat /\ Quarter > 0 /\ 0 \in Words
  BY LookupAssumption DEF Words
<1>2. ValInt(x) = 2 * r + 1 /\ ValInt(0) = 1
  BY <1>1, TopBit DEF ValInt
<1>3. r \in Nat /\ (2 * r + 1) \div 2 = r
  BY <1>1
<1>4. IntVal(ValInt(x)) = r + IF r < Quarter THEN 0 ELSE 2 * Quarter
  BY <1>1, <1>2, <1>3 DEF IntVal
<1>5. Contacted(x) = IF x < Quarter \/ x >= 3 * Quarter THEN x
                     ELSE IF x < 2 * Quarter THEN x + 2 * Quarter ELSE x - 2 * Quarter
  <2> DEFINE m == 4 * Quarter
             y == x + 2 * Quarter
  <2>1. m \in Nat /\ m > 0 /\ y \in Nat
    BY <1>1
  <2>2. \A n, k \in Nat : k > 0 /\ n < k + k => n % k = IF n < k THEN n ELSE n - k
    OBVIOUS
  <2>3. y < m + m
    BY <1>1
  <2>4. y % m = IF y < m THEN y ELSE y - m
    BY <2>1, <2>2, <2>3
  <2> QED  BY <1>1, <2>4 DEF Contacted, TopBitsAgree
<1> QED  BY <1>1, <1>2, <1>3, <1>4, <1>5

LEMMA LookupNextTarget ==
    ASSUME LookupIInv, ContactsHostOrTwin, OneCaller, [LookupNext]_lookupVars
    PROVE  ContactsHostOrTwin'
<1>0. LookupType /\ OwnAnswer
  BY DEF LookupIInv
<1>a. \A c, d \in Callers : d = c
  BY DEF OneCaller
<1>1. ASSUME NEW c \in Callers,
             \/ \E n \in Names : DnsResolve(c, n)
             \/ \E a \in Addresses \cup {0} : DnsCallback(c, a) \/ ResolveLiteral(c, a)
             \/ DnsReturn(c)
      PROVE  ContactsHostOrTwin'
  <2>1. looking'[c] # "used"
    BY <1>1, ResolveKeeps
  <2> QED  BY <2>1, <1>a DEF ContactsHostOrTwin
<1>2. ASSUME NEW c \in Callers, UseAddress(c) PROVE ContactsHostOrTwin'
  <2>1. ip[c] = ValInt(meant[c]) /\ meant[c] \in Words
    <3>1. 0 \in Words
      BY LookupAssumption DEF Words
    <3> QED  BY <1>0, <1>2, <3>1, LookupAssumption DEF UseAddress, LookupType, OwnAnswer
  <2>2. target'[c] = Contacted(meant[c]) /\ meant' = meant
    BY <1>0, <1>2, <2>1, Unboxed DEF UseAddress, LookupType
  <2> QED  BY <2>2, <1>a DEF ContactsHostOrTwin, Contacted
<1>3. ASSUME NEW c \in Callers, LookupOver(c) PROVE ContactsHostOrTwin'
  BY <1>0, <1>3, <1>a DEF LookupOver, LookupType, ContactsHostOrTwin
<1>4. CASE (\E n \in Names : Expire(n)) \/ UNCHANGED lookupVars
  BY <1>4, ExpireKeeps DEF ContactsHostOrTwin
<1> QED  BY <1>1, <1>2, <1>3, <1>4 DEF LookupNext, LookupStep, Answer

(* With one such core, and whatever addresses the hosts have, a call       *)
(* contacts the host it looked up exactly if the address passes through an *)
(* OCaml integer; otherwise it contacts the address 128 away in its last   *)
(* octet.                                                                  *)
THEOREM ContactsHostOrTwinHolds ==
    ASSUME OneCaller
    PROVE  LookupSpec => []ContactsHostOrTwin
<1>1. LookupIInv /\ ContactsHostOrTwin /\ [LookupNext]_lookupVars
        => LookupIInv' /\ ContactsHostOrTwin'
  BY LookupNextKeeps, LookupNextTarget
<1> QED  BY <1>1, LookupInitInv, PTL DEF LookupSpec

(* What Lookup promises on its own, it promises beside the other services. *)
THEOREM ServicesContactHostOrTwin ==
    ASSUME OneCaller
    PROVE  Spec => []OwnAnswer /\ []ContactsHostOrTwin
BY OwnAnswerHolds, ContactsHostOrTwinHolds, ImplementsLookup, PTL

=============================================================================
