-------------------------------- MODULE Heap --------------------------------
(***************************************************************************)
(* The heap both cores take memory from: _sbrk moves one pointer under a   *)
(* mutex that exists only after boot, mmap calls it directly, malloc calls *)
(* it under the lock __malloc_lock takes, posix_memalign aligns what       *)
(* malloc returns.  Every access to a shared word is a step.               *)
(*                                                                         *)
(* newlib's malloc is external: it cuts blocks from one free chunk and     *)
(* calls sbrk for another when the chunk is too small.  It never gives     *)
(* memory back to sbrk.                                                    *)
(***************************************************************************)
EXTENDS Integers

CONSTANTS
    Cores, Core0,   \* Core0 boots; the others run from then on
    HeapSize,       \* __HeapLimit - __end__
    Sizes,          \* bound of the model: sizes asked for
    Page,           \* what malloc asks sbrk for
    Pointer,        \* sizeof(void *)
    Round,          \* the multiple mmap rounds up to: 8 bytes
    NoCore

ASSUME HeapAssumption ==
    /\ Core0 \in Cores /\ NoCore \notin Cores
    /\ HeapSize \in Nat /\ Sizes \subseteq Nat \ {0}
    /\ Page \in Nat \ {0} /\ Pointer \in Nat \ {0} /\ Round \in Nat \ {0}

VARIABLES
    boot,           \* how far main is
    heap_ptr,       \* as an offset from __end__
    sbrk_ready, sbrk_owner,       \* sbrk_mutex_initialized, who holds sbrk_mutex
    malloc_ready, malloc_owner,   \* likewise malloc_mutex
    chunk,          \* newlib's free chunk
    heap,           \* per core: where it is, the call, and its locals
    used, twice     \* history: the memory callers were given, and that given again

given == <<used, twice>>

heapVars == <<boot, heap_ptr, sbrk_ready, sbrk_owner, malloc_ready, malloc_owner,
              chunk, heap, given>>

Resting == [at |-> "idle", for |-> "none", size |-> 0, align |-> 0, incr |-> 0, prev |-> 0]

HeapInit ==
    /\ boot = "reset"
    /\ heap_ptr = 0
    /\ sbrk_ready = FALSE /\ sbrk_owner = NoCore
    /\ malloc_ready = FALSE /\ malloc_owner = NoCore
    /\ chunk = [lo |-> 0, hi |-> 0]
    /\ heap = [c \in Cores |-> Resting]
    /\ used = {} /\ twice = {}

At(c, place) == heap[c].at = place

Goto(c, place) == heap' = [heap EXCEPT ![c].at = place]

locks == <<sbrk_ready, sbrk_owner, malloc_ready, malloc_owner>>

-----------------------------------------------------------------------------
(* Boot: main, before OCaml starts and so before core 1 does               *)

(* Faulty variant: the mutex is set up but not declared so. *)
SbrkReadyKept == sbrk_ready

SbrkReadyNow == TRUE

(* Faulty variant: main does not call init_malloc_mutex. *)
InitMallocMutexNot ==
    /\ boot = "reset" /\ At(Core0, "idle")
    /\ boot' = "malloc"
    /\ UNCHANGED <<heap_ptr, locks, chunk, heap, given>>

InitMallocMutex ==
    /\ boot = "reset" /\ At(Core0, "idle")
    /\ boot' = "malloc"
    /\ malloc_owner' = IF malloc_ready THEN malloc_owner ELSE NoCore
    /\ malloc_ready' = TRUE
    /\ UNCHANGED <<heap_ptr, sbrk_ready, sbrk_owner, chunk, heap, given>>

InitSbrkMutex ==
    /\ boot = "malloc" /\ At(Core0, "idle")
    /\ boot' = "up"
    /\ sbrk_owner' = NoCore
    /\ sbrk_ready' = SbrkReadyNow
    /\ UNCHANGED <<heap_ptr, malloc_ready, malloc_owner, chunk, heap, given>>

(* Core 0 allocates from the first instruction on (stdio), core 1 later.   *)
Running(c) == c = Core0 \/ boot = "up"

-----------------------------------------------------------------------------
(* _sbrk                                                                   *)

SbrkEnter(c) ==
    /\ At(c, "sbrk")
    /\ sbrk_ready => sbrk_owner = NoCore
    /\ sbrk_owner' = IF sbrk_ready THEN c ELSE sbrk_owner
    /\ Goto(c, "read")
    /\ UNCHANGED <<boot, heap_ptr, sbrk_ready, malloc_ready, malloc_owner, chunk, given>>

SbrkRead(c) ==
    /\ At(c, "read")
    /\ heap' = [heap EXCEPT ![c].prev = heap_ptr,
                            ![c].at = IF heap_ptr + heap[c].incr > HeapSize
                                        THEN "oom" ELSE "store"]
    /\ UNCHANGED <<boot, heap_ptr, locks, chunk, given>>

SbrkStore(c) ==
    /\ At(c, "store")
    /\ heap_ptr' = heap[c].prev + heap[c].incr
    /\ Goto(c, "exit")
    /\ UNCHANGED <<boot, locks, chunk, given>>

(* Faulty variant: the lock is kept when there is no memory. *)
ReleasedWhenStored(c) ==
    IF sbrk_ready /\ At(c, "exit") THEN NoCore ELSE sbrk_owner

Released(c) == IF sbrk_ready THEN NoCore ELSE sbrk_owner

(* mutex_exit on either path; the emergency output of "oom" takes no lock. *)
SbrkExit(c) ==
    /\ At(c, "exit") \/ At(c, "oom")
    /\ sbrk_owner' = Released(c)
    /\ Goto(c, IF At(c, "exit") THEN "got" ELSE "failed")
    /\ UNCHANGED <<boot, heap_ptr, sbrk_ready, malloc_ready, malloc_owner, chunk, given>>

-----------------------------------------------------------------------------
(* mmap                                                                    *)

(* The least multiple of m from n on *)
RoundUp(n, m) == ((n + m - 1) \div m) * m

Give(lo, hi) ==
    /\ used' = used \cup (lo .. hi - 1)
    /\ twice' = twice \cup (used \cap (lo .. hi - 1))

(* MAP_FIXED, at an address the caller has: it gets that address back.     *)
MmapFixed(c) == At(c, "idle") /\ Running(c) /\ UNCHANGED heapVars

Mmap(c, n) ==
    /\ At(c, "idle") /\ Running(c)
    /\ heap' = [heap EXCEPT ![c] = [Resting EXCEPT !.at = "sbrk", !.for = "mmap",
                                        !.size = n, !.incr = RoundUp(n, Round)]]
    /\ UNCHANGED <<boot, heap_ptr, locks, chunk, given>>

MmapReturn(c) ==
    /\ heap[c].for = "mmap"
    /\ \/ At(c, "got") /\ Give(heap[c].prev, heap[c].prev + heap[c].size)
       \/ At(c, "failed") /\ UNCHANGED given
    /\ heap' = [heap EXCEPT ![c] = Resting]
    /\ UNCHANGED <<boot, heap_ptr, locks, chunk>>

-----------------------------------------------------------------------------
(* malloc and posix_memalign                                               *)

(* What posix_memalign asks malloc for, and the block it returns with the  *)
(* pointer it keeps in front of it; align is 0 for malloc itself.          *)
Asked(n, align) == IF align = 0 THEN n ELSE n + align + Pointer

(* Faulty variant: the alignment starts at the block, not after the pointer. *)
AlignedAtBlock(lo, align) == IF align = 0 THEN lo ELSE RoundUp(lo, align)

Aligned(lo, align) == IF align = 0 THEN lo ELSE RoundUp(lo + Pointer, align)

Malloc(c, n, align) ==
    /\ At(c, "idle") /\ Running(c)
    /\ align > 0 => align >= Pointer
    /\ heap' = [heap EXCEPT ![c] = [Resting EXCEPT !.at = "lock", !.for = "malloc",
                                        !.size = n, !.align = align]]
    /\ UNCHANGED <<boot, heap_ptr, locks, chunk, given>>

(* __malloc_lock: the lazy initialisation that boot makes superfluous.     *)
MallocCheck(c) ==
    /\ At(c, "lock")
    /\ Goto(c, IF malloc_ready THEN "enter" ELSE "init")
    /\ UNCHANGED <<boot, heap_ptr, locks, chunk, given>>

MallocLazyInit(c) ==
    /\ At(c, "init")
    /\ malloc_owner' = NoCore
    /\ Goto(c, "flag")
    /\ UNCHANGED <<boot, heap_ptr, sbrk_ready, sbrk_owner, malloc_ready, chunk, given>>

MallocSetFlag(c) ==
    /\ At(c, "flag")
    /\ malloc_ready' = TRUE
    /\ Goto(c, "enter")
    /\ UNCHANGED <<boot, heap_ptr, sbrk_ready, sbrk_owner, malloc_owner, chunk, given>>

MallocEnter(c) ==
    /\ At(c, "enter") /\ malloc_owner = NoCore
    /\ malloc_owner' = c
    /\ Goto(c, "fit")
    /\ UNCHANGED <<boot, heap_ptr, sbrk_ready, sbrk_owner, malloc_ready, chunk, given>>

(* External: newlib looks whether its chunk is large enough.               *)
MallocFit(c) ==
    /\ At(c, "fit")
    /\ LET asked == Asked(heap[c].size, heap[c].align) IN
         heap' = [heap EXCEPT ![c] =
            IF chunk.hi - chunk.lo >= asked
              THEN [@ EXCEPT !.at = "cut", !.prev = chunk.lo]
              ELSE [@ EXCEPT !.at = "sbrk", !.incr = RoundUp(asked, Page)]]
    /\ UNCHANGED <<boot, heap_ptr, locks, chunk, given>>

(* External: the block is cut from the chunk, or from a new one.           *)
MallocCut(c) ==
    /\ heap[c].for = "malloc"
    /\ LET size == heap[c].size
           lo == heap[c].prev
           rest == lo + Asked(size, heap[c].align)
           p == Aligned(lo, heap[c].align)
       IN  \/ /\ At(c, "cut")
              /\ chunk' = [chunk EXCEPT !.lo = rest]
              /\ Give(IF heap[c].align = 0 THEN p ELSE p - Pointer, p + size)
           \/ /\ At(c, "got")
              /\ chunk' = [lo |-> rest, hi |-> lo + heap[c].incr]
              /\ Give(IF heap[c].align = 0 THEN p ELSE p - Pointer, p + size)
           \/ /\ At(c, "failed")
              /\ UNCHANGED <<chunk, given>>
    /\ Goto(c, "unlock")
    /\ UNCHANGED <<boot, heap_ptr, locks>>

MallocUnlock(c) ==
    /\ At(c, "unlock")
    /\ malloc_owner' = IF malloc_ready THEN NoCore ELSE malloc_owner
    /\ heap' = [heap EXCEPT ![c] = Resting]
    /\ UNCHANGED <<boot, heap_ptr, sbrk_ready, sbrk_owner, malloc_ready, chunk, given>>

-----------------------------------------------------------------------------
HeapCall(c) ==
    \E n \in Sizes : Mmap(c, n) \/ \E align \in {0, 2 * Pointer} : Malloc(c, n, align)

(* What a core does once it is in a call *)
HeapStep(c) ==
    \/ SbrkEnter(c) \/ SbrkRead(c) \/ SbrkStore(c) \/ SbrkExit(c)
    \/ MmapReturn(c)
    \/ MallocCheck(c) \/ MallocLazyInit(c) \/ MallocSetFlag(c) \/ MallocEnter(c)
    \/ MallocFit(c) \/ MallocCut(c) \/ MallocUnlock(c)

Booting == InitMallocMutex \/ InitSbrkMutex

HeapNext == Booting \/ \E c \in Cores : MmapFixed(c) \/ HeapCall(c) \/ HeapStep(c)

HeapSpec == HeapInit /\ [][HeapNext]_heapVars

-----------------------------------------------------------------------------
(* Properties                                                              *)

(* No two blocks overlap, whoever asked for them and in whatever way, none *)
(* reaches past __HeapLimit into the stacks, and none lies in what malloc  *)
(* holds free.                                                             *)
BlocksDisjoint ==
    /\ twice = {}
    /\ used \subseteq 0 .. HeapSize - 1
    /\ used \cap (chunk.lo .. chunk.hi - 1) = {}

(* A core that is in no call holds neither lock: each way out of _sbrk and *)
(* malloc, the one without memory too, gives back what was taken on the    *)
(* way in, or else the other core waits for it for ever.                   *)
LocksGivenBack ==
    \A c \in Cores : At(c, "idle") => c \notin {sbrk_owner, malloc_owner}

=============================================================================
