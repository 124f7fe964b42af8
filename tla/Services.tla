------------------------------- MODULE Services -------------------------------
(***************************************************************************)
(* The C services that the two domains call at the same time: memory       *)
(* (Heap), serial output (RawOutput), and, on the core that owns the       *)
(* network, lookups of host names (Lookup).  A core is in one call at a    *)
(* time; core 0 allocates while it boots, and neither core does anything   *)
(* else before that.                                                       *)
(***************************************************************************)
EXTENDS Heap, RawOutput, Lookup

vars == <<heapVars, rawVars, lookupVars>>

Init == HeapInit /\ RawInit /\ LookupInit

AtRest(c) ==
    /\ At(c, "idle") /\ raw[c] = "idle"
    /\ c \in Callers => looking[c] = "idle"

InHeap(c) ==
    /\ HeapStep(c) \/ (AtRest(c) /\ (MmapFixed(c) \/ HeapCall(c)))
    /\ UNCHANGED <<rawVars, lookupVars>>

InRawOutput(c) ==
    /\ RawStep(c) \/ (AtRest(c) /\ boot = "up" /\ RawCall(c))
    /\ UNCHANGED <<heapVars, lookupVars>>

(* A core that has begun a lookup goes on; one at rest may begin it.       *)
InLookup(c) ==
    /\ looking[c] = "idle" => AtRest(c) /\ boot = "up"
    /\ LookupStep(c)
    /\ UNCHANGED <<heapVars, rawVars>>

(* main sets up the mutexes; lwIP's side of the lookups.                   *)
Boots == Booting /\ UNCHANGED <<rawVars, lookupVars>>

Resolves ==
    /\ (\E c \in Callers : Answer(c)) \/ (\E n \in Names : Expire(n))
    /\ UNCHANGED <<heapVars, rawVars>>

Next ==
    \/ \E c \in Cores : InHeap(c)
    \/ \E c \in Writers : InRawOutput(c)
    \/ \E c \in Callers : InLookup(c)
    \/ Boots \/ Resolves

Spec == Init /\ [][Next]_vars

FairSpec == Spec /\ LookupFairness

=============================================================================
