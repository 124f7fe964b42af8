--------------------------- MODULE PioScheduler_proofs ---------------------------
(***************************************************************************)
(* Proofs about PioScheduler, for any number of fibers, any timeout and    *)
(* any number of effects.  A suspended fiber is in exactly one place: the  *)
(* run queue, the waiters for a socket or those of one promise.  What a    *)
(* step does to the lists is reduced first to what it does to the sets of  *)
(* their elements, and the invariant is about these sets.                  *)
(***************************************************************************)
EXTENDS PioScheduler, FiniteSetTheorems, TLAPS

Elements(s) == {s[i] : i \in DOMAIN s}

FibersOf(s) == {s[i].fiber : i \in DOMAIN s}

(* No fiber is in the list twice. *)
OneEach(s) == \A i, j \in DOMAIN s : s[i].fiber = s[j].fiber => i = j

Distinct(s) == \A i, j \in DOMAIN s : s[i] = s[j] => i = j

Queued == FibersOf(run_queue)

Watching == FibersOf(io_waiters)

Waiting(p) == Elements(promise[p].waiters)

Suspended == {f \in Fibers : status[f] \in {"forked", "blocked"}}

TaskRecord == [type : TaskTypes, fiber : Fibers, on : Fibers \cup {NoFiber}, ok : BOOLEAN]

WaiterRecord == [fiber : Fibers, operation : {"Connect", "Read"}, timeout_count : 0 .. MaxTimeout]

PromiseRecord == [state : {"none", "Pending", "Resolved", "Failed"}, waiters : Seq(Fibers)]

SocketRecord == [state : {"none", "CONNECTING", "CONNECTED", "CLOSED", "ERROR"},
                 data : 0 .. MaxData]

(* A fiber is in one list at most, and there once. *)
ListsInv ==
    /\ OneEach(run_queue) /\ OneEach(io_waiters)
    /\ \A p \in Fibers : Distinct(promise[p].waiters)
    /\ Queued \cap Watching = {}
    /\ \A p \in Fibers : Waiting(p) \cap Queued = {} /\ Waiting(p) \cap Watching = {}
    /\ \A p, r \in Fibers : p # r => Waiting(p) \cap Waiting(r) = {}

(* Those in a list are the suspended fibers, but for the dropped ones. *)
PlacesInv ==
    /\ Queued \subseteq Suspended /\ Watching \subseteq Suspended
    /\ \A p \in Fibers : Waiting(p) \subseteq Suspended
    /\ \A f \in Suspended \ dropped :
          f \in Queued \/ f \in Watching \/ \E p \in Fibers : f \in Waiting(p)

(* The fiber that runs is the current one. *)
ControlInv ==
    /\ pc = "fiber" => current \in Fibers /\ status[current] = "running"
    /\ \A f \in Fibers : status[f] = "running" => pc = "fiber" /\ current = f

(* A fiber has a promise unless it is a plain one, from its fork on. *)
PromiseInv ==
    /\ kind[Main] = "unit" /\ status[Main] # "unborn"
    /\ \A f \in Fibers :
          /\ status[f] = "unborn" => kind[f] = "unit"
          /\ kind[f] = "unit" <=> promise[f].state = "none"
          /\ promise[f].state # "Pending" => promise[f].waiters = <<>>
          /\ kind[f] # "unit" =>
                (status[f] \in {"done", "raised"} <=> promise[f].state # "Pending")

WakersInv ==
    \A t \in Elements(run_queue) : t.type = "awaited" =>
        t.on \in Fibers /\ promise[t.on].state \in {"Resolved", "Failed"}

SocketsInv == \A f \in Watching : sock[f].state # "none"

CountInv == IsFiniteSet(Counted) /\ fibers <= Cardinality(Counted)

(* A child that waits for a socket has left its scheduler nested. *)
DepthInv ==
    /\ \A f \in Watching : f # Main => depth > 0
    /\ pc = "returned" => run_queue = <<>> /\ depth = 0

IInv ==
    /\ TypeOK /\ ListsInv /\ PlacesInv /\ ControlInv /\ PromiseInv
    /\ WakersInv /\ SocketsInv /\ CountInv /\ DepthInv

-----------------------------------------------------------------------------
(* Lists                                                                   *)

(* The rank of a place in a set of places numbers the set. *)
LEMMA Ranks ==
    ASSUME NEW n \in Nat, NEW I \in SUBSET (1 .. n)
    PROVE  LET rank(i) == Cardinality({j \in I : j <= i}) IN
           /\ Cardinality(I) \in Nat
           /\ \A i \in I : rank(i) \in 1 .. Cardinality(I)
           /\ \A i, j \in I : rank(i) = rank(j) => i = j
           /\ \A k \in 1 .. Cardinality(I) : \E i \in I : rank(i) = k
<1> DEFINE below(i) == {j \in I : j <= i}
           rank(i) == Cardinality(below(i))
           f == [i \in I |-> rank(i)]
<1>1. IsFiniteSet(I) /\ Cardinality(I) \in Nat
  <2>1. IsFiniteSet(1 .. n)
    BY FS_Interval
  <2>2. IsFiniteSet(I)
    BY <2>1, FS_Subset
  <2> QED  BY <2>2, FS_CardinalityType
<1>2. \A i : IsFiniteSet(below(i)) /\ rank(i) \in Nat /\ rank(i) <= Cardinality(I)
  <2> TAKE i
  <2>1. below(i) \in SUBSET I
    OBVIOUS
  <2> QED  BY <2>1, <1>1, FS_Subset, FS_CardinalityType
<1>3. \A i \in I : rank(i) # 0
  <2> TAKE i \in I
  <2>1. i \in below(i)
    OBVIOUS
  <2> QED  BY <2>1, <1>2, FS_EmptySet
<1>4. \A i, j \in I : i < j => rank(i) < rank(j)
  <2> TAKE i, j \in I
  <2> HAVE i < j
  <2>1. i \in Int /\ j \in Int /\ \A l \in I : l \in Int
    OBVIOUS
  <2>2. below(i) \in SUBSET below(j) /\ j \in below(j) /\ j \notin below(i)
    <3>1. \A l \in I : l <= i => l <= j
      BY <2>1
    <3>2. j <= j /\ ~(j <= i)
      BY <2>1
    <3> QED  BY <3>1, <3>2, Zenon
  <2>3. rank(i) <= rank(j) /\ rank(j) # rank(i)
    BY <2>2, <1>2, FS_Subset
  <2> QED  BY <2>3, <1>2
<1>5. \A i, j \in I : rank(i) = rank(j) => i = j
  <2> TAKE i, j \in I
  <2> HAVE rank(i) = rank(j)
  <2>1. ~(i < j) /\ ~(j < i)
    BY <1>2, <1>4
  <2> QED  BY <2>1
<1>6. \A i \in I : rank(i) \in 1 .. Cardinality(I)
  BY <1>1, <1>2, <1>3
<1>7. f \in Injection(I, 1 .. Cardinality(I))
  <2> HIDE DEF rank
  <2> QED  BY <1>5, <1>6 DEF Injection, IsInjective
<1>8. Cardinality(1 .. Cardinality(I)) = Cardinality(I) /\ IsFiniteSet(1 .. Cardinality(I))
  BY <1>1, FS_Interval
<1>9. f \in Surjection(I, 1 .. Cardinality(I))
  <2> HIDE DEF f
  <2> QED  BY <1>7, <1>8, FS_Injection
<1>10. \A k \in 1 .. Cardinality(I) : \E i \in I : rank(i) = k
  <2> HIDE DEF rank
  <2> QED  BY <1>9 DEF Surjection
<1> QED  BY <1>1, <1>5, <1>6, <1>10

Takes(t, s, I, place) ==
    /\ \A k \in DOMAIN t : t[k] = s[place[k]]
    /\ \A k, l \in DOMAIN t : place[k] = place[l] => k = l
    /\ \A i \in I : \E k \in DOMAIN t : place[k] = i

(* What List.filter returns: a place of s for each place of the result. *)
LEMMA SelectedPlaces ==
    ASSUME NEW S, NEW s \in Seq(S), NEW I \in SUBSET DOMAIN s
    PROVE  /\ Selected(s, I) \in Seq(S)
           /\ \E place \in [DOMAIN Selected(s, I) -> I] : Takes(Selected(s, I), s, I, place)
<1> DEFINE rank(i) == Cardinality({j \in I : j <= i})
           N == 1 .. Cardinality(I)
           at(k) == CHOOSE i \in I : rank(i) = k
           place == [k \in N |-> at(k)]
           t == Selected(s, I)
<1>1. Len(s) \in Nat /\ DOMAIN s = 1 .. Len(s) /\ \A i \in I : s[i] \in S
  OBVIOUS
<1>2. /\ Cardinality(I) \in Nat
      /\ \A i \in I : rank(i) \in N
      /\ \A i, j \in I : rank(i) = rank(j) => i = j
      /\ \A k \in N : \E i \in I : rank(i) = k
  BY <1>1, Ranks
<1> HIDE DEF rank
<1>3. \A k \in N : at(k) \in I /\ rank(at(k)) = k
  BY <1>2
<1>4. \A i \in I : at(rank(i)) = i
  BY <1>2, <1>3
<1>5. t = [k \in N |-> s[at(k)]]
  BY DEF Selected, rank
<1> HIDE DEF at, t
<1>6. DOMAIN t = N /\ t \in Seq(S)
  <2>1. t \in [N -> S]
    BY <1>1, <1>3, <1>5
  <2> QED  BY <2>1, <1>2
<1>7. place \in [N -> I] /\ \A k \in N : place[k] = at(k)
  BY <1>3
<1> HIDE DEF place
<1>8. \A k \in N : t[k] = s[place[k]]
  BY <1>5, <1>7
<1>9. \A k, l \in N : place[k] = place[l] => k = l
  BY <1>3, <1>7
<1>10. \A i \in I : \E k \in N : place[k] = i
  BY <1>2, <1>4, <1>7
<1>11. Takes(t, s, I, place) /\ place \in [DOMAIN t -> I]
  BY <1>6, <1>7, <1>8, <1>9, <1>10 DEF Takes
<1>12. \E p \in [DOMAIN t -> I] : Takes(t, s, I, p)
  BY <1>11
<1> QED  BY <1>6, <1>12 DEF t

(* The filtered list holds the fibers at the places, and no fiber more     *)
(* often than before.                                                      *)
LEMMA SelectedLists ==
    ASSUME NEW S, NEW s \in Seq(S), NEW I \in SUBSET DOMAIN s
    PROVE  /\ Selected(s, I) \in Seq(S)
           /\ Elements(Selected(s, I)) = {s[i] : i \in I}
           /\ FibersOf(Selected(s, I)) = {s[i].fiber : i \in I}
           /\ OneEach(s) => OneEach(Selected(s, I))
<1> DEFINE t == Selected(s, I)
<1> HIDE DEF t
<1>1. t \in Seq(S)
  BY SelectedPlaces DEF t
<1>a. \E place \in [DOMAIN t -> I] : Takes(t, s, I, place)
  BY SelectedPlaces DEF t
<1>b. PICK place \in [DOMAIN t -> I] : Takes(t, s, I, place)
  BY <1>a
<1>2. /\ \A k \in DOMAIN t : place[k] \in I /\ t[k] = s[place[k]]
      /\ \A k, l \in DOMAIN t : place[k] = place[l] => k = l
      /\ \A i \in I : \E k \in DOMAIN t : place[k] = i
  BY <1>b DEF Takes
<1>3. Elements(t) = {s[i] : i \in I}
  BY <1>2 DEF Elements
<1>4. FibersOf(t) = {s[i].fiber : i \in I}
  BY <1>2 DEF FibersOf
<1>5. OneEach(s) => OneEach(t)
  BY <1>2 DEF OneEach
<1> QED  BY <1>1, <1>3, <1>4, <1>5 DEF t

LEMMA ReversedLists ==
    ASSUME NEW S, NEW s \in Seq(S)
    PROVE  /\ Reversed(s) \in Seq(S)
           /\ Elements(Reversed(s)) = Elements(s)
           /\ FibersOf(Reversed(s)) = FibersOf(s)
           /\ OneEach(s) => OneEach(Reversed(s))
<1> DEFINE t == Reversed(s)
<1>1. Len(s) \in Nat /\ DOMAIN s = 1 .. Len(s) /\ \A i \in 1 .. Len(s) : s[i] \in S
  OBVIOUS
<1>2. DOMAIN t = 1 .. Len(s) /\ \A i \in 1 .. Len(s) : t[i] = s[Len(s) + 1 - i]
  BY DEF Reversed
<1>3. \A i \in 1 .. Len(s) : /\ Len(s) + 1 - i \in 1 .. Len(s)
                             /\ Len(s) + 1 - (Len(s) + 1 - i) = i
  BY <1>1
<1>4. t \in Seq(S)
  <2>1. t \in [1 .. Len(s) -> S]
    BY <1>1, <1>3 DEF Reversed
  <2> QED  BY <2>1, <1>1
<1> HIDE DEF t
<1>5. \A i \in 1 .. Len(s) : t[Len(s) + 1 - i] = s[i]
  BY <1>2, <1>3
<1>6. Elements(t) = Elements(s)
  BY <1>1, <1>2, <1>3, <1>5 DEF Elements
<1>7. FibersOf(t) = FibersOf(s)
  BY <1>1, <1>2, <1>3, <1>5 DEF FibersOf
<1>8. ASSUME OneEach(s) PROVE OneEach(t)
  <2> SUFFICES ASSUME NEW i \in 1 .. Len(s), NEW j \in 1 .. Len(s), t[i].fiber = t[j].fiber
               PROVE  i = j
    BY <1>2 DEF OneEach
  <2>1. Len(s) + 1 - i = Len(s) + 1 - j
    BY <1>1, <1>2, <1>3, <1>8 DEF OneEach
  <2> QED  BY <2>1, <1>1
<1> QED  BY <1>4, <1>6, <1>7, <1>8 DEF t

(* Two lists with the same fibers place by place. *)
LEMMA SameFibers ==
    ASSUME NEW s, NEW t, DOMAIN t = DOMAIN s,
           \A i \in DOMAIN s : t[i].fiber = s[i].fiber
    PROVE  FibersOf(t) = FibersOf(s) /\ (OneEach(s) => OneEach(t))
BY DEF FibersOf, OneEach

LEMMA AppendLists ==
    ASSUME NEW S, NEW s \in Seq(S), NEW e \in S
    PROVE  /\ Append(s, e) \in Seq(S)
           /\ Elements(Append(s, e)) = Elements(s) \cup {e}
           /\ FibersOf(Append(s, e)) = FibersOf(s) \cup {e.fiber}
           /\ OneEach(s) /\ e.fiber \notin FibersOf(s) => OneEach(Append(s, e))
<1> DEFINE t == Append(s, e)
<1>1. Len(s) \in Nat /\ DOMAIN s = 1 .. Len(s)
  OBVIOUS
<1>2. /\ t \in Seq(S) /\ DOMAIN t = 1 .. Len(s) + 1
      /\ t[Len(s) + 1] = e
      /\ \A i \in 1 .. Len(s) : t[i] = s[i]
  OBVIOUS
<1>3. 1 .. Len(s) + 1 = (1 .. Len(s)) \cup {Len(s) + 1}
  BY <1>1
<1> HIDE DEF t
<1>4. Elements(t) = Elements(s) \cup {e}
  BY <1>1, <1>2, <1>3 DEF Elements
<1>5. FibersOf(t) = FibersOf(s) \cup {e.fiber}
  BY <1>1, <1>2, <1>3 DEF FibersOf
<1>6. OneEach(s) /\ e.fiber \notin FibersOf(s) => OneEach(t)
  BY <1>1, <1>2, <1>3 DEF FibersOf, OneEach
<1> QED  BY <1>2, <1>4, <1>5, <1>6 DEF t

LEMMA TailLists ==
    ASSUME NEW S, NEW s \in Seq(S), s # <<>>
    PROVE  /\ Tail(s) \in Seq(S) /\ Head(s) \in S
           /\ Elements(Tail(s)) \subseteq Elements(s) /\ Head(s) \in Elements(s)
           /\ Head(s).fiber \in FibersOf(s)
           /\ FibersOf(s) = FibersOf(Tail(s)) \cup {Head(s).fiber}
           /\ OneEach(s) => OneEach(Tail(s)) /\ Head(s).fiber \notin FibersOf(Tail(s))
<1> DEFINE t == Tail(s)
<1>1. Len(s) \in Nat \ {0} /\ DOMAIN s = 1 .. Len(s)
  OBVIOUS
<1>2. /\ t \in Seq(S) /\ DOMAIN t = 1 .. Len(s) - 1
      /\ Head(s) = s[1] /\ Head(s) \in S
      /\ \A i \in 1 .. Len(s) - 1 : t[i] = s[i + 1]
  OBVIOUS
<1> HIDE DEF t
<1>3. /\ 1 \in 1 .. Len(s)
      /\ \A i \in 1 .. Len(s) - 1 : i + 1 \in 1 .. Len(s) /\ i + 1 # 1
      /\ \A j \in 1 .. Len(s) : j # 1 => \E i \in 1 .. Len(s) - 1 : j = i + 1
  <2>1. \A j \in 1 .. Len(s) : j # 1 => j - 1 \in 1 .. Len(s) - 1 /\ j = (j - 1) + 1
    BY <1>1
  <2> QED  BY <1>1, <2>1
<1>4. Elements(t) \subseteq Elements(s) /\ Head(s) \in Elements(s)
  BY <1>1, <1>2, <1>3 DEF Elements
<1>5. Head(s).fiber \in FibersOf(s)
  BY <1>1, <1>2, <1>3 DEF FibersOf
<1>6. FibersOf(s) = FibersOf(t) \cup {Head(s).fiber}
  <2>1. FibersOf(t) \cup {Head(s).fiber} \subseteq FibersOf(s)
    BY <1>1, <1>2, <1>3 DEF FibersOf
  <2>2. ASSUME NEW j \in 1 .. Len(s)
        PROVE  s[j].fiber \in FibersOf(t) \cup {Head(s).fiber}
    <3>1. CASE j = 1
      BY <3>1, <1>2
    <3>2. CASE j # 1
      <4>1. PICK i \in 1 .. Len(s) - 1 : j = i + 1
        BY <1>3, <3>2
      <4>2. s[j] = t[i] /\ i \in DOMAIN t
        BY <4>1, <1>2
      <4> QED  BY <4>2 DEF FibersOf
    <3> QED  BY <3>1, <3>2
  <2> QED  BY <2>1, <2>2, <1>1 DEF FibersOf
<1>7. ASSUME OneEach(s) PROVE OneEach(t) /\ Head(s).fiber \notin FibersOf(t)
  <2>1. Head(s).fiber \notin FibersOf(t)
    <3>1. \A i \in DOMAIN t : t[i].fiber # Head(s).fiber
      <4> TAKE i \in DOMAIN t
      <4>1. i + 1 \in DOMAIN s /\ 1 \in DOMAIN s /\ i + 1 # 1 /\ t[i] = s[i + 1]
        BY <1>1, <1>2, <1>3
      <4>2. s[i + 1].fiber # s[1].fiber
        BY <1>7, <4>1 DEF OneEach
      <4> QED  BY <1>2, <4>1, <4>2
    <3> QED  BY <3>1 DEF FibersOf
  <2>2. ASSUME NEW i \in 1 .. Len(s) - 1, NEW j \in 1 .. Len(s) - 1, t[i].fiber = t[j].fiber
        PROVE  i = j
    <3>1. i + 1 \in DOMAIN s /\ j + 1 \in DOMAIN s /\ s[i + 1].fiber = s[j + 1].fiber
      BY <1>1, <1>2, <1>3, <2>2
    <3>2. i + 1 = j + 1
      BY <1>7, <3>1 DEF OneEach
    <3> QED  BY <3>2
  <2> QED  BY <2>1, <2>2, <1>2 DEF OneEach
<1> QED  BY <1>2, <1>4, <1>5, <1>6, <1>7 DEF t

LEMMA ConcatLists ==
    ASSUME NEW S, NEW s \in Seq(S), NEW u \in Seq(S)
    PROVE  /\ s \o u \in Seq(S)
           /\ Elements(s \o u) = Elements(s) \cup Elements(u)
           /\ FibersOf(s \o u) = FibersOf(s) \cup FibersOf(u)
           /\ OneEach(s) /\ OneEach(u) /\ FibersOf(s) \cap FibersOf(u) = {} => OneEach(s \o u)
           /\ Distinct(s) /\ Distinct(u) /\ Elements(s) \cap Elements(u) = {} => Distinct(s \o u)
<1> DEFINE t == s \o u
           P == 1 .. Len(s)
           R == {i + Len(s) : i \in 1 .. Len(u)}
<1>1. /\ Len(s) \in Nat /\ DOMAIN s = 1 .. Len(s)
      /\ Len(u) \in Nat /\ DOMAIN u = 1 .. Len(u)
  OBVIOUS
<1>2. /\ t \in Seq(S) /\ DOMAIN t = 1 .. Len(s) + Len(u)
      /\ \A i \in P : t[i] = s[i]
  OBVIOUS
<1>3. \A i \in 1 .. Len(u) : t[i + Len(s)] = u[i]
  OBVIOUS
<1>4. \A i \in DOMAIN t : i \in P \/ i \in R
  <2>1. ASSUME NEW i \in 1 .. Len(s) + Len(u), i \notin P PROVE i \in R
    <3>1. i - Len(s) \in 1 .. Len(u) /\ i = (i - Len(s)) + Len(s)
      BY <1>1, <2>1
    <3> QED  BY <3>1
  <2> QED  BY <1>2, <2>1
<1>5. P \subseteq DOMAIN t /\ R \subseteq DOMAIN t
  BY <1>1, <1>2
<1>6. \A i \in R : \E j \in DOMAIN u : i = j + Len(s) /\ t[i] = u[j]
  BY <1>1, <1>3
<1>7. \A j \in DOMAIN u : j + Len(s) \in R /\ t[j + Len(s)] = u[j]
  BY <1>1, <1>3
<1>8. P = DOMAIN s /\ \A i \in P : t[i] = s[i]
  BY <1>1, <1>2
<1> HIDE DEF t, P, R
<1>9. Elements(t) = Elements(s) \cup Elements(u)
  <2>1. Elements(t) \subseteq Elements(s) \cup Elements(u)
    BY <1>4, <1>6, <1>8 DEF Elements
  <2>2. Elements(s) \cup Elements(u) \subseteq Elements(t)
    BY <1>5, <1>7, <1>8 DEF Elements
  <2> QED  BY <2>1, <2>2
<1>10. FibersOf(t) = FibersOf(s) \cup FibersOf(u)
  <2>1. FibersOf(t) \subseteq FibersOf(s) \cup FibersOf(u)
    BY <1>4, <1>6, <1>8 DEF FibersOf
  <2>2. FibersOf(s) \cup FibersOf(u) \subseteq FibersOf(t)
    BY <1>5, <1>7, <1>8 DEF FibersOf
  <2> QED  BY <2>1, <2>2
<1>11. ASSUME OneEach(s), OneEach(u), FibersOf(s) \cap FibersOf(u) = {}
       PROVE  OneEach(t)
  <2>1. \A i, j \in P : t[i].fiber = t[j].fiber => i = j
    BY <1>8, <1>11 DEF OneEach
  <2>2. \A i, j \in R : t[i].fiber = t[j].fiber => i = j
    BY <1>6, <1>11 DEF OneEach
  <2>3. \A i \in P, j \in R : t[i].fiber # t[j].fiber
    <3>1. \A i \in P : t[i].fiber \in FibersOf(s)
      BY <1>8 DEF FibersOf
    <3>2. \A j \in R : t[j].fiber \in FibersOf(u)
      BY <1>6 DEF FibersOf
    <3> QED  BY <3>1, <3>2, <1>11
  <2> QED  BY <1>4, <2>1, <2>2, <2>3 DEF OneEach
<1>12. ASSUME Distinct(s), Distinct(u), Elements(s) \cap Elements(u) = {}
       PROVE  Distinct(t)
  <2>1. \A i, j \in P : t[i] = t[j] => i = j
    BY <1>8, <1>12 DEF Distinct
  <2>2. \A i, j \in R : t[i] = t[j] => i = j
    BY <1>6, <1>12 DEF Distinct
  <2>3. \A i \in P, j \in R : t[i] # t[j]
    <3>1. \A i \in P : t[i] \in Elements(s)
      BY <1>8 DEF Elements
    <3>2. \A j \in R : t[j] \in Elements(u)
      BY <1>6 DEF Elements
    <3> QED  BY <3>1, <3>2, <1>12
  <2> QED  BY <1>4, <2>1, <2>2, <2>3 DEF Distinct
<1> QED  BY <1>2, <1>9, <1>10, <1>11, <1>12 DEF t

LEMMA SingleLists ==
    ASSUME NEW S, NEW e \in S
    PROVE  /\ <<e>> \in Seq(S) /\ Elements(<<e>>) = {e} /\ FibersOf(<<e>>) = {e.fiber}
           /\ OneEach(<<e>>) /\ Distinct(<<e>>)
<1>1. <<e>> \in Seq(S) /\ DOMAIN <<e>> = {1} /\ <<e>>[1] = e
  OBVIOUS
<1> QED  BY <1>1 DEF Elements, FibersOf, OneEach, Distinct

LEMMA EmptyLists ==
    /\ Elements(<<>>) = {} /\ FibersOf(<<>>) = {} /\ OneEach(<<>>) /\ Distinct(<<>>)
BY DEF Elements, FibersOf, OneEach, Distinct

-----------------------------------------------------------------------------
(* Facts about the parts of a step                                         *)

LEMMA TypeFacts ==
    ASSUME TypeOK
    PROVE  /\ run_queue \in Seq(TaskRecord) /\ io_waiters \in Seq(WaiterRecord)
           /\ promise \in [Fibers -> PromiseRecord]
           /\ sock \in [Fibers -> SocketRecord]
           /\ Queued \subseteq Fibers /\ Watching \subseteq Fibers
           /\ \A p \in Fibers : Waiting(p) \subseteq Fibers /\ promise[p].waiters \in Seq(Fibers)
<1>1. /\ run_queue \in Seq(TaskRecord) /\ io_waiters \in Seq(WaiterRecord)
      /\ promise \in [Fibers -> PromiseRecord]
      /\ sock \in [Fibers -> SocketRecord]
  BY DEF TypeOK, TaskRecord, WaiterRecord, PromiseRecord, SocketRecord
<1>2. \A i \in DOMAIN run_queue : run_queue[i].fiber \in Fibers
  <2>1. \A i \in DOMAIN run_queue : run_queue[i] \in TaskRecord
    BY <1>1
  <2> QED  BY <2>1 DEF TaskRecord
<1>3. \A i \in DOMAIN io_waiters : io_waiters[i].fiber \in Fibers
  <2>1. \A i \in DOMAIN io_waiters : io_waiters[i] \in WaiterRecord
    BY <1>1
  <2> QED  BY <2>1 DEF WaiterRecord
<1>4. \A p \in Fibers : promise[p].waiters \in Seq(Fibers)
  BY <1>1 DEF PromiseRecord
<1>5. Queued \subseteq Fibers /\ Watching \subseteq Fibers
  BY <1>2, <1>3 DEF Queued, Watching, FibersOf
<1>6. \A p \in Fibers : Waiting(p) \subseteq Fibers
  BY <1>4 DEF Waiting, Elements
<1> QED  BY <1>1, <1>4, <1>5, <1>6

(* The tasks that the actions put into the run queue. *)
LEMMA TaskFacts ==
    ASSUME NEW f \in Fibers, NEW ok \in BOOLEAN
    PROVE  /\ Start(f) \in TaskRecord /\ Start(f).fiber = f /\ Start(f).type = "start"
           /\ Resume(f, ok) \in TaskRecord /\ Resume(f, ok).fiber = f
           /\ Resume(f, ok).type = "resume"
BY DEF Start, Resume, Task, TaskRecord, TaskTypes

LEMMA AwaitedFacts ==
    ASSUME NEW f \in Fibers, NEW p \in Fibers
    PROVE  /\ Awaited(f, p) \in TaskRecord /\ Awaited(f, p).fiber = f
           /\ Awaited(f, p).type = "awaited" /\ Awaited(f, p).on = p
BY DEF Awaited, Task, TaskRecord, TaskTypes

LEMMA WokenFacts ==
    ASSUME NEW w \in WaiterRecord, NEW net
    PROVE  /\ Woken(w, net) \in TaskRecord /\ Woken(w, net).fiber = w.fiber
           /\ Woken(w, net).type # "awaited"
<1> DEFINE type == CASE IsReady(w, net) /\ w.operation = "Connect" -> "connected"
                     [] IsReady(w, net) /\ w.operation = "Read"    -> "readable"
                     [] OTHER -> IF w.operation = "Connect" THEN "connect_timeout"
                                 ELSE "read_timeout"
<1>1. w.fiber \in Fibers /\ w.operation \in {"Connect", "Read"}
  BY DEF WaiterRecord
<1>2. type \in TaskTypes \ {"awaited"}
  <2>1. type = IF IsReady(w, net)
               THEN IF w.operation = "Connect" THEN "connected" ELSE "readable"
               ELSE IF w.operation = "Connect" THEN "connect_timeout" ELSE "read_timeout"
    <3> HIDE DEF IsReady
    <3> QED  BY <1>1
  <2> QED  BY <2>1 DEF TaskTypes
<1>3. Woken(w, net) = Task(type, w.fiber, NoFiber, TRUE)
  BY DEF Woken
<1> HIDE DEF type
<1> QED  BY <1>1, <1>2, <1>3 DEF Task, TaskRecord

(* What the network does leaves every open socket open. *)
LEMMA ServicedFacts ==
    ASSUME TypeOK, NEW net \in Serviced
    PROVE  /\ net \in [Fibers -> SocketRecord]
           /\ \A f \in Fibers : sock[f].state # "none" => net[f].state # "none"
<1>1. sock \in [Fibers -> SocketRecord] /\ MaxData \in Nat
  BY TypeFacts, SchedulerAssumption
<1>2. CASE net = sock
  BY <1>1, <1>2
<1>3. CASE \E f \in Fibers : \E s \in Evolved(sock[f]) : net = [sock EXCEPT ![f] = s]
  <2>0. PICK f \in Fibers : \E s \in Evolved(sock[f]) : net = [sock EXCEPT ![f] = s]
    BY <1>3
  <2>1. PICK s \in Evolved(sock[f]) : net = [sock EXCEPT ![f] = s]
    BY <2>0
  <2>2. sock[f] \in SocketRecord
    BY <1>1
  <2>3. s \in SocketRecord /\ s.state # "none"
    <3>1. PICK st \in {"CONNECTED", "CLOSED", "ERROR"}, n \in 0 .. MaxData :
            s = [sock[f] EXCEPT !.state = st] \/ s = [sock[f] EXCEPT !.data = n]
      <4>1. CASE sock[f].state = "CONNECTED"
        BY <1>1, <2>1, <4>1 DEF Evolved
      <4>2. CASE sock[f].state # "CONNECTED"
        BY <1>1, <2>1, <4>2 DEF Evolved
      <4> QED  BY <4>1, <4>2
    <3>2. sock[f].state # "none"
      BY <2>1 DEF Evolved
    <3> QED  BY <2>2, <3>1, <3>2 DEF SocketRecord
  <2> QED  BY <1>1, <2>1, <2>3
<1> QED  BY <1>2, <1>3 DEF Serviced

(* A fiber that runs is in no list. *)
LEMMA RunningFacts ==
    ASSUME IInv, NEW f \in Fibers, pc = "fiber", current = f
    PROVE  /\ status[f] = "running" /\ f \notin Suspended
           /\ f \notin Queued /\ f \notin Watching
           /\ \A p \in Fibers : f \notin Waiting(p)
BY DEF IInv, ControlInv, PlacesInv, Suspended

(* A step of a fiber that leaves it suspended. *)
LEMMA SuspendsFacts ==
    ASSUME IInv, NEW f \in Fibers, Runs(f), Suspends(f), kind' = kind
    PROVE  /\ status' \in [Fibers -> {"unborn", "forked", "running", "blocked", "done", "raised"}]
           /\ fibers' \in Int /\ depth' \in Nat
           /\ result' \in BOOLEAN /\ exn_ref' \in BOOLEAN /\ rewrapped' \in BOOLEAN
           /\ pc' = "check" /\ current' \in Fibers \cup {NoFiber}
           /\ Suspended' = Suspended \cup {f}
           /\ ControlInv' /\ CountInv'
           /\ status'[f] = "blocked" /\ status[f] = "running"
           /\ \A g \in Fibers : g # f => status'[g] = status[g]
           /\ depth' >= depth /\ (f # Main => depth' > 0)
<1>1. TypeOK /\ status[f] = "running" /\ pc = "fiber" /\ current = f
  BY RunningFacts DEF Runs, IInv
<1>2. /\ status' = [status EXCEPT ![f] = "blocked"] /\ pc' = "check" /\ current' = NoFiber
      /\ rewrapped' = FALSE /\ exn_ref' = exn_ref
  BY DEF Suspends, Leaves
<1>3. /\ status' \in [Fibers -> {"unborn", "forked", "running", "blocked", "done", "raised"}]
      /\ status'[f] = "blocked" /\ \A g \in Fibers : g # f => status'[g] = status[g]
  BY <1>1, <1>2 DEF TypeOK
<1>4. fibers' \in Int /\ fibers' <= fibers
  BY <1>1 DEF Suspends, Leaves, FiberDone, TypeOK
<1>5. depth' \in Nat /\ depth' >= depth /\ (f # Main => depth' > 0)
  BY <1>1 DEF Suspends, Leaves, TypeOK
<1>6. result' \in BOOLEAN
  BY <1>1, Zenon DEF Suspends, Leaves, TypeOK
<1>7. Suspended' = Suspended \cup {f}
  BY <1>3 DEF Suspended
<1>8. ControlInv'
  BY <1>1, <1>2, <1>3 DEF IInv, ControlInv
<1>9. Counted' = Counted
  BY <1>1, <1>3 DEF Counted
<1>10. CountInv'
  <2>1. CountInv /\ fibers \in Int
    BY <1>1 DEF IInv, TypeOK
  <2> HIDE DEF Counted
  <2>2. Cardinality(Counted) \in Nat
    BY <2>1, FS_CardinalityType DEF CountInv
  <2> QED  BY <1>4, <1>9, <2>1, <2>2 DEF CountInv
<1>11. exn_ref' \in BOOLEAN
  BY <1>1, <1>2 DEF TypeOK
<1> QED  BY <1>1, <1>2, <1>3, <1>4, <1>5, <1>6, <1>7, <1>8, <1>10, <1>11

(* A fiber is suspended and no promise is settled. *)
LEMMA SamePromises ==
    ASSUME PromiseInv, NEW f \in Fibers, kind' = kind,
           status[f] = "running", status'[f] = "blocked",
           \A g \in Fibers : g # f => status'[g] = status[g],
           \A p \in Fibers : /\ promise'[p].state = promise[p].state
                             /\ promise[p].state # "Pending" => promise'[p] = promise[p]
    PROVE  PromiseInv'
<1>1. kind'[Main] = "unit" /\ status'[Main] # "unborn"
  <2>1. Main \in Fibers
    BY DEF Fibers
  <2> QED  BY <2>1 DEF PromiseInv
<1>2. ASSUME NEW g \in Fibers
      PROVE  /\ status'[g] = "unborn" => kind'[g] = "unit"
             /\ kind'[g] = "unit" <=> promise'[g].state = "none"
             /\ promise'[g].state # "Pending" => promise'[g].waiters = <<>>
             /\ kind'[g] # "unit" =>
                   (status'[g] \in {"done", "raised"} <=> promise'[g].state # "Pending")
  <2>1. /\ status[g] = "unborn" => kind[g] = "unit"
        /\ kind[g] = "unit" <=> promise[g].state = "none"
        /\ promise[g].state # "Pending" => promise[g].waiters = <<>>
        /\ kind[g] # "unit" =>
              (status[g] \in {"done", "raised"} <=> promise[g].state # "Pending")
    BY DEF PromiseInv
  <2>2. /\ promise'[g].state = promise[g].state
        /\ promise[g].state # "Pending" => promise'[g].waiters = promise[g].waiters
    OBVIOUS
  <2>3. /\ status'[g] = "unborn" <=> status[g] = "unborn"
        /\ status'[g] \in {"done", "raised"} <=> status[g] \in {"done", "raised"}
    <3>1. CASE g = f
      BY <3>1
    <3>2. CASE g # f
      <4>1. status'[g] = status[g]
        BY <3>2
      <4> QED  BY <4>1, Zenon
    <3> QED  BY <3>1, <3>2
  <2> QED  BY <2>1, <2>2, <2>3
<1> QED  BY <1>1, <1>2 DEF PromiseInv

-----------------------------------------------------------------------------
(* One lemma for each action                                               *)

LEMMA InitIInv == Init => IInv
<1> SUFFICES ASSUME Init PROVE IInv
  OBVIOUS
<1>1. Start(Main) \in TaskRecord /\ Start(Main).fiber = Main /\ Start(Main).type = "start"
  BY TaskFacts DEF Fibers
<1>2. /\ run_queue \in Seq(TaskRecord) /\ Elements(run_queue) = {Start(Main)}
      /\ Queued = {Main} /\ OneEach(run_queue)
  BY <1>1, SingleLists DEF Init, Queued
<1>3. io_waiters = <<>> /\ Watching = {} /\ OneEach(io_waiters)
  BY EmptyLists DEF Init, Watching
<1>4. \A p \in Fibers : /\ promise[p] = [state |-> "none", waiters |-> <<>>]
                        /\ Waiting(p) = {} /\ Distinct(promise[p].waiters)
  BY EmptyLists DEF Init, Waiting
<1>5. Suspended = {Main}
  BY DEF Init, Suspended, Fibers
<1>6. TypeOK
  <2>1. Main \in Fibers
    BY DEF Fibers
  <2>2. promise \in [Fibers -> PromiseRecord]
    BY DEF Init, PromiseRecord
  <2>3. sock \in [Fibers -> SocketRecord]
    BY SchedulerAssumption DEF Init, Closed, SocketRecord
  <2>4. /\ status \in [Fibers -> {"unborn", "forked", "running", "blocked", "done", "raised"}]
        /\ kind \in [Fibers -> {"unit", "promise", "bare"}]
        /\ owed \in [Fibers -> Seq(Fibers)] /\ left \in [Fibers -> 0 .. MaxEffects]
    BY SchedulerAssumption DEF Init
  <2>5. fibers = 1 /\ depth = 0 /\ dropped = {} /\ pc = "check" /\ current = NoFiber
    BY DEF Init
  <2>7. result = FALSE /\ exn_ref = FALSE /\ rewrapped = FALSE
    BY DEF Init
  <2>6. io_waiters \in Seq(WaiterRecord)
    BY <1>3
  <2>8. result \in BOOLEAN /\ exn_ref \in BOOLEAN /\ rewrapped \in BOOLEAN
    BY <2>7
  <2>9. fibers \in Int /\ depth \in Nat /\ dropped \subseteq Fibers
    BY <2>5
  <2> QED  BY <1>2, <2>2, <2>3, <2>4, <2>5, <2>6, <2>8, <2>9
           DEF TypeOK, TaskRecord, WaiterRecord, PromiseRecord, SocketRecord
<1>7. ListsInv
  BY <1>2, <1>3, <1>4 DEF ListsInv
<1>8. PlacesInv
  BY <1>2, <1>3, <1>4, <1>5 DEF PlacesInv
<1>9. ControlInv
  BY DEF Init, ControlInv
<1>10. PromiseInv
  BY <1>4 DEF Init, PromiseInv, Fibers
<1>11. WakersInv
  BY <1>1, <1>2 DEF WakersInv
<1>12. SocketsInv /\ DepthInv
  BY <1>3 DEF Init, SocketsInv, DepthInv
<1>13. CountInv
  <2>1. Counted = {Main}
    BY DEF Init, Counted, Fibers
  <2>2. fibers = 1
    BY DEF Init
  <2> HIDE DEF Counted
  <2>3. IsFiniteSet({Main}) /\ Cardinality({Main}) = 1
    BY FS_Singleton, Zenon
  <2>4. IsFiniteSet(Counted) /\ Cardinality(Counted) = 1
    BY <2>1, <2>3
  <2> QED  BY <2>2, <2>4 DEF CountInv
<1> QED  BY <1>6, <1>7, <1>8, <1>9, <1>10, <1>11, <1>12, <1>13 DEF IInv

(* check_io_completions: each waiter stays in its list or moves to the run *)
(* queue.                                                                  *)
LEMMA CheckIoKeeps ==
    ASSUME IInv, CheckIoCompletions
    PROVE  IInv'
<1>0. /\ TypeOK /\ ListsInv /\ PlacesInv /\ WakersInv /\ SocketsInv /\ DepthInv
      /\ run_queue \in Seq(TaskRecord) /\ io_waiters \in Seq(WaiterRecord)
  BY TypeFacts DEF IInv
<1>1. /\ UNCHANGED <<promise, status, kind, owed, left, dropped, fibers, result,
                   exn_ref, current, rewrapped, depth>>
      /\ pc = "check" /\ pc' = "take"
  BY DEF CheckIoCompletions
<1>2. PICK net \in Serviced :
         LET remaining == Selected(io_waiters,
                            {i \in DOMAIN io_waiters : Remains(io_waiters[i], net)})
             to_wake == Selected(io_waiters,
                            {i \in DOMAIN io_waiters : Wakes(io_waiters[i], net)})
         IN  /\ io_waiters' = Reversed([i \in 1 .. Len(remaining) |-> Aged(remaining[i])])
             /\ run_queue' = run_queue \o
                    Reversed([i \in 1 .. Len(to_wake) |-> Woken(to_wake[i], net)])
             /\ sock' = net
  BY DEF CheckIoCompletions
<1> DEFINE stay == {i \in DOMAIN io_waiters : Remains(io_waiters[i], net)}
           move == {i \in DOMAIN io_waiters : Wakes(io_waiters[i], net)}
           remaining == Selected(io_waiters, stay)
           to_wake == Selected(io_waiters, move)
           aged == [i \in 1 .. Len(remaining) |-> Aged(remaining[i])]
           woken == [i \in 1 .. Len(to_wake) |-> Woken(to_wake[i], net)]
<1>3. /\ io_waiters' = Reversed(aged) /\ run_queue' = run_queue \o Reversed(woken)
      /\ sock' = net
  BY <1>2
<1>4. /\ stay \in SUBSET DOMAIN io_waiters /\ move \in SUBSET DOMAIN io_waiters
      /\ \A i \in DOMAIN io_waiters : i \in stay <=> i \notin move
  <2>1. \A i \in DOMAIN io_waiters : io_waiters[i].timeout_count \in Nat
    <3>1. \A i \in DOMAIN io_waiters : io_waiters[i] \in WaiterRecord
      BY <1>0
    <3> QED  BY <3>1 DEF WaiterRecord
  <2>2. \A i \in DOMAIN io_waiters :
            Remains(io_waiters[i], net) <=> ~Wakes(io_waiters[i], net)
    <3> TAKE i \in DOMAIN io_waiters
    <3>1. io_waiters[i].timeout_count < MaxTimeout <=> ~(io_waiters[i].timeout_count >= MaxTimeout)
      BY <2>1, SchedulerAssumption
    <3> QED  BY <3>1 DEF Remains, Wakes
  <2> QED  BY <2>2
<1>5. \A i \in stay : io_waiters[i].timeout_count < MaxTimeout
  BY DEF Remains
<1> HIDE DEF stay, move
<1>6. /\ remaining \in Seq(WaiterRecord)
      /\ Elements(remaining) = {io_waiters[i] : i \in stay}
      /\ FibersOf(remaining) = {io_waiters[i].fiber : i \in stay}
      /\ OneEach(remaining)
  BY <1>0, <1>4, SelectedLists DEF ListsInv
<1>7. /\ to_wake \in Seq(WaiterRecord)
      /\ FibersOf(to_wake) = {io_waiters[i].fiber : i \in move}
      /\ OneEach(to_wake)
  BY <1>0, <1>4, SelectedLists DEF ListsInv
<1> HIDE DEF remaining, to_wake
<1>8. /\ aged \in Seq(WaiterRecord) /\ FibersOf(aged) = FibersOf(remaining)
      /\ OneEach(aged)
  <2>1. /\ Len(remaining) \in Nat /\ DOMAIN remaining = 1 .. Len(remaining)
        /\ \A i \in 1 .. Len(remaining) : remaining[i] \in WaiterRecord
    BY <1>6
  <2>2. \A i \in 1 .. Len(remaining) : remaining[i].timeout_count < MaxTimeout
    <3>1. \A i \in 1 .. Len(remaining) : remaining[i] \in Elements(remaining)
      BY <2>1 DEF Elements
    <3> QED  BY <3>1, <1>5, <1>6
  <2>3. \A i \in 1 .. Len(remaining) :
            Aged(remaining[i]) \in WaiterRecord /\ Aged(remaining[i]).fiber = remaining[i].fiber
    BY <2>1, <2>2, SchedulerAssumption DEF Aged, WaiterRecord
  <2>4. aged \in [1 .. Len(remaining) -> WaiterRecord]
    BY <2>3
  <2>5. aged \in Seq(WaiterRecord) /\ DOMAIN aged = DOMAIN remaining
    BY <2>1, <2>4
  <2>6. \A i \in DOMAIN remaining : aged[i].fiber = remaining[i].fiber
    BY <2>1, <2>3
  <2> HIDE DEF aged
  <2> QED  BY <2>5, <2>6, <1>6, SameFibers
<1>9. /\ woken \in Seq(TaskRecord) /\ FibersOf(woken) = FibersOf(to_wake)
      /\ OneEach(woken)
      /\ \A t \in Elements(woken) : t.type # "awaited"
  <2>1. /\ Len(to_wake) \in Nat /\ DOMAIN to_wake = 1 .. Len(to_wake)
        /\ \A i \in 1 .. Len(to_wake) : to_wake[i] \in WaiterRecord
    BY <1>7
  <2>2. \A i \in 1 .. Len(to_wake) :
            /\ Woken(to_wake[i], net) \in TaskRecord
            /\ Woken(to_wake[i], net).fiber = to_wake[i].fiber
            /\ Woken(to_wake[i], net).type # "awaited"
    BY <2>1, WokenFacts
  <2>3. woken \in [1 .. Len(to_wake) -> TaskRecord]
    BY <2>2
  <2>4. woken \in Seq(TaskRecord) /\ DOMAIN woken = DOMAIN to_wake
    BY <2>1, <2>3
  <2>5. \A i \in DOMAIN to_wake : woken[i].fiber = to_wake[i].fiber /\ woken[i].type # "awaited"
    BY <2>1, <2>2
  <2> HIDE DEF woken
  <2>6. \A t \in Elements(woken) : t.type # "awaited"
    BY <2>4, <2>5 DEF Elements
  <2> QED  BY <2>4, <2>5, <2>6, <1>7, SameFibers
<1> HIDE DEF aged, woken
<1>10. /\ io_waiters' \in Seq(WaiterRecord) /\ OneEach(io_waiters)'
       /\ Watching' = {io_waiters[i].fiber : i \in stay}
  BY <1>3, <1>6, <1>8, ReversedLists DEF Watching
<1>11. /\ Reversed(woken) \in Seq(TaskRecord) /\ OneEach(Reversed(woken))
       /\ FibersOf(Reversed(woken)) = {io_waiters[i].fiber : i \in move}
       /\ Elements(Reversed(woken)) = Elements(woken)
  BY <1>7, <1>9, ReversedLists
<1>12. Watching = {io_waiters[i].fiber : i \in stay} \cup {io_waiters[i].fiber : i \in move}
  BY <1>4 DEF Watching, FibersOf
<1>13. {io_waiters[i].fiber : i \in stay} \cap {io_waiters[i].fiber : i \in move} = {}
  BY <1>0, <1>4 DEF ListsInv, OneEach
<1> DEFINE moved == {io_waiters[i].fiber : i \in move}
           stayed == {io_waiters[i].fiber : i \in stay}
<1> HIDE DEF moved, stayed
<1>14. /\ Watching = stayed \cup moved /\ stayed \cap moved = {}
       /\ Watching' = stayed /\ FibersOf(Reversed(woken)) = moved
       /\ Queued \cap moved = {}
  BY <1>0, <1>10, <1>11, <1>12, <1>13 DEF moved, stayed, ListsInv
<1>15. /\ run_queue' \in Seq(TaskRecord) /\ OneEach(run_queue)'
       /\ Queued' = Queued \cup moved
       /\ Elements(run_queue)' = Elements(run_queue) \cup Elements(woken)
  BY <1>0, <1>3, <1>11, <1>14, ConcatLists DEF ListsInv, Queued
<1>16. \A p \in Fibers : Waiting(p)' = Waiting(p)
  BY <1>1 DEF Waiting
<1>17. TypeOK'
  <2>1. sock' \in [Fibers -> SocketRecord]
    BY <1>0, <1>3, ServicedFacts
  <2> QED  BY <1>0, <1>1, <1>10, <1>15, <2>1 DEF TypeOK, TaskRecord, WaiterRecord, SocketRecord
<1>18. ListsInv'
  BY <1>0, <1>1, <1>10, <1>14, <1>15, <1>16 DEF ListsInv
<1>19. ControlInv' /\ PromiseInv' /\ CountInv' /\ Suspended' = Suspended
  <2>1. ControlInv' /\ Suspended' = Suspended
    BY <1>1 DEF IInv, ControlInv, Suspended
  <2>2. PromiseInv'
    BY <1>1 DEF IInv, PromiseInv
  <2>3. CountInv'
    BY <1>1 DEF IInv, CountInv, Counted
  <2> QED  BY <2>1, <2>2, <2>3
<1>20. PlacesInv'
  BY <1>0, <1>1, <1>14, <1>15, <1>16, <1>19 DEF PlacesInv
<1>21. WakersInv'
  BY <1>0, <1>1, <1>9, <1>15 DEF WakersInv
<1>22. SocketsInv'
  BY <1>0, <1>3, <1>14, ServicedFacts, TypeFacts DEF SocketsInv
<1>23. DepthInv'
  BY <1>0, <1>1, <1>14 DEF DepthInv
<1> QED  BY <1>17, <1>18, <1>19, <1>20, <1>21, <1>22, <1>23 DEF IInv

(* The task at the head of the run queue, and the rest. *)
LEMMA TakeFacts ==
    ASSUME IInv, run_queue # <<>>
    PROVE  LET t == Head(run_queue) IN
           /\ t \in TaskRecord /\ t \in Elements(run_queue)
           /\ t.fiber \in Fibers /\ t.fiber \in Queued /\ t.fiber \in Suspended
           /\ t.fiber \notin Watching /\ \A p \in Fibers : t.fiber \notin Waiting(p)
           /\ Tail(run_queue) \in Seq(TaskRecord) /\ OneEach(Tail(run_queue))
           /\ Elements(Tail(run_queue)) \subseteq Elements(run_queue)
           /\ FibersOf(Tail(run_queue)) = Queued \ {t.fiber}
<1> DEFINE t == Head(run_queue)
<1>1. /\ run_queue \in Seq(TaskRecord) /\ Queued \subseteq Fibers
      /\ OneEach(run_queue) /\ ListsInv /\ PlacesInv
  BY TypeFacts DEF IInv, ListsInv
<1>2. /\ t \in TaskRecord /\ t \in Elements(run_queue)
      /\ Tail(run_queue) \in Seq(TaskRecord) /\ OneEach(Tail(run_queue))
      /\ Elements(Tail(run_queue)) \subseteq Elements(run_queue)
      /\ t.fiber \in Queued /\ t.fiber \notin FibersOf(Tail(run_queue))
      /\ Queued = FibersOf(Tail(run_queue)) \cup {t.fiber}
  BY <1>1, TailLists DEF Queued
<1> HIDE DEF t
<1>3. /\ t.fiber \in Fibers /\ t.fiber \in Suspended
      /\ t.fiber \notin Watching /\ \A p \in Fibers : t.fiber \notin Waiting(p)
  BY <1>1, <1>2 DEF ListsInv, PlacesInv
<1> QED  BY <1>2, <1>3 DEF t

(* A fiber starts or is resumed: it leaves the run queue. *)
LEMMA RunFiberKeeps ==
    ASSUME IInv, pc = "take", run_queue # <<>>, RunFiber(Head(run_queue))
    PROVE  IInv'
<1> DEFINE t == Head(run_queue)
           f == t.fiber
<1>0. TypeOK /\ ListsInv /\ PlacesInv /\ ControlInv /\ PromiseInv /\ WakersInv /\ SocketsInv
      /\ CountInv /\ DepthInv
  BY DEF IInv
<1>1. /\ t \in TaskRecord /\ f \in Fibers /\ f \in Queued /\ f \in Suspended
      /\ f \notin Watching /\ \A p \in Fibers : f \notin Waiting(p)
      /\ Tail(run_queue) \in Seq(TaskRecord) /\ OneEach(Tail(run_queue))
      /\ Elements(Tail(run_queue)) \subseteq Elements(run_queue)
      /\ FibersOf(Tail(run_queue)) = Queued \ {f}
  BY TakeFacts
<1>2. /\ run_queue' = Tail(run_queue)
      /\ status' = [status EXCEPT ![f] = "running"]
      /\ pc' = "fiber" /\ current' = f
      /\ UNCHANGED <<io_waiters, promise, kind, left, sock, dropped, fibers, result,
                     exn_ref, depth>>
  BY DEF RunFiber
<1>3. owed' \in [Fibers -> Seq(Fibers)]
  <2>1. owed' = owed \/ owed' = [owed EXCEPT ![f] = <<>>]
    BY DEF RunFiber
  <2>2. owed \in [Fibers -> Seq(Fibers)] /\ <<>> \in Seq(Fibers)
    BY <1>0 DEF TypeOK
  <2> QED  BY <2>1, <2>2
<1>4. rewrapped' \in BOOLEAN
  BY Zenon DEF RunFiber
<1> HIDE DEF t, f
<1>5. /\ status' \in [Fibers -> {"unborn", "forked", "running", "blocked", "done", "raised"}]
      /\ status'[f] = "running" /\ \A g \in Fibers : g # f => status'[g] = status[g]
      /\ status[f] \in {"forked", "blocked"}
  BY <1>0, <1>1, <1>2 DEF TypeOK, Suspended
<1>6. /\ Queued' = Queued \ {f} /\ OneEach(run_queue)'
      /\ run_queue' \in Seq(TaskRecord) /\ Elements(run_queue)' \subseteq Elements(run_queue)
  BY <1>1, <1>2 DEF Queued
<1>7. Watching' = Watching /\ \A p \in Fibers : Waiting(p)' = Waiting(p)
  BY <1>2 DEF Watching, Waiting
<1>8. Suspended' = Suspended \ {f}
  BY <1>5 DEF Suspended
<1>9. TypeOK'
  BY <1>0, <1>1, <1>2, <1>3, <1>4, <1>5, <1>6 DEF TypeOK, TaskRecord
<1>10. ListsInv'
  BY <1>0, <1>2, <1>6, <1>7 DEF ListsInv
<1>11. PlacesInv'
  BY <1>0, <1>1, <1>2, <1>6, <1>7, <1>8 DEF PlacesInv
<1>12. ControlInv'
  BY <1>0, <1>1, <1>2, <1>5, Zenon DEF ControlInv
<1>13. PromiseInv'
  BY <1>0, <1>2, <1>5 DEF PromiseInv
<1>14. WakersInv'
  BY <1>0, <1>2, <1>6 DEF WakersInv
<1>15. SocketsInv' /\ DepthInv'
  BY <1>0, <1>2, <1>7 DEF SocketsInv, DepthInv
<1>16. CountInv'
  <2>1. Counted' = Counted
    BY <1>2, <1>5 DEF Counted
  <2> HIDE DEF Counted
  <2> QED  BY <1>0, <1>2, <2>1 DEF CountInv
<1> QED  BY <1>9, <1>10, <1>11, <1>12, <1>13, <1>14, <1>15, <1>16 DEF IInv

(* A wake, a timeout or a waker enqueues the closure that resumes: the     *)
(* fiber's place stays the run queue.                                      *)
LEMMA RequeueKeeps ==
    ASSUME IInv, pc = "take", run_queue # <<>>, NEW ok \in BOOLEAN,
           Requeue(Head(run_queue), ok),
           sock' \in [Fibers -> SocketRecord],
           \A g \in Watching : sock'[g].state # "none"
    PROVE  IInv'
<1> DEFINE t == Head(run_queue)
           f == t.fiber
           r == Resume(f, ok)
<1>0. TypeOK /\ ListsInv /\ PlacesInv /\ ControlInv /\ PromiseInv /\ WakersInv /\ SocketsInv
      /\ CountInv /\ DepthInv
  BY DEF IInv
<1>1. /\ f \in Fibers /\ f \in Queued
      /\ Tail(run_queue) \in Seq(TaskRecord) /\ OneEach(Tail(run_queue))
      /\ Elements(Tail(run_queue)) \subseteq Elements(run_queue)
      /\ FibersOf(Tail(run_queue)) = Queued \ {f}
  BY TakeFacts
<1>2. /\ run_queue' = Append(Tail(run_queue), r) /\ pc' = "check"
      /\ UNCHANGED <<io_waiters, promise, status, kind, owed, left, dropped, fibers,
                     result, exn_ref, current, rewrapped, depth>>
  BY DEF Requeue
<1> HIDE DEF t, f
<1>3. r \in TaskRecord /\ r.fiber = f /\ r.type = "resume"
  BY <1>1, TaskFacts
<1> HIDE DEF r
<1>4. /\ Queued' = Queued /\ OneEach(run_queue)' /\ run_queue' \in Seq(TaskRecord)
      /\ Elements(run_queue)' \subseteq Elements(run_queue) \cup {r}
  <2> DEFINE rest == Tail(run_queue)
  <2>1. /\ rest \in Seq(TaskRecord) /\ OneEach(rest)
        /\ Elements(rest) \subseteq Elements(run_queue)
        /\ FibersOf(rest) = Queued \ {f} /\ run_queue' = Append(rest, r)
    BY <1>1, <1>2
  <2> HIDE DEF rest
  <2>2. /\ Append(rest, r) \in Seq(TaskRecord)
        /\ Elements(Append(rest, r)) = Elements(rest) \cup {r}
        /\ FibersOf(Append(rest, r)) = FibersOf(rest) \cup {f}
        /\ OneEach(Append(rest, r))
    BY <1>3, <2>1, AppendLists
  <2>3. /\ Elements(run_queue)' = Elements(rest) \cup {r}
        /\ Queued' = FibersOf(rest) \cup {f}
    BY <2>1, <2>2 DEF Queued
  <2> QED  BY <1>1, <2>1, <2>2, <2>3
<1>5. /\ Watching' = Watching /\ Suspended' = Suspended
      /\ \A p \in Fibers : Waiting(p)' = Waiting(p)
  BY <1>2 DEF Watching, Waiting, Suspended
<1>6. TypeOK'
  BY <1>0, <1>2, <1>4 DEF TypeOK, TaskRecord, SocketRecord
<1>7. ListsInv'
  BY <1>0, <1>2, <1>4, <1>5 DEF ListsInv
<1>8. PlacesInv'
  BY <1>0, <1>2, <1>4, <1>5 DEF PlacesInv
<1>9. ControlInv'
  BY <1>0, <1>2 DEF ControlInv
<1>10. PromiseInv'
  BY <1>0, <1>2 DEF PromiseInv
<1>11. WakersInv'
  BY <1>0, <1>2, <1>3, <1>4 DEF WakersInv
<1>12. SocketsInv' /\ DepthInv'
  BY <1>0, <1>2, <1>5 DEF SocketsInv, DepthInv
<1>13. CountInv'
  BY <1>0, <1>2 DEF CountInv, Counted
<1> QED  BY <1>6, <1>7, <1>8, <1>9, <1>10, <1>11, <1>12, <1>13 DEF IInv

LEMMA TakeTaskKeeps ==
    ASSUME IInv, TakeTask
    PROVE  IInv'
<1> DEFINE t == Head(run_queue)
<1>0. /\ pc = "take" /\ run_queue # <<>>
      /\ \/ RunFiber(t) \/ RunConnected(t) \/ RunReadable(t)
         \/ RunConnectTimeout(t) \/ RunReadTimeout(t) \/ RunAwaited(t)
  BY DEF TakeTask
<1>1. /\ sock \in [Fibers -> SocketRecord] /\ \A g \in Watching : sock[g].state # "none"
      /\ Watching \subseteq Fibers /\ MaxData \in Nat
  BY TypeFacts, SchedulerAssumption DEF IInv, SocketsInv
<1>2. t.fiber \in Fibers /\ t.fiber \notin Watching
  BY <1>0, TakeFacts
<1> HIDE DEF t
<1>3. CASE RunFiber(t)
  BY <1>0, <1>3, RunFiberKeeps DEF t
<1>4. CASE RunConnected(t)
  BY <1>0, <1>1, <1>4, RequeueKeeps DEF t, RunConnected
<1>5. CASE RunReadable(t)
  <2> DEFINE ok == tcp_read(sock[t.fiber], MaxData) > 0
  <2>1. Requeue(t, ok) /\ sock' = [sock EXCEPT ![t.fiber] = Drained(@)]
    BY <1>5 DEF RunReadable
  <2>2. sock' \in [Fibers -> SocketRecord] /\ \A g \in Watching : sock'[g].state # "none"
    <3>1. Drained(sock[t.fiber]) \in SocketRecord
      BY <1>1, <1>2 DEF Drained, SocketRecord
    <3> QED  BY <1>1, <1>2, <2>1, <3>1
  <2>3. ok \in BOOLEAN
    OBVIOUS
  <2> HIDE DEF ok
  <2> QED  BY <1>0, <2>1, <2>2, <2>3, RequeueKeeps DEF t
<1>6. CASE RunConnectTimeout(t)
  <2>1. Requeue(t, FALSE) /\ sock' = [sock EXCEPT ![t.fiber] = Closed]
    BY <1>6 DEF RunConnectTimeout
  <2>2. sock' \in [Fibers -> SocketRecord] /\ \A g \in Watching : sock'[g].state # "none"
    <3>1. Closed \in SocketRecord
      BY <1>1 DEF Closed, SocketRecord
    <3> QED  BY <1>1, <1>2, <2>1, <3>1
  <2> QED  BY <1>0, <2>1, <2>2, RequeueKeeps DEF t
<1>7. CASE RunReadTimeout(t)
  BY <1>0, <1>1, <1>7, RequeueKeeps DEF t, RunReadTimeout
<1>8. CASE RunAwaited(t)
  <2> DEFINE ok == promise[t.on].state = "Resolved"
  <2>1. Requeue(t, ok) /\ sock' = sock
    BY <1>8 DEF RunAwaited
  <2>2. ok \in BOOLEAN
    OBVIOUS
  <2> HIDE DEF ok
  <2> QED  BY <1>0, <1>1, <2>1, <2>2, RequeueKeeps DEF t
<1> QED  BY <1>0, <1>3, <1>4, <1>5, <1>6, <1>7, <1>8

(* The run queue is empty: main_scheduler goes round, returns, or a nested *)
(* scheduler returns, which it does only when nobody waits for a socket.   *)
LEMMA IdleKeeps ==
    ASSUME IInv, Idle
    PROVE  IInv'
<1>0. TypeOK /\ ListsInv /\ PlacesInv /\ ControlInv /\ PromiseInv /\ WakersInv /\ SocketsInv
      /\ CountInv /\ DepthInv
  BY DEF IInv
<1>1. /\ pc = "take" /\ run_queue = <<>> /\ pc' \in {"check", "returned"}
      /\ UNCHANGED <<run_queue, io_waiters, promise, status, kind, owed, left, dropped,
                     fibers, result, exn_ref, current, rewrapped>>
  BY DEF Idle
<1>2. \/ depth = 0 /\ pc' = "returned" /\ depth' = depth
      \/ pc' = "check" /\ depth' = depth
      \/ depth > 0 /\ io_waiters = <<>> /\ depth' = depth - 1 /\ pc' = "check"
  BY DEF Idle, HasWork
<1>3. depth' \in Nat
  BY <1>0, <1>2 DEF TypeOK
<1>4. /\ sock' \in [Fibers -> SocketRecord]
      /\ \A f \in Fibers : sock[f].state # "none" => sock'[f].state # "none"
  <2>1. sock' = sock \/ sock' \in Serviced
    BY DEF Idle
  <2> QED  BY <1>0, <2>1, ServicedFacts, TypeFacts
<1>5. /\ Queued' = Queued /\ Watching' = Watching /\ Suspended' = Suspended
      /\ \A p \in Fibers : Waiting(p)' = Waiting(p)
  BY <1>1 DEF Queued, Watching, Waiting, Suspended
<1>6. TypeOK'
  BY <1>0, <1>1, <1>3, <1>4 DEF TypeOK, SocketRecord
<1>7. ListsInv' /\ PlacesInv'
  BY <1>0, <1>1, <1>5 DEF ListsInv, PlacesInv
<1>8. ControlInv' /\ PromiseInv' /\ WakersInv'
  BY <1>0, <1>1 DEF ControlInv, PromiseInv, WakersInv
<1>9. SocketsInv'
  BY <1>0, <1>4, <1>5, TypeFacts DEF SocketsInv
<1>10. CountInv'
  BY <1>0, <1>1 DEF CountInv, Counted
<1>11. DepthInv'
  <2>1. io_waiters = <<>> => Watching = {}
    BY EmptyLists DEF Watching
  <2> QED  BY <1>0, <1>1, <1>2, <1>5, <2>1 DEF DepthInv
<1> QED  BY <1>6, <1>7, <1>8, <1>9, <1>10, <1>11 DEF IInv

(* Fiber.yield: the fiber goes to the end of the run queue. *)
LEMMA YieldKeeps ==
    ASSUME IInv, NEW f \in Fibers, Yield(f)
    PROVE  IInv'
<1> DEFINE r == Resume(f, TRUE)
<1>0. TypeOK /\ ListsInv /\ PlacesInv /\ PromiseInv /\ WakersInv /\ SocketsInv /\ DepthInv
  BY DEF IInv
<1>1. /\ run_queue' = Append(run_queue, r) /\ left' = [left EXCEPT ![f] = @ - 1]
      /\ Runs(f) /\ Suspends(f) /\ left[f] > 0
      /\ UNCHANGED <<io_waiters, promise, kind, owed, sock, dropped>>
  BY DEF Yield, Performs
<1>2. /\ status' \in [Fibers -> {"unborn", "forked", "running", "blocked", "done", "raised"}]
      /\ fibers' \in Int /\ depth' \in Nat
      /\ result' \in BOOLEAN /\ exn_ref' \in BOOLEAN /\ rewrapped' \in BOOLEAN
      /\ pc' = "check" /\ current' \in Fibers \cup {NoFiber}
      /\ Suspended' = Suspended \cup {f}
      /\ ControlInv' /\ CountInv'
      /\ status'[f] = "blocked" /\ status[f] = "running"
      /\ \A g \in Fibers : g # f => status'[g] = status[g]
      /\ depth' >= depth
  BY <1>1, SuspendsFacts
<1>3. /\ f \notin Queued /\ f \notin Watching /\ \A p \in Fibers : f \notin Waiting(p)
  BY <1>1, RunningFacts DEF Runs
<1>4. r \in TaskRecord /\ r.fiber = f /\ r.type = "resume"
  BY TaskFacts
<1> HIDE DEF r
<1>5. /\ run_queue' \in Seq(TaskRecord) /\ Elements(run_queue)' = Elements(run_queue) \cup {r}
      /\ Queued' = Queued \cup {f} /\ OneEach(run_queue)'
  BY <1>0, <1>1, <1>3, <1>4, AppendLists, TypeFacts DEF Queued, ListsInv
<1>6. Watching' = Watching /\ \A p \in Fibers : Waiting(p)' = Waiting(p)
  BY <1>1 DEF Watching, Waiting
<1>7. left' \in [Fibers -> 0 .. MaxEffects]
  <2>1. left \in [Fibers -> 0 .. MaxEffects]
    BY <1>0 DEF TypeOK
  <2>2. left[f] - 1 \in 0 .. MaxEffects
    BY <1>1, <2>1, SchedulerAssumption
  <2> QED  BY <1>1, <2>1, <2>2
<1>8. TypeOK'
  BY <1>0, <1>1, <1>2, <1>5, <1>7 DEF TypeOK, TaskRecord
<1>9. ListsInv'
  BY <1>0, <1>1, <1>3, <1>5, <1>6 DEF ListsInv
<1>10. PlacesInv'
  BY <1>0, <1>1, <1>2, <1>5, <1>6 DEF PlacesInv
<1>11. PromiseInv'
  BY <1>0, <1>1, <1>2, SamePromises
<1>12. WakersInv'
  BY <1>0, <1>1, <1>4, <1>5 DEF WakersInv
<1>13. SocketsInv'
  BY <1>0, <1>1, <1>6 DEF SocketsInv
<1>14. DepthInv'
  BY <1>0, <1>2, <1>6 DEF DepthInv, TypeOK
<1> QED  BY <1>2, <1>8, <1>9, <1>10, <1>11, <1>12, <1>13, <1>14 DEF IInv

(* Switch.fork and fork_promise: the new fiber enters the run queue, and   *)
(* the switch counts it.                                                   *)
LEMMA ForkKeeps ==
    ASSUME IInv, NEW f \in Fibers, NEW c \in Children, NEW k \in {"unit", "promise"},
           Fork(f, c, k)
    PROVE  IInv'
<1> DEFINE r == Start(c)
<1>0. /\ TypeOK /\ ListsInv /\ PlacesInv /\ ControlInv /\ PromiseInv /\ WakersInv
      /\ SocketsInv /\ CountInv /\ DepthInv
      /\ promise \in [Fibers -> PromiseRecord] /\ c \in Fibers
  BY TypeFacts DEF IInv, Fibers
<1>1. /\ run_queue' = Append(run_queue, r) /\ left' = [left EXCEPT ![f] = @ - 1]
      /\ Runs(f) /\ left[f] > 0 /\ status[c] = "unborn"
      /\ fibers' = fibers + 1
      /\ status' = [status EXCEPT ![c] = "forked"]
      /\ kind' = [kind EXCEPT ![c] = k]
      /\ UNCHANGED <<io_waiters, owed, sock, dropped, result, exn_ref, pc, current,
                     rewrapped, depth>>
  BY DEF Fork, Performs
<1>2. promise' = IF k = "promise" THEN [promise EXCEPT ![c].state = "Pending"] ELSE promise
  BY DEF Fork
<1>3. /\ c \notin Queued /\ c \notin Watching /\ \A p \in Fibers : c \notin Waiting(p)
      /\ c \notin Suspended
  BY <1>0, <1>1 DEF PlacesInv, Suspended
<1>4. r \in TaskRecord /\ r.fiber = c /\ r.type = "start"
  BY <1>0, TaskFacts
<1> HIDE DEF r
<1>5. /\ run_queue' \in Seq(TaskRecord) /\ Elements(run_queue)' = Elements(run_queue) \cup {r}
      /\ Queued' = Queued \cup {c} /\ OneEach(run_queue)'
  BY <1>0, <1>1, <1>3, <1>4, AppendLists, TypeFacts DEF Queued, ListsInv
<1>6. /\ promise' \in [Fibers -> PromiseRecord]
      /\ \A p \in Fibers : promise'[p].waiters = promise[p].waiters
      /\ \A p \in Fibers : p # c => promise'[p] = promise[p]
      /\ k = "promise" => promise'[c].state = "Pending"
      /\ k = "unit" => promise'[c] = promise[c]
  BY <1>0, <1>2 DEF PromiseRecord
<1>7. Watching' = Watching /\ \A p \in Fibers : Waiting(p)' = Waiting(p)
  BY <1>1, <1>6 DEF Watching, Waiting
<1>8. /\ status' \in [Fibers -> {"unborn", "forked", "running", "blocked", "done", "raised"}]
      /\ status'[c] = "forked" /\ \A g \in Fibers : g # c => status'[g] = status[g]
      /\ kind' \in [Fibers -> {"unit", "promise", "bare"}]
      /\ kind'[c] = k /\ \A g \in Fibers : g # c => kind'[g] = kind[g]
  BY <1>0, <1>1 DEF TypeOK
<1>9. Suspended' = Suspended \cup {c}
  BY <1>0, <1>8 DEF Suspended
<1>10. left' \in [Fibers -> 0 .. MaxEffects] /\ fibers' \in Int
  <2>1. left \in [Fibers -> 0 .. MaxEffects] /\ fibers \in Int
    BY <1>0 DEF TypeOK
  <2>2. left[f] - 1 \in 0 .. MaxEffects
    BY <1>1, <2>1, SchedulerAssumption
  <2> QED  BY <1>1, <2>1, <2>2
<1>11. TypeOK'
  BY <1>0, <1>1, <1>5, <1>6, <1>8, <1>10 DEF TypeOK, TaskRecord, PromiseRecord
<1>12. ListsInv'
  BY <1>0, <1>1, <1>3, <1>5, <1>6, <1>7 DEF ListsInv
<1>13. PlacesInv'
  BY <1>0, <1>1, <1>5, <1>7, <1>9 DEF PlacesInv
<1>14. ControlInv'
  <2>1. pc = "fiber" /\ current = f /\ f # c
    BY <1>1, RunningFacts DEF Runs
  <2> QED  BY <1>0, <1>1, <1>8, <2>1 DEF ControlInv
<1>15. PromiseInv'
  <2>1. c # Main /\ kind[c] = "unit" /\ promise[c].state = "none" /\ promise[c].waiters = <<>>
    BY <1>0, <1>1, SchedulerAssumption DEF PromiseInv
  <2>2. kind'[Main] = "unit" /\ status'[Main] # "unborn"
    BY <1>0, <1>8, <2>1 DEF PromiseInv, Fibers
  <2>3. ASSUME NEW g \in Fibers
        PROVE  /\ status'[g] = "unborn" => kind'[g] = "unit"
               /\ kind'[g] = "unit" <=> promise'[g].state = "none"
               /\ promise'[g].state # "Pending" => promise'[g].waiters = <<>>
               /\ kind'[g] # "unit" =>
                     (status'[g] \in {"done", "raised"} <=> promise'[g].state # "Pending")
    <3>1. CASE g = c
      BY <1>6, <1>8, <2>1, <3>1
    <3>2. CASE g # c
      BY <1>0, <1>6, <1>8, <3>2 DEF PromiseInv
    <3> QED  BY <3>1, <3>2
  <2> QED  BY <2>2, <2>3 DEF PromiseInv
<1>16. WakersInv'
  <2>1. promise[c].state = "none"
    BY <1>0, <1>1 DEF PromiseInv
  <2> QED  BY <1>0, <1>4, <1>5, <1>6, <2>1 DEF WakersInv
<1>17. SocketsInv' /\ DepthInv'
  <2>1. pc = "fiber"
    BY <1>1 DEF Runs
  <2> QED  BY <1>0, <1>1, <1>7, <2>1 DEF SocketsInv, DepthInv
<1>18. CountInv'
  <2>1. Counted' = Counted \cup {c} /\ c \notin Counted
    BY <1>0, <1>1, <1>8 DEF Counted
  <2> HIDE DEF Counted
  <2>2. IsFiniteSet(Counted') /\ Cardinality(Counted') = Cardinality(Counted) + 1
    BY <1>0, <2>1, FS_AddElement DEF CountInv
  <2>3. Cardinality(Counted) \in Nat /\ fibers \in Int /\ fibers <= Cardinality(Counted)
    BY <1>0, FS_CardinalityType DEF CountInv, TypeOK
  <2> QED  BY <1>1, <2>2, <2>3 DEF CountInv
<1> QED  BY <1>11, <1>12, <1>13, <1>14, <1>15, <1>16, <1>17, <1>18 DEF IInv

(* The counters of effects. *)
LEMMA PerformsFacts ==
    ASSUME TypeOK, NEW f \in Fibers, Performs(f)
    PROVE  left' \in [Fibers -> 0 .. MaxEffects] /\ Runs(f)
<1>1. left \in [Fibers -> 0 .. MaxEffects] /\ left[f] > 0 /\ left' = [left EXCEPT ![f] = @ - 1]
  BY DEF TypeOK, Performs
<1>2. left[f] - 1 \in 0 .. MaxEffects
  BY <1>1, SchedulerAssumption
<1> QED  BY <1>1, <1>2 DEF Performs

(* An effect that is answered at once: the fiber goes on. *)
LEMMA ContinueKeeps ==
    ASSUME IInv, pc = "fiber", Continues,
           UNCHANGED <<run_queue, io_waiters, promise, kind, dropped>>,
           left' \in [Fibers -> 0 .. MaxEffects], owed' \in [Fibers -> Seq(Fibers)],
           sock' \in [Fibers -> SocketRecord],
           \A g \in Watching : sock'[g].state # "none"
    PROVE  IInv'
<1>0. /\ TypeOK /\ ListsInv /\ PlacesInv /\ ControlInv /\ PromiseInv /\ WakersInv
      /\ SocketsInv /\ CountInv /\ DepthInv
  BY DEF IInv
<1>1. UNCHANGED <<run_queue, io_waiters, promise, kind, dropped, status, fibers, result,
                  exn_ref, depth, pc, current, rewrapped>>
  BY DEF Continues, schedVars
<1>2. /\ Queued' = Queued /\ Watching' = Watching /\ Suspended' = Suspended
      /\ \A p \in Fibers : Waiting(p)' = Waiting(p)
  BY <1>1 DEF Queued, Watching, Waiting, Suspended
<1>3. TypeOK'
  BY <1>0, <1>1 DEF TypeOK, SocketRecord
<1>4. ListsInv' /\ PlacesInv'
  BY <1>0, <1>1, <1>2 DEF ListsInv, PlacesInv
<1>5. ControlInv' /\ PromiseInv' /\ WakersInv'
  BY <1>0, <1>1 DEF ControlInv, PromiseInv, WakersInv
<1>6. SocketsInv' /\ DepthInv'
  BY <1>0, <1>1, <1>2 DEF SocketsInv, DepthInv
<1>7. CountInv'
  BY <1>0, <1>1 DEF CountInv, Counted
<1> QED  BY <1>3, <1>4, <1>5, <1>6, <1>7 DEF IInv

(* The fiber waits for its socket, at the head of the list. *)
LEMMA WatchKeeps ==
    ASSUME IInv, NEW f \in Fibers, Performs(f), NEW operation \in {"Connect", "Read"},
           Watch(f, operation), Suspends(f),
           UNCHANGED <<run_queue, promise, kind, owed, dropped>>,
           sock' \in [Fibers -> SocketRecord],
           \A g \in Watching \cup {f} : sock'[g].state # "none"
    PROVE  IInv'
<1> DEFINE w == [fiber |-> f, operation |-> operation, timeout_count |-> 0]
<1>0. TypeOK /\ ListsInv /\ PlacesInv /\ PromiseInv /\ WakersInv /\ SocketsInv /\ DepthInv
  BY DEF IInv
<1>1. io_waiters' = <<w>> \o io_waiters /\ Runs(f) /\ left' \in [Fibers -> 0 .. MaxEffects]
  BY <1>0, PerformsFacts DEF Watch
<1>2. /\ status' \in [Fibers -> {"unborn", "forked", "running", "blocked", "done", "raised"}]
      /\ fibers' \in Int /\ depth' \in Nat
      /\ result' \in BOOLEAN /\ exn_ref' \in BOOLEAN /\ rewrapped' \in BOOLEAN
      /\ pc' = "check" /\ current' \in Fibers \cup {NoFiber}
      /\ Suspended' = Suspended \cup {f}
      /\ ControlInv' /\ CountInv'
      /\ status'[f] = "blocked" /\ status[f] = "running"
      /\ \A g \in Fibers : g # f => status'[g] = status[g]
      /\ depth' >= depth /\ (f # Main => depth' > 0)
  BY <1>1, SuspendsFacts
<1>3. /\ f \notin Queued /\ f \notin Watching /\ \A p \in Fibers : f \notin Waiting(p)
  BY <1>1, RunningFacts DEF Runs
<1>4. w \in WaiterRecord /\ w.fiber = f
  BY SchedulerAssumption DEF WaiterRecord
<1> HIDE DEF w
<1> DEFINE u == <<w>>
<1>5. /\ u \in Seq(WaiterRecord) /\ FibersOf(u) = {f} /\ OneEach(u)
      /\ io_waiters' = u \o io_waiters
  BY <1>1, <1>4, SingleLists
<1> HIDE DEF u
<1>6. /\ io_waiters' \in Seq(WaiterRecord) /\ OneEach(io_waiters)'
      /\ Watching' = Watching \cup {f}
  <2>1. /\ io_waiters \in Seq(WaiterRecord) /\ OneEach(io_waiters)
        /\ FibersOf(u) \cap FibersOf(io_waiters) = {}
    BY <1>0, <1>3, <1>5, TypeFacts DEF Watching, ListsInv
  <2>2. /\ u \o io_waiters \in Seq(WaiterRecord) /\ OneEach(u \o io_waiters)
        /\ FibersOf(u \o io_waiters) = {f} \cup FibersOf(io_waiters)
    BY <1>5, <2>1, ConcatLists
  <2>3. Watching' = {f} \cup Watching
    BY <1>5, <2>2 DEF Watching
  <2> QED  BY <1>5, <2>2, <2>3
<1>7. Queued' = Queued /\ \A p \in Fibers : Waiting(p)' = Waiting(p)
  BY DEF Queued, Waiting
<1>8. TypeOK'
  BY <1>0, <1>1, <1>2, <1>6 DEF TypeOK, WaiterRecord, SocketRecord
<1>9. ListsInv'
  BY <1>0, <1>3, <1>6, <1>7 DEF ListsInv
<1>10. PlacesInv'
  BY <1>0, <1>2, <1>6, <1>7 DEF PlacesInv
<1>11. PromiseInv'
  BY <1>0, <1>2, SamePromises
<1>12. WakersInv'
  BY <1>0 DEF WakersInv
<1>13. SocketsInv'
  BY <1>6 DEF SocketsInv
<1>14. DepthInv'
  <2>1. depth \in Nat
    BY <1>0 DEF TypeOK
  <2> QED  BY <1>0, <1>2, <1>6, <2>1 DEF DepthInv
<1> QED  BY <1>2, <1>8, <1>9, <1>10, <1>11, <1>12, <1>13, <1>14 DEF IInv

LEMMA TcpConnectKeeps ==
    ASSUME IInv, NEW f \in Fibers, TcpConnect(f)
    PROVE  IInv'
<1>0. /\ TypeOK /\ sock \in [Fibers -> SocketRecord] /\ Watching \subseteq Fibers
      /\ \A g \in Watching : sock[g].state # "none"
      /\ owed \in [Fibers -> Seq(Fibers)] /\ MaxData \in Nat
  BY TypeFacts, SchedulerAssumption DEF IInv, SocketsInv, TypeOK
<1>1. /\ Performs(f) /\ Runs(f) /\ left' \in [Fibers -> 0 .. MaxEffects]
      /\ UNCHANGED <<run_queue, promise, kind, owed, dropped>>
  BY <1>0, PerformsFacts DEF TcpConnect
<1>2. CASE Continues /\ UNCHANGED <<sock, io_waiters>>
  BY <1>0, <1>1, <1>2, ContinueKeeps DEF Runs
<1>3. CASE /\ sock' = [sock EXCEPT ![f] = [state |-> "CONNECTING", data |-> 0]]
           /\ Watch(f, "Connect") /\ Suspends(f)
  <2>1. [state |-> "CONNECTING", data |-> 0] \in SocketRecord
    BY <1>0 DEF SocketRecord
  <2>2. /\ sock' \in [Fibers -> SocketRecord]
        /\ \A g \in Watching \cup {f} : sock'[g].state # "none"
    BY <1>0, <1>3, <2>1
  <2> QED  BY <1>1, <1>3, <2>2, WatchKeeps
<1> QED  BY <1>2, <1>3 DEF TcpConnect

LEMMA TcpReadKeeps ==
    ASSUME IInv, NEW f \in Fibers, TcpRead(f)
    PROVE  IInv'
<1>0. /\ TypeOK /\ sock \in [Fibers -> SocketRecord] /\ Watching \subseteq Fibers
      /\ \A g \in Watching : sock[g].state # "none"
      /\ owed \in [Fibers -> Seq(Fibers)] /\ MaxData \in Nat
  BY TypeFacts, SchedulerAssumption DEF IInv, SocketsInv, TypeOK
<1>1. /\ Performs(f) /\ Runs(f) /\ left' \in [Fibers -> 0 .. MaxEffects]
      /\ sock[f].state # "none"
      /\ UNCHANGED <<run_queue, promise, kind, owed, dropped>>
  BY <1>0, PerformsFacts DEF TcpRead
<1>2. PICK net \in Serviced :
         IF tcp_read(net[f], MaxData) # 0
         THEN /\ sock' = [net EXCEPT ![f] = Drained(@)]
              /\ Continues /\ UNCHANGED io_waiters
         ELSE sock' = net /\ Watch(f, "Read") /\ Suspends(f)
  BY DEF TcpRead
<1>3. /\ net \in [Fibers -> SocketRecord]
      /\ \A g \in Watching \cup {f} : net[g].state # "none"
  BY <1>0, <1>1, ServicedFacts
<1>4. CASE /\ sock' = [net EXCEPT ![f] = Drained(@)]
           /\ Continues /\ UNCHANGED io_waiters
  <2>1. Drained(net[f]) \in SocketRecord /\ Drained(net[f]).state = net[f].state
    <3>1. net[f] \in SocketRecord /\ 0 \in 0 .. MaxData
      BY <1>0, <1>3
    <3>2. Drained(net[f]) \in SocketRecord
      BY <3>1 DEF Drained, SocketRecord
    <3>3. Drained(net[f]).state = net[f].state
      BY <3>1 DEF Drained, SocketRecord
    <3> QED  BY <3>2, <3>3
  <2>2. sock' \in [Fibers -> SocketRecord] /\ \A g \in Watching : sock'[g].state # "none"
    BY <1>0, <1>3, <1>4, <2>1
  <2> QED  BY <1>0, <1>1, <1>4, <2>2, ContinueKeeps DEF Runs
<1>5. CASE sock' = net /\ Watch(f, "Read") /\ Suspends(f)
  BY <1>1, <1>3, <1>5, WatchKeeps
<1> QED  BY <1>2, <1>4, <1>5

LEMMA NetEffectKeeps ==
    ASSUME IInv, NEW f \in Fibers, NetEffect(f)
    PROVE  IInv'
<1>1. /\ pc = "fiber" /\ Continues /\ sock' \in Serviced
      /\ UNCHANGED <<run_queue, io_waiters, promise, kind, dropped, owed, left>>
  BY DEF NetEffect, Runs, Continues
<1>2. /\ TypeOK /\ Watching \subseteq Fibers
      /\ \A g \in Watching : sock[g].state # "none"
  BY TypeFacts DEF IInv, SocketsInv
<1>3. left' \in [Fibers -> 0 .. MaxEffects] /\ owed' \in [Fibers -> Seq(Fibers)]
  BY <1>1, <1>2 DEF TypeOK
<1>4. /\ sock' \in [Fibers -> SocketRecord]
      /\ \A g \in Watching : sock'[g].state # "none"
  BY <1>1, <1>2, ServicedFacts
<1> QED  BY <1>1, <1>3, <1>4, ContinueKeeps

(* Tcp_close drops the waiters of the socket: a fiber that another one's   *)
(* close leaves without a place is recorded in dropped.                    *)
LEMMA TcpCloseKeeps ==
    ASSUME IInv, NEW f \in Fibers, NEW g \in Fibers, TcpClose(f, g)
    PROVE  IInv'
<1> DEFINE I == {i \in DOMAIN io_waiters : io_waiters[i].fiber # g}
<1>0. /\ TypeOK /\ ListsInv /\ PlacesInv /\ ControlInv /\ PromiseInv /\ WakersInv
      /\ SocketsInv /\ CountInv /\ DepthInv
      /\ io_waiters \in Seq(WaiterRecord) /\ sock \in [Fibers -> SocketRecord]
      /\ Watching \subseteq Fibers
  BY TypeFacts DEF IInv
<1>1. /\ io_waiters' = Selected(io_waiters, I)
      /\ dropped' = IF g \in Watching THEN dropped \cup {g} ELSE dropped
      /\ sock' = [sock EXCEPT ![g] = Closed]
      /\ pc = "fiber" /\ left' \in [Fibers -> 0 .. MaxEffects]
      /\ UNCHANGED <<run_queue, promise, kind, owed, status, fibers, result,
                     exn_ref, depth, pc, current, rewrapped>>
  BY <1>0, PerformsFacts DEF TcpClose, Unwatched, Watching, FibersOf, Continues, schedVars, Runs
<1>2. /\ io_waiters' \in Seq(WaiterRecord) /\ OneEach(io_waiters)'
      /\ Watching' = {io_waiters[i].fiber : i \in I}
  <2>1. OneEach(io_waiters) /\ I \in SUBSET DOMAIN io_waiters
    BY <1>0 DEF ListsInv
  <2> HIDE DEF I
  <2>2. /\ Selected(io_waiters, I) \in Seq(WaiterRecord) /\ OneEach(Selected(io_waiters, I))
        /\ FibersOf(Selected(io_waiters, I)) = {io_waiters[i].fiber : i \in I}
    BY <1>0, <2>1, SelectedLists
  <2> QED  BY <1>1, <2>2 DEF Watching
<1>3. {io_waiters[i].fiber : i \in I} = Watching \ {g}
  BY DEF Watching, FibersOf
<1>4. Watching' = Watching \ {g}
  BY <1>2, <1>3
<1> HIDE DEF I
<1>5. /\ Queued' = Queued /\ Suspended' = Suspended
      /\ \A p \in Fibers : Waiting(p)' = Waiting(p)
  BY <1>1 DEF Queued, Waiting, Suspended
<1>6. sock' \in [Fibers -> SocketRecord] /\ \A h \in Fibers : h # g => sock'[h] = sock[h]
  <2>1. Closed \in SocketRecord
    BY SchedulerAssumption DEF Closed, SocketRecord
  <2> QED  BY <1>0, <1>1, <2>1
<1>7. dropped' \subseteq Fibers
  BY <1>0, <1>1 DEF TypeOK
<1>8. TypeOK'
  BY <1>0, <1>1, <1>2, <1>6, <1>7 DEF TypeOK, WaiterRecord, SocketRecord
<1>9. ListsInv'
  BY <1>0, <1>1, <1>2, <1>4, <1>5 DEF ListsInv
<1>10. PlacesInv'
  BY <1>0, <1>1, <1>4, <1>5 DEF PlacesInv
<1>11. ControlInv' /\ PromiseInv' /\ WakersInv'
  BY <1>0, <1>1 DEF ControlInv, PromiseInv, WakersInv
<1>12. SocketsInv' /\ DepthInv'
  BY <1>0, <1>1, <1>4, <1>6 DEF SocketsInv, DepthInv
<1>13. CountInv'
  BY <1>0, <1>1 DEF CountInv, Counted
<1> QED  BY <1>8, <1>9, <1>10, <1>11, <1>12, <1>13 DEF IInv

(* Awaiting a promise that is pending: the fiber becomes its first waiter. *)
LEMMA AwaitPendingKeeps ==
    ASSUME IInv, NEW f \in Fibers, NEW p \in Fibers, Runs(f), Suspends(f), AddWaiter(p, f),
           promise[p].state = "Pending",
           owed' \in [Fibers -> Seq(Fibers)], left' \in [Fibers -> 0 .. MaxEffects],
           UNCHANGED <<io_waiters, kind, sock, dropped>>
    PROVE  IInv'
<1> DEFINE old == promise[p].waiters
           u == <<f>>
<1>0. /\ TypeOK /\ ListsInv /\ PlacesInv /\ PromiseInv /\ WakersInv /\ SocketsInv /\ DepthInv
      /\ promise \in [Fibers -> PromiseRecord] /\ old \in Seq(Fibers)
  BY TypeFacts DEF IInv
<1>1. promise' = [promise EXCEPT ![p].waiters = u \o @] /\ run_queue' = run_queue
  BY DEF AddWaiter
<1>2. /\ status' \in [Fibers -> {"unborn", "forked", "running", "blocked", "done", "raised"}]
      /\ fibers' \in Int /\ depth' \in Nat
      /\ result' \in BOOLEAN /\ exn_ref' \in BOOLEAN /\ rewrapped' \in BOOLEAN
      /\ pc' = "check" /\ current' \in Fibers \cup {NoFiber}
      /\ Suspended' = Suspended \cup {f}
      /\ ControlInv' /\ CountInv'
      /\ status'[f] = "blocked" /\ status[f] = "running"
      /\ \A g \in Fibers : g # f => status'[g] = status[g]
      /\ depth' >= depth
  BY SuspendsFacts
<1>3. /\ f \notin Queued /\ f \notin Watching /\ \A r \in Fibers : f \notin Waiting(r)
  BY RunningFacts DEF Runs
<1>4. u \in Seq(Fibers) /\ Elements(u) = {f} /\ Distinct(u)
  BY SingleLists
<1>5. Distinct(old) /\ Elements(old) = Waiting(p) /\ Elements(u) \cap Elements(old) = {}
  BY <1>0, <1>3, <1>4 DEF ListsInv, Waiting
<1> HIDE DEF u, old
<1>6. /\ u \o old \in Seq(Fibers) /\ Elements(u \o old) = {f} \cup Elements(old)
      /\ Distinct(u \o old)
  BY <1>0, <1>4, <1>5, ConcatLists
<1>7. /\ promise'[p].waiters = u \o old /\ promise'[p].state = promise[p].state
      /\ promise'[p] \in PromiseRecord
      /\ \A r \in Fibers : r # p => promise'[r] = promise[r]
      /\ promise' \in [Fibers -> PromiseRecord]
  <2>1. promise' = [promise EXCEPT ![p] = [promise[p] EXCEPT !.waiters = u \o old]]
    BY <1>0, <1>1 DEF old
  <2>2. promise[p] \in PromiseRecord
    BY <1>0
  <2>3. /\ [promise[p] EXCEPT !.waiters = u \o old] \in PromiseRecord
        /\ [promise[p] EXCEPT !.waiters = u \o old].waiters = u \o old
        /\ [promise[p] EXCEPT !.waiters = u \o old].state = promise[p].state
    BY <1>6, <2>2 DEF PromiseRecord
  <2> QED  BY <1>0, <2>1, <2>3
<1>8. /\ Waiting(p)' = Waiting(p) \cup {f} /\ Distinct(promise'[p].waiters)
      /\ \A r \in Fibers : r # p => Waiting(r)' = Waiting(r)
  BY <1>5, <1>6, <1>7 DEF Waiting
<1>9. Queued' = Queued /\ Watching' = Watching
  BY <1>1 DEF Queued, Watching
<1>10. TypeOK'
  BY <1>0, <1>1, <1>2, <1>7 DEF TypeOK, PromiseRecord
<1>11. ListsInv'
  <2>1. OneEach(run_queue)' /\ OneEach(io_waiters)' /\ (Queued \cap Watching = {})'
    BY <1>0, <1>1, <1>9 DEF ListsInv
  <2>2. \A r \in Fibers : /\ Distinct(promise'[r].waiters)
                          /\ Waiting(r)' \cap Queued' = {} /\ Waiting(r)' \cap Watching' = {}
    <3> TAKE r \in Fibers
    <3>1. /\ Distinct(promise[r].waiters)
          /\ Waiting(r) \cap Queued = {} /\ Waiting(r) \cap Watching = {}
      BY <1>0 DEF ListsInv
    <3>2. CASE r = p
      BY <1>3, <1>8, <1>9, <3>1, <3>2
    <3>3. CASE r # p
      BY <1>7, <1>8, <1>9, <3>1, <3>3
    <3> QED  BY <3>2, <3>3
  <2>3. \A r, q \in Fibers : r # q => Waiting(r)' \cap Waiting(q)' = {}
    <3> TAKE r, q \in Fibers
    <3> HAVE r # q
    <3>1. Waiting(r) \cap Waiting(q) = {} /\ f \notin Waiting(r) /\ f \notin Waiting(q)
      BY <1>0, <1>3 DEF ListsInv
    <3>2. \/ Waiting(r)' = Waiting(r) /\ Waiting(q)' = Waiting(q)
          \/ Waiting(r)' = Waiting(r) \cup {f} /\ Waiting(q)' = Waiting(q)
          \/ Waiting(r)' = Waiting(r) /\ Waiting(q)' = Waiting(q) \cup {f}
      BY <1>8
    <3> QED  BY <3>1, <3>2
  <2> QED  BY <2>1, <2>2, <2>3 DEF ListsInv
<1>12. PlacesInv'
  <2>1. Queued' \subseteq Suspended' /\ Watching' \subseteq Suspended'
    BY <1>0, <1>2, <1>9 DEF PlacesInv
  <2>2. \A r \in Fibers : Waiting(r)' \subseteq Suspended'
    BY <1>0, <1>2, <1>8 DEF PlacesInv
  <2>3. \A g \in Suspended' \ dropped' :
            g \in Queued' \/ g \in Watching' \/ \E r \in Fibers : g \in Waiting(r)'
    <3> TAKE g \in Suspended' \ dropped'
    <3>1. CASE g = f
      <4>1. g \in Waiting(p)'
        BY <1>8, <3>1
      <4> QED  BY <4>1
    <3>2. CASE g # f
      <4>1. g \in Suspended \ dropped
        BY <1>2, <3>2
      <4>2. g \in Queued \/ g \in Watching \/ \E r \in Fibers : g \in Waiting(r)
        BY <1>0, <4>1 DEF PlacesInv
      <4>3. \A r \in Fibers : g \in Waiting(r) => g \in Waiting(r)'
        BY <1>8
      <4> QED  BY <1>9, <4>2, <4>3
    <3> QED  BY <3>1, <3>2
  <2> QED  BY <2>1, <2>2, <2>3 DEF PlacesInv
<1>13. PromiseInv'
  <2>1. \A r \in Fibers : /\ promise'[r].state = promise[r].state
                          /\ promise[r].state # "Pending" => promise'[r] = promise[r]
    BY <1>7
  <2> QED  BY <1>0, <1>2, <2>1, SamePromises
<1>14. WakersInv'
  BY <1>0, <1>1, <1>7 DEF WakersInv
<1>15. SocketsInv'
  BY <1>0, <1>9 DEF SocketsInv
<1>16. DepthInv'
  <2>1. depth \in Nat
    BY <1>0 DEF TypeOK
  <2> QED  BY <1>0, <1>2, <1>9, <2>1 DEF DepthInv
<1> QED  BY <1>2, <1>10, <1>11, <1>12, <1>13, <1>14, <1>15, <1>16 DEF IInv

LEMMA AwaitKeeps ==
    ASSUME IInv, NEW f \in Fibers, NEW p \in Children, Await(f, p)
    PROVE  IInv'
<1>0. /\ TypeOK /\ sock \in [Fibers -> SocketRecord] /\ p \in Fibers
      /\ \A g \in Watching : sock[g].state # "none"
      /\ owed \in [Fibers -> Seq(Fibers)] /\ left \in [Fibers -> 0 .. MaxEffects]
  BY TypeFacts DEF IInv, SocketsInv, TypeOK, Fibers
<1>1. /\ Runs(f) /\ left' \in [Fibers -> 0 .. MaxEffects]
      /\ UNCHANGED <<io_waiters, kind, sock, dropped>>
  <2>1. Performs(f) \/ (Runs(f) /\ left' = left)
    BY DEF Await
  <2> QED  BY <1>0, <2>1, PerformsFacts DEF Await
<1>2. CASE promise[p].state = "Pending"
  <2>1. /\ AddWaiter(p, f) /\ Suspends(f)
        /\ owed' = IF owed[f] = <<>> THEN owed ELSE [owed EXCEPT ![f] = Tail(@)]
    BY <1>2 DEF Await
  <2>2. owed' \in [Fibers -> Seq(Fibers)]
    <3>1. owed[f] \in Seq(Fibers)
      BY <1>0
    <3>2. owed[f] # <<>> => Tail(owed[f]) \in Seq(Fibers)
      BY <3>1
    <3> QED  BY <1>0, <2>1, <3>2
  <2> QED  BY <1>0, <1>1, <1>2, <2>1, <2>2, AwaitPendingKeeps
<1>3. CASE promise[p].state # "Pending"
  <2>1. /\ owed' = [owed EXCEPT ![f] =
                       IF promise[p].state = "Failed" \/ @ = <<>> THEN <<>> ELSE Tail(@)]
        /\ Continues /\ UNCHANGED <<promise, run_queue>>
    BY <1>3 DEF Await
  <2>2. owed' \in [Fibers -> Seq(Fibers)]
    <3>1. owed[f] \in Seq(Fibers) /\ <<>> \in Seq(Fibers)
      BY <1>0
    <3>2. owed[f] # <<>> => Tail(owed[f]) \in Seq(Fibers)
      BY <3>1
    <3> QED  BY <1>0, <2>1, <3>1, <3>2
  <2> QED  BY <1>0, <1>1, <2>1, <2>2, ContinueKeeps DEF Runs
<1> QED  BY <1>2, <1>3

(* Fiber.both and Fiber.all: two bare fibers, which the switch does not    *)
(* count.                                                                  *)
LEMMA BothKeeps ==
    ASSUME IInv, NEW f \in Fibers, NEW a \in Children, NEW b \in Children, Both(f, a, b)
    PROVE  IInv'
<1> DEFINE u == <<Start(a), Start(b)>>
<1>0. /\ TypeOK /\ ListsInv /\ PlacesInv /\ ControlInv /\ PromiseInv /\ WakersInv
      /\ SocketsInv /\ CountInv /\ DepthInv
      /\ promise \in [Fibers -> PromiseRecord] /\ run_queue \in Seq(TaskRecord)
      /\ a \in Fibers /\ b \in Fibers
  BY TypeFacts DEF IInv, Fibers
<1>1. /\ run_queue' = run_queue \o u /\ left' \in [Fibers -> 0 .. MaxEffects]
      /\ pc = "fiber" /\ current = f
      /\ a # b /\ status[a] = "unborn" /\ status[b] = "unborn"
      /\ status' = [status EXCEPT ![a] = "forked", ![b] = "forked"]
      /\ kind' = [kind EXCEPT ![a] = "bare", ![b] = "bare"]
      /\ promise' = [promise EXCEPT ![a].state = "Pending", ![b].state = "Pending"]
      /\ owed' = [owed EXCEPT ![f] = <<a, b>>]
      /\ UNCHANGED <<io_waiters, sock, dropped, fibers, result, exn_ref, depth, pc, current,
                     rewrapped>>
  BY <1>0, PerformsFacts DEF Both, schedVars, Runs
<1>2. \A c \in {a, b} : /\ c \notin Queued /\ c \notin Watching /\ c \notin Suspended
                        /\ \A p \in Fibers : c \notin Waiting(p)
                        /\ promise[c].state = "none" /\ promise[c].waiters = <<>>
                        /\ c # Main /\ c \notin Counted /\ c # f
  <2> TAKE c \in {a, b}
  <2>1. c \in Fibers /\ status[c] = "unborn"
    BY <1>0, <1>1
  <2>2. c \notin Suspended /\ c \notin Counted
    BY <2>1 DEF Suspended, Counted
  <2>3. c # f
    BY <1>1, <2>1, RunningFacts
  <2> QED  BY <1>0, <2>1, <2>2, <2>3 DEF PlacesInv, PromiseInv
<1>3. /\ u \in Seq(TaskRecord) /\ Elements(u) = {Start(a), Start(b)}
      /\ FibersOf(u) = {a, b} /\ OneEach(u)
      /\ \A t \in Elements(u) : t.type # "awaited"
  <2>1. /\ Start(a) \in TaskRecord /\ Start(a).fiber = a /\ Start(a).type = "start"
        /\ Start(b) \in TaskRecord /\ Start(b).fiber = b /\ Start(b).type = "start"
    BY <1>0, TaskFacts
  <2>2. u \in Seq(TaskRecord) /\ DOMAIN u = {1, 2} /\ u[1] = Start(a) /\ u[2] = Start(b)
    BY <2>1
  <2> HIDE DEF u
  <2>3. Elements(u) = {Start(a), Start(b)} /\ FibersOf(u) = {a, b}
    BY <2>1, <2>2 DEF Elements, FibersOf
  <2>4. OneEach(u)
    BY <1>1, <2>1, <2>2 DEF OneEach
  <2> QED  BY <2>1, <2>2, <2>3, <2>4
<1> HIDE DEF u
<1>4. /\ run_queue' \in Seq(TaskRecord) /\ OneEach(run_queue)'
      /\ Elements(run_queue)' = Elements(run_queue) \cup Elements(u)
      /\ Queued' = Queued \cup {a, b}
  <2>1. FibersOf(run_queue) \cap FibersOf(u) = {} /\ OneEach(run_queue)
    BY <1>0, <1>2, <1>3 DEF Queued, ListsInv
  <2>2. /\ run_queue \o u \in Seq(TaskRecord) /\ OneEach(run_queue \o u)
        /\ Elements(run_queue \o u) = Elements(run_queue) \cup Elements(u)
        /\ FibersOf(run_queue \o u) = FibersOf(run_queue) \cup FibersOf(u)
    BY <1>0, <1>3, <2>1, ConcatLists
  <2> QED  BY <1>1, <1>3, <2>2 DEF Queued
<1>5. /\ promise' \in [Fibers -> PromiseRecord]
      /\ \A p \in Fibers : promise'[p].waiters = promise[p].waiters
      /\ promise'[a].state = "Pending" /\ promise'[b].state = "Pending"
      /\ \A p \in Fibers : p \notin {a, b} => promise'[p] = promise[p]
  <2>1. promise' = [promise EXCEPT ![a] = [promise[a] EXCEPT !.state = "Pending"],
                                   ![b] = [promise[b] EXCEPT !.state = "Pending"]]
    BY <1>0, <1>1
  <2>2. promise[a] \in PromiseRecord /\ promise[b] \in PromiseRecord
    BY <1>0
  <2>3. \A x \in PromiseRecord : /\ [x EXCEPT !.state = "Pending"] \in PromiseRecord
                                 /\ [x EXCEPT !.state = "Pending"].state = "Pending"
                                 /\ [x EXCEPT !.state = "Pending"].waiters = x.waiters
    BY DEF PromiseRecord
  <2> DEFINE pa == [promise[a] EXCEPT !.state = "Pending"]
             pb == [promise[b] EXCEPT !.state = "Pending"]
  <2>4. /\ pa \in PromiseRecord /\ pa.state = "Pending" /\ pa.waiters = promise[a].waiters
        /\ pb \in PromiseRecord /\ pb.state = "Pending" /\ pb.waiters = promise[b].waiters
        /\ promise' = [promise EXCEPT ![a] = pa, ![b] = pb]
    BY <2>1, <2>2, <2>3
  <2> HIDE DEF pa, pb
  <2>5. /\ promise' \in [Fibers -> PromiseRecord] /\ promise'[a] = pa /\ promise'[b] = pb
        /\ \A p \in Fibers : p \notin {a, b} => promise'[p] = promise[p]
    BY <1>0, <1>1, <2>4
  <2> QED  BY <2>4, <2>5
<1>6. Watching' = Watching /\ \A p \in Fibers : Waiting(p)' = Waiting(p)
  BY <1>1, <1>5 DEF Watching, Waiting
<1>7. /\ status' \in [Fibers -> {"unborn", "forked", "running", "blocked", "done", "raised"}]
      /\ status'[a] = "forked" /\ status'[b] = "forked"
      /\ \A g \in Fibers : g \notin {a, b} => status'[g] = status[g]
      /\ kind' \in [Fibers -> {"unit", "promise", "bare"}]
      /\ kind'[a] = "bare" /\ kind'[b] = "bare"
      /\ \A g \in Fibers : g \notin {a, b} => kind'[g] = kind[g]
  BY <1>0, <1>1 DEF TypeOK
<1>8. Suspended' = Suspended \cup {a, b}
  BY <1>0, <1>7 DEF Suspended
<1>9. owed' \in [Fibers -> Seq(Fibers)]
  <2>1. <<a, b>> \in Seq(Fibers)
    BY <1>0
  <2> QED  BY <1>0, <1>1, <2>1 DEF TypeOK
<1>10. TypeOK'
  BY <1>0, <1>1, <1>4, <1>5, <1>7, <1>9 DEF TypeOK, TaskRecord, PromiseRecord
<1>11. ListsInv'
  <2>1. OneEach(run_queue)' /\ OneEach(io_waiters)'
    BY <1>0, <1>1, <1>4 DEF ListsInv
  <2>2. \A p \in Fibers : Distinct(promise'[p].waiters)
    BY <1>0, <1>5 DEF ListsInv
  <2>3. (Queued \cap Watching = {})'
    BY <1>0, <1>2, <1>4, <1>6 DEF ListsInv
  <2>4. \A p \in Fibers : Waiting(p)' \cap Queued' = {} /\ Waiting(p)' \cap Watching' = {}
    <3> TAKE p \in Fibers
    <3>1. Waiting(p) \cap Queued = {} /\ Waiting(p) \cap Watching = {}
      BY <1>0 DEF ListsInv
    <3>2. a \notin Waiting(p) /\ b \notin Waiting(p)
      BY <1>2
    <3> QED  BY <1>4, <1>6, <3>1, <3>2
  <2>5. \A p, r \in Fibers : p # r => Waiting(p)' \cap Waiting(r)' = {}
    BY <1>0, <1>6 DEF ListsInv
  <2> QED  BY <2>1, <2>2, <2>3, <2>4, <2>5 DEF ListsInv
<1>12. PlacesInv'
  BY <1>0, <1>1, <1>4, <1>6, <1>8 DEF PlacesInv
<1>13. ControlInv'
  BY <1>0, <1>1, <1>2, <1>7 DEF ControlInv
<1>14. PromiseInv'
  <2>1. kind'[Main] = "unit" /\ status'[Main] # "unborn"
    BY <1>0, <1>2, <1>7 DEF PromiseInv, Fibers
  <2>2. ASSUME NEW g \in Fibers
        PROVE  /\ status'[g] = "unborn" => kind'[g] = "unit"
               /\ kind'[g] = "unit" <=> promise'[g].state = "none"
               /\ promise'[g].state # "Pending" => promise'[g].waiters = <<>>
               /\ kind'[g] # "unit" =>
                     (status'[g] \in {"done", "raised"} <=> promise'[g].state # "Pending")
    <3>1. CASE g \in {a, b}
      BY <1>5, <1>7, <3>1
    <3>2. CASE g \notin {a, b}
      BY <1>0, <1>5, <1>7, <3>2 DEF PromiseInv
    <3> QED  BY <3>1, <3>2
  <2> QED  BY <2>1, <2>2 DEF PromiseInv
<1>15. WakersInv'
  <2>1. \A t \in Elements(run_queue) : t.type = "awaited" =>
            t.on \in Fibers /\ t.on \notin {a, b} /\ promise[t.on].state \in {"Resolved", "Failed"}
    BY <1>0, <1>2 DEF WakersInv
  <2> QED  BY <1>3, <1>4, <1>5, <2>1 DEF WakersInv
<1>16. SocketsInv' /\ DepthInv'
  BY <1>0, <1>1, <1>6 DEF SocketsInv, DepthInv
<1>17. CountInv'
  <2>1. Counted' = Counted
    BY <1>1, <1>2, <1>7 DEF Counted
  <2> HIDE DEF Counted
  <2> QED  BY <1>0, <1>1, <2>1 DEF CountInv
<1> QED  BY <1>10, <1>11, <1>12, <1>13, <1>14, <1>15, <1>16, <1>17 DEF IInv

(* A promise is settled: those who wait on it move to the run queue. *)
LEMMA SettleFacts ==
    ASSUME IInv, NEW f \in Fibers, NEW state \in {"Resolved", "Failed"}, Settle(f, state)
    PROVE  /\ run_queue' \in Seq(TaskRecord) /\ OneEach(run_queue)'
           /\ \A t \in Elements(run_queue)' : t \in Elements(run_queue) \/ t.on = f
           /\ Queued' = Queued \cup Waiting(f)
           /\ promise' \in [Fibers -> PromiseRecord]
           /\ promise'[f] = [state |-> state, waiters |-> <<>>] /\ Waiting(f)' = {}
           /\ \A p \in Fibers : p # f => promise'[p] = promise[p] /\ Waiting(p)' = Waiting(p)
<1> DEFINE old == promise[f].waiters
           u == [i \in 1 .. Len(old) |-> Awaited(old[i], f)]
<1>0. /\ ListsInv /\ run_queue \in Seq(TaskRecord) /\ promise \in [Fibers -> PromiseRecord]
      /\ old \in Seq(Fibers)
  BY TypeFacts DEF IInv
<1>1. /\ promise' = [promise EXCEPT ![f] = [state |-> state, waiters |-> <<>>]]
      /\ run_queue' = run_queue \o u
  BY DEF Settle, Wakers
<1> HIDE DEF old
<1>2. /\ Len(old) \in Nat /\ DOMAIN old = 1 .. Len(old)
      /\ \A i \in 1 .. Len(old) : old[i] \in Fibers
  BY <1>0
<1>3. \A i \in 1 .. Len(old) : /\ Awaited(old[i], f) \in TaskRecord
                               /\ Awaited(old[i], f).fiber = old[i]
                               /\ Awaited(old[i], f).on = f
  BY <1>2, AwaitedFacts
<1>4. u \in Seq(TaskRecord) /\ DOMAIN u = DOMAIN old
  <2>1. u \in [1 .. Len(old) -> TaskRecord]
    BY <1>3
  <2> QED  BY <1>2, <2>1
<1>5. \A i \in DOMAIN old : u[i].fiber = old[i] /\ u[i].on = f
  BY <1>2, <1>3
<1> HIDE DEF u
<1>6. FibersOf(u) = Waiting(f)
  BY <1>4, <1>5 DEF FibersOf, Waiting, Elements, old
<1>7. OneEach(u)
  <2>1. Distinct(old)
    BY <1>0 DEF ListsInv, old
  <2> QED  BY <1>4, <1>5, <2>1 DEF OneEach, Distinct
<1>8. \A t \in Elements(u) : t.on = f
  BY <1>4, <1>5 DEF Elements
<1>9. OneEach(run_queue) /\ FibersOf(run_queue) \cap FibersOf(u) = {}
  BY <1>0, <1>6 DEF ListsInv, Queued
<1>10. /\ run_queue \o u \in Seq(TaskRecord) /\ OneEach(run_queue \o u)
       /\ Elements(run_queue \o u) = Elements(run_queue) \cup Elements(u)
       /\ FibersOf(run_queue \o u) = FibersOf(run_queue) \cup FibersOf(u)
  BY <1>0, <1>4, <1>7, <1>9, ConcatLists
<1>11. /\ run_queue' \in Seq(TaskRecord) /\ OneEach(run_queue)'
       /\ Elements(run_queue)' = Elements(run_queue) \cup Elements(u)
       /\ Queued' = Queued \cup Waiting(f)
  BY <1>1, <1>6, <1>10 DEF Queued
<1>12. /\ promise' \in [Fibers -> PromiseRecord]
       /\ promise'[f] = [state |-> state, waiters |-> <<>>]
       /\ \A p \in Fibers : p # f => promise'[p] = promise[p]
  <2>1. [state |-> state, waiters |-> <<>>] \in PromiseRecord
    BY DEF PromiseRecord
  <2> QED  BY <1>0, <1>1, <2>1
<1>13. Waiting(f)' = {} /\ \A p \in Fibers : p # f => Waiting(p)' = Waiting(p)
  <2>1. promise'[f].waiters = <<>>
    BY <1>12
  <2>2. Waiting(f)' = {}
    BY <2>1, EmptyLists DEF Waiting
  <2> QED  BY <1>12, <2>2 DEF Waiting
<1> QED  BY <1>8, <1>11, <1>12, <1>13

(* A fiber ends: the switch counts it no more, or never did. *)
LEMMA EndFacts ==
    ASSUME IInv, NEW f \in Fibers, NEW ok \in BOOLEAN, Finish(f, ok)
    PROVE  /\ status' \in [Fibers -> {"unborn", "forked", "running", "blocked", "done", "raised"}]
           /\ fibers' \in Int /\ depth' \in Nat /\ depth' >= depth
           /\ result' \in BOOLEAN /\ exn_ref' \in BOOLEAN /\ rewrapped' \in BOOLEAN
           /\ pc' = "check" /\ current' \in Fibers \cup {NoFiber}
           /\ Suspended' = Suspended
           /\ ControlInv' /\ CountInv'
           /\ status[f] = "running" /\ status'[f] \in {"done", "raised"}
           /\ \A g \in Fibers : g # f => status'[g] = status[g]
           /\ UNCHANGED <<io_waiters, kind, owed, left, sock, dropped>>
<1> DEFINE end == IF ok THEN "done" ELSE "raised"
<1>0. TypeOK /\ ControlInv /\ CountInv
  BY DEF IInv
<1>1. /\ pc = "fiber" /\ current = f
      /\ UNCHANGED <<io_waiters, kind, owed, left, sock, dropped>>
      /\ exn_ref' = (exn_ref \/ (f = Main /\ ~ok))
  BY DEF Finish, EndsUnit, EndsPromise, EndsBare
<1>2. \/ kind[f] \in {"unit", "promise"} /\ Leaves(f, end, FiberDone(fibers))
      \/ /\ kind[f] = "bare" /\ status' = [status EXCEPT ![f] = end]
         /\ pc' = "check" /\ current' = NoFiber
         /\ UNCHANGED <<fibers, result, depth, rewrapped>>
  BY DEF Finish, EndsUnit, EndsPromise, EndsBare
<1>3. status[f] = "running" /\ f \notin Suspended
  BY <1>1, RunningFacts
<1>4. end \in {"done", "raised"}
  OBVIOUS
<1> HIDE DEF end
<1>5. status' = [status EXCEPT ![f] = end] /\ pc' = "check" /\ current' = NoFiber
  BY <1>2 DEF Leaves
<1>6. /\ status' \in [Fibers -> {"unborn", "forked", "running", "blocked", "done", "raised"}]
      /\ status'[f] = end /\ \A g \in Fibers : g # f => status'[g] = status[g]
  BY <1>0, <1>4, <1>5 DEF TypeOK
<1>7. /\ fibers' \in Int
      /\ IF kind[f] = "bare" THEN fibers' = fibers ELSE fibers' <= fibers - 1
  BY <1>0, <1>2 DEF TypeOK, Leaves, FiberDone
<1>8. depth' \in Nat /\ depth' >= depth
  BY <1>0, <1>2 DEF TypeOK, Leaves
<1>9. result' \in BOOLEAN /\ rewrapped' \in BOOLEAN
  BY <1>0, <1>2, Zenon DEF TypeOK, Leaves
<1>10. exn_ref' \in BOOLEAN
  BY <1>0, <1>1, Zenon DEF TypeOK
<1>11. Suspended' = Suspended
  BY <1>3, <1>4, <1>6 DEF Suspended
<1>12. ControlInv'
  BY <1>0, <1>1, <1>4, <1>5, <1>6 DEF ControlInv
<1>13. CountInv'
  <2>1. Counted' = Counted \ {f}
    BY <1>1, <1>4, <1>6 DEF Counted
  <2>2. f \in Counted <=> kind[f] # "bare"
    BY <1>3 DEF Counted
  <2> HIDE DEF Counted
  <2>3. /\ IsFiniteSet(Counted')
        /\ Cardinality(Counted') =
              IF kind[f] # "bare" THEN Cardinality(Counted) - 1 ELSE Cardinality(Counted)
    BY <1>0, <2>1, <2>2, FS_RemoveElement DEF CountInv
  <2>4. Cardinality(Counted) \in Nat /\ fibers \in Int /\ fibers <= Cardinality(Counted)
    BY <1>0, FS_CardinalityType DEF CountInv, TypeOK
  <2>5. fibers' <= Cardinality(Counted')
    BY <1>7, <2>3, <2>4
  <2> QED  BY <2>3, <2>5 DEF CountInv
<1> QED  BY <1>1, <1>3, <1>4, <1>5, <1>6, <1>7, <1>8, <1>9, <1>10, <1>11, <1>12, <1>13

LEMMA FinishKeeps ==
    ASSUME IInv, NEW f \in Fibers, NEW ok \in BOOLEAN, Finish(f, ok)
    PROVE  IInv'
<1>0. TypeOK /\ ListsInv /\ PlacesInv /\ PromiseInv /\ WakersInv /\ SocketsInv /\ DepthInv
  BY DEF IInv
<1>1. /\ status' \in [Fibers -> {"unborn", "forked", "running", "blocked", "done", "raised"}]
      /\ fibers' \in Int /\ depth' \in Nat /\ depth' >= depth
      /\ result' \in BOOLEAN /\ exn_ref' \in BOOLEAN /\ rewrapped' \in BOOLEAN
      /\ pc' = "check" /\ current' \in Fibers \cup {NoFiber}
      /\ Suspended' = Suspended
      /\ ControlInv' /\ CountInv'
      /\ status[f] = "running" /\ status'[f] \in {"done", "raised"}
      /\ \A g \in Fibers : g # f => status'[g] = status[g]
      /\ UNCHANGED <<io_waiters, kind, owed, left, sock, dropped>>
  BY EndFacts
<1>2. /\ Watching' = Watching /\ SocketsInv'
      /\ kind'[Main] = "unit" /\ status'[Main] # "unborn"
  BY <1>0, <1>1 DEF Watching, SocketsInv, PromiseInv, Fibers
<1>3. DepthInv'
  <2>1. depth \in Nat
    BY <1>0 DEF TypeOK
  <2> QED  BY <1>0, <1>1, <1>2, <2>1 DEF DepthInv
<1>4. CASE kind[f] = "unit"
  <2>1. UNCHANGED <<promise, run_queue>>
    BY <1>4 DEF Finish, EndsUnit, EndsPromise, EndsBare
  <2>2. Queued' = Queued /\ \A p \in Fibers : Waiting(p)' = Waiting(p)
    BY <2>1 DEF Queued, Waiting
  <2>3. TypeOK'
    BY <1>0, <1>1, <2>1 DEF TypeOK
  <2>4. ListsInv' /\ PlacesInv'
    BY <1>0, <1>1, <1>2, <2>1, <2>2 DEF ListsInv, PlacesInv
  <2>5. PromiseInv'
    <3>1. ASSUME NEW g \in Fibers
          PROVE  /\ status'[g] = "unborn" => kind'[g] = "unit"
                 /\ kind'[g] = "unit" <=> promise'[g].state = "none"
                 /\ promise'[g].state # "Pending" => promise'[g].waiters = <<>>
                 /\ kind'[g] # "unit" =>
                       (status'[g] \in {"done", "raised"} <=> promise'[g].state # "Pending")
      <4>1. CASE g = f
        BY <1>0, <1>1, <1>4, <2>1, <4>1 DEF PromiseInv
      <4>2. CASE g # f
        BY <1>0, <1>1, <2>1, <4>2 DEF PromiseInv
      <4> QED  BY <4>1, <4>2
    <3> QED  BY <1>2, <3>1 DEF PromiseInv
  <2>6. WakersInv'
    BY <1>0, <2>1 DEF WakersInv
  <2> QED  BY <1>1, <1>2, <1>3, <2>3, <2>4, <2>5, <2>6 DEF IInv
<1>5. CASE kind[f] # "unit"
  <2>1. PICK state \in {"Resolved", "Failed"} : Settle(f, state)
    BY <1>5 DEF Finish, EndsUnit, EndsPromise, EndsBare
  <2>2. /\ run_queue' \in Seq(TaskRecord) /\ OneEach(run_queue)'
        /\ \A t \in Elements(run_queue)' : t \in Elements(run_queue) \/ t.on = f
        /\ Queued' = Queued \cup Waiting(f)
        /\ promise' \in [Fibers -> PromiseRecord]
        /\ promise'[f] = [state |-> state, waiters |-> <<>>] /\ Waiting(f)' = {}
        /\ \A p \in Fibers : p # f => promise'[p] = promise[p] /\ Waiting(p)' = Waiting(p)
    BY <2>1, SettleFacts
  <2>3. TypeOK'
    BY <1>0, <1>1, <2>2 DEF TypeOK, TaskRecord, PromiseRecord
  <2>4. ListsInv'
    <3>1. OneEach(run_queue)' /\ OneEach(io_waiters)' /\ (Queued \cap Watching = {})'
      BY <1>0, <1>1, <1>2, <2>2 DEF ListsInv
    <3>2. \A p \in Fibers : /\ Distinct(promise'[p].waiters)
                            /\ Waiting(p)' \cap Queued' = {} /\ Waiting(p)' \cap Watching' = {}
      <4> TAKE p \in Fibers
      <4>1. CASE p = f
        <5>1. promise'[f].waiters = <<>>
          BY <2>2
        <5> QED  BY <2>2, <4>1, <5>1, EmptyLists
      <4>2. CASE p # f
        BY <1>0, <1>2, <2>2, <4>2 DEF ListsInv
      <4> QED  BY <4>1, <4>2
    <3>3. \A p, r \in Fibers : p # r => Waiting(p)' \cap Waiting(r)' = {}
      <4> TAKE p, r \in Fibers
      <4> HAVE p # r
      <4>1. Waiting(p) \cap Waiting(r) = {}
        BY <1>0 DEF ListsInv
      <4>2. /\ Waiting(p)' = {} \/ Waiting(p)' = Waiting(p)
            /\ Waiting(r)' = {} \/ Waiting(r)' = Waiting(r)
        BY <2>2
      <4> QED  BY <4>1, <4>2
    <3> QED  BY <3>1, <3>2, <3>3 DEF ListsInv
  <2>5. PlacesInv'
    <3>1. /\ Queued' \subseteq Suspended' /\ Watching' \subseteq Suspended'
          /\ \A p \in Fibers : Waiting(p)' \subseteq Suspended'
      BY <1>0, <1>1, <1>2, <2>2 DEF PlacesInv
    <3>2. \A g \in Suspended' \ dropped' :
              g \in Queued' \/ g \in Watching' \/ \E p \in Fibers : g \in Waiting(p)'
      <4> TAKE g \in Suspended' \ dropped'
      <4>1. g \in Queued \/ g \in Watching \/ \E p \in Fibers : g \in Waiting(p)
        BY <1>0, <1>1 DEF PlacesInv
      <4>2. \A p \in Fibers : g \in Waiting(p) => g \in Queued' \/ g \in Waiting(p)'
        BY <2>2
      <4> QED  BY <1>2, <2>2, <4>1, <4>2
    <3> QED  BY <3>1, <3>2 DEF PlacesInv
  <2>6. PromiseInv'
    <3>1. ASSUME NEW g \in Fibers
          PROVE  /\ status'[g] = "unborn" => kind'[g] = "unit"
                 /\ kind'[g] = "unit" <=> promise'[g].state = "none"
                 /\ promise'[g].state # "Pending" => promise'[g].waiters = <<>>
                 /\ kind'[g] # "unit" =>
                       (status'[g] \in {"done", "raised"} <=> promise'[g].state # "Pending")
      <4>1. CASE g = f
        <5>1. promise'[g].state = state /\ promise'[g].waiters = <<>>
          BY <2>2, <4>1
        <5> QED  BY <1>1, <1>5, <2>1, <4>1, <5>1
      <4>2. CASE g # f
        BY <1>0, <1>1, <2>2, <4>2 DEF PromiseInv
      <4> QED  BY <4>1, <4>2
    <3> QED  BY <1>2, <3>1 DEF PromiseInv
  <2>7. WakersInv'
    <3>1. \A p \in Fibers : promise[p].state \in {"Resolved", "Failed"} =>
              promise'[p].state \in {"Resolved", "Failed"}
      BY <2>1, <2>2
    <3>2. promise'[f].state \in {"Resolved", "Failed"}
      BY <2>1, <2>2
    <3> QED  BY <1>0, <2>2, <3>1, <3>2 DEF WakersInv
  <2> QED  BY <1>1, <1>2, <1>3, <2>3, <2>4, <2>5, <2>6, <2>7 DEF IInv
<1> QED  BY <1>4, <1>5

-----------------------------------------------------------------------------
(* The theorems                                                            *)

LEMMA NextKeeps == IInv /\ [Next]_vars => IInv'
<1> SUFFICES ASSUME IInv, [Next]_vars PROVE IInv'
  OBVIOUS
<1>1. CASE CheckIoCompletions
  BY <1>1, CheckIoKeeps
<1>2. CASE TakeTask
  BY <1>2, TakeTaskKeeps
<1>3. CASE Idle
  BY <1>3, IdleKeeps
<1>4. ASSUME NEW f \in Fibers, FiberStep(f) PROVE IInv'
  <2>1. CASE Yield(f)
    BY <2>1, YieldKeeps
  <2>2. CASE TcpConnect(f)
    BY <2>2, TcpConnectKeeps
  <2>3. CASE TcpRead(f)
    BY <2>3, TcpReadKeeps
  <2>4. CASE NetEffect(f)
    BY <2>4, NetEffectKeeps
  <2>5. CASE \E ok \in BOOLEAN : Finish(f, ok)
    BY <2>5, FinishKeeps
  <2>6. CASE \E c \in Children : Fork(f, c, "unit") \/ Fork(f, c, "promise")
    BY <2>6, ForkKeeps
  <2>7. CASE \E a, b \in Children : Both(f, a, b)
    BY <2>7, BothKeeps
  <2>8. CASE \E p \in Children : Await(f, p)
    BY <2>8, AwaitKeeps
  <2>9. CASE \E g \in Fibers : TcpClose(f, g)
    BY <2>9, TcpCloseKeeps
  <2> QED  BY <1>4, <2>1, <2>2, <2>3, <2>4, <2>5, <2>6, <2>7, <2>8, <2>9 DEF FiberStep
<1>5. CASE UNCHANGED vars
  <2>1. UNCHANGED <<run_queue, io_waiters, promise, status, kind, owed, left, sock, dropped,
                    fibers, result, exn_ref, depth, pc, current, rewrapped>>
    BY <1>5 DEF vars, schedVars
  <2>2. TypeOK' /\ ControlInv' /\ PromiseInv' /\ WakersInv'
    BY <2>1 DEF IInv, TypeOK, ControlInv, PromiseInv, WakersInv
  <2>3. /\ Queued' = Queued /\ Watching' = Watching /\ Suspended' = Suspended
        /\ \A p \in Fibers : Waiting(p)' = Waiting(p)
    BY <2>1 DEF Queued, Watching, Waiting, Suspended
  <2>4. ListsInv' /\ PlacesInv'
    BY <2>1, <2>3 DEF IInv, ListsInv, PlacesInv
  <2>5. SocketsInv' /\ DepthInv'
    BY <2>1, <2>3 DEF IInv, SocketsInv, DepthInv
  <2>6. CountInv'
    BY <2>1 DEF IInv, CountInv, Counted
  <2> QED  BY <2>2, <2>4, <2>5, <2>6 DEF IInv
<1> QED  BY <1>1, <1>2, <1>3, <1>4, <1>5 DEF Next

(* The invariant holds of every behaviour, whatever the fibers do and      *)
(* however often: of any number of fibers, with any timeout.               *)
THEOREM InductiveInvariant == Spec => []IInv
BY InitIInv, NextKeeps, PTL DEF Spec

(* Every variable keeps its type; the counter of a waiter stays within     *)
(* max_timeout and the counter of fibers is a number.                      *)
THEOREM TypeCorrect == Spec => []TypeOK
<1>1. IInv => TypeOK
  BY DEF IInv
<1> QED  BY <1>1, InductiveInvariant, PTL

(* The places of a fiber in one list: at most one, one if it is there.     *)
LEMMA PlacesInList ==
    ASSUME NEW s, NEW f, OneEach(s)
    PROVE  LET I == {i \in DOMAIN s : s[i].fiber = f} IN
           /\ IsFiniteSet(I) /\ Cardinality(I) = IF f \in FibersOf(s) THEN 1 ELSE 0
<1> DEFINE I == {i \in DOMAIN s : s[i].fiber = f}
<1>1. CASE f \in FibersOf(s)
  <2>1. PICK i \in DOMAIN s : s[i].fiber = f
    BY <1>1 DEF FibersOf
  <2>2. I = {i}
    BY <2>1 DEF OneEach
  <2> QED  BY <1>1, <2>2, FS_Singleton
<1>2. CASE f \notin FibersOf(s)
  <2>1. I = {}
    BY <1>2 DEF FibersOf
  <2> QED  BY <1>2, <2>1, FS_EmptySet
<1> QED  BY <1>1, <1>2

(* The places of a fiber among the waiters of all promises. *)
LEMMA PlacesOnPromises ==
    ASSUME IInv, NEW f \in Fibers
    PROVE  LET I == UNION {{p} \X {i \in DOMAIN promise[p].waiters : promise[p].waiters[i] = f} :
                              p \in Children} IN
           /\ IsFiniteSet(I)
           /\ Cardinality(I) = IF \E p \in Children : f \in Waiting(p) THEN 1 ELSE 0
<1> DEFINE at(p) == {i \in DOMAIN promise[p].waiters : promise[p].waiters[i] = f}
           I == UNION {{p} \X at(p) : p \in Children}
<1>0. /\ \A p \in Children : p \in Fibers /\ Distinct(promise[p].waiters)
      /\ \A p, r \in Children : p # r => Waiting(p) \cap Waiting(r) = {}
  BY DEF IInv, ListsInv, Fibers
<1>1. \A p : f \in Waiting(p) <=> at(p) # {}
  BY DEF Waiting, Elements
<1>2. CASE \E p \in Children : f \in Waiting(p)
  <2>1. PICK p \in Children : f \in Waiting(p)
    BY <1>2
  <2>2. PICK i \in at(p) : TRUE
    BY <1>1, <2>1
  <2>3. at(p) = {i}
    BY <1>0, <2>2 DEF Distinct
  <2>4. \A r \in Children : r # p => at(r) = {}
    BY <1>0, <1>1, <2>1
  <2> HIDE DEF at
  <2>5. I = {<<p, i>>}
    BY <2>3, <2>4
  <2> HIDE DEF I
  <2>6. IsFiniteSet(I) /\ Cardinality(I) = 1
    <3>1. IsFiniteSet({<<p, i>>}) /\ Cardinality({<<p, i>>}) = 1
      BY FS_Singleton, Zenon
    <3> QED  BY <2>5, <3>1
  <2> QED  BY <1>2, <2>6 DEF I, at
<1>3. CASE ~\E p \in Children : f \in Waiting(p)
  <2>1. \A p \in Children : at(p) = {}
    BY <1>1, <1>3
  <2> HIDE DEF at
  <2>2. I = {}
    BY <2>1
  <2> HIDE DEF I
  <2>3. IsFiniteSet(I) /\ Cardinality(I) = 0
    BY <2>2, FS_EmptySet
  <2> QED  BY <1>3, <2>3 DEF I, at
<1> QED  BY <1>2, <1>3

(* A fiber is in one place if it is suspended and not dropped, in one at   *)
(* most if it is suspended, and in none otherwise.                         *)
LEMMA PlacesOfFiber ==
    ASSUME IInv, NEW f \in Fibers
    PROVE  /\ Resumers(f) \in {0, 1}
           /\ f \notin Suspended => Resumers(f) = 0
           /\ f \in Suspended \ dropped => Resumers(f) = 1
<1> DEFINE q == Cardinality({i \in DOMAIN run_queue : run_queue[i].fiber = f})
           w == Cardinality({i \in DOMAIN io_waiters : io_waiters[i].fiber = f})
           r == Cardinality(UNION {{p} \X {i \in DOMAIN promise[p].waiters :
                                              promise[p].waiters[i] = f} : p \in Children})
<1>0. ListsInv /\ PlacesInv /\ PromiseInv
  BY DEF IInv
<1>1. q = IF f \in Queued THEN 1 ELSE 0
  BY <1>0, PlacesInList DEF ListsInv, Queued
<1>2. w = IF f \in Watching THEN 1 ELSE 0
  BY <1>0, PlacesInList DEF ListsInv, Watching
<1>3. r = IF \E p \in Children : f \in Waiting(p) THEN 1 ELSE 0
  BY PlacesOnPromises
<1>4. Resumers(f) = q + w + r
  BY DEF Resumers
<1> HIDE DEF q, w, r
<1>5. /\ ~(f \in Queued /\ f \in Watching)
      /\ (\E p \in Children : f \in Waiting(p)) => f \notin Queued /\ f \notin Watching
  BY <1>0 DEF ListsInv, Fibers
<1>6. f \notin Suspended =>
          f \notin Queued /\ f \notin Watching /\ ~\E p \in Children : f \in Waiting(p)
  BY <1>0 DEF PlacesInv, Fibers
<1>7. Waiting(Main) = {}
  <2>1. promise[Main].waiters = <<>>
    BY <1>0 DEF PromiseInv, Fibers
  <2> QED  BY <2>1, EmptyLists DEF Waiting
<1>8. f \in Suspended \ dropped =>
          f \in Queued \/ f \in Watching \/ \E p \in Children : f \in Waiting(p)
  BY <1>0, <1>7 DEF PlacesInv, Fibers
<1> DEFINE onPromise == \E p \in Children : f \in Waiting(p)
<1> HIDE DEF onPromise
<1>9. /\ r = IF onPromise THEN 1 ELSE 0
      /\ ~(f \in Queued /\ f \in Watching)
      /\ onPromise => f \notin Queued /\ f \notin Watching
      /\ f \notin Suspended => f \notin Queued /\ f \notin Watching /\ ~onPromise
      /\ f \in Suspended \ dropped => f \in Queued \/ f \in Watching \/ onPromise
  BY <1>3, <1>5, <1>6, <1>8 DEF onPromise
<1> QED  BY <1>1, <1>2, <1>4, <1>9

(* A continuation is resumed at most once: the closures that resume a      *)
(* suspended fiber are never two, and a fiber that runs or has ended has   *)
(* none.                                                                   *)
THEOREM ResumedOnceHolds == Spec => []ResumedOnce
<1>1. IInv => ResumedOnce
  BY PlacesOfFiber DEF ResumedOnce, Suspended
<1> QED  BY <1>1, InductiveInvariant, PTL

(* A suspended fiber is known to the run queue, the waiters or a promise,  *)
(* unless another fiber closed the socket it waited for.                   *)
THEOREM NotForgottenHolds == Spec => []NotForgotten
<1>1. IInv => NotForgotten
  BY PlacesOfFiber DEF NotForgotten, Suspended
<1> QED  BY <1>1, InductiveInvariant, PTL

(* A waker that runs finds its promise settled: "Promise still pending"    *)
(* is never raised.                                                        *)
THEOREM WakersSeeSettledHolds == Spec => []WakersSeeSettled
<1>1. IInv => WakersSeeSettled
  BY DEF IInv, WakersInv, WakersSeeSettled, Elements
<1> QED  BY <1>1, InductiveInvariant, PTL

(* A promise is settled exactly when its fiber has ended, and then nobody  *)
(* is left among its waiters.                                              *)
THEOREM SettledAtTheEndHolds == Spec => []SettledAtTheEnd
<1>1. IInv => SettledAtTheEnd
  BY DEF IInv, PromiseInv, SettledAtTheEnd, Fibers
<1> QED  BY <1>1, InductiveInvariant, PTL

(* check_io_completions probes open sockets only. *)
THEOREM WatchedSocketsOpenHolds == Spec => []WatchedSocketsOpen
<1>1. IInv => WatchedSocketsOpen
  BY DEF IInv, SocketsInv, WatchedSocketsOpen, Watching, FibersOf
<1> QED  BY <1>1, InductiveInvariant, PTL

(* The switch never counts a fiber that has ended. *)
THEOREM NoPhantomFibersHolds == Spec => []NoPhantomFibers
<1>1. IInv => NoPhantomFibers
  BY DEF IInv, CountInv, NoPhantomFibers
<1> QED  BY <1>1, InductiveInvariant, PTL

(* Switch.run returns with an empty run queue and no child waiting for a   *)
(* socket.                                                                 *)
THEOREM ReturnAbandonsNoIoHolds == Spec => []ReturnAbandonsNoIo
<1>1. IInv => ReturnAbandonsNoIo
  <2> SUFFICES ASSUME IInv, pc = "returned"
               PROVE  run_queue = <<>> /\ \A i \in DOMAIN io_waiters : io_waiters[i].fiber = Main
    BY DEF ReturnAbandonsNoIo
  <2>1. run_queue = <<>> /\ \A f \in Watching : f = Main
    BY DEF IInv, DepthInv
  <2> QED  BY <2>1 DEF Watching, FibersOf
<1> QED  BY <1>1, InductiveInvariant, PTL

=============================================================================
