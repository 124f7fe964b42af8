----------------------------- MODULE Clock_proofs -----------------------------
(***************************************************************************)
(* Proof, for any day, timer width and network, that the unsynchronised    *)
(* reading of two atomics spoils one frame at a time: two frames in a row  *)
(* never mix synchronisations, as long as these are further apart than     *)
(* frames are; and that every other frame shows the right time.  Then what *)
(* the arithmetic of the clock computes, for every input.                  *)
(***************************************************************************)
EXTENDS Clock, ClockTime, TLAPS

(* 60000 against 1000 in the code *)
Unhurried == Resync > Second

PlaceInv ==
    /\ pc0 \in {"query", "base", "sync", "wait"}
    /\ pc1 \in {"base", "sync", "show", "sleep"}
    /\ left0 \in Nat /\ left1 \in 0 .. Second
    /\ overtaken \in BOOLEAN

(* Core 0 has just set sync_ms, and no time has passed since. *)
JustSynced == pc0 = "wait" /\ left0 = Resync

(* A set of base_secs between the reads is that of a synchronisation that  *)
(* is under way or has just ended.                                         *)
OvertakenInv == pc1 = "sync" /\ overtaken => pc0 = "sync" \/ JustSynced

(* From a mixed frame until the next one core 0 stays in the wait that     *)
(* follows the synchronisation.                                            *)
MixedInv ==
    frame = "mixed" =>
        /\ pc1 = "show" => pc0 = "sync" \/ JustSynced
        /\ pc1 = "sleep" =>
              \/ pc0 = "sync" /\ left1 = Second
              \/ pc0 = "wait" /\ left0 - left1 = Resync - Second
        /\ pc1 \in {"base", "sync"} => pc0 = "wait" /\ left0 = Resync - Second
        /\ pc1 = "sync" => ~overtaken

IInv == PlaceInv /\ OvertakenInv /\ MixedInv /\ MixedOnce

LEMMA InitIInv == Init => IInv
<1> SUFFICES ASSUME Init  PROVE IInv
  OBVIOUS
<1>1. MaxQuery \in Nat /\ Second \in Nat
  BY ClockAssumption
<1>2. /\ pc0 = "query" /\ left0 = MaxQuery /\ pc1 = "base" /\ left1 = 0
      /\ overtaken = FALSE /\ frame = "unset"
  BY Zenon DEF Init
<1>3. PlaceInv
  <2>1. left0 \in Nat /\ left1 \in 0 .. Second
    BY <1>1, <1>2
  <2> QED  BY <1>2, <2>1, Zenon DEF PlaceInv
<1>4. OvertakenInv /\ MixedInv /\ MixedOnce
  BY <1>2, Zenon DEF OvertakenInv, MixedInv, MixedOnce
<1> QED  BY <1>3, <1>4 DEF IInv

LEMMA IInvInductive == Unhurried /\ IInv /\ [Next]_vars => IInv'
<1> SUFFICES ASSUME Unhurried, IInv, [Next]_vars  PROVE IInv'
  OBVIOUS
<1> USE ClockAssumption DEF IInv, PlaceInv, OvertakenInv, MixedInv, MixedOnce, JustSynced,
    Unhurried, clockVars, ntpVars, displayVars
<1>1. CASE Tick
  BY <1>1 DEF Tick
<1>2. CASE NtpAnswers
  BY <1>2 DEF NtpAnswers
<1>3. CASE NtpFails
  BY <1>3 DEF NtpFails
<1>4. CASE SetBase
  BY <1>4 DEF SetBase
<1>5. CASE SetSync
  BY <1>5 DEF SetSync
<1>6. CASE QueryAgain
  BY <1>6 DEF QueryAgain
<1>7. CASE ReadBase
  BY <1>7 DEF ReadBase
<1>8. CASE ReadSync
  BY <1>8 DEF ReadSync
<1>9. CASE Show
  BY <1>9 DEF Show
<1>10. CASE ShowAgain
  BY <1>10 DEF ShowAgain
<1>11. CASE UNCHANGED vars
  BY <1>11 DEF vars
<1> QED
  BY <1>1, <1>2, <1>3, <1>4, <1>5, <1>6, <1>7, <1>8, <1>9, <1>10, <1>11 DEF Next

(* Two frames in a row never mix synchronisations. *)
THEOREM MixedOnceHolds ==
    ASSUME Unhurried
    PROVE  Spec => []MixedOnce
<1>1. Unhurried
  OBVIOUS
<1>2. IInv => MixedOnce
  BY DEF IInv
<1>3. IInv /\ [Next]_vars => IInv'
  BY <1>1, IInvInductive
<1> QED  BY InitIInv, <1>2, <1>3, PTL DEF Spec

-----------------------------------------------------------------------------
(* Division, and the difference of two times although the timer has        *)
(* wrapped                                                                 *)

LEMMA DivMod ==
    ASSUME NEW m \in Nat \ {0}, NEW x \in Int
    PROVE  /\ x % m \in 0 .. m - 1 /\ x \div m \in Int
           /\ x = m * (x \div m) + (x % m)
  BY SMT

LEMMA ModUnique ==
    ASSUME NEW m \in Nat \ {0}, NEW q \in Int, NEW r \in 0 .. m - 1
    PROVE  (m * q + r) % m = r
  BY SMT

(* A remainder is at most the number itself. *)
LEMMA ModAtMost ==
    ASSUME NEW m \in Nat \ {0}, NEW q \in Int, NEW b \in Nat
    PROVE  (b + m * q) % m <= b
<1>1. /\ b % m \in 0 .. m - 1 /\ b \div m \in Int
      /\ b = m * (b \div m) + (b % m)
  BY DivMod
<1> DEFINE c == b \div m
           r == b % m
<1> HIDE DEF c, r
<1>2. c \in Int /\ r \in 0 .. m - 1 /\ b = m * c + r
  BY <1>1 DEF c, r
<1>3. b + m * q = m * (q + c) + r
  BY <1>2, SMT
<1>4. (m * (q + c) + r) % m = r
  BY <1>2, ModUnique
<1>5. r <= b
  BY <1>2, SMT
<1> QED  BY <1>3, <1>4, <1>5

(* Quotients by a divisor compare as the numbers do. *)
LEMMA Between ==
    ASSUME NEW m \in Nat \ {0}, NEW b \in Int, NEW n \in Nat,
           -m < m * b, m * b <= n
    PROVE  b \in Nat /\ b <= n \div m
<1>1. b \in Nat
  BY SMT
<1>2. /\ n % m \in 0 .. m - 1 /\ n \div m \in Int
      /\ n = m * (n \div m) + (n % m)
  BY DivMod
<1>3. m * b < m * ((n \div m) + 1)
  BY <1>2, SMT
<1>4. b < (n \div m) + 1
  BY <1>2, <1>3, SMT
<1> QED  BY <1>1, <1>2, <1>4

(* The difference of two times, although the timer has wrapped. *)
LEMMA WrapRange ==
    ASSUME NEW n \in Int
    PROVE  Wrap(n) \in Timer
<1>1. 2 * Half \in Nat \ {0} /\ Half \in Nat
  BY ClockAssumption, SMT
<1>2. (n + Half) % (2 * Half) \in 0 .. 2 * Half - 1
  BY <1>1, DivMod
<1> QED  BY <1>1, <1>2 DEF Wrap, Timer

LEMMA WrapCases ==
    ASSUME NEW n \in Int, -3 * Half <= n, n < 3 * Half
    PROVE  Wrap(n) = IF n < -Half THEN n + 2 * Half
                     ELSE IF n < Half THEN n ELSE n - 2 * Half
<1> DEFINE m == 2 * Half
<1>1. m \in Nat \ {0} /\ Half \in Nat
  BY ClockAssumption, SMT
<1>2. \A q \in Int, r \in 0 .. m - 1 : (m * q + r) % m = r
  BY <1>1, ModUnique
<1>3. CASE n < -Half
  <2>1. n + 3 * Half \in 0 .. m - 1 /\ n + Half = m * (-1) + (n + 3 * Half)
    BY <1>1, <1>3
  <2>2. (n + Half) % m = n + 3 * Half
    BY <1>2, <2>1
  <2> QED  BY <1>1, <1>3, <2>2 DEF Wrap
<1>4. CASE ~(n < -Half) /\ n < Half
  <2>1. n + Half \in 0 .. m - 1 /\ n + Half = m * 0 + (n + Half)
    BY <1>1, <1>4
  <2>2. (n + Half) % m = n + Half
    BY <1>2, <2>1
  <2> QED  BY <1>1, <1>4, <2>2 DEF Wrap
<1>5. CASE ~(n < Half)
  <2>1. n - Half \in 0 .. m - 1 /\ n + Half = m * 1 + (n - Half)
    BY <1>1, <1>5
  <2>2. (n + Half) % m = n - Half
    BY <1>2, <2>1
  <2> QED  BY <1>1, <1>5, <2>2 DEF Wrap
<1> QED  BY <1>3, <1>4, <1>5

(* The time since s, by the timer *)
Since(s) == Wrap(timer - s)

(* A tick adds one to the time since s, unless the clock has gone round. *)
LEMMA TickElapses ==
    ASSUME NEW t \in Timer, NEW s \in Timer, Wrap(t - s) < Half - 1
    PROVE  /\ Wrap(t + 1) \in Timer
           /\ Wrap(Wrap(t + 1) - s) = Wrap(t - s) + 1
<1>1. Half \in Nat \ {0} /\ t \in Int /\ s \in Int /\ -Half <= t /\ t < Half
      /\ -Half <= s /\ s < Half
  BY ClockAssumption DEF Timer
<1>2. Wrap(t + 1) = IF t + 1 < Half THEN t + 1 ELSE t + 1 - 2 * Half
  BY <1>1, WrapCases
<1>3. Wrap(t + 1) \in Timer
  BY <1>1, <1>2 DEF Timer
<1> DEFINE u == Wrap(t + 1)
<1>4. u \in Int /\ -Half <= u /\ u < Half
  BY <1>1, <1>3 DEF Timer
<1>5. Wrap(u - s) = IF u - s < -Half THEN u - s + 2 * Half
                    ELSE IF u - s < Half THEN u - s ELSE u - s - 2 * Half
  BY <1>1, <1>4, WrapCases
<1>6. Wrap(t - s) = IF t - s < -Half THEN t - s + 2 * Half
                    ELSE IF t - s < Half THEN t - s ELSE t - s - 2 * Half
  BY <1>1, WrapCases
<1>7. Wrap(u - s) = Wrap(t - s) + 1
  <2> HIDE DEF u
  <2>1. u = IF t + 1 < Half THEN t + 1 ELSE t + 1 - 2 * Half
    BY <1>2 DEF u
  <2> QED  BY <1>1, <1>4, <1>5, <1>6, <2>1
<1> QED  BY <1>3, <1>7

-----------------------------------------------------------------------------
(* The longest time between two synchronisations, before the timer has     *)
(* gone half round: 12 days of queries that fail                           *)
Longest == (MaxFails + 1) * (Resync + MaxQuery)

Frequent == Longest < Half

(* The ticks of k queries *)
Rounds(k) == k * (Resync + MaxQuery)

ElapsedInv ==
    /\ Since(sync_ms) \in 0 .. Longest
    /\ pc0 = "query" => left0 <= MaxQuery /\ Since(sync_ms) <= Rounds(fails + 1) - left0
    /\ pc0 = "wait" => left0 <= Resync /\ Since(sync_ms) <= Rounds(fails) + Resync - left0
    /\ pc1 = "show" => Since(sm) \in 0 .. Longest

(* A time of day b that is e ticks old is right at the time t. *)
ShowsAt(b, e, t) ==
    \E k \in 0 .. MaxLag + Second - 1, q \in Int :
        b * Second + k + e = t + (Day * Second) * q

Right(b, s) == ShowsAt(b, Since(s), time)

(* What core 0 has set is right, and so is what core 1 has read, if both   *)
(* parts belong to one synchronisation.                                    *)
AccurateInv ==
    /\ pc0 = "base" => ShowsAt(answer, 0, time)
    /\ pc0 = "sync" => ShowsAt(base_secs, 0, time)
    /\ pc0 # "sync" /\ synced => Right(base_secs, sync_ms)
    /\ pc1 = "sync" /\ ~overtaken => bs = base_secs
    /\ pc1 = "sync" /\ synced /\ (overtaken <=> pc0 = "sync") => Right(bs, sync_ms)
    /\ pc1 = "show" /\ frame = "whole" => Right(bs, sm)

(* Between the reads of core 1 a set of base_secs is never an old one,      *)
(* however far apart queries are.                                          *)
LEMMA OvertakenKept ==
    PlaceInv /\ OvertakenInv /\ [Next]_vars => PlaceInv' /\ OvertakenInv'
<1> SUFFICES ASSUME PlaceInv, OvertakenInv, [Next]_vars
             PROVE  PlaceInv' /\ OvertakenInv'
  OBVIOUS
<1> USE ClockAssumption DEF PlaceInv, OvertakenInv, JustSynced, clockVars, ntpVars, displayVars
<1>1. CASE Tick
  BY <1>1 DEF Tick
<1>2. CASE NtpAnswers
  BY <1>2 DEF NtpAnswers
<1>3. CASE NtpFails
  BY <1>3 DEF NtpFails
<1>4. CASE SetBase
  BY <1>4 DEF SetBase
<1>5. CASE SetSync
  BY <1>5 DEF SetSync
<1>6. CASE QueryAgain
  BY <1>6 DEF QueryAgain
<1>7. CASE ReadBase
  BY <1>7 DEF ReadBase
<1>8. CASE ReadSync
  BY <1>8 DEF ReadSync
<1>9. CASE Show
  BY <1>9 DEF Show
<1>10. CASE ShowAgain
  BY <1>10 DEF ShowAgain
<1>11. CASE UNCHANGED vars
  BY <1>11 DEF vars
<1> QED
  BY <1>1, <1>2, <1>3, <1>4, <1>5, <1>6, <1>7, <1>8, <1>9, <1>10, <1>11 DEF Next

LEMMA TypePlaces == TypeOK => PlaceInv
  BY DEF TypeOK, PlaceInv

LEMMA RoundFacts ==
    /\ Rounds(0) = 0 /\ Rounds(MaxFails + 1) = Longest /\ Longest \in Nat
    /\ \A k \in 0 .. MaxFails :
         /\ Rounds(k) \in Nat /\ Rounds(k + 1) = Rounds(k) + Resync + MaxQuery
         /\ Rounds(k + 1) <= Longest
<1> DEFINE P == Resync + MaxQuery
<1>1. P \in Nat /\ MaxFails \in Nat /\ Resync \in Nat /\ MaxQuery \in Nat
  BY ClockAssumption
<1>2. \A k \in Nat : k * P \in Nat /\ (k + 1) * P = k * P + P
  BY <1>1, SMT
<1>3. \A k \in 0 .. MaxFails : (k + 1) * P <= (MaxFails + 1) * P
  BY <1>1, SMT
<1>4. \A k \in 0 .. MaxFails : k \in Nat
  BY <1>1
<1>5. 0 * P = 0
  BY <1>1, SMT
<1>6. (MaxFails + 1) * P \in Nat
  BY <1>1, <1>2
<1>7. \A k \in Nat : k * P + P = k * P + Resync + MaxQuery
  BY <1>1, <1>2
<1> QED  BY <1>2, <1>3, <1>4, <1>5, <1>6, <1>7 DEF Rounds, Longest

LEMMA DayFacts ==
    /\ Day \in Nat \ {0} /\ Second \in Nat \ {0}
    /\ Day * Second \in Nat \ {0} /\ Half \in Nat \ {0} /\ MaxLag \in Nat
<1>1. Day \in Nat \ {0} /\ Second \in Nat \ {0} /\ Half \in Nat \ {0} /\ MaxLag \in Nat
  BY ClockAssumption
<1>2. Day * Second \in Nat \ {0}
  BY <1>1, SMT
<1> QED  BY <1>1, <1>2

(* What shows the right time now, one tick older shows it a tick later. *)
LEMMA TickShows ==
    ASSUME NEW b \in Int, NEW e \in Int, NEW t \in Int, ShowsAt(b, e, t)
    PROVE  ShowsAt(b, e + 1, (t + 1) % (Day * Second))
<1> DEFINE D == Day * Second
           r == (t + 1) % D
           j == (t + 1) \div D
<1>1. D \in Nat \ {0} /\ Second \in Nat
  BY DayFacts
<1>2. PICK k \in 0 .. MaxLag + Second - 1 : \E q \in Int : b * Second + k + e = t + D * q
  BY DEF ShowsAt
<1>3. PICK q \in Int : b * Second + k + e = t + D * q
  BY <1>2
<1>4. r \in 0 .. D - 1 /\ j \in Int /\ t + 1 = D * j + r
  <2> HIDE DEF D
  <2> QED  BY <1>1, DivMod
<1>5. b * Second \in Int
  BY <1>1, SMT
<1> HIDE DEF D, r, j
<1>6. k \in Int
  BY DayFacts
<1>7. D * (q + j) = D * q + D * j /\ D * q \in Int /\ D * j \in Int
  BY <1>1, <1>4, SMT
<1>8. b * Second + k + (e + 1) = r + D * (q + j)
  BY <1>3, <1>4, <1>5, <1>6, <1>7, SMT
<1>9. q + j \in Int
  BY <1>4
<1> QED  BY <1>8, <1>9 DEF ShowsAt, D, r

(* The server's answer is right, of its age. *)
LEMMA AnswerShows ==
    ASSUME NEW t \in 0 .. Day * Second - 1, NEW lag \in 0 .. MaxLag
    PROVE  LET a == ((t + Day * Second - lag) % (Day * Second)) \div Second
           IN  a \in 0 .. Day - 1 /\ ShowsAt(a, 0, t)
<1> DEFINE D == Day * Second
           n == t + D - lag
           r == n % D
           j == n \div D
           a == r \div Second
           c == r % Second
<1>1. /\ D \in Nat \ {0} /\ Second \in Nat \ {0} /\ Day \in Nat \ {0} /\ MaxLag \in Nat
      /\ D = Second * Day /\ t \in 0 .. D - 1
  BY DayFacts, SMT
<1> HIDE DEF D
<1>2. n \in Int
  BY <1>1
<1>3. r \in 0 .. D - 1 /\ j \in Int /\ n = D * j + r
  BY <1>1, <1>2, DivMod
<1>4. n = t + D - lag
  OBVIOUS
<1> HIDE DEF n, r, j
<1>5. c \in 0 .. Second - 1 /\ a \in Int /\ r = Second * a + c
  BY <1>1, <1>3, DivMod
<1> HIDE DEF a, c
<1>6. a \in 0 .. Day - 1
  <2>1. r \in Int /\ 0 <= r /\ r < Second * Day
    BY <1>1, <1>3
  <2>2. -Second < Second * a /\ Second * a < Second * Day
    BY <1>1, <1>5, <2>1, SMT
  <2> QED  BY <1>1, <1>5, <2>2, SMT
<1>7. a * Second + (c + lag) + 0 = t + D * (1 - j)
  BY <1>1, <1>3, <1>4, <1>5, SMT
<1>8. c + lag \in 0 .. MaxLag + Second - 1 /\ 1 - j \in Int
  BY <1>1, <1>3, <1>5
<1>9. ShowsAt(a, 0, t)
  BY <1>7, <1>8 DEF ShowsAt, D
<1> QED  BY <1>6, <1>9 DEF a, r, n, D

(* Seconds computes a time of day, which is right if base and elapsed time *)
(* are: never ahead, and behind by no more than Tolerance.                 *)
LEMMA ShownRight ==
    ASSUME NEW b \in 0 .. Day - 1, NEW e \in Nat, NEW t \in 0 .. Day * Second - 1
    PROVE  LET d == Remainder(b + Quotient(e, Second), Day)
           IN  /\ d \in 0 .. Day - 1
               /\ ShowsAt(b, e, t) => (t \div Second + Day - d) % Day <= Tolerance
<1> DEFINE D == Day * Second
           E == e \div Second
           c == e % Second
           Q == (b + E) \div Day
           d == (b + E) % Day
           m == t \div Second
           n == t % Second
<1>1. /\ D \in Nat \ {0} /\ Second \in Nat \ {0} /\ Day \in Nat \ {0} /\ MaxLag \in Nat
      /\ D = Second * Day /\ t \in Int
  BY DayFacts, SMT
<1> HIDE DEF D
<1>2. c \in 0 .. Second - 1 /\ E \in Int /\ e = Second * E + c
  BY <1>1, DivMod
<1>3. n \in 0 .. Second - 1 /\ m \in Int /\ t = Second * m + n
  BY <1>1, DivMod
<1>4. Quotient(e, Second) = E
  BY DEF Quotient
<1> HIDE DEF E, c, m, n
<1>5. E \in Nat
  BY <1>1, <1>2, SMT
<1>6. d \in 0 .. Day - 1 /\ Q \in Int /\ b + E = Day * Q + d
  <2> DEFINE sum == b + E
  <2>1. sum \in Int /\ d = sum % Day /\ Q = sum \div Day
    BY <1>5
  <2> HIDE DEF sum, d, Q
  <2>2. d \in 0 .. Day - 1 /\ Q \in Int /\ sum = Day * Q + d
    BY <1>1, <2>1, DivMod
  <2> QED  BY <2>2 DEF sum
<1>7. Remainder(b + E, Day) = d
  <2>1. Quotient(b + E, Day) = Q
    BY <1>1, <1>5 DEF Quotient
  <2> HIDE DEF d, Q
  <2>2. Day * Q \in Int
    BY <1>1, <1>6, SMT
  <2> QED  BY <1>1, <1>5, <1>6, <2>1, <2>2 DEF Remainder
<1> HIDE DEF d, Q
<1>8. ASSUME ShowsAt(b, e, t)
      PROVE  (m + Day - d) % Day <= Tolerance
  <2>1. PICK k \in 0 .. MaxLag + Second - 1 : \E q \in Int : b * Second + k + e = t + D * q
    BY <1>8 DEF ShowsAt, D
  <2>2. PICK q \in Int : b * Second + k + e = t + D * q
    BY <2>1
  <2> DEFINE B == m - d + Day * (q - Q)
             N == MaxLag + 2 * (Second - 1)
  <2>3. B \in Int /\ N \in Nat
    BY <1>1, <1>3, <1>6, SMT
  <2>4. Second * B = k + c - n
    <3>1. D * q = Second * (Day * q)
      BY <1>1, SMT
    <3>2. Second * (b + E) + k + c = Second * m + n + Second * (Day * q)
      BY <1>1, <1>2, <1>3, <1>5, <2>2, <3>1, SMT
    <3>3. Second * (Day * Q + d) + k + c = Second * m + n + Second * (Day * q)
      BY <1>6, <3>2
    <3>4. Second * B = Second * m - Second * d + Second * (Day * q) - Second * (Day * Q)
      BY <1>1, <1>3, <1>6, SMT
    <3>5. Second * (Day * Q + d) = Second * (Day * Q) + Second * d
      BY <1>1, <1>6, SMT
    <3> QED  BY <1>1, <1>2, <1>3, <1>6, <3>3, <3>4, <3>5, SMT
  <2>5. B \in Nat /\ B <= N \div Second
    <3> HIDE DEF B
    <3>1. -Second < Second * B /\ Second * B <= N
      BY <1>1, <1>2, <1>3, <2>3, <2>4
    <3> HIDE DEF N
    <3> QED  BY <1>1, <2>3, <3>1, Between
  <2>6. m + Day - d = B + Day * (1 - (q - Q))
    BY <1>1, <1>3, <1>6, SMT
  <2>7. (B + Day * (1 - (q - Q))) % Day <= B
    <3> HIDE DEF B
    <3>1. 1 - (q - Q) \in Int
      BY <1>6
    <3> QED  BY <1>1, <2>5, <3>1, ModAtMost
  <2>8. (m + Day - d) % Day \in Int /\ N \div Second \in Int
    <3>1. m + Day - d \in Int
      BY <1>1, <1>3, <1>6
    <3> QED  BY <1>1, <2>3, <3>1, DivMod
  <2> HIDE DEF B
  <2> QED  BY <2>3, <2>5, <2>6, <2>7, <2>8 DEF Tolerance
<1> QED  BY <1>4, <1>6, <1>7, <1>8 DEF m

LEMMA InitShown == Frequent /\ Init => TypeOK /\ OvertakenInv /\ ElapsedInv /\ AccurateInv
<1> SUFFICES ASSUME Frequent, Init
             PROVE  TypeOK /\ OvertakenInv /\ ElapsedInv /\ AccurateInv
  OBVIOUS
<1>1. /\ timer = 0 /\ sync_ms = 0 /\ sm = 0 /\ time \in 0 .. Day * Second - 1
      /\ pc0 = "query" /\ left0 = MaxQuery /\ fails = 0 /\ pc1 = "base" /\ left1 = 0
      /\ synced = FALSE /\ overtaken = FALSE /\ frame = "unset" /\ previous = "unset"
      /\ base_secs = 0 /\ bs = 0 /\ day_secs = 0 /\ answer = 0
  BY DEF Init
<1>2. /\ 0 \in Timer /\ 0 \in 0 .. Day - 1 /\ 0 \in 0 .. Second /\ 0 \in 0 .. MaxFails
      /\ MaxQuery \in Nat
  BY ClockAssumption, DayFacts DEF Timer
<1>3. TypeOK
  BY <1>1, <1>2 DEF TypeOK
<1>4. Since(sync_ms) = 0
  BY <1>1, DayFacts, WrapCases DEF Since
<1>5. /\ Rounds(1) = Resync + MaxQuery /\ Resync \in Nat /\ Longest \in Nat
  BY <1>2, RoundFacts, ClockAssumption DEF Rounds
<1>6. ElapsedInv
  BY <1>1, <1>2, <1>4, <1>5 DEF ElapsedInv
<1>7. OvertakenInv /\ AccurateInv
  BY <1>1 DEF OvertakenInv, AccurateInv
<1> QED  BY <1>3, <1>6, <1>7

LEMMA TickKeeps ==
    Frequent /\ TypeOK /\ ElapsedInv /\ AccurateInv /\ Tick
        => TypeOK' /\ ElapsedInv' /\ AccurateInv'
<1> SUFFICES ASSUME Frequent, TypeOK, ElapsedInv, AccurateInv, Tick
             PROVE  TypeOK' /\ ElapsedInv' /\ AccurateInv'
  OBVIOUS
<1>1. /\ pc0 \in {"query", "wait"} /\ left0 > 0 /\ pc1 = "sleep" /\ left1 > 0
      /\ timer' = Wrap(timer + 1) /\ time' = (time + 1) % (Day * Second)
      /\ left0' = left0 - 1 /\ left1' = left1 - 1
  BY DEF Tick
<1>2. /\ pc0' = pc0 /\ pc1' = pc1 /\ base_secs' = base_secs /\ sync_ms' = sync_ms
      /\ synced' = synced /\ answer' = answer /\ fails' = fails /\ bs' = bs /\ sm' = sm
      /\ day_secs' = day_secs /\ overtaken' = overtaken /\ frame' = frame
      /\ previous' = previous
  BY DEF Tick, clockVars
<1>3. /\ timer \in Timer /\ sync_ms \in Timer /\ time \in Int /\ base_secs \in Int
      /\ fails \in 0 .. MaxFails /\ left0 \in Nat /\ left1 \in 0 .. Second
  BY DayFacts DEF TypeOK
<1>4. Since(sync_ms) \in Nat
  BY RoundFacts DEF ElapsedInv
<1>5. Since(sync_ms) < Longest
  <2>1. /\ Rounds(fails) \in Nat /\ Rounds(fails + 1) = Rounds(fails) + Resync + MaxQuery
        /\ Rounds(fails + 1) <= Longest /\ Longest \in Nat /\ MaxQuery \in Nat /\ Resync \in Nat
    BY <1>3, RoundFacts, ClockAssumption
  <2> QED  BY <1>1, <1>3, <1>4, <2>1 DEF ElapsedInv
<1>6. timer' \in Timer /\ Since(sync_ms)' = Since(sync_ms) + 1
  <2>1. Since(sync_ms) < Half - 1
    BY <1>4, <1>5, RoundFacts, DayFacts DEF Frequent
  <2> QED  BY <1>1, <1>2, <1>3, <2>1, TickElapses DEF Since
<1>7. time' \in 0 .. Day * Second - 1
  <2>1. time + 1 \in Int
    BY <1>3
  <2> QED  BY <1>1, <2>1, DayFacts, DivMod
<1>8. TypeOK'
  <2>1. left0' \in Nat /\ left1' \in 0 .. Second
    BY <1>1, <1>3, DayFacts
  <2> QED  BY <1>2, <1>6, <1>7, <2>1 DEF TypeOK, Timer
<1>9. ElapsedInv'
  <2>1. Since(sync_ms)' \in 0 .. Longest
    BY <1>4, <1>5, <1>6, RoundFacts
  <2>2. pc0 = "query" => left0' <= MaxQuery /\ Since(sync_ms)' <= Rounds(fails + 1) - left0'
    <3>1. Rounds(fails + 1) \in Int /\ MaxQuery \in Nat
      BY <1>3, RoundFacts, ClockAssumption
    <3> QED  BY <1>1, <1>3, <1>4, <1>6, <3>1 DEF ElapsedInv
  <2>3. pc0 = "wait" => left0' <= Resync /\ Since(sync_ms)' <= Rounds(fails) + Resync - left0'
    <3>1. Rounds(fails) \in Int /\ Resync \in Nat
      BY <1>3, RoundFacts, ClockAssumption
    <3> QED  BY <1>1, <1>3, <1>4, <1>6, <3>1 DEF ElapsedInv
  <2> QED  BY <1>1, <1>2, <2>1, <2>2, <2>3 DEF ElapsedInv, Rounds
<1>10. AccurateInv'
  <2>1. synced => Right(base_secs, sync_ms)'
    <3> SUFFICES ASSUME synced  PROVE Right(base_secs, sync_ms)'
      OBVIOUS
    <3>1. ShowsAt(base_secs, Since(sync_ms), time)
      BY <1>1 DEF AccurateInv, Right
    <3>2. ShowsAt(base_secs, Since(sync_ms) + 1, time')
      BY <1>1, <1>3, <1>4, <3>1, TickShows
    <3> QED  BY <1>2, <1>6, <3>2 DEF Right
  <2> QED  BY <1>1, <1>2, <2>1 DEF AccurateInv
<1> QED  BY <1>8, <1>9, <1>10

(* Every other step takes no time.                                         *)
LEMMA StepKeeps ==
    ASSUME Frequent, TypeOK, OvertakenInv, ElapsedInv, AccurateInv, [Next]_vars, ~Tick
    PROVE  TypeOK' /\ ElapsedInv' /\ AccurateInv'
<1>1. timer' = timer /\ time' = time
  BY DEF Next, NtpAnswers, NtpFails, SetBase, SetSync, QueryAgain, ReadBase, ReadSync, Show,
         ShowAgain, vars
<1>2. /\ timer \in Timer /\ sync_ms \in Timer /\ time \in 0 .. Day * Second - 1
      /\ fails \in 0 .. MaxFails /\ left0 \in Nat /\ left1 \in 0 .. Second
      /\ bs \in 0 .. Day - 1 /\ base_secs \in 0 .. Day - 1 /\ answer \in 0 .. Day - 1
  BY DEF TypeOK
<1>3. /\ Resync \in Nat /\ MaxQuery \in Nat /\ MaxFails \in Nat /\ Second \in Nat
      /\ Longest \in Nat /\ Rounds(0) = 0
  BY ClockAssumption, RoundFacts
<1>4. Since(timer) = 0
  <2>1. timer - timer = 0
    BY <1>2 DEF Timer
  <2> QED  BY <2>1, DayFacts, WrapCases DEF Since
<1> USE DEF clockVars, ntpVars, displayVars
<1>5. CASE NtpAnswers
  <2>1. PICK lag \in 0 .. MaxLag :
          answer' = ((time + Day * Second - lag) % (Day * Second)) \div Second
    BY <1>5 DEF NtpAnswers
  <2>2. answer' \in 0 .. Day - 1 /\ ShowsAt(answer', 0, time)
    BY <1>2, <2>1, AnswerShows
  <2>3. pc0 = "query" /\ pc0' = "base" /\ left0' = 0 /\ fails' = 0
        /\ UNCHANGED <<timer, time, clockVars, displayVars, overtaken>>
    BY <1>5 DEF NtpAnswers
  <2>4. TypeOK'
    BY <1>3, <2>2, <2>3 DEF TypeOK, Timer
  <2>5. ElapsedInv'
    BY <2>3 DEF ElapsedInv, Since
  <2>6. AccurateInv'
    BY <2>2, <2>3 DEF AccurateInv, Right, Since
  <2> QED  BY <2>4, <2>5, <2>6
<1>6. CASE NtpFails
  <2>1. /\ pc0 = "query" /\ fails < MaxFails /\ fails' = fails + 1 /\ pc0' = "wait"
        /\ left0' = Resync
        /\ UNCHANGED <<timer, time, clockVars, answer, displayVars, overtaken>>
    BY <1>6 DEF NtpFails
  <2>2. TypeOK'
    <3>1. fails' \in 0 .. MaxFails /\ left0' \in Nat
      BY <1>2, <1>3, <2>1
    <3> QED  BY <2>1, <3>1 DEF TypeOK, Timer
  <2>3. ElapsedInv'
    <3>1. Since(sync_ms) \in Nat
      BY <1>3 DEF ElapsedInv
    <3>2. Rounds(fails') \in Nat /\ Rounds(fails') = Rounds(fails + 1)
      <4>1. fails + 1 \in 0 .. MaxFails
        BY <1>2, <1>3, <2>1
      <4> QED  BY <2>1, <4>1, RoundFacts
    <3>3. left0' <= Resync /\ Since(sync_ms) <= Rounds(fails') + Resync - left0'
      BY <1>2, <1>3, <2>1, <3>1, <3>2 DEF ElapsedInv
    <3> QED  BY <2>1, <3>3 DEF ElapsedInv, Since, Rounds
  <2>4. AccurateInv'
    BY <2>1 DEF AccurateInv, Right, Since
  <2> QED  BY <2>2, <2>3, <2>4
<1>7. CASE SetBase
  <2>1. /\ pc0 = "base" /\ base_secs' = answer /\ overtaken' = TRUE /\ pc0' = "sync"
        /\ UNCHANGED <<timer, time, sync_ms, synced, left0, answer, fails, displayVars>>
    BY <1>7 DEF SetBase
  <2>2. TypeOK'
    BY <1>2, <2>1 DEF TypeOK, Timer
  <2>3. ElapsedInv'
    BY <2>1 DEF ElapsedInv, Since
  <2>4. pc1 = "sync" => ~overtaken
    BY <2>1 DEF OvertakenInv, JustSynced
  <2>5. AccurateInv'
    BY <2>1, <2>4 DEF AccurateInv, Right, Since
  <2> QED  BY <2>2, <2>3, <2>5
<1>8. CASE SetSync
  <2>1. /\ pc0 = "sync" /\ sync_ms' = timer /\ synced' = TRUE /\ pc0' = "wait"
        /\ left0' = Resync
        /\ UNCHANGED <<timer, time, base_secs, answer, fails, displayVars, overtaken>>
    BY <1>8 DEF SetSync
  <2>2. TypeOK'
    BY <1>2, <1>3, <2>1 DEF TypeOK, Timer
  <2>3. Since(sync_ms)' = 0
    BY <1>4, <2>1 DEF Since
  <2>4. ElapsedInv'
    <3>1. Rounds(fails) \in Nat
      BY <1>2, RoundFacts
    <3> QED  BY <1>3, <2>1, <2>3, <3>1 DEF ElapsedInv, Since, Rounds
  <2>5. Right(base_secs, sync_ms)'
    BY <2>1, <2>3 DEF AccurateInv, Right
  <2>6. AccurateInv'
    BY <2>1, <2>5 DEF AccurateInv, Right, Since
  <2> QED  BY <2>2, <2>4, <2>6
<1>9. CASE QueryAgain
  <2>1. /\ pc0 = "wait" /\ left0 = 0 /\ pc0' = "query" /\ left0' = MaxQuery
        /\ UNCHANGED <<timer, time, clockVars, answer, fails, displayVars, overtaken>>
    BY <1>9 DEF QueryAgain
  <2>2. TypeOK'
    BY <1>3, <2>1 DEF TypeOK, Timer
  <2>3. ElapsedInv'
    <3>1. /\ Rounds(fails) \in Nat /\ Rounds(fails + 1) = Rounds(fails) + Resync + MaxQuery
      BY <1>2, RoundFacts
    <3>2. Since(sync_ms) \in Nat
      BY <1>3 DEF ElapsedInv
    <3>3. Since(sync_ms) <= Rounds(fails + 1) - left0'
      BY <1>3, <2>1, <3>1, <3>2 DEF ElapsedInv
    <3>4. left0' <= MaxQuery
      BY <1>3, <2>1
    <3> QED  BY <2>1, <3>3, <3>4 DEF ElapsedInv, Since, Rounds
  <2>4. AccurateInv'
    BY <2>1 DEF AccurateInv, Right, Since
  <2> QED  BY <2>2, <2>3, <2>4
<1>10. CASE ReadBase
  BY <1>10 DEF ReadBase, TypeOK, Timer, ElapsedInv, AccurateInv, Right, Since, Rounds
<1>11. CASE ReadSync
  <2>1. TypeOK'
    BY <1>11 DEF ReadSync, TypeOK, Timer
  <2>2. ElapsedInv'
    BY <1>11 DEF ReadSync, ElapsedInv, Since
  <2>3. AccurateInv'
    BY <1>11 DEF ReadSync, TypeOK, AccurateInv, Right, Since
  <2> QED  BY <2>1, <2>2, <2>3
<1>12. CASE Show
  <2>1. /\ pc1 = "show" /\ day_secs' = Seconds /\ pc1' = "sleep" /\ left1' = Second
        /\ UNCHANGED <<timer, time, clockVars, ntpVars, bs, sm, overtaken, frame, previous>>
    BY <1>12 DEF Show
  <2>2. Since(sm) \in Nat
    BY <1>3, <2>1 DEF ElapsedInv
  <2>3. day_secs' \in 0 .. Day - 1
    BY <1>2, <2>1, <2>2, ShownRight DEF Seconds, Elapsed, Since
  <2>4. TypeOK'
    BY <1>3, <2>1, <2>3 DEF TypeOK, Timer
  <2>5. ElapsedInv'
    BY <2>1 DEF ElapsedInv, Since
  <2>6. AccurateInv'
    BY <2>1 DEF AccurateInv, Right, Since
  <2> QED  BY <2>4, <2>5, <2>6
<1>13. CASE ShowAgain
  BY <1>13 DEF ShowAgain, TypeOK, Timer, ElapsedInv, AccurateInv, Right, Since
<1>14. CASE UNCHANGED vars
  BY <1>14 DEF vars, TypeOK, Timer, ElapsedInv, AccurateInv, Right, Since, Rounds
<1> QED
  BY <1>5, <1>6, <1>7, <1>8, <1>9, <1>10, <1>11, <1>12, <1>13, <1>14 DEF Next

ShownInv == TypeOK /\ OvertakenInv /\ ElapsedInv /\ AccurateInv

LEMMA ShownInvInductive == Frequent /\ ShownInv /\ [Next]_vars => ShownInv'
<1> SUFFICES ASSUME Frequent, ShownInv, [Next]_vars  PROVE ShownInv'
  OBVIOUS
<1>1. OvertakenInv'
  BY OvertakenKept, TypePlaces DEF ShownInv
<1>2. TypeOK' /\ ElapsedInv' /\ AccurateInv'
  BY TickKeeps, StepKeeps DEF ShownInv
<1> QED  BY <1>1, <1>2 DEF ShownInv

(* Every variable keeps its type. What is shown is never below zero or     *)
(* past the end of the day, whatever the two reads of core 1 got.          *)
THEOREM TypeCorrect ==
    ASSUME Frequent
    PROVE  Spec => []TypeOK
<1>1. Frequent
  OBVIOUS
<1>2. Init => ShownInv
  BY <1>1, InitShown DEF ShownInv
<1>3. ShownInv /\ [Next]_vars => ShownInv'
  BY <1>1, ShownInvInductive
<1>4. ShownInv => TypeOK
  BY DEF ShownInv
<1> QED  BY <1>2, <1>3, <1>4, PTL DEF Spec

(* A frame that does not mix synchronisations is right, although the timer *)
(* wraps: not fast, and slow by the age of the answer and what rounding    *)
(* cuts off.                                                               *)
THEOREM FrameAccurateHolds ==
    ASSUME Frequent
    PROVE  Spec => FrameAccurate
<1>1. Frequent
  OBVIOUS
<1>2. Init => ShownInv
  BY <1>1, InitShown DEF ShownInv
<1>3. ShownInv /\ [Next]_vars => ShownInv'
  BY <1>1, ShownInvInductive
<1>4. ShownInv /\ [Next]_vars
        => [Show /\ frame = "whole" => Behind(day_secs') <= Tolerance]_vars
  <2> SUFFICES ASSUME ShownInv, Show, frame = "whole"
               PROVE  Behind(day_secs') <= Tolerance
    OBVIOUS
  <2>1. /\ pc1 = "show" /\ day_secs' = Seconds
        /\ bs \in 0 .. Day - 1 /\ time \in 0 .. Day * Second - 1
    BY DEF Show, ShownInv, TypeOK
  <2>2. Since(sm) \in Nat /\ ShowsAt(bs, Since(sm), time)
    BY <2>1, RoundFacts DEF ShownInv, ElapsedInv, AccurateInv, Right
  <2> QED  BY <2>1, <2>2, ShownRight DEF Behind, Seconds, Elapsed, Since
<1> QED  BY <1>2, <1>3, <1>4, PTL DEF Spec, FrameAccurate

-----------------------------------------------------------------------------
(* The factor 15616 of clock.ml:61 stands for 2^24: the result is the time *)
(* of day for all 2^32 timestamps, and no intermediate value reaches 2^30, *)
(* the first that is not an OCaml integer.                                 *)
THEOREM NtpTimeOfDay ==
    ASSUME NEW b0 \in Byte, NEW b1 \in Byte, NEW b2 \in Byte, NEW b3 \in Byte
    PROVE  /\ Raw(b0, b1, b2, b3) \in Nat /\ Raw(b0, b1, b2, b3) < 1073741824
           /\ SecondsOfDay(b0, b1, b2, b3) = Seconds1900(b0, b1, b2, b3) % 86400
<1>1. /\ Raw(b0, b1, b2, b3) \in Nat
      /\ Raw(b0, b1, b2, b3) < 1073741824
  BY SMT DEF Raw, Byte
<1>2. Seconds1900(b0, b1, b2, b3) = Raw(b0, b1, b2, b3) + 86400 * (194 * b0)
  BY SMT DEF Seconds1900, Raw, Byte
<1>3. \A n \in Nat, k \in Nat : (n + 86400 * k) % 86400 = n % 86400
  BY SMT
<1>4. 194 * b0 \in Nat
  BY SMT DEF Byte
<1>5. Seconds1900(b0, b1, b2, b3) % 86400 = Raw(b0, b1, b2, b3) % 86400
  BY <1>1, <1>2, <1>3, <1>4, SMT
<1> QED  BY <1>1, <1>5, SMT DEF SecondsOfDay

(* What core 0 puts together again is the time of day it took apart, and   *)
(* every digit that core 1 shows, tens and units of the three numbers, is  *)
(* a digit.                                                                *)
THEOREM TimeRecombined ==
    ASSUME NEW s \in Nat, s < 86400
    PROVE  /\ Hours(s) * 3600 + Minutes(s) * 60 + SecondsPast(s) = s
           /\ \A n \in {Hours(s), Minutes(s), SecondsPast(s)} :
                 n \div 10 \in 0 .. 9 /\ n % 10 \in 0 .. 9
<1>1. Hours(s) * 3600 + Minutes(s) * 60 + SecondsPast(s) = s
  BY SMT DEF Hours, Minutes, SecondsPast
<1>2. \A n \in {Hours(s), Minutes(s), SecondsPast(s)} : n \in Nat /\ n < 100
  BY SMT DEF Hours, Minutes, SecondsPast
<1>3. \A n \in Nat : n < 100 => n \div 10 \in 0 .. 9 /\ n % 10 \in 0 .. 9
  BY SMT
<1>4. \A n \in {Hours(s), Minutes(s), SecondsPast(s)} :
        n \div 10 \in 0 .. 9 /\ n % 10 \in 0 .. 9
  BY <1>2, <1>3
<1> QED  BY <1>1, <1>4

(* Every digit is drawn from its own twelve of the table's 120 entries.    *)
THEOREM SegmentsInTable ==
    ASSUME NEW d \in 0 .. 9, NEW row \in 0 .. 3, NEW c \in 0 .. 2,
           NEW e \in 0 .. 9, NEW line \in 0 .. 3, NEW b \in 0 .. 2
    PROVE  /\ Segment(d, row, c) \in Nat /\ Segment(d, row, c) < 120
           /\ Segment(d, row, c) = Segment(e, line, b) => d = e /\ row = line /\ c = b
<1>1. d \in Nat /\ row \in Nat /\ c \in Nat /\ d < 10 /\ row < 4 /\ c < 3
  BY SMT
<1>2. e \in Nat /\ line \in Nat /\ b \in Nat /\ e < 10 /\ line < 4 /\ b < 3
  BY SMT
<1> QED  BY ONLY <1>1, <1>2, SMT DEF Segment

(* The brightness stays within the range of the PWM, and never jumps by    *)
(* more than 16 from a second to the next, not even at midnight or where   *)
(* two pieces of backlight_of_time meet.                                   *)
THEOREM BacklightSmooth ==
    ASSUME NEW s \in Nat, s < 86400
    PROVE  /\ MinBright <= backlight_of_time(s) /\ backlight_of_time(s) <= MaxBright
           /\ backlight_of_time((s + 1) % 86400) - backlight_of_time(s) \in -16 .. 16
<1>1. MinBright <= backlight_of_time(s) /\ backlight_of_time(s) <= MaxBright
  BY SMT DEF backlight_of_time, MinBright, MaxBright
<1>2. CASE s = 86399
  <2>1. (s + 1) % 86400 = 0
    BY <1>2, SMT
  <2> QED  BY <1>1, <1>2, <2>1, SMT DEF backlight_of_time, MinBright
<1>3. CASE s # 86399
  <2>1. (s + 1) % 86400 = s + 1
    BY <1>3, SMT
  <2>2. backlight_of_time(s + 1) - backlight_of_time(s) \in -16 .. 16
    BY SMT DEF backlight_of_time, MinBright, MaxBright
  <2> QED  BY <1>1, <2>1, <2>2
<1> QED  BY <1>2, <1>3

===============================================================================
