--------------------------------- MODULE Clock ---------------------------------
(***************************************************************************)
(* The digital clock of clock.ml.  The domain on core 0 asks a time server *)
(* again and again and sets two atomics, the time of day and the timer at  *)
(* that moment; the domain on core 1 reads both and shows the time once a  *)
(* second.  The timer is an OCaml integer, which wraps.                    *)
(*                                                                         *)
(* Time passes in ticks of the timer, and only while both cores sleep or   *)
(* wait for the network: their code between two sleeps takes no time.      *)
(***************************************************************************)
EXTENDS Integers

CONSTANTS
    Second,     \* ticks in a second: 1000 in the code
    Day,        \* seconds in a day: 86400
    Half,       \* the timer goes from -Half to Half - 1: 2^30
    Resync,     \* ticks between two queries: resync_interval_ms
    MaxQuery,   \* ticks a query may take
    MaxLag,     \* ticks by which the server's answer may be old
    MaxFails    \* queries that may fail in a row

ASSUME ClockAssumption ==
    /\ {Second, Day, Half, Resync} \subseteq Nat \ {0}
    /\ {MaxQuery, MaxLag, MaxFails} \subseteq Nat

VARIABLES
    timer,      \* time_ms ()
    time,       \* external: the time of day, in ticks
    base_secs, sync_ms,
    pc0,        \* core 0: "query", "base", "sync" or "wait"
    left0,      \* ticks until core 0 goes on
    answer,     \* what the query returned, in seconds
    fails,      \* queries that have failed in a row
    pc1,        \* core 1: "base", "sync", "show" or "sleep"
    left1,
    bs, sm,     \* its locals
    day_secs,   \* what it shows
    synced,     \* history: there was a synchronisation
    overtaken,  \* history: base_secs was set since core 1 has read it
    frame,      \* history: whether bs and sm belong to one synchronisation
    previous    \* history: frame, of the frame before

clockVars == <<base_secs, sync_ms, synced>>
ntpVars == <<pc0, left0, answer, fails>>
displayVars == <<pc1, left1, bs, sm, day_secs, frame, previous>>
vars == <<timer, time, clockVars, ntpVars, displayVars, overtaken>>

-----------------------------------------------------------------------------
(* Integers of OCaml on a 32-bit machine                                   *)

Wrap(n) == ((n + Half) % (2 * Half)) - Half

(* Division and remainder truncate towards zero. *)
Quotient(n, d) == IF n >= 0 THEN n \div d ELSE -((-n) \div d)

Remainder(n, d) == n - d * Quotient(n, d)

-----------------------------------------------------------------------------
Init ==
    /\ timer = 0 /\ time \in 0 .. Day * Second - 1
    /\ base_secs = 0 /\ sync_ms = 0
    /\ pc0 = "query" /\ left0 = MaxQuery /\ answer = 0 /\ fails = 0
    /\ pc1 = "base" /\ left1 = 0 /\ bs = 0 /\ sm = 0 /\ day_secs = 0
    /\ synced = FALSE /\ overtaken = FALSE
    /\ frame = "unset" /\ previous = "unset"

(* Both cores wait: a tick.                                                *)
Tick ==
    /\ pc0 \in {"query", "wait"} /\ left0 > 0
    /\ pc1 = "sleep" /\ left1 > 0
    /\ timer' = Wrap(timer + 1)
    /\ time' = (time + 1) % (Day * Second)
    /\ left0' = left0 - 1 /\ left1' = left1 - 1
    /\ UNCHANGED <<clockVars, pc0, answer, fails, pc1, bs, sm, day_secs, overtaken,
                   frame, previous>>

-----------------------------------------------------------------------------
(* Core 0: ntp_query and the loop of the program                           *)

(* The server's answer is the time of day up to MaxLag ticks ago. *)
NtpAnswers ==
    /\ pc0 = "query"
    /\ \E lag \in 0 .. MaxLag :
         answer' = ((time + Day * Second - lag) % (Day * Second)) \div Second
    /\ pc0' = "base" /\ left0' = 0 /\ fails' = 0
    /\ UNCHANGED <<timer, time, clockVars, displayVars, overtaken>>

(* No socket, no address, or no answer in time. *)
NtpFails ==
    /\ pc0 = "query" /\ fails < MaxFails
    /\ fails' = fails + 1
    /\ pc0' = "wait" /\ left0' = Resync
    /\ UNCHANGED <<timer, time, clockVars, answer, displayVars, overtaken>>

SetBase ==
    /\ pc0 = "base"
    /\ base_secs' = answer
    /\ overtaken' = TRUE
    /\ pc0' = "sync"
    /\ UNCHANGED <<timer, time, sync_ms, synced, left0, answer, fails, displayVars>>

SetSync ==
    /\ pc0 = "sync"
    /\ sync_ms' = timer /\ synced' = TRUE
    /\ pc0' = "wait" /\ left0' = Resync
    /\ UNCHANGED <<timer, time, base_secs, answer, fails, displayVars, overtaken>>

QueryAgain ==
    /\ pc0 = "wait" /\ left0 = 0
    /\ pc0' = "query" /\ left0' = MaxQuery
    /\ UNCHANGED <<timer, time, clockVars, answer, fails, displayVars, overtaken>>

-----------------------------------------------------------------------------
(* Core 1: display_loop                                                    *)

ReadBase ==
    /\ pc1 = "base"
    /\ bs' = base_secs /\ overtaken' = FALSE
    /\ pc1' = "sync"
    /\ UNCHANGED <<timer, time, clockVars, ntpVars, left1, sm, day_secs, frame, previous>>

(* Between the two writes of core 0 base_secs is one synchronisation ahead *)
(* of sync_ms; core 1 has read the one before if it was overtaken.         *)
ReadSync ==
    /\ pc1 = "sync"
    /\ sm' = sync_ms
    /\ previous' = frame
    /\ frame' = IF overtaken /= (pc0 = "sync") THEN "mixed"
                ELSE IF synced THEN "whole" ELSE "unset"
    /\ pc1' = "show"
    /\ UNCHANGED <<timer, time, clockVars, ntpVars, left1, bs, day_secs, overtaken>>

(* Faulty variant: milliseconds are taken for seconds. *)
ElapsedMs == Wrap(timer - sm)

Elapsed == Quotient(Wrap(timer - sm), Second)

(* Faulty variant: the sum may reach the next day. *)
SecondsOver == bs + Elapsed

Seconds == Remainder(bs + Elapsed, Day)

Show ==
    /\ pc1 = "show"
    /\ day_secs' = Seconds
    /\ pc1' = "sleep" /\ left1' = Second
    /\ UNCHANGED <<timer, time, clockVars, ntpVars, bs, sm, overtaken, frame, previous>>

(* Faulty variant: the display does not sleep. *)
ShowAgainAtOnce ==
    /\ pc1 = "sleep"
    /\ pc1' = "base" /\ left1' = 0
    /\ UNCHANGED <<timer, time, clockVars, ntpVars, bs, sm, day_secs, overtaken,
                   frame, previous>>

ShowAgain ==
    /\ pc1 = "sleep" /\ left1 = 0
    /\ pc1' = "base"
    /\ UNCHANGED <<timer, time, clockVars, ntpVars, left1, bs, sm, day_secs, overtaken,
                   frame, previous>>

Next ==
    \/ Tick
    \/ NtpAnswers \/ NtpFails \/ SetBase \/ SetSync \/ QueryAgain
    \/ ReadBase \/ ReadSync \/ Show \/ ShowAgain

Spec == Init /\ [][Next]_vars

-----------------------------------------------------------------------------
(* Properties                                                              *)

Timer == -Half .. Half - 1

(* The type of every variable; in particular what is shown is a time of    *)
(* day, whose digits index the table of segments.                          *)
TypeOK ==
    /\ timer \in Timer /\ time \in 0 .. Day * Second - 1
    /\ base_secs \in 0 .. Day - 1 /\ sync_ms \in Timer
    /\ pc0 \in {"query", "base", "sync", "wait"}
    /\ left0 \in Nat /\ answer \in 0 .. Day - 1 /\ fails \in 0 .. MaxFails
    /\ pc1 \in {"base", "sync", "show", "sleep"} /\ left1 \in 0 .. Second
    /\ bs \in 0 .. Day - 1 /\ sm \in Timer /\ day_secs \in 0 .. Day - 1
    /\ {synced, overtaken} \subseteq BOOLEAN
    /\ {frame, previous} \subseteq {"unset", "mixed", "whole"}

(* How many seconds s is behind the time of day. *)
Behind(s) == (time \div Second + Day - s) % Day

(* The age of the answer, and what is cut off from it and from the elapsed *)
(* time, in seconds.                                                       *)
Tolerance == (MaxLag + 2 * (Second - 1)) \div Second

(* A frame whose two reads belong to one synchronisation is right: never   *)
(* fast, slow by the age of the answer and the rounding only, for as long  *)
(* as the last synchronisation lasted and although the timer has wrapped.  *)
FrameAccurate ==
    [][Show /\ frame = "whole" => Behind(day_secs') <= Tolerance]_vars

(* A frame that mixes two synchronisations, and is wrong by the time       *)
(* between them, is followed by one that does not.                         *)
MixedOnce == ~(frame = "mixed" /\ previous = "mixed")

=============================================================================
