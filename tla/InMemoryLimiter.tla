--------------------------- MODULE InMemoryLimiter --------------------------
(***************************************************************************)
(* The fixed-window limiter of one gateway process (InMemoryLimiter in     *)
(* crates/gateway/src/ratelimit.rs).  check runs under one mutex but reads *)
(* the clock before taking it, so concurrent checks can be applied out of  *)
(* the order of their readings; a reading is at most Stall ticks old.      *)
(* Instants are offsets from the present, as in BreakerOps.                *)
(***************************************************************************)
EXTENDS RateLimit, FiniteSetsExt, Functions

CONSTANTS
    Key,                \* rate keys: route plus client address, or API key
    SEC,                \* the ticks of a second
    Stall,              \* the longest delay from reading the clock to the lock
    MaxUsed             \* bound: checks of one key within one window

ASSUME SECAssumption == SEC \in Nat \ {0}
ASSUME StallAssumption == Stall \in Nat
ASSUME MaxUsedAssumption == MaxUsed \in Nat /\ limit < MaxUsed

VARIABLES
    windows,            \* the map: an absent key, or its (start, used) pair
    passed,             \* auxiliary: passed[k][i] checks allowed i ticks ago
    denied              \* auxiliary: keys whose latest check was denied

vars == <<windows, passed, denied>>

Age == 0 .. Stall
Span == window + Stall
Slots == 0 .. Span
Offset == (-Span) .. 0

Init ==
    /\ windows = [k \in Key |-> {}]
    /\ passed = [k \in Key |-> [i \in Slots |-> 0]]
    /\ denied = {}

\* now.duration_since(start), which is zero when now precedes start.
duration_since(now, start) == IF now > start THEN now - start ELSE 0

\* Mutants of entry: a new window is stored with its end; a new window keeps
\* the count of the finished one.
entry_StoresEnd(k, now) ==
    IF \E e \in windows[k] : now < e.start THEN CHOOSE e \in windows[k] : TRUE
    ELSE [start |-> now + window, used |-> 0]
entry_KeepsCount(k, now) ==
    IF windows[k] = {} THEN [start |-> now, used |-> 0]
    ELSE LET e == CHOOSE e \in windows[k] : TRUE
         IN  IF duration_since(now, e.start) < window THEN e ELSE [e EXCEPT !.start = now]

\* The entry a check counts against: a missing or finished window starts at now.
entry(k, now) ==
    IF \E e \in windows[k] : duration_since(now, e.start) < window
    THEN CHOOSE e \in windows[k] : TRUE
    ELSE [start |-> now, used |-> 0]

\* Mutant of check: compares the count before the increment.
check_OneMore(k, age) ==
    LET used == entry(k, -age).used + 1
        allowed == used - 1 <= limit
    IN  /\ used <= MaxUsed
        /\ windows' = [windows EXCEPT ![k] = {[start |-> entry(k, -age).start, used |-> used]}]
        /\ passed' = IF allowed THEN [passed EXCEPT ![k][0] = @ + 1] ELSE passed
        /\ denied' = IF allowed THEN denied \ {k} ELSE denied \cup {k}

\* check for key k with a clock reading taken age ticks before the lock: count
\* the request in its window, then compare with the limit.
check(k, age) ==
    LET used == entry(k, -age).used + 1
        allowed == used <= limit
    IN  /\ used <= MaxUsed
        /\ windows' = [windows EXCEPT ![k] = {[start |-> entry(k, -age).start, used |-> used]}]
        /\ passed' = IF allowed THEN [passed EXCEPT ![k][0] = @ + 1] ELSE passed
        /\ denied' = IF allowed THEN denied \ {k} ELSE denied \cup {k}

\* Mutant of reset_secs: the time since the window began.
reset_secs_Elapsed(k, age) == duration_since(-age, entry(k, -age).start) \div SEC

\* The reset_secs of a decision: whole seconds left of the window.
reset_secs(k, age) ==
    (window - Min({window, duration_since(-age, entry(k, -age).start)})) \div SEC

\* A tick: starts recede, clipped where every reading finds the window over.
Tick ==
    /\ windows' = [k \in Key |->
         {[e EXCEPT !.start = IF @ > -Span THEN @ - 1 ELSE @] : e \in windows[k]}]
    /\ passed' = [k \in Key |-> [i \in Slots |-> IF i = 0 THEN 0 ELSE passed[k][i - 1]]]
    /\ denied' = {}

Next == (\E k \in Key, age \in Age : check(k, age)) \/ Tick

Spec == Init /\ [][Next]_vars

-----------------------------------------------------------------------------
\* How many checks of k were allowed at most d ticks ago.
PassedWithin(k, d) == SumFunctionOnSet(passed[k], {i \in Slots : i <= d})

\* Every entry is a window start at most Span ticks ago and a positive count.
TypeOK ==
    /\ windows \in [Key -> {{}} \cup {{e} : e \in [start : Offset, used : 1 .. MaxUsed]}]
    /\ passed \in [Key -> [Slots -> Nat]]
    /\ denied \subseteq Key

\* A client never gets more than two windows' worth through in any period that
\* is shorter than a window by the delay of a clock reading: the burst at a
\* window boundary is the worst the limiter allows.
BurstBounded ==
    \A k \in Key : PassedWithin(k, window - Stall) <= 2 * limit

\* A key is denied only when its limit really was used up less than a window
\* (and the delay of a clock reading) ago: late checks neither resurrect a
\* finished window nor charge one key for another.
DenialJustified ==
    \A k \in denied : PassedWithin(k, window + Stall - 1) >= limit
=============================================================================
