------------------------ MODULE CircuitBreakerProofs ------------------------
(***************************************************************************)
(* Proofs about CircuitBreaker, for every threshold, cooldown, counter     *)
(* width, clock delay and set of callers.                                  *)
(***************************************************************************)
EXTENDS CircuitBreaker, TLAPS

(***************************************************************************)
(* The inductive invariant.  TripExact is not inductive: in the closed     *)
(* state the u32 counter must equal the streak, so that it cannot wrap     *)
(* before it trips.  CooldownHonoured speaks of steps: it rests on         *)
(* open_until lying at least open_for - Stall ticks after the moment the   *)
(* breaker tripped, for as long as it is open.                             *)
(***************************************************************************)
CounterIsStreak == breaker.state = Closed => breaker.consecutive_failures = streak

DeadlineAfterTrip ==
    breaker.state = Open => \E u \in Offset : /\ breaker.open_until = {u}
                                              /\ u + quiet >= open_for - Stall

IInv ==
    /\ TypeOK
    /\ TripExact
    /\ CounterIsStreak
    /\ OnlyStragglersWhileOpen
    /\ DeadlineAfterTrip

USE DEF Closed, Open, HalfOpen, BreakerState, InFlight, Age, Offset

\* The settings of the breaker as CircuitBreaker::new normalises them.
LEMMA Settings ==
    /\ threshold \in Nat /\ threshold >= 1 /\ threshold < U32
    /\ open_for \in Nat /\ open_for >= 1
    /\ Stall \in Nat /\ U32 \in Nat
  BY ThresholdAssumption, OpenSecsAssumption, U32Assumption, StallAssumption
  DEF threshold, open_for

\* A fresh or reset breaker has its type.
LEMMA NewType == new \in Breaker
  BY Settings DEF new, Breaker

\* allow_at keeps the type, the counter and the deadline, and can only turn an
\* open breaker whose cooldown is over, as far as the caller's reading of the
\* clock tells, into a half-open one.
LEMMA AllowEffect ==
    ASSUME NEW b \in Breaker, NEW age \in Age
    PROVE  /\ allow_at(b, age) \in Breaker
           /\ allow_at(b, age).consecutive_failures = b.consecutive_failures
           /\ allow_at(b, age).open_until = b.open_until
           /\ \/ allow_at(b, age) = b
              \/ /\ b.state = Open
                 /\ allow_at(b, age).state = HalfOpen
                 /\ cooled(b, age)
           /\ allows(b, age) => allow_at(b, age).state # Open
  BY DEF allow_at, allows, Breaker

\* record_failure_at keeps the type.
LEMMA FailureType ==
    ASSUME NEW b \in Breaker, NEW age \in Age
    PROVE  record_failure_at(b, age) \in Breaker
<1> DEFINE f == (b.consecutive_failures + 1) % U32
<1>1. f \in 0 .. (U32 - 1)
  BY Settings, U32Assumption DEF Breaker
<1>2. open_for - age \in Offset
  BY Settings
<1>3. CASE b.state = HalfOpen \/ f >= threshold
  BY <1>1, <1>2, <1>3 DEF record_failure_at, Breaker
<1>4. CASE ~ (b.state = HalfOpen \/ f >= threshold)
  BY <1>1, <1>4 DEF record_failure_at, Breaker
<1>5. QED BY <1>3, <1>4

\* Time keeps the type and the state, and brings a deadline closer by at most
\* one tick.
LEMMA ElapseEffect ==
    ASSUME NEW b \in Breaker
    PROVE  /\ elapse(b) \in Breaker
           /\ elapse(b).state = b.state
           /\ elapse(b).consecutive_failures = b.consecutive_failures
           /\ \A u \in Offset : b.open_until = {u} =>
                elapse(b).open_until = {IF u > -Stall THEN u - 1 ELSE u}
<1> DEFINE s == {IF u > -Stall THEN u - 1 ELSE u : u \in b.open_until}
<1>1. b.open_until = {} \/ \E u \in Offset : b.open_until = {u}
  BY DEF Breaker
<1>2. \A u \in Offset : b.open_until = {u} =>
        /\ s = {IF u > -Stall THEN u - 1 ELSE u}
        /\ (IF u > -Stall THEN u - 1 ELSE u) \in Offset
  BY Settings
<1>3. b.open_until = {} => s = {}
  OBVIOUS
<1>4. s \in {{}} \cup {{u} : u \in Offset}
  BY <1>1, <1>2, <1>3
<1>5. elapse(b) = [b EXCEPT !.open_until = s]
  BY DEF elapse
<1> HIDE DEF s
<1>6. QED BY <1>2, <1>4, <1>5 DEF Breaker

-----------------------------------------------------------------------------
\* The initial states satisfy the inductive invariant.
LEMMA InitIInv == Init => IInv
  BY Settings, NewType
  DEF Init, IInv, TypeOK, TripExact, CounterIsStreak, OnlyStragglersWhileOpen,
      DeadlineAfterTrip, new

\* Asking the breaker: the streak, the counter and the deadline do not move.
LEMMA AllowPreserves ==
    ASSUME IInv, NEW c \in Caller, NEW age \in Age, Allow(c, age)
    PROVE  IInv'
<1> USE DEF Allow
<1>1. /\ breaker \in Breaker /\ call \in [Caller -> {"idle"} \cup InFlight]
      /\ streak \in 0 .. threshold /\ quiet \in 0 .. open_for
  BY DEF IInv, TypeOK
<1>2. /\ breaker' \in Breaker
      /\ breaker'.consecutive_failures = breaker.consecutive_failures
      /\ breaker'.open_until = breaker.open_until
      /\ \/ breaker' = breaker
         \/ breaker.state = Open /\ breaker'.state = HalfOpen /\ cooled(breaker, age)
      /\ allows(breaker, age) => breaker'.state # Open
  BY <1>1, AllowEffect
<1>3. TypeOK'
  BY <1>1, <1>2 DEF TypeOK
<1>4. TripExact' /\ CounterIsStreak'
  BY <1>2 DEF IInv, TripExact, CounterIsStreak
<1>5. OnlyStragglersWhileOpen'
  BY <1>1, <1>2 DEF IInv, OnlyStragglersWhileOpen
<1>6. DeadlineAfterTrip'
  BY <1>2 DEF IInv, DeadlineAfterTrip
<1>7. QED BY <1>3, <1>4, <1>5, <1>6 DEF IInv

\* A success resets the breaker and ends the streak.
LEMMA SuccessPreserves ==
    ASSUME IInv, NEW c \in Caller, RecordSuccess(c)
    PROVE  IInv'
<1>1. breaker' = new /\ new.state = Closed /\ new.consecutive_failures = 0
  BY DEF RecordSuccess, record_success, new
<1>2. TypeOK'
  BY <1>1, NewType, Settings DEF RecordSuccess, IInv, TypeOK
<1>3. streak' = 0
  BY DEF RecordSuccess
<1>4. TripExact' /\ CounterIsStreak' /\ OnlyStragglersWhileOpen'
      /\ DeadlineAfterTrip'
  BY <1>1, <1>3, Settings
  DEF TripExact, CounterIsStreak, OnlyStragglersWhileOpen, DeadlineAfterTrip
<1>5. QED BY <1>2, <1>4 DEF IInv

\* A failure trips the breaker exactly when the streak reaches the threshold or
\* a trial failed; in the closed state the counter has not wrapped.
LEMMA FailurePreserves ==
    ASSUME IInv, NEW c \in Caller, NEW age \in Age, RecordFailure(c, age)
    PROVE  IInv'
<1> DEFINE f == (breaker.consecutive_failures + 1) % U32
<1>1. /\ breaker \in Breaker /\ call \in [Caller -> {"idle"} \cup InFlight]
      /\ streak \in 0 .. threshold /\ quiet \in 0 .. open_for
      /\ breaker.consecutive_failures \in 0 .. (U32 - 1)
      /\ breaker.state \in BreakerState
  BY DEF IInv, TypeOK, Breaker
<1>2. breaker' \in Breaker
  BY <1>1, FailureType DEF RecordFailure
<1>3. /\ streak' = (IF streak + 1 < threshold THEN streak + 1 ELSE threshold)
      /\ streak' \in 0 .. threshold
  BY <1>1, Settings DEF RecordFailure, AtMost
<1>4. quiet' = (IF breaker.state # Open /\ breaker'.state = Open THEN 0 ELSE quiet)
  BY DEF RecordFailure
<1>5. TypeOK'
  <2>1. quiet' \in 0 .. open_for
    BY <1>1, <1>4, Settings
  <2>2. call' \in [Caller -> {"idle"} \cup InFlight]
    BY <1>1 DEF RecordFailure
  <2>3. QED BY <1>2, <1>3, <2>1, <2>2 DEF TypeOK
<1>6. OnlyStragglersWhileOpen'
  BY DEF RecordFailure, OnlyStragglersWhileOpen
<1>7. breaker.state = Closed => f = streak + 1 /\ streak < threshold
  BY <1>1, Settings DEF IInv, TripExact, CounterIsStreak
<1>8. CASE breaker.state = HalfOpen \/ f >= threshold
  <2>1. /\ breaker'.state = Open
        /\ breaker'.open_until = {open_for - age}
    BY <1>8 DEF RecordFailure, record_failure_at
  <2>2. streak' = threshold
    BY <1>1, <1>3, <1>7, <1>8, Settings DEF IInv, TripExact
  <2>3. TripExact' /\ CounterIsStreak'
    BY <2>1, <2>2, Settings DEF TripExact, CounterIsStreak
  <2>4. DeadlineAfterTrip'
    <3>1. open_for - age \in Offset
      BY Settings
    <3>2. open_for - age + quiet' >= open_for - Stall
      BY <1>1, <1>4, <2>1, Settings
    <3>3. QED BY <2>1, <3>1, <3>2 DEF DeadlineAfterTrip
  <2>5. QED BY <1>5, <1>6, <2>3, <2>4 DEF IInv
<1>9. CASE ~ (breaker.state = HalfOpen \/ f >= threshold)
  <2>1. breaker' = [breaker EXCEPT !.consecutive_failures = f]
    BY <1>9 DEF RecordFailure, record_failure_at
  <2>2. /\ breaker'.state = breaker.state
        /\ breaker'.consecutive_failures = f
        /\ breaker'.open_until = breaker.open_until
    BY <1>1, <2>1 DEF Breaker
  <2>3. quiet' = quiet
    BY <1>4, <2>2
  <2>4. TripExact' /\ CounterIsStreak'
    <3>1. CASE breaker.state = Closed
      BY <1>1, <1>3, <1>7, <1>9, <2>2, <3>1, Settings DEF TripExact, CounterIsStreak
    <3>2. CASE breaker.state # Closed
      BY <1>1, <1>3, <2>2, <3>2, Settings DEF IInv, TripExact, CounterIsStreak
    <3>3. QED BY <3>1, <3>2
  <2>5. DeadlineAfterTrip'
    BY <2>2, <2>3 DEF IInv, DeadlineAfterTrip
  <2>6. QED BY <1>5, <1>6, <2>4, <2>5 DEF IInv
<1>10. QED BY <1>8, <1>9

\* A dropped handler leaves the breaker alone.
LEMMA AbandonPreserves ==
    ASSUME IInv, NEW c \in Caller, Abandon(c)
    PROVE  IInv'
<1>1. TypeOK'
  BY DEF Abandon, IInv, TypeOK
<1>2. OnlyStragglersWhileOpen'
  BY DEF Abandon, IInv, TypeOK, OnlyStragglersWhileOpen
<1>3. TripExact' /\ CounterIsStreak' /\ DeadlineAfterTrip'
  BY DEF Abandon, IInv, TripExact, CounterIsStreak, DeadlineAfterTrip
<1>4. QED BY <1>1, <1>2, <1>3 DEF IInv

\* A tick moves the deadline and the time since the trip in step.
LEMMA TickPreserves ==
    ASSUME IInv, Tick
    PROVE  IInv'
<1>1. /\ breaker \in Breaker /\ quiet \in 0 .. open_for
  BY DEF IInv, TypeOK
<1>2. /\ breaker' \in Breaker
      /\ breaker'.state = breaker.state
      /\ breaker'.consecutive_failures = breaker.consecutive_failures
      /\ \A u \in Offset : breaker.open_until = {u} =>
           breaker'.open_until = {IF u > -Stall THEN u - 1 ELSE u}
  BY <1>1, ElapseEffect DEF Tick
<1>3. /\ quiet' = (IF quiet + 1 < open_for THEN quiet + 1 ELSE open_for)
      /\ quiet' \in 0 .. open_for /\ quiet' >= quiet
  BY <1>1, Settings DEF Tick, AtMost
<1>4. TypeOK' /\ TripExact' /\ CounterIsStreak' /\ OnlyStragglersWhileOpen'
  BY <1>2, <1>3
  DEF Tick, IInv, TypeOK, TripExact, CounterIsStreak, OnlyStragglersWhileOpen
<1>5. DeadlineAfterTrip'
  <2>1. SUFFICES ASSUME breaker.state = Open PROVE DeadlineAfterTrip'
    BY <1>2 DEF DeadlineAfterTrip
  <2>2. PICK u \in Offset : breaker.open_until = {u} /\ u + quiet >= open_for - Stall
    BY <2>1 DEF IInv, DeadlineAfterTrip
  <2> DEFINE v == IF u > -Stall THEN u - 1 ELSE u
  <2>3. v \in Offset /\ v + quiet' >= open_for - Stall
    BY <1>1, <1>3, <2>2, Settings
  <2>4. breaker'.open_until = {v}
    BY <1>2, <2>2
  <2>5. QED BY <2>3, <2>4 DEF DeadlineAfterTrip
<1>6. QED BY <1>4, <1>5 DEF IInv

\* Every step preserves the inductive invariant.
LEMMA NextPreserves == IInv /\ [Next]_vars => IInv'
<1> SUFFICES ASSUME IInv, [Next]_vars PROVE IInv'
  OBVIOUS
<1>1. CASE \E c \in Caller, age \in Age : Allow(c, age)
  BY <1>1, AllowPreserves
<1>2. CASE \E c \in Caller : RecordSuccess(c)
  BY <1>2, SuccessPreserves
<1>3. CASE \E c \in Caller, age \in Age : RecordFailure(c, age)
  BY <1>3, FailurePreserves
<1>4. CASE \E c \in Caller : Abandon(c)
  BY <1>4, AbandonPreserves
<1>5. CASE Tick
  BY <1>5, TickPreserves
<1>6. CASE UNCHANGED vars
  BY <1>6 DEF vars, IInv, TypeOK, TripExact, CounterIsStreak,
              OnlyStragglersWhileOpen, DeadlineAfterTrip
<1>7. QED BY <1>1, <1>2, <1>3, <1>4, <1>5, <1>6 DEF Next

\* The inductive invariant holds throughout.
THEOREM Inductive == Spec => []IInv
<1>1. Init => IInv
  BY InitIInv
<1>2. IInv /\ [Next]_vars => IInv'
  BY NextPreserves
<1>3. QED BY <1>1, <1>2, PTL DEF Spec

-----------------------------------------------------------------------------
\* The mutex-protected state and the calls keep their types.
THEOREM TypeCorrect == Spec => []TypeOK
<1>1. IInv => TypeOK
  BY DEF IInv
<1>2. QED BY <1>1, Inductive, PTL

\* The breaker is closed exactly while fewer than threshold failures were
\* recorded since the last success, whatever the interleaving and even when the
\* u32 counter wraps.
THEOREM TripsExactly == Spec => []TripExact
<1>1. IInv => TripExact
  BY DEF IInv
<1>2. QED BY <1>1, Inductive, PTL

\* An open breaker admits nothing: only calls admitted before it opened are in
\* flight.
THEOREM OpenSendsNothing == Spec => []OnlyStragglersWhileOpen
<1>1. IInv => OnlyStragglersWhileOpen
  BY DEF IInv
<1>2. QED BY <1>1, Inductive, PTL

\* An open breaker that is left before its cooldown is over is left through the
\* success of a straggler: allow waits for the deadline and a failure keeps the
\* breaker open.
LEMMA EarlyExit ==
    ASSUME IInv, [Next]_vars, breaker.state = Open, breaker'.state # Open,
           quiet < open_for - Stall
    PROVE  \E c \in Caller : call[c] = "late" /\ RecordSuccess(c)
<1>1. /\ breaker \in Breaker /\ quiet \in 0 .. open_for
      /\ \A c \in Caller : call[c] \in {"idle", "late"}
  BY DEF IInv, TypeOK, OnlyStragglersWhileOpen
<1>2. PICK u \in Offset : breaker.open_until = {u} /\ u + quiet >= open_for - Stall
  BY DEF IInv, DeadlineAfterTrip
<1>3. ASSUME NEW c \in Caller, NEW age \in Age, Allow(c, age) PROVE FALSE
  <2>1. cooled(breaker, age)
    BY <1>1, <1>3, AllowEffect DEF Allow
  <2>2. u <= -age
    BY <1>2, <2>1 DEF cooled
  <2>3. QED BY <1>1, <1>2, <2>2, Settings
<1>4. ASSUME NEW c \in Caller, RecordSuccess(c) PROVE call[c] = "late"
  BY <1>1, <1>4 DEF RecordSuccess
<1>5. ASSUME NEW c \in Caller, NEW age \in Age, RecordFailure(c, age) PROVE FALSE
  BY <1>1, <1>5 DEF RecordFailure, record_failure_at, Breaker
<1>6. ASSUME NEW c \in Caller, Abandon(c) PROVE FALSE
  BY <1>6 DEF Abandon
<1>7. ~Tick
  BY <1>1, ElapseEffect DEF Tick
<1>8. ~UNCHANGED vars
  BY DEF vars
<1>9. QED BY <1>3, <1>4, <1>5, <1>6, <1>7, <1>8 DEF Next

\* For every configuration, an open breaker is left before open_for ticks have
\* passed since it tripped, less the age a clock reading can have, only by the
\* success of a call admitted before it opened.
THEOREM CooldownIsHonoured == Spec => CooldownHonoured
<1>1. IInv /\ [Next]_vars =>
        [breaker.state = Open /\ breaker'.state # Open /\ quiet < open_for - Stall
           => \E c \in Caller : call[c] = "late" /\ RecordSuccess(c)]_vars
  BY EarlyExit
<1>2. QED BY <1>1, Inductive, PTL DEF Spec, CooldownHonoured
=============================================================================
