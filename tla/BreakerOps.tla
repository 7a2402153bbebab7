----------------------------- MODULE BreakerOps -----------------------------
(***************************************************************************)
(* The per-upstream circuit breaker of crates/gateway/src/breaker.rs, as   *)
(* pure operators on the value its mutex protects.  CircuitBreaker runs    *)
(* them alone; Balancer and Proxy keep one such value per upstream.        *)
(*                                                                         *)
(* Instants are kept relative to the present: an offset u means "u ticks   *)
(* from now", and elapse moves every stored offset one tick closer.  The   *)
(* code reads Instant::now() before it takes the mutex, so an operation    *)
(* works with a reading that is `age` ticks old, 0 <= age <= Stall.  A     *)
(* deadline more than Stall ticks in the past compares alike with every    *)
(* such reading, which is why offsets are clipped there and why time needs *)
(* no bound.                                                               *)
(***************************************************************************)
EXTENDS Integers

CONSTANTS
    failure_threshold,  \* circuit_breaker.failure_threshold of the route
    open_secs,          \* circuit_breaker.open_secs of the route
    U32,                \* the number of values of the u32 failure counter
    Stall               \* the longest delay from reading the clock to the lock

ASSUME ThresholdAssumption == failure_threshold \in Nat
ASSUME OpenSecsAssumption == open_secs \in Nat
ASSUME U32Assumption == U32 \in Nat /\ U32 > 1 /\ failure_threshold < U32
ASSUME StallAssumption == Stall \in Nat

-----------------------------------------------------------------------------
Closed == "Closed"
Open == "Open"
HalfOpen == "HalfOpen"
BreakerState == {Closed, Open, HalfOpen}

\* CircuitBreaker::new raises both settings to at least one.
threshold == IF failure_threshold > 1 THEN failure_threshold ELSE 1
open_for == IF open_secs > 1 THEN open_secs ELSE 1

\* Offsets a stored instant can have, and the ages a clock reading can have.
Offset == (-Stall) .. open_for
Age == 0 .. Stall

\* struct Inner.  Option<Instant> is a set of at most one offset.
Breaker == [state : BreakerState,
            consecutive_failures : 0 .. (U32 - 1),
            open_until : {{}} \cup {{u} : u \in Offset}]

new == [state |-> Closed, consecutive_failures |-> 0, open_until |-> {}]

\* open_until.map(|u| now >= u).unwrap_or(true)
cooled(b, age) == \A u \in b.open_until : u <= -age

\* Mutants of allow_at: forgets to become half-open; a rejected call starts the
\* cooldown anew.
allow_at_StaysOpen(b, age) == b
allow_at_RejectionExtends(b, age) ==
    IF b.state # Open THEN b
    ELSE IF cooled(b, age) THEN [b EXCEPT !.state = HalfOpen]
    ELSE [b EXCEPT !.open_until = {open_for - age}]

\* The answer of allow_at and the state it leaves behind.
allows(b, age) == b.state \in {Closed, HalfOpen} \/ cooled(b, age)
allow_at(b, age) ==
    IF b.state = Open /\ cooled(b, age) THEN [b EXCEPT !.state = HalfOpen] ELSE b

record_success(b) == new

\* Mutants of record_failure_at: trips one failure late; keeps the deadline of
\* the first trip; adds a cooldown to the one that is running.
record_failure_at_Late(b, age) ==
    LET failures == (b.consecutive_failures + 1) % U32
    IN  IF b.state = HalfOpen \/ failures > threshold
        THEN [state |-> Open, consecutive_failures |-> failures,
              open_until |-> {open_for - age}]
        ELSE [b EXCEPT !.consecutive_failures = failures]
record_failure_at_KeepsDeadline(b, age) ==
    LET failures == (b.consecutive_failures + 1) % U32
    IN  IF b.state = HalfOpen \/ failures >= threshold
        THEN [state |-> Open, consecutive_failures |-> failures,
              open_until |-> IF b.open_until = {} THEN {open_for - age} ELSE b.open_until]
        ELSE [b EXCEPT !.consecutive_failures = failures]
record_failure_at_Adds(b, age) ==
    LET failures == (b.consecutive_failures + 1) % U32
    IN  IF b.state = HalfOpen \/ failures >= threshold
        THEN [state |-> Open, consecutive_failures |-> failures,
              open_until |-> IF b.state = Open THEN {u + open_for : u \in b.open_until}
                             ELSE {open_for - age}]
        ELSE [b EXCEPT !.consecutive_failures = failures]

\* The counter is a u32 that wraps in a release build.
record_failure_at(b, age) ==
    LET failures == (b.consecutive_failures + 1) % U32
    IN  IF b.state = HalfOpen \/ failures >= threshold
        THEN [state |-> Open,
              consecutive_failures |-> failures,
              open_until |-> {open_for - age}]
        ELSE [b EXCEPT !.consecutive_failures = failures]

\* One tick of time, seen from the stored instant.
elapse(b) ==
    [b EXCEPT !.open_until = {IF u > -Stall THEN u - 1 ELSE u : u \in b.open_until}]

\* BreakerState::code, the value of the circuit_state gauge.
code(b) == CASE b.state = Closed -> 0 [] b.state = HalfOpen -> 1 [] b.state = Open -> 2
=============================================================================
