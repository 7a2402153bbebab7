--------------------------- MODULE CircuitBreaker ---------------------------
(***************************************************************************)
(* One circuit breaker shared by concurrent request handlers.  A handler   *)
(* asks allow(), sends its upstream call without holding the mutex, and    *)
(* later records the verdict, or never does when its client goes away      *)
(* (proxy.rs drops the handler's future).  Every operation is atomic: it   *)
(* runs under the breaker's mutex.                                         *)
(***************************************************************************)
EXTENDS BreakerOps

CONSTANT Caller         \* the request handlers of one upstream

VARIABLES
    breaker,            \* the value protected by the mutex
    call,               \* call[c]: the upstream call of handler c
    streak,             \* auxiliary: failures recorded since the last success
    quiet               \* auxiliary: ticks since the breaker last tripped

vars == <<breaker, call, streak, quiet>>

\* A call in flight is normal when admitted by a closed breaker, a trial when
\* admitted by a half-open one, and late once the breaker has opened (again)
\* since it was admitted.
InFlight == {"normal", "trial", "late"}

AtMost(n, bound) == IF n < bound THEN n ELSE bound

Init ==
    /\ breaker = new
    /\ call = [c \in Caller |-> "idle"]
    /\ streak = 0
    /\ quiet = open_for

\* Upstream::eligible asks the breaker; the handler calls out when it agrees.
Allow(c, age) ==
    /\ call[c] = "idle"
    /\ breaker' = allow_at(breaker, age)
    /\ call' = IF allows(breaker, age)
               THEN [call EXCEPT ![c] = IF breaker'.state = Closed THEN "normal" ELSE "trial"]
               ELSE call
    /\ UNCHANGED <<streak, quiet>>

\* The upstream answered with anything but a 5xx.
RecordSuccess(c) ==
    /\ call[c] \in InFlight
    /\ breaker' = record_success(breaker)
    /\ call' = [call EXCEPT ![c] = "idle"]
    /\ streak' = 0
    /\ UNCHANGED quiet

\* The upstream answered with a 5xx, or the call failed or timed out.
RecordFailure(c, age) ==
    /\ call[c] \in InFlight
    /\ breaker' = record_failure_at(breaker, age)
    /\ call' = [d \in Caller |-> IF d = c THEN "idle"
                                 ELSE IF call[d] # "idle" /\ breaker'.state = Open
                                      THEN "late" ELSE call[d]]
    /\ streak' = AtMost(streak + 1, threshold)
    /\ quiet' = IF breaker.state # Open /\ breaker'.state = Open THEN 0 ELSE quiet

\* The client disconnected: the handler is dropped and records nothing.
Abandon(c) ==
    /\ call[c] \in InFlight
    /\ call' = [call EXCEPT ![c] = "idle"]
    /\ UNCHANGED <<breaker, streak, quiet>>

Tick ==
    /\ breaker' = elapse(breaker)
    /\ quiet' = AtMost(quiet + 1, open_for)
    /\ UNCHANGED <<call, streak>>

Finish(c) == RecordSuccess(c) \/ (\E age \in Age : RecordFailure(c, age)) \/ Abandon(c)

Next ==
    \/ \E c \in Caller :
         \/ \E age \in Age : Allow(c, age)
         \/ RecordSuccess(c)
         \/ \E age \in Age : RecordFailure(c, age)
         \/ Abandon(c)
    \/ Tick

Spec == Init /\ [][Next]_vars

\* Time passes, every upstream call ends (reqwest enforces the timeout), and
\* clients keep sending requests.
Fairness ==
    /\ WF_vars(Tick)
    /\ \A c \in Caller : WF_vars(Finish(c)) /\ WF_vars(\E age \in Age : Allow(c, age))

FairSpec == Spec /\ Fairness

-----------------------------------------------------------------------------
\* The breaker and the calls in flight have their types: whatever late failures
\* record, the end of the cooldown is never more than one cooldown away.
TypeOK ==
    /\ breaker \in Breaker
    /\ call \in [Caller -> {"idle"} \cup InFlight]
    /\ streak \in 0 .. threshold
    /\ quiet \in 0 .. open_for

\* The breaker is closed exactly while fewer than threshold failures have been
\* recorded in a row: no interleaving of late verdicts, trials and wraps of the
\* u32 counter trips it early or lets it forget a full streak
\* (record_failure_at, record_success).
TripExact == breaker.state = Closed <=> streak < threshold

\* While the breaker is open, every call in flight was admitted before it
\* opened: an open breaker sends nothing to the upstream (allow_at).
OnlyStragglersWhileOpen ==
    breaker.state = Open => \A c \in Caller : call[c] \in {"idle", "late"}

\* Before a full cooldown has passed since the breaker tripped (less the delay
\* between reading the clock and taking the lock) an open breaker is left in one
\* way only: a call admitted before it opened succeeds after all and
\* record_success closes it at once.  Neither allow nor a late failure, whatever
\* it did to open_until, ends the cooldown early.
CooldownHonoured ==
    [][breaker.state = Open /\ breaker'.state # Open /\ quiet < open_for - Stall
         => \E c \in Caller : call[c] = "late" /\ RecordSuccess(c)]_vars

\* With traffic, an open breaker is eventually tried or closed: late failures
\* cannot postpone the end of the cooldown for ever.
NeverStuckOpen == breaker.state = Open ~> breaker.state # Open

\* What the comment on CircuitBreaker::allow says of the half-open state: the
\* elapsed cooldown admits a single trial.
SingleTrial ==
    \A c, d \in Caller : call[c] = "trial" /\ call[d] = "trial" => c = d
=============================================================================
