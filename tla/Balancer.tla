------------------------------ MODULE Balancer ------------------------------
(***************************************************************************)
(* The load balancer of one route (crates/gateway/src/balancer.rs) under   *)
(* concurrent request handlers.  Balancer::pick takes no lock: it draws    *)
(* tickets from an atomic cursor, loads health flags and connection counts *)
(* one by one and asks each breaker under that breaker's own mutex, so     *)
(* each of those accesses is a step here and everything can change between *)
(* two of them.                                                            *)
(***************************************************************************)
EXTENDS BreakerOps, SequencesExt

CONSTANTS
    Picker,             \* the request handlers of the route
    Strategy,           \* the strategies a route may configure
    weights,            \* weights[i + 1]: the configured weight of upstream i
    USIZE               \* the number of values of the usize cursor

ASSUME StrategyAssumption == Strategy \subseteq {"RoundRobin", "LeastConnections"}
ASSUME WeightsAssumption == weights \in Seq(Nat) /\ weights # <<>>
ASSUME USIZEAssumption == USIZE \in Nat /\ USIZE > 0

VARIABLES
    strategy,           \* the strategy of this route
    healthy,            \* Upstream.healthy
    breaker,            \* Upstream.breaker
    active,             \* Upstream.active
    rr_cursor,          \* Balancer.rr_cursor
    req,                \* req[p]: where handler p is in its picks and calls
    steady,             \* auxiliary: see Admissible
    peak                \* auxiliary: the highest active counts seen during a pick

upstreamVars == <<healthy, breaker, active>>
vars == <<strategy, upstreamVars, rr_cursor, req, steady, peak>>

N == Len(weights)
Upstream == 0 .. (N - 1)

\* Balancer::from_route: every index, repeated as often as its weight (at least
\* once).  The configuration has an upstream, so the order is never empty.
rr_order ==
    FlattenSeq([i \in 1 .. N |->
        [k \in 1 .. (IF weights[i] > 1 THEN weights[i] ELSE 1) |-> i - 1]])
n == Len(rr_order)

-----------------------------------------------------------------------------
\* A handler between requests.
Idle == [pc |-> "idle", exclude |-> {}, tickets |-> 0, idx |-> N, best |-> {}]

\* Mutant of NextIncluded: ignores exclude.
NextIncluded_IgnoresExclude(i, exclude) == Min((i .. (N - 1)) \cup {N})

\* The first upstream from i on that is not excluded; N when there is none.
NextIncluded(i, exclude) == Min({j \in i .. (N - 1) : j \notin exclude} \cup {N})

\* Scanning upstreams in order, as first_eligible and pick_least_conn do: go to
\* the next candidate, or end with the best candidate found, or with None.
ScanFrom(r, i) ==
    LET j == NextIncluded(i, r.exclude)
    IN  IF j < N THEN [r EXCEPT !.pc = "health", !.idx = j]
        ELSE IF r.best = {} THEN [r EXCEPT !.pc = "none", !.idx = N]
        ELSE [r EXCEPT !.pc = "acquire", !.idx = (CHOOSE b \in r.best : TRUE).idx]

\* The start of pick(exclude).
pick(exclude) ==
    LET r == [Idle EXCEPT !.exclude = exclude]
    IN  IF strategy = "RoundRobin" THEN [r EXCEPT !.pc = "ticket"] ELSE ScanFrom(r, 0)

\* Mutant of first_eligible: no fallback once the tickets are used up.
first_eligible_None(r) == [r EXCEPT !.tickets = n + 1, !.pc = "none", !.idx = N]

\* first_eligible, the fallback of pick_round_robin.
first_eligible(r) == ScanFrom([r EXCEPT !.tickets = n + 1], 0)

\* The candidate r.idx is excluded or not eligible: draw the next ticket, fall
\* back when all n are drawn, or go on with the scan.
Ineligible(r) ==
    IF strategy = "LeastConnections" \/ r.tickets > n THEN ScanFrom(r, r.idx + 1)
    ELSE IF r.tickets < n THEN [r EXCEPT !.pc = "ticket", !.idx = N]
    ELSE first_eligible(r)

\* Upstreams that any check at this moment finds eligible, however old its
\* reading of the clock is.
Admissible == {u \in Upstream : healthy[u] /\ allows(breaker[u], Stall)}

Picking(r) == r.pc \in {"ticket", "health", "allow", "load", "acquire", "none"}
Holding(r) == r.pc \in {"calling", "retry", "release"}

\* steady[p] is the set of upstreams open to p's pick that have been admissible
\* ever since the pick began, and peak[p] the highest load each had meanwhile.
Observe ==
    /\ UNCHANGED strategy
    /\ steady' = [p \in Picker |->
         IF ~Picking(req'[p]) THEN {}
         ELSE IF Picking(req[p]) THEN steady[p] \cap Admissible'
         ELSE Admissible' \ req'[p].exclude]
    /\ peak' = [p \in Picker |-> [u \in Upstream |->
         IF strategy = "RoundRobin" \/ ~Picking(req'[p]) THEN 0
         ELSE IF Picking(req[p]) /\ peak[p][u] > active'[u] THEN peak[p][u]
         ELSE active'[u]]]

-----------------------------------------------------------------------------
Init ==
    /\ strategy \in Strategy
    /\ healthy = [u \in Upstream |-> TRUE]
    /\ breaker = [u \in Upstream |-> new]
    /\ active = [u \in Upstream |-> 0]
    /\ rr_cursor = 0
    /\ req = [p \in Picker |-> Idle]
    /\ steady = [p \in Picker |-> {}]
    /\ peak = [p \in Picker |-> [u \in Upstream |-> 0]]

\* A request reaches the attempt loop and calls pick with nothing excluded.
Arrive(p) ==
    /\ req[p].pc = "idle"
    /\ req' = [req EXCEPT ![p] = pick({})]
    /\ UNCHANGED <<upstreamVars, rr_cursor>>
    /\ Observe

\* pick_round_robin draws a ticket and skips it when it names an excluded
\* upstream.
DrawTicket(p) ==
    /\ req[p].pc = "ticket"
    /\ rr_cursor' = (rr_cursor + 1) % USIZE
    /\ LET i == rr_order[(rr_cursor % n) + 1]
           r == [req[p] EXCEPT !.tickets = @ + 1, !.idx = i, !.pc = "health"]
       IN  req' = [req EXCEPT ![p] = IF i \in r.exclude THEN Ineligible(r) ELSE r]
    /\ UNCHANGED upstreamVars
    /\ Observe

\* The first half of Upstream::eligible: load the health flag.
LoadHealth(p) ==
    /\ req[p].pc = "health"
    /\ req' = [req EXCEPT ![p] = IF healthy[req[p].idx] THEN [@ EXCEPT !.pc = "allow"]
                                 ELSE Ineligible(@)]
    /\ UNCHANGED <<upstreamVars, rr_cursor>>
    /\ Observe

\* The second half: ask the breaker, which may turn it half-open.
AskBreaker(p, age) ==
    /\ req[p].pc = "allow"
    /\ LET u == req[p].idx
       IN  /\ breaker' = [breaker EXCEPT ![u] = allow_at(@, age)]
           /\ req' = [req EXCEPT ![p] =
                IF ~allows(breaker[u], age) THEN Ineligible(@)
                ELSE IF strategy = "LeastConnections" THEN [@ EXCEPT !.pc = "load"]
                ELSE [@ EXCEPT !.pc = "acquire"]]
    /\ UNCHANGED <<healthy, active, rr_cursor>>
    /\ Observe

\* Mutant of LoadActive: keeps the maximum.
LoadActive_Max(p) ==
    /\ req[p].pc = "load"
    /\ LET r == req[p]
           better == \A b \in r.best : active[r.idx] > b.key
           best == IF better THEN {[idx |-> r.idx, key |-> active[r.idx]]} ELSE r.best
       IN  req' = [req EXCEPT ![p] = ScanFrom([r EXCEPT !.best = best], r.idx + 1)]
    /\ UNCHANGED <<upstreamVars, rr_cursor>>
    /\ Observe

\* min_by_key loads the count of an eligible upstream and keeps the first
\* minimum.
LoadActive(p) ==
    /\ req[p].pc = "load"
    /\ LET r == req[p]
           better == \A b \in r.best : active[r.idx] < b.key
           best == IF better THEN {[idx |-> r.idx, key |-> active[r.idx]]} ELSE r.best
       IN  req' = [req EXCEPT ![p] = ScanFrom([r EXCEPT !.best = best], r.idx + 1)]
    /\ UNCHANGED <<upstreamVars, rr_cursor>>
    /\ Observe

\* ActiveGuard::new on the chosen upstream; the handler then sends its call.
Acquire(p) ==
    /\ req[p].pc = "acquire"
    /\ active' = [active EXCEPT ![req[p].idx] = @ + 1]
    /\ req' = [req EXCEPT ![p] = [Idle EXCEPT !.pc = "calling", !.idx = req[p].idx,
                                              !.exclude = req[p].exclude]]
    /\ UNCHANGED <<healthy, breaker, rr_cursor>>
    /\ Observe

\* pick returned None: the request is answered 503.
Unavailable(p) ==
    /\ req[p].pc = "none"
    /\ req' = [req EXCEPT ![p] = Idle]
    /\ UNCHANGED <<upstreamVars, rr_cursor>>
    /\ Observe

\* The call ended with an answer below 500.
Succeed(p) ==
    /\ req[p].pc = "calling"
    /\ breaker' = [breaker EXCEPT ![req[p].idx] = record_success(@)]
    /\ req' = [req EXCEPT ![p].pc = "release"]
    /\ UNCHANGED <<healthy, active, rr_cursor>>
    /\ Observe

\* The call failed; the handler retries on another upstream or gives up.
Fail(p, age, retry) ==
    /\ req[p].pc = "calling"
    /\ breaker' = [breaker EXCEPT ![req[p].idx] = record_failure_at(@, age)]
    /\ req' = [req EXCEPT ![p].pc = IF retry THEN "retry" ELSE "release"]
    /\ UNCHANGED <<healthy, active, rr_cursor>>
    /\ Observe

\* What follows the drop of the guard: the next pick, with the failed upstream
\* pushed onto excluded, or the end of the handler.
AfterDrop(r) == IF r.pc = "retry" THEN pick(r.exclude \cup {r.idx}) ELSE Idle

\* Mutant of DropGuard: a retry keeps the guard of the failed attempt.
DropGuard_RetryLeaks(p) ==
    /\ req[p].pc \in {"retry", "release"}
    /\ active' = IF req[p].pc = "release" THEN [active EXCEPT ![req[p].idx] = @ - 1] ELSE active
    /\ req' = [req EXCEPT ![p] = AfterDrop(@)]
    /\ UNCHANGED <<healthy, breaker, rr_cursor>>
    /\ Observe

\* ActiveGuard::drop at the end of the iteration, or of the handler.
DropGuard(p) ==
    /\ req[p].pc \in {"retry", "release"}
    /\ active' = [active EXCEPT ![req[p].idx] = @ - 1]
    /\ req' = [req EXCEPT ![p] = AfterDrop(@)]
    /\ UNCHANGED <<healthy, breaker, rr_cursor>>
    /\ Observe

\* Mutant of Disconnect: the guard is not dropped with the future.
Disconnect_Leaks(p) ==
    /\ req[p].pc = "calling"
    /\ req' = [req EXCEPT ![p] = Idle]
    /\ UNCHANGED <<upstreamVars, rr_cursor>>
    /\ Observe

\* The client disconnects during the call: dropping the handler's future drops
\* the guard and records no verdict.
Disconnect(p) ==
    /\ req[p].pc = "calling"
    /\ active' = [active EXCEPT ![req[p].idx] = @ - 1]
    /\ req' = [req EXCEPT ![p] = Idle]
    /\ UNCHANGED <<healthy, breaker, rr_cursor>>
    /\ Observe

\* The health checker stores the result of a probe.
SetHealthy(u, ok) ==
    /\ healthy' = [healthy EXCEPT ![u] = ok]
    /\ UNCHANGED <<breaker, active, rr_cursor, req>>
    /\ Observe

Tick ==
    /\ breaker' = [u \in Upstream |-> elapse(breaker[u])]
    /\ UNCHANGED <<healthy, active, rr_cursor, req>>
    /\ Observe

Next ==
    \/ \E p \in Picker :
         \/ Arrive(p)
         \/ DrawTicket(p)
         \/ LoadHealth(p)
         \/ \E age \in Age : AskBreaker(p, age)
         \/ LoadActive(p)
         \/ Acquire(p)
         \/ Unavailable(p)
         \/ Succeed(p)
         \/ \E age \in Age, retry \in BOOLEAN : Fail(p, age, retry)
         \/ DropGuard(p)
         \/ Disconnect(p)
    \/ \E u \in Upstream, ok \in BOOLEAN : SetHealthy(u, ok)
    \/ Tick

Spec == Init /\ [][Next]_vars

-----------------------------------------------------------------------------
\* The balancer's state and the handlers' progress have their types.
TypeOK ==
    /\ healthy \in [Upstream -> BOOLEAN]
    /\ breaker \in [Upstream -> Breaker]
    /\ active \in [Upstream -> 0 .. Cardinality(Picker)]
    /\ rr_cursor \in 0 .. (USIZE - 1)
    /\ \A p \in Picker :
         /\ Picking(req[p]) \/ Holding(req[p]) \/ req[p] = Idle
         /\ req[p].idx = N <=> req[p].pc \in {"idle", "ticket", "none"}
         /\ req[p].exclude \subseteq Upstream
         /\ req[p].tickets \in 0 .. (n + 1)

\* The active count of an upstream is the number of handlers that hold a guard
\* on it, however picks, retries and disconnections interleave (ActiveGuard).
ActiveExact ==
    \A u \in Upstream :
        active[u] = Cardinality({p \in Picker : Holding(req[p]) /\ req[p].idx = u})

\* pick answers None only when no upstream outside exclude was eligible
\* throughout the pick, even if concurrent picks took the tickets that named it
\* (pick_round_robin, first_eligible, pick_least_conn).
NoSpuriousUnavailable == \A p \in Picker : req[p].pc = "none" => steady[p] = {}

\* A retry never goes back to an upstream that already failed the request.
RetriesAvoidFailed ==
    \A p \in Picker : req[p].pc \in {"health", "allow", "load", "acquire", "calling"}
                      => req[p].idx \notin req[p].exclude

\* Least connections: the load read from the chosen upstream is at most the
\* highest load that any upstream eligible throughout the pick had meanwhile; a
\* pick that nothing disturbs therefore takes a least loaded one.
LeastLoaded ==
    \A p \in Picker :
        strategy = "LeastConnections" /\ req[p].pc = "acquire" =>
            \A u \in steady[p], b \in req[p].best : b.key <= peak[p][u]
=============================================================================
