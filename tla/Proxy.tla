------------------------------- MODULE Proxy --------------------------------
(***************************************************************************)
(* The request handler of one route (crates/gateway/src/proxy.rs) under    *)
(* concurrent requests: rate limit, cache lookup, body, the attempt loop   *)
(* over upstreams with their breakers and health flags, the response, and  *)
(* the metrics it keeps.  A step is the code between two points where      *)
(* another task can act or the future can be dropped.                      *)
(*                                                                         *)
(* Abstractions.  Balancer::pick is one step that may take any eligible    *)
(* upstream (module Balancer splits it up).  The limiter's decision, the   *)
(* outcome of a call and the expiry of a cache entry are free choices; all *)
(* requests of the route share one cache key.                              *)
(***************************************************************************)
EXTENDS BreakerOps, FiniteSets, Sequences

CONSTANTS
    Request,            \* the requests the gateway receives
    Upstream,           \* the upstreams of the route
    retries,            \* the route's retries
    rate_limit,         \* does the route have a rate limit?
    cache_configured    \* does the route have a response cache?

ASSUME RetriesAssumption == retries \in Nat
ASSUME OptionsAssumption == rate_limit \in BOOLEAN /\ cache_configured \in BOOLEAN

VARIABLES
    req,                \* req[r]: the handler of request r
    healthy,            \* Upstream.healthy
    breaker,            \* Upstream.breaker
    active,             \* Upstream.active
    cached,             \* does the response cache hold a live entry?
    active_connections, \* the gauge gw_active_connections
    circuit_state,      \* the gauge gw_circuit_breaker_state
    recorded            \* recorded[r]: statuses counted for r by gw_requests

upstreamVars == <<healthy, breaker, active>>
metrics == <<active_connections, circuit_state, recorded>>
vars == <<req, upstreamVars, cached, metrics>>

-----------------------------------------------------------------------------
\* PUT stands for the idempotent methods other than GET, POST for the others.
Method == {"GET", "PUT", "POST"}
is_idempotent(m) == m \in {"GET", "PUT"}

\* Mutant of max_attempts: one attempt too many.
max_attempts_OneMore == retries + 2

\* saturating_add differs from the sum for retries = u32::MAX alone.
max_attempts == retries + 1

\* How client.request(..).send() ends: a storable 200, another answer below 500,
\* a 5xx, a connection to the upstream that could not be made, or an error after
\* the request was sent (timeout, reset, too many redirects).  The client has
\* reqwest's default policy and follows redirects inside send: "redirect" is an
\* upstream that answered with one to a host that could not be connected.
Outcome == {"ok", "other", "5xx", "connect", "lost", "redirect"}

\* reqwest's is_connect tells that a connection failed, not which one.
is_connect(outcome) == outcome \in {"connect", "redirect"}

\* The upstream may have executed the request.
Executes(outcome) == outcome # "connect"

\* Points at which the handler awaits and can be dropped with its client.
Awaiting == {"limit", "body", "calling", "reading"}
InHandler == Awaiting \cup {"lookup", "pick"}
Ended == {"refused", "done", "gone"}

\* The locals of a handler; lookup is cache_enabled, idx the upstream whose
\* guard it holds or whose body it streams.  The auxiliary executed holds the
\* upstreams that may have executed the request, redirected those of them whose
\* redirect led to no connection.
Fresh == [pc |-> "new", method |-> "GET", lookup |-> FALSE, attempt |-> 0,
          excluded |-> {}, idx |-> {}, executed |-> {}, redirected |-> {},
          status |-> "none"]

Init ==
    /\ req = [r \in Request |-> Fresh]
    /\ healthy = [u \in Upstream |-> TRUE]
    /\ breaker = [u \in Upstream |-> new]
    /\ active = [u \in Upstream |-> 0]
    /\ cached = FALSE
    /\ active_connections = 0
    /\ circuit_state = [u \in Upstream |-> 0]
    /\ recorded = [r \in Request |-> <<>>]

At(r, pc) == req[r].pc = pc
Goto(r, pc) == req' = [req EXCEPT ![r].pc = pc]
record(r, status) == recorded' = [recorded EXCEPT ![r] = Append(@, status)]

\* The ActiveGuard of r, if it holds one, is dropped.
DropGuard(r) ==
    active' = [u \in Upstream |-> IF u \in req[r].idx THEN active[u] - 1 ELSE active[u]]

\* The handler's locals are gone: it answered with status, or none.
End(r, pc, status) ==
    /\ req' = [req EXCEPT ![r] = [Fresh EXCEPT !.pc = pc, !.status = status,
                                  !.idx = IF pc = "streaming" THEN req[r].idx ELSE {}]]
    /\ DropGuard(r)

\* Mutant of Return: an answer without an upstream leaves the gauge alone.
Return_KeepsGauge(r, status, pc) ==
    /\ End(r, pc, status)
    /\ active_connections' = active_connections - (IF status = "503" THEN 0 ELSE 1)

\* The handler returns a response and handle decrements the gauge.  A body that
\* is not buffered is then still being streamed to the client.
Return(r, status, pc) ==
    /\ End(r, pc, status)
    /\ active_connections' = active_connections - 1

-----------------------------------------------------------------------------
\* RequestBodyLimitLayer: a declared length above max_body_bytes never reaches
\* the handler.
Refuse(r) ==
    /\ At(r, "new")
    /\ req' = [req EXCEPT ![r].pc = "refused", ![r].status = "413"]
    /\ UNCHANGED <<upstreamVars, cached, metrics>>

\* No route matches, or authentication fails: answered without an await, so the
\* gauge goes up and down within the step.  The 500 for a route without a runtime
\* is left out: Router shows that every matched route has one (RuntimeOfMatch).
TurnAway(r, status) ==
    /\ At(r, "new")
    /\ req' = [req EXCEPT ![r].pc = "done", ![r].status = status]
    /\ record(r, status)
    /\ UNCHANGED <<upstreamVars, cached, active_connections, circuit_state>>

\* An authorised request enters the handler.
Enter(r, method, bypass) ==
    /\ At(r, "new")
    /\ req' = [req EXCEPT ![r] = [Fresh EXCEPT
                 !.pc = IF rate_limit THEN "limit" ELSE "lookup",
                 !.method = method,
                 !.lookup = cache_configured /\ method = "GET" /\ ~bypass]]
    /\ active_connections' = active_connections + 1
    /\ UNCHANGED <<upstreamVars, cached, circuit_state, recorded>>

\* The rate limiter answers.
Limit(r, allowed) ==
    /\ At(r, "limit")
    /\ IF allowed
       THEN Goto(r, "lookup") /\ UNCHANGED <<active, active_connections, recorded>>
       ELSE Return(r, "429", "done") /\ record(r, "429")
    /\ UNCHANGED <<healthy, breaker, cached, circuit_state>>

\* The cache lookup: a hit is answered at once.
Lookup(r) ==
    /\ At(r, "lookup")
    /\ IF req[r].lookup /\ cached
       THEN Return(r, "ok", "done") /\ record(r, "ok")
       ELSE Goto(r, "body") /\ UNCHANGED <<active, active_connections, recorded>>
    /\ UNCHANGED <<healthy, breaker, cached, circuit_state>>

\* The request body is read into memory, or is too large or breaks off.
Body(r, ok) ==
    /\ At(r, "body")
    /\ IF ok
       THEN Goto(r, "pick") /\ UNCHANGED <<active, active_connections, recorded>>
       ELSE Return(r, "413", "done") /\ record(r, "413")
    /\ UNCHANGED <<healthy, breaker, cached, circuit_state>>

-----------------------------------------------------------------------------
\* The upstreams pick may ask, and those of them it may return.
Candidates(r) == {u \in Upstream \ req[r].excluded : healthy[u]}
Eligible(r, age) == {u \in Candidates(r) : allows(breaker[u], age)}

\* balancer.pick(&excluded) asks the breakers of some upstreams before it takes
\* one (or all of them before it takes none) and each may turn half-open.
Pick(r, age, asked) ==
    /\ At(r, "pick")
    /\ breaker' = [u \in Upstream |-> IF u \in asked THEN allow_at(breaker[u], age)
                                      ELSE breaker[u]]
    /\ \/ \E u \in asked \cap Eligible(r, age) :
            /\ req' = [req EXCEPT ![r].pc = "calling", ![r].idx = {u}]
            /\ active' = [active EXCEPT ![u] = @ + 1]
            /\ UNCHANGED <<active_connections, recorded>>
       \/ /\ Eligible(r, age) = {} /\ asked = Candidates(r)
          /\ Return(r, "503", "done")
          /\ record(r, "503")
    /\ UNCHANGED <<healthy, cached, circuit_state>>

\* Mutants of Retry: the guard survives the iteration; the loop forgets the
\* attempt and the upstream that failed.
Retry_KeepsGuard(r, outcome) ==
    /\ req' = [req EXCEPT ![r].pc = "pick", ![r].attempt = @ + 1,
                          ![r].excluded = @ \cup req[r].idx, ![r].idx = {},
                          ![r].executed = IF Executes(outcome) THEN @ \cup req[r].idx ELSE @,
                          ![r].redirected = IF outcome = "redirect" THEN @ \cup req[r].idx
                                            ELSE @]
    /\ UNCHANGED <<active, active_connections, recorded>>
Retry_Forgets(r, outcome) ==
    /\ req' = [req EXCEPT ![r].pc = "pick", ![r].idx = {}]
    /\ DropGuard(r)
    /\ UNCHANGED <<active_connections, recorded>>

\* A failed attempt: the upstream joins excluded and the guard is dropped.
Retry(r, outcome) ==
    /\ req' = [req EXCEPT ![r].pc = "pick", ![r].attempt = @ + 1,
                          ![r].excluded = @ \cup req[r].idx, ![r].idx = {},
                          ![r].executed = IF Executes(outcome) THEN @ \cup req[r].idx ELSE @,
                          ![r].redirected = IF outcome = "redirect" THEN @ \cup req[r].idx
                                            ELSE @]
    /\ DropGuard(r)
    /\ UNCHANGED <<active_connections, recorded>>

\* Mutants of can_retry: replays any failed request; retries once too often.
can_retry_AnyMethod(r, outcome) == req[r].attempt + 1 < max_attempts
can_retry_OnceTooOften(r, outcome) ==
    /\ is_idempotent(req[r].method) \/ is_connect(outcome)
    /\ req[r].attempt + 1 <= max_attempts

\* A failed attempt may be repeated: executing it twice is harmless or the error
\* is a failed connection, and an attempt is left.
can_retry(r, outcome) ==
    /\ is_idempotent(req[r].method) \/ is_connect(outcome)
    /\ req[r].attempt + 1 < max_attempts

\* finish_response: the status is counted, then the body is buffered for the
\* cache or handed to the client as a stream.
finish_response(r, outcome) ==
    /\ record(r, outcome)
    /\ IF req[r].lookup /\ outcome = "ok"
       THEN Goto(r, "reading") /\ UNCHANGED <<active, active_connections>>
       ELSE Return(r, outcome, "streaming")

\* The upstream call ends.  The gauge is set from the breaker before the verdict
\* on this call reaches the breaker.
Respond(r, u, outcome, age) ==
    /\ At(r, "calling") /\ req[r].idx = {u}
    /\ circuit_state' = [circuit_state EXCEPT ![u] = code(breaker[u])]
    /\ \/ /\ outcome \in {"ok", "other"}
          /\ breaker' = [breaker EXCEPT ![u] = record_success(@)]
          /\ finish_response(r, outcome)
       \/ /\ outcome \in {"5xx", "connect", "lost", "redirect"}
          /\ breaker' = [breaker EXCEPT ![u] = record_failure_at(@, age)]
          /\ \/ can_retry(r, outcome) /\ Retry(r, outcome)
             \/ ~can_retry(r, outcome) /\ outcome = "5xx" /\ finish_response(r, outcome)
             \/ ~can_retry(r, outcome) /\ outcome # "5xx"
                  /\ Return(r, "502", "done") /\ record(r, "502")
    /\ UNCHANGED <<healthy, cached>>

\* Mutant of Read: a stored response is counted again.
Read_CountsAgain(r, ok) ==
    /\ At(r, "reading")
    /\ cached' = (cached \/ ok)
    /\ Return(r, IF ok THEN "ok" ELSE "502", "done")
    /\ record(r, IF ok THEN "ok" ELSE "502")
    /\ UNCHANGED <<healthy, breaker, circuit_state>>

\* finish_response has buffered the body and stores it, or the read fails.
Read(r, ok) ==
    /\ At(r, "reading")
    /\ cached' = (cached \/ ok)
    /\ Return(r, IF ok THEN "ok" ELSE "502", "done")
    /\ UNCHANGED <<healthy, breaker, circuit_state, recorded>>

\* The last byte of a streamed body leaves the gateway, or the stream breaks.
StreamEnd(r) ==
    /\ At(r, "streaming")
    /\ req' = [req EXCEPT ![r].pc = "done", ![r].idx = {}]
    /\ UNCHANGED <<upstreamVars, cached, metrics>>

\* The client disconnects and the server drops the handler's future: the guard
\* goes with it, the code after the await never runs.
Disconnect(r) ==
    /\ req[r].pc \in Awaiting
    /\ End(r, "gone", "none")
    /\ UNCHANGED <<healthy, breaker, cached, metrics>>

-----------------------------------------------------------------------------
\* health::run stores the result of a probe.
SetHealthy(u, ok) ==
    /\ healthy' = [healthy EXCEPT ![u] = ok]
    /\ UNCHANGED <<req, breaker, active, cached, metrics>>

\* The cache entry expires or is evicted.
Expire ==
    /\ cached
    /\ cached' = FALSE
    /\ UNCHANGED <<req, upstreamVars, metrics>>

Tick ==
    /\ breaker' = [u \in Upstream |-> elapse(breaker[u])]
    /\ UNCHANGED <<req, healthy, active, cached, metrics>>

\* What brings a request in the handler forward.
Proceed(r) ==
    \/ \E ok \in BOOLEAN : Limit(r, ok) \/ Body(r, ok) \/ Read(r, ok)
    \/ Lookup(r)
    \/ \E age \in Age, asked \in SUBSET Candidates(r) : Pick(r, age, asked)
    \/ \E u \in Upstream, outcome \in Outcome, age \in Age : Respond(r, u, outcome, age)
    \/ StreamEnd(r)

Next ==
    \/ \E r \in Request :
         \/ Refuse(r)
         \/ \E status \in {"404", "401"} : TurnAway(r, status)
         \/ \E method \in Method, bypass \in BOOLEAN : Enter(r, method, bypass)
         \/ Proceed(r)
         \/ Disconnect(r)
    \/ \E u \in Upstream, ok \in BOOLEAN : SetHealthy(u, ok)
    \/ Expire
    \/ Tick

Spec == Init /\ [][Next]_vars

\* Every await of the handler ends: calls and buffered reads by the request
\* timeout, the rest when Redis and the client answer.
FairSpec == Spec /\ \A r \in Request : WF_vars(Proceed(r))

-----------------------------------------------------------------------------
\* The handlers and the shared state have their types.
TypeOK ==
    /\ \A r \in Request :
         /\ req[r].pc \in {"new", "streaming"} \cup InHandler \cup Ended
         /\ req[r].method \in Method
         /\ req[r].attempt \in 0 .. retries
         /\ req[r].excluded \subseteq Upstream
         /\ req[r].idx # {} <=> req[r].pc \in {"calling", "reading", "streaming"}
    /\ healthy \in [Upstream -> BOOLEAN]
    /\ breaker \in [Upstream -> Breaker]
    /\ active \in [Upstream -> 0 .. Cardinality(Request)]
    /\ active_connections \in 0 .. Cardinality(Request)
    /\ circuit_state \in [Upstream -> 0 .. 2]

\* A request is never sent to an upstream that may already have executed it, and
\* one that is not idempotent is not sent anywhere once an upstream answered it
\* with a 5xx or the exchange with it broke off (excluded, can_retry;
\* ARCHITECTURE.md: never "after a server error").
NoReplayAfterServerError ==
    \A r \in Request : At(r, "calling") =>
        /\ req[r].idx \cap req[r].executed = {}
        /\ is_idempotent(req[r].method) \/ req[r].executed \subseteq req[r].redirected

\* Every pass through the attempt loop is one of the max_attempts and excludes
\* one upstream per failed attempt, so the code after the loop never runs.
LoopBounded ==
    \A r \in Request : At(r, "pick") \/ At(r, "calling") =>
        /\ req[r].attempt < max_attempts
        /\ Cardinality(req[r].excluded) = req[r].attempt

\* A request answered by the handler is counted in gw_requests exactly once,
\* whatever retries, cache and errors do: when the status to answer is known,
\* which for an answer that is buffered is before its body has been read.
CountedOnce ==
    \A r \in Request :
        /\ req[r].pc \in {"new", "refused"} \cup (InHandler \ {"reading"}) => recorded[r] = <<>>
        /\ req[r].pc \in {"done", "streaming", "reading"} => Len(recorded[r]) = 1

\* Every request that enters the handler is answered or loses its client: the
\* retry loop ends whatever the upstreams, breakers and other requests do.
EveryRequestEnds ==
    \A r \in Request : req[r].pc \in InHandler ~> req[r].pc \in Ended

\* The gauge gw_active_connections never shows fewer requests than are in the
\* handler, and more only by requests whose client left during an await of handle:
\* no early return, retry, error or cache hit makes it drift.
GaugeErrsByDisconnectsOnly ==
    /\ active_connections >= Cardinality({r \in Request : req[r].pc \in InHandler})
    /\ active_connections <=
         Cardinality({r \in Request : req[r].pc \in InHandler \cup {"gone"}})

\* The handler keeps what UpstreamCalls promises: whatever the outcomes, retries,
\* early returns and disconnections, a request is counted on the upstream it is
\* calling or reading from and on no other, and is not sent to one that failed it.
Calls == INSTANCE UpstreamCalls WITH
    Caller <- Request,
    call <- [r \in Request |-> IF req[r].pc \in {"calling", "reading"} THEN req[r].idx ELSE {}],
    tried <- [r \in Request |-> req[r].excluded]
ImplementsCalls == Calls!Spec

-----------------------------------------------------------------------------
\* What the documents say of retries: only idempotent methods and "pure connection
\* errors before a response" are retried, so a request that is not idempotent is
\* sent nowhere once an upstream may have executed it.
NoReplay ==
    \A r \in Request : At(r, "calling") =>
        is_idempotent(req[r].method) \/ req[r].executed = {}

\* What the documents say of three metrics, with no request on its way:
\* gw_active_connections is the number of requests in flight, which is none;
InFlightShown == active_connections = 0
\* gw_circuit_breaker_state exposes the states of the breakers;
CircuitStateShown == \A u \in Upstream : circuit_state[u] = code(breaker[u])
\* gw_requests counts an answered request under its final status.
FinalStatusCounted ==
    \A r \in Request : At(r, "done") => recorded[r] = <<req[r].status>>

\* When no request is on its way, at least one of the three metrics is what its
\* description says.  A state that violates this refutes all three descriptions.
SomeMetricIsRight ==
    (\A r \in Request : req[r].pc \notin InHandler \cup {"streaming"}) =>
        InFlightShown \/ CircuitStateShown \/ FinalStatusCounted
=============================================================================
