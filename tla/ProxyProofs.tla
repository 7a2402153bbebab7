---------------------------- MODULE ProxyProofs -----------------------------
(***************************************************************************)
(* Proofs about the attempt loop of Proxy, for every number of requests,   *)
(* upstreams and retries, and every setting of the breakers.               *)
(***************************************************************************)
EXTENDS Proxy, FiniteSetTheorems, TLAPS

Status == {"none", "401", "404", "413", "429", "502", "503"} \cup Outcome

\* The locals of a handler.
Locals == [pc : {"new", "streaming"} \cup InHandler \cup Ended,
           method : Method,
           lookup : BOOLEAN,
           attempt : Nat,
           excluded : SUBSET Upstream,
           idx : SUBSET Upstream,
           executed : SUBSET Upstream,
           redirected : SUBSET Upstream,
           status : Status]

(***************************************************************************)
(* The inductive invariant, one handler at a time.                         *)
(* NoReplayAfterServerError rests on what the loop keeps between attempts: *)
(* every upstream that may have executed the request is excluded, and each *)
(* of them redirected it when the method is not idempotent; an upstream is *)
(* called only if it is not excluded.                                      *)
(***************************************************************************)
BeforeLoop(x) ==
    x.pc \in {"new", "limit", "lookup", "body"} =>
        x.attempt = 0 /\ x.excluded = {} /\ x.executed = {} /\ x.idx = {}

InLoop(x) ==
    x.pc \in {"pick", "calling"} =>
        /\ x.attempt <= retries
        /\ IsFiniteSet(x.excluded) /\ Cardinality(x.excluded) = x.attempt
        /\ x.executed \subseteq x.excluded
        /\ is_idempotent(x.method) \/ x.executed \subseteq x.redirected
        /\ x.pc = "pick" => x.idx = {}

Calling(x) ==
    x.pc \in {"calling", "reading"} =>
        \E u \in Upstream : x.idx = {u} /\ (x.pc = "calling" => u \notin x.excluded)

Placed(x) ==
    /\ x.attempt <= retries
    /\ x.pc = "streaming" => x.idx # {}
    /\ x.pc \in Ended => x.idx = {}

Sound(x) == x \in Locals /\ BeforeLoop(x) /\ InLoop(x) /\ Calling(x) /\ Placed(x)

LoopInv == req \in [Request -> Locals] /\ \A r \in Request : Sound(req[r])

USE DEF InHandler, Awaiting, Ended, Method, Outcome, Status

-----------------------------------------------------------------------------
\* A handler that is done with its request is in a sound state whatever it
\* answered.
LEMMA EndIsSound ==
    ASSUME NEW pc \in {"done", "streaming", "gone", "refused"}, NEW status \in Status,
           NEW idx \in SUBSET Upstream, idx # {} <=> pc = "streaming"
    PROVE  Sound([Fresh EXCEPT !.pc = pc, !.status = status, !.idx = idx])
<1> DEFINE x == [Fresh EXCEPT !.pc = pc, !.status = status, !.idx = idx]
<1>1. x \in Locals
  BY DEF Locals, Fresh
<1>2. x.pc = pc /\ x.attempt = 0 /\ x.idx = idx
  BY DEF Fresh
<1> HIDE DEF x
<1>3. Sound(x)
  BY <1>1, <1>2, RetriesAssumption DEF Sound, BeforeLoop, InLoop, Calling, Placed
<1>4. QED BY <1>3 DEF x

\* Replacing the locals of one handler by sound ones keeps the invariant.
LEMMA OneHandler ==
    ASSUME LoopInv, NEW r \in Request, NEW x, Sound(x), req' = [req EXCEPT ![r] = x]
    PROVE  LoopInv'
<1>1. x \in Locals
  BY DEF Sound
<1>2. req' \in [Request -> Locals]
  BY <1>1 DEF LoopInv
<1>3. ASSUME NEW q \in Request PROVE Sound(req'[q])
  <2>1. CASE q = r
    BY <2>1 DEF LoopInv
  <2>2. CASE q # r
    <3>1. req'[q] = req[q]
      BY <2>2 DEF LoopInv
    <3>2. QED BY <3>1 DEF LoopInv
  <2>3. QED BY <2>1, <2>2
<1>4. (\A q \in Request : Sound(req[q]))'
  BY <1>3 DEF Sound, BeforeLoop, InLoop, Calling, Placed
<1>5. QED BY <1>2, <1>4 DEF LoopInv

\* A handler that returns or is dropped.
LEMMA EndPreserves ==
    ASSUME LoopInv, NEW r \in Request, NEW status \in Status,
           NEW pc \in {"done", "streaming", "gone"}, End(r, pc, status),
           pc = "streaming" => req[r].pc = "calling"
    PROVE  LoopInv'
<1> DEFINE idx == IF pc = "streaming" THEN req[r].idx ELSE {}
<1>1. idx \in SUBSET Upstream /\ (idx # {} <=> pc = "streaming")
  BY DEF LoopInv, Locals, Sound, Calling
<1>2. Sound([Fresh EXCEPT !.pc = pc, !.status = status, !.idx = idx])
  BY <1>1, EndIsSound
<1>3. req' = [req EXCEPT ![r] = [Fresh EXCEPT !.pc = pc, !.status = status, !.idx = idx]]
  BY DEF End
<1>4. QED BY <1>2, <1>3, OneHandler

\* A handler that goes on without touching the loop's variables.
LEMMA GotoPreserves ==
    ASSUME LoopInv, NEW r \in Request, NEW pc, Goto(r, pc),
           \/ pc \in {"lookup", "body", "pick"} /\ req[r].pc \in {"limit", "lookup", "body"}
           \/ pc = "reading" /\ req[r].pc = "calling"
    PROVE  LoopInv'
<1> DEFINE x == [req[r] EXCEPT !.pc = pc]
<1>1. Sound(req[r]) /\ req[r] \in Locals
  BY DEF LoopInv
<1>2. x \in Locals
  BY <1>1 DEF Locals
<1>3. /\ x.pc = pc /\ x.attempt = req[r].attempt /\ x.excluded = req[r].excluded
      /\ x.executed = req[r].executed /\ x.redirected = req[r].redirected
      /\ x.idx = req[r].idx
  BY <1>1 DEF Locals
<1> HIDE DEF x
<1>4. Sound(x)
  BY <1>1, <1>2, <1>3, RetriesAssumption, FS_EmptySet
  DEF Sound, BeforeLoop, InLoop, Calling, Placed
<1>5. req' = [req EXCEPT ![r] = x]
  BY DEF Goto, x
<1>6. QED BY <1>4, <1>5, OneHandler

\* Entering the handler resets its locals.
LEMMA EnterPreserves ==
    ASSUME LoopInv, NEW r \in Request, NEW method \in Method, NEW bypass \in BOOLEAN,
           Enter(r, method, bypass)
    PROVE  LoopInv'
<1> DEFINE pc == IF rate_limit THEN "limit" ELSE "lookup"
           lookup == cache_configured /\ method = "GET" /\ ~bypass
           x == [Fresh EXCEPT !.pc = pc, !.method = method, !.lookup = lookup]
<1>1. lookup \in BOOLEAN /\ pc \in {"limit", "lookup"}
  BY OptionsAssumption
<1> HIDE DEF lookup, pc
<1>2. x \in Locals
  BY <1>1 DEF Locals, Fresh
<1>3. /\ x.pc = pc /\ x.attempt = 0 /\ x.excluded = {} /\ x.executed = {} /\ x.idx = {}
  BY DEF Fresh
<1>4. req' = [req EXCEPT ![r] = x]
  BY DEF Enter, pc, lookup
<1> HIDE DEF x
<1>5. Sound(x)
  BY <1>1, <1>2, <1>3, RetriesAssumption DEF Sound, BeforeLoop, InLoop, Calling, Placed
<1>6. QED BY <1>4, <1>5, OneHandler

\* Picking: the upstream taken is not excluded.
LEMMA PickPreserves ==
    ASSUME LoopInv, NEW r \in Request, NEW age \in Age,
           NEW asked \in SUBSET Candidates(r), Pick(r, age, asked)
    PROVE  LoopInv'
<1>1. CASE \E u \in asked \cap Eligible(r, age) :
             req' = [req EXCEPT ![r].pc = "calling", ![r].idx = {u}]
  <2>1. PICK u \in asked \cap Eligible(r, age) :
             req' = [req EXCEPT ![r].pc = "calling", ![r].idx = {u}]
    BY <1>1
  <2>2. u \in Upstream /\ u \notin req[r].excluded
    BY DEF Eligible, Candidates
  <2> DEFINE x == [req[r] EXCEPT !.pc = "calling", !.idx = {u}]
  <2>3. Sound(req[r]) /\ req[r] \in Locals /\ req[r].pc = "pick"
    BY DEF LoopInv, Pick, At
  <2>4. x \in Locals
    BY <2>2, <2>3 DEF Locals
  <2>5. /\ x.pc = "calling" /\ x.idx = {u} /\ x.attempt = req[r].attempt
        /\ x.excluded = req[r].excluded /\ x.executed = req[r].executed
        /\ x.redirected = req[r].redirected /\ x.method = req[r].method
    BY <2>3 DEF Locals
  <2>6. req' = [req EXCEPT ![r] = x]
    BY <2>1, <2>3 DEF LoopInv, Locals
  <2> HIDE DEF x
  <2>7. Sound(x)
    BY <2>2, <2>3, <2>4, <2>5 DEF Sound, BeforeLoop, InLoop, Calling, Placed
  <2>8. QED BY <2>6, <2>7, OneHandler
<1>2. CASE Return(r, "503", "done")
  BY <1>2, EndPreserves DEF Return
<1>3. QED BY <1>1, <1>2 DEF Pick

\* Retrying: the failed upstream joins the excluded ones, and it may have
\* executed the request only if the method is idempotent or it redirected it.
LEMMA RetryPreserves ==
    ASSUME LoopInv, NEW r \in Request, NEW outcome \in Outcome,
           At(r, "calling"), can_retry(r, outcome), Retry(r, outcome)
    PROVE  LoopInv'
<1>1. Sound(req[r]) /\ req[r] \in Locals /\ req[r].pc = "calling"
  BY DEF LoopInv, At
<1>2. PICK u \in Upstream : req[r].idx = {u} /\ u \notin req[r].excluded
  BY <1>1 DEF Sound, Calling
<1>3. /\ req[r].attempt \in Nat
      /\ IsFiniteSet(req[r].excluded) /\ Cardinality(req[r].excluded) = req[r].attempt
      /\ req[r].executed \subseteq req[r].excluded
      /\ is_idempotent(req[r].method) \/ req[r].executed \subseteq req[r].redirected
      /\ req[r].excluded \subseteq Upstream /\ req[r].executed \subseteq Upstream
      /\ req[r].redirected \subseteq Upstream
  BY <1>1 DEF Sound, InLoop, Locals
<1> DEFINE executed == IF Executes(outcome) THEN req[r].executed \cup req[r].idx
                       ELSE req[r].executed
           redirected == IF outcome = "redirect" THEN req[r].redirected \cup req[r].idx
                         ELSE req[r].redirected
           x == [req[r] EXCEPT !.pc = "pick", !.attempt = @ + 1,
                               !.excluded = @ \cup req[r].idx, !.idx = {},
                               !.executed = executed, !.redirected = redirected]
<1>4. req' = [req EXCEPT ![r] = x]
  BY DEF Retry
<1>5. /\ IsFiniteSet(req[r].excluded \cup {u})
      /\ Cardinality(req[r].excluded \cup {u}) = req[r].attempt + 1
  BY <1>2, <1>3, FS_AddElement
<1>6. req[r].attempt + 1 <= retries
  BY <1>3, RetriesAssumption DEF can_retry, max_attempts
<1>7. /\ executed \subseteq req[r].excluded \cup {u} /\ executed \subseteq Upstream
      /\ redirected \subseteq Upstream
  BY <1>2, <1>3
<1>8. is_idempotent(req[r].method) \/ executed \subseteq redirected
  BY <1>3 DEF can_retry, is_connect, Executes
<1> HIDE DEF executed, redirected
<1>9. x \in Locals
  <2>1. /\ req[r].attempt + 1 \in Nat
        /\ req[r].excluded \cup req[r].idx \in SUBSET Upstream
        /\ executed \in SUBSET Upstream /\ redirected \in SUBSET Upstream
    BY <1>2, <1>3, <1>7
  <2>2. QED BY <1>1, <2>1 DEF Locals
<1>10. /\ x.pc = "pick" /\ x.attempt = req[r].attempt + 1
       /\ x.excluded = req[r].excluded \cup {u} /\ x.executed = executed
       /\ x.redirected = redirected /\ x.method = req[r].method /\ x.idx = {}
  BY <1>1, <1>2 DEF Locals
<1> HIDE DEF x
<1>11. Sound(x)
  BY <1>5, <1>6, <1>7, <1>8, <1>9, <1>10 DEF Sound, BeforeLoop, InLoop, Calling, Placed
<1>12. QED BY <1>4, <1>11, OneHandler

\* The end of an upstream call.
LEMMA RespondPreserves ==
    ASSUME LoopInv, NEW r \in Request, NEW u \in Upstream, NEW outcome \in Outcome,
           NEW age \in Age, Respond(r, u, outcome, age)
    PROVE  LoopInv'
<1>1. CASE finish_response(r, outcome)
  <2>1. CASE Goto(r, "reading")
    BY <2>1, GotoPreserves DEF Respond, At
  <2>2. CASE Return(r, outcome, "streaming")
    BY <2>2, EndPreserves DEF Return, Respond, At
  <2>3. QED BY <1>1, <2>1, <2>2 DEF finish_response
<1>2. CASE can_retry(r, outcome) /\ Retry(r, outcome)
  BY <1>2, RetryPreserves DEF Respond
<1>3. CASE Return(r, "502", "done")
  BY <1>3, EndPreserves DEF Return
<1>4. QED BY <1>1, <1>2, <1>3 DEF Respond

-----------------------------------------------------------------------------
\* The initial states satisfy the inductive invariant.
LEMMA InitLoopInv == Init => LoopInv
<1>1. Sound(Fresh) /\ Fresh \in Locals
  BY RetriesAssumption DEF Sound, Locals, BeforeLoop, InLoop, Calling, Placed, Fresh
<1>2. QED BY <1>1 DEF Init, LoopInv

\* Steps that end a request outside the loop.
LEMMA OutsidePreserves ==
    ASSUME LoopInv, NEW r \in Request,
           \/ Refuse(r)
           \/ \E status \in {"404", "401"} : TurnAway(r, status)
           \/ StreamEnd(r)
    PROVE  LoopInv'
<1>1. req[r] \in Locals /\ req \in [Request -> Locals]
  BY DEF LoopInv
<1>2. ASSUME NEW x \in Locals, x.pc \in {"refused", "done"}, x.idx = {}, x.attempt <= retries
      PROVE  Sound(x)
  BY <1>2 DEF Sound, BeforeLoop, InLoop, Calling, Placed
<1>3. ASSUME NEW status \in Status, NEW pc \in {"refused", "done"},
             req' = [req EXCEPT ![r].pc = pc, ![r].status = status], At(r, "new")
      PROVE  LoopInv'
  <2> DEFINE x == [req[r] EXCEPT !.pc = pc, !.status = status]
  <2>1. x \in Locals /\ x.pc = pc /\ x.idx = {} /\ x.attempt <= retries
    BY <1>1, <1>3 DEF Locals, LoopInv, Sound, BeforeLoop, Placed, At
  <2>2. req' = [req EXCEPT ![r] = x]
    BY <1>1, <1>3 DEF Locals
  <2> HIDE DEF x
  <2>3. QED BY <1>2, <2>1, <2>2, OneHandler
<1>4. CASE Refuse(r)
  BY <1>3, <1>4 DEF Refuse
<1>5. CASE \E status \in {"404", "401"} : TurnAway(r, status)
  BY <1>3, <1>5 DEF TurnAway
<1>6. CASE StreamEnd(r)
  <2> DEFINE x == [req[r] EXCEPT !.pc = "done", !.idx = {}]
  <2>1. x \in Locals /\ x.pc = "done" /\ x.idx = {} /\ x.attempt <= retries
    BY <1>1 DEF Locals, LoopInv, Sound, Placed
  <2>2. req' = [req EXCEPT ![r] = x]
    BY <1>1, <1>6 DEF StreamEnd, Locals
  <2> HIDE DEF x
  <2>3. QED BY <1>2, <2>1, <2>2, OneHandler
<1>7. QED BY <1>4, <1>5, <1>6

\* Steps that do not touch any handler.
LEMMA EnvironmentPreserves ==
    ASSUME LoopInv, UNCHANGED req
    PROVE  LoopInv'
  BY DEF LoopInv, Sound, BeforeLoop, InLoop, Calling, Placed

\* Every step preserves the loop's invariant.
LEMMA NextLoopInv == LoopInv /\ [Next]_vars => LoopInv'
<1> SUFFICES ASSUME LoopInv, [Next]_vars PROVE LoopInv'
  OBVIOUS
<1>1. CASE UNCHANGED vars \/ Expire \/ Tick \/ \E u \in Upstream, ok \in BOOLEAN : SetHealthy(u, ok)
  BY <1>1, EnvironmentPreserves DEF vars, Expire, Tick, SetHealthy
<1>2. ASSUME NEW r \in Request,
             \/ Refuse(r)
             \/ \E status \in {"404", "401"} : TurnAway(r, status)
             \/ StreamEnd(r)
      PROVE  LoopInv'
  BY <1>2, OutsidePreserves
<1>3. ASSUME NEW r \in Request, NEW method \in Method, NEW bypass \in BOOLEAN,
             Enter(r, method, bypass)
      PROVE  LoopInv'
  BY <1>3, EnterPreserves
<1>4. ASSUME NEW r \in Request, NEW ok \in BOOLEAN, Limit(r, ok)
      PROVE  LoopInv'
  BY <1>4, GotoPreserves, EndPreserves DEF Limit, Return, At
<1>5. ASSUME NEW r \in Request, Lookup(r) PROVE LoopInv'
  BY <1>5, GotoPreserves, EndPreserves DEF Lookup, Return, At
<1>6. ASSUME NEW r \in Request, NEW ok \in BOOLEAN, Body(r, ok)
      PROVE  LoopInv'
  BY <1>6, GotoPreserves, EndPreserves DEF Body, Return, At
<1>7. ASSUME NEW r \in Request, NEW age \in Age, NEW asked \in SUBSET Candidates(r),
             Pick(r, age, asked)
      PROVE  LoopInv'
  BY <1>7, PickPreserves
<1>8. ASSUME NEW r \in Request, NEW u \in Upstream, NEW outcome \in Outcome,
             NEW age \in Age, Respond(r, u, outcome, age)
      PROVE  LoopInv'
  BY <1>8, RespondPreserves
<1>9. ASSUME NEW r \in Request, NEW ok \in BOOLEAN, Read(r, ok)
      PROVE  LoopInv'
  BY <1>9, EndPreserves DEF Read, Return
<1>10. ASSUME NEW r \in Request, Disconnect(r) PROVE LoopInv'
  BY <1>10, EndPreserves DEF Disconnect
<1>11. QED
  BY <1>1, <1>2, <1>3, <1>4, <1>5, <1>6, <1>7, <1>8, <1>9, <1>10 DEF Next, Proceed

\* The loop's invariant holds throughout.
THEOREM LoopInvariant == Spec => []LoopInv
<1>1. QED BY InitLoopInv, NextLoopInv, PTL DEF Spec

\* For every configuration, a request is never sent to an upstream that may have
\* executed it, and one that is not idempotent is not sent anywhere once an
\* upstream answered it with a 5xx or the exchange broke off, although redirects
\* make a connection error possible after the request was executed.
THEOREM NeverReplaysAfterServerError == Spec => []NoReplayAfterServerError
<1>1. LoopInv => NoReplayAfterServerError
  BY DEF LoopInv, Sound, InLoop, Calling, NoReplayAfterServerError, At
<1>2. QED BY <1>1, LoopInvariant, PTL

\* For every configuration, the attempt loop makes at most max_attempts
\* attempts, each excluding one more upstream, and never runs past its end.
THEOREM LoopIsBounded == Spec => []LoopBounded
<1>1. LoopInv => LoopBounded
  BY RetriesAssumption DEF LoopInv, Sound, Locals, InLoop, LoopBounded, At, max_attempts
<1>2. QED BY <1>1, LoopInvariant, PTL

-----------------------------------------------------------------------------
(***************************************************************************)
(* Proxy implements UpstreamCalls.  The mapping looks at one handler at a  *)
(* time: CallOf its locals, and its excluded set.                          *)
(***************************************************************************)
CallOf(x) == IF x.pc \in {"calling", "reading"} THEN x.idx ELSE {}

ActiveOK == active \in [Upstream -> Int]

\* A step that keeps the call, the excluded upstreams and the counts stutters.
LEMMA StutterMaps ==
    ASSUME LoopInv, NEW r \in Request, NEW x, req' = [req EXCEPT ![r] = x],
           CallOf(x) = CallOf(req[r]), x.excluded = req[r].excluded, UNCHANGED active
    PROVE  UNCHANGED Calls!vars
<1>1. \A q \in Request : CallOf(req'[q]) = CallOf(req[q]) /\ req'[q].excluded = req[q].excluded
  BY DEF LoopInv
<1>2. QED BY <1>1 DEF Calls!vars, CallOf

\* A handler that returns or is dropped releases the upstream it holds, if any.
LEMMA EndMaps ==
    ASSUME LoopInv, ActiveOK, NEW r \in Request, NEW pc \in {"done", "streaming", "gone"},
           NEW status, req[r].pc \in InHandler, End(r, pc, status)
    PROVE  Calls!Next
<1> DEFINE x == [Fresh EXCEPT !.pc = pc, !.status = status,
                              !.idx = IF pc = "streaming" THEN req[r].idx ELSE {}]
<1>1. req' = [req EXCEPT ![r] = x] /\ x.pc = pc /\ x.excluded = {}
  BY DEF End, Fresh
<1>2. CallOf(x) = {}
  BY <1>1 DEF CallOf
<1> HIDE DEF x
<1>3. Sound(req[r]) /\ req \in [Request -> Locals]
  BY DEF LoopInv
<1>4. /\ [q \in Request |-> CallOf(req'[q])] = [[q \in Request |-> CallOf(req[q])] EXCEPT ![r] = {}]
      /\ [q \in Request |-> req'[q].excluded] = [[q \in Request |-> req[q].excluded] EXCEPT ![r] = {}]
  BY <1>1, <1>2, <1>3
<1>5. CASE req[r].pc \in {"calling", "reading"}
  <2>1. PICK u \in Upstream : req[r].idx = {u}
    BY <1>3, <1>5 DEF Sound, Calling
  <2>2. CallOf(req[r]) = {u}
    BY <1>5, <2>1 DEF CallOf
  <2>3. active' = [active EXCEPT ![u] = @ - 1]
    BY <2>1 DEF End, DropGuard, ActiveOK
  <2>4. Calls!Release(r, u)
    BY <1>4, <2>2, <2>3 DEF Calls!Release, CallOf
  <2>5. QED BY <2>4 DEF Calls!Next
<1>6. CASE req[r].pc \notin {"calling", "reading"}
  <2>1. req[r].idx = {} /\ CallOf(req[r]) = {}
    BY <1>3, <1>6 DEF Sound, BeforeLoop, InLoop, CallOf
  <2>2. active' = active
    BY <2>1 DEF End, DropGuard, ActiveOK
  <2>3. [q \in Request |-> CallOf(req'[q])] = [q \in Request |-> CallOf(req[q])]
    BY <1>4, <2>1
  <2>4. Calls!GiveUp(r)
    BY <1>4, <2>1, <2>2, <2>3 DEF Calls!GiveUp, CallOf
  <2>5. QED BY <2>4 DEF Calls!Next
<1>7. QED BY <1>5, <1>6

\* A pick takes an upstream that is not excluded.
LEMMA PickMaps ==
    ASSUME LoopInv, ActiveOK, NEW r \in Request, NEW age \in Age,
           NEW asked \in SUBSET Candidates(r), Pick(r, age, asked)
    PROVE  Calls!Next
<1>1. CASE \E u \in asked \cap Eligible(r, age) :
             /\ req' = [req EXCEPT ![r].pc = "calling", ![r].idx = {u}]
             /\ active' = [active EXCEPT ![u] = @ + 1]
  <2>1. PICK u \in asked \cap Eligible(r, age) :
             /\ req' = [req EXCEPT ![r].pc = "calling", ![r].idx = {u}]
             /\ active' = [active EXCEPT ![u] = @ + 1]
    BY <1>1
  <2>2. u \in Upstream /\ u \notin req[r].excluded
    BY DEF Eligible, Candidates
  <2>3. req \in [Request -> Locals] /\ req[r].pc = "pick"
    BY DEF LoopInv, Pick, At
  <2>4. /\ req'[r].pc = "calling" /\ req'[r].idx = {u} /\ req'[r].excluded = req[r].excluded
        /\ \A q \in Request \ {r} : req'[q] = req[q]
    BY <2>1, <2>3 DEF Locals
  <2>5. /\ [q \in Request |-> CallOf(req'[q])] = [[q \in Request |-> CallOf(req[q])] EXCEPT ![r] = {u}]
        /\ [q \in Request |-> req'[q].excluded] = [q \in Request |-> req[q].excluded]
        /\ CallOf(req[r]) = {}
    BY <2>3, <2>4 DEF CallOf
  <2>6. Calls!Take(r, u)
    BY <2>1, <2>2, <2>5 DEF Calls!Take, CallOf
  <2>7. QED BY <2>2, <2>6 DEF Calls!Next
<1>2. CASE Return(r, "503", "done")
  BY <1>2, EndMaps DEF Return, Pick, At
<1>3. QED BY <1>1, <1>2 DEF Pick

\* A retry leaves the upstream that failed.
LEMMA RetryMaps ==
    ASSUME LoopInv, ActiveOK, NEW r \in Request, NEW u \in Upstream, NEW outcome \in Outcome,
           At(r, "calling"), req[r].idx = {u}, Retry(r, outcome)
    PROVE  Calls!Next
<1>1. req \in [Request -> Locals] /\ req[r].pc = "calling"
  BY DEF LoopInv, At
<1>2. /\ req'[r].pc = "pick" /\ req'[r].excluded = req[r].excluded \cup {u}
      /\ \A q \in Request \ {r} : req'[q] = req[q]
  BY <1>1 DEF Retry, Locals
<1>3. /\ [q \in Request |-> CallOf(req'[q])] = [[q \in Request |-> CallOf(req[q])] EXCEPT ![r] = {}]
      /\ [q \in Request |-> req'[q].excluded]
           = [[q \in Request |-> req[q].excluded] EXCEPT ![r] = @ \cup {u}]
      /\ CallOf(req[r]) = {u}
  BY <1>1, <1>2 DEF CallOf
<1>4. active' = [active EXCEPT ![u] = @ - 1]
  BY DEF Retry, DropGuard, ActiveOK
<1>5. Calls!Fail(r, u)
  BY <1>3, <1>4 DEF Calls!Fail, CallOf
<1>6. QED BY <1>5 DEF Calls!Next

\* Steps before, after and between the calls.
LEMMA GotoMaps ==
    ASSUME LoopInv, NEW r \in Request, NEW pc, Goto(r, pc), UNCHANGED active,
           \/ pc \in {"lookup", "body", "pick"} /\ req[r].pc \in {"limit", "lookup", "body"}
           \/ pc = "reading" /\ req[r].pc = "calling"
    PROVE  UNCHANGED Calls!vars
<1> DEFINE x == [req[r] EXCEPT !.pc = pc]
<1>1. req[r] \in Locals
  BY DEF LoopInv
<1>2. x.pc = pc /\ x.idx = req[r].idx /\ x.excluded = req[r].excluded
  BY <1>1 DEF Locals
<1>3. req' = [req EXCEPT ![r] = x]
  BY DEF Goto
<1> HIDE DEF x
<1>4. CallOf(x) = CallOf(req[r])
  BY <1>2 DEF CallOf
<1>5. QED BY <1>2, <1>3, <1>4, StutterMaps

\* Steps outside the attempt loop leave the abstract state alone.
LEMMA OutsideMaps ==
    ASSUME LoopInv, NEW r \in Request,
           \/ Refuse(r)
           \/ \E status \in {"404", "401"} : TurnAway(r, status)
           \/ StreamEnd(r)
           \/ \E method \in Method, bypass \in BOOLEAN : Enter(r, method, bypass)
    PROVE  UNCHANGED Calls!vars
<1>1. Sound(req[r]) /\ req[r] \in Locals /\ req \in [Request -> Locals]
  BY DEF LoopInv
<1>2. UNCHANGED active /\ req[r].pc \in {"new", "streaming"}
  BY DEF Refuse, TurnAway, StreamEnd, Enter, At, upstreamVars
<1>3. /\ req'[r].pc \in {"refused", "done", "limit", "lookup"}
      /\ req'[r].excluded = req[r].excluded
      /\ \A q \in Request \ {r} : req'[q] = req[q]
  <2>1. CASE Refuse(r)
    BY <1>1, <2>1 DEF Refuse, Locals
  <2>2. CASE \E status \in {"404", "401"} : TurnAway(r, status)
    BY <1>1, <2>2 DEF TurnAway, Locals
  <2>3. CASE StreamEnd(r)
    BY <1>1, <2>3 DEF StreamEnd, Locals
  <2>4. CASE \E method \in Method, bypass \in BOOLEAN : Enter(r, method, bypass)
    <3>1. PICK method \in Method, bypass \in BOOLEAN : Enter(r, method, bypass)
      BY <2>4
    <3> DEFINE x == [Fresh EXCEPT !.pc = IF rate_limit THEN "limit" ELSE "lookup",
                                  !.method = method,
                                  !.lookup = cache_configured /\ method = "GET" /\ ~bypass]
    <3>2. x.pc \in {"limit", "lookup"} /\ x.excluded = {}
      BY DEF Fresh
    <3>3. req' = [req EXCEPT ![r] = x] /\ req[r].pc = "new"
      BY <3>1 DEF Enter, At
    <3> HIDE DEF x
    <3>4. req[r].excluded = {}
      BY <1>1, <3>3 DEF Sound, BeforeLoop
    <3>5. QED BY <1>1, <3>2, <3>3, <3>4
  <2>5. QED BY <2>1, <2>2, <2>3, <2>4
<1>4. \A q \in Request : CallOf(req'[q]) = CallOf(req[q]) /\ req'[q].excluded = req[q].excluded
  BY <1>2, <1>3 DEF CallOf
<1>5. QED BY <1>2, <1>4 DEF Calls!vars, CallOf

\* The end of a call.
LEMMA RespondMaps ==
    ASSUME LoopInv, ActiveOK, NEW r \in Request, NEW u \in Upstream, NEW outcome \in Outcome,
           NEW age \in Age, Respond(r, u, outcome, age)
    PROVE  [Calls!Next]_(Calls!vars)
<1>1. req[r].pc = "calling" /\ At(r, "calling") /\ req[r].idx = {u}
  BY DEF Respond, At
<1>2. CASE finish_response(r, outcome)
  <2>1. CASE Goto(r, "reading") /\ UNCHANGED active
    BY <1>1, <2>1, GotoMaps
  <2>2. CASE Return(r, outcome, "streaming")
    BY <1>1, <2>2, EndMaps DEF Return
  <2>3. QED BY <1>2, <2>1, <2>2 DEF finish_response
<1>3. CASE Retry(r, outcome)
  BY <1>1, <1>3, RetryMaps
<1>4. CASE Return(r, "502", "done")
  BY <1>1, <1>4, EndMaps DEF Return
<1>5. QED BY <1>2, <1>3, <1>4 DEF Respond

\* Every step keeps the types of the shared state.
LEMMA NextActiveOK == ActiveOK /\ [Next]_vars => ActiveOK'
<1> SUFFICES ASSUME ActiveOK, [Next]_vars PROVE ActiveOK'
  OBVIOUS
<1>1. CASE UNCHANGED active
  BY <1>1 DEF ActiveOK
<1>2. ASSUME NEW r \in Request, DropGuard(r) PROVE ActiveOK'
  BY <1>2 DEF DropGuard, ActiveOK
<1>3. ASSUME NEW u \in Upstream, active' = [active EXCEPT ![u] = @ + 1] PROVE ActiveOK'
  BY <1>3 DEF ActiveOK
<1>4. ASSUME NEW r \in Request, NEW age \in Age, NEW asked \in SUBSET Candidates(r),
             Pick(r, age, asked)
      PROVE  ActiveOK'
  BY <1>2, <1>3, <1>4 DEF Pick, Return, End, Eligible, Candidates
<1>5. ASSUME NEW r \in Request, NEW u \in Upstream, NEW outcome \in Outcome,
             NEW age \in Age, Respond(r, u, outcome, age)
      PROVE  ActiveOK'
  BY <1>1, <1>2, <1>5 DEF Respond, finish_response, Retry, Return, End
<1>6. ASSUME NEW r \in Request, Lookup(r) \/ Disconnect(r)
                                \/ \E ok \in BOOLEAN : Limit(r, ok) \/ Body(r, ok) \/ Read(r, ok)
      PROVE  ActiveOK'
  BY <1>1, <1>2, <1>6 DEF Lookup, Disconnect, Limit, Body, Read, Return, End
<1>7. QED
  BY <1>1, <1>4, <1>5, <1>6
  DEF Next, Proceed, vars, upstreamVars, Refuse, TurnAway, Enter, StreamEnd, SetHealthy, Expire, Tick

\* Every step of the handlers is a step of UpstreamCalls or leaves it alone.
LEMMA NextMaps == LoopInv /\ ActiveOK /\ [Next]_vars => [Calls!Next]_(Calls!vars)
<1> SUFFICES ASSUME LoopInv, ActiveOK, [Next]_vars PROVE [Calls!Next]_(Calls!vars)
  OBVIOUS
<1>1. CASE UNCHANGED <<req, active>>
  BY <1>1 DEF Calls!vars
<1>2. ASSUME NEW r \in Request,
             \/ Refuse(r)
             \/ \E status \in {"404", "401"} : TurnAway(r, status)
             \/ StreamEnd(r)
             \/ \E method \in Method, bypass \in BOOLEAN : Enter(r, method, bypass)
      PROVE  [Calls!Next]_(Calls!vars)
  BY <1>2, OutsideMaps
<1>3. ASSUME NEW r \in Request, NEW ok \in BOOLEAN, Limit(r, ok)
      PROVE  [Calls!Next]_(Calls!vars)
  BY <1>3, GotoMaps, EndMaps DEF Limit, Return, At
<1>4. ASSUME NEW r \in Request, Lookup(r) PROVE [Calls!Next]_(Calls!vars)
  BY <1>4, GotoMaps, EndMaps DEF Lookup, Return, At
<1>5. ASSUME NEW r \in Request, NEW ok \in BOOLEAN, Body(r, ok)
      PROVE  [Calls!Next]_(Calls!vars)
  BY <1>5, GotoMaps, EndMaps DEF Body, Return, At
<1>6. ASSUME NEW r \in Request, NEW age \in Age, NEW asked \in SUBSET Candidates(r),
             Pick(r, age, asked)
      PROVE  [Calls!Next]_(Calls!vars)
  BY <1>6, PickMaps
<1>7. ASSUME NEW r \in Request, NEW u \in Upstream, NEW outcome \in Outcome,
             NEW age \in Age, Respond(r, u, outcome, age)
      PROVE  [Calls!Next]_(Calls!vars)
  BY <1>7, RespondMaps
<1>8. ASSUME NEW r \in Request, Disconnect(r) \/ \E ok \in BOOLEAN : Read(r, ok)
      PROVE  [Calls!Next]_(Calls!vars)
  BY <1>8, EndMaps DEF Disconnect, Read, Return, At
<1>9. QED
  BY <1>1, <1>2, <1>3, <1>4, <1>5, <1>6, <1>7, <1>8
  DEF Next, Proceed, vars, upstreamVars, SetHealthy, Expire, Tick

\* For every configuration, the handlers implement UpstreamCalls: each is counted
\* on the upstream it is calling and on no other, and never goes back to one that
\* failed its request.
THEOREM HandlersImplementCalls == Spec => ImplementsCalls
<1>1. Init => Calls!Init
  BY DEF Init, Fresh, Calls!Init
<1>2. Init => ActiveOK
  BY DEF Init, ActiveOK
<1>3. QED BY <1>1, <1>2, LoopInvariant, NextActiveOK, NextMaps, PTL
          DEF Spec, ImplementsCalls, Calls!Spec

-----------------------------------------------------------------------------
(***************************************************************************)
(* What the metrics keep.  Every step moves at most one handler from one   *)
(* point to another, and the move decides whether the request is counted   *)
(* and how the gauge changes.                                              *)
(***************************************************************************)
Uncounted == {"new", "refused"} \cup (InHandler \ {"reading"})
Gauge(pc) == IF pc \in InHandler \cup {"gone"} THEN 1 ELSE 0

MetricsType == recorded \in [Request -> Seq(Status)] /\ active_connections \in Int

Goes(r, pc) == req'[r].pc = pc /\ \A g \in Request \ {r} : req'[g] = req[g]

\* A move that counts nothing, and one that counts the request.
Silent(p, q) ==
    \/ p \in Uncounted /\ q \in Uncounted \cup {"gone"}
    \/ p \in {"reading", "streaming"} /\ q \in {"done", "gone"}
Counting(p, q) == p \in Uncounted /\ q \in {"done", "streaming", "reading"}

Moved(r, pc) ==
    /\ Goes(r, pc)
    /\ \/ Silent(req[r].pc, pc) /\ recorded' = recorded
       \/ \E status \in Status : Counting(req[r].pc, pc) /\ record(r, status)
    /\ active_connections' = (active_connections + Gauge(pc)) - Gauge(req[r].pc)

\* Where the steps of a handler take it.
LEMMA GotoGoes == ASSUME LoopInv, NEW r \in Request, NEW pc, Goto(r, pc) PROVE Goes(r, pc)
  BY DEF LoopInv, Locals, Goto, Goes

\* Where the end of a handler takes it.
LEMMA EndGoes ==
    ASSUME LoopInv, NEW r \in Request, NEW pc, NEW status, End(r, pc, status)
    PROVE  Goes(r, pc)
  BY DEF LoopInv, End, Fresh, Goes

\* A handler that goes on to another await of handle.
LEMMA GotoMoves ==
    ASSUME LoopInv, MetricsType, NEW r \in Request, NEW pc \in InHandler \ {"reading"},
           req[r].pc \in InHandler \ {"reading"}, Goes(r, pc),
           UNCHANGED <<active_connections, recorded>>
    PROVE  Moved(r, pc)
<1>1. Gauge(pc) = 1 /\ Gauge(req[r].pc) = 1
  BY DEF Gauge
<1>2. active_connections' = (active_connections + Gauge(pc)) - Gauge(req[r].pc)
  BY <1>1 DEF MetricsType
<1>3. Silent(req[r].pc, pc)
  BY DEF Silent, Uncounted
<1>4. QED BY <1>2, <1>3 DEF Moved

\* An answer of the handler that is counted.
LEMMA ReturnMoves ==
    ASSUME LoopInv, MetricsType, NEW r \in Request, NEW pc \in {"done", "streaming"},
           NEW status \in Status, NEW said,
           req[r].pc \in InHandler \ {"reading"}, Return(r, said, pc), record(r, status)
    PROVE  Moved(r, pc)
<1>1. Gauge(pc) = 0 /\ Gauge(req[r].pc) = 1
  BY DEF Gauge
<1>2. active_connections' = (active_connections + Gauge(pc)) - Gauge(req[r].pc)
  BY <1>1 DEF MetricsType, Return
<1>3. Counting(req[r].pc, pc)
  BY DEF Counting, Uncounted
<1>4. Goes(r, pc)
  BY EndGoes DEF Return
<1>5. QED BY <1>2, <1>3, <1>4 DEF Moved

\* The end of an upstream call.
LEMMA RespondMoves ==
    ASSUME LoopInv, MetricsType, NEW r \in Request, NEW u \in Upstream, NEW outcome \in Outcome,
           NEW age \in Age, Respond(r, u, outcome, age)
    PROVE  \E pc \in {"reading", "streaming", "pick", "done"} : Moved(r, pc)
<1>1. req[r].pc = "calling" /\ req[r].pc \in InHandler \ {"reading"}
  BY DEF Respond, At
<1>2. CASE finish_response(r, outcome)
  <2>1. CASE Goto(r, "reading") /\ UNCHANGED active_connections
    <3>1. Goes(r, "reading")
      BY <2>1, GotoGoes
    <3>2. Gauge("reading") = 1 /\ Gauge(req[r].pc) = 1
      BY <1>1 DEF Gauge
    <3>3. active_connections' = (active_connections + Gauge("reading")) - Gauge(req[r].pc)
      BY <2>1, <3>2 DEF MetricsType
    <3>4. Counting(req[r].pc, "reading") /\ record(r, outcome)
      BY <1>1, <1>2 DEF Counting, Uncounted, finish_response
    <3>5. QED BY <3>1, <3>3, <3>4 DEF Moved
  <2>2. CASE Return(r, outcome, "streaming")
    BY <1>1, <1>2, <2>2, ReturnMoves DEF finish_response
  <2>3. QED BY <1>2, <2>1, <2>2 DEF finish_response
<1>3. CASE Retry(r, outcome)
  <2>1. Goes(r, "pick")
    BY <1>3 DEF Retry, Goes, LoopInv, Locals
  <2>2. QED BY <1>1, <1>3, <2>1, GotoMoves DEF Retry
<1>4. CASE Return(r, "502", "done") /\ record(r, "502")
  BY <1>1, <1>4, ReturnMoves
<1>5. QED BY <1>2, <1>3, <1>4 DEF Respond

\* The other steps inside the handler.
LEMMA HandlerMoves ==
    ASSUME LoopInv, MetricsType, NEW r \in Request,
           \/ \E ok \in BOOLEAN : Limit(r, ok) \/ Body(r, ok)
           \/ Lookup(r)
           \/ \E age \in Age, asked \in SUBSET Candidates(r) : Pick(r, age, asked)
    PROVE  \E pc \in {"lookup", "body", "pick", "calling", "done"} : Moved(r, pc)
<1>1. ASSUME NEW ok \in BOOLEAN, Limit(r, ok)
      PROVE  Moved(r, "lookup") \/ Moved(r, "done")
  BY <1>1, GotoGoes, GotoMoves, ReturnMoves DEF Limit, At
<1>2. ASSUME NEW ok \in BOOLEAN, Body(r, ok)
      PROVE  Moved(r, "pick") \/ Moved(r, "done")
  BY <1>2, GotoGoes, GotoMoves, ReturnMoves DEF Body, At
<1>3. ASSUME Lookup(r) PROVE Moved(r, "body") \/ Moved(r, "done")
  BY <1>3, GotoGoes, GotoMoves, ReturnMoves DEF Lookup, At
<1>4. ASSUME NEW age \in Age, NEW asked \in SUBSET Candidates(r), Pick(r, age, asked)
      PROVE  Moved(r, "calling") \/ Moved(r, "done")
  <2>1. ASSUME NEW u, req' = [req EXCEPT ![r].pc = "calling", ![r].idx = {u}]
        PROVE  Goes(r, "calling")
    BY <2>1 DEF Goes, LoopInv, Locals
  <2>2. QED BY <1>4, <2>1, GotoMoves, ReturnMoves DEF Pick, At
<1>5. QED BY <1>1, <1>2, <1>3, <1>4

\* The steps before and after the handler, and those that end it uncounted.
LEMMA OutsideMoves ==
    ASSUME LoopInv, MetricsType, NEW r \in Request,
           \/ Refuse(r)
           \/ \E status \in {"404", "401"} : TurnAway(r, status)
           \/ \E method \in Method, bypass \in BOOLEAN : Enter(r, method, bypass)
           \/ \E ok \in BOOLEAN : Read(r, ok)
           \/ StreamEnd(r)
           \/ Disconnect(r)
    PROVE  \E pc \in {"refused", "done", "limit", "lookup", "gone"} : Moved(r, pc)
<1>0. req \in [Request -> Locals] /\ active_connections \in Int
  BY DEF LoopInv, MetricsType
<1>1. CASE Refuse(r)
  <2>1. Goes(r, "refused")
    BY <1>0, <1>1 DEF Refuse, Goes, Locals
  <2>2. Silent(req[r].pc, "refused") /\ Gauge("refused") = 0 /\ Gauge(req[r].pc) = 0
    BY <1>1 DEF Refuse, At, Silent, Uncounted, Gauge
  <2>3. QED BY <1>0, <1>1, <2>1, <2>2 DEF Refuse, metrics, Moved
<1>2. ASSUME NEW status \in {"404", "401"}, TurnAway(r, status) PROVE Moved(r, "done")
  <2>1. Goes(r, "done")
    BY <1>0, <1>2 DEF TurnAway, Goes, Locals
  <2>2. Counting(req[r].pc, "done") /\ Gauge("done") = 0 /\ Gauge(req[r].pc) = 0
    BY <1>2 DEF TurnAway, At, Counting, Uncounted, Gauge
  <2>3. QED BY <1>0, <1>2, <2>1, <2>2 DEF TurnAway, Moved
<1>3. ASSUME NEW method \in Method, NEW bypass \in BOOLEAN, Enter(r, method, bypass)
      PROVE  Moved(r, "limit") \/ Moved(r, "lookup")
  <2> DEFINE pc == IF rate_limit THEN "limit" ELSE "lookup"
             x == [Fresh EXCEPT !.pc = pc, !.method = method,
                                !.lookup = cache_configured /\ method = "GET" /\ ~bypass]
  <2>1. x.pc = pc /\ pc \in {"limit", "lookup"}
    BY DEF Fresh
  <2>2. req' = [req EXCEPT ![r] = x]
    BY <1>3 DEF Enter
  <2> HIDE DEF x, pc
  <2>3. Goes(r, pc)
    BY <1>0, <2>1, <2>2 DEF Goes
  <2>4. Silent(req[r].pc, pc) /\ Gauge(pc) = 1 /\ Gauge(req[r].pc) = 0
    BY <1>3, <2>1 DEF Enter, At, Silent, Uncounted, Gauge
  <2>5. active_connections' = active_connections + 1 /\ recorded' = recorded
    BY <1>3 DEF Enter
  <2>6. active_connections' = (active_connections + Gauge(pc)) - Gauge(req[r].pc)
    BY <1>0, <2>4, <2>5
  <2>7. Moved(r, pc)
    BY <2>3, <2>4, <2>5, <2>6 DEF Moved
  <2>8. QED BY <2>1, <2>7
<1>4. ASSUME NEW ok \in BOOLEAN, Read(r, ok) PROVE Moved(r, "done")
  <2>1. Goes(r, "done")
    BY <1>4, EndGoes DEF Read, Return
  <2>2. Silent(req[r].pc, "done") /\ Gauge("done") = 0 /\ Gauge(req[r].pc) = 1
    BY <1>4 DEF Read, At, Silent, Gauge
  <2>3. QED BY <1>0, <1>4, <2>1, <2>2 DEF Read, Return, Moved
<1>5. CASE StreamEnd(r)
  <2>1. Goes(r, "done")
    BY <1>0, <1>5 DEF StreamEnd, Goes, Locals
  <2>2. Silent(req[r].pc, "done") /\ Gauge("done") = 0 /\ Gauge(req[r].pc) = 0
    BY <1>5 DEF StreamEnd, At, Silent, Gauge
  <2>3. QED BY <1>0, <1>5, <2>1, <2>2 DEF StreamEnd, metrics, Moved
<1>6. CASE Disconnect(r)
  <2>1. Goes(r, "gone")
    BY <1>6, EndGoes DEF Disconnect
  <2>2. Silent(req[r].pc, "gone") /\ Gauge("gone") = 1 /\ Gauge(req[r].pc) = 1
    BY <1>6 DEF Disconnect, Silent, Uncounted, Gauge
  <2>3. QED BY <1>0, <1>6, <2>1, <2>2 DEF Disconnect, metrics, Moved
<1>7. QED BY <1>1, <1>2, <1>3, <1>4, <1>5, <1>6

\* Every step moves at most one handler.
LEMMA NextMoves ==
    ASSUME LoopInv, MetricsType, [Next]_vars
    PROVE  \/ UNCHANGED <<req, recorded, active_connections>>
           \/ \E r \in Request : \E pc : Moved(r, pc)
<1>1. CASE UNCHANGED vars \/ Expire \/ Tick \/ \E u \in Upstream, ok \in BOOLEAN : SetHealthy(u, ok)
  BY <1>1 DEF vars, metrics, Expire, Tick, SetHealthy
<1>2. ASSUME NEW r \in Request,
             \/ Refuse(r)
             \/ \E status \in {"404", "401"} : TurnAway(r, status)
             \/ \E method \in Method, bypass \in BOOLEAN : Enter(r, method, bypass)
             \/ \E ok \in BOOLEAN : Read(r, ok)
             \/ StreamEnd(r)
             \/ Disconnect(r)
      PROVE  \E pc : Moved(r, pc)
  BY <1>2, OutsideMoves
<1>3. ASSUME NEW r \in Request,
             \/ \E ok \in BOOLEAN : Limit(r, ok) \/ Body(r, ok)
             \/ Lookup(r)
             \/ \E age \in Age, asked \in SUBSET Candidates(r) : Pick(r, age, asked)
      PROVE  \E pc : Moved(r, pc)
  BY <1>3, HandlerMoves
<1>4. ASSUME NEW r \in Request, NEW u \in Upstream, NEW outcome \in Outcome,
             NEW age \in Age, Respond(r, u, outcome, age)
      PROVE  \E pc : Moved(r, pc)
  BY <1>4, RespondMoves
<1>5. QED BY <1>1, <1>2, <1>3, <1>4 DEF Next, Proceed

MetricsInv == MetricsType /\ CountedOnce

\* A move counts the request once, when its outcome is decided.
LEMMA MovesCount ==
    ASSUME LoopInv, MetricsInv, NEW r \in Request, NEW pc, Moved(r, pc)
    PROVE  MetricsInv'
<1>1. recorded \in [Request -> Seq(Status)] /\ active_connections \in Int
  BY DEF MetricsInv, MetricsType
<1>2. /\ req[r].pc \in Uncounted => recorded[r] = <<>>
      /\ req[r].pc \in {"streaming", "reading"} => Len(recorded[r]) = 1
  BY DEF MetricsInv, CountedOnce, Uncounted
<1>3. /\ recorded' \in [Request -> Seq(Status)]
      /\ pc \in Uncounted => recorded'[r] = <<>>
      /\ pc \in {"done", "streaming", "reading"} => Len(recorded'[r]) = 1
      /\ \A g \in Request \ {r} : recorded'[g] = recorded[g]
  <2>1. CASE Silent(req[r].pc, pc) /\ recorded' = recorded
    <3>1. pc \in Uncounted => req[r].pc \in Uncounted
      BY <2>1 DEF Silent, Uncounted
    <3>2. pc \in {"done", "streaming", "reading"} => req[r].pc \in {"streaming", "reading"}
      BY <2>1 DEF Silent, Uncounted
    <3>3. QED BY <1>1, <1>2, <2>1, <3>1, <3>2
  <2>2. ASSUME NEW status \in Status, Counting(req[r].pc, pc), record(r, status)
        PROVE  /\ recorded' \in [Request -> Seq(Status)]
               /\ pc \notin Uncounted /\ Len(recorded'[r]) = 1
               /\ \A g \in Request \ {r} : recorded'[g] = recorded[g]
    <3>1. recorded[r] = <<>> /\ pc \notin Uncounted
      BY <1>2, <2>2 DEF Counting, Uncounted
    <3>2. Append(<<>>, status) \in Seq(Status) /\ Len(Append(<<>>, status)) = 1
      OBVIOUS
    <3>3. recorded' = [recorded EXCEPT ![r] = Append(<<>>, status)]
      BY <1>1, <2>2, <3>1 DEF record
    <3>4. recorded'[r] = Append(<<>>, status) /\ recorded' \in [Request -> Seq(Status)]
          /\ \A g \in Request \ {r} : recorded'[g] = recorded[g]
      BY <1>1, <3>2, <3>3
    <3>5. QED BY <3>1, <3>2, <3>4
  <2>3. QED BY <2>1, <2>2 DEF Moved
<1>4. req'[r].pc = pc /\ \A g \in Request \ {r} : req'[g] = req[g]
  BY DEF Moved, Goes
<1>5. CountedOnce'
  <2>1. ASSUME NEW g \in Request
        PROVE  /\ req'[g].pc \in Uncounted => recorded'[g] = <<>>
               /\ req'[g].pc \in {"done", "streaming", "reading"} => Len(recorded'[g]) = 1
    <3>1. CASE g = r
      BY <1>3, <1>4, <3>1
    <3>2. CASE g # r
      BY <1>3, <1>4, <3>2 DEF MetricsInv, CountedOnce, Uncounted
    <3>3. QED BY <3>1, <3>2
  <2>2. QED BY <2>1 DEF CountedOnce, Uncounted
<1>6. active_connections' \in Int
  BY <1>1 DEF Moved, Gauge
<1>7. QED BY <1>3, <1>5, <1>6 DEF MetricsInv, MetricsType

\* The metrics' types and counts hold throughout.
THEOREM MetricsInvariant == Spec => []MetricsInv
<1>1. Init => MetricsInv
  BY DEF Init, MetricsInv, MetricsType, CountedOnce, Fresh
<1>2. LoopInv /\ MetricsInv /\ [Next]_vars => MetricsInv'
  <2> SUFFICES ASSUME LoopInv, MetricsInv, [Next]_vars PROVE MetricsInv'
    OBVIOUS
  <2>1. CASE UNCHANGED <<req, recorded, active_connections>>
    BY <2>1 DEF MetricsInv, MetricsType, CountedOnce
  <2>2. QED BY <2>1, NextMoves, MovesCount DEF MetricsInv
<1>3. QED BY <1>1, <1>2, LoopInvariant, PTL DEF Spec

\* For every configuration, a request answered by the handler is counted in
\* gw_requests exactly once, whatever retries, cache, errors and disconnections do;
\* a buffered answer before its body has been read.
THEOREM RequestsAreCountedOnce == Spec => []CountedOnce
<1>1. MetricsInv => CountedOnce
  BY DEF MetricsInv
<1>2. QED BY <1>1, MetricsInvariant, PTL

InGauge == {r \in Request : req[r].pc \in InHandler \cup {"gone"}}

\* A move changes the gauge as it changes the set of requests the gauge shows.
LEMMA MovesGauge ==
    ASSUME IsFiniteSet(Request), MetricsType, active_connections = Cardinality(InGauge),
           NEW r \in Request, NEW pc, Moved(r, pc)
    PROVE  active_connections' = Cardinality(InGauge')
<1>1. req'[r].pc = pc /\ \A g \in Request \ {r} : req'[g] = req[g]
  BY DEF Moved, Goes
<1>2. active_connections' = (active_connections + Gauge(pc)) - Gauge(req[r].pc)
  BY DEF Moved
<1>3. InGauge \subseteq Request
  BY DEF InGauge
<1>4. IsFiniteSet(InGauge) /\ Cardinality(InGauge) \in Nat
  BY <1>3, FS_Subset, FS_CardinalityType
<1>5. CASE Gauge(pc) = Gauge(req[r].pc)
  <2>1. InGauge' = InGauge
    BY <1>1, <1>5 DEF InGauge, Gauge
  <2>2. Gauge(pc) \in Int
    BY DEF Gauge
  <2>3. QED BY <1>2, <1>4, <1>5, <2>1, <2>2
<1>6. CASE Gauge(pc) = 1 /\ Gauge(req[r].pc) = 0
  <2>1. InGauge' = InGauge \cup {r} /\ r \notin InGauge
    BY <1>1, <1>6 DEF InGauge, Gauge
  <2>2. Cardinality(InGauge \cup {r}) = Cardinality(InGauge) + 1
    BY <1>4, <2>1, FS_AddElement
  <2>3. QED BY <1>2, <1>4, <1>6, <2>1, <2>2
<1>7. CASE Gauge(pc) = 0 /\ Gauge(req[r].pc) = 1
  <2>1. InGauge' = InGauge \ {r} /\ r \in InGauge
    BY <1>1, <1>7 DEF InGauge, Gauge
  <2>2. Cardinality(InGauge \ {r}) = Cardinality(InGauge) - 1
    BY <1>4, <2>1, FS_RemoveElement
  <2>3. QED BY <1>2, <1>4, <1>7, <2>1, <2>2
<1>8. QED BY <1>5, <1>6, <1>7 DEF Gauge

\* The code never takes a request whose client left out of the gauge.
GaugeExact == active_connections = Cardinality(InGauge)

\* For any finite set of requests, the gauge gw_active_connections shows those in
\* the handler and those whose client left during an await, and no others.
THEOREM GaugeInvariant ==
    ASSUME IsFiniteSet(Request)
    PROVE  Spec => []GaugeExact
<1>1. Init => GaugeExact
  <2>1. SUFFICES ASSUME Init PROVE GaugeExact
    OBVIOUS
  <2>2. {r \in Request : req[r].pc \in InHandler \cup {"gone"}} = {}
    BY <2>1 DEF Init, Fresh
  <2>3. QED BY <2>1, <2>2, FS_EmptySet DEF Init, GaugeExact, InGauge
<1>2. LoopInv /\ MetricsInv /\ GaugeExact /\ [Next]_vars => GaugeExact'
  <2> SUFFICES ASSUME LoopInv, MetricsInv, GaugeExact, [Next]_vars
               PROVE  GaugeExact'
    OBVIOUS
  <2>1. MetricsType /\ active_connections = Cardinality(InGauge)
    BY DEF MetricsInv, GaugeExact
  <2>2. CASE UNCHANGED <<req, recorded, active_connections>>
    BY <2>2 DEF GaugeExact, InGauge
  <2>3. ASSUME NEW r \in Request, NEW pc, Moved(r, pc) PROVE GaugeExact'
    <3>1. active_connections' = Cardinality(InGauge')
      BY <2>1, <2>3, MovesGauge
    <3>2. QED BY <3>1 DEF GaugeExact
  <2>4. QED BY <2>1, <2>2, <2>3, NextMoves
<1>3. QED BY <1>1, <1>2, LoopInvariant, MetricsInvariant, PTL DEF Spec

\* For any finite set of requests, the gauge gw_active_connections is never below
\* the number of requests in the handler, and above it only by requests whose
\* client left during an await.
THEOREM GaugeIsRightButForDisconnects ==
    ASSUME IsFiniteSet(Request)
    PROVE  Spec => []GaugeErrsByDisconnectsOnly
<1>1. ASSUME GaugeExact PROVE GaugeErrsByDisconnectsOnly
  <2> DEFINE Inside == {r \in Request : req[r].pc \in InHandler}
  <2>1. Inside \subseteq InGauge /\ InGauge \subseteq Request
    BY DEF InGauge
  <2>2. /\ Cardinality(Inside) <= Cardinality(InGauge)
        /\ Cardinality(Inside) \in Nat /\ Cardinality(InGauge) \in Nat
    BY <2>1, FS_Subset, FS_CardinalityType
  <2>3. QED BY <1>1, <2>2 DEF GaugeExact, InGauge, GaugeErrsByDisconnectsOnly
<1>2. QED BY <1>1, GaugeInvariant, PTL

-----------------------------------------------------------------------------
(***************************************************************************)
(* The shared state has its types: the breakers because the operators of   *)
(* BreakerOps keep theirs, the active counts because they are those of     *)
(* UpstreamCalls, which counts handlers.                                   *)
(***************************************************************************)
SharedType ==
    /\ healthy \in [Upstream -> BOOLEAN]
    /\ breaker \in [Upstream -> Breaker]
    /\ circuit_state \in [Upstream -> 0 .. 2]

\* The breaker operators keep the type of a breaker.
LEMMA BreakerTypes ==
    ASSUME NEW b \in Breaker, NEW age \in Age
    PROVE  /\ allow_at(b, age) \in Breaker /\ record_success(b) \in Breaker
           /\ record_failure_at(b, age) \in Breaker /\ elapse(b) \in Breaker
           /\ code(b) \in 0 .. 2
<1> USE DEF Closed, Open, HalfOpen, BreakerState, Age, Offset
<1>1. open_for \in Nat /\ open_for >= 1 /\ Stall \in Nat /\ U32 \in Nat /\ U32 > 1
  BY OpenSecsAssumption, U32Assumption, StallAssumption DEF open_for
<1>2. record_success(b) \in Breaker
  BY <1>1 DEF new, record_success, Breaker
<1>3. allow_at(b, age) \in Breaker
  BY DEF allow_at, Breaker
<1>4. record_failure_at(b, age) \in Breaker
  <2> DEFINE f == (b.consecutive_failures + 1) % U32
  <2>1. f \in 0 .. (U32 - 1) /\ open_for - age \in Offset
    BY <1>1 DEF Breaker
  <2>2. CASE b.state = HalfOpen \/ f >= threshold
    BY <2>1, <2>2 DEF record_failure_at, Breaker
  <2>3. CASE ~(b.state = HalfOpen \/ f >= threshold)
    BY <2>1, <2>3 DEF record_failure_at, Breaker
  <2>4. QED BY <2>2, <2>3
<1>5. elapse(b) \in Breaker
  <2> DEFINE s == {IF u > -Stall THEN u - 1 ELSE u : u \in b.open_until}
  <2>1. b.open_until = {} \/ \E u \in Offset : b.open_until = {u}
    BY DEF Breaker
  <2>2. s \in {{}} \cup {{u} : u \in Offset}
    BY <1>1, <2>1
  <2>3. elapse(b) = [b EXCEPT !.open_until = s]
    BY DEF elapse
  <2> HIDE DEF s
  <2>4. QED BY <2>2, <2>3 DEF Breaker
<1>6. code(b) \in 0 .. 2
  BY DEF code, Breaker
<1>7. QED BY <1>2, <1>3, <1>4, <1>5, <1>6

\* Every step keeps the types of the shared state.
LEMMA NextSharedType == SharedType /\ [Next]_vars => SharedType'
<1> SUFFICES ASSUME SharedType, [Next]_vars PROVE SharedType'
  OBVIOUS
<1>1. CASE UNCHANGED <<healthy, breaker, circuit_state>>
  BY <1>1 DEF SharedType
<1>2. ASSUME NEW u \in Upstream, NEW ok \in BOOLEAN, SetHealthy(u, ok) PROVE SharedType'
  BY <1>2 DEF SharedType, SetHealthy, metrics
<1>3. CASE Tick
  <2>1. 0 \in Age
    BY StallAssumption DEF Age
  <2>2. \A u \in Upstream : elapse(breaker[u]) \in Breaker
    BY <2>1, BreakerTypes DEF SharedType
  <2>3. QED BY <1>3, <2>2 DEF SharedType, Tick, metrics
<1>4. ASSUME NEW r \in Request, NEW age \in Age, NEW asked \in SUBSET Candidates(r),
             Pick(r, age, asked)
      PROVE  SharedType'
  <2>1. \A u \in Upstream : allow_at(breaker[u], age) \in Breaker
    BY BreakerTypes DEF SharedType
  <2>2. QED BY <1>4, <2>1 DEF SharedType, Pick
<1>5. ASSUME NEW r \in Request, NEW u \in Upstream, NEW outcome \in Outcome,
             NEW age \in Age, Respond(r, u, outcome, age)
      PROVE  SharedType'
  <2>1. /\ record_success(breaker[u]) \in Breaker
        /\ record_failure_at(breaker[u], age) \in Breaker
        /\ code(breaker[u]) \in 0 .. 2
    BY BreakerTypes DEF SharedType
  <2>2. PICK b \in Breaker : breaker' = [breaker EXCEPT ![u] = b]
    BY <1>5, <2>1 DEF Respond
  <2>3. healthy' = healthy /\ circuit_state' = [circuit_state EXCEPT ![u] = code(breaker[u])]
    BY <1>5 DEF Respond
  <2>4. QED BY <2>1, <2>2, <2>3 DEF SharedType
<1>6. ASSUME NEW r \in Request,
             \/ Refuse(r) \/ Lookup(r) \/ StreamEnd(r) \/ Disconnect(r)
             \/ \E status \in {"404", "401"} : TurnAway(r, status)
             \/ \E method \in Method, bypass \in BOOLEAN : Enter(r, method, bypass)
             \/ \E ok \in BOOLEAN : Limit(r, ok) \/ Body(r, ok) \/ Read(r, ok)
      PROVE  UNCHANGED <<healthy, breaker, circuit_state>>
  BY <1>6 DEF Refuse, TurnAway, Enter, Limit, Lookup, Body, Read, StreamEnd, Disconnect,
              upstreamVars, metrics
<1>7. CASE UNCHANGED vars \/ Expire
  BY <1>1, <1>7 DEF vars, Expire, upstreamVars, metrics
<1>8. QED BY <1>1, <1>2, <1>3, <1>4, <1>5, <1>6, <1>7 DEF Next, Proceed

\* UpstreamCalls with what is proved about it.
Counts == INSTANCE UpstreamCallsProofs WITH
    Caller <- Request,
    call <- [r \in Request |-> IF req[r].pc \in {"calling", "reading"} THEN req[r].idx ELSE {}],
    tried <- [r \in Request |-> req[r].excluded]

CountsInv == Counts!TypeOK /\ Counts!LoadExact /\ Counts!NeverAgain

\* Both instances have the same steps.
LEMMA SameSteps == [Calls!Next]_(Calls!vars) => [Counts!Next]_(Counts!vars)
  BY DEF Calls!Next, Calls!vars, Calls!Take, Calls!Fail, Calls!Release, Calls!GiveUp,
         Counts!Next, Counts!vars, Counts!Take, Counts!Fail, Counts!Release, Counts!GiveUp

\* The instance counts as this module does.
LEMMA SameCardinality == \A S : Cardinality(S) = Counts!Cardinality(S)
  BY DEF Cardinality, Counts!Cardinality

\* What UpstreamCalls keeps, the handlers keep.
LEMMA CountsPreserved ==
    ASSUME IsFiniteSet(Request), CountsInv, [Counts!Next]_(Counts!vars)
    PROVE  CountsInv'
<1>1. Counts!IsFiniteSet(Request)
  BY DEF IsFiniteSet, Counts!IsFiniteSet
<1>2. QED BY <1>1, Counts!NextPreserves DEF CountsInv

\* What UpstreamCalls starts with, the handlers start with.
LEMMA CountsInitially == ASSUME IsFiniteSet(Request), Init PROVE CountsInv
<1>1. /\ active = [u \in Upstream |-> 0]
      /\ \A r \in Request : req[r].pc = "new" /\ req[r].excluded = {}
  BY DEF Init, Fresh
<1>2. Counts!TypeOK /\ Counts!NeverAgain
  BY <1>1 DEF Counts!TypeOK, Counts!NeverAgain
<1> DEFINE On(u) == {c \in Request :
              [r \in Request |-> IF req[r].pc \in {"calling", "reading"} THEN req[r].idx
                                 ELSE {}][c] = {u}}
<1>3. ASSUME NEW u \in Upstream PROVE On(u) = {} /\ active[u] = 0
  BY <1>1
<1>4. Counts!LoadExact
  BY <1>3, FS_EmptySet, SameCardinality DEF Counts!LoadExact
<1>5. QED BY <1>2, <1>4 DEF CountsInv

\* The exact counts are within the number of requests.
LEMMA ActiveFromCounts ==
    ASSUME IsFiniteSet(Request), CountsInv
    PROVE  active \in [Upstream -> 0 .. Cardinality(Request)]
<1>1. active \in [Upstream -> Nat]
  BY DEF CountsInv, Counts!TypeOK
<1>2. ASSUME NEW u \in Upstream PROVE active[u] \in 0 .. Cardinality(Request)
  <2> DEFINE H == {c \in Request :
              [r \in Request |-> IF req[r].pc \in {"calling", "reading"} THEN req[r].idx
                                 ELSE {}][c] = {u}}
  <2>1. H \subseteq Request
    OBVIOUS
  <2>2. active[u] = Cardinality(H)
    BY SameCardinality DEF CountsInv, Counts!LoadExact
  <2> HIDE DEF H
  <2>3. QED BY <2>1, <2>2, FS_Subset, FS_CardinalityType
<1>3. QED BY <1>1, <1>2

\* The types follow from the invariants.
LEMMA TypesFromInv ==
    ASSUME IsFiniteSet(Request), LoopInv, SharedType, CountsInv, GaugeExact
    PROVE  TypeOK
<1>1. active_connections \in 0 .. Cardinality(Request)
  <2>1. InGauge \subseteq Request /\ active_connections = Cardinality(InGauge)
    BY DEF InGauge, GaugeExact
  <2>2. QED BY <2>1, FS_Subset, FS_CardinalityType
<1>2. ASSUME NEW r \in Request
      PROVE  /\ req[r].pc \in {"new", "streaming"} \cup InHandler \cup Ended
             /\ req[r].method \in Method
             /\ req[r].attempt \in 0 .. retries
             /\ req[r].excluded \subseteq Upstream
             /\ req[r].idx # {} <=> req[r].pc \in {"calling", "reading", "streaming"}
  <2>1. Sound(req[r]) /\ req[r] \in Locals
    BY DEF LoopInv
  <2>2. req[r].pc \in {"new", "streaming"} \cup InHandler \cup Ended
        /\ req[r].method \in Method /\ req[r].attempt \in Nat /\ req[r].excluded \subseteq Upstream
    BY <2>1 DEF Locals
  <2>3. req[r].attempt <= retries
    BY <2>1 DEF Sound, Placed
  <2>4. req[r].idx # {} <=> req[r].pc \in {"calling", "reading", "streaming"}
    BY <2>1, <2>2 DEF Sound, BeforeLoop, InLoop, Calling, Placed
  <2>5. QED BY <2>2, <2>3, <2>4, RetriesAssumption
<1>3. active \in [Upstream -> 0 .. Cardinality(Request)]
  BY ActiveFromCounts
<1>4. QED BY <1>1, <1>2, <1>3 DEF TypeOK, SharedType

\* For any finite set of requests the handlers and the shared state keep their
\* types: no active count and no gauge ever drops below zero or exceeds the number
\* of requests, and an upstream is held exactly while calling, reading or streaming.
THEOREM ProxyTypes ==
    ASSUME IsFiniteSet(Request)
    PROVE  Spec => []TypeOK
<1>1. Init => SharedType
  <2>1. new \in Breaker
    BY U32Assumption DEF new, Breaker, BreakerState, Closed
  <2>2. QED BY <2>1 DEF Init, SharedType
<1>2. Init => CountsInv
  BY CountsInitially
<1>3. Init => ActiveOK
  BY DEF Init, ActiveOK
<1>4. CountsInv /\ [Calls!Next]_(Calls!vars) => CountsInv'
  BY SameSteps, CountsPreserved
<1>5. LoopInv /\ SharedType /\ CountsInv /\ GaugeExact => TypeOK
  BY TypesFromInv
<1>6. QED BY <1>1, <1>2, <1>3, <1>4, <1>5, LoopInvariant, NextActiveOK, NextMaps, NextSharedType,
             GaugeInvariant, PTL
          DEF Spec
=============================================================================
