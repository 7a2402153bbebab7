---------------------------- MODULE UpstreamCalls ---------------------------
(***************************************************************************)
(* What the balancer and the attempt loop promise together, without how:   *)
(* a request is with at most one upstream at a time and counted there as   *)
(* long as it is, and one that failed it is not asked again.  Module Proxy *)
(* implements this specification.                                          *)
(***************************************************************************)
EXTENDS Naturals, FiniteSets

CONSTANTS
    Caller,             \* request handlers
    Upstream            \* the upstreams of the route

VARIABLES
    active,             \* the connection count of each upstream
    call,               \* call[c]: {} or the upstream that handler c is calling
    tried               \* tried[c]: the upstreams that failed its request

vars == <<active, call, tried>>

Init ==
    /\ active = [u \in Upstream |-> 0]
    /\ call = [c \in Caller |-> {}]
    /\ tried = [c \in Caller |-> {}]

\* The handler takes an upstream that has not failed it.
Take(c, u) ==
    /\ call[c] = {} /\ u \notin tried[c]
    /\ active' = [active EXCEPT ![u] = @ + 1]
    /\ call' = [call EXCEPT ![c] = {u}]
    /\ UNCHANGED tried

\* The upstream fails and the handler will try another one.
Fail(c, u) ==
    /\ call[c] = {u}
    /\ active' = [active EXCEPT ![u] = @ - 1]
    /\ call' = [call EXCEPT ![c] = {}]
    /\ tried' = [tried EXCEPT ![c] = @ \cup {u}]

\* The handler is done with the upstream and with its request.
Release(c, u) ==
    /\ call[c] = {u}
    /\ active' = [active EXCEPT ![u] = @ - 1]
    /\ call' = [call EXCEPT ![c] = {}]
    /\ tried' = [tried EXCEPT ![c] = {}]

\* The handler gives its request up between two calls.
GiveUp(c) ==
    /\ call[c] = {}
    /\ tried' = [tried EXCEPT ![c] = {}]
    /\ UNCHANGED <<active, call>>

Next ==
    \E c \in Caller :
        \/ \E u \in Upstream : Take(c, u) \/ Fail(c, u) \/ Release(c, u)
        \/ GiveUp(c)

Spec == Init /\ [][Next]_vars

-----------------------------------------------------------------------------
\* Every handler is in one of its states.
TypeOK ==
    /\ active \in [Upstream -> Nat]
    /\ call \in [Caller -> {{}} \cup {{u} : u \in Upstream}]
    /\ tried \in [Caller -> SUBSET Upstream]

\* The count of an upstream is the number of handlers that are calling it.
LoadExact == \A u \in Upstream : active[u] = Cardinality({c \in Caller : call[c] = {u}})

\* No handler is calling an upstream that has failed its request.
NeverAgain == \A c \in Caller : call[c] \cap tried[c] = {}
=============================================================================
