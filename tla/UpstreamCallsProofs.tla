------------------------- MODULE UpstreamCallsProofs ------------------------
(***************************************************************************)
(* What UpstreamCalls implies, and with it every implementation: for any   *)
(* finite set of handlers the counts are exact, and no failed upstream is  *)
(* asked again.                                                            *)
(***************************************************************************)
EXTENDS UpstreamCalls, FiniteSetTheorems, TLAPS

On(u) == {c \in Caller : call[c] = {u}}

\* The set of handlers on an upstream is finite, so its cardinality is a number.
LEMMA OnFinite ==
    ASSUME IsFiniteSet(Caller), NEW u
    PROVE  IsFiniteSet(On(u)) /\ Cardinality(On(u)) \in Nat
<1>1. On(u) \subseteq Caller
  BY DEF On
<1>2. QED BY <1>1, FS_Subset, FS_CardinalityType

\* A handler that takes an upstream is counted there and nowhere else.
LEMMA TakeExact ==
    ASSUME IsFiniteSet(Caller), TypeOK, LoadExact, NEW c \in Caller, NEW u \in Upstream,
           Take(c, u)
    PROVE  LoadExact'
<1> SUFFICES ASSUME NEW w \in Upstream PROVE active'[w] = Cardinality(On(w)')
  BY DEF LoadExact, On
<1>1. active[w] = Cardinality(On(w)) /\ IsFiniteSet(On(w))
  BY OnFinite DEF LoadExact, On
<1>2. CASE w = u
  <2>1. On(w)' = On(w) \cup {c} /\ c \notin On(w)
    BY <1>2 DEF On, Take, TypeOK
  <2>2. Cardinality(On(w) \cup {c}) = Cardinality(On(w)) + 1
    BY <1>1, <2>1, FS_AddElement
  <2>3. QED BY <1>1, <1>2, <2>1, <2>2 DEF Take, TypeOK
<1>3. CASE w # u
  <2>1. On(w)' = On(w)
    BY <1>3 DEF On, Take, TypeOK
  <2>2. QED BY <1>1, <1>3, <2>1 DEF Take, TypeOK
<1>4. QED BY <1>2, <1>3

\* A handler that leaves an upstream is no longer counted there.
LEMMA LeaveExact ==
    ASSUME IsFiniteSet(Caller), TypeOK, LoadExact, NEW c \in Caller, NEW u \in Upstream,
           Fail(c, u) \/ Release(c, u)
    PROVE  LoadExact' /\ active[u] > 0
<1>1. /\ call[c] = {u} /\ active' = [active EXCEPT ![u] = @ - 1]
      /\ call' = [call EXCEPT ![c] = {}]
  BY DEF Fail, Release
<1>2. active[u] > 0
  <2>1. c \in On(u)
    BY <1>1 DEF On
  <2>2. Cardinality(On(u)) # 0
    BY <2>1, OnFinite, FS_EmptySet
  <2>3. active[u] = Cardinality(On(u))
    BY DEF LoadExact, On
  <2>4. QED BY <2>2, <2>3, OnFinite
<1>3. ASSUME NEW w \in Upstream PROVE active'[w] = Cardinality(On(w)')
  <2>1. active[w] = Cardinality(On(w)) /\ IsFiniteSet(On(w))
    BY OnFinite DEF LoadExact, On
  <2>2. CASE w = u
    <3>1. On(w)' = On(w) \ {c} /\ c \in On(w)
      BY <1>1, <2>2 DEF On, TypeOK
    <3>2. Cardinality(On(w) \ {c}) = Cardinality(On(w)) - 1
      BY <2>1, <3>1, FS_RemoveElement
    <3>3. QED BY <1>1, <2>1, <2>2, <3>1, <3>2 DEF TypeOK
  <2>3. CASE w # u
    <3>1. On(w)' = On(w)
      BY <1>1, <2>3 DEF On, TypeOK
    <3>2. QED BY <1>1, <2>1, <2>3, <3>1 DEF TypeOK
  <2>4. QED BY <2>2, <2>3
<1>4. QED BY <1>2, <1>3 DEF LoadExact, On

\* Every step keeps the types, the counts and the separation of call and tried.
LEMMA NextPreserves ==
    ASSUME IsFiniteSet(Caller), TypeOK, LoadExact, NeverAgain, [Next]_vars
    PROVE  TypeOK' /\ LoadExact' /\ NeverAgain'
<1>1. CASE UNCHANGED vars
  BY <1>1 DEF vars, TypeOK, LoadExact, NeverAgain
<1>2. ASSUME NEW c \in Caller, NEW u \in Upstream, Take(c, u)
      PROVE  TypeOK' /\ LoadExact' /\ NeverAgain'
  <2>1. TypeOK'
    BY <1>2 DEF TypeOK, Take
  <2>2. NeverAgain'
    BY <1>2 DEF TypeOK, NeverAgain, Take
  <2>3. QED BY <1>2, <2>1, <2>2, TakeExact
<1>3. ASSUME NEW c \in Caller, NEW u \in Upstream, Fail(c, u) \/ Release(c, u)
      PROVE  TypeOK' /\ LoadExact' /\ NeverAgain'
  <2>1. LoadExact' /\ active[u] > 0
    BY <1>3, LeaveExact
  <2>2. active' \in [Upstream -> Nat]
    BY <1>3, <2>1 DEF TypeOK, Fail, Release
  <2>3. call' \in [Caller -> {{}} \cup {{w} : w \in Upstream}] /\ tried' \in [Caller -> SUBSET Upstream]
    BY <1>3 DEF TypeOK, Fail, Release
  <2>4. NeverAgain'
    BY <1>3 DEF TypeOK, NeverAgain, Fail, Release
  <2>5. QED BY <2>1, <2>2, <2>3, <2>4 DEF TypeOK
<1>4. ASSUME NEW c \in Caller, GiveUp(c)
      PROVE  TypeOK' /\ LoadExact' /\ NeverAgain'
  BY <1>4 DEF TypeOK, LoadExact, NeverAgain, GiveUp
<1>5. QED BY <1>1, <1>2, <1>3, <1>4 DEF Next

\* For any finite set of handlers and any upstreams: the count of an upstream is
\* the number of handlers calling it, and no handler calls one that failed it.
THEOREM CallsAreCounted ==
    ASSUME IsFiniteSet(Caller)
    PROVE  Spec => [](TypeOK /\ LoadExact /\ NeverAgain)
<1>1. Init => TypeOK /\ LoadExact /\ NeverAgain
  <2> SUFFICES ASSUME Init PROVE TypeOK /\ LoadExact /\ NeverAgain
    OBVIOUS
  <2>1. ASSUME NEW u \in Upstream PROVE {c \in Caller : call[c] = {u}} = {}
    BY DEF Init
  <2>2. QED BY <2>1, FS_EmptySet DEF Init, TypeOK, LoadExact, NeverAgain
<1>2. TypeOK /\ LoadExact /\ NeverAgain /\ [Next]_vars => TypeOK' /\ LoadExact' /\ NeverAgain'
  BY NextPreserves
<1>3. QED BY <1>1, <1>2, PTL DEF Spec
=============================================================================
