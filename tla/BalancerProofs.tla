--------------------------- MODULE BalancerProofs ---------------------------
(***************************************************************************)
(* What the load balancer guarantees for every configuration.  The         *)
(* inductive invariant BalInv has two parts for every handler p:           *)
(*   - Sound(req[p]): the locals of a pick fit together (which strategy    *)
(*     draws tickets or keeps a best candidate, what is never excluded);   *)
(*   - Watch(p): how far the pick got, in terms of the upstreams that have *)
(*     been eligible all the time.  Those the scan has gone by (GoneBy)    *)
(*     are Beaten: there is a candidate, with a load that they reached.    *)
(* So a scan at its end without a candidate saw no such upstream, and one  *)
(* with a candidate saw none that was always less loaded.  While tickets   *)
(* are drawn nothing is known, which is why round robin needs the fallback.*)
(* Then the balancer is shown to implement UpstreamCalls, whose theorems   *)
(* give the exact counts.                                                  *)
(***************************************************************************)
EXTENDS Balancer, FiniteSetTheorems, SequenceTheorems, WellFoundedInduction, TLAPS

\* Every non-empty set of naturals has a least element.
LEMMA LeastElement ==
    ASSUME NEW T, T \subseteq Nat, T # {}
    PROVE  \E m \in T : \A k \in T : m <= k
<1>1. IsWellFoundedOn(OpToRel(<, Nat), Nat)
  BY NatLessThanWellFounded
<1>2. PICK m \in T : \A k \in T : <<k, m>> \notin OpToRel(<, Nat)
  BY <1>1, WFMin
<1>3. \A k \in T : ~(k < m)
  BY <1>2 DEF OpToRel
<1>4. QED BY <1>3

\* The block of upstream i in the round-robin order, and all blocks.
Repeated(i) == [k \in 1 .. (IF weights[i] > 1 THEN weights[i] ELSE 1) |-> i - 1]
Blocks == [i \in 1 .. N |-> Repeated(i)]
\* g is what FlattenSeq has computed after m blocks.
Flattens(g, m) == g = [i \in 1 .. m |-> IF i = 1 THEN Blocks[i] ELSE g[i - 1] \o Blocks[i]]
\* ... unfolded, and with sequences of upstreams for values.
Filled(g, m) ==
    /\ Flattens(g, m)
    /\ \A i \in 1 .. m : /\ g[i] = IF i = 1 THEN Blocks[i] ELSE g[i - 1] \o Blocks[i]
                        /\ g[i] \in Seq(Upstream) /\ g[i] # <<>>

\* The configuration has an upstream.
LEMMA NPositive == N \in Nat /\ N > 0
  BY WeightsAssumption DEF N

\* Every upstream is repeated at least once.
LEMMA BlockType == \A i \in 1 .. N : Blocks[i] \in Seq(Upstream) /\ Blocks[i] # <<>>
<1> SUFFICES ASSUME NEW i \in 1 .. N PROVE Repeated(i) \in Seq(Upstream) /\ Repeated(i) # <<>>
  BY DEF Blocks
<1>1. weights[i] \in Nat
  BY WeightsAssumption, NPositive DEF N
<1>2. i - 1 \in Upstream
  BY NPositive DEF Upstream
<1> DEFINE m == IF weights[i] > 1 THEN weights[i] ELSE 1
<1>3. m \in Nat /\ m >= 1 /\ Repeated(i) = [k \in 1 .. m |-> i - 1]
  BY <1>1 DEF Repeated
<1> HIDE DEF m
<1>4. Repeated(i) \in Seq(Upstream) /\ Len(Repeated(i)) = m
  BY <1>2, <1>3
<1>5. QED BY <1>3, <1>4

\* Flattening one more block extends the sequence and keeps it a sequence of
\* upstreams.
LEMMA FlattenStep ==
    ASSUME NEW m \in 1 .. N, m < N, NEW g, Filled(g, m)
    PROVE  \E h : Filled(h, m + 1)
<1> DEFINE h == [i \in 1 .. (m + 1) |-> IF i <= m THEN g[i] ELSE g[m] \o Blocks[m + 1]]
<1>0. m \in Nat /\ m >= 1 /\ m + 1 \in 1 .. N /\ m \in 1 .. m
  BY NPositive
<1>1. h[m + 1] \in Seq(Upstream) /\ h[m + 1] # <<>>
  <2>1. g[m] \in Seq(Upstream) /\ g[m] # <<>> /\ Blocks[m + 1] \in Seq(Upstream) 
    BY <1>0, BlockType DEF Filled
  <2>2. h[m + 1] = g[m] \o Blocks[m + 1]
    <3>1. m + 1 \in 1 .. (m + 1) /\ ~(m + 1 <= m)
      BY <1>0
    <3>2. QED BY <3>1, Zenon
  <2>3. QED BY <2>1, <2>2, ConcatProperties
<1>2. \A i \in 1 .. (m + 1) : h[i] \in Seq(Upstream) /\ h[i] # <<>>
  BY <1>0, <1>1 DEF Filled
<1>3. \A i \in 1 .. (m + 1) : h[i] = IF i = 1 THEN Blocks[i] ELSE h[i - 1] \o Blocks[i]
  <2> SUFFICES ASSUME NEW i \in 1 .. (m + 1)
               PROVE  h[i] = IF i = 1 THEN Blocks[i] ELSE h[i - 1] \o Blocks[i]
    OBVIOUS
  <2>1. CASE i = m + 1
    BY <2>1, <1>0
  <2>2. CASE i <= m
    <3>1. g[i] = IF i = 1 THEN Blocks[i] ELSE g[i - 1] \o Blocks[i]
      BY <2>2, <1>0 DEF Filled
    <3>2. QED BY <3>1, <2>2, <1>0
  <2>3. QED BY <2>1, <2>2, <1>0
<1>4. Flattens(h, m + 1)
  BY <1>3 DEF Flattens
<1>5. QED BY <1>2, <1>3, <1>4 DEF Filled

\* FlattenSeq is well defined on the blocks: induction on the number of blocks.
LEMMA FlattenExists == \E g : Filled(g, N)
<1> DEFINE T == {m \in Nat : m \in 1 .. N /\ ~\E g : Filled(g, m)}
<1>1. SUFFICES ASSUME T # {} PROVE FALSE
  BY NPositive
<1>2. PICK m \in T : \A k \in T : m <= k
  BY <1>1, LeastElement
<1>3. CASE m = 1
  <2> DEFINE g == [i \in 1 .. 1 |-> Blocks[i]]
  <2>1. Flattens(g, 1)
    BY DEF Flattens
  <2>2. Filled(g, 1)
    BY <2>1, BlockType, NPositive DEF Filled
  <2>3. QED BY <2>2, <1>3
<1>4. CASE m > 1
  <2>1. m - 1 \notin T /\ m - 1 \in 1 .. N /\ m - 1 < N
    BY <1>2, <1>4, NPositive
  <2>2. PICK g : Filled(g, m - 1)
    BY <2>1
  <2>3. \E h : Filled(h, (m - 1) + 1)
    BY <2>1, <2>2, FlattenStep
  <2>4. QED BY <2>3, <1>2
<1>5. QED BY <1>2, <1>3, <1>4

\* The recursive function of FlattenSeq unfolds.
LEMMA FlattenUnfolds ==
    ASSUME NEW F, NEW m, Flattens(F, m)
    PROVE  \A i \in 1 .. m : F[i] = IF i = 1 THEN Blocks[i] ELSE F[i - 1] \o Blocks[i]
<1> DEFINE G == [i \in 1 .. m |-> IF i = 1 THEN Blocks[i] ELSE F[i - 1] \o Blocks[i]]
<1>1. \A i \in 1 .. m : G[i] = IF i = 1 THEN Blocks[i] ELSE F[i - 1] \o Blocks[i]
  OBVIOUS
<1>2. F = G
  BY DEF Flattens
<1> HIDE DEF G
<1>3. \A i \in 1 .. m : F[i] = G[i]
  BY <1>2
<1>4. QED BY <1>1, <1>3

\* The round-robin order names upstreams and is not empty.
LEMMA OrderType == rr_order \in Seq(Upstream) /\ n \in Nat /\ n > 0
<1>1. PICK g : Filled(g, N)
  BY FlattenExists
<1> DEFINE F == CHOOSE g1 : Flattens(g1, N)
<1>2. Flattens(F, N)
  BY <1>1 DEF Filled
<1>3. Len(Blocks) = N /\ Len(Blocks) # 0
  BY NPositive DEF Blocks
<1>4. rr_order = F[N]
  BY <1>3 DEF rr_order, FlattenSeq, Blocks, Repeated, Flattens
<1>5. \A i \in 1 .. N : F[i] = IF i = 1 THEN Blocks[i] ELSE F[i - 1] \o Blocks[i]
  BY <1>2, FlattenUnfolds
<1> HIDE DEF F
<1> DEFINE T == {m \in Nat : m \in 1 .. N /\ ~(F[m] \in Seq(Upstream) /\ F[m] # <<>>)}
<1>6. T = {}
  <2>1. SUFFICES ASSUME T # {} PROVE FALSE
    OBVIOUS
  <2>2. PICK m \in T : \A k \in T : m <= k
    BY <2>1, LeastElement
  <2>3. CASE m = 1
    BY <1>5, <2>3, BlockType, NPositive
  <2>4. CASE m > 1
    <3>1. m - 1 \notin T /\ m - 1 \in 1 .. N /\ m \in 1 .. N
      BY <2>2, <2>4, NPositive
    <3>2. F[m - 1] \in Seq(Upstream) /\ F[m - 1] # <<>> /\ Blocks[m] \in Seq(Upstream)
      BY <3>1, BlockType
    <3>3. F[m] = F[m - 1] \o Blocks[m]
      <4>1. m # 1
        BY <2>4, <3>1
      <4>2. QED BY <1>5, <3>1, <4>1, Zenon
    <3>4. F[m] \in Seq(Upstream) /\ F[m] # <<>>
      BY <3>2, <3>3, ConcatProperties, ConcatEqualIffEmpty
    <3>5. QED BY <3>4
  <2>5. QED BY <2>2, <2>3, <2>4
<1>7. rr_order \in Seq(Upstream) /\ rr_order # <<>>
  BY <1>4, <1>6, NPositive
<1>8. QED BY <1>7 DEF n
-----------------------------------------------------------------------------
\* The scan goes to the first upstream from i on that is not excluded.
LEMMA NextIncludedSpec ==
    ASSUME NEW i \in 0 .. N, NEW e
    PROVE  /\ NextIncluded(i, e) \in i .. N
           /\ NextIncluded(i, e) < N => NextIncluded(i, e) \notin e
           /\ \A k \in i .. (N - 1) : k < NextIncluded(i, e) => k \in e
<1> DEFINE S == {j \in i .. (N - 1) : j \notin e} \cup {N}
<1>1. S \subseteq Nat /\ S # {} /\ S \subseteq i .. N
  BY NPositive
<1>2. PICK m \in S : \A k \in S : m <= k
  BY <1>1, LeastElement
<1>3. NextIncluded(i, e) \in S /\ \A k \in S : NextIncluded(i, e) <= k
  BY <1>2 DEF NextIncluded, Min
<1>4. QED BY <1>1, <1>3, NPositive

-----------------------------------------------------------------------------
\* The points a handler can be at, and the candidates of a scan.
PC == {"idle", "ticket", "health", "allow", "load", "acquire", "none",
       "calling", "retry", "release"}
Best == {{}} \cup {{b} : b \in [idx : Upstream, key : Int]}
\* The locals of a handler.
Locals == [pc : PC, exclude : SUBSET Upstream, tickets : 0 .. (n + 1), idx : 0 .. N,
           best : Best]

\* What holds of the locals of a handler, one at a time.
Sound(r) ==
    /\ r \in Locals
    /\ r.pc = "idle" => r = Idle
    /\ r.idx = N <=> r.pc \in {"idle", "ticket", "none"}
    /\ r.pc = "ticket" => strategy = "RoundRobin" /\ r.tickets < n
    /\ r.pc = "load" => strategy = "LeastConnections"
    /\ r.pc \in {"health", "allow", "load", "acquire", "calling"} => r.idx \notin r.exclude
    /\ \A b \in r.best : b.idx \notin r.exclude
    /\ strategy = "RoundRobin" => r.best = {}
    /\ strategy = "LeastConnections" => r.tickets = 0

\* Is the pick going through the upstreams in order?
Scanning(r) == strategy = "LeastConnections" \/ r.tickets > n

\* Does ScanInv say something of it?
Advancing(r) ==
    \/ r.pc \in {"health", "allow", "load"} /\ Scanning(r)
    \/ r.pc = "acquire" /\ strategy = "LeastConnections"

\* The upstreams that the scan of r has gone by.
GoneBy(r) == IF r.pc = "acquire" THEN Upstream ELSE {u \in Upstream : u < r.idx}

\* What a scan knows of an upstream u it has gone by that was eligible all the
\* time: it has a candidate, and one with a load that u had or exceeded.
Beaten(r, u, P) == r.best # {} /\ \A b \in r.best : b.key <= P[u]

\* The pick of r in relation to the upstreams S eligible throughout and the
\* highest loads P.
ScanInv(r, S, P) ==
    /\ r.pc = "none" => S = {}
    /\ Advancing(r) => \A u \in S \cap GoneBy(r) : Beaten(r, u, P)

\* A handler that looks at an upstream or holds one knows which.
LEMMA CandidateIdx ==
    ASSUME NEW r, Sound(r), r.pc \notin {"idle", "ticket", "none"}
    PROVE  r.idx \in Upstream
<1>1. r.idx \in 0 .. N /\ r.idx # N
  BY DEF Sound, Locals
<1>2. QED BY <1>1, NPositive DEF Upstream

\* The locals after an update of the point and the candidate.
Moved(r, pc, idx) == [r EXCEPT !.pc = pc, !.idx = idx]

\* A move keeps the rest of the locals.
LEMMA MovedLocals ==
    ASSUME NEW r \in Locals, NEW pc \in PC, NEW idx \in 0 .. N
    PROVE  /\ Moved(r, pc, idx) \in Locals
           /\ Moved(r, pc, idx).pc = pc /\ Moved(r, pc, idx).idx = idx
           /\ Moved(r, pc, idx).exclude = r.exclude
           /\ Moved(r, pc, idx).tickets = r.tickets /\ Moved(r, pc, idx).best = r.best
  BY DEF Locals, Moved

\* A scan that has gone by every eligible upstream below i goes on soundly.
LEMMA ScanFromSound ==
    ASSUME strategy \in {"RoundRobin", "LeastConnections"},
           NEW r \in Locals, Scanning(r), NEW i \in 0 .. N,
           NEW S \in SUBSET Upstream, S \cap r.exclude = {}, NEW P,
           \A b \in r.best : b.idx \notin r.exclude,
           strategy = "RoundRobin" => r.best = {},
           strategy = "LeastConnections" => r.tickets = 0,
           \A u \in S : u < i => Beaten(r, u, P)
    PROVE  /\ Sound(ScanFrom(r, i)) /\ ScanInv(ScanFrom(r, i), S, P)
           /\ ScanFrom(r, i).pc \in {"health", "none", "acquire"}
           /\ ScanFrom(r, i).exclude = r.exclude
<1> DEFINE j == NextIncluded(i, r.exclude)
<1>1. /\ j \in i .. N
      /\ j < N => j \notin r.exclude
      /\ \A k \in i .. (N - 1) : k < j => k \in r.exclude
  BY NextIncludedSpec
<1>2. \A u \in S : u < j => Beaten(r, u, P)
  BY <1>1, NPositive DEF Upstream
<1> HIDE DEF j
<1>3. CASE j < N
  <2> DEFINE x == Moved(r, "health", j)
  <2>1. ScanFrom(r, i) = x
    BY <1>3 DEF ScanFrom, Moved, j
  <2>2. x \in Locals /\ x.pc = "health" /\ x.idx = j /\ x.exclude = r.exclude
        /\ x.tickets = r.tickets /\ x.best = r.best
    <3>1. "health" \in PC /\ j \in 0 .. N
      BY <1>1, <1>3, NPositive DEF PC
    <3>2. QED BY <3>1, MovedLocals
  <2> HIDE DEF x
  <2>3. Sound(x)
    BY <1>1, <1>3, <2>2 DEF Sound
  <2>4. ScanInv(x, S, P)
    BY <1>2, <2>2 DEF ScanInv, Advancing, GoneBy, Beaten
  <2>5. QED BY <2>1, <2>2, <2>3, <2>4
<1>4. CASE ~(j < N) /\ r.best = {}
  <2> DEFINE x == Moved(r, "none", N)
  <2>1. ScanFrom(r, i) = x
    BY <1>4 DEF ScanFrom, Moved, j
  <2>2. x \in Locals /\ x.pc = "none" /\ x.idx = N /\ x.exclude = r.exclude
        /\ x.tickets = r.tickets /\ x.best = r.best
    <3>1. "none" \in PC /\ N \in 0 .. N
      BY NPositive DEF PC
    <3>2. QED BY <3>1, MovedLocals
  <2> HIDE DEF x
  <2>3. Sound(x)
    BY <2>2 DEF Sound
  <2>4. S = {}
    BY <1>1, <1>2, <1>4, NPositive DEF Beaten, Upstream
  <2>5. ScanInv(x, S, P)
    BY <2>2, <2>4 DEF ScanInv, Advancing
  <2>6. QED BY <2>1, <2>2, <2>3, <2>5
<1>5. CASE ~(j < N) /\ r.best # {}
  <2>1. PICK b \in [idx : Upstream, key : Int] : r.best = {b}
    BY <1>5 DEF Locals, Best
  <2> DEFINE x == Moved(r, "acquire", b.idx)
  <2>2. (CHOOSE c \in r.best : TRUE) = b
    BY <2>1
  <2>3. ScanFrom(r, i) = x
    BY <1>5, <2>2 DEF ScanFrom, Moved, j
  <2>4. b.idx \in Upstream /\ b.idx # N /\ b.idx \notin r.exclude
    BY <2>1, NPositive DEF Upstream
  <2>5. x \in Locals /\ x.pc = "acquire" /\ x.idx = b.idx /\ x.exclude = r.exclude
        /\ x.tickets = r.tickets /\ x.best = r.best
    <3>1. "acquire" \in PC /\ b.idx \in 0 .. N
      BY <2>4, NPositive DEF PC, Upstream
    <3>2. QED BY <3>1, MovedLocals
  <2> HIDE DEF x
  <2>6. strategy = "LeastConnections"
    BY <1>5
  <2>7. Sound(x)
    BY <2>4, <2>5, <2>6 DEF Sound
  <2>8. \A u \in S : Beaten(r, u, P)
    BY <1>1, <1>2, <1>5, NPositive DEF Upstream
  <2>9. ScanInv(x, S, P)
    BY <2>5, <2>6, <2>8 DEF ScanInv, Advancing, GoneBy, Beaten
  <2>10. QED BY <2>3, <2>5, <2>7, <2>9
<1>6. QED BY <1>3, <1>4, <1>5

\* The locals at the start of a pick.
Started(e) == [Idle EXCEPT !.exclude = e]
\* ... and that of a round-robin pick.
Drawing(e) == [pc |-> "ticket", exclude |-> e, tickets |-> 0, idx |-> N, best |-> {}]

\* The fields of the locals at the start of a pick.
LEMMA StartLocals ==
    ASSUME NEW e \in SUBSET Upstream
    PROVE  /\ Started(e) \in Locals /\ Started(e).pc = "idle" /\ Started(e).idx = N
           /\ Started(e).exclude = e /\ Started(e).tickets = 0 /\ Started(e).best = {}
           /\ [Started(e) EXCEPT !.pc = "ticket"] = Drawing(e)
           /\ Drawing(e) \in Locals /\ Drawing(e).pc = "ticket" /\ Drawing(e).idx = N
           /\ Drawing(e).exclude = e /\ Drawing(e).tickets = 0 /\ Drawing(e).best = {}
<1>1. Started(e) = [pc |-> "idle", exclude |-> e, tickets |-> 0, idx |-> N, best |-> {}]
  BY DEF Started, Idle
<1>2. 0 \in 0 .. (n + 1) /\ N \in 0 .. N /\ "idle" \in PC /\ {} \in Best
  BY NPositive, OrderType DEF PC, Best
<1>3. Started(e) \in Locals
  BY <1>1, <1>2 DEF Locals
<1>4. [Started(e) EXCEPT !.pc = "ticket"] = Drawing(e)
  BY <1>1 DEF Drawing
<1>5. Drawing(e) \in Locals
  BY <1>2 DEF Locals, PC, Drawing
<1>6. /\ Started(e).pc = "idle" /\ Started(e).idx = N
      /\ Started(e).exclude = e /\ Started(e).tickets = 0 /\ Started(e).best = {}
  BY <1>1
<1>7. /\ Drawing(e).pc = "ticket" /\ Drawing(e).idx = N
      /\ Drawing(e).exclude = e /\ Drawing(e).tickets = 0 /\ Drawing(e).best = {}
  BY DEF Drawing
<1>8. QED BY <1>3, <1>4, <1>5, <1>6, <1>7

\* A pick starts soundly, whatever was eligible when it began.
LEMMA PickSound ==
    ASSUME strategy \in {"RoundRobin", "LeastConnections"},
           NEW e \in SUBSET Upstream, NEW S \in SUBSET Upstream, S \cap e = {}, NEW P
    PROVE  /\ Sound(pick(e)) /\ ScanInv(pick(e), S, P)
           /\ pick(e).pc \in {"ticket", "health", "none", "acquire"}
           /\ pick(e).exclude = e
<1> DEFINE r == Started(e)
<1>1. /\ r \in Locals /\ r.exclude = e /\ r.tickets = 0 /\ r.best = {} /\ r.idx = N
      /\ [r EXCEPT !.pc = "ticket"] = Drawing(e)
  BY StartLocals
<1>2. pick(e) = IF strategy = "RoundRobin" THEN Drawing(e) ELSE ScanFrom(r, 0)
  BY <1>1 DEF pick, Started
<1> HIDE DEF r
<1>3. CASE strategy = "RoundRobin"
  <2> DEFINE x == Drawing(e)
  <2>1. x \in Locals /\ x.pc = "ticket" /\ x.idx = N /\ x.exclude = e
        /\ x.tickets = 0 /\ x.best = {}
    BY StartLocals
  <2> HIDE DEF x
  <2>2. Sound(x)
    BY <1>3, <2>1, OrderType DEF Sound
  <2>3. ScanInv(x, S, P)
    BY <2>1 DEF ScanInv, Advancing
  <2>4. QED BY <1>2, <1>3, <2>1, <2>2, <2>3 DEF x
<1>4. CASE strategy = "LeastConnections"
  <2>1. Scanning(r) /\ 0 \in 0 .. N
    BY <1>4, NPositive DEF Scanning
  <2>2. \A u \in S : u < 0 => Beaten(r, u, P)
    BY DEF Upstream
  <2>3. /\ Sound(ScanFrom(r, 0)) /\ ScanInv(ScanFrom(r, 0), S, P)
        /\ ScanFrom(r, 0).pc \in {"health", "none", "acquire"}
        /\ ScanFrom(r, 0).exclude = r.exclude
    BY <1>1, <1>4, <2>1, <2>2, ScanFromSound
  <2>4. pick(e) = ScanFrom(r, 0)
    BY <1>2, <1>4
  <2>5. QED BY <1>1, <2>3, <2>4
<1>5. QED BY <1>3, <1>4

\* The locals when all tickets are drawn.
AllDrawn(r) == [r EXCEPT !.tickets = n + 1]

\* The fallback only changes the number of tickets.
LEMMA AllDrawnLocals ==
    ASSUME NEW r \in Locals
    PROVE  /\ AllDrawn(r) \in Locals /\ AllDrawn(r).tickets = n + 1
           /\ AllDrawn(r).exclude = r.exclude /\ AllDrawn(r).best = r.best
  BY OrderType DEF AllDrawn, Locals

\* Going on after a candidate that is excluded or was found not eligible.
LEMMA IneligibleSound ==
    ASSUME strategy \in {"RoundRobin", "LeastConnections"},
           NEW r \in Locals, r.idx \in Upstream,
           NEW S \in SUBSET Upstream, S \cap r.exclude = {}, r.idx \notin S, NEW P,
           \A b \in r.best : b.idx \notin r.exclude,
           strategy = "RoundRobin" => r.best = {},
           strategy = "LeastConnections" => r.tickets = 0,
           Scanning(r) => \A u \in S : u < r.idx => Beaten(r, u, P)
    PROVE  /\ Sound(Ineligible(r)) /\ ScanInv(Ineligible(r), S, P)
           /\ Ineligible(r).pc \in {"ticket", "health", "none", "acquire"}
           /\ Ineligible(r).exclude = r.exclude
<1>0. r.tickets \in 0 .. (n + 1) /\ n \in Nat /\ N \in Nat
  BY OrderType, NPositive DEF Locals
<1>1. CASE Scanning(r)
  <2>1. Ineligible(r) = ScanFrom(r, r.idx + 1)
    BY <1>1 DEF Ineligible, Scanning
  <2>2. r.idx + 1 \in 0 .. N
    BY NPositive DEF Upstream
  <2>3. \A u \in S : u < r.idx + 1 => Beaten(r, u, P)
    <3> SUFFICES ASSUME NEW u \in S, u < r.idx + 1 PROVE Beaten(r, u, P)
      OBVIOUS
    <3>1. u \in Int /\ r.idx \in Int /\ u # r.idx
      BY NPositive DEF Upstream
    <3>2. u < r.idx
      BY <3>1
    <3>3. QED BY <1>1, <3>2
  <2>4. /\ Sound(ScanFrom(r, r.idx + 1)) /\ ScanInv(ScanFrom(r, r.idx + 1), S, P)
        /\ ScanFrom(r, r.idx + 1).pc \in {"health", "none", "acquire"}
        /\ ScanFrom(r, r.idx + 1).exclude = r.exclude
    BY <1>1, <2>2, <2>3, ScanFromSound
  <2>5. QED BY <2>1, <2>4
<1>2. CASE ~Scanning(r) /\ r.tickets < n
  <2> DEFINE x == Moved(r, "ticket", N)
  <2>1. Ineligible(r) = x
    BY <1>2 DEF Ineligible, Scanning, Moved
  <2>2. x \in Locals /\ x.pc = "ticket" /\ x.idx = N /\ x.exclude = r.exclude
        /\ x.tickets = r.tickets /\ x.best = r.best
    <3>1. "ticket" \in PC /\ N \in 0 .. N
      BY NPositive DEF PC
    <3>2. QED BY <3>1, MovedLocals
  <2> HIDE DEF x
  <2>3. strategy = "RoundRobin"
    BY <1>2 DEF Scanning
  <2>4. Sound(x)
    BY <1>2, <2>2, <2>3 DEF Sound
  <2>5. ScanInv(x, S, P)
    BY <2>2 DEF ScanInv, Advancing
  <2>6. QED BY <2>1, <2>2, <2>4, <2>5
<1>3. CASE ~Scanning(r) /\ ~(r.tickets < n)
  <2> DEFINE x == AllDrawn(r)
  <2>1. Ineligible(r) = ScanFrom(x, 0)
    BY <1>3 DEF Ineligible, Scanning, first_eligible, AllDrawn
  <2>2. x \in Locals /\ x.tickets = n + 1 /\ x.exclude = r.exclude /\ x.best = r.best
    BY AllDrawnLocals
  <2> HIDE DEF x
  <2>3. strategy = "RoundRobin" /\ Scanning(x) /\ 0 \in 0 .. N
    BY <1>0, <1>3, <2>2 DEF Scanning
  <2>4. \A u \in S : u < 0 => Beaten(x, u, P)
    BY DEF Upstream
  <2>5. /\ Sound(ScanFrom(x, 0)) /\ ScanInv(ScanFrom(x, 0), S, P)
        /\ ScanFrom(x, 0).pc \in {"health", "none", "acquire"}
        /\ ScanFrom(x, 0).exclude = x.exclude
    BY <2>2, <2>3, <2>4, ScanFromSound
  <2>6. QED BY <2>1, <2>2, <2>5
<1>4. QED BY <1>1, <1>2, <1>3

-----------------------------------------------------------------------------
\* What the auxiliary variables know of the pick of p.
Watch(p) ==
    /\ steady[p] \subseteq Admissible \ req[p].exclude
    /\ ~Picking(req[p]) => steady[p] = {}
    /\ strategy = "LeastConnections" /\ Picking(req[p]) =>
         \A u \in Upstream : peak[p][u] \in Int /\ active[u] <= peak[p][u]
    /\ ScanInv(req[p], steady[p], peak[p])

\* The state that the handlers share has its types.
Shared ==
    /\ strategy \in {"RoundRobin", "LeastConnections"}
    /\ healthy \in [Upstream -> BOOLEAN]
    /\ breaker \in [Upstream -> Breaker]
    /\ active \in [Upstream -> Int]
    /\ rr_cursor \in 0 .. (USIZE - 1)

\* The inductive invariant.
BalInv ==
    /\ Shared
    /\ req \in [Picker -> Locals]
    /\ \A p \in Picker : Sound(req[p]) /\ Watch(p)

\* What Observe records for one handler.
LEMMA ObserveEffect ==
    ASSUME NEW p \in Picker, Observe, active' \in [Upstream -> Int],
           strategy \in {"RoundRobin", "LeastConnections"}
    PROVE  /\ strategy' = strategy
           /\ ~Picking(req'[p]) => steady'[p] = {}
           /\ Picking(req'[p]) /\ Picking(req[p]) => steady'[p] = steady[p] \cap Admissible'
           /\ Picking(req'[p]) /\ ~Picking(req[p]) =>
                steady'[p] = Admissible' \ req'[p].exclude
           /\ strategy = "LeastConnections" /\ Picking(req'[p]) =>
                \A u \in Upstream :
                    /\ active'[u] \in Int
                    /\ peak'[p][u] = IF Picking(req[p]) /\ peak[p][u] > active'[u]
                                     THEN peak[p][u] ELSE active'[u]
<1>1. strategy' = strategy
  BY DEF Observe
<1>2. steady'[p] = IF ~Picking(req'[p]) THEN {}
                   ELSE IF Picking(req[p]) THEN steady[p] \cap Admissible'
                   ELSE Admissible' \ req'[p].exclude
  BY DEF Observe
<1>3. \A u \in Upstream :
        peak'[p][u] = IF strategy = "RoundRobin" \/ ~Picking(req'[p]) THEN 0
                      ELSE IF Picking(req[p]) /\ peak[p][u] > active'[u] THEN peak[p][u]
                      ELSE active'[u]
  BY DEF Observe
<1>4. QED BY <1>1, <1>2, <1>3

\* The candidate of a scan, if it has one, has a load.
LEMMA BestKeys == ASSUME NEW r \in Locals PROVE \A b \in r.best : b.key \in Int
<1>1. r.best \in Best
  BY DEF Locals
<1>2. QED BY <1>1 DEF Best

\* With fewer upstreams to account for, and higher loads, a scan is still sound.
LEMMA ScanMonotone ==
    ASSUME NEW r \in Locals, NEW S \in SUBSET Upstream, NEW P, ScanInv(r, S, P),
           NEW T \in SUBSET S, NEW Q,
           strategy \in {"RoundRobin", "LeastConnections"},
           strategy = "RoundRobin" => r.best = {},
           strategy = "LeastConnections" /\ Picking(r) =>
               \A u \in Upstream : P[u] \in Int /\ Q[u] \in Int /\ P[u] <= Q[u]
    PROVE  ScanInv(r, T, Q)
<1>1. r.pc = "none" => T = {}
  BY DEF ScanInv, Advancing
<1>2. ASSUME Advancing(r), NEW u \in T \cap GoneBy(r)
      PROVE  Beaten(r, u, Q)
  <2>1. Beaten(r, u, P) /\ u \in Upstream /\ Picking(r)
    BY <1>2 DEF ScanInv, Advancing, Picking
  <2>2. strategy = "LeastConnections"
    BY <2>1 DEF Beaten
  <2>3. \A b \in r.best : b.key \in Int
    BY BestKeys
  <2>4. QED BY <2>1, <2>2, <2>3 DEF Beaten
<1>3. QED BY <1>1, <1>2 DEF ScanInv, Advancing

\* The strategy of the route does not change.
LEMMA Unprimed ==
    ASSUME strategy' = strategy, NEW q \in Picker
    PROVE  /\ Sound(req'[q]) => Sound(req[q])'
           /\ ScanInv(req'[q], steady'[q], peak'[q]) => ScanInv(req[q], steady[q], peak[q])'
<1>1. Sound(req'[q]) => Sound(req[q])'
  BY DEF Sound
<1>2. Advancing(req[q])' = Advancing(req'[q]) /\ GoneBy(req[q])' = GoneBy(req'[q])
      /\ \A u : Beaten(req[q], u, peak[q])' = Beaten(req'[q], u, peak'[q])
  BY DEF Advancing, Scanning, GoneBy, Beaten
<1>3. ScanInv(req'[q], steady'[q], peak'[q]) => ScanInv(req[q], steady[q], peak[q])'
  BY <1>2 DEF ScanInv, Advancing
<1>4. QED BY <1>1, <1>3

\* A step of another handler or of the environment leaves what a pick relies on.
LEMMA OtherWatch ==
    ASSUME BalInv, Observe, active' \in [Upstream -> Int], NEW q \in Picker, req'[q] = req[q]
    PROVE  Sound(req[q])' /\ Watch(q)'
<1>1. Sound(req[q]) /\ Watch(q) /\ req[q] \in Locals
  BY DEF BalInv
<1>2. strategy \in {"RoundRobin", "LeastConnections"} /\ strategy' = strategy
  BY ObserveEffect DEF BalInv, Shared
<1>3. steady'[q] \subseteq Admissible' \ req'[q].exclude /\ steady'[q] \subseteq steady[q]
  BY <1>1, <1>2, ObserveEffect DEF Watch
<1>4. ~Picking(req'[q]) => steady'[q] = {}
  BY <1>2, ObserveEffect
<1>5. strategy = "LeastConnections" /\ Picking(req[q]) =>
        \A u \in Upstream : /\ peak'[q][u] \in Int /\ active'[u] <= peak'[q][u]
                            /\ peak[q][u] \in Int /\ peak[q][u] <= peak'[q][u]
  BY <1>1, <1>2, ObserveEffect DEF Watch
<1>6. ScanInv(req[q], steady'[q], peak'[q])
  <2>1. steady[q] \in SUBSET Upstream /\ ScanInv(req[q], steady[q], peak[q])
    BY <1>1 DEF Watch, Admissible
  <2>2. strategy = "RoundRobin" => req[q].best = {}
    BY <1>1 DEF Sound
  <2>3. QED BY <1>1, <1>2, <1>3, <1>5, <2>1, <2>2, ScanMonotone
<1>7. Sound(req[q])' /\ ScanInv(req[q], steady[q], peak[q])'
  BY <1>1, <1>2, <1>6, Unprimed
<1>8. Watch(q)'
  BY <1>2, <1>3, <1>4, <1>5, <1>7 DEF Watch
<1>9. QED BY <1>7, <1>8

\* The environment: no handler moves.
LEMMA EnvironmentStep ==
    ASSUME BalInv, Observe, Shared', UNCHANGED req
    PROVE  BalInv'
<1>1. \A q \in Picker : Sound(req[q])' /\ Watch(q)'
  BY OtherWatch DEF Shared
<1>2. req' \in [Picker -> Locals]
  BY DEF BalInv
<1>3. QED BY <1>1, <1>2 DEF BalInv

\* A handler moves to sound locals.
LEMMA HandlerStep ==
    ASSUME BalInv, Observe, Shared', NEW p \in Picker, NEW x, Sound(x),
           req' = [req EXCEPT ![p] = x],
           Picking(x) => ScanInv(x, steady'[p], peak'[p]),
           Picking(x) /\ Picking(req[p]) => x.exclude = req[p].exclude
    PROVE  BalInv'
<1>1. active' \in [Upstream -> Int] /\ strategy \in {"RoundRobin", "LeastConnections"}
  BY DEF Shared, BalInv
<1>2. x \in Locals /\ req'[p] = x /\ req' \in [Picker -> Locals]
  BY DEF Sound, BalInv
<1>3. ASSUME NEW q \in Picker, q # p PROVE Sound(req[q])' /\ Watch(q)'
  <2>1. req'[q] = req[q]
    BY <1>3 DEF BalInv
  <2>2. QED BY <1>1, <2>1, OtherWatch
<1>4. Sound(req[p])' /\ Watch(p)'
  <2>1. strategy' = strategy
    BY <1>1, ObserveEffect
  <2>2. /\ steady'[p] \subseteq Admissible' \ req'[p].exclude
        /\ ~Picking(req'[p]) => steady'[p] = {}
    BY <1>1, <1>2, ObserveEffect DEF Watch, BalInv
  <2>3. strategy = "LeastConnections" /\ Picking(req'[p]) =>
          \A u \in Upstream : peak'[p][u] \in Int /\ active'[u] <= peak'[p][u]
    BY <1>1, <1>2, ObserveEffect DEF Watch, BalInv
  <2>4. ScanInv(x, steady'[p], peak'[p])
    BY DEF ScanInv, Advancing, Picking
  <2>5. Sound(req[p])' /\ ScanInv(req[p], steady[p], peak[p])'
    BY <1>2, <2>1, <2>4, Unprimed
  <2>6. QED BY <2>1, <2>2, <2>3, <2>5 DEF Watch
<1>5. QED BY <1>2, <1>3, <1>4 DEF BalInv

-----------------------------------------------------------------------------
\* The breaker operators keep the type of a breaker; one that refuses a call is
\* not changed by it and refuses every older reading of the clock.
LEMMA BreakerTypes ==
    ASSUME NEW b \in Breaker, NEW age \in Age
    PROVE  /\ new \in Breaker /\ allow_at(b, age) \in Breaker
           /\ record_success(b) \in Breaker /\ record_failure_at(b, age) \in Breaker
           /\ elapse(b) \in Breaker
           /\ ~allows(b, age) => allow_at(b, age) = b /\ ~allows(b, Stall)
<1> USE DEF Closed, Open, HalfOpen, BreakerState, Age, Offset
<1>1. /\ threshold \in Nat /\ open_for \in Nat /\ open_for >= 1
      /\ Stall \in Nat /\ U32 \in Nat /\ U32 > 1
  BY ThresholdAssumption, OpenSecsAssumption, U32Assumption, StallAssumption
  DEF threshold, open_for
<1>2. new \in Breaker /\ record_success(b) \in Breaker
  BY <1>1 DEF new, record_success, Breaker
<1>3. allow_at(b, age) \in Breaker
  BY DEF allow_at, Breaker
<1>4. record_failure_at(b, age) \in Breaker
  <2> DEFINE f == (b.consecutive_failures + 1) % U32
  <2>1. f \in 0 .. (U32 - 1) /\ open_for - age \in Offset
    BY <1>1 DEF Breaker
  <2>2. CASE b.state = HalfOpen \/ f >= threshold
    BY <2>1, <2>2 DEF record_failure_at, Breaker
  <2>3. CASE ~(b.state = HalfOpen \/ f >= threshold)
    BY <2>1, <2>3 DEF record_failure_at, Breaker
  <2>4. QED BY <2>2, <2>3
<1>5. elapse(b) \in Breaker
  <2> DEFINE s == {IF u > -Stall THEN u - 1 ELSE u : u \in b.open_until}
  <2>1. b.open_until = {} \/ \E u \in Offset : b.open_until = {u}
    BY DEF Breaker
  <2>2. s \in {{}} \cup {{u} : u \in Offset}
    BY <1>1, <2>1
  <2>3. elapse(b) = [b EXCEPT !.open_until = s]
    BY DEF elapse
  <2> HIDE DEF s
  <2>4. QED BY <2>2, <2>3 DEF Breaker
<1>6. ~allows(b, age) => allow_at(b, age) = b
  BY DEF allows, allow_at
<1>7. ~allows(b, age) => ~allows(b, Stall)
  <2>1. \A u \in b.open_until : u \in Int
    BY <1>1 DEF Breaker
  <2>2. cooled(b, Stall) => cooled(b, age)
    BY <1>1, <2>1 DEF cooled
  <2>3. QED BY <2>2 DEF allows
<1>8. QED BY <1>2, <1>3, <1>4, <1>5, <1>6, <1>7

\* A request starts its first pick, or its next one without the upstreams that
\* failed it.
LEMMA PickStep ==
    ASSUME BalInv, Observe, Shared', NEW p \in Picker, ~Picking(req[p]),
           NEW e \in SUBSET Upstream, req' = [req EXCEPT ![p] = pick(e)]
    PROVE  BalInv'
<1>1. strategy \in {"RoundRobin", "LeastConnections"} /\ active' \in [Upstream -> Int]
  BY DEF BalInv, Shared
<1>2. req'[p] = pick(e)
  BY DEF BalInv
<1>3. Admissible' \in SUBSET Upstream
  BY DEF Admissible
<1>4. Sound(pick(e)) /\ pick(e).exclude = e
  <2>1. {} \in SUBSET Upstream /\ {} \cap e = {}
    OBVIOUS
  <2>2. QED BY <1>1, <2>1, PickSound, Zenon
<1>5. ASSUME Picking(pick(e)) PROVE ScanInv(pick(e), steady'[p], peak'[p])
  <2>1. steady'[p] = Admissible' \ e
    BY <1>1, <1>2, <1>4, <1>5, ObserveEffect
  <2>2. steady'[p] \in SUBSET Upstream /\ steady'[p] \cap e = {}
    BY <1>3, <2>1
  <2>3. QED BY <1>1, <2>2, PickSound
<1>6. QED BY <1>4, <1>5, HandlerStep

\* A request arrives.
LEMMA ArrivePreserves ==
    ASSUME BalInv, NEW p \in Picker, Arrive(p)
    PROVE  BalInv'
<1>1. Shared'
  BY DEF BalInv, Shared, Arrive, upstreamVars, Observe
<1>2. ~Picking(req[p])
  BY DEF Arrive, Picking
<1>3. {} \in SUBSET Upstream /\ Observe /\ req' = [req EXCEPT ![p] = pick({})]
  BY DEF Arrive
<1>4. QED BY <1>1, <1>2, <1>3, PickStep

\* The locals after drawing a ticket, after the candidate is found eligible so
\* far, and after its load is compared.
Ticketed(r, i) == [r EXCEPT !.tickets = @ + 1, !.idx = i, !.pc = "health"]
At(r, pc) == [r EXCEPT !.pc = pc]
Compared(r, best) == [r EXCEPT !.best = best]

\* Those updates keep the rest of the locals.
LEMMA UpdatedLocals ==
    ASSUME NEW r \in Locals
    PROVE  /\ \A i \in Upstream : r.tickets < n =>
                /\ Ticketed(r, i) \in Locals /\ Ticketed(r, i).pc = "health"
                /\ Ticketed(r, i).idx = i /\ Ticketed(r, i).tickets = r.tickets + 1
                /\ Ticketed(r, i).exclude = r.exclude /\ Ticketed(r, i).best = r.best
           /\ \A pc \in PC :
                /\ At(r, pc) \in Locals /\ At(r, pc).pc = pc /\ At(r, pc).idx = r.idx
                /\ At(r, pc).tickets = r.tickets
                /\ At(r, pc).exclude = r.exclude /\ At(r, pc).best = r.best
           /\ \A best \in Best :
                /\ Compared(r, best) \in Locals /\ Compared(r, best).best = best
                /\ Compared(r, best).pc = r.pc /\ Compared(r, best).idx = r.idx
                /\ Compared(r, best).tickets = r.tickets
                /\ Compared(r, best).exclude = r.exclude
<1>1. ASSUME NEW i \in Upstream, r.tickets < n
      PROVE  /\ Ticketed(r, i) \in Locals /\ Ticketed(r, i).pc = "health"
             /\ Ticketed(r, i).idx = i /\ Ticketed(r, i).tickets = r.tickets + 1
             /\ Ticketed(r, i).exclude = r.exclude /\ Ticketed(r, i).best = r.best
  <2>1. r.tickets + 1 \in 0 .. (n + 1) /\ i \in 0 .. N /\ "health" \in PC
    BY <1>1, OrderType, NPositive DEF Locals, Upstream, PC
  <2>2. QED BY <2>1 DEF Locals, Ticketed
<1>2. ASSUME NEW pc \in PC
      PROVE  /\ At(r, pc) \in Locals /\ At(r, pc).pc = pc /\ At(r, pc).idx = r.idx
             /\ At(r, pc).tickets = r.tickets
             /\ At(r, pc).exclude = r.exclude /\ At(r, pc).best = r.best
  BY DEF Locals, At
<1>3. ASSUME NEW best \in Best
      PROVE  /\ Compared(r, best) \in Locals /\ Compared(r, best).best = best
             /\ Compared(r, best).pc = r.pc /\ Compared(r, best).idx = r.idx
             /\ Compared(r, best).tickets = r.tickets
             /\ Compared(r, best).exclude = r.exclude
  BY DEF Locals, Compared
<1>4. QED BY <1>1, <1>2, <1>3

\* What a pick that goes on can rely on after the step.
LEMMA GoingOn ==
    ASSUME BalInv, Observe, Shared', NEW p \in Picker, Picking(req[p]), Picking(req'[p])
    PROVE  /\ steady'[p] \in SUBSET Upstream /\ steady'[p] \subseteq Admissible'
           /\ steady'[p] \cap req[p].exclude = {}
           /\ ScanInv(req[p], steady'[p], peak'[p])
           /\ strategy = "LeastConnections" =>
                \A u \in Upstream : peak'[p][u] \in Int /\ active'[u] <= peak'[p][u]
<1>1. Sound(req[p]) /\ Watch(p) /\ req[p] \in Locals
  BY DEF BalInv
<1>2. strategy \in {"RoundRobin", "LeastConnections"} /\ active' \in [Upstream -> Int]
  BY DEF BalInv, Shared
<1>3. steady'[p] = steady[p] \cap Admissible'
  BY <1>2, ObserveEffect
<1>4. steady[p] \in SUBSET Upstream /\ steady[p] \cap req[p].exclude = {}
  BY <1>1 DEF Watch, Admissible
<1>5. strategy = "LeastConnections" =>
        \A u \in Upstream : /\ peak'[p][u] \in Int /\ active'[u] <= peak'[p][u]
                            /\ peak[p][u] \in Int /\ peak[p][u] <= peak'[p][u]
  BY <1>1, <1>2, ObserveEffect DEF Watch
<1>6. ScanInv(req[p], steady[p], peak[p]) /\ (strategy = "RoundRobin" => req[p].best = {})
  BY <1>1 DEF Watch, Sound
<1>7. ScanInv(req[p], steady'[p], peak'[p])
  <2>1. steady'[p] \in SUBSET steady[p]
    BY <1>3
  <2>2. QED BY <1>1, <1>2, <1>4, <1>5, <1>6, <2>1, ScanMonotone
<1>8. QED BY <1>3, <1>4, <1>5, <1>7

\* The pick of p goes on, for the same request.
Going(p) ==
    /\ Picking(req[p]) /\ Picking(req'[p]) /\ req'[p].exclude = req[p].exclude
    /\ \A q \in Picker \ {p} : req'[q] = req[q]

\* A handler moves to sound locals and its pick goes on.
LEMMA GoingStep ==
    ASSUME BalInv, Observe, Shared', NEW p \in Picker, NEW x, Sound(x),
           req' = [req EXCEPT ![p] = x], Picking(x), Picking(req[p]),
           ScanInv(x, steady'[p], peak'[p]), x.exclude = req[p].exclude
    PROVE  BalInv' /\ Going(p)
<1>1. BalInv'
  BY HandlerStep
<1>2. Going(p)
  BY DEF Going, BalInv
<1>3. QED BY <1>1, <1>2

\* Drawing a ticket.
LEMMA DrawTicketPreserves ==
    ASSUME BalInv, NEW p \in Picker, DrawTicket(p)
    PROVE  BalInv' /\ Going(p)
<1> DEFINE r == req[p]
           i == rr_order[(rr_cursor % n) + 1]
           t == Ticketed(r, i)
           x == IF i \in r.exclude THEN Ineligible(t) ELSE t
<1>1. /\ Sound(r) /\ r \in Locals /\ Observe
      /\ strategy = "RoundRobin" /\ r.tickets < n /\ r.best = {} /\ Picking(r)
  BY DEF BalInv, DrawTicket, Sound, Picking
<1>2. Shared'
  <2>1. (rr_cursor + 1) % USIZE \in 0 .. (USIZE - 1)
    BY USIZEAssumption DEF BalInv, Shared
  <2>2. QED BY <2>1 DEF BalInv, Shared, DrawTicket, upstreamVars, Observe
<1>3. i \in Upstream
  <2>1. (rr_cursor % n) + 1 \in 1 .. n
    BY OrderType, USIZEAssumption DEF BalInv, Shared
  <2>2. QED BY <2>1, OrderType DEF n
<1>4. /\ t \in Locals /\ t.pc = "health" /\ t.idx = i /\ t.tickets = r.tickets + 1
      /\ t.exclude = r.exclude /\ t.best = {}
  BY <1>1, <1>3, UpdatedLocals
<1>5. ~Scanning(t)
  BY <1>1, <1>4, OrderType DEF Scanning, Locals
<1>6. req' = [req EXCEPT ![p] = x] /\ req'[p] = x
  BY DEF DrawTicket, Ticketed, BalInv
<1> HIDE DEF r, i, t
<1>7. CASE i \in r.exclude
  <2>1. ASSUME NEW S \in SUBSET Upstream, S \cap r.exclude = {}, NEW P
        PROVE  /\ Sound(Ineligible(t)) /\ ScanInv(Ineligible(t), S, P)
               /\ Ineligible(t).pc \in {"ticket", "health", "none", "acquire"}
               /\ Ineligible(t).exclude = r.exclude
    <3>1. t.idx \in Upstream /\ S \cap t.exclude = {} /\ t.idx \notin S
      BY <1>3, <1>4, <1>7, <2>1
    <3>2. QED BY <1>1, <1>4, <1>5, <3>1, IneligibleSound
  <2>2. /\ Sound(Ineligible(t)) /\ Picking(Ineligible(t))
        /\ Ineligible(t).exclude = r.exclude
    <3>1. {} \in SUBSET Upstream /\ {} \cap r.exclude = {}
      OBVIOUS
    <3>2. QED BY <2>1, <3>1 DEF Picking
  <2>3. req'[p] = Ineligible(t) /\ req' = [req EXCEPT ![p] = Ineligible(t)]
    BY <1>6, <1>7
  <2>4. ScanInv(Ineligible(t), steady'[p], peak'[p])
    <3>1. steady'[p] \in SUBSET Upstream /\ steady'[p] \cap r.exclude = {}
      BY <1>1, <1>2, <2>2, <2>3, GoingOn DEF r
    <3>2. QED BY <2>1, <3>1
  <2>5. QED BY <1>1, <1>2, <2>2, <2>3, <2>4, GoingStep DEF r
<1>8. CASE i \notin r.exclude
  <2>1. i # N
    BY <1>3, NPositive DEF Upstream
  <2>2. Sound(t)
    BY <1>1, <1>4, <1>8, <2>1 DEF Sound
  <2>3. ScanInv(t, steady'[p], peak'[p])
    BY <1>4, <1>5 DEF ScanInv, Advancing
  <2>4. req' = [req EXCEPT ![p] = t]
    BY <1>6, <1>8
  <2>5. Picking(t)
    BY <1>4 DEF Picking
  <2>6. QED BY <1>1, <1>2, <1>4, <2>2, <2>3, <2>4, <2>5, GoingStep DEF r
<1>9. QED BY <1>7, <1>8

\* The candidate turns out not to be eligible.
LEMMA IneligibleStep ==
    ASSUME BalInv, Observe, Shared', NEW p \in Picker, req[p].pc \in {"health", "allow"},
           req[p].idx \notin Admissible', req' = [req EXCEPT ![p] = Ineligible(req[p])]
    PROVE  BalInv' /\ Going(p)
<1> DEFINE r == req[p]
           x == Ineligible(r)
<1>1. Sound(r) /\ r \in Locals /\ strategy \in {"RoundRobin", "LeastConnections"} /\ Picking(r)
  BY DEF BalInv, Shared, Picking
<1>2. r.idx \in Upstream
  BY <1>1, NPositive DEF Sound, Locals, Upstream
<1>3. req'[p] = x
  BY DEF BalInv
<1>4. ASSUME NEW S \in SUBSET Upstream, S \cap r.exclude = {}, r.idx \notin S, NEW P,
             ScanInv(r, S, P)
      PROVE  /\ Sound(x) /\ ScanInv(x, S, P)
             /\ x.pc \in {"ticket", "health", "none", "acquire"} /\ x.exclude = r.exclude
  <2>1. Scanning(r) => \A u \in S : u < r.idx => Beaten(r, u, P)
    BY <1>4 DEF ScanInv, Advancing, GoneBy
  <2>2. /\ \A b \in r.best : b.idx \notin r.exclude
        /\ strategy = "RoundRobin" => r.best = {}
        /\ strategy = "LeastConnections" => r.tickets = 0
    BY <1>1 DEF Sound
  <2> HIDE DEF r
  <2>3. QED BY <1>1, <1>2, <1>4, <2>1, <2>2, IneligibleSound
<1> HIDE DEF x
<1>5. Sound(x) /\ x.pc \in {"ticket", "health", "none", "acquire"} /\ x.exclude = r.exclude
  <2>1. {} \in SUBSET Upstream /\ {} \cap r.exclude = {} /\ r.idx \notin {}
    OBVIOUS
  <2>2. ScanInv(r, {}, peak[p])
    BY DEF ScanInv
  <2>3. QED BY <1>4, <2>1, <2>2
<1>6. Picking(x)
  BY <1>5 DEF Picking
<1>7. ScanInv(x, steady'[p], peak'[p])
  <2>1. /\ steady'[p] \in SUBSET Upstream /\ steady'[p] \subseteq Admissible'
        /\ steady'[p] \cap r.exclude = {} /\ ScanInv(r, steady'[p], peak'[p])
    BY <1>1, <1>3, <1>6, GoingOn
  <2>2. r.idx \notin steady'[p]
    BY <2>1
  <2>3. QED BY <1>4, <2>1, <2>2
<1>8. req' = [req EXCEPT ![p] = x]
  BY DEF x
<1>9. QED BY <1>1, <1>5, <1>6, <1>7, <1>8, GoingStep

\* The candidate is eligible so far and the handler looks further at it.
LEMMA EligibleStep ==
    ASSUME BalInv, Observe, Shared', NEW p \in Picker, NEW pc,
           \/ req[p].pc = "health" /\ pc = "allow"
           \/ req[p].pc = "allow" /\ pc = "load" /\ strategy = "LeastConnections"
           \/ req[p].pc = "allow" /\ pc = "acquire" /\ strategy = "RoundRobin",
           req' = [req EXCEPT ![p] = At(req[p], pc)]
    PROVE  BalInv' /\ Going(p)
<1> DEFINE r == req[p]
           x == At(r, pc)
<1>1. Sound(r) /\ r \in Locals /\ strategy \in {"RoundRobin", "LeastConnections"} /\ Picking(r)
  BY DEF BalInv, Shared, Picking
<1>2. pc \in PC /\ pc \in {"allow", "load", "acquire"}
  BY DEF PC
<1>3. /\ x \in Locals /\ x.pc = pc /\ x.idx = r.idx /\ x.tickets = r.tickets
      /\ x.exclude = r.exclude /\ x.best = r.best
  BY <1>1, <1>2, UpdatedLocals
<1>4. req' = [req EXCEPT ![p] = x] /\ req'[p] = x
  BY DEF BalInv
<1> HIDE DEF x
<1>5. Sound(x)
  BY <1>1, <1>2, <1>3 DEF Sound
<1>6. Picking(x)
  BY <1>2, <1>3 DEF Picking
<1>7. ScanInv(r, steady'[p], peak'[p])
  BY <1>1, <1>4, <1>6, GoingOn
<1>8. ScanInv(x, steady'[p], peak'[p])
  BY <1>2, <1>3, <1>7 DEF ScanInv, Advancing, Scanning, GoneBy, Beaten
<1>9. QED BY <1>1, <1>3, <1>4, <1>5, <1>6, <1>8, GoingStep

\* The health flag read is that of this very moment, so a candidate given up was
\* not admissible throughout.
LEMMA LoadHealthPreserves ==
    ASSUME BalInv, NEW p \in Picker, LoadHealth(p)
    PROVE  BalInv' /\ Going(p)
<1>1. Shared' /\ Observe
  BY DEF BalInv, Shared, LoadHealth, upstreamVars, Observe
<1>2. req[p].idx \in Upstream
  BY NPositive DEF BalInv, Sound, Locals, Upstream, LoadHealth
<1>3. CASE healthy[req[p].idx]
  <2>1. req' = [req EXCEPT ![p] = At(req[p], "allow")]
    BY <1>3 DEF LoadHealth, At
  <2>2. QED BY <1>1, <2>1, EligibleStep DEF LoadHealth
<1>4. CASE ~healthy[req[p].idx]
  <2>1. req' = [req EXCEPT ![p] = Ineligible(req[p])]
    BY <1>4 DEF LoadHealth
  <2>2. req[p].idx \notin Admissible'
    BY <1>2, <1>4 DEF LoadHealth, upstreamVars, Admissible
  <2>3. req[p].pc \in {"health", "allow"}
    BY DEF LoadHealth
  <2>4. QED BY <1>1, <2>1, <2>2, <2>3, IneligibleStep
<1>5. QED BY <1>3, <1>4

\* A breaker that refuses, with whatever reading of the clock, is one that is not
\* admissible.
LEMMA AskBreakerPreserves ==
    ASSUME BalInv, NEW p \in Picker, NEW age \in Age, AskBreaker(p, age)
    PROVE  BalInv' /\ Going(p)
<1> DEFINE u == req[p].idx
<1>1. u \in Upstream /\ strategy \in {"RoundRobin", "LeastConnections"}
  BY CandidateIdx DEF BalInv, Shared, AskBreaker
<1>2. breaker[u] \in Breaker
  BY <1>1 DEF BalInv, Shared
<1>3. allow_at(breaker[u], age) \in Breaker
  BY <1>2, BreakerTypes
<1>4. breaker' = [breaker EXCEPT ![u] = allow_at(breaker[u], age)]
  BY DEF AskBreaker
<1>5. breaker' \in [Upstream -> Breaker]
  BY <1>1, <1>3, <1>4 DEF BalInv, Shared
<1>6. Shared' /\ Observe
  BY <1>5 DEF BalInv, Shared, AskBreaker, Observe
<1>7. CASE allows(breaker[u], age)
  <2> DEFINE pc == IF strategy = "LeastConnections" THEN "load" ELSE "acquire"
  <2>1. req' = [req EXCEPT ![p] = At(req[p], pc)]
    BY <1>7 DEF AskBreaker, At
  <2>2. \/ req[p].pc = "allow" /\ pc = "load" /\ strategy = "LeastConnections"
        \/ req[p].pc = "allow" /\ pc = "acquire" /\ strategy = "RoundRobin"
    BY <1>1 DEF AskBreaker
  <2> HIDE DEF pc
  <2>3. QED BY <1>6, <2>1, <2>2, EligibleStep
<1>8. CASE ~allows(breaker[u], age)
  <2>1. req' = [req EXCEPT ![p] = Ineligible(req[p])]
    BY <1>8 DEF AskBreaker
  <2>2. breaker'[u] = breaker[u] /\ ~allows(breaker[u], Stall)
    BY <1>1, <1>2, <1>4, <1>8, BreakerTypes DEF BalInv, Shared
  <2>3. u \notin Admissible'
    BY <2>2 DEF Admissible
  <2>4. req[p].pc \in {"health", "allow"}
    BY DEF AskBreaker
  <2>5. QED BY <1>6, <2>1, <2>3, <2>4, IneligibleStep
<1>9. QED BY <1>7, <1>8

\* Comparing the load of an eligible upstream with the best so far.
LEMMA LoadActivePreserves ==
    ASSUME BalInv, NEW p \in Picker, LoadActive(p)
    PROVE  BalInv' /\ Going(p)
<1> DEFINE r == req[p]
           better == \A b \in r.best : active[r.idx] < b.key
           best == IF better THEN {[idx |-> r.idx, key |-> active[r.idx]]} ELSE r.best
           t == Compared(r, best)
           x == ScanFrom(t, r.idx + 1)
<1>1. /\ Sound(r) /\ r \in Locals /\ strategy = "LeastConnections" /\ Picking(r)
      /\ r.pc = "load" /\ r.idx \in Upstream /\ r.idx \notin r.exclude /\ r.tickets = 0
      /\ \A b \in r.best : b.idx \notin r.exclude
  <2>1. Sound(r) /\ r \in Locals /\ r.pc = "load"
    BY DEF BalInv, LoadActive
  <2>3. r.idx \in Upstream
    BY <2>1, CandidateIdx
  <2>4. QED BY <2>1, <2>3 DEF Sound, Picking
<1>2. Shared' /\ Observe /\ active' = active
  BY DEF BalInv, Shared, LoadActive, upstreamVars, Observe
<1>3. active[r.idx] \in Int
  BY <1>1 DEF BalInv, Shared
<1>4. best \in Best /\ best # {} /\ \A b \in best : b.idx \notin r.exclude
  <2>1. r.best \in Best
    BY <1>1 DEF Locals
  <2>2. CASE better
    <3> DEFINE b == [idx |-> r.idx, key |-> active[r.idx]]
    <3>1. b \in [idx : Upstream, key : Int] /\ b.idx = r.idx
      BY <1>1, <1>3
    <3>2. best = {b}
      BY <2>2
    <3> HIDE DEF b
    <3>3. QED BY <1>1, <3>1, <3>2 DEF Best
  <2>3. CASE ~better
    BY <1>1, <2>1, <2>3
  <2>4. QED BY <2>2, <2>3
<1>5. \A b \in best : b.key <= active[r.idx] /\ \A c \in r.best : b.key <= c.key
  <2>1. r.best = {} \/ \E c \in [idx : Upstream, key : Int] : r.best = {c}
    BY <1>1 DEF Locals, Best
  <2>2. CASE better
    BY <1>3, <2>2, BestKeys, <1>1
  <2>3. CASE ~better
    BY <1>3, <2>1, <2>3
  <2>4. QED BY <2>2, <2>3
<1> HIDE DEF best
<1>6. /\ t \in Locals /\ t.best = best /\ t.tickets = 0 /\ t.exclude = r.exclude
  BY <1>1, <1>4, UpdatedLocals
<1>7. req' = [req EXCEPT ![p] = x] /\ req'[p] = x
  BY DEF LoadActive, Compared, BalInv, best
<1> HIDE DEF t
<1>8. ASSUME NEW S \in SUBSET Upstream, S \cap r.exclude = {}, NEW P, ScanInv(r, S, P),
             \A u \in S : P[u] \in Int /\ active[u] <= P[u]
      PROVE  /\ Sound(x) /\ ScanInv(x, S, P)
             /\ x.pc \in {"health", "none", "acquire"} /\ x.exclude = r.exclude
  <2>1. \A u \in S : u < r.idx + 1 => Beaten(t, u, P)
    <3> SUFFICES ASSUME NEW u \in S, u < r.idx + 1 PROVE Beaten(t, u, P)
      OBVIOUS
    <3>1. \A b \in best : b.key \in Int
      BY <1>4 DEF Best
    <3>2. CASE u = r.idx
      BY <1>3, <1>4, <1>5, <1>6, <1>8, <3>1, <3>2 DEF Beaten
    <3>3. CASE u # r.idx
      <4>1. u < r.idx /\ u \in Upstream
        BY <1>1, <3>3, NPositive DEF Upstream
      <4>2. Beaten(r, u, P)
        BY <1>1, <1>8, <4>1 DEF ScanInv, Advancing, Scanning, GoneBy
      <4>3. PICK c \in r.best : c.key <= P[u] /\ c.key \in Int
        BY <1>1, <4>2, BestKeys DEF Beaten
      <4>4. \A b \in best : b.key <= P[u]
        BY <1>5, <1>8, <3>1, <4>3
      <4>5. QED BY <1>4, <1>6, <4>4 DEF Beaten
    <3>4. QED BY <3>2, <3>3
  <2>2. r.idx + 1 \in 0 .. N /\ Scanning(t)
    BY <1>1, NPositive DEF Upstream, Scanning
  <2> HIDE DEF r
  <2>3. S \cap t.exclude = {} /\ \A b \in t.best : b.idx \notin t.exclude
    BY <1>4, <1>6, <1>8
  <2>4. QED BY <1>1, <1>6, <2>1, <2>2, <2>3, ScanFromSound
<1> HIDE DEF x
<1>9. Sound(x) /\ x.pc \in {"health", "none", "acquire"} /\ x.exclude = r.exclude
  <2>1. {} \in SUBSET Upstream /\ {} \cap r.exclude = {} /\ ScanInv(r, {}, peak[p])
    BY DEF ScanInv
  <2>2. QED BY <1>8, <2>1
<1>10. Picking(x)
  BY <1>9 DEF Picking
<1>11. ScanInv(x, steady'[p], peak'[p])
  <2>1. /\ steady'[p] \in SUBSET Upstream /\ steady'[p] \cap r.exclude = {}
        /\ ScanInv(r, steady'[p], peak'[p])
        /\ \A u \in Upstream : peak'[p][u] \in Int /\ active'[u] <= peak'[p][u]
    BY <1>1, <1>2, <1>7, <1>10, GoingOn
  <2>2. QED BY <1>2, <1>8, <2>1
<1>12. QED BY <1>1, <1>2, <1>7, <1>9, <1>10, <1>11, GoingStep

\* A handler without a request.
LEMMA IdleSound == Sound(Idle) /\ ~Picking(Idle) /\ ~Holding(Idle)
<1>1. Idle \in Locals
  BY OrderType, NPositive DEF Idle, Locals, PC, Best
<1>2. QED BY <1>1 DEF Idle, Sound, Picking, Holding

\* The locals of a handler that is calling an upstream.
Called(r, u, e) == [r EXCEPT !.pc = "calling", !.idx = u, !.exclude = e]

\* Acquire leaves the handler with the upstream and what its request excludes.
LEMMA CallLocals ==
    ASSUME NEW u \in Upstream, NEW e \in SUBSET Upstream
    PROVE  /\ Called(Idle, u, e) \in Locals /\ Called(Idle, u, e).pc = "calling"
           /\ Called(Idle, u, e).idx = u /\ Called(Idle, u, e).exclude = e
           /\ Called(Idle, u, e).best = {} /\ Called(Idle, u, e).tickets = 0
<1>1. Idle \in Locals /\ Idle.best = {} /\ Idle.tickets = 0
  BY IdleSound DEF Sound, Idle
<1>2. "calling" \in PC /\ u \in 0 .. N
  BY NPositive DEF PC, Upstream
<1>3. ASSUME NEW r \in Locals
      PROVE  /\ Called(r, u, e) \in Locals /\ Called(r, u, e).pc = "calling"
             /\ Called(r, u, e).idx = u /\ Called(r, u, e).exclude = e
             /\ Called(r, u, e).best = r.best /\ Called(r, u, e).tickets = r.tickets
  BY <1>2 DEF Locals, Called
<1>4. QED BY <1>1, <1>3

\* The pick ends with a guard on the candidate.
LEMMA AcquirePreserves ==
    ASSUME BalInv, NEW p \in Picker, Acquire(p)
    PROVE  BalInv'
<1> DEFINE r == req[p]
           x == Called(Idle, r.idx, r.exclude)
<1>1. Sound(r) /\ r \in Locals /\ r.idx \in Upstream /\ r.idx \notin r.exclude
      /\ r.exclude \in SUBSET Upstream
  BY CandidateIdx DEF BalInv, Acquire, Sound, Locals
<1>2. Shared' /\ Observe
  BY <1>1 DEF BalInv, Shared, Acquire, Observe
<1>3. req' = [req EXCEPT ![p] = x]
  BY DEF Acquire, Called
<1>4. x \in Locals /\ x.pc = "calling" /\ x.idx = r.idx /\ x.exclude = r.exclude
      /\ x.best = {} /\ x.tickets = 0
  BY <1>1, CallLocals
<1> HIDE DEF x
<1>5. r.idx # N
  BY <1>1, NPositive DEF Upstream
<1>6. Sound(x) /\ ~Picking(x)
  BY <1>1, <1>4, <1>5 DEF Sound, Picking
<1>7. QED BY <1>2, <1>3, <1>6, HandlerStep

\* A handler is done with its request.
LEMMA IdleStep ==
    ASSUME BalInv, Observe, Shared', NEW p \in Picker, req' = [req EXCEPT ![p] = Idle]
    PROVE  BalInv'
  BY IdleSound, HandlerStep

\* The answer 503.
LEMMA UnavailablePreserves ==
    ASSUME BalInv, NEW p \in Picker, Unavailable(p)
    PROVE  BalInv'
<1>1. Shared' /\ Observe /\ req' = [req EXCEPT ![p] = Idle]
  BY DEF BalInv, Shared, Unavailable, upstreamVars, Observe
<1>2. QED BY <1>1, IdleStep

\* The client disconnects during the call.
LEMMA DisconnectPreserves ==
    ASSUME BalInv, NEW p \in Picker, Disconnect(p)
    PROVE  BalInv'
<1>1. req[p].idx \in Upstream
  BY CandidateIdx DEF BalInv, Disconnect
<1>2. Shared' /\ Observe /\ req' = [req EXCEPT ![p] = Idle]
  BY <1>1 DEF BalInv, Shared, Disconnect, Observe
<1>3. QED BY <1>2, IdleStep

\* The verdict on a call.
LEMMA VerdictPreserves ==
    ASSUME BalInv, NEW p \in Picker,
           Succeed(p) \/ \E age \in Age, retry \in BOOLEAN : Fail(p, age, retry)
    PROVE  BalInv'
<1> DEFINE u == req[p].idx
<1>1. Sound(req[p]) /\ req[p] \in Locals /\ req[p].pc = "calling" /\ u \in Upstream
  BY CandidateIdx DEF BalInv, Succeed, Fail
<1>2. PICK b \in Breaker, pc \in {"retry", "release"} :
        /\ breaker' = [breaker EXCEPT ![u] = b]
        /\ req' = [req EXCEPT ![p] = At(req[p], pc)]
        /\ UNCHANGED <<healthy, active, rr_cursor>> /\ Observe
  <2>1. breaker[u] \in Breaker
    BY <1>1 DEF BalInv, Shared
  <2>2. 0 \in Age
    BY StallAssumption DEF Age
  <2>3. CASE Succeed(p)
    <3>1. record_success(breaker[u]) \in Breaker
      BY <2>1, <2>2, BreakerTypes
    <3>2. /\ breaker' = [breaker EXCEPT ![u] = record_success(breaker[u])]
          /\ req' = [req EXCEPT ![p] = At(req[p], "release")]
          /\ UNCHANGED <<healthy, active, rr_cursor>> /\ Observe
      BY <2>3 DEF Succeed, At
    <3>3. QED BY <3>1, <3>2
  <2>4. ASSUME NEW age \in Age, NEW retry \in BOOLEAN, Fail(p, age, retry)
        PROVE  \E b \in Breaker, pc \in {"retry", "release"} :
                 /\ breaker' = [breaker EXCEPT ![u] = b]
                 /\ req' = [req EXCEPT ![p] = At(req[p], pc)]
                 /\ UNCHANGED <<healthy, active, rr_cursor>> /\ Observe
    <3>1. record_failure_at(breaker[u], age) \in Breaker
      BY <2>1, BreakerTypes
    <3>2. /\ breaker' = [breaker EXCEPT ![u] = record_failure_at(breaker[u], age)]
          /\ req' = [req EXCEPT ![p] = At(req[p], IF retry THEN "retry" ELSE "release")]
          /\ UNCHANGED <<healthy, active, rr_cursor>> /\ Observe
      BY <2>4 DEF Fail, At
    <3>3. QED BY <3>1, <3>2
  <2>5. QED BY <2>3, <2>4
<1> DEFINE x == At(req[p], pc)
<1>3. Shared'
  BY <1>1, <1>2 DEF BalInv, Shared, Observe
<1>4. /\ x \in Locals /\ x.pc = pc /\ x.idx = u /\ x.tickets = req[p].tickets
      /\ x.exclude = req[p].exclude /\ x.best = req[p].best
  <2>1. pc \in PC
    BY DEF PC
  <2>2. QED BY <1>1, <2>1, UpdatedLocals
<1>5. req' = [req EXCEPT ![p] = x]
  BY <1>2
<1> HIDE DEF x
<1>6. Sound(x) /\ ~Picking(x)
  BY <1>1, <1>4 DEF Sound, Picking
<1>7. QED BY <1>2, <1>3, <1>5, <1>6, HandlerStep

\* The guard is dropped: the next pick excludes the failed upstream too.
LEMMA DropGuardPreserves ==
    ASSUME BalInv, NEW p \in Picker, DropGuard(p)
    PROVE  BalInv'
<1>1. /\ req[p].idx \in Upstream /\ ~Picking(req[p])
      /\ req[p].exclude \cup {req[p].idx} \in SUBSET Upstream
  BY CandidateIdx DEF BalInv, DropGuard, Locals, Picking
<1>2. Shared' /\ Observe
  BY <1>1 DEF BalInv, Shared, DropGuard, Observe
<1>3. CASE req[p].pc = "retry"
  <2>1. req' = [req EXCEPT ![p] = pick(req[p].exclude \cup {req[p].idx})]
    BY <1>3 DEF DropGuard, AfterDrop
  <2>2. QED BY <1>1, <1>2, <2>1, PickStep
<1>4. CASE req[p].pc # "retry"
  <2>1. req' = [req EXCEPT ![p] = Idle]
    BY <1>4 DEF DropGuard, AfterDrop
  <2>2. QED BY <1>2, <2>1, IdleStep
<1>5. QED BY <1>3, <1>4

\* The health checker and time.
LEMMA EnvironmentPreserves ==
    ASSUME BalInv, Tick \/ \E u \in Upstream, ok \in BOOLEAN : SetHealthy(u, ok)
    PROVE  BalInv'
<1>1. CASE Tick
  <2>1. 0 \in Age
    BY StallAssumption DEF Age
  <2>2. \A u \in Upstream : elapse(breaker[u]) \in Breaker
    BY <2>1, BreakerTypes DEF BalInv, Shared
  <2>3. Shared' /\ Observe /\ UNCHANGED req
    BY <1>1, <2>2 DEF BalInv, Shared, Tick, Observe
  <2>4. QED BY <2>3, EnvironmentStep
<1>2. ASSUME NEW u \in Upstream, NEW ok \in BOOLEAN, SetHealthy(u, ok)
      PROVE  BalInv'
  <2>1. Shared' /\ Observe /\ UNCHANGED req
    BY <1>2 DEF BalInv, Shared, SetHealthy, Observe
  <2>2. QED BY <2>1, EnvironmentStep
<1>3. QED BY <1>1, <1>2

\* The initial states satisfy the inductive invariant.
LEMMA InitBalInv == Init => BalInv
<1> SUFFICES ASSUME Init PROVE BalInv
  OBVIOUS
<1>1. new \in Breaker
  BY U32Assumption DEF new, Breaker, Closed, Open, HalfOpen, BreakerState
<1>2. Shared
  BY <1>1, StrategyAssumption, USIZEAssumption DEF Init, Shared
<1>3. ASSUME NEW p \in Picker PROVE Sound(req[p]) /\ Watch(p)
  <2>1. req[p] = Idle /\ steady[p] = {}
    BY DEF Init
  <2>2. ScanInv(req[p], steady[p], peak[p])
    BY <2>1 DEF ScanInv
  <2>3. QED BY <2>1, <2>2, IdleSound DEF Watch
<1>4. req \in [Picker -> Locals]
  BY IdleSound DEF Init, Sound
<1>5. QED BY <1>2, <1>3, <1>4 DEF BalInv

\* Every step keeps the inductive invariant.
LEMMA NextBalInv == BalInv /\ [Next]_vars => BalInv'
<1> SUFFICES ASSUME BalInv, [Next]_vars PROVE BalInv'
  OBVIOUS
<1>1. CASE UNCHANGED vars
  <2>1. UNCHANGED <<strategy, healthy, breaker, active, rr_cursor, req, steady, peak>>
    BY <1>1 DEF vars, upstreamVars
  <2>2. Shared'
    BY <2>1 DEF BalInv, Shared
  <2>3. ASSUME NEW p \in Picker PROVE Sound(req[p])' /\ Watch(p)'
    <3>1. Sound(req[p]) /\ Watch(p)
      BY DEF BalInv
    <3>2. Sound(req[p])' /\ ScanInv(req[p], steady[p], peak[p])'
      BY <2>1, <3>1, Unprimed DEF Watch
    <3>3. Admissible' = Admissible
      BY <2>1 DEF Admissible
    <3>4. QED BY <2>1, <3>1, <3>2, <3>3 DEF Watch
  <2>4. QED BY <2>1, <2>2, <2>3 DEF BalInv
<1>2. ASSUME NEW p \in Picker,
             \/ Arrive(p) \/ DrawTicket(p) \/ LoadHealth(p)
             \/ \E age \in Age : AskBreaker(p, age)
             \/ LoadActive(p) \/ Acquire(p) \/ Unavailable(p) \/ Succeed(p)
             \/ \E age \in Age, retry \in BOOLEAN : Fail(p, age, retry)
             \/ DropGuard(p) \/ Disconnect(p)
      PROVE  BalInv'
  BY <1>2, ArrivePreserves, DrawTicketPreserves, LoadHealthPreserves, AskBreakerPreserves,
     LoadActivePreserves, AcquirePreserves, UnavailablePreserves, VerdictPreserves,
     DropGuardPreserves, DisconnectPreserves
<1>3. CASE Tick \/ \E u \in Upstream, ok \in BOOLEAN : SetHealthy(u, ok)
  BY <1>3, EnvironmentPreserves
<1>4. QED BY <1>1, <1>2, <1>3 DEF Next

\* BalInv holds of every reachable state, for any upstreams, weights, breaker
\* settings, strategy and any set of handlers.
THEOREM Inductive == Spec => []BalInv
<1>1. QED BY InitBalInv, NextBalInv, PTL DEF Spec

-----------------------------------------------------------------------------
(***************************************************************************)
(* The picks, calls and retries of the handlers implement UpstreamCalls:   *)
(* a handler is with the upstream it holds a guard on, and has tried those *)
(* it excludes.                                                            *)
(***************************************************************************)
With(r) == IF Holding(r) THEN {r.idx} ELSE {}
CallOf == [p \in Picker |-> With(req[p])]
TriedOf == [p \in Picker |-> req[p].exclude]

Calls == INSTANCE UpstreamCallsProofs WITH
    Caller <- Picker, call <- CallOf, tried <- TriedOf


\* A pick that goes on, the environment and the verdict on a call leave the
\* abstract state as it is.
LEMMA GoingMaps ==
    ASSUME BalInv, NEW p \in Picker, Going(p), UNCHANGED active
    PROVE  UNCHANGED Calls!vars
<1>1. ASSUME NEW q \in Picker
      PROVE  /\ req'[q].exclude = req[q].exclude
             /\ Holding(req'[q]) => req'[q] = req[q] 
             /\ Holding(req[q]) => req'[q] = req[q] 
  <2>1. CASE q = p
    BY <2>1 DEF Going, Picking, Holding
  <2>2. CASE q # p
    BY <2>2 DEF Going
  <2>3. QED BY <2>1, <2>2
<1>2. QED BY <1>1 DEF Calls!vars, CallOf, TriedOf, With

\* The verdict on a call: the guard is still held.
LEMMA VerdictMaps ==
    ASSUME BalInv, NEW p \in Picker,
           Succeed(p) \/ \E age \in Age, retry \in BOOLEAN : Fail(p, age, retry)
    PROVE  UNCHANGED Calls!vars
<1>1. PICK pc \in {"retry", "release"} :
        req' = [req EXCEPT ![p] = At(req[p], pc)] /\ req[p].pc = "calling" /\ UNCHANGED active
  BY DEF Succeed, Fail, At
<1>2. pc \in PC /\ req[p] \in Locals
  BY DEF PC, BalInv
<1>3. At(req[p], pc).pc = pc /\ At(req[p], pc).idx = req[p].idx
      /\ At(req[p], pc).exclude = req[p].exclude
  BY <1>2, UpdatedLocals
<1>4. ASSUME NEW q \in Picker
      PROVE  /\ req'[q].exclude = req[q].exclude /\ req'[q].idx = req[q].idx
             /\ Holding(req'[q]) <=> Holding(req[q])
  <2>1. CASE q = p
    BY <1>1, <1>3, <2>1 DEF Holding, BalInv
  <2>2. CASE q # p
    BY <1>1, <2>2 DEF BalInv
  <2>3. QED BY <2>1, <2>2
<1>5. QED BY <1>1, <1>4 DEF Calls!vars, CallOf, TriedOf, With

\* What a step of one handler does to the abstract state.
LEMMA HandlerMaps ==
    ASSUME BalInv, NEW p \in Picker, NEW x, req' = [req EXCEPT ![p] = x]
    PROVE  /\ CallOf' = [CallOf EXCEPT ![p] = With(x)]
           /\ TriedOf' = [TriedOf EXCEPT ![p] = x.exclude]
           /\ CallOf[p] = With(req[p]) /\ TriedOf[p] = req[p].exclude
           /\ With(x) = With(req[p]) => CallOf' = CallOf
           /\ x.exclude = req[p].exclude => TriedOf' = TriedOf
<1>1. \A q \in Picker : req'[q] = IF q = p THEN x ELSE req[q]
  BY DEF BalInv
<1>2. CallOf' = [q \in Picker |-> IF q = p THEN With(x) ELSE With(req[q])]
  <2>1. CallOf' = [q \in Picker |-> With(req'[q])]
    BY DEF CallOf, With, Holding
  <2>2. \A q \in Picker : With(req'[q]) = IF q = p THEN With(x) ELSE With(req[q])
    BY <1>1
  <2>3. QED BY <2>1, <2>2
<1>3. TriedOf' = [q \in Picker |-> IF q = p THEN x.exclude ELSE req[q].exclude]
  <2>1. TriedOf' = [q \in Picker |-> req'[q].exclude]
    BY DEF TriedOf
  <2>2. \A q \in Picker : req'[q].exclude = IF q = p THEN x.exclude ELSE req[q].exclude
    BY <1>1
  <2>3. QED BY <2>1, <2>2
<1>4. CallOf' = [CallOf EXCEPT ![p] = With(x)] /\ (With(x) = With(req[p]) => CallOf' = CallOf)
  BY <1>2 DEF CallOf
<1>5. /\ TriedOf' = [TriedOf EXCEPT ![p] = x.exclude]
      /\ x.exclude = req[p].exclude => TriedOf' = TriedOf
  BY <1>3 DEF TriedOf
<1>6. QED BY <1>4, <1>5 DEF CallOf, TriedOf

\* Arrive starts a pick with nothing excluded, which changes nothing yet.
LEMMA ArriveMaps ==
    ASSUME BalInv, NEW p \in Picker, Arrive(p)
    PROVE  UNCHANGED Calls!vars
<1>1. req' = [req EXCEPT ![p] = pick({})] /\ UNCHANGED active
  BY DEF Arrive, upstreamVars
<1>2. req[p] = Idle
  BY DEF BalInv, Sound, Arrive
<1>3. pick({}).exclude = {} /\ ~Holding(pick({}))
  <2>1. strategy \in {"RoundRobin", "LeastConnections"}
    BY DEF BalInv, Shared
  <2>2. {} \in SUBSET Upstream /\ {} \cap {} = {}
    OBVIOUS
  <2>3. pick({}).exclude = {} /\ pick({}).pc \in {"ticket", "health", "none", "acquire"}
    BY <2>1, <2>2, PickSound, Zenon
  <2>4. QED BY <2>3 DEF Holding
<1>4. With(req[p]) = {} /\ req[p].exclude = {} /\ With(pick({})) = {}
  BY <1>2, <1>3, IdleSound DEF With, Idle
<1>5. CallOf' = CallOf /\ TriedOf' = TriedOf
  <2> DEFINE x == pick({})
  <2>1. req' = [req EXCEPT ![p] = x] /\ With(x) = With(req[p]) /\ x.exclude = req[p].exclude
    BY <1>1, <1>3, <1>4
  <2> HIDE DEF x
  <2>2. QED BY <2>1, HandlerMaps
<1>6. QED BY <1>1, <1>5 DEF Calls!vars

\* Acquire takes an upstream.
LEMMA AcquireMaps ==
    ASSUME BalInv, NEW p \in Picker, Acquire(p)
    PROVE  Calls!Next
<1> DEFINE u == req[p].idx
           x == Called(Idle, u, req[p].exclude)
<1>1. /\ u \in Upstream /\ u \notin req[p].exclude /\ req[p].exclude \in SUBSET Upstream
      /\ ~Holding(req[p])
  BY CandidateIdx DEF BalInv, Acquire, Sound, Locals, Holding
<1>2. req' = [req EXCEPT ![p] = x] /\ active' = [active EXCEPT ![u] = @ + 1]
  BY DEF Acquire, Called
<1>3. With(x) = {u} /\ x.exclude = req[p].exclude /\ With(req[p]) = {}
  BY <1>1, CallLocals DEF With, Holding
<1> HIDE DEF x
<1>4. /\ CallOf' = [CallOf EXCEPT ![p] = {u}] /\ CallOf[p] = {}
      /\ TriedOf' = TriedOf /\ TriedOf[p] = req[p].exclude
  <2>1. /\ CallOf' = [CallOf EXCEPT ![p] = With(x)] /\ CallOf[p] = With(req[p])
        /\ TriedOf[p] = req[p].exclude /\ TriedOf' = TriedOf
    BY <1>2, <1>3, HandlerMaps
  <2>2. QED BY <1>3, <2>1
<1>5. Calls!Take(p, u)
  BY <1>1, <1>2, <1>4 DEF Calls!Take
<1>6. QED BY <1>1, <1>5 DEF Calls!Next

\* Dropping the guard fails the upstream or releases it, and so does the client's
\* disconnection.
LEMMA DropMaps ==
    ASSUME BalInv, NEW p \in Picker, DropGuard(p) \/ Disconnect(p)
    PROVE  Calls!Next
<1> DEFINE u == req[p].idx
           e == req[p].exclude
<1>1. u \in Upstream /\ e \in SUBSET Upstream /\ With(req[p]) = {u}
  BY CandidateIdx DEF BalInv, DropGuard, Disconnect, Locals, Holding, With
<1>2. active' = [active EXCEPT ![u] = @ - 1]
  BY DEF DropGuard, Disconnect
<1>3. CASE DropGuard(p) /\ req[p].pc = "retry"
  <2>1. req' = [req EXCEPT ![p] = pick(e \cup {u})]
    BY <1>3 DEF DropGuard, AfterDrop
  <2>2. strategy \in {"RoundRobin", "LeastConnections"} /\ e \cup {u} \in SUBSET Upstream
    BY <1>1 DEF BalInv, Shared
  <2>3. {} \in SUBSET Upstream /\ {} \cap (e \cup {u}) = {}
    OBVIOUS
  <2>4. /\ pick(e \cup {u}).exclude = e \cup {u}
        /\ pick(e \cup {u}).pc \in {"ticket", "health", "none", "acquire"}
    BY <2>2, <2>3, PickSound, Zenon
  <2>5. With(pick(e \cup {u})) = {}
    BY <2>4 DEF With, Holding
  <2>6. /\ CallOf' = [CallOf EXCEPT ![p] = {}] /\ CallOf[p] = {u}
        /\ TriedOf' = [TriedOf EXCEPT ![p] = e \cup {u}] /\ TriedOf[p] = e
    <3> DEFINE x == pick(e \cup {u})
    <3>1. req' = [req EXCEPT ![p] = x] /\ With(x) = {} /\ x.exclude = e \cup {u}
      BY <2>1, <2>4, <2>5
    <3> HIDE DEF x
    <3>2. /\ CallOf' = [CallOf EXCEPT ![p] = With(x)] /\ CallOf[p] = With(req[p])
          /\ TriedOf' = [TriedOf EXCEPT ![p] = x.exclude] /\ TriedOf[p] = req[p].exclude
      BY <3>1, HandlerMaps
    <3>3. QED BY <1>1, <3>1, <3>2
  <2>7. TriedOf' = [TriedOf EXCEPT ![p] = @ \cup {u}]
    BY <2>6
  <2>8. Calls!Fail(p, u)
    BY <1>2, <2>6, <2>7 DEF Calls!Fail
  <2>9. QED BY <1>1, <2>8 DEF Calls!Next
<1>4. CASE ~(DropGuard(p) /\ req[p].pc = "retry")
  <2>1. req' = [req EXCEPT ![p] = Idle]
    BY <1>4 DEF DropGuard, Disconnect, AfterDrop
  <2>2. With(Idle) = {} /\ Idle.exclude = {}
    BY IdleSound DEF With, Idle
  <2>3. /\ CallOf' = [CallOf EXCEPT ![p] = {}] /\ CallOf[p] = {u}
        /\ TriedOf' = [TriedOf EXCEPT ![p] = {}]
    <3>1. /\ CallOf' = [CallOf EXCEPT ![p] = With(Idle)] /\ CallOf[p] = With(req[p])
          /\ TriedOf' = [TriedOf EXCEPT ![p] = Idle.exclude]
      BY <2>1, HandlerMaps
    <3>2. QED BY <1>1, <2>2, <3>1
  <2>4. Calls!Release(p, u)
    BY <1>2, <2>3 DEF Calls!Release
  <2>5. QED BY <1>1, <2>4 DEF Calls!Next
<1>5. QED BY <1>3, <1>4

\* The answer 503 gives the request up.
LEMMA UnavailableMaps ==
    ASSUME BalInv, NEW p \in Picker, Unavailable(p)
    PROVE  Calls!Next
<1>1. req' = [req EXCEPT ![p] = Idle] /\ UNCHANGED active /\ ~Holding(req[p])
  BY DEF Unavailable, upstreamVars, Holding
<1>2. With(Idle) = {} /\ Idle.exclude = {} /\ With(req[p]) = {}
  BY <1>1, IdleSound DEF With, Idle
<1>3. CallOf' = CallOf /\ CallOf[p] = {} /\ TriedOf' = [TriedOf EXCEPT ![p] = {}]
  <2>1. /\ CallOf' = CallOf /\ CallOf[p] = With(req[p])
        /\ TriedOf' = [TriedOf EXCEPT ![p] = Idle.exclude]
    BY <1>1, <1>2, HandlerMaps
  <2>2. QED BY <1>2, <2>1
<1>4. Calls!GiveUp(p)
  BY <1>1, <1>3 DEF Calls!GiveUp
<1>5. QED BY <1>4 DEF Calls!Next

\* Every step of the balancer is a step of UpstreamCalls or leaves it alone.
LEMMA NextMaps == BalInv /\ [Next]_vars => [Calls!Next]_(Calls!vars)
<1> SUFFICES ASSUME BalInv, [Next]_vars PROVE [Calls!Next]_(Calls!vars)
  OBVIOUS
<1>1. CASE UNCHANGED <<req, active>>
  <2>1. UNCHANGED <<CallOf, TriedOf>>
    BY <1>1 DEF CallOf, TriedOf, With, Holding
  <2>2. QED BY <1>1, <2>1 DEF Calls!vars
<1>2. CASE UNCHANGED vars \/ Tick \/ \E u \in Upstream, ok \in BOOLEAN : SetHealthy(u, ok)
  BY <1>1, <1>2 DEF vars, upstreamVars, Tick, SetHealthy
<1>3. ASSUME NEW p \in Picker,
             \/ DrawTicket(p) \/ LoadHealth(p) \/ LoadActive(p)
             \/ \E age \in Age : AskBreaker(p, age)
      PROVE  UNCHANGED Calls!vars
  <2>1. Going(p)
    BY <1>3, DrawTicketPreserves, LoadHealthPreserves, LoadActivePreserves, AskBreakerPreserves
  <2>2. UNCHANGED active
    BY <1>3 DEF DrawTicket, LoadHealth, LoadActive, AskBreaker, upstreamVars
  <2>3. QED BY <2>1, <2>2, GoingMaps
<1>4. ASSUME NEW p \in Picker,
             \/ Arrive(p) \/ Acquire(p) \/ Unavailable(p) \/ Succeed(p)
             \/ \E age \in Age, retry \in BOOLEAN : Fail(p, age, retry)
             \/ DropGuard(p) \/ Disconnect(p)
      PROVE  [Calls!Next]_(Calls!vars)
  BY <1>4, ArriveMaps, AcquireMaps, UnavailableMaps, VerdictMaps, DropMaps
<1>5. QED BY <1>2, <1>3, <1>4 DEF Next

\* Initially nobody calls anybody.
LEMMA InitMaps == Init => Calls!Init
<1> SUFFICES ASSUME Init PROVE Calls!Init
  OBVIOUS
<1>1. \A p \in Picker : With(req[p]) = {} /\ req[p].exclude = {}
  BY IdleSound DEF Init, With, Idle
<1>2. QED BY <1>1 DEF Init, Calls!Init, CallOf, TriedOf

\* For every configuration the balancer implements UpstreamCalls: picks take an
\* upstream that has not failed the request, and guards are given back on a retry,
\* an answer and a disconnection alike (ActiveGuard).
THEOREM PicksImplementCalls == Spec => Calls!Spec
<1>1. QED BY InitMaps, NextMaps, Inductive, PTL DEF Spec, Calls!Spec

\* What UpstreamCalls keeps.
CallsInv == Calls!TypeOK /\ Calls!LoadExact /\ Calls!NeverAgain

\* The instance counts as this module does.
LEMMA SameCardinality == \A S : Cardinality(S) = Calls!Cardinality(S)
  BY DEF Cardinality, Calls!Cardinality

\* What UpstreamCalls keeps, the balancer keeps.
LEMMA CallsPreserved ==
    ASSUME IsFiniteSet(Picker), CallsInv, [Calls!Next]_(Calls!vars)
    PROVE  CallsInv'
<1>1. Calls!IsFiniteSet(Picker)
  BY DEF IsFiniteSet, Calls!IsFiniteSet
<1>2. QED BY <1>1, Calls!NextPreserves DEF CallsInv

\* What UpstreamCalls starts with, the balancer starts with.
LEMMA CallsInitially == ASSUME IsFiniteSet(Picker), Calls!Init PROVE CallsInv
<1>1. Calls!TypeOK /\ Calls!NeverAgain
  BY DEF Calls!Init, Calls!TypeOK, Calls!NeverAgain
<1>2. ASSUME NEW u \in Upstream PROVE {p \in Picker : CallOf[p] = {u}} = {} /\ active[u] = 0
  BY DEF Calls!Init
<1>3. Calls!LoadExact
  BY <1>2, FS_EmptySet, SameCardinality DEF Calls!LoadExact
<1>4. QED BY <1>1, <1>3 DEF CallsInv

\* The counts of the abstract state are those of the guards.
LEMMA ActiveFromCalls ==
    ASSUME BalInv, CallsInv
    PROVE  ActiveExact
<1> SUFFICES ASSUME NEW u \in Upstream
             PROVE  active[u] = Cardinality({p \in Picker : Holding(req[p]) /\ req[p].idx = u})
  BY DEF ActiveExact
<1>1. {p \in Picker : CallOf[p] = {u}} = {p \in Picker : Holding(req[p]) /\ req[p].idx = u}
  BY DEF CallOf, With
<1>2. active[u] = Calls!Cardinality({p \in Picker : CallOf[p] = {u}})
  BY DEF CallsInv, Calls!LoadExact
<1>3. QED BY <1>1, <1>2, SameCardinality

\* The types follow from the invariant and the exact counts.
LEMMA TypesFromInv ==
    ASSUME IsFiniteSet(Picker), BalInv, ActiveExact
    PROVE  TypeOK
<1>1. active \in [Upstream -> 0 .. Cardinality(Picker)]
  <2>1. ASSUME NEW u \in Upstream PROVE active[u] \in 0 .. Cardinality(Picker)
    <3> DEFINE H == {p \in Picker : Holding(req[p]) /\ req[p].idx = u}
    <3>1. H \subseteq Picker /\ active[u] = Cardinality(H)
      BY DEF ActiveExact
    <3> HIDE DEF H
    <3>2. QED BY <3>1, FS_Subset, FS_CardinalityType
  <2>2. QED BY <2>1 DEF BalInv, Shared
<1>2. ASSUME NEW p \in Picker
      PROVE  /\ Picking(req[p]) \/ Holding(req[p]) \/ req[p] = Idle
             /\ req[p].idx = N <=> req[p].pc \in {"idle", "ticket", "none"}
             /\ req[p].exclude \subseteq Upstream
             /\ req[p].tickets \in 0 .. (n + 1)
  BY DEF BalInv, Sound, Locals, PC, Picking, Holding
<1>3. QED BY <1>1, <1>2 DEF TypeOK, BalInv, Shared

\* For any finite set of handlers, the active count of an upstream is the number
\* of guards held on it (ActiveGuard::new and drop).
THEOREM CountsAreExact ==
    ASSUME IsFiniteSet(Picker)
    PROVE  Spec => []ActiveExact
<1>1. Init => CallsInv
  BY InitMaps, CallsInitially
<1>2. CallsInv /\ [Calls!Next]_(Calls!vars) => CallsInv'
  BY CallsPreserved
<1>3. BalInv /\ CallsInv => ActiveExact
  BY ActiveFromCalls
<1>4. QED BY <1>1, <1>2, <1>3, NextMaps, Inductive, PTL DEF Spec

\* The types, and no active count ever below zero or above the number of handlers.
THEOREM BalancerTypes ==
    ASSUME IsFiniteSet(Picker)
    PROVE  Spec => []TypeOK
<1>1. BalInv /\ ActiveExact => TypeOK
  BY TypesFromInv
<1>2. QED BY <1>1, Inductive, CountsAreExact, PTL

\* For every configuration, no pick of a retry looks at or takes an upstream that
\* failed the request (the exclude list of Balancer::pick).
THEOREM RetriesGoElsewhere == Spec => []RetriesAvoidFailed
<1>1. BalInv => RetriesAvoidFailed
  BY DEF BalInv, Sound, RetriesAvoidFailed
<1>2. QED BY <1>1, Inductive, PTL

\* For every configuration and every interleaving of picks, verdicts, probes and
\* time: pick returns None only when no upstream outside exclude was eligible
\* throughout the pick (pick_round_robin with first_eligible, pick_least_conn).
THEOREM UnavailableIsJustified == Spec => []NoSpuriousUnavailable
<1>1. BalInv => NoSpuriousUnavailable
  BY DEF BalInv, Watch, ScanInv, Advancing, NoSpuriousUnavailable
<1>2. QED BY <1>1, Inductive, PTL

\* For every configuration, least connections takes an upstream whose load, when
\* read, was at most the highest load of each upstream eligible throughout.
THEOREM PicksLeastLoaded == Spec => []LeastLoaded
<1>1. BalInv => LeastLoaded
  <2> SUFFICES ASSUME BalInv, NEW p \in Picker, strategy = "LeastConnections",
                      req[p].pc = "acquire", NEW u \in steady[p], NEW b \in req[p].best
               PROVE  b.key <= peak[p][u]
    BY DEF LeastLoaded
  <2>1. u \in Upstream /\ ScanInv(req[p], steady[p], peak[p])
    BY DEF BalInv, Watch, Admissible
  <2>2. Beaten(req[p], u, peak[p])
    BY <2>1 DEF ScanInv, Advancing, GoneBy
  <2>3. QED BY <2>2 DEF Beaten
<1>2. QED BY <1>1, Inductive, PTL
=============================================================================
