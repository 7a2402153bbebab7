---------------------------- MODULE RouterProofs ----------------------------
(***************************************************************************)
(* What routing guarantees for every configuration file and every request. *)
(* The inductive invariant RouteInv says that a serving gateway runs on a  *)
(* validated configuration and the runtimes built from it, and that after  *)
(* every iteration of the loop of match_route the best route is the most   *)
(* specific one among the matching routes looked at so far.                *)
(***************************************************************************)
EXTENDS Router, SequenceTheorems, WellFoundedInduction, TLAPS

\* Every non-empty set of naturals has a least element.
LEMMA LeastElement ==
    ASSUME NEW T, T \subseteq Nat, T # {}
    PROVE  \E m \in T : \A k \in T : m <= k
<1>1. IsWellFoundedOn(OpToRel(<, Nat), Nat)
  BY NatLessThanWellFounded
<1>2. PICK m \in T : \A k \in T : <<k, m>> \notin OpToRel(<, Nat)
  BY <1>1, WFMin
<1>3. \A k \in T : ~(k < m)
  BY <1>2 DEF OpToRel
<1>4. QED BY <1>3

\* A set of numbers up to a bound has a greatest element.
LEMMA GreatestElement ==
    ASSUME NEW m \in Nat, NEW T \in SUBSET (1 .. m), T # {}
    PROVE  Max(T) \in T /\ \A k \in T : k <= Max(T)
<1> DEFINE U == {d \in 0 .. m : m - d \in T}
<1>1. ASSUME NEW j \in T PROVE m - j \in U
  <2>1. j \in 1 .. m /\ m - (m - j) = j /\ m - j \in 0 .. m
    OBVIOUS
  <2>2. QED BY <2>1
<1>2. U \subseteq Nat /\ U # {}
  <2>1. PICK j \in T : TRUE
    OBVIOUS
  <2>2. m - j \in U
    BY <1>1
  <2>3. U \subseteq Nat
    OBVIOUS
  <2> HIDE DEF U
  <2>4. QED BY <2>2, <2>3
<1>3. PICK d \in U : \A e \in U : d <= e
  BY <1>2, LeastElement
<1>4. m - d \in T /\ \A j \in T : j <= m - d
  <2>1. m - d \in T /\ d \in 0 .. m
    BY <1>3
  <2>2. ASSUME NEW j \in T PROVE j <= m - d
    <3>1. d <= m - j /\ j \in 1 .. m
      BY <1>1, <1>3
    <3>2. QED BY <2>1, <3>1
  <2>3. QED BY <2>1, <2>2
<1>5. \E x \in T : \A y \in T : x >= y
  BY <1>4
<1>6. Max(T) \in T /\ \A y \in T : Max(T) >= y
  BY <1>5 DEF Max
<1>7. QED BY <1>6

-----------------------------------------------------------------------------
\* A sequence is a prefix of another when they agree on its indices.
LEMMA PrefixIndices ==
    ASSUME NEW s \in Seq(Char), NEW t \in Seq(Char)
    PROVE  IsPrefix(s, t) <=> Len(s) <= Len(t) /\ \A k \in 1 .. Len(s) : s[k] = t[k]
<1>1. SubSeq(s, 1, Len(s)) = s
  OBVIOUS
<1>2. CASE Len(s) <= Len(t)
  <2> DEFINE u == SubSeq(t, 1, Len(s))
  <2>1. u \in Seq(Char) /\ Len(u) = Len(s) /\ \A k \in 1 .. Len(s) : u[k] = t[k]
    BY <1>2
  <2> HIDE DEF u
  <2>2. s = u <=> \A k \in 1 .. Len(s) : s[k] = u[k]
    BY <2>1, SeqEqual
  <2>3. QED BY <1>1, <1>2, <2>1, <2>2 DEF IsPrefix, u
<1>3. CASE ~(Len(s) <= Len(t))
  BY <1>3 DEF IsPrefix
<1>4. QED BY <1>2, <1>3

\* What trimming the slashes off a prefix leaves.
LEMMA Trimmed ==
    ASSUME NEW prefix \in Seq(Char)
    PROVE  /\ trim_end(prefix) \in Seq(Char)
           /\ Len(trim_end(prefix)) <= Len(prefix)
           /\ \A k \in 1 .. Len(trim_end(prefix)) : trim_end(prefix)[k] = prefix[k]
           /\ trim_end(prefix) # <<>> => prefix[Len(trim_end(prefix))] # "/"
<1> DEFINE I == {k \in 1 .. Len(prefix) : prefix[k] # "/"}
           m == IF I # {} THEN Max(I) ELSE 0
<1>1. trim_end(prefix) = SubSeq(prefix, 1, m)
  BY DEF trim_end, SelectLastInSeq
<1>2. m \in 0 .. Len(prefix) /\ (m # 0 => prefix[m] # "/")
  <2>1. CASE I = {}
    BY <2>1
  <2>2. CASE I # {}
    <3>1. Max(I) \in I
      <4>1. Len(prefix) \in Nat /\ I \in SUBSET (1 .. Len(prefix))
        OBVIOUS
      <4> HIDE DEF I
      <4>2. QED BY <2>2, <4>1, GreatestElement
    <3>2. QED BY <2>2, <3>1
  <2>3. QED BY <2>1, <2>2
<1> HIDE DEF m
<1>3. SubSeq(prefix, 1, m) \in Seq(Char) /\ Len(SubSeq(prefix, 1, m)) = m
      /\ \A k \in 1 .. m : SubSeq(prefix, 1, m)[k] = prefix[k]
  BY <1>2
<1>4. QED BY <1>1, <1>2, <1>3

\* path_matches decides whether the path lies below the prefix, for all of them.
LEMMA MatchesBelow ==
    ASSUME NEW prefix \in Seq(Char), NEW path \in Seq(Char)
    PROVE  path_matches(path, prefix) <=> prefix = <<"/">> \/ Below(path, prefix)
<1> DEFINE t == trim_end(prefix)
           t1 == Append(t, "/")
           p1 == Append(path, "/")
<1>1. t \in Seq(Char)
  BY Trimmed
<1>2. path_matches(path, prefix) <=>
        \/ prefix = <<"/">>
        \/ path = t
        \/ IsPrefix(t, path) /\ Len(path) > Len(t) /\ path[Len(t) + 1] = "/"
  BY DEF path_matches
<1>3. Below(path, prefix) <=> IsPrefix(t1, p1)
  BY DEF Below
<1> HIDE DEF t
<1>4. /\ t1 \in Seq(Char) /\ Len(t1) = Len(t) + 1 /\ t1[Len(t) + 1] = "/"
      /\ \A k \in 1 .. Len(t) : t1[k] = t[k]
  BY <1>1, CharAssumption, AppendProperties
<1>5. /\ p1 \in Seq(Char) /\ Len(p1) = Len(path) + 1 /\ p1[Len(path) + 1] = "/"
      /\ \A k \in 1 .. Len(path) : p1[k] = path[k]
  BY CharAssumption, AppendProperties
<1> HIDE DEF t1, p1
<1>6. IsPrefix(t1, p1) <=> Len(t) <= Len(path) /\ \A k \in 1 .. (Len(t) + 1) : t1[k] = p1[k]
  BY <1>1, <1>4, <1>5, PrefixIndices
<1>7. IsPrefix(t, path) <=> Len(t) <= Len(path) /\ \A k \in 1 .. Len(t) : t[k] = path[k]
  BY <1>1, PrefixIndices
<1>8. ASSUME IsPrefix(t1, p1)
      PROVE  path = t \/ (IsPrefix(t, path) /\ Len(path) > Len(t) /\ path[Len(t) + 1] = "/")
  <2>1. Len(t) \in Nat /\ Len(path) \in Nat /\ Len(t) <= Len(path)
    BY <1>1, <1>6, <1>8
  <2>2. \A k \in 1 .. Len(t) : t[k] = path[k]
    BY <1>4, <1>5, <1>6, <1>8, <2>1
  <2>3. CASE Len(t) = Len(path)
    BY <1>1, <2>2, <2>3, SeqEqual
  <2>4. CASE Len(t) < Len(path)
    <3>1. Len(t) + 1 \in 1 .. Len(path)
      BY <2>1, <2>4
    <3>2. p1[Len(t) + 1] = path[Len(t) + 1] /\ t1[Len(t) + 1] = p1[Len(t) + 1]
      BY <1>5, <1>6, <1>8, <3>1
    <3>3. QED BY <1>4, <1>7, <2>1, <2>2, <2>4, <3>2
  <2>5. QED BY <2>1, <2>3, <2>4
<1>9. ASSUME path = t \/ (IsPrefix(t, path) /\ Len(path) > Len(t) /\ path[Len(t) + 1] = "/")
      PROVE  IsPrefix(t1, p1)
  <2>1. Len(t) <= Len(path) /\ Len(t) \in Nat /\ \A k \in 1 .. Len(t) : t[k] = path[k]
    BY <1>1, <1>7, <1>9
  <2>2. p1[Len(t) + 1] = "/"
    BY <1>5, <1>9, <2>1
  <2>3. QED BY <1>4, <1>5, <1>6, <2>1, <2>2
<1>10. QED BY <1>2, <1>3, <1>8, <1>9

\* A path that matches and is stripped of the prefix is absolute and gives the
\* path back with the prefix in front, up to a closing slash.
LEMMA StripRestores ==
    ASSUME NEW route, route.matches.path_prefix \in Seq(Char), NEW path \in Seq(Char),
           path # <<>>, path[1] = "/", path_matches(path, route.matches.path_prefix)
    PROVE  LET prefix == IF route.strip_path_prefix THEN trim_end(route.matches.path_prefix)
                         ELSE <<>>
               out == forward_path(path, route)
           IN  /\ out # <<>> /\ out[1] = "/"
               /\ prefix \o out \in {path, Append(path, "/")}
<1> DEFINE P == route.matches.path_prefix
           t == trim_end(P)
           out == forward_path(path, route)
<1>1. /\ t \in Seq(Char)
      /\ \A k \in 1 .. Len(t) : t[k] = P[k]
      /\ t # <<>> => P[Len(t)] # "/" /\ Len(t) <= Len(P)
  BY Trimmed
<1>2. <<>> \o path = path
  OBVIOUS
<1>3. CASE ~route.strip_path_prefix
  <2>1. out = path
    BY <1>3 DEF forward_path
  <2>2. QED BY <1>2, <1>3, <2>1
<1>4. CASE route.strip_path_prefix /\ P = <<"/">>
  <2>1. out = path
    BY <1>4 DEF forward_path
  <2>2. t = <<>>
    <3>1. Len(P) = 1 /\ P[1] = "/"
      BY <1>4
    <3>2. ASSUME t # <<>> PROVE FALSE
      BY <1>1, <3>1, <3>2
    <3>3. QED BY <3>2
  <2>3. QED BY <1>2, <1>4, <2>1, <2>2
<1>5. CASE route.strip_path_prefix /\ P # <<"/">> /\ path = t
  <2>1. out = <<"/">>
    BY <1>5 DEF forward_path
  <2>2. t \o <<"/">> = Append(path, "/")
    BY <1>1, <1>5, CharAssumption, AppendIsConcat
  <2>3. QED BY <1>5, <2>1, <2>2
<1>6. CASE route.strip_path_prefix /\ P # <<"/">> /\ path # t
  <2>1. IsPrefix(t, path) /\ Len(path) > Len(t) /\ path[Len(t) + 1] = "/"
    BY <1>6 DEF path_matches
  <2> DEFINE r == SubSeq(path, Len(t) + 1, Len(path))
  <2>2. out = r
    BY <1>6, <2>1 DEF forward_path
  <2> HIDE DEF t
  <2>3. Len(t) \in Nat /\ Len(path) \in Nat /\ \A k \in 1 .. Len(t) : t[k] = path[k]
    BY <1>1, <2>1, PrefixIndices
  <2>4. /\ r \in Seq(Char) /\ Len(r) = Len(path) - Len(t)
        /\ \A k \in 1 .. (Len(path) - Len(t)) : r[k] = path[Len(t) + k]
    BY <2>1, <2>3
  <2> HIDE DEF r
  <2>5. r # <<>> /\ r[1] = "/"
    BY <2>1, <2>3, <2>4
  <2>6. /\ t \o r \in Seq(Char) /\ Len(t \o r) = Len(path)
        /\ \A k \in 1 .. Len(path) : (t \o r)[k] = path[k]
    BY <1>1, <2>1, <2>3, <2>4
  <2>7. t \o r = path
    BY <2>6, SeqEqual
  <2>8. QED BY <1>6, <2>2, <2>5, <2>7 DEF t
<1>7. QED BY <1>3, <1>4, <1>5, <1>6

-----------------------------------------------------------------------------
\* With unique names, the runtime of a name is the route of that name.
LEMMA BuildFinds ==
    ASSUME NEW routes \in Config, validate(routes), NEW j \in DOMAIN routes
    PROVE  /\ routes[j].name \in DOMAIN build(routes)
           /\ build(routes)[routes[j].name] = routes[j]
<1> DEFINE name == routes[j].name
           I == {k \in 1 .. Len(routes) : routes[k].name = name}
<1>1. routes \in Seq(ToSet(routes)) /\ Len(routes) \in Nat /\ DOMAIN routes = 1 .. Len(routes)
  BY ConfigAssumption
<1>2. name \in {r.name : r \in ToSet(routes)}
  BY DEF ToSet
<1>3. I = {j}
  BY <1>1 DEF validate
<1>4. Max({j}) = j
  BY <1>1 DEF Max
<1>5. build(routes)[name] = routes[IF I # {} THEN Max(I) ELSE 0]
  BY <1>2 DEF build, SelectLastInSeq
<1>6. QED BY <1>2, <1>3, <1>4, <1>5 DEF build

-----------------------------------------------------------------------------
\* The matching routes the loop has looked at.
Scanned == Matching \cap 1 .. (i - 1)

\* The best route so far: the most specific of the routes looked at, the first
\* of those alike, with the length of its prefix.
BestSoFar ==
    \/ best = {} /\ best_len = 0 /\ Scanned = {}
    \/ \E b \in Scanned :
         /\ best = {b} /\ best_len = Len(config[b].matches.path_prefix)
         /\ \A j \in Scanned : ~Beats(j, b) /\ (Beats(b, j) \/ b <= j)

ServingInv ==
    IF phase = "serving"
    THEN config \in Config /\ validate(config) /\ runtimes = build(config)
    ELSE pc = "idle"

MatchInv ==
    /\ pc \in {"idle", "matching", "matched"}
    /\ pc = "idle" => i = 1 /\ best = {} /\ best_len = 0
    /\ pc # "idle" => request.path \in Path /\ i \in 1 .. (Len(config) + 1) /\ BestSoFar

DispatchInv ==
    pc = "matched" =>
        /\ i = Len(config) + 1
        /\ \A b \in best : config[b].name \in DOMAIN runtimes =>
                              forwarded = forward_path(request.path, runtimes[config[b].name])

RouteInv == ServingInv /\ MatchInv /\ DispatchInv

\* Beating in plain terms, and the facts that make it an order with ties.
LEMMA BeatsIsOrder ==
    ASSUME config \in Config,
           NEW j \in DOMAIN config, NEW k \in DOMAIN config, NEW l \in DOMAIN config
    PROVE  /\ Beats(j, k) <=>
                \/ Len(config[j].matches.path_prefix) > Len(config[k].matches.path_prefix)
                \/ /\ Len(config[j].matches.path_prefix) = Len(config[k].matches.path_prefix)
                   /\ config[j].matches.host # {} /\ config[k].matches.host = {}
           /\ ~Beats(j, j)
           /\ Beats(j, k) => ~Beats(k, j)
           /\ Beats(j, k) /\ ~Beats(l, k) => Beats(j, l)
<1>1. /\ Len(config[j].matches.path_prefix) \in Nat
      /\ Len(config[k].matches.path_prefix) \in Nat
      /\ Len(config[l].matches.path_prefix) \in Nat
  BY ConfigAssumption DEF ToSet
<1>2. ASSUME NEW x
      PROVE  /\ Specificity(x).len = Len(config[x].matches.path_prefix)
             /\ Specificity(x).host = (config[x].matches.host # {})
  BY DEF Specificity
<1>3. ASSUME NEW x, NEW y
      PROVE  Beats(x, y) <=>
                \/ Len(config[x].matches.path_prefix) > Len(config[y].matches.path_prefix)
                \/ /\ Len(config[x].matches.path_prefix) = Len(config[y].matches.path_prefix)
                   /\ config[x].matches.host # {} /\ config[y].matches.host = {}
  <2>1. /\ Specificity(x).len = Len(config[x].matches.path_prefix)
        /\ Specificity(y).len = Len(config[y].matches.path_prefix)
        /\ Specificity(x).host = (config[x].matches.host # {})
        /\ Specificity(y).host = (config[y].matches.host # {})
    BY <1>2
  <2>2. QED BY <2>1, Zenon DEF Beats
<1> DEFINE L(x) == Len(config[x].matches.path_prefix)
           H(x) == config[x].matches.host # {}
           B(x, y) == L(x) > L(y) \/ (L(x) = L(y) /\ H(x) /\ ~H(y))
<1>4. /\ Beats(j, k) <=> B(j, k)
      /\ Beats(j, j) <=> B(j, j)
      /\ Beats(k, j) <=> B(k, j)
      /\ Beats(l, k) <=> B(l, k)
      /\ Beats(j, l) <=> B(j, l)
  BY <1>3, Zenon
<1>5. L(j) \in Nat /\ L(k) \in Nat /\ L(l) \in Nat
  BY <1>1
<1>6. ~B(j, j) /\ (B(j, k) => ~B(k, j)) /\ (B(j, k) /\ ~B(l, k) => B(j, l))
  <2> HIDE DEF L, H
  <2>1. QED BY <1>5
<1>7. QED BY <1>3, <1>4, <1>6, Zenon

\* An iteration of the loop keeps the best route the most specific so far.
LEMMA ConsiderPreserves ==
    ASSUME config \in Config, request.path \in Path, i \in 1 .. (Len(config) + 1),
           BestSoFar, Consider
    PROVE  i' \in 1 .. (Len(config) + 1) /\ BestSoFar'
<1> DEFINE Len_(j) == Len(config[j].matches.path_prefix)
           Fits == /\ host_matches(request.host, config[i])
                   /\ path_matches(request.path, config[i].matches.path_prefix)
           S == Matching \cap 1 .. (i - 1)
           S1 == Matching \cap 1 .. i
<1>1. /\ i <= Len(config) /\ i' = i + 1 /\ config' = config /\ request' = request
      /\ Len(config) \in Nat /\ DOMAIN config = 1 .. Len(config) /\ i \in DOMAIN config
  BY ConfigAssumption DEF Consider
<1>2. IF Fits /\ (best = {} \/ more_specific(config[i]))
      THEN best' = {i} /\ best_len' = Len_(i)
      ELSE best' = best /\ best_len' = best_len
  BY DEF Consider
<1>3. Fits <=> i \in Matching
  <2>1. config[i].matches.path_prefix \in Seq(Char) /\ request.path \in Seq(Char)
    BY <1>1, ConfigAssumption, RequestAssumption DEF ToSet
  <2>2. path_matches(request.path, config[i].matches.path_prefix) <=>
          \/ config[i].matches.path_prefix = <<"/">>
          \/ Below(request.path, config[i].matches.path_prefix)
    BY <2>1, MatchesBelow
  <2>3. QED BY <1>1, <2>2 DEF Matching
<1>4. /\ Matching' = Matching
      /\ \A j, k : Beats(j, k)' <=> Beats(j, k)
  BY <1>1 DEF Matching, Beats, Specificity
<1>5. Scanned = S /\ Scanned' = S1 /\ S1 = IF i \in Matching THEN S \cup {i} ELSE S
  <2>1. i' - 1 = i /\ 1 .. i = (1 .. (i - 1)) \cup {i}
    BY <1>1
  <2>2. Scanned' = Matching' \cap 1 .. (i' - 1)
    BY DEF Scanned
  <2>3. QED BY <1>4, <2>1, <2>2 DEF Scanned
<1>6. S \subseteq DOMAIN config /\ S1 \subseteq DOMAIN config
  BY DEF Matching
<1>7. BestSoFar' <=>
        \/ best' = {} /\ best_len' = 0 /\ S1 = {}
        \/ \E b \in S1 : /\ best' = {b} /\ best_len' = Len_(b)
                         /\ \A j \in S1 : ~Beats(j, b) /\ (Beats(b, j) \/ b <= j)
  <2>1. BestSoFar' <=>
        \/ best' = {} /\ best_len' = 0 /\ Scanned' = {}
        \/ \E b \in Scanned' : /\ best' = {b} /\ best_len' = Len(config'[b].matches.path_prefix)
                         /\ \A j \in Scanned' : ~Beats(j, b)' /\ (Beats(b, j)' \/ b <= j)
    BY DEF BestSoFar
  <2>2. QED BY <1>1, <1>4, <1>5, <2>1
<1>8. CASE best = {}
  <2>1. S = {} /\ best_len = 0
    BY <1>5, <1>8 DEF BestSoFar
  <2>2. CASE i \in Matching
    <3>1. S1 = {i} /\ best' = {i} /\ best_len' = Len_(i)
      BY <1>2, <1>3, <1>5, <1>8, <2>1, <2>2
    <3>2. ~Beats(i, i) /\ i <= i
      BY <1>1, BeatsIsOrder
    <3>3. BestSoFar'
      <4> HIDE DEF S1
      <4>1. QED BY <1>7, <3>1, <3>2
    <3>4. QED BY <1>1, <3>3
  <2>3. CASE i \notin Matching
    BY <1>1, <1>2, <1>3, <1>5, <1>7, <1>8, <2>1, <2>3
  <2>4. QED BY <2>2, <2>3
<1>9. CASE best # {}
  <2>1. PICK b \in S : /\ best = {b} /\ best_len = Len_(b)
                       /\ \A j \in S : ~Beats(j, b) /\ (Beats(b, j) \/ b <= j)
    BY <1>5, <1>9 DEF BestSoFar
  <2>2. b \in DOMAIN config /\ b \in 1 .. (i - 1) /\ b \in S1 /\ b <= i
    BY <1>1, <1>5, <1>6, <2>1
  <2>3. more_specific(config[i]) <=> Beats(i, b)
    <3>1. more_specific(config[i]) <=>
            \/ Len_(i) > Len_(b)
            \/ Len_(i) = Len_(b) /\ config[i].matches.host # {} /\ config[b].matches.host = {}
      BY <2>1 DEF more_specific
    <3>2. Beats(i, b) <=>
            \/ Len_(i) > Len_(b)
            \/ Len_(i) = Len_(b) /\ config[i].matches.host # {} /\ config[b].matches.host = {}
      BY <1>1, <2>2, BeatsIsOrder
    <3>3. QED BY <3>1, <3>2
  <2>4. CASE i \in Matching /\ Beats(i, b)
    <3>1. S1 = S \cup {i} /\ best' = {i} /\ best_len' = Len_(i)
      BY <1>2, <1>3, <1>5, <2>3, <2>4
    <3>2. ASSUME NEW j \in S PROVE ~Beats(j, i) /\ Beats(i, j)
      <4>1. j \in DOMAIN config /\ ~Beats(j, b)
        BY <1>6, <2>1
      <4>2. Beats(i, j)
        BY <1>1, <2>2, <2>4, <4>1, BeatsIsOrder
      <4>3. QED BY <1>1, <4>1, <4>2, BeatsIsOrder
    <3>3. ~Beats(i, i) /\ i <= i
      BY <1>1, BeatsIsOrder
    <3>4. BestSoFar'
      <4> HIDE DEF S1, S
      <4>1. QED BY <1>7, <3>1, <3>2, <3>3
    <3>5. QED BY <1>1, <3>4
  <2>5. CASE i \in Matching /\ ~Beats(i, b)
    <3>1. S1 = S \cup {i} /\ best' = {b} /\ best_len' = Len_(b)
      BY <1>2, <1>3, <1>5, <1>9, <2>1, <2>3, <2>5
    <3>2. BestSoFar'
      <4> HIDE DEF S1, S
      <4>1. QED BY <1>7, <2>1, <2>2, <2>5, <3>1
    <3>3. QED BY <1>1, <3>2
  <2>6. CASE i \notin Matching
    <3>1. S1 = S /\ best' = {b} /\ best_len' = Len_(b)
      BY <1>2, <1>3, <1>5, <2>1, <2>6
    <3>2. BestSoFar'
      <4> HIDE DEF S1, S
      <4>1. QED BY <1>7, <2>1, <3>1
    <3>3. QED BY <1>1, <3>2
  <2>7. QED BY <2>4, <2>5, <2>6
<1>10. QED BY <1>8, <1>9

\* Every step keeps the invariant.
LEMMA RouteStep ==
    ASSUME RouteInv, [Next]_vars
    PROVE  RouteInv'
<1>1. ASSUME NEW routes \in Config, NEW parsed \in BOOLEAN, Load(routes, parsed)
      PROVE  RouteInv'
  <2>1. pc = "idle" /\ UNCHANGED <<pc, request, i, best, best_len, forwarded>>
    BY <1>1 DEF RouteInv, ServingInv, Load, matchVars
  <2>2. ServingInv'
    BY <1>1, <2>1 DEF Load, ServingInv
  <2>3. MatchInv' /\ DispatchInv'
    BY <2>1 DEF RouteInv, MatchInv, DispatchInv
  <2>4. QED BY <2>2, <2>3 DEF RouteInv
<1>2. ASSUME NEW host \in Host, NEW path \in Path, Receive(host, path)
      PROVE  RouteInv'
  <2>1. /\ pc = "idle" /\ pc' = "matching" /\ request'.path \in Path /\ phase = "serving"
        /\ UNCHANGED <<phase, config, runtimes, i, best, best_len>>
        /\ i = 1 /\ best = {} /\ best_len = 0
    BY <1>2 DEF RouteInv, MatchInv, Receive
  <2>2. ServingInv'
    BY <2>1 DEF RouteInv, ServingInv
  <2>3. Scanned' = {}
    <3>1. Scanned' = Matching' \cap 1 .. (i' - 1)
      BY DEF Scanned
    <3>2. 1 .. (i' - 1) = {}
      BY <2>1
    <3>3. QED BY <3>1, <3>2
  <2>4. BestSoFar'
    BY <2>1, <2>3 DEF BestSoFar
  <2>5. i' \in 1 .. (Len(config') + 1)
    BY <2>1, ConfigAssumption DEF RouteInv, ServingInv
  <2>6. MatchInv' /\ DispatchInv'
    BY <2>1, <2>4, <2>5 DEF MatchInv, DispatchInv
  <2>7. QED BY <2>2, <2>6 DEF RouteInv
<1>3. ASSUME Consider PROVE RouteInv'
  <2>1. /\ pc = "matching" /\ UNCHANGED <<phase, config, runtimes, pc, request>>
    BY <1>3 DEF Consider
  <2>2. /\ config \in Config /\ request.path \in Path /\ i \in 1 .. (Len(config) + 1)
        /\ BestSoFar
    BY <2>1 DEF RouteInv, ServingInv, MatchInv
  <2>3. i' \in 1 .. (Len(config) + 1) /\ BestSoFar'
    BY <1>3, <2>2, ConsiderPreserves
  <2>4. ServingInv'
    BY <2>1 DEF RouteInv, ServingInv
  <2>5. MatchInv' /\ DispatchInv'
    BY <2>1, <2>2, <2>3 DEF MatchInv, DispatchInv
  <2>6. QED BY <2>4, <2>5 DEF RouteInv
<1>4. ASSUME Dispatch PROVE RouteInv'
  <2>1. /\ pc = "matching" /\ pc' = "matched" /\ i > Len(config)
        /\ UNCHANGED <<phase, config, runtimes, request, i, best, best_len>>
    BY <1>4 DEF Dispatch
  <2>2. /\ config \in Config /\ request.path \in Path /\ i \in 1 .. (Len(config) + 1)
        /\ BestSoFar
    BY <2>1 DEF RouteInv, ServingInv, MatchInv
  <2>3. i = Len(config) + 1
    BY <2>1, <2>2, ConfigAssumption
  <2>4. ServingInv'
    BY <2>1 DEF RouteInv, ServingInv
  <2>5. Matching' = Matching /\ \A j, k : Beats(j, k)' <=> Beats(j, k)
    BY <2>1 DEF Matching, Beats, Specificity
  <2>6. BestSoFar'
    BY <2>1, <2>2, <2>5 DEF BestSoFar, Scanned
  <2>7. ASSUME NEW b \in best, config[b].name \in DOMAIN runtimes
        PROVE  forwarded' = forward_path(request.path, runtimes[config[b].name])
    <3>1. best = {b}
      BY <2>2, <2>7 DEF BestSoFar
    <3>2. (CHOOSE x \in best : TRUE) = b
      BY <3>1
    <3>3. QED BY <1>4, <2>7, <3>2 DEF Dispatch
  <2>8. MatchInv' /\ DispatchInv'
    BY <2>1, <2>2, <2>3, <2>6, <2>7 DEF MatchInv, DispatchInv
  <2>9. QED BY <2>4, <2>8 DEF RouteInv
<1>5. ASSUME Done PROVE RouteInv'
  BY <1>5 DEF Done, RouteInv, ServingInv, MatchInv, DispatchInv
<1>6. ASSUME UNCHANGED vars PROVE RouteInv'
  <2>1. UNCHANGED <<phase, config, runtimes, pc, request, i, best, best_len, forwarded>>
    BY <1>6 DEF vars, matchVars
  <2>2. Matching' = Matching /\ \A j, k : Beats(j, k)' <=> Beats(j, k)
    BY <2>1 DEF Matching, Beats, Specificity
  <2>3. BestSoFar' <=> BestSoFar
    BY <2>1, <2>2 DEF BestSoFar, Scanned
  <2>4. ServingInv' /\ MatchInv'
    BY <2>1, <2>3 DEF RouteInv, ServingInv, MatchInv
  <2>5. DispatchInv'
    BY <2>1 DEF RouteInv, DispatchInv
  <2>6. QED BY <2>4, <2>5 DEF RouteInv
<1>7. QED BY <1>1, <1>2, <1>3, <1>4, <1>5, <1>6 DEF Next

\* The invariant holds in every reachable state.
THEOREM RouteInductive == Spec => []RouteInv
<1>1. Init => RouteInv
  BY DEF Init, RouteInv, ServingInv, MatchInv, DispatchInv
<1>2. RouteInv /\ [Next]_vars => RouteInv'
  BY RouteStep
<1>3. QED BY <1>1, <1>2, PTL DEF Spec

\* When the loop is over every route has been looked at.
LEMMA AllScanned ==
    ASSUME RouteInv, pc = "matched"
    PROVE  config \in Config /\ request.path \in Path /\ BestSoFar /\ Scanned = Matching
<1>1. config \in Config /\ request.path \in Path /\ BestSoFar /\ i = Len(config) + 1
  BY DEF RouteInv, ServingInv, MatchInv, DispatchInv
<1>2. 1 .. (i - 1) = DOMAIN config
  BY <1>1, ConfigAssumption
<1>3. QED BY <1>1, <1>2 DEF Scanned, Matching

\* match_route answers with the most specific matching route and the first of
\* those alike, for every table of routes, host and path.
THEOREM LongestPrefixWins == Spec => []MostSpecificWins
<1>1. ASSUME RouteInv, pc = "matched" PROVE MostSpecificWins
  BY <1>1, AllScanned DEF BestSoFar, MostSpecificWins
<1>2. RouteInv => MostSpecificWins
  BY <1>1 DEF MostSpecificWins
<1>3. QED BY <1>2, RouteInductive, PTL

\* The runtime the handler finds by the name of the matched route is the one
\* built from that route, for every configuration that passes validation.
LEMMA MatchedRuntime ==
    ASSUME RouteInv, pc = "matched", NEW b \in best
    PROVE  /\ b \in Matching /\ b \in DOMAIN config /\ config \in Config
           /\ request.path \in Path
           /\ config[b].name \in DOMAIN runtimes
           /\ runtimes[config[b].name] = config[b]
<1>1. config \in Config /\ request.path \in Path /\ BestSoFar /\ Scanned = Matching
  BY AllScanned
<1>2. b \in Matching /\ b \in DOMAIN config
  BY <1>1 DEF BestSoFar, Matching
<1>3. validate(config) /\ runtimes = build(config)
  BY DEF RouteInv, ServingInv, MatchInv
<1>4. QED BY <1>1, <1>2, <1>3, BuildFinds

\* No request is handled with the runtime of another route, and none is
\* answered with 500 because its runtime is missing.
THEOREM RuntimesAreFound == Spec => []RuntimeOfMatch
<1>1. RouteInv => RuntimeOfMatch
  BY MatchedRuntime DEF RuntimeOfMatch
<1>2. QED BY <1>1, RouteInductive, PTL

\* The forwarded path is absolute and restores the requested one with the
\* stripped prefix in front, for every route and every path.
THEOREM PathsAreRestored == Spec => []ForwardedRestores
<1>1. ASSUME RouteInv, pc = "matched", request.path # <<>>, request.path[1] = "/",
             NEW b \in best
      PROVE  LET prefix == IF config[b].strip_path_prefix
                           THEN trim_end(config[b].matches.path_prefix) ELSE <<>>
             IN  /\ forwarded # <<>> /\ forwarded[1] = "/"
                 /\ prefix \o forwarded \in {request.path, Append(request.path, "/")}
  <2> DEFINE route == config[b]
             path == request.path
  <2>1. /\ b \in Matching /\ b \in DOMAIN config /\ config \in Config /\ path \in Path
        /\ route.name \in DOMAIN runtimes /\ runtimes[route.name] = route
    BY <1>1, MatchedRuntime
  <2>2. forwarded = forward_path(path, route)
    BY <1>1, <2>1 DEF RouteInv, DispatchInv
  <2>3. route.matches.path_prefix \in Seq(Char) /\ path \in Seq(Char)
    BY <2>1, ConfigAssumption, RequestAssumption DEF ToSet
  <2>4. path_matches(path, route.matches.path_prefix)
    <3>1. route.matches.path_prefix = <<"/">> \/ Below(path, route.matches.path_prefix)
      BY <2>1 DEF Matching
    <3>2. QED BY <2>3, <3>1, MatchesBelow
  <2>5. path # <<>> /\ path[1] = "/"
    BY <1>1
  <2> HIDE DEF route, path
  <2>6. LET prefix == IF route.strip_path_prefix THEN trim_end(route.matches.path_prefix)
                      ELSE <<>>
            out == forward_path(path, route)
        IN  /\ out # <<>> /\ out[1] = "/"
            /\ prefix \o out \in {path, Append(path, "/")}
    BY <2>3, <2>4, <2>5, StripRestores
  <2>7. QED BY <2>2, <2>6 DEF route, path
<1>2. RouteInv => ForwardedRestores
  <2>1. SUFFICES ASSUME RouteInv, pc = "matched", best # {},
                        request.path # <<>>, request.path[1] = "/"
                 PROVE  ForwardedRestores
    BY DEF ForwardedRestores
  <2>2. PICK c \in best : TRUE
    BY <2>1
  <2>3. forwarded # <<>> /\ forwarded[1] = "/"
    BY <1>1, <2>1, <2>2
  <2>4. QED BY <1>1, <2>1, <2>3 DEF ForwardedRestores
<1>3. QED BY <1>2, RouteInductive, PTL
=============================================================================
