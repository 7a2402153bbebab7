------------------------- MODULE ResponseCacheProofs ------------------------
(***************************************************************************)
(* What the response cache guarantees for every configuration, any number  *)
(* of handlers and whatever the upstreams answer.  The inductive invariant *)
(* CacheInv bounds the age of a live entry by the time it has left, says   *)
(* that the keys are finitely many and within the capacity, and says of    *)
(* every stored or buffered answer which upstream answer it was made from. *)
(***************************************************************************)
EXTENDS ResponseCache, FiniteSetTheorems, TLAPS

\* An entry, a fetch: records with these fields.
EntryRecord(e) == e = [expires_at |-> e.expires_at, age |-> e.age, headers |-> e.headers]
FetchRecord(f) == f = [pc |-> f.pc, key |-> f.key, age |-> f.age, headers |-> f.headers]

\* What was stored, buffered and answered comes from an answer of the upstream.
Stored(headers) ==
    \E resp \in Response, g \in Handler :
        response_cacheable(resp) /\ headers = header_pairs(out_headers(resp, g))
Buffered(h, headers) ==
    \E resp \in Response : response_cacheable(resp) /\ headers = out_headers(resp, h)
Replayed(h, headers) ==
    \E resp \in Response :
        LET miss == miss_headers(out_headers(resp, h))
            kept == header_pairs(miss)
        IN  \/ headers = miss
            \/ /\ response_cacheable(resp)
               /\ headers = [n \in DOMAIN kept |->
                     IF n = "x-cache" THEN << <<"HIT">> >> ELSE <<last_value(kept[n])>>]

\* A live entry has used up as much of its time as it has grown older, and was
\* at most as old as the request timeout when it was stored.
EntryOK(e) ==
    /\ EntryRecord(e)
    /\ e.expires_at \in 0 .. ttl /\ e.age \in 0 .. MaxAge
    /\ e.expires_at > 0 => e.expires_at + e.age <= ttl + timeout
    /\ Stored(e.headers)

FetchOK(h, f) ==
    /\ FetchRecord(f)
    /\ f.pc \in {"idle", "asked", "reading", "answered"}
    /\ f.key \in Key /\ f.age \in 0 .. timeout
    /\ f.pc # "reading" => f.age = 0
    /\ f.pc = "reading" => Buffered(h, f.headers)
    /\ f.pc = "answered" => Replayed(h, f.headers)

MapOK ==
    /\ map = [k \in DOMAIN map |-> map[k]] /\ DOMAIN map \subseteq Key
    /\ IsFiniteSet(DOMAIN map) /\ CapacityKept
    /\ \A k \in DOMAIN map : EntryOK(map[k])

\* The inductive invariant.
CacheInv ==
    /\ MapOK
    /\ fetch = [h \in Handler |-> fetch[h]]
    /\ \A h \in Handler : FetchOK(h, fetch[h])

-----------------------------------------------------------------------------
\* The cache holds at least one entry.
LEMMA CapacityPositive == capacity \in Nat /\ capacity >= 1
  BY EntriesAssumption DEF capacity

\* A handler between requests.
LEMMA IdleOK ==
    /\ FetchRecord(Idle) /\ Idle.pc = "idle" /\ Idle.key \in Key /\ Idle.age = 0
  BY KeyAssumption DEF Idle, FetchRecord

\* The updates of a fetch.
Turned(f, pc, headers) == [f EXCEPT !.pc = pc, !.headers = headers]
Asking(f, pc, key) == [f EXCEPT !.pc = pc, !.key = key]
Aged(f) == [f EXCEPT !.age = @ + 1]

\* They keep the other fields.
LEMMA Updates ==
    ASSUME NEW f, FetchRecord(f), NEW pc, NEW key, NEW headers
    PROVE  /\ Turned(f, pc, headers) =
                [pc |-> pc, key |-> f.key, age |-> f.age, headers |-> headers]
           /\ Asking(f, pc, key) = [pc |-> pc, key |-> key, age |-> f.age, headers |-> f.headers]
           /\ Aged(f) = [pc |-> f.pc, key |-> f.key, age |-> f.age + 1, headers |-> f.headers]
<1> DEFINE R == [pc : {f.pc, pc}, key : {f.key, key}, age : {f.age, f.age + 1},
                 headers : {f.headers, headers}]
<1>1. f \in R
  BY DEF FetchRecord
<1>2. Turned(f, pc, headers) = [pc |-> pc, key |-> f.key, age |-> f.age, headers |-> headers]
  <2>1. LET x == Turned(f, pc, headers)
        IN  x \in R /\ x.pc = pc /\ x.key = f.key /\ x.age = f.age /\ x.headers = headers
    BY <1>1 DEF Turned
  <2>2. QED BY <2>1
<1>3. Asking(f, pc, key) = [pc |-> pc, key |-> key, age |-> f.age, headers |-> f.headers]
  <2>1. LET x == Asking(f, pc, key)
        IN  x \in R /\ x.pc = pc /\ x.key = key /\ x.age = f.age /\ x.headers = f.headers
    BY <1>1 DEF Asking
  <2>2. QED BY <2>1
<1>4. Aged(f) = [pc |-> f.pc, key |-> f.key, age |-> f.age + 1, headers |-> f.headers]
  <2>1. LET x == Aged(f)
        IN  x \in R /\ x.pc = f.pc /\ x.key = f.key /\ x.age = f.age + 1 /\ x.headers = f.headers
    BY <1>1 DEF Aged
  <2>2. QED BY <2>1
<1>5. QED BY <1>2, <1>3, <1>4

-----------------------------------------------------------------------------
\* The one value of a header that is text is its last text value.
LEMMA OneText ==
    ASSUME NEW v, v # Opaque
    PROVE  DOMAIN text(<<v>>) # {} /\ last_value(text(<<v>>)) = v
<1>1. text(<<v>>) = [x \in {1} |-> v]
  <2>1. {x \in DOMAIN <<v>> : <<v>>[x] # Opaque} = {1}
    OBVIOUS
  <2>2. QED BY <2>1 DEF text, RestrictValues, Restrict
<1>2. Max({1}) = 1
  BY DEF Max
<1>3. QED BY <1>1, <1>2 DEF last_value

\* The names an answer keeps, and the headers for the client, name by name.
Other(resp) == {n \in DOMAIN resp : ~is_hop_by_hop(n)} \ response_headers.remove
IsOut(o, resp, h) ==
    LET add == response_headers.add
    IN  /\ DOMAIN o = DOMAIN add \cup Other(resp) \cup {"x-request-id"}
        /\ o["x-request-id"] = << <<h>> >>
        /\ \A n \in DOMAIN add : n # "x-request-id" => o[n] = <<add[n]>>
        /\ \A n \in Other(resp) \ (DOMAIN add \cup {"x-request-id"}) : o[n] = resp[n]

\* finish_response gives them.
LEMMA OutHeaders ==
    ASSUME NEW resp, NEW h
    PROVE  IsOut(out_headers(resp, h), resp, h)
  BY DEF IsOut, Other, out_headers, insert, apply_transforms, end_to_end, Restrict

\* What the entry and the transforms make of an answer on a hit is what its own
\* miss would have given, with the last text value of every name: the second
\* pass of the transforms changes nothing, and the stored correlation id is
\* replaced.
LEMMA HitReplays ==
    ASSUME NEW resp, NEW g \in Handler, NEW h \in Handler
    PROVE  LET kept == header_pairs(miss_headers(out_headers(resp, h)))
           IN  cached_response(header_pairs(out_headers(resp, g)), h) =
                 [n \in DOMAIN kept |->
                     IF n = "x-cache" THEN << <<"HIT">> >> ELSE <<last_value(kept[n])>>]
<1> DEFINE add == response_headers.add
           remove == response_headers.remove
           og == out_headers(resp, g)
           oh == out_headers(resp, h)
           miss == miss_headers(oh)
           pairs == header_pairs(og)
           kept == header_pairs(miss)
           hit == cached_response(pairs, h)
           xid == "x-request-id"
           xc == "x-cache"
<1>1. /\ DOMAIN og = DOMAIN add \cup Other(resp) \cup {xid} /\ DOMAIN oh = DOMAIN og
      /\ oh[xid] = << <<h>> >> /\ og[xid] = << <<g>> >>
      /\ \A n \in DOMAIN add : n # xid => og[n] = <<add[n]>> /\ oh[n] = <<add[n]>>
      /\ \A n \in Other(resp) \ (DOMAIN add \cup {xid}) : og[n] = resp[n] /\ oh[n] = resp[n]
  <2>1. IsOut(og, resp, g) /\ IsOut(oh, resp, h)
    BY OutHeaders
  <2> HIDE DEF og, oh
  <2>2. QED BY <2>1 DEF IsOut
<1>2. /\ DOMAIN miss = DOMAIN og \cup {xc} /\ miss[xc] = << <<"MISS">> >>
      /\ \A n \in DOMAIN og \ {xc} : miss[n] = oh[n]
  BY <1>1 DEF miss_headers, insert
<1>3. /\ DOMAIN pairs = {n \in DOMAIN og : DOMAIN text(og[n]) # {}}
      /\ \A n \in DOMAIN pairs : pairs[n] = text(og[n])
  BY DEF header_pairs
<1>4. /\ DOMAIN kept = {n \in DOMAIN miss : DOMAIN text(miss[n]) # {}}
      /\ \A n \in DOMAIN kept : kept[n] = text(miss[n])
  BY DEF header_pairs
<1>5. /\ DOMAIN hit = DOMAIN add \cup (DOMAIN pairs \ remove) \cup {xc, xid}
      /\ hit = [n \in DOMAIN hit |-> hit[n]]
      /\ hit[xid] = << <<h>> >> /\ hit[xc] = << <<"HIT">> >>
      /\ \A n \in DOMAIN add \ {xc, xid} : hit[n] = <<add[n]>>
      /\ \A n \in DOMAIN pairs \ (remove \cup DOMAIN add \cup {xc, xid}) :
           hit[n] = <<last_value(pairs[n])>>
  <2> HIDE DEF pairs
  <2>1. xc # xid
    OBVIOUS
  <2> HIDE DEF xc, xid
  <2>2. QED BY <2>1 DEF cached_response, insert, apply_transforms, xc, xid
<1> HIDE DEF og, oh, miss, pairs, kept, hit, add, remove, xid, xc
<1>6. xc # xid /\ <<h>> # Opaque /\ <<"MISS">> # Opaque /\ \A n \in DOMAIN add : add[n] # Opaque
  BY HandlerAssumption, TransformsAssumption DEF xc, xid, add, Opaque
<1>7. /\ xc \in DOMAIN kept /\ xid \in DOMAIN kept
      /\ last_value(kept[xid]) = <<h>>
  <2>1. /\ DOMAIN text(<< <<h>> >>) # {} /\ last_value(text(<< <<h>> >>)) = <<h>>
        /\ DOMAIN text(<< <<"MISS">> >>) # {}
    BY <1>6, OneText
  <2>2. miss[xid] = << <<h>> >> /\ xid \in DOMAIN miss /\ xc \in DOMAIN miss
    BY <1>1, <1>2, <1>6
  <2>3. QED BY <1>2, <1>4, <2>1, <2>2
<1>8. ASSUME NEW n \in DOMAIN add, n # xid, n # xc
      PROVE  n \in DOMAIN kept /\ last_value(kept[n]) = add[n]
  <2>1. DOMAIN text(<<add[n]>>) # {} /\ last_value(text(<<add[n]>>)) = add[n]
    BY <1>6, OneText
  <2>2. miss[n] = <<add[n]>> /\ n \in DOMAIN miss
    BY <1>1, <1>2, <1>8
  <2>3. QED BY <1>4, <2>1, <2>2
<1>9. ASSUME NEW n, n \notin DOMAIN add, n # xid, n # xc
      PROVE  /\ n \in DOMAIN kept <=> n \in DOMAIN pairs
             /\ n \in DOMAIN pairs => n \notin remove /\ kept[n] = pairs[n]
  <2>1. n \in Other(resp) => n \notin remove
    BY DEF Other, remove
  <2>2. (n \in DOMAIN og <=> n \in Other(resp)) /\ (n \in DOMAIN miss <=> n \in Other(resp))
    BY <1>1, <1>2, <1>9
  <2>3. n \in Other(resp) => og[n] = resp[n] /\ miss[n] = resp[n]
    BY <1>1, <1>2, <1>9, <2>2
  <2>4. QED BY <1>3, <1>4, <2>1, <2>2, <2>3
<1>10. DOMAIN hit = DOMAIN kept
  BY <1>5, <1>7, <1>8, <1>9
<1>11. ASSUME NEW n \in DOMAIN kept
       PROVE  hit[n] = IF n = xc THEN << <<"HIT">> >> ELSE <<last_value(kept[n])>>
  <2>1. CASE n \in {xc, xid}
    BY <1>5, <1>6, <1>7, <2>1
  <2>2. CASE n \in DOMAIN add \ {xc, xid}
    BY <1>5, <1>8, <2>2
  <2>3. CASE n \notin DOMAIN add \cup {xc, xid}
    BY <1>5, <1>9, <2>3
  <2>4. QED BY <2>1, <2>2, <2>3
<1>12. hit = [n \in DOMAIN kept |-> IF n = xc THEN << <<"HIT">> >> ELSE <<last_value(kept[n])>>]
  BY <1>5, <1>10, <1>11
<1>13. QED BY <1>12 DEF hit, pairs, og, kept, miss, oh, xc

-----------------------------------------------------------------------------
\* A handler between requests is as it should be.
LEMMA IdleFetch == ASSUME NEW h PROVE FetchOK(h, Idle)
  BY IdleOK, TimeoutAssumption DEF FetchOK

\* One handler moves.
LEMMA HandlerStep ==
    ASSUME CacheInv, MapOK', NEW h \in Handler, NEW f, FetchOK(h, f),
           fetch' = [fetch EXCEPT ![h] = f]
    PROVE  CacheInv'
<1>1. \A g \in Handler : fetch'[g] = IF g = h THEN f ELSE fetch[g]
  BY DEF CacheInv
<1>2. fetch' = [g \in Handler |-> fetch'[g]]
  BY <1>1 DEF CacheInv
<1>3. \A g \in Handler : FetchOK(g, fetch'[g])
  BY <1>1 DEF CacheInv
<1>4. QED BY <1>2, <1>3 DEF CacheInv

\* The map does not change.
LEMMA MapUnchanged == ASSUME MapOK, UNCHANGED map PROVE MapOK'
  BY DEF MapOK, CapacityKept

\* A hit answers what the client would have got from the upstream.
LEMMA HitPreserves ==
    ASSUME CacheInv, NEW h \in Handler, NEW k \in Key, Hit(h, k)
    PROVE  CacheInv'
<1> DEFINE hs == cached_response(map[k].headers, h)
           f == Turned(fetch[h], "answered", hs)
<1>1. FetchOK(h, fetch[h]) /\ fetch[h].pc = "idle" /\ k \in DOMAIN map /\ EntryOK(map[k])
  BY DEF CacheInv, MapOK, Hit, live
<1>2. Replayed(h, hs)
  <2>1. PICK resp \in Response, g \in Handler :
          response_cacheable(resp) /\ map[k].headers = header_pairs(out_headers(resp, g))
    BY <1>1 DEF EntryOK, Stored
  <2>2. LET kept == header_pairs(miss_headers(out_headers(resp, h)))
        IN  hs = [n \in DOMAIN kept |->
                    IF n = "x-cache" THEN << <<"HIT">> >> ELSE <<last_value(kept[n])>>]
    BY <2>1, HitReplays
  <2>3. QED BY <2>1, <2>2 DEF Replayed
<1> HIDE DEF hs
<1>3. f = [pc |-> "answered", key |-> fetch[h].key, age |-> fetch[h].age, headers |-> hs]
  BY <1>1, Updates DEF FetchOK
<1>4. FetchOK(h, f)
  BY <1>1, <1>2, <1>3 DEF FetchOK, FetchRecord
<1>5. fetch' = [fetch EXCEPT ![h] = f] /\ UNCHANGED map
  BY DEF Hit, Turned, hs
<1> HIDE DEF f
<1>6. QED BY <1>4, <1>5, MapUnchanged, HandlerStep DEF CacheInv

\* A miss drops at most the entry of its key.
LEMMA MissPreserves ==
    ASSUME CacheInv, NEW h \in Handler, NEW k \in Key, Miss(h, k)
    PROVE  CacheInv'
<1> DEFINE f == Asking(fetch[h], "asked", k)
           D == DOMAIN map \ {k}
<1>1. FetchOK(h, fetch[h]) /\ fetch[h].pc = "idle"
  BY DEF CacheInv, Miss
<1>2. f = [pc |-> "asked", key |-> k, age |-> fetch[h].age, headers |-> fetch[h].headers]
  BY <1>1, Updates DEF FetchOK
<1>3. FetchOK(h, f)
  BY <1>1, <1>2 DEF FetchOK, FetchRecord
<1>4. fetch' = [fetch EXCEPT ![h] = f]
  BY DEF Miss, Asking
<1>5. map' = [j \in D |-> map[j]]
  BY DEF Miss, Restrict
<1>6. IsFiniteSet(D) /\ Cardinality(D) <= capacity
  <2>1. /\ IsFiniteSet(D) /\ Cardinality(D) <= Cardinality(DOMAIN map)
        /\ Cardinality(D) \in Nat /\ Cardinality(DOMAIN map) \in Nat
    BY FS_Subset, FS_CardinalityType DEF CacheInv, MapOK
  <2>2. QED BY <2>1, CapacityPositive DEF CacheInv, MapOK, CapacityKept
<1>7. MapOK'
  <2>1. /\ DOMAIN map' = D /\ D \subseteq Key /\ map' = [j \in DOMAIN map' |-> map'[j]]
        /\ \A j \in D : EntryOK(map'[j])
    BY <1>5 DEF CacheInv, MapOK
  <2> HIDE DEF D
  <2>2. QED BY <1>6, <2>1 DEF MapOK, CapacityKept, capacity
<1> HIDE DEF f
<1>8. QED BY <1>3, <1>4, <1>7, HandlerStep

\* The upstream answers.
LEMMA ProducePreserves ==
    ASSUME CacheInv, NEW h \in Handler, NEW resp \in Response, Produce(h, resp)
    PROVE  CacheInv'
<1> DEFINE o == out_headers(resp, h)
<1>1. FetchOK(h, fetch[h]) /\ fetch[h].pc = "asked"
  BY DEF CacheInv, Produce
<1>2. CASE response_cacheable(resp)
  <2> DEFINE f == Turned(fetch[h], "reading", o)
  <2>1. Buffered(h, o)
    BY <1>2 DEF Buffered
  <2> HIDE DEF o
  <2>2. f = [pc |-> "reading", key |-> fetch[h].key, age |-> fetch[h].age, headers |-> o]
    BY <1>1, Updates DEF FetchOK
  <2>3. FetchOK(h, f)
    BY <1>1, <2>1, <2>2 DEF FetchOK, FetchRecord
  <2>4. fetch' = [fetch EXCEPT ![h] = f] /\ UNCHANGED map
    BY <1>2 DEF Produce, Turned, o
  <2> HIDE DEF f
  <2>5. QED BY <2>3, <2>4, MapUnchanged, HandlerStep DEF CacheInv
<1>3. CASE ~response_cacheable(resp)
  <2> DEFINE f == Turned(Idle, "answered", miss_headers(o))
  <2>1. Replayed(h, miss_headers(o))
    BY DEF Replayed
  <2> HIDE DEF o
  <2>2. f = [pc |-> "answered", key |-> Idle.key, age |-> Idle.age, headers |-> miss_headers(o)]
    BY IdleOK, Updates
  <2>3. FetchOK(h, f)
    BY <2>1, <2>2, IdleOK, TimeoutAssumption DEF FetchOK, FetchRecord
  <2>4. fetch' = [fetch EXCEPT ![h] = f] /\ UNCHANGED map
    BY <1>3 DEF Produce, Turned, o
  <2> HIDE DEF f
  <2>5. QED BY <2>3, <2>4, MapUnchanged, HandlerStep DEF CacheInv
<1>4. QED BY <1>2, <1>3

\* put makes room for a new key, so the capacity is kept.
LEMMA RoomMade ==
    ASSUME MapOK, NEW key, NEW victim \in Victims(key)
    PROVE  LET D == (DOMAIN map \ victim) \cup {key}
           IN  IsFiniteSet(D) /\ Cardinality(D) <= capacity
<1> DEFINE M == DOMAIN map
           D == (M \ victim) \cup {key}
<1>1. IsFiniteSet(M) /\ Cardinality(M) \in Nat /\ Cardinality(M) <= capacity
  BY FS_CardinalityType DEF MapOK, CapacityKept
<1>2. CASE key \in M
  <2>1. D = M
    BY <1>2 DEF Victims
  <2>2. QED BY <1>1, <2>1
<1>3. CASE key \notin M /\ Cardinality(M) < capacity
  <2>1. D = M \cup {key}
    BY <1>3 DEF Victims
  <2>2. IsFiniteSet(M \cup {key}) /\ Cardinality(M \cup {key}) = Cardinality(M) + 1
    BY <1>1, <1>3, FS_AddElement
  <2>3. QED BY <1>1, <1>3, <2>1, <2>2, CapacityPositive
<1>4. CASE key \notin M /\ ~(Cardinality(M) < capacity)
  <2>1. PICK k \in M : victim = {k}
    BY <1>4 DEF Victims, Expired
  <2>2. IsFiniteSet(M \ {k}) /\ Cardinality(M \ {k}) = Cardinality(M) - 1
    BY <1>1, <2>1, FS_RemoveElement
  <2>3. IsFiniteSet(D) /\ Cardinality(D) = (Cardinality(M) - 1) + 1
    BY <1>4, <2>1, <2>2, FS_AddElement
  <2>4. QED BY <1>1, <2>3
<1>5. QED BY <1>2, <1>3, <1>4

\* Storing an answer, however late.
LEMMA PutPreserves ==
    ASSUME CacheInv, NEW h \in Handler, NEW victim \in Victims(fetch[h].key), Put(h, victim)
    PROVE  CacheInv'
<1> DEFINE key == fetch[h].key
           D == (DOMAIN map \ victim) \cup {key}
           hs == header_pairs(fetch[h].headers)
           e == [expires_at |-> ttl, age |-> fetch[h].age, headers |-> hs]
           miss == miss_headers(fetch[h].headers)
           f == Turned(Idle, "answered", miss)
<1>1. FetchOK(h, fetch[h]) /\ fetch[h].pc = "reading"
  BY DEF CacheInv, Put
<1>2. PICK resp \in Response :
        response_cacheable(resp) /\ fetch[h].headers = out_headers(resp, h)
  BY <1>1 DEF FetchOK, Buffered
<1>3. Stored(hs) /\ Replayed(h, miss)
  <2>1. Stored(hs)
    BY <1>2 DEF Stored
  <2>2. Replayed(h, miss)
    BY <1>2 DEF Replayed
  <2>3. QED BY <2>1, <2>2
<1>4. map' = [k \in D |-> IF k = key THEN e ELSE map[k]]
  BY DEF Put
<1>5. fetch' = [fetch EXCEPT ![h] = f]
  BY DEF Put, Turned
<1> HIDE DEF hs, miss
<1>6. FetchOK(h, f)
  <2>1. f = [pc |-> "answered", key |-> Idle.key, age |-> Idle.age, headers |-> miss]
    BY IdleOK, Updates
  <2>2. QED BY <1>3, <2>1, IdleOK, TimeoutAssumption DEF FetchOK, FetchRecord
<1>7. EntryOK(e)
  BY <1>1, <1>3, TtlAssumption, TimeoutAssumption DEF EntryOK, EntryRecord, FetchOK, MaxAge
<1>8. IsFiniteSet(D) /\ Cardinality(D) <= capacity
  BY RoomMade DEF CacheInv
<1> HIDE DEF e, f
<1>9. MapOK'
  <2>1. D \subseteq Key
    BY <1>1 DEF CacheInv, MapOK, FetchOK
  <2>2. \A k \in D : EntryOK(IF k = key THEN e ELSE map[k])
    BY <1>7 DEF CacheInv, MapOK
  <2> HIDE DEF D
  <2>3. DOMAIN map' = D /\ map' = [k \in DOMAIN map' |-> map'[k]]
    BY <1>4
  <2>4. \A k \in D : EntryOK(map'[k])
    BY <1>4, <2>2
  <2>5. QED BY <1>8, <2>1, <2>3, <2>4 DEF MapOK, CapacityKept, capacity
<1>10. QED BY <1>5, <1>6, <1>9, HandlerStep

\* A handler is done or gives up.
LEMMA GiveUpPreserves ==
    ASSUME CacheInv, NEW h \in Handler, GiveUp(h)
    PROVE  CacheInv'
<1>1. fetch' = [fetch EXCEPT ![h] = Idle] /\ UNCHANGED map
  BY DEF GiveUp
<1>2. QED BY <1>1, IdleFetch, MapUnchanged, HandlerStep DEF CacheInv

\* An entry one tick later.
Older(e) == [e EXCEPT !.expires_at = IF @ > 0 THEN @ - 1 ELSE 0, !.age = Clip(@ + 1, MaxAge)]

\* What time takes from the deadline it adds to the age.
LEMMA OlderOK ==
    ASSUME NEW e, EntryOK(e)
    PROVE  EntryOK(Older(e))
<1> DEFINE x == IF e.expires_at > 0 THEN e.expires_at - 1 ELSE 0
           a == Clip(e.age + 1, MaxAge)
           R == [expires_at : {e.expires_at, x}, age : {e.age, a}, headers : {e.headers}]
           o == Older(e)
<1>1. e \in R
  BY DEF EntryOK, EntryRecord
<1>2. o \in R /\ o.expires_at = x /\ o.age = a /\ o.headers = e.headers
  BY <1>1 DEF Older
<1>3. EntryRecord(o)
  BY <1>2 DEF EntryRecord
<1>4. /\ e.expires_at \in 0 .. ttl /\ e.age \in 0 .. MaxAge
      /\ e.expires_at > 0 => e.expires_at + e.age <= ttl + timeout
      /\ Stored(e.headers) /\ ttl \in Nat /\ timeout \in Nat
  BY TtlAssumption, TimeoutAssumption DEF EntryOK
<1>5. x \in 0 .. ttl /\ a \in 0 .. MaxAge /\ (x > 0 => x + a <= ttl + timeout)
  BY <1>4 DEF Clip, MaxAge
<1> HIDE DEF o, x, a
<1>6. EntryOK(o)
  BY <1>2, <1>3, <1>4, <1>5 DEF EntryOK
<1>7. QED BY <1>6 DEF o

\* Time.
LEMMA TickPreserves ==
    ASSUME CacheInv, Tick
    PROVE  CacheInv'
<1>1. map' = [k \in DOMAIN map |-> Older(map[k])]
  BY DEF Tick, Older
<1>2. MapOK'
  <2>1. DOMAIN map' = DOMAIN map /\ map' = [k \in DOMAIN map' |-> map'[k]]
    BY <1>1
  <2>2. \A k \in DOMAIN map : EntryOK(map'[k])
    BY <1>1, OlderOK DEF CacheInv, MapOK
  <2>3. QED BY <2>1, <2>2 DEF CacheInv, MapOK, CapacityKept, capacity
<1>3. fetch' = [h \in Handler |->
                  IF fetch[h].pc = "reading" THEN Aged(fetch[h]) ELSE fetch[h]]
  BY DEF Tick, Aged
<1>4. ASSUME NEW h \in Handler PROVE FetchOK(h, fetch'[h])
  <2>1. FetchOK(h, fetch[h])
    BY DEF CacheInv
  <2>2. CASE fetch[h].pc = "reading"
    <3>1. fetch[h].age < timeout
      BY <2>2 DEF Tick
    <3>2. Aged(fetch[h]) = [pc |-> fetch[h].pc, key |-> fetch[h].key, age |-> fetch[h].age + 1,
                            headers |-> fetch[h].headers]
      BY <2>1, Updates DEF FetchOK
    <3>3. FetchOK(h, Aged(fetch[h]))
      BY <2>1, <2>2, <3>1, <3>2, TimeoutAssumption DEF FetchOK, FetchRecord
    <3>4. QED BY <1>3, <2>2, <3>3
  <2>3. CASE fetch[h].pc # "reading"
    BY <1>3, <2>1, <2>3
  <2>4. QED BY <2>2, <2>3
<1>5. fetch' = [h \in Handler |-> fetch'[h]]
  BY <1>3
<1>6. QED BY <1>2, <1>4, <1>5 DEF CacheInv

\* The initial states satisfy the inductive invariant.
LEMMA InitCacheInv == Init => CacheInv
<1> SUFFICES ASSUME Init PROVE CacheInv
  OBVIOUS
<1>1. DOMAIN map = {} /\ map = [k \in DOMAIN map |-> map[k]]
  BY DEF Init
<1>2. MapOK
  BY <1>1, FS_EmptySet, CapacityPositive DEF MapOK, CapacityKept
<1>3. fetch = [h \in Handler |-> fetch[h]] /\ \A h \in Handler : fetch[h] = Idle
  BY DEF Init
<1>4. QED BY <1>2, <1>3, IdleFetch DEF CacheInv

\* Every step keeps the inductive invariant.
LEMMA NextCacheInv == CacheInv /\ [Next]_vars => CacheInv'
<1> SUFFICES ASSUME CacheInv, [Next]_vars PROVE CacheInv'
  OBVIOUS
<1>1. CASE UNCHANGED vars
  <2>1. UNCHANGED <<map, fetch>> /\ MapOK'
    BY <1>1, MapUnchanged DEF vars, CacheInv
  <2>2. QED BY <2>1 DEF CacheInv
<1>2. ASSUME NEW h \in Handler,
             \/ \E k \in Key : Hit(h, k) \/ Miss(h, k)
             \/ \E resp \in Response : Produce(h, resp)
             \/ \E victim \in Victims(fetch[h].key) : Put(h, victim)
             \/ GiveUp(h)
      PROVE  CacheInv'
  BY <1>2, HitPreserves, MissPreserves, ProducePreserves, PutPreserves, GiveUpPreserves
<1>3. CASE Tick
  BY <1>3, TickPreserves
<1>4. QED BY <1>1, <1>2, <1>3 DEF Next

\* CacheInv holds of every reachable state, for every configuration, any set of
\* handlers and any answers of the upstreams.
THEOREM CacheInductive == Spec => []CacheInv
<1>1. QED BY InitCacheInv, NextCacheInv, PTL DEF Spec

\* Entries and fetches have their types (Entry of cache.rs).
THEOREM CacheTypes == Spec => []TypeOK
<1>1. CacheInv => TypeOK
  BY DEF CacheInv, MapOK, EntryOK, FetchOK, TypeOK
<1>2. QED BY <1>1, CacheInductive, PTL

\* The map never outgrows max_entries, however many handlers missed at once and
\* store their answers together (ResponseCache::put).
THEOREM CapacityIsKept == Spec => []CapacityKept
<1>1. CacheInv => CapacityKept
  BY DEF CacheInv, MapOK
<1>2. QED BY <1>1, CacheInductive, PTL

\* What get finds left the upstream less than the time to live plus the request
\* timeout ago, whatever the order in which slow handlers store their answers.
THEOREM HitsFresh == Spec => []HitsAreFresh
<1>1. CacheInv => HitsAreFresh
  <2> SUFFICES ASSUME CacheInv, NEW k \in DOMAIN map, live(k)
               PROVE  map[k].age < ttl + timeout
    BY DEF HitsAreFresh
  <2>1. EntryOK(map[k]) /\ map[k].expires_at > 0
    BY DEF CacheInv, MapOK, live
  <2>2. QED BY <2>1, TtlAssumption, TimeoutAssumption DEF EntryOK, MaxAge
<1>2. QED BY <1>1, CacheInductive, PTL

\* For all transforms and all answers, a hit gives the client what the upstream
\* would have given it, with its own correlation id (finish_response, put and
\* cached_response).
THEOREM HitsAreReplays == Spec => []HitsReplayMisses
<1>1. CacheInv => HitsReplayMisses
  BY DEF CacheInv, FetchOK, Replayed, HitsReplayMisses
<1>2. QED BY <1>1, CacheInductive, PTL

\* put evicts a live entry only from a full cache without an expired one, and
\* get never drops one.
THEOREM LiveEntriesStay == Spec => LiveEntriesKept
<1>1. ASSUME CacheInv, [Next]_vars, NEW k \in DOMAIN map, live(k), k \notin DOMAIN map'
      PROVE  Cardinality(DOMAIN map) >= capacity /\ Expired = {}
  <2>1. ~UNCHANGED map
    BY <1>1
  <2>2. ASSUME NEW h \in Handler, NEW j \in Key, Miss(h, j)
        PROVE  FALSE
    <3>1. DOMAIN map' = DOMAIN map \ {j} /\ ~live(j)
      BY <2>2 DEF Miss, Restrict
    <3>2. QED BY <1>1, <3>1
  <2>3. ASSUME NEW h \in Handler, NEW victim \in Victims(fetch[h].key), Put(h, victim)
        PROVE  Cardinality(DOMAIN map) >= capacity /\ Expired = {}
    <3>1. DOMAIN map' = (DOMAIN map \ victim) \cup {fetch[h].key}
      BY <2>3 DEF Put
    <3>2. k \in victim
      BY <1>1, <3>1
    <3>3. k \notin Expired
      <4>1. map[k].expires_at \in Int /\ map[k].expires_at > 0
        BY <1>1, TtlAssumption DEF CacheInv, MapOK, EntryOK, live
      <4>2. QED BY <4>1 DEF Expired
    <3>4. ~(Cardinality(DOMAIN map) < capacity) /\ Expired = {}
      BY <3>2, <3>3 DEF Victims
    <3>5. Cardinality(DOMAIN map) \in Nat
      BY <1>1, FS_CardinalityType DEF CacheInv, MapOK
    <3>6. QED BY <3>4, <3>5, CapacityPositive
  <2>4. CASE Tick
    BY <1>1, <2>4 DEF Tick
  <2>5. QED
    BY <1>1, <2>1, <2>2, <2>3, <2>4 DEF Next, vars, Hit, Produce, GiveUp
<1>2. CacheInv /\ [Next]_vars =>
        [\A k \in DOMAIN map : live(k) /\ k \notin DOMAIN map' =>
           Cardinality(DOMAIN map) >= capacity /\ Expired = {}]_vars
  BY <1>1
<1>3. QED BY <1>2, CacheInductive, PTL DEF Spec, LiveEntriesKept
=============================================================================
