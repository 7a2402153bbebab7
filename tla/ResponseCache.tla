---------------------------- MODULE ResponseCache ---------------------------
(***************************************************************************)
(* The response cache of a route (crates/gateway/src/cache.rs) as the      *)
(* handlers of proxy.rs use it: get, on a miss fetch from the upstream,    *)
(* put the buffered answer.  Nothing ties a put to the miss that led to    *)
(* it: several handlers can miss the same key together, and an answer can  *)
(* be stored long after, or after a newer one.  Answers are their headers: *)
(* transformed and stored by finish_response, and rebuilt from the entry   *)
(* by cached_response.  The correlation id of a request is its handler.    *)
(*                                                                         *)
(* Instants are offsets from the present.  get and put read the clock      *)
(* under the mutex.  The request timeout bounds the time between an        *)
(* upstream producing an answer and the gateway having read it.            *)
(***************************************************************************)
EXTENDS Integers, FiniteSets, HeaderOps

CONSTANTS
    Key,                \* cache keys: method, host, path and query
    Handler,            \* request handlers
    ttl,                \* cache.ttl_secs of the route
    max_entries,        \* cache.max_entries of the route
    timeout,            \* the request timeout, in ticks
    Response,           \* header maps of upstream answers with status 200
    response_headers    \* the transforms of the route

ASSUME KeyAssumption == Key # {}
ASSUME TtlAssumption == ttl \in Nat
ASSUME EntriesAssumption == max_entries \in Nat
ASSUME TimeoutAssumption == timeout \in Nat
\* Correlation ids passed to_str or are new; configured values are visible ASCII
\* (the documentation of HeaderValue::from_str asks for it).
ASSUME HandlerAssumption == \A h \in Handler : <<h>> # Opaque
ASSUME TransformsAssumption ==
    \A n \in DOMAIN response_headers.add : response_headers.add[n] # Opaque

VARIABLES
    map,                \* the entries: a partial function on Key
    fetch               \* fetch[h]: what handler h waits for or answers

vars == <<map, fetch>>

capacity == IF max_entries > 1 THEN max_entries ELSE 1

\* An entry: its headers, when it expires, and the auxiliary age of the answer it holds.
\* Offsets below zero and ages above MaxAge make no difference.
MaxAge == ttl + timeout + 1
Clip(x, bound) == IF x < bound THEN x ELSE bound

Idle == [pc |-> "idle", key |-> CHOOSE k \in Key : TRUE, age |-> 0,
         headers |-> <<>>]

Init ==
    /\ map = [k \in {} |-> 0]
    /\ fetch = [h \in Handler |-> Idle]

\* Mutant of live: an entry is live at its deadline and after.
live_Always(k) == k \in DOMAIN map /\ map[k].expires_at >= 0

live(k) == k \in DOMAIN map /\ map[k].expires_at > 0

\* Does the (first) Cache-Control of the upstream allow storing?
response_cacheable(headers) ==
    \A v \in get(headers, "cache-control") :
        ToSet(v) \cap {"no-store", "private", "no-cache"} = {}

\* finish_response: the headers for the client, but for x-cache.
out_headers(resp, h) ==
    insert(apply_transforms(end_to_end(resp), response_headers), "x-request-id", <<h>>)
miss_headers(headers) == insert(headers, "x-cache", <<"MISS">>)

\* The header pairs of an entry: values that are not text are left out, the
\* others keep their positions.
text(values) == RestrictValues(values, LAMBDA v : v # Opaque)
header_pairs(headers) ==
    [n \in {n \in DOMAIN headers : DOMAIN text(headers[n]) # {}} |-> text(headers[n])]
last_value(values) == values[Max(DOMAIN values)]

\* Mutant of cached_response: keeps the stored correlation id.
cached_response_KeepsId(pairs, h) ==
    LET headers == [n \in DOMAIN pairs |-> <<last_value(pairs[n])>>]
    IN  insert(apply_transforms(headers, response_headers), "x-cache", <<"HIT">>)

\* cached_response inserts the pairs in turn, so the last one of a name stays.
cached_response(pairs, h) ==
    LET headers == [n \in DOMAIN pairs |-> <<last_value(pairs[n])>>]
    IN  insert(insert(apply_transforms(headers, response_headers), "x-cache", <<"HIT">>),
               "x-request-id", <<h>>)

\* get finds a live entry: the handler answers from it at once.
Hit(h, k) ==
    /\ fetch[h].pc = "idle"
    /\ live(k)
    /\ fetch' = [fetch EXCEPT ![h] =
         [@ EXCEPT !.pc = "answered", !.headers = cached_response(map[k].headers, h)]]
    /\ UNCHANGED map

\* get finds nothing, or an expired entry, which it removes; the handler then
\* asks the upstream.
Miss(h, k) ==
    /\ fetch[h].pc = "idle"
    /\ ~live(k)
    /\ map' = Restrict(map, DOMAIN map \ {k})
    /\ fetch' = [fetch EXCEPT ![h] = [@ EXCEPT !.pc = "asked", !.key = k]]

\* The upstream produces its answer, which is buffered, ageing from now on, or
\* passed on when it may not be stored.
Produce(h, resp) ==
    /\ fetch[h].pc = "asked"
    /\ fetch' = [fetch EXCEPT ![h] =
         IF response_cacheable(resp)
         THEN [@ EXCEPT !.pc = "reading", !.headers = out_headers(resp, h)]
         ELSE [Idle EXCEPT !.pc = "answered", !.headers = miss_headers(out_headers(resp, h))]]
    /\ UNCHANGED map

\* The stored entries whose time has run out.
Expired == {k \in DOMAIN map : map[k].expires_at <= 0}
\* Mutants of Victims: makes room one entry late; evicts any entry.
Victims_OneLate(key) ==
    IF Cardinality(DOMAIN map) <= capacity \/ key \in DOMAIN map THEN {{}}
    ELSE {{k} : k \in IF Expired # {} THEN Expired ELSE DOMAIN map}
Victims_Any(key) ==
    IF Cardinality(DOMAIN map) < capacity \/ key \in DOMAIN map THEN {{}}
    ELSE {{k} : k \in DOMAIN map}

\* The entry put evicts when the cache is full and the key is new: an expired
\* one if there is any, else an arbitrary one.
Victims(key) ==
    IF Cardinality(DOMAIN map) < capacity \/ key \in DOMAIN map THEN {{}}
    ELSE {{k} : k \in IF Expired # {} THEN Expired ELSE DOMAIN map}

\* Mutant of Put: adds the time the answer took to the time to live.
Put_Adds(h, victim) ==
    /\ fetch[h].pc = "reading"
    /\ LET key == fetch[h].key
           kept == (DOMAIN map \ victim) \cup {key}
       IN  map' = [k \in kept |->
                     IF k = key THEN [expires_at |-> ttl + fetch[h].age, age |-> fetch[h].age,
                                      headers |-> header_pairs(fetch[h].headers)]
                     ELSE map[k]]
    /\ fetch' = [fetch EXCEPT ![h] = [Idle EXCEPT !.pc = "answered",
                                         !.headers = miss_headers(fetch[h].headers)]]

\* The buffered body is complete: it is stored and answered.
Put(h, victim) ==
    /\ fetch[h].pc = "reading"
    /\ LET key == fetch[h].key
           kept == (DOMAIN map \ victim) \cup {key}
       IN  map' = [k \in kept |->
                     IF k = key THEN [expires_at |-> ttl, age |-> fetch[h].age,
                                      headers |-> header_pairs(fetch[h].headers)]
                     ELSE map[k]]
    /\ fetch' = [fetch EXCEPT ![h] = [Idle EXCEPT !.pc = "answered",
                                         !.headers = miss_headers(fetch[h].headers)]]

\* The call fails, the client is gone, or the answer has been sent.
GiveUp(h) ==
    /\ fetch[h].pc # "idle"
    /\ fetch' = [fetch EXCEPT ![h] = Idle]
    /\ UNCHANGED map

\* A tick; a read that has reached the request timeout ends first.
Tick ==
    /\ \A h \in Handler : fetch[h].pc = "reading" => fetch[h].age < timeout
    /\ map' = [k \in DOMAIN map |->
         [map[k] EXCEPT !.expires_at = IF @ > 0 THEN @ - 1 ELSE 0, !.age = Clip(@ + 1, MaxAge)]]
    /\ fetch' = [h \in Handler |->
         IF fetch[h].pc = "reading" THEN [fetch[h] EXCEPT !.age = @ + 1] ELSE fetch[h]]

Next ==
    \/ \E h \in Handler :
         \/ \E k \in Key : Hit(h, k) \/ Miss(h, k)
         \/ \E resp \in Response : Produce(h, resp)
         \/ \E victim \in Victims(fetch[h].key) : Put(h, victim)
         \/ GiveUp(h)
    \/ Tick

Spec == Init /\ [][Next]_vars

-----------------------------------------------------------------------------
\* Entries and fetches have their types.
TypeOK ==
    /\ DOMAIN map \subseteq Key
    /\ \A k \in DOMAIN map : map[k].expires_at \in 0 .. ttl /\ map[k].age \in 0 .. MaxAge
    /\ \A h \in Handler : /\ fetch[h].pc \in {"idle", "asked", "reading", "answered"}
                           /\ fetch[h].key \in Key /\ fetch[h].age \in 0 .. timeout

\* The cache never holds more than its capacity, however many handlers missed
\* at once and store their answers together.
CapacityKept == Cardinality(DOMAIN map) <= capacity

\* What a hit serves left the upstream at most ttl plus the request timeout ago,
\* also when a slow handler stores an old answer over a newer one.
HitsAreFresh == \A k \in DOMAIN map : live(k) => map[k].age < ttl + timeout

\* A live entry only gives way to another answer for its key, or when every
\* entry of a full cache is live.
LiveEntriesKept ==
    [][\A k \in DOMAIN map : live(k) /\ k \notin DOMAIN map' =>
         Cardinality(DOMAIN map) >= capacity /\ Expired = {}]_vars

\* Every client gets what it would have got from the upstream itself: its own
\* correlation id, also when the entry was stored for another request, and the
\* transformed headers, on which a second pass of the transforms on a hit has no
\* effect.  A hit differs only in x-cache, and in having just the last value of
\* a repeated name and none that is not text.
HitsReplayMisses ==
    \A h \in Handler : fetch[h].pc = "answered" =>
        \E resp \in Response :
            LET miss == miss_headers(out_headers(resp, h))
                kept == header_pairs(miss)
            IN  \/ fetch[h].headers = miss
                \/ /\ response_cacheable(resp)
                   /\ fetch[h].headers = [n \in DOMAIN kept |->
                         IF n = "x-cache" THEN << <<"HIT">> >> ELSE <<last_value(kept[n])>>]
=============================================================================
