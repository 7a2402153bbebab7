------------------------------ MODULE Admission -----------------------------
(***************************************************************************)
(* What happens to a request of a rate limited route between matching and  *)
(* the first upstream call: authentication (crates/gateway/src/auth.rs),   *)
(* the choice of the rate key and the limiter (proxy.rs, composed with     *)
(* module InMemoryLimiter), and the headers sent upstream (transform.rs).  *)
(***************************************************************************)
EXTENDS InMemoryLimiter, HeaderOps

CONSTANTS
    Route,              \* route configurations: auth, scope, request_headers
    Request,            \* incoming requests: the peer address and the headers
    Jwt                 \* what decode makes of a token: valid, and its claims

\* The value of an X-Api-Key header is not split.
ASSUME RequestAssumption ==
    \A r \in Request : \A v \in get(r.headers, "x-api-key") : v = <<v[1]>>

VARIABLES
    route,              \* the configuration of the route
    last                \* how the latest request was handled

admissionVars == <<vars, route, last>>

-----------------------------------------------------------------------------
\* The credential of an Authorization value, with or without "Bearer ".
credential(value) == Last(value)

extract_api_key(headers) ==
    LET own == {v[1] : v \in get(headers, "x-api-key")} \ {""}
    IN  IF own # {} THEN own ELSE {credential(v) : v \in get(headers, "authorization")} \ {""}

bearer_token(headers) ==
    {v[2] : v \in {v \in get(headers, "authorization") : Len(v) = 2}} \ {""}

\* Strings, numbers and booleans have a text, other JSON values have none.
value_as_string(json) == IF json.type \in {"string", "number", "bool"} THEN {json.text} ELSE {}

\* decode checks signature, algorithm and expiry.
validate_jwt(headers, required) ==
    \E token \in bearer_token(headers) \cap DOMAIN Jwt :
        /\ Jwt[token].valid
        /\ \A claim \in DOMAIN required :
             /\ claim \in DOMAIN Jwt[token].claims
             /\ value_as_string(Jwt[token].claims[claim]) = {required[claim]}

authorize(policy, headers) ==
    \/ policy.type = "none"
    \/ policy.type = "api_key" /\ extract_api_key(headers) \cap policy.keys # {}
    \/ policy.type = "jwt" /\ validate_jwt(headers, policy.required_claims)

-----------------------------------------------------------------------------
\* The first address of X-Forwarded-For, or else the peer.
client_ip(headers, peer) ==
    LET first == {v[1] : v \in get(headers, "x-forwarded-for")} \ {""}
    IN  CHOOSE ip \in IF first # {} THEN first ELSE {peer} : TRUE

\* Mutant of rate_key: the Authorization header comes first.
rate_key_TokenFirst(scope, ip, headers) ==
    LET own == {v[1] : v \in get(headers, "x-api-key")}
        auth == {credential(v) : v \in get(headers, "authorization")}
    IN  IF scope = "ip" THEN <<scope, ip>>
        ELSE IF scope = "route" THEN <<scope, "">>
        ELSE <<scope, CHOOSE key \in IF auth # {} THEN auth ELSE IF own # {} THEN own
                                     ELSE {"anon"} : TRUE>>

rate_key(scope, ip, headers) ==
    LET own == {v[1] : v \in get(headers, "x-api-key")}
        auth == {credential(v) : v \in get(headers, "authorization")}
    IN  IF scope = "ip" THEN <<scope, ip>>
        ELSE IF scope = "route" THEN <<scope, "">>
        ELSE <<scope, CHOOSE key \in IF own # {} THEN own ELSE IF auth # {} THEN auth
                                     ELSE {"anon"} : TRUE>>

\* Key holds the rate key of every request that authentication lets through.
ASSUME KeyAssumption ==
    \A rt \in Route, r \in Request :
        authorize(rt.auth, r.headers) =>
            rate_key(rt.scope, client_ip(r.headers, r.peer), r.headers) \in Key

-----------------------------------------------------------------------------
\* The id of the request: its own or a new one.
correlation(headers) ==
    IF get(headers, "x-request-id") # {} THEN headers["x-request-id"][1] ELSE <<"uuid">>

\* Mutant of sent_headers: the transforms come last.
sent_headers_TransformsLast(r) ==
    LET ip == client_ip(r.headers, r.peer)
        host == IF get(r.headers, "host") # {} THEN r.headers["host"][1] ELSE <<"">>
    IN  apply_transforms(insert(forwarded_request_headers(r.headers, ip, host),
                                "x-request-id", correlation(r.headers)),
                         route.request_headers)

\* fwd_headers: forwarding headers, transforms, and the correlation id last.
sent_headers(r) ==
    LET ip == client_ip(r.headers, r.peer)
        host == IF get(r.headers, "host") # {} THEN r.headers["host"][1] ELSE <<"">>
    IN  insert(apply_transforms(forwarded_request_headers(r.headers, ip, host),
                                route.request_headers),
               "x-request-id", correlation(r.headers))

-----------------------------------------------------------------------------
None == [status |-> "none"]

InitAdmission == Init /\ route \in Route /\ last = None

\* Authentication fails: 401 before the limiter is asked.
Reject(r) ==
    /\ last = None /\ ~authorize(route.auth, r.headers)
    /\ last' = [status |-> "401", request |-> r]
    /\ UNCHANGED <<vars, route>>

\* The limiter decides: 429 with the time to wait, or the request goes on with
\* the headers it will be sent upstream with.
Admit(r, age) ==
    /\ last = None /\ authorize(route.auth, r.headers)
    /\ LET key == rate_key(route.scope, client_ip(r.headers, r.peer), r.headers)
       IN  /\ check(key, age)
           /\ last' = IF key \in denied'
                      THEN [status |-> "429", request |-> r, key |-> key,
                            retry_after |-> reset_secs(key, age)]
                      ELSE [status |-> "sent", request |-> r, key |-> key,
                            headers |-> sent_headers(r)]
    /\ UNCHANGED route

\* The handler goes on.
Proceed == last # None /\ last' = None /\ UNCHANGED <<vars, route>>

Elapse == last = None /\ Tick /\ UNCHANGED <<route, last>>

NextAdmission ==
    \/ \E r \in Request : Reject(r) \/ \E age \in Age : Admit(r, age)
    \/ Proceed \/ Elapse

SpecAdmission == InitAdmission /\ [][NextAdmission]_admissionVars

-----------------------------------------------------------------------------
\* A request is counted under the API key that authorised it, so the limit is
\* per key and one key's traffic never uses up another's; the exception is an
\* empty X-Api-Key next to a good Authorization header, where authentication
\* skips the empty value and the rate key does not.
CountedUnderItsKey ==
    /\ last.status \in {"429", "sent"} /\ route.scope = "api_key" /\ route.auth.type = "api_key"
    /\ <<"">> \notin get(last.request.headers, "x-api-key")
    => \E key \in route.auth.keys : /\ last.key = <<"api_key", key>>
                                    /\ extract_api_key(last.request.headers) = {key}

\* A denied client that waits Retry-After and one second more finds the window
\* that denied it over; the whole seconds in the header fall short by less than
\* one second, and exceed what is left at most by the delay of the reading.
RetryAfterTight ==
    last.status = "429" =>
        \A e \in windows[last.key] :
            LET left == window + e.start
            IN  last.retry_after * SEC - Stall <= left /\ left < (last.retry_after + 1) * SEC

\* What reaches the upstream: exactly one correlation id, the client's own if it
\* has one, whatever the transforms say; no hop-by-hop header but those the
\* configuration adds; and every other header the client sent with all its
\* values, unless the configuration removes or replaces it.
HeadersFaithful ==
    last.status = "sent" =>
        LET h == last.request.headers
            t == route.request_headers
            set == {"x-request-id", "x-forwarded-for", "x-real-ip", "x-forwarded-host",
                    "x-forwarded-proto"}
        IN  /\ last.headers["x-request-id"] = <<correlation(h)>>
            /\ \A n \in DOMAIN last.headers : is_hop_by_hop(n) => n \in DOMAIN t.add
            /\ \A n \in DOMAIN h \ (set \cup t.remove \cup DOMAIN t.add) :
                 is_hop_by_hop(n) \/ (n \in DOMAIN last.headers /\ last.headers[n] = h[n])
            /\ \A n \in DOMAIN t.add \ {"x-request-id"} : last.headers[n] = <<t.add[n]>>
=============================================================================
