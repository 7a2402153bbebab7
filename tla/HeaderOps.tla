----------------------------- MODULE HeaderOps ------------------------------
(***************************************************************************)
(* Header maps as the gateway rewrites them (crates/gateway/src/           *)
(* transform.rs): a function from names to the non-empty sequence of the   *)
(* values of that name.  A value is the sequence of the parts the code     *)
(* splits it into: the addresses of X-Forwarded-For, "Bearer" and a token, *)
(* the directives of Cache-Control, or one part.  The empty value is       *)
(* <<"">>, and Opaque is one that to_str refuses.  Options are sets of at  *)
(* most one element.                                                       *)
(***************************************************************************)
EXTENDS Functions, SequencesExt

Opaque == <<"opaque">>

\* headers.get(name).and_then(to_str): only the first value of a name counts.
get(headers, name) ==
    IF name \in DOMAIN headers /\ headers[name][1] # Opaque THEN {headers[name][1]} ELSE {}

\* headers.insert replaces all values of the name.
insert(headers, name, value) ==
    [n \in DOMAIN headers \cup {name} |-> IF n = name THEN <<value>> ELSE headers[n]]

\* "connection" and "host" stand for the ten names of HOP_BY_HOP.
is_hop_by_hop(name) == name \in {"connection", "host"}

\* The copying loop of forwarded_request_headers and filtered_response_headers.
end_to_end(headers) == Restrict(headers, {n \in DOMAIN headers : ~is_hop_by_hop(n)})

\* The end-to-end headers with the X-Forwarded-* and X-Real-IP headers set.
forwarded_request_headers(headers, ip, host) ==
    LET chain == IF get(headers, "x-forwarded-for") = {} THEN <<ip>>
                 ELSE Append(headers["x-forwarded-for"][1], ip)
    IN  insert(insert(insert(insert(end_to_end(headers),
                                    "x-forwarded-for", chain),
                             "x-real-ip", <<ip>>),
                      "x-forwarded-host", host),
               "x-forwarded-proto", <<"http">>)

\* The configured removals, then the configured additions.  t holds the entries
\* whose names and values parse: the code skips the others in silence.
apply_transforms(headers, t) ==
    [n \in DOMAIN t.add \cup (DOMAIN headers \ t.remove) |->
        IF n \in DOMAIN t.add THEN <<t.add[n]>> ELSE headers[n]]
=============================================================================
