----------------------------- MODULE MCAdmission ----------------------------
(***************************************************************************)
(* An instance of Admission for TLC: a route without authentication that   *)
(* limits by address, one that limits API keys, and one with tokens and a  *)
(* shared limit, and requests with and without each header that matters,   *)
(* absent, empty, repeated and unreadable.                                 *)
(***************************************************************************)
EXTENDS Admission

Keep == [add |-> <<>>, remove |-> {}]
Edit == [add |-> [n \in {"connection", "x-request-id"} |-> <<"set">>], remove |-> {"x-custom"}]

MCRoute ==
    {[auth |-> [type |-> "none"], scope |-> "ip", request_headers |-> Keep],
     [auth |-> [type |-> "api_key", keys |-> {"k1", "k2"}], scope |-> "api_key",
      request_headers |-> Edit],
     [auth |-> [type |-> "jwt", required_claims |-> [level |-> "1"]], scope |-> "route",
      request_headers |-> Keep]}

MCJwt ==
    [good   |-> [valid |-> TRUE, claims |-> [level |-> [type |-> "number", text |-> "1"]]],
     list   |-> [valid |-> TRUE, claims |-> [level |-> [type |-> "array", text |-> "1"]]],
     forged |-> [valid |-> FALSE, claims |-> [level |-> [type |-> "string", text |-> "1"]]]]

Common == [n \in {"host", "connection", "x-custom"} |->
              IF n = "x-custom" THEN << <<"v1">>, <<"v2">> >> ELSE << <<n>> >>]
With(name, values) == (name :> values) @@ Common

Forwarded == {With("x-forwarded-for", lines) :
                 lines \in {<< <<"a1">> >>, << <<"a1", "a2">>, <<"a3">> >>, << <<"">> >>, <<Opaque>>}}
Presented ==
    {With("x-api-key", <<v>>) : v \in {<<"k1">>, <<"k9">>, Opaque}}
    \cup {With("authorization", <<v>>) : v \in {<<"k2">>, <<"Bearer", "good">>, <<"Bearer", "list">>,
                                               <<"Bearer", "forged">>}}
    \cup {With("x-api-key", <<v>>) @@ With("authorization", << <<"Bearer", "k2">> >>) :
             v \in {<<"">>, <<"k1">>}}

MCRequest ==
    {[peer |-> "p1", headers |-> h] :
        h \in {Common, With("x-request-id", << <<"id">>, <<"id2">> >>)} \cup Forwarded \cup Presented}

MCKey == ({"ip"} \X {"a1", "p1"}) \cup ({"api_key"} \X {"", "k1", "k2"}) \cup {<<"route", "">>}
=============================================================================
