--------------------------- MODULE MCResponseCache --------------------------
(***************************************************************************)
(* An instance of ResponseCache for TLC: one storable answer with repeated *)
(* and unreadable headers and ones the gateway sets itself, one private    *)
(* answer, and transforms that touch those headers.                        *)
(***************************************************************************)
EXTENDS ResponseCache

Storable ==
    [n \in {"connection", "set-cookie", "x-bin", "x-cache", "x-request-id", "x-drop"} |->
        CASE n = "set-cookie" -> << <<"a">>, <<"b">>, Opaque>>
          [] n = "x-bin" -> <<Opaque>>
          [] OTHER -> << <<"upstream">> >>]

MCResponse == {Storable, ("cache-control" :> << <<"private">> >>) @@ Storable}

MCTransforms ==
    [add |-> [n \in {"x-request-id", "x-served-by"} |-> <<"gateway">>], remove |-> {"x-drop"}]
=============================================================================
