------------------------------ MODULE MCRouter ------------------------------
(***************************************************************************)
(* An instance of Router for TLC: every table of three routes over five    *)
(* prefixes with and without a host, tables that fail validation, and all  *)
(* paths of up to four characters.                                         *)
(***************************************************************************)
EXTENDS Router

Text == [slash |-> <<"/">>, double |-> <<"/", "/">>, a |-> <<"/", "a">>,
         aslash |-> <<"/", "a", "/">>, aa |-> <<"/", "a", "/", "a">>]

Route(name, host, prefix, strip) ==
    [name |-> name, matches |-> [host |-> host, path_prefix |-> prefix],
     strip_path_prefix |-> strip, upstreams |-> <<[scheme |-> "http", weight |-> 1]>>,
     auth |-> [type |-> "none", keys |-> {}]]

RouteHosts == {{}, {<<"A", ":", "1">>}}
RoutePrefixes == {Text[t] : t \in DOMAIN Text}

Tables ==
    {[j \in 1 .. 3 |-> Route(<<"r1", "r2", "r3">>[j], h[j], p[j], TRUE)] :
        h \in [1 .. 3 -> RouteHosts], p \in [1 .. 3 -> RoutePrefixes]}

Good == Route("r1", {}, Text.a, FALSE)
Invalid ==
    {<<>>, <<Good, [Good EXCEPT !.matches.path_prefix = Text.slash]>>,
     <<[Good EXCEPT !.upstreams = <<>>]>>, <<[Good EXCEPT !.upstreams[1].scheme = "ftp"]>>,
     <<[Good EXCEPT !.upstreams[1].weight = 0]>>, <<[Good EXCEPT !.matches.path_prefix = <<"a">>]>>,
     <<[Good EXCEPT !.auth.type = "api_key"]>>}

MCConfig == Tables \cup Invalid \cup {<<Good>>}
MCHost == {<<>>, <<"a">>, <<"a", ":", "2">>}
MCPath == {p \in SeqOf({"/", "a"}, 4) : p # <<>> /\ p[1] = "/"}
=============================================================================
