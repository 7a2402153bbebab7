------------------------------- MODULE Router -------------------------------
(***************************************************************************)
(* Start-up and routing: GatewayConfig::validate (crates/core/src/         *)
(* config.rs), the table of route runtimes GatewayState::build makes of a  *)
(* valid configuration (state.rs), and the matching of a request to a      *)
(* route with the rewriting of its path (crates/core/src/router.rs), one   *)
(* step per iteration of the loop in match_route.                          *)
(*                                                                         *)
(* Host names, path prefixes and paths are sequences of characters over a  *)
(* small alphabet, because ports, letter case, segment boundaries and      *)
(* trailing slashes are what the code tells apart.                         *)
(***************************************************************************)
EXTENDS Naturals, SequencesExt

CONSTANTS
    Char,               \* characters
    Config,             \* the route tables an operator may write
    Host,               \* Host headers of requests; <<>> when there is none
    Path                \* paths of request URIs

\* Route tables, prefixes, hosts and paths are sequences.
ASSUME CharAssumption == "/" \in Char
ASSUME ConfigAssumption ==
    \A routes \in Config :
        /\ routes \in Seq(ToSet(routes))
        /\ \A r \in ToSet(routes) : r.matches.path_prefix \in Seq(Char)
ASSUME RequestAssumption == Host \subseteq Seq(Char) /\ Path \subseteq Seq(Char)

VARIABLES
    phase,              \* "starting", "serving" or "stopped"
    config,             \* GatewayConfig.routes
    runtimes,           \* GatewayState.routes: from route names to configurations
    pc,                 \* "idle", "matching" or "matched"
    request,            \* the host and the path being matched
    i,                  \* the next route match_route looks at
    best, best_len,     \* its locals; best is an Option of an index
    forwarded           \* the path sent upstream; <<>> when no route matches

matchVars == <<pc, request, i, best, best_len, forwarded>>
vars == <<phase, config, runtimes, matchVars>>

-----------------------------------------------------------------------------
\* Mutant of validate: route names may repeat.
validate_AllowsDuplicates(routes) ==
    /\ routes # <<>>
    /\ \A r \in ToSet(routes) : r.upstreams # <<>> /\ r.matches.path_prefix # <<>>

\* GatewayConfig::validate answers Ok.
validate(routes) ==
    /\ routes # <<>>
    /\ \A j, k \in DOMAIN routes : routes[j].name = routes[k].name => j = k
    /\ \A r \in ToSet(routes) :
         /\ r.upstreams # <<>>
         /\ \A u \in ToSet(r.upstreams) : u.scheme \in {"http", "https"} /\ u.weight > 0
         /\ r.matches.path_prefix # <<>> /\ r.matches.path_prefix[1] = "/"
         /\ r.auth.type = "api_key" => r.auth.keys # {}

\* GatewayState::build: inserting the routes in order keeps the last of a name.
build(routes) ==
    [name \in {r.name : r \in ToSet(routes)} |->
        LET named(r) == r.name = name IN routes[SelectLastInSeq(routes, named)]]

-----------------------------------------------------------------------------
to_ascii_lowercase(c) == IF c = "A" THEN "a" ELSE c
eq_ignore_ascii_case(s, t) ==
    Len(s) = Len(t) /\ \A k \in DOMAIN s : to_ascii_lowercase(s[k]) = to_ascii_lowercase(t[k])

\* The part of a host before its first colon.
strip_port(host) ==
    LET colon(c) == c = ":" IN
    IF Contains(host, ":") THEN SubSeq(host, 1, SelectInSeq(host, colon) - 1) ELSE host

host_matches(host, route) ==
    \A want \in route.matches.host : eq_ignore_ascii_case(strip_port(host), strip_port(want))

\* prefix.trim_end_matches('/')
trim_end(prefix) ==
    LET other(c) == c # "/" IN SubSeq(prefix, 1, SelectLastInSeq(prefix, other))

\* The path is the prefix or goes on after it at a segment boundary.
path_matches(path, prefix) ==
    \/ prefix = <<"/">>
    \/ path = trim_end(prefix)
    \/ /\ IsPrefix(trim_end(prefix), path)
       /\ Len(path) > Len(trim_end(prefix)) /\ path[Len(trim_end(prefix)) + 1] = "/"

\* Mutant of forward_path: strips the prefix as it is configured.
forward_path_KeepsSlash(path, route) ==
    LET prefix == route.matches.path_prefix
    IN  IF ~route.strip_path_prefix \/ prefix = <<"/">> THEN path
        ELSE IF path = prefix THEN <<"/">>
        ELSE IF IsPrefix(prefix, path) THEN SubSeq(path, Len(prefix) + 1, Len(path)) ELSE path

\* The path without the matched prefix, if the route strips it.
forward_path(path, route) ==
    LET prefix == trim_end(route.matches.path_prefix)
    IN  IF ~route.strip_path_prefix \/ route.matches.path_prefix = <<"/">> THEN path
        ELSE IF path = prefix THEN <<"/">>
        ELSE IF IsPrefix(prefix, path) THEN SubSeq(path, Len(prefix) + 1, Len(path)) ELSE path

-----------------------------------------------------------------------------
NoRequest == [host |-> <<>>, path |-> <<>>]

Init ==
    /\ phase = "starting" /\ config = <<>> /\ runtimes = <<>>
    /\ pc = "idle" /\ request = NoRequest
    /\ i = 1 /\ best = {} /\ best_len = 0 /\ forwarded = <<>>

\* from_file: main goes on to build the state, or stops because the file cannot
\* be read or parsed or the configuration is not valid.
Load(routes, parsed) ==
    /\ phase = "starting"
    /\ IF parsed /\ validate(routes)
       THEN phase' = "serving" /\ config' = routes /\ runtimes' = build(routes)
       ELSE phase' = "stopped" /\ UNCHANGED <<config, runtimes>>
    /\ UNCHANGED matchVars

\* A request reaches match_route.
Receive(host, path) ==
    /\ phase = "serving" /\ pc = "idle"
    /\ pc' = "matching" /\ request' = [host |-> host, path |-> path]
    /\ UNCHANGED <<phase, config, runtimes, i, best, best_len, forwarded>>

\* Mutant of more_specific: the last of equal routes wins.
more_specific_LastWins(route) == Len(route.matches.path_prefix) >= best_len

\* A longer prefix, or an equally long one of a route that names its host.
more_specific(route) ==
    \/ Len(route.matches.path_prefix) > best_len
    \/ /\ Len(route.matches.path_prefix) = best_len
       /\ route.matches.host # {} /\ \E b \in best : config[b].matches.host = {}

\* One iteration of the loop of match_route.
Consider ==
    /\ pc = "matching" /\ i <= Len(config)
    /\ LET route == config[i]
       IN  IF /\ host_matches(request.host, route)
              /\ path_matches(request.path, route.matches.path_prefix)
              /\ best = {} \/ more_specific(route)
           THEN best' = {i} /\ best_len' = Len(route.matches.path_prefix)
           ELSE UNCHANGED <<best, best_len>>
    /\ i' = i + 1
    /\ UNCHANGED <<phase, config, runtimes, pc, request, forwarded>>

\* The loop is over: the handler looks up the runtime of the matched route by
\* its name and forwards the path as that route says, or answers 404 or 500.
Dispatch ==
    /\ pc = "matching" /\ i > Len(config)
    /\ pc' = "matched"
    /\ forwarded' =
         IF \E b \in best : config[b].name \in DOMAIN runtimes
         THEN forward_path(request.path, runtimes[config[CHOOSE b \in best : TRUE].name])
         ELSE <<>>
    /\ UNCHANGED <<phase, config, runtimes, request, i, best, best_len>>

\* The handler goes on and the next request comes.
Done ==
    /\ pc = "matched"
    /\ pc' = "idle" /\ request' = NoRequest
    /\ i' = 1 /\ best' = {} /\ best_len' = 0 /\ forwarded' = <<>>
    /\ UNCHANGED <<phase, config, runtimes>>

Next ==
    \/ \E routes \in Config, parsed \in BOOLEAN : Load(routes, parsed)
    \/ \E host \in Host, path \in Path : Receive(host, path)
    \/ Consider
    \/ Dispatch
    \/ Done

Spec == Init /\ [][Next]_vars

-----------------------------------------------------------------------------
\* What the documents promise of matching: a path lies below a prefix when it
\* goes on at a segment boundary, which a closing slash on both makes visible.
Below(path, prefix) == IsPrefix(Append(trim_end(prefix), "/"), Append(path, "/"))
Matching ==
    {j \in DOMAIN config : /\ host_matches(request.host, config[j])
                           /\ \/ config[j].matches.path_prefix = <<"/">>
                              \/ Below(request.path, config[j].matches.path_prefix)}
Specificity(j) == [len |-> Len(config[j].matches.path_prefix), host |-> config[j].matches.host # {}]
Beats(j, k) ==
    \/ Specificity(j).len > Specificity(k).len
    \/ Specificity(j).len = Specificity(k).len /\ Specificity(j).host /\ ~Specificity(k).host

\* match_route returns the route with the longest matching prefix, a route that
\* names its host before one that does not, whatever the order of the routes;
\* only among routes alike in both does the order decide, for the first.
MostSpecificWins ==
    pc = "matched" =>
        /\ best = {} <=> Matching = {}
        /\ \A b \in best : /\ b \in Matching
                           /\ \A j \in Matching : ~Beats(j, b) /\ (Beats(b, j) \/ b <= j)

\* The runtime found by name is the one built from the matched route, so no
\* request is handled with the balancer, limits or keys of another, and the
\* answer 500 "route runtime missing" is never given.
RuntimeOfMatch ==
    pc = "matched" =>
        \A b \in best : /\ config[b].name \in DOMAIN runtimes
                        /\ runtimes[config[b].name] = config[b]

\* The forwarded path is absolute, so that appending it to the base URL of an
\* upstream leaves the host part alone, and with the stripped prefix in front
\* it is the path the client asked for, up to a closing slash.
ForwardedRestores ==
    pc = "matched" /\ best # {} /\ request.path # <<>> /\ request.path[1] = "/" =>
        /\ forwarded # <<>> /\ forwarded[1] = "/"
        /\ \A b \in best :
             LET prefix == IF config[b].strip_path_prefix THEN trim_end(config[b].matches.path_prefix)
                           ELSE <<>>
             IN  prefix \o forwarded \in {request.path, Append(request.path, "/")}
=============================================================================
