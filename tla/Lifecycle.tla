------------------------------ MODULE Lifecycle -----------------------------
(***************************************************************************)
(* The gateway process from start to stop (crates/gateway/src/main.rs,     *)
(* server.rs, health.rs): main and the tasks it spawns, namely the signal  *)
(* task, the health supervisor with one prober per upstream, and the admin *)
(* server next to the proxy server that main itself runs.  The tasks share *)
(* nothing but the cancellation token and the health flags.                *)
(*                                                                         *)
(* axum's graceful shutdown is modelled from its use: the listener closes, *)
(* an idle connection is closed, a busy one after its answer, and the      *)
(* server completes when no connection is left.                            *)
(***************************************************************************)
EXTENDS Naturals

CONSTANTS
    Upstream,           \* the upstreams of routes with a health check
    Client              \* client connections of each server

Server == {"proxy", "admin"}

VARIABLES
    main,               \* where main is; "killed" when a signal ended the process
    shutdown,           \* the CancellationToken
    signal,             \* the signal task
    health,             \* the task health::run
    prober,             \* prober[u]: the loop that probes upstream u
    due,                \* due[u]: has its ticker a tick to deliver?
    healthy,            \* Upstream.healthy
    up,                 \* does the upstream answer probes in time, with success?
    server,             \* server[s]: the task of server s
    conn                \* conn[s][c]: the connection of client c to server s

probeVars == <<prober, due, healthy, up>>
serveVars == <<server, conn>>
vars == <<main, shutdown, signal, health, probeVars, serveVars>>

Running == main \in {"starting", "proxy", "admin", "health"}

Init ==
    /\ main = "starting" /\ shutdown = FALSE
    /\ signal = "none" /\ health = "none"
    /\ prober = [u \in Upstream |-> "none"] /\ due = [u \in Upstream |-> FALSE]
    /\ healthy = [u \in Upstream |-> TRUE] /\ up \in [Upstream -> BOOLEAN]
    /\ server = [s \in Server |-> "none"]
    /\ conn = [s \in Server |-> [c \in Client |-> "free"]]

-----------------------------------------------------------------------------
\* main loads the configuration, builds the state and spawns its tasks, or
\* returns the error.
Start(ok) ==
    /\ main = "starting"
    /\ IF ok
       THEN /\ main' = "proxy" /\ signal' = "spawned" /\ health' = "spawned"
            /\ server' = [s \in Server |-> "spawned"]
       ELSE main' = "err" /\ UNCHANGED <<signal, health, server>>
    /\ UNCHANGED <<shutdown, probeVars, conn>>

\* A server binds its address.  An error of the proxy server ends main at once;
\* one of the admin server only ends its task, and nobody looks at it yet.
Bind(s, ok) ==
    /\ Running /\ server[s] = "spawned"
    /\ server' = [server EXCEPT ![s] = IF ok THEN "listening" ELSE "ended"]
    /\ main' = IF s = "proxy" /\ ~ok THEN "err" ELSE main
    /\ UNCHANGED <<shutdown, signal, health, probeVars, conn>>

\* The proxy server completes, or main joins the admin and the health task.
Await ==
    /\ \/ main = "proxy" /\ server["proxy"] = "ended" /\ main' = "admin"
       \/ main = "admin" /\ server["admin"] = "ended" /\ main' = "health"
       \/ main = "health" /\ health = "done" /\ main' = "ok"
    /\ UNCHANGED <<shutdown, signal, health, probeVars, serveVars>>

-----------------------------------------------------------------------------
\* wait_for_signal installs its handlers when the signal task first runs.
InstallHandlers ==
    /\ Running /\ signal = "spawned"
    /\ signal' = "waiting"
    /\ UNCHANGED <<main, shutdown, health, probeVars, serveVars>>

\* SIGTERM or SIGINT: before the handlers are there it kills the process, and
\* after the first one it is ignored.
Signal ==
    /\ Running
    /\ IF signal \in {"none", "spawned"} THEN main' = "killed" /\ UNCHANGED signal
       ELSE signal' = (IF signal = "waiting" THEN "received" ELSE signal) /\ UNCHANGED main
    /\ UNCHANGED <<shutdown, health, probeVars, serveVars>>

Cancel ==
    /\ Running /\ signal = "received"
    /\ signal' = "done" /\ shutdown' = TRUE
    /\ UNCHANGED <<main, health, probeVars, serveVars>>

-----------------------------------------------------------------------------
\* health::run spawns the probers, whose first tick is due at once.
SpawnProbers ==
    /\ Running /\ health = "spawned"
    /\ health' = "watching"
    /\ prober' = [u \in Upstream |-> "select"] /\ due' = [u \in Upstream |-> TRUE]
    /\ UNCHANGED <<main, shutdown, signal, healthy, up, serveVars>>

\* Mutant of JoinProbers: returns on shutdown without joining the probers.
JoinProbers_Skips ==
    /\ Running /\ health = "watching" /\ shutdown
    /\ health' = "done"
    /\ UNCHANGED <<main, shutdown, signal, probeVars, serveVars>>

\* health::run has seen the shutdown and joined every prober.
JoinProbers ==
    /\ Running /\ health = "watching" /\ shutdown
    /\ \A u \in Upstream : prober[u] = "done"
    /\ health' = "done"
    /\ UNCHANGED <<main, shutdown, signal, probeVars, serveVars>>

\* The ticker has another tick to deliver; missed ones are skipped.
TickerFires(u) ==
    /\ Running /\ prober[u] \in {"select", "probing"} /\ ~due[u]
    /\ due' = [due EXCEPT ![u] = TRUE]
    /\ UNCHANGED <<main, shutdown, signal, health, prober, healthy, up, serveVars>>

\* select! takes the tick, also when the shutdown is there too: a probe starts.
StartProbe(u) ==
    /\ Running /\ prober[u] = "select" /\ due[u]
    /\ due' = [due EXCEPT ![u] = FALSE]
    /\ prober' = [prober EXCEPT ![u] = "probing"]
    /\ UNCHANGED <<main, shutdown, signal, health, healthy, up, serveVars>>

\* Mutant of ProbeEnds: stores failures only.
ProbeEnds_FailuresOnly(u) ==
    /\ Running /\ prober[u] = "probing"
    /\ healthy' = [healthy EXCEPT ![u] = @ /\ up[u]]
    /\ prober' = [prober EXCEPT ![u] = "select"]
    /\ UNCHANGED <<main, shutdown, signal, health, due, up, serveVars>>

\* The probe is answered, fails or times out: upstream.set_healthy, then back to
\* select!.  The answer is the state of the upstream at this moment; that of an
\* earlier one would be overwritten by the next probe just the same.
ProbeEnds(u) ==
    /\ Running /\ prober[u] = "probing"
    /\ healthy' = [healthy EXCEPT ![u] = up[u]]
    /\ prober' = [prober EXCEPT ![u] = "select"]
    /\ UNCHANGED <<main, shutdown, signal, health, due, up, serveVars>>

\* Mutant of StopProber: select! prefers the tick.
StopProber_TickFirst(u) ==
    /\ Running /\ prober[u] = "select" /\ shutdown /\ ~due[u]
    /\ prober' = [prober EXCEPT ![u] = "done"]
    /\ UNCHANGED <<main, shutdown, signal, health, due, healthy, up, serveVars>>

\* select! takes the shutdown: the prober ends.
StopProber(u) ==
    /\ Running /\ prober[u] = "select" /\ shutdown
    /\ prober' = [prober EXCEPT ![u] = "done"]
    /\ UNCHANGED <<main, shutdown, signal, health, due, healthy, up, serveVars>>

\* An upstream goes down or comes back.
Flip(u) ==
    /\ Running
    /\ up' = [up EXCEPT ![u] = ~@]
    /\ UNCHANGED <<main, shutdown, signal, health, prober, due, healthy, serveVars>>

-----------------------------------------------------------------------------
\* A connection changes its state.
Becomes(s, c, state) ==
    /\ conn' = [conn EXCEPT ![s][c] = state]
    /\ UNCHANGED <<main, shutdown, signal, health, probeVars, server>>

Accept(s, c) ==
    Running /\ server[s] = "listening" /\ conn[s][c] = "free" /\ Becomes(s, c, "idle")

\* A request starts on an open connection, the shutdown notwithstanding.
Request(s, c) == Running /\ conn[s][c] = "idle" /\ Becomes(s, c, "busy")

\* The response is complete.
Answer(s, c) ==
    /\ Running /\ conn[s][c] \in {"busy", "closing"}
    /\ Becomes(s, c, IF conn[s][c] = "busy" THEN "idle" ELSE "free")

\* The client goes away.
Leave(s, c) == Running /\ conn[s][c] # "free" /\ Becomes(s, c, "free")

\* A connection learns of the shutdown.
Close(s, c) ==
    /\ Running /\ shutdown /\ conn[s][c] \in {"idle", "busy"}
    /\ Becomes(s, c, IF conn[s][c] = "idle" THEN "free" ELSE "closing")

\* with_graceful_shutdown: the shutdown future completes and the listener closes.
StopListening(s) ==
    /\ Running /\ shutdown /\ server[s] = "listening"
    /\ server' = [server EXCEPT ![s] = "draining"]
    /\ UNCHANGED <<main, shutdown, signal, health, probeVars, conn>>

\* Mutant of Drained: completes with connections open.
Drained_AtOnce(s) ==
    /\ Running /\ server[s] = "draining"
    /\ server' = [server EXCEPT ![s] = "ended"]
    /\ UNCHANGED <<main, shutdown, signal, health, probeVars, conn>>

\* The last connection is gone and serve returns Ok.
Drained(s) ==
    /\ Running /\ server[s] = "draining" /\ \A c \in Client : conn[s][c] = "free"
    /\ server' = [server EXCEPT ![s] = "ended"]
    /\ UNCHANGED <<main, shutdown, signal, health, probeVars, conn>>

Next ==
    \/ \E ok \in BOOLEAN : Start(ok) \/ \E s \in Server : Bind(s, ok)
    \/ Await \/ InstallHandlers \/ Signal \/ Cancel
    \/ SpawnProbers \/ JoinProbers
    \/ \E u \in Upstream : \/ TickerFires(u) \/ StartProbe(u) \/ ProbeEnds(u)
                           \/ StopProber(u) \/ Flip(u)
    \/ \E s \in Server : \/ StopListening(s) \/ Drained(s)
                         \/ \E c \in Client : \/ Accept(s, c) \/ Request(s, c) \/ Answer(s, c)
                                              \/ Leave(s, c) \/ Close(s, c)

\* The scheduler runs every task that can go on, timers fire, and probes and
\* requests end (by their timeouts, and if clients send and read).  select!
\* looks at its branches in random order, so a prober that finds the shutdown
\* again and again takes it.  Signals and failures need not happen.
Fairness ==
    /\ WF_vars(Await \/ \E ok \in BOOLEAN : Start(ok))
    /\ WF_vars(InstallHandlers \/ Cancel)
    /\ WF_vars(SpawnProbers \/ JoinProbers)
    /\ \A u \in Upstream : /\ WF_vars(TickerFires(u))
                           /\ WF_vars(StartProbe(u) \/ ProbeEnds(u))
                           /\ SF_vars(StopProber(u))
    /\ \A s \in Server : /\ WF_vars(StopListening(s) \/ Drained(s) \/ \E ok \in BOOLEAN : Bind(s, ok))
                         /\ \A c \in Client : WF_vars(Answer(s, c)) /\ WF_vars(Close(s, c))

Spec == Init /\ [][Next]_vars /\ Fairness

-----------------------------------------------------------------------------
\* The tasks are where their code can be.  A server drains only after a shutdown,
\* and no connection outlives it.
TypeOK ==
    /\ main \in {"starting", "proxy", "admin", "health", "ok", "err", "killed"}
    /\ shutdown \in BOOLEAN
    /\ signal \in {"none", "spawned", "waiting", "received", "done"}
    /\ health \in {"none", "spawned", "watching", "done"}
    /\ prober \in [Upstream -> {"none", "select", "probing", "done"}]
    /\ due \in [Upstream -> BOOLEAN]
    /\ healthy \in [Upstream -> BOOLEAN] /\ up \in [Upstream -> BOOLEAN]
    /\ server \in [Server -> {"none", "spawned", "listening", "draining", "ended"}]
    /\ conn \in [Server -> [Client -> {"free", "idle", "busy", "closing"}]]
    /\ \A s \in Server : /\ server[s] = "draining" => shutdown
                         /\ server[s] = "ended" => \A c \in Client : conn[s][c] = "free"

\* main returns Ok only after a signal, when every accepted request of both
\* servers is answered and no probe is in flight that could still set a flag
\* (README.md: "drains in-flight requests and stops health checks"); and an error
\* never ends it while a proxied request is being handled.
DrainComplete ==
    /\ main = "ok" => /\ shutdown
                      /\ \A s \in Server, c \in Client : conn[s][c] = "free"
                      /\ \A u \in Upstream : prober[u] = "done"
    /\ main = "err" => \A c \in Client : conn["proxy"][c] = "free"

\* After a signal that was caught the process ends by itself: no task waits for
\* another that waits for it, and no prober escapes the shutdown.
ShutdownEnds == shutdown ~> main \in {"ok", "err"}

\* The health flag of an upstream that stays up or stays down while the gateway
\* serves is in the end what the upstream is, and stays it.
FlagFollows ==
    \A u \in Upstream, state \in BOOLEAN :
        <>[](main = "proxy" /\ ~shutdown /\ up[u] = state) => <>[](healthy[u] = state)
=============================================================================
