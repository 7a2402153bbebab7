--------------------------- MODULE LifecycleProofs --------------------------
(***************************************************************************)
(* The shutdown of Lifecycle is complete for any number of upstreams and   *)
(* connections.                                                            *)
(***************************************************************************)
EXTENDS Lifecycle, TLAPS

(***************************************************************************)
(* The inductive invariant.  That nothing is left when main returns Ok     *)
(* rests on the order of its awaits, on each server completing only        *)
(* without connections, and on the supervisor joining every prober.        *)
(***************************************************************************)
Awaited ==
    /\ main = "starting" => \A s \in Server : server[s] = "none"
    /\ main \in {"admin", "health", "ok"} => server["proxy"] = "ended"
    /\ main \in {"health", "ok"} => server["admin"] = "ended"
    /\ main = "ok" => health = "done"

Joined == health = "done" => shutdown /\ \A u \in Upstream : prober[u] = "done"

NoConnection == \A s \in Server : server[s] \in {"none", "spawned", "ended"} =>
                                     \A c \in Client : conn[s][c] = "free"

NoneCutOff == main = "err" => \A c \in Client : conn["proxy"][c] = "free"

LifeInv == TypeOK /\ Awaited /\ Joined /\ NoConnection /\ NoneCutOff

USE DEF Server, Running

-----------------------------------------------------------------------------
\* Nothing runs yet when the process starts.
LEMMA InitLifeInv == Init => LifeInv
<1> SUFFICES ASSUME Init PROVE LifeInv
  OBVIOUS
<1>1. /\ server \in [Server -> {"none", "spawned", "listening", "draining", "ended"}]
      /\ \A s \in Server : server[s] = "none"
  BY DEF Init
<1>2. /\ conn \in [Server -> [Client -> {"free", "idle", "busy", "closing"}]]
      /\ \A s \in Server, c \in Client : conn[s][c] = "free"
  BY DEF Init
<1>3. /\ due \in [Upstream -> BOOLEAN] /\ healthy \in [Upstream -> BOOLEAN]
      /\ up \in [Upstream -> BOOLEAN]
  BY DEF Init
<1>4. prober \in [Upstream -> {"none", "select", "probing", "done"}]
  BY DEF Init
<1>5. main = "starting" /\ shutdown = FALSE /\ signal = "none" /\ health = "none"
  BY DEF Init
<1>6. TypeOK
  BY <1>1, <1>2, <1>3, <1>4, <1>5 DEF TypeOK
<1>7. QED
  BY <1>1, <1>2, <1>5, <1>6 DEF LifeInv, Awaited, Joined, NoConnection, NoneCutOff

\* Steps of main and of the signal task.
LEMMA MainPreserves ==
    ASSUME LifeInv,
           \/ \E ok \in BOOLEAN : Start(ok)
           \/ Await \/ InstallHandlers \/ Signal \/ Cancel
    PROVE  LifeInv'
<1> USE DEF LifeInv, TypeOK, Awaited, Joined, NoConnection, NoneCutOff, probeVars, serveVars
<1>1. CASE \E ok \in BOOLEAN : Start(ok)
  BY <1>1 DEF Start
<1>2. CASE Await
  BY <1>2 DEF Await
<1>3. CASE InstallHandlers
  BY <1>3 DEF InstallHandlers
<1>4. CASE Signal
  BY <1>4 DEF Signal
<1>5. CASE Cancel
  BY <1>5 DEF Cancel
<1>6. QED BY <1>1, <1>2, <1>3, <1>4, <1>5

\* Steps of the health tasks.
LEMMA HealthPreserves ==
    ASSUME LifeInv,
           \/ SpawnProbers \/ JoinProbers
           \/ \E u \in Upstream : \/ TickerFires(u) \/ StartProbe(u) \/ ProbeEnds(u)
                                  \/ StopProber(u) \/ Flip(u)
    PROVE  LifeInv'
<1> USE DEF LifeInv, TypeOK, Awaited, Joined, NoConnection, NoneCutOff, probeVars, serveVars
<1>1. CASE SpawnProbers
  BY <1>1 DEF SpawnProbers
<1>2. CASE JoinProbers
  BY <1>2 DEF JoinProbers
<1>3. ASSUME NEW u \in Upstream, TickerFires(u) PROVE LifeInv'
  BY <1>3 DEF TickerFires
<1>4. ASSUME NEW u \in Upstream, StartProbe(u) PROVE LifeInv'
  BY <1>4 DEF StartProbe
<1>5. ASSUME NEW u \in Upstream, ProbeEnds(u) PROVE LifeInv'
  BY <1>5 DEF ProbeEnds
<1>6. ASSUME NEW u \in Upstream, StopProber(u) PROVE LifeInv'
  BY <1>6 DEF StopProber
<1>7. ASSUME NEW u \in Upstream, Flip(u) PROVE LifeInv'
  BY <1>7 DEF Flip
<1>8. QED BY <1>1, <1>2, <1>3, <1>4, <1>5, <1>6, <1>7

\* Steps of the servers.
LEMMA ServerPreserves ==
    ASSUME LifeInv, NEW s \in Server,
           (\E ok \in BOOLEAN : Bind(s, ok)) \/ StopListening(s) \/ Drained(s)
    PROVE  LifeInv'
<1> USE DEF LifeInv, TypeOK, Awaited, Joined, NoConnection, NoneCutOff, probeVars
<1>1. ASSUME NEW ok \in BOOLEAN, Bind(s, ok) PROVE LifeInv'
  BY <1>1 DEF Bind
<1>2. CASE StopListening(s)
  BY <1>2 DEF StopListening
<1>3. CASE Drained(s)
  BY <1>3 DEF Drained
<1>4. QED BY <1>1, <1>2, <1>3

\* A connection of a server that has one or accepts one.
LEMMA BecomesPreserves ==
    ASSUME LifeInv, NEW s \in Server, NEW c \in Client, Running,
           NEW state \in {"free", "idle", "busy", "closing"}, Becomes(s, c, state),
           conn[s][c] # "free" \/ server[s] = "listening"
    PROVE  LifeInv'
<1>1. server[s] \in {"listening", "draining"}
  BY DEF LifeInv, TypeOK, NoConnection
<1>2. conn' \in [Server -> [Client -> {"free", "idle", "busy", "closing"}]]
  BY DEF Becomes, LifeInv, TypeOK
<1>3. \A t \in Server \ {s} : conn'[t] = conn[t]
  BY DEF Becomes, LifeInv, TypeOK
<1>4. UNCHANGED <<main, shutdown, signal, health, prober, due, healthy, up, server>>
  BY DEF Becomes, probeVars
<1>5. TypeOK'
  BY <1>1, <1>2, <1>3, <1>4 DEF LifeInv, TypeOK
<1>6. NoConnection'
  BY <1>1, <1>3, <1>4 DEF LifeInv, NoConnection
<1>7. Awaited' /\ Joined' /\ NoneCutOff'
  BY <1>4 DEF LifeInv, Awaited, Joined, NoneCutOff
<1>8. QED BY <1>5, <1>6, <1>7 DEF LifeInv

\* Steps of the connections.
LEMMA ConnectionPreserves ==
    ASSUME LifeInv, NEW s \in Server, NEW c \in Client,
           \/ Accept(s, c) \/ Request(s, c) \/ Answer(s, c) \/ Leave(s, c) \/ Close(s, c)
    PROVE  LifeInv'
<1>1. CASE Accept(s, c)
  BY <1>1, BecomesPreserves DEF Accept
<1>2. CASE Request(s, c)
  BY <1>2, BecomesPreserves DEF Request
<1>3. CASE Answer(s, c)
  BY <1>3, BecomesPreserves DEF Answer
<1>4. CASE Leave(s, c)
  BY <1>4, BecomesPreserves DEF Leave
<1>5. CASE Close(s, c)
  BY <1>5, BecomesPreserves DEF Close
<1>6. QED BY <1>1, <1>2, <1>3, <1>4, <1>5

\* Every step of the process preserves the invariant.
LEMMA NextLifeInv == LifeInv /\ [Next]_vars => LifeInv'
<1> SUFFICES ASSUME LifeInv, [Next]_vars PROVE LifeInv'
  OBVIOUS
<1>1. CASE UNCHANGED vars
  BY <1>1 DEF vars, probeVars, serveVars, LifeInv, TypeOK, Awaited, Joined, NoConnection, NoneCutOff
<1>2. CASE Next
  BY <1>2, MainPreserves, HealthPreserves, ServerPreserves, ConnectionPreserves DEF Next
<1>3. QED BY <1>1, <1>2

\* The invariant holds in every state of the process.
THEOREM LifeInvariant == Spec => []LifeInv
<1>1. QED BY InitLifeInv, NextLifeInv, PTL DEF Spec

\* The tasks are where their code can be, for any upstreams and connections.
THEOREM LifecycleTypes == Spec => []TypeOK
<1>1. QED BY LifeInvariant, PTL DEF LifeInv

\* For any number of upstreams and connections, main returns Ok only after a
\* signal, with every accepted request answered and every prober ended, and an
\* error never ends it while a proxied request is being handled.
THEOREM ShutdownIsComplete == Spec => []DrainComplete
<1>1. LifeInv => DrainComplete
  BY DEF LifeInv, Awaited, Joined, NoConnection, NoneCutOff, DrainComplete
<1>2. QED BY <1>1, LifeInvariant, PTL
=============================================================================
