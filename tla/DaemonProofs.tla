---------------------------- MODULE DaemonProofs ----------------------------
(***************************************************************************)
(* Proofs about Daemon, for any number of connections and any environments,*)
(* headers and clock.                                                      *)
(***************************************************************************)
EXTENDS Daemon, TLAPS

NoCfg == [driver |-> "none"]
Cfgs  == {NoCfg} \cup {loadConfig(e) : e \in Envs}

Booting == {"load", "deps", "new", "bind", "start"}
Running == {"ready", "select", "shutdown", "close", "drain", "wait"}
Ending  == {"cleanup", "closing", "return", "exit"}

\* The shapes of the variables.
Main0 == [pc : Booting \cup Running \cup Ending, cfg : Cfgs, code : {"none", "0", "1"},
          store : {"none", "inproc", "open", "closed"}, providers : SUBSET {"in_app"},
          ready : BOOLEAN, failed : BOOLEAN,
          down : 0 .. 3, err : BOOLEAN, cancelled : BOOLEAN]

IdleConn(c) == \E s \in {"client", "internal"}, b \in BOOLEAN : conn[c] = [srv |-> s, h2c |-> b, stage |-> "idle"]

RunConn(c) ==
  /\ conn[c].stage = "run" /\ conn[c].srv \in {"client", "internal"} /\ conn[c].h2c \in BOOLEAN

ConnShape(c) == conn[c] = NoConn \/ IdleConn(c) \/ RunConn(c)

Shape ==
  /\ env \in Envs /\ signal \in BOOLEAN /\ expired \in BOOLEAN /\ now \in Times
  /\ busy \subseteq Conns
  /\ d \in Main0
  /\ ln \in [Servers -> {"none", "bound", "launched", "serving", "closed", "failed"}]
  /\ conn = [c \in Conns |-> conn[c]]
  /\ \A c \in Conns : ConnShape(c)

\* Past loadConfig, the configuration is what an accepted environment resolves to.
Loaded ==
  \/ d.cfg = NoCfg /\ d.pc \in {"load", "exit"}
  \/ d.cfg = loadConfig(env) /\ Accepted(env) /\ d.pc # "load"

\* The fields of the main goroutine fit where it is.
MainOK ==
  /\ IF d.pc \in Ending THEN d.code # "none" ELSE d.code = "none"
  /\ d.pc \in {"load", "deps"} => d.store = "none"
  /\ d.pc \in {"closing", "return", "exit"} => d.store # "open"
  /\ d.store = "closed" => d.pc \in {"closing", "return", "exit"}
  /\ d.ready => d.pc \in {"select", "shutdown"}
  /\ d.pc \in Booting \cup {"ready", "select", "shutdown"} => d.down = 0 /\ ~d.err
  /\ d.pc = "drain" => d.down # 0
  /\ d.pc = "wait" => d.down = 3 /\ ~d.failed /\ ~d.err /\ (d.cfg.live => d.cancelled)
  /\ d.err => expired

\* A process that ends never came to serve ...
Never ==
  /\ d.code = "1"
  /\ \A s \in Servers : ln[s] \in {"none", "closed"}
  /\ \A c \in Conns : conn[c] = NoConn

\* ... or went through the whole of Shutdown.
WasShutDown ==
  /\ d.down = 3
  /\ d.err => d.code = "1"
  /\ \A s \in Servers : ln[s] # "bound"
  /\ d.failed \/ d.err \/ \A s \in Servers : ln[s] \in {"closed", "failed"}
  /\ d.code = "0" => /\ \A s \in Servers : ln[s] \in {"closed", "failed"}
                     /\ d.cfg.live => d.cancelled

EndOK == d.pc \in Ending => Never \/ WasShutDown

\* Listeners fit where the main goroutine is, and bound ports differ.
ListenOK ==
  /\ d.pc \in {"load", "deps", "new"} => \A s \in Servers : ln[s] = "none"
  /\ d.pc = "bind" => \A s \in Servers : ln[s] \in {"none", "bound"}
  /\ d.pc = "start" => \A s \in Servers : ln[s] = "bound"
  /\ d.pc \in Running => \A s \in Servers : ln[s] \in {"launched", "serving", "closed", "failed"}
  /\ \A s \in Servers : IsDown(s) => ln[s] # "serving"
  /\ d.pc \in Running => \A s \in Servers : ln[s] = "closed" => IsDown(s)
  /\ d.pc = "bind" => \A s, t \in Bound : s # t => Port(s) # Port(t)
  /\ d.pc \in {"start"} \cup Running => \A s, t \in Servers : s # t => Port(s) # Port(t)

\* A connection that net/http tracks is gone once its server is down and
\* drained, and is not idle once its server is told to shut down.
DrainOK ==
  /\ d.pc \in Booting => \A c \in Conns : conn[c] = NoConn
  /\ \A s \in Servers : IsDown(s) => \A c \in Tracked(s) : Active(c)
  /\ \A s \in Servers : IsDown(s) /\ ~(d.pc = "drain" /\ s = Order[d.down]) => d.err \/ Tracked(s) = {}

\* The store and the in-app provider are what the configuration asks for, from
\* where they are built on.
StoreIsConfigured ==
  IF d.cfg.driver = "memory" THEN d.store = "inproc" ELSE d.store \in {"open", "closed"}

PartsOK ==
  /\ d.pc = "new" => d.store = IF d.cfg.driver = "memory" THEN "none" ELSE "open"
  /\ d.pc \in {"bind", "start"} \cup Running \cup {"cleanup", "closing", "return"} =>
       StoreIsConfigured /\ ("in_app" \in d.providers <=> d.cfg.live)

\* The inductive invariant.
IInv ==
  Shape /\ Loaded /\ MainOK /\ EndOK /\ ListenOK /\ DrainOK /\ PartsOK /\ ServedAreTrusted

-----------------------------------------------------------------------------
(* The main goroutine's record.                                            *)

\* The order in which the servers are shut down.
LEMMA OrderFacts ==
    ASSUME d.down \in 0 .. 3
    PROVE  /\ Order[1] = "client" /\ Order[2] = "internal" /\ Order[3] = "metrics"
           /\ IsDown("client") <=> d.down # 0
           /\ IsDown("internal") <=> d.down \in {2, 3}
           /\ IsDown("metrics") <=> d.down = 3
           /\ d.down # 0 => Order[d.down] \in Servers
<1>1. Order[1] = "client" /\ Order[2] = "internal" /\ Order[3] = "metrics"
  BY DEF Order
<1>2. CASE d.down = 0
  BY <1>1, <1>2 DEF IsDown
<1>3. CASE d.down = 1
  BY <1>1, <1>3 DEF IsDown, Servers
<1>4. CASE d.down = 2
  BY <1>1, <1>4 DEF IsDown, Servers
<1>5. CASE d.down = 3
  BY <1>1, <1>5 DEF IsDown, Servers
<1>6. QED
  BY <1>1, <1>2, <1>3, <1>4, <1>5

\* Past loadConfig, whether live connections are enabled is known.
LEMMA LiveIsBoolean ==
    ASSUME Loaded, d.pc \notin {"load", "exit"}
    PROVE  d.cfg.live \in BOOLEAN
<1>1. loadConfig(env).live = parseBoolDefault(env.bool["LIVE_CONNECTIONS_ENABLED"], TRUE)
  BY DEF loadConfig
<1>2. parseBoolDefault(env.bool["LIVE_CONNECTIONS_ENABLED"], TRUE) \in BOOLEAN
  BY Zenon DEF parseBoolDefault
<1>3. QED
  BY <1>1, <1>2 DEF Loaded

\* A step is one of the main goroutine, or leaves its record alone.
LEMMA StepKinds ==
    ASSUME [Next]_vars
    PROVE  Main \/ d' = d
<1>1. ASSUME NEW s \in Servers, Serve(s) \/ ServeFails(s) PROVE d' = d
  BY <1>1 DEF Serve, ServeFails
<1>2. CASE Signal \/ Expire \/ Tick
  BY <1>2 DEF Signal, Expire, Tick
<1>3. ASSUME NEW c \in Conns, Request(c) \/ Acquire(c) \/ Release(c) \/ Finish(c) \/ Leave(c)
      PROVE  d' = d
  <2>1. CASE Request(c)
    BY <2>1 DEF Request
  <2>2. CASE Acquire(c) \/ Release(c) \/ Finish(c) \/ Leave(c)
    BY <2>2 DEF Acquire, Release, Finish, Leave
  <2>3. QED
    BY <1>3, <2>1, <2>2
<1>4. CASE UNCHANGED vars
  BY <1>4 DEF vars
<1>5. QED
  BY <1>1, <1>2, <1>3, <1>4 DEF Next, Done

\* Every step keeps the shape of d.
LEMMA MainShape ==
    ASSUME Shape, Loaded, [Next]_vars
    PROVE  d' \in Main0
<1>0. d \in Main0 /\ env \in Envs
  BY DEF Shape
<1>1. CASE LoadConfig
  <2>1. loadConfig(env) \in Cfgs
    BY <1>0 DEF Cfgs
  <2>2. QED
    BY <1>0, <1>1, <2>1 DEF LoadConfig, Main0, Booting, Ending
<1>2. CASE buildDependencies
  BY <1>0, <1>2 DEF buildDependencies, Main0, Booting, Ending
<1>3. CASE NewWithDeps
  <2>1. PICK e \in Main0 : \/ d' = [e EXCEPT !.pc = "cleanup", !.code = "1"]
                            \/ d' = [e EXCEPT !.pc = "bind", !.providers = {"in_app"}]
                            \/ d' = [e EXCEPT !.pc = "bind", !.providers = {}]
    <3>1. [d EXCEPT !.store = IF @ = "none" THEN "inproc" ELSE @] \in Main0
      BY <1>0 DEF Main0
    <3>2. QED
      BY <1>3, <3>1 DEF NewWithDeps
  <2>2. CASE d' = [e EXCEPT !.pc = "cleanup", !.code = "1"]
    BY <2>2 DEF Main0, Booting, Ending
  <2>3. ASSUME NEW P \in SUBSET {"in_app"}, d' = [e EXCEPT !.pc = "bind", !.providers = P]
        PROVE  d' \in Main0
    BY <2>3 DEF Main0, Booting, Ending
  <2>4. {"in_app"} \in SUBSET {"in_app"} /\ {} \in SUBSET {"in_app"}
    OBVIOUS
  <2>5. QED
    BY <2>1, <2>2, <2>3, <2>4
<1>4. ASSUME NEW s \in Servers, Bind(s) PROVE d' \in Main0
  BY <1>0, <1>4 DEF Bind, Main0, Booting
<1>5. CASE BindFails
  BY <1>0, <1>5 DEF BindFails, Main0, Ending
<1>6. CASE Start \/ MarkReady \/ Wake \/ Shutdown
  BY <1>0, <1>6 DEF Start, MarkReady, Wake, Shutdown, Main0, Running
<1>7. CASE CloseListener
  <2>1. d.down + 1 \in 0 .. 3
    BY <1>0, <1>7 DEF CloseListener, Main0
  <2>2. d' = [d EXCEPT !.pc = "drain", !.down = d.down + 1]
    BY <1>0, <1>7 DEF CloseListener
  <2>3. QED
    BY <1>0, <2>1, <2>2 DEF Main0, Running
<1>8. CASE Drain
  <2>1. PICK b \in BOOLEAN : d' = [d EXCEPT !.pc = "close", !.err = b]
    BY <1>0, <1>8 DEF Drain, Main0
  <2>2. QED
    BY <1>0, <2>1 DEF Main0, Running
<1>9. CASE ShutdownReturns
  <2>1. d.cfg.live \in BOOLEAN
    BY <1>9, LiveIsBoolean DEF ShutdownReturns
  <2>2. QED
    BY <1>0, <1>9, <2>1 DEF ShutdownReturns, Main0, Running, Ending
<1>10. CASE Wait \/ Cleanup \/ PoolCloses \/ Exit
  BY <1>0, <1>10 DEF Wait, Cleanup, PoolCloses, Exit, Main0, Ending
<1>11. CASE d' = d
  BY <1>0, <1>11
<1>12. QED
  BY <1>1, <1>2, <1>3, <1>4, <1>5, <1>6, <1>7, <1>8, <1>9, <1>10, <1>11, StepKinds DEF Main

\* What does not depend on the fields that change.
LEMMA Frames ==
    /\ d'.down = d.down => \A s : IsDown(s)' <=> IsDown(s)
    /\ d'.cfg = d.cfg => \A s : Port(s)' = Port(s)
    /\ conn' = conn => \A s : Tracked(s)' = Tracked(s)
    /\ conn' = conn => \A c : Active(c)' <=> Active(c)
    /\ ln' = ln => Bound' = Bound
  BY DEF IsDown, Port, Tracked, Active, Bound

\* The control part of the invariant.
Control == MainOK /\ EndOK /\ ListenOK /\ DrainOK

\* loadConfig accepts, or the process exits; nothing was opened.
LEMMA LoadConfigInv ==
    ASSUME Shape, Loaded, Control, LoadConfig
    PROVE  Control' /\ Loaded'
<1>0. d \in Main0 /\ UNCHANGED <<env, ln, conn, expired>>
  BY DEF Shape, LoadConfig, world
<1>1. d.pc = "load" /\ d.cfg = NoCfg /\ d.code = "none" /\ d.store = "none" /\ d.down = 0 /\ ~d.err
      /\ ~d.ready /\ (\A s \in Servers : ln[s] = "none") /\ \A c \in Conns : conn[c] = NoConn
  BY DEF LoadConfig, Loaded, Control, MainOK, ListenOK, DrainOK, Booting, Ending
<1>2. /\ d'.store = d.store /\ d'.down = d.down /\ d'.err = d.err /\ d'.ready = d.ready
      /\ \/ Accepted(env) /\ d'.pc = "deps" /\ d'.cfg = loadConfig(env) /\ d'.code = "none"
         \/ d'.pc = "exit" /\ d'.cfg = NoCfg /\ d'.code = "1"
  BY <1>0, <1>1 DEF LoadConfig, Main0
<1>3. Loaded'
  BY <1>0, <1>2 DEF Loaded
<1>4. MainOK'
  BY <1>0, <1>1, <1>2 DEF MainOK, Booting, Ending
<1>5. EndOK'
  BY <1>0, <1>1, <1>2 DEF EndOK, Never, Ending
<1>6. \A s \in Servers : ~IsDown(s)'
  BY <1>1, <1>2 DEF IsDown
<1>7. ListenOK'
  BY <1>0, <1>1, <1>2, <1>6 DEF ListenOK, Running
<1>8. DrainOK'
  BY <1>0, <1>1, <1>2, <1>6 DEF DrainOK
<1>9. QED
  BY <1>3, <1>4, <1>5, <1>7, <1>8 DEF Control

\* A step between loadConfig and bindListeners.
LEMMA BuildInv ==
    ASSUME Shape, Loaded, Control, buildDependencies \/ NewWithDeps
    PROVE  Control' /\ Loaded'
<1>0. d \in Main0 /\ UNCHANGED <<env, ln, conn, expired>>
  BY DEF Shape, buildDependencies, NewWithDeps, world
<1>1. /\ d.pc \in {"deps", "new"} /\ d.code = "none" /\ d.down = 0 /\ ~d.err
      /\ ~d.ready /\ (\A s \in Servers : ln[s] = "none") /\ \A c \in Conns : conn[c] = NoConn
  BY DEF buildDependencies, NewWithDeps, Control, MainOK, ListenOK, DrainOK, Booting, Ending
<1>2. /\ d'.down = d.down /\ d'.err = d.err /\ d'.ready = d.ready /\ d'.cfg = d.cfg
      /\ \/ d'.pc \in {"new", "bind"} /\ d'.code = "none" /\ d'.store # "closed"
         \/ d'.pc = "cleanup" /\ d'.code = "1" /\ d'.store # "closed"
         \/ d'.pc = "exit" /\ d'.code = "1" /\ d'.store = "none"
  <2>1. CASE buildDependencies
    <3>1. d.store = "none"
      BY <2>1 DEF buildDependencies, Control, MainOK
    <3>2. QED
      BY <1>0, <1>1, <2>1, <3>1 DEF buildDependencies, Main0
  <2>2. CASE NewWithDeps
    <3>1. d.store # "closed"
      BY <2>2 DEF NewWithDeps, Control, MainOK
    <3>2. QED
      BY <1>0, <1>1, <2>2, <3>1 DEF NewWithDeps, Main0
  <2>3. QED
    BY <2>1, <2>2
<1>3. Loaded'
  BY <1>0, <1>1, <1>2 DEF Loaded
<1>4. MainOK'
  BY <1>0, <1>1, <1>2 DEF MainOK, Booting, Ending
<1>5. EndOK'
  BY <1>0, <1>1, <1>2 DEF EndOK, Never, Ending
<1>6. \A s \in Servers : ~IsDown(s)'
  BY <1>1, <1>2 DEF IsDown
<1>7. ListenOK'
  BY <1>0, <1>1, <1>2, <1>6 DEF ListenOK, Running, Bound
<1>8. DrainOK'
  BY <1>0, <1>1, <1>2, <1>6 DEF DrainOK
<1>9. QED
  BY <1>3, <1>4, <1>5, <1>7, <1>8 DEF Control

\* The listeners are bound in order, on ports of their own.
LEMMA BindInv ==
    ASSUME Shape, Loaded, Control, NEW s \in Servers, Bind(s)
    PROVE  Control' /\ Loaded'
<1>0. d \in Main0 /\ UNCHANGED <<env, conn, expired>> /\ ln' = [ln EXCEPT ![s] = "bound"]
  BY DEF Shape, Bind, world
<1>1. /\ d.pc = "bind" /\ d.code = "none" /\ d.down = 0 /\ ~d.err /\ d.store # "closed"
      /\ ~d.ready /\ (\A t \in Servers : ln[t] \in {"none", "bound"}) /\ \A c \in Conns : conn[c] = NoConn
      /\ \A t, u \in Bound : t # u => Port(t) # Port(u)
  BY DEF Bind, Control, MainOK, ListenOK, DrainOK, Booting, Ending
<1>2. /\ d'.down = d.down /\ d'.err = d.err /\ d'.ready = d.ready /\ d'.cfg = d.cfg
      /\ d'.code = "none" /\ d'.store = d.store
      /\ d'.pc = IF s = "metrics" THEN "start" ELSE "bind"
  BY <1>0, <1>1 DEF Bind, Main0
<1>3. Loaded'
  BY <1>0, <1>1, <1>2 DEF Loaded
<1>4. MainOK'
  BY <1>0, <1>1, <1>2 DEF MainOK, Booting, Ending
<1>5. EndOK'
  BY <1>2 DEF EndOK, Ending
<1>6. \A t \in Servers : ~IsDown(t)'
  BY <1>1, <1>2 DEF IsDown
<1>7. ln'[s] = "bound" /\ \A t \in Servers : t # s => ln'[t] = ln[t]
  BY <1>0 DEF Shape
<1>8. Bound' = Bound \cup {s} /\ \A t : Port(t)' = Port(t)
  BY <1>2, <1>7, Frames DEF Bound
<1>9. \A t, u \in Bound' : t # u => Port(t)' # Port(u)'
  <2>1. \A t \in Bound : Port(s) # Port(t)
    BY DEF Bind
  <2>2. QED
    BY <1>1, <1>8, <2>1
<1>10. s = "metrics" => Bound' = Servers
  <2>1. PICK k \in 1 .. 3 : s = Order[k] /\ Bound = {Order[j] : j \in 1 .. (k - 1)}
    BY DEF Bind
  <2>2. ASSUME s = "metrics" PROVE Bound = {"client", "internal"}
    <3>1. k = 3
      BY <2>1, <2>2 DEF Order
    <3>2. Order[1] \in Bound /\ Order[2] \in Bound
      BY <2>1, <3>1
    <3>3. Bound \subseteq {Order[1], Order[2]}
      BY <2>1, <3>1
    <3>4. QED
      BY <3>2, <3>3 DEF Order
  <2>3. QED
    BY <1>8, <2>2 DEF Servers
<1>11. ListenOK'
  <2>1. \A t \in Servers : ln'[t] \in {"none", "bound"}
    BY <1>1, <1>7
  <2>2. d'.pc = "start" => \A t \in Servers : ln'[t] = "bound"
    BY <1>2, <1>10 DEF Bound
  <2>3. d'.pc = "start" => \A t, u \in Servers : t # u => Port(t)' # Port(u)'
    BY <1>2, <1>9, <1>10
  <2>4. QED
    BY <1>2, <1>6, <1>9, <2>1, <2>2, <2>3 DEF ListenOK, Running
<1>12. DrainOK'
  BY <1>0, <1>1, <1>2, <1>6 DEF DrainOK
<1>13. QED
  BY <1>3, <1>4, <1>5, <1>11, <1>12 DEF Control

\* A port that cannot be bound: what was bound before is closed.
LEMMA BindFailsInv ==
    ASSUME Shape, Loaded, Control, BindFails
    PROVE  Control' /\ Loaded'
<1>0. d \in Main0 /\ UNCHANGED <<env, conn, expired>>
  BY DEF Shape, BindFails, world
<1>1. /\ d.pc = "bind" /\ d.code = "none" /\ d.down = 0 /\ ~d.err /\ d.store # "closed"
      /\ ~d.ready /\ (\A t \in Servers : ln[t] \in {"none", "bound"}) /\ \A c \in Conns : conn[c] = NoConn
  BY DEF BindFails, Control, MainOK, ListenOK, DrainOK, Booting, Ending
<1>2. /\ d'.down = d.down /\ d'.err = d.err /\ d'.ready = d.ready /\ d'.cfg = d.cfg
      /\ d'.code = "1" /\ d'.store = d.store /\ d'.pc = "cleanup"
  BY <1>0, <1>1 DEF BindFails, Main0
<1>3. Loaded'
  BY <1>0, <1>1, <1>2 DEF Loaded
<1>4. MainOK'
  BY <1>0, <1>1, <1>2 DEF MainOK, Booting, Ending
<1>5. \A t \in Servers : ln'[t] \in {"none", "closed"}
  BY <1>1 DEF BindFails, Bound
<1>6. EndOK'
  BY <1>0, <1>1, <1>2, <1>5 DEF EndOK, Never, Ending
<1>7. \A t \in Servers : ~IsDown(t)'
  BY <1>1, <1>2 DEF IsDown
<1>8. ListenOK'
  BY <1>2, <1>7 DEF ListenOK, Running
<1>9. DrainOK'
  BY <1>0, <1>1, <1>2, <1>7 DEF DrainOK, Booting
<1>10. QED
  BY <1>3, <1>4, <1>6, <1>8, <1>9 DEF Control

\* The Serve goroutines are launched on the three bound listeners.
LEMMA StartInv ==
    ASSUME Shape, Loaded, Control, Start
    PROVE  Control' /\ Loaded'
<1>0. d \in Main0 /\ UNCHANGED <<env, conn, expired>> /\ \A t \in Servers : ln'[t] = "launched"
  BY DEF Shape, Start, world
<1>1. /\ d.pc = "start" /\ d.code = "none" /\ d.down = 0 /\ ~d.err /\ d.store # "closed"
      /\ ~d.ready /\ \A c \in Conns : conn[c] = NoConn
      /\ \A t, u \in Servers : t # u => Port(t) # Port(u)
  BY DEF Start, Control, MainOK, ListenOK, DrainOK, Booting, Ending
<1>2. /\ d'.down = d.down /\ d'.err = d.err /\ d'.ready = d.ready /\ d'.cfg = d.cfg
      /\ d'.code = d.code /\ d'.store = d.store /\ d'.pc = "ready"
  BY <1>0, <1>1 DEF Start, Main0
<1>3. Loaded'
  BY <1>0, <1>1, <1>2 DEF Loaded
<1>4. MainOK'
  BY <1>0, <1>1, <1>2 DEF MainOK, Booting, Ending
<1>5. EndOK'
  BY <1>2 DEF EndOK, Ending
<1>6. \A t \in Servers : ~IsDown(t)' /\ Port(t)' = Port(t)
  <2>1. \A t \in Servers : ~IsDown(t)'
    BY <1>1, <1>2 DEF IsDown
  <2>2. QED
    BY <1>2, <2>1, Frames
<1>7. ListenOK'
  BY <1>0, <1>1, <1>2, <1>6 DEF ListenOK, Running
<1>8. DrainOK'
  BY <1>0, <1>1, <1>2, <1>6 DEF DrainOK, Booting
<1>9. QED
  BY <1>3, <1>4, <1>5, <1>7, <1>8 DEF Control

\* Run says ready, is woken, and says not ready any more before it shuts down.
LEMMA SelectInv ==
    ASSUME Shape, Loaded, Control, MarkReady \/ Wake \/ Shutdown
    PROVE  Control' /\ Loaded'
<1>0. d \in Main0 /\ UNCHANGED <<env, ln, conn, expired>>
  BY DEF Shape, MarkReady, Wake, Shutdown, world
<1>1. /\ d.pc \in {"ready", "select", "shutdown"} /\ d.code = "none" /\ d.down = 0 /\ ~d.err
      /\ d.store # "closed"
      /\ \A t \in Servers : ln[t] \in {"launched", "serving", "closed", "failed"} /\ (ln[t] = "closed" => IsDown(t))
      /\ \A t, u \in Servers : t # u => Port(t) # Port(u)
  BY DEF MarkReady, Wake, Shutdown, Control, MainOK, ListenOK, Ending, Running
<1>2. /\ d'.down = d.down /\ d'.err = d.err /\ d'.cfg = d.cfg /\ d'.code = d.code /\ d'.store = d.store
      /\ d'.pc \in {"select", "shutdown", "close"} /\ (d'.ready => d'.pc \in {"select", "shutdown"})
  <2>1. CASE MarkReady
    BY <1>0, <2>1 DEF MarkReady, Main0
  <2>2. CASE Wake
    BY <1>0, <2>2 DEF Wake, Main0
  <2>3. CASE Shutdown
    BY <1>0, <2>3 DEF Shutdown, Main0
  <2>4. QED
    BY <2>1, <2>2, <2>3
<1>3. Loaded'
  BY <1>0, <1>1, <1>2 DEF Loaded
<1>4. MainOK'
  BY <1>0, <1>1, <1>2 DEF MainOK, Booting, Ending
<1>5. EndOK'
  BY <1>2 DEF EndOK, Ending
<1>6. \A t \in Servers : ~IsDown(t) /\ ~IsDown(t)' /\ Port(t)' = Port(t)
  <2>1. \A t \in Servers : ~IsDown(t) /\ ~IsDown(t)'
    BY <1>1, <1>2 DEF IsDown
  <2>2. QED
    BY <1>2, <2>1, Frames
<1>7. ListenOK'
  BY <1>0, <1>1, <1>2, <1>6 DEF ListenOK, Running
<1>8. DrainOK'
  BY <1>0, <1>1, <1>2, <1>6 DEF DrainOK, Booting
<1>9. QED
  BY <1>3, <1>4, <1>5, <1>7, <1>8 DEF Control

\* http.Server.Shutdown of the next server leaves it no idle connection.
LEMMA CloseListenerInv ==
    ASSUME Shape, Loaded, Control, CloseListener
    PROVE  Control' /\ Loaded'
<1>n. PICK n : n = Order[d.down + 1]
  OBVIOUS
<1>0. /\ d \in Main0 /\ UNCHANGED <<env, expired>>
      /\ ln' = [ln EXCEPT ![n] = IF @ = "serving" THEN "closed" ELSE @]
      /\ conn' = [c \in Conns |-> IF c \in Tracked(n) /\ ~Active(c) THEN NoConn ELSE conn[c]]
  BY <1>n DEF Shape, CloseListener
<1>1. /\ d.pc = "close" /\ d.code = "none" /\ d.store # "closed" /\ ~d.ready /\ d.down \in {0, 1, 2}
      /\ \A t \in Servers : ln[t] \in {"launched", "serving", "closed", "failed"} /\ (ln[t] = "closed" => IsDown(t))
      /\ \A t, u \in Servers : t # u => Port(t) # Port(u)
      /\ d.err => expired
  <2>1. d.down \in {0, 1, 2}
    BY <1>0 DEF CloseListener, Main0
  <2>2. QED
    BY <2>1 DEF CloseListener, Control, MainOK, ListenOK, Ending, Running
<1>2. /\ d'.down = d.down + 1 /\ d'.err = d.err /\ d'.cfg = d.cfg /\ d'.code = d.code /\ d'.store = d.store
      /\ d'.pc = "drain" /\ d'.ready = d.ready
  BY <1>0 DEF CloseListener, Main0
<1>3. Loaded'
  BY <1>0, <1>1, <1>2 DEF Loaded
<1>4. MainOK'
  <2>1. d.down + 1 # 0
    BY <1>1
  <2>2. QED
    BY <1>0, <1>1, <1>2, <2>1 DEF MainOK, Booting, Ending
<1>5. EndOK'
  BY <1>2 DEF EndOK, Ending
<1>6. n \in Servers /\ Order[d'.down] = n
  <2>1. Order[1] = "client" /\ Order[2] = "internal" /\ Order[3] = "metrics"
    BY DEF Order
  <2>2. d.down + 1 \in {1, 2, 3}
    BY <1>1
  <2>3. QED
    BY <1>n, <1>2, <2>1, <2>2 DEF Servers
<1>7. \A t \in Servers : IsDown(t)' <=> IsDown(t) \/ t = n
  <2>1. \A k : k \in 1 .. (d.down + 1) <=> k \in 1 .. d.down \/ k = d.down + 1
    BY <1>1
  <2>2. QED
    BY <1>n, <1>2, <2>1 DEF IsDown
<1>8. \A t \in Servers : Port(t)' = Port(t)
  BY <1>2, Frames
<1>9. \A t \in Servers : ln'[t] = IF t = n /\ ln[t] = "serving" THEN "closed" ELSE ln[t]
  BY <1>0, <1>6 DEF Shape
<1>10. ListenOK'
  <2>1. \A t \in Servers : IsDown(t) => ln[t] # "serving"
    BY DEF Control, ListenOK
  <2>2. \A t \in Servers : ln'[t] \in {"launched", "serving", "closed", "failed"} /\ (ln'[t] = "closed" => IsDown(t)')
    BY <1>1, <1>7, <1>9
  <2>3. \A t \in Servers : IsDown(t)' => ln'[t] # "serving"
    BY <1>7, <1>9, <2>1
  <2>4. QED
    BY <1>1, <1>2, <1>8, <2>2, <2>3 DEF ListenOK, Running
<1>11. \A c \in Conns : conn'[c] = conn[c] \/ conn'[c] = NoConn
  BY <1>0
<1>12. \A t \in Servers : Tracked(t)' \subseteq Tracked(t) /\ \A c \in Tracked(t)' : conn'[c] = conn[c]
  BY <1>11 DEF Tracked, NoConn, Servers
<1>13. \A c \in Tracked(n)' : Active(c)'
  <2> SUFFICES ASSUME NEW c \in Conns, c \in Tracked(n)' PROVE Active(c)'
    BY DEF Tracked
  <2>1. c \in Tracked(n) /\ conn'[c] = conn[c] /\ conn'[c] # NoConn
    BY <1>6, <1>12 DEF Tracked, NoConn, Servers
  <2>2. Active(c)
    BY <1>0, <2>1
  <2>3. QED
    BY <2>1, <2>2 DEF Active
<1>14. DrainOK'
  <2>1. \A t \in Servers : IsDown(t) => (\A c \in Tracked(t) : Active(c)) /\ (d.err \/ Tracked(t) = {})
    BY <1>1 DEF Control, DrainOK
  <2>2. \A t \in Servers : IsDown(t)' => \A c \in Tracked(t)' : Active(c)'
    BY <1>7, <1>12, <1>13, <2>1 DEF Active
  <2>3. \A t \in Servers : IsDown(t)' /\ t # n => d'.err \/ Tracked(t)' = {}
    BY <1>2, <1>7, <1>12, <2>1
  <2>4. QED
    BY <1>2, <1>6, <2>2, <2>3 DEF DrainOK, Booting
<1>15. QED
  BY <1>3, <1>4, <1>5, <1>10, <1>14 DEF Control

\* The drain of a server ends: its tracked connections are gone, or it is an
\* error.
LEMMA DrainInv ==
    ASSUME Shape, Loaded, Control, Drain
    PROVE  Control' /\ Loaded'
<1>0. /\ d \in Main0 /\ UNCHANGED <<env, ln, conn, expired>> /\ (Drained \/ expired)
  BY DEF Shape, Drain, world
<1>1. /\ d.pc = "drain" /\ d.code = "none" /\ d.store # "closed" /\ ~d.ready /\ d.down \in 0 .. 3 /\ d.down # 0
      /\ \A t \in Servers : ln[t] \in {"launched", "serving", "closed", "failed"} /\ (ln[t] = "closed" => IsDown(t))
      /\ \A t \in Servers : IsDown(t) => ln[t] # "serving"
      /\ \A t, u \in Servers : t # u => Port(t) # Port(u)
      /\ d.err => expired
  BY <1>0 DEF Drain, Control, MainOK, ListenOK, Ending, Running, Main0
<1>2. /\ d'.down = d.down /\ d'.cfg = d.cfg /\ d'.code = d.code /\ d'.store = d.store
      /\ d'.pc = "close" /\ d'.ready = d.ready /\ (d'.err <=> d.err \/ ~Drained)
  BY <1>0 DEF Drain, Main0
<1>3. Loaded'
  BY <1>0, <1>1, <1>2 DEF Loaded
<1>4. MainOK'
  BY <1>0, <1>1, <1>2 DEF MainOK, Booting, Ending
<1>5. EndOK'
  BY <1>2 DEF EndOK, Ending
<1>6. ListenOK'
  BY <1>0, <1>1, <1>2, Frames DEF ListenOK, Running
<1>7. DrainOK'
  <2>1. \A t \in Servers : IsDown(t) => \A c \in Tracked(t) : Active(c)
    BY DEF Control, DrainOK
  <2>2. \A t \in Servers : IsDown(t) /\ t # Order[d.down] => d.err \/ Tracked(t) = {}
    BY DEF Control, DrainOK
  <2>3. Order[d.down] \in Servers /\ IsDown(Order[d.down])
    <3>1. d.down \in 1 .. d.down
      BY <1>1
    <3>2. QED
      BY <1>1, <3>1, OrderFacts DEF IsDown
  <2>4. Drained => Tracked(Order[d.down]) = {}
    BY <2>1, <2>3 DEF Drained
  <2>5. \A t \in Servers : IsDown(t) => d'.err \/ Tracked(t) = {}
    BY <1>2, <2>2, <2>4
  <2>6. QED
    BY <1>0, <1>2, <2>1, <2>5, Frames DEF DrainOK, Booting
<1>8. QED
  BY <1>3, <1>4, <1>5, <1>6, <1>7 DEF Control

\* Shutdown has been through the three servers.
LEMMA ShutdownReturnsInv ==
    ASSUME Shape, Loaded, Control, ShutdownReturns
    PROVE  Control' /\ Loaded'
<1>0. /\ d \in Main0 /\ UNCHANGED <<env, ln, conn, expired>> /\ d.cfg.live \in BOOLEAN
  BY LiveIsBoolean DEF Shape, ShutdownReturns, world
<1>1. /\ d.pc = "close" /\ d.code = "none" /\ d.store # "closed" /\ ~d.ready /\ d.down = 3
      /\ \A t \in Servers : ln[t] \in {"launched", "serving", "closed", "failed"} /\ (ln[t] = "closed" => IsDown(t))
      /\ \A t \in Servers : IsDown(t) => ln[t] # "serving"
      /\ \A t, u \in Servers : t # u => Port(t) # Port(u)
      /\ d.err => expired
  BY DEF ShutdownReturns, Control, MainOK, ListenOK, Ending, Running
<1>2. /\ d'.down = d.down /\ d'.cfg = d.cfg /\ d'.store = d.store /\ d'.ready = d.ready
      /\ d'.err = d.err /\ d'.failed = d.failed /\ d'.cancelled = d.cfg.live
      /\ \/ d'.pc = "wait" /\ d'.code = "none" /\ ~d.failed /\ ~d.err
         \/ d'.pc = "cleanup" /\ d'.code = "1" /\ (d.failed \/ d.err)
  BY <1>0, <1>1 DEF ShutdownReturns, Main0
<1>3. Loaded'
  BY <1>0, <1>1, <1>2 DEF Loaded
<1>4. MainOK'
  BY <1>0, <1>1, <1>2 DEF MainOK, Booting, Ending
<1>5. EndOK'
  BY <1>0, <1>1, <1>2 DEF EndOK, WasShutDown, Ending
<1>6. ListenOK'
  BY <1>0, <1>1, <1>2, Frames DEF ListenOK, Running
<1>7. DrainOK'
  <2>1. \A t \in Servers : IsDown(t) => (\A c \in Tracked(t) : Active(c)) /\ (d.err \/ Tracked(t) = {})
    BY <1>1 DEF Control, DrainOK
  <2>2. QED
    BY <1>0, <1>2, <2>1, Frames DEF DrainOK, Booting
<1>8. QED
  BY <1>3, <1>4, <1>5, <1>6, <1>7 DEF Control

\* Only a clean shutdown is waited for, and ends with status 0.
LEMMA WaitInv ==
    ASSUME Shape, Loaded, Control, Wait
    PROVE  Control' /\ Loaded'
<1>0. /\ d \in Main0 /\ UNCHANGED <<env, ln, conn, expired>> /\ \A t \in Servers : ln[t] \in {"closed", "failed"}
  BY DEF Shape, Wait, world
<1>1. /\ d.pc = "wait" /\ d.store # "closed" /\ ~d.ready /\ d.down = 3 /\ ~d.err /\ ~d.failed
      /\ d.cfg.live => d.cancelled
  BY DEF Wait, Control, MainOK
<1>2. /\ d'.down = d.down /\ d'.cfg = d.cfg /\ d'.store = d.store /\ d'.ready = d.ready
      /\ d'.err = d.err /\ d'.failed = d.failed /\ d'.cancelled = d.cancelled
      /\ d'.pc = "cleanup" /\ d'.code = "0"
  BY <1>0 DEF Wait, Main0
<1>3. Loaded'
  BY <1>0, <1>1, <1>2 DEF Loaded
<1>4. MainOK'
  BY <1>0, <1>1, <1>2 DEF MainOK, Booting, Ending
<1>5. EndOK'
  BY <1>0, <1>1, <1>2 DEF EndOK, WasShutDown, Ending
<1>6. ListenOK'
  BY <1>0, <1>2 DEF ListenOK, Running
<1>7. DrainOK'
  <2>1. \A t \in Servers : IsDown(t) => (\A c \in Tracked(t) : Active(c)) /\ (d.err \/ Tracked(t) = {})
    BY <1>1 DEF Control, DrainOK
  <2>2. QED
    BY <1>0, <1>2, <2>1, Frames DEF DrainOK, Booting
<1>8. QED
  BY <1>3, <1>4, <1>5, <1>6, <1>7 DEF Control

\* The store is closed, and the process ends.
LEMMA EndInv ==
    ASSUME Shape, Loaded, Control, Cleanup \/ PoolCloses \/ Exit
    PROVE  Control' /\ Loaded'
<1>0. /\ d \in Main0 /\ UNCHANGED <<env, ln, expired>>
      /\ conn' = conn \/ \A c \in Conns : conn'[c] = NoConn
  BY DEF Shape, Cleanup, PoolCloses, Exit, world
<1>1. /\ d.pc \in {"cleanup", "closing", "return"} /\ d.code # "none" /\ ~d.ready /\ (d.err => expired)
      /\ d.pc \in {"closing", "return"} => d.store # "open"
      /\ Never \/ WasShutDown
      /\ \A t \in Servers : IsDown(t) => ln[t] # "serving"
  BY DEF Cleanup, PoolCloses, Exit, Control, MainOK, EndOK, ListenOK, Ending
<1>2. /\ d'.down = d.down /\ d'.cfg = d.cfg /\ d'.ready = d.ready /\ d'.code = d.code
      /\ d'.err = d.err /\ d'.failed = d.failed /\ d'.cancelled = d.cancelled
      /\ d'.pc \in {"closing", "return", "exit"} /\ d'.store # "open"
  <2>1. CASE Cleanup
    BY <1>0, <2>1 DEF Cleanup, Main0
  <2>2. CASE PoolCloses \/ Exit
    BY <1>0, <1>1, <2>2 DEF PoolCloses, Exit, Main0
  <2>3. QED
    BY <2>1, <2>2
<1>3. Loaded'
  BY <1>0, <1>1, <1>2 DEF Loaded
<1>4. MainOK'
  BY <1>0, <1>1, <1>2 DEF MainOK, Booting, Ending
<1>5. EndOK'
  <2>1. CASE Never
    BY <1>0, <1>2, <2>1 DEF EndOK, Never, Ending
  <2>2. CASE WasShutDown
    BY <1>0, <1>2, <2>2 DEF EndOK, WasShutDown, Ending
  <2>3. QED
    BY <1>1, <2>1, <2>2
<1>6. ListenOK'
  BY <1>0, <1>1, <1>2, Frames DEF ListenOK, Running
<1>7. DrainOK'
  <2>1. \A t \in Servers : IsDown(t) => (\A c \in Tracked(t) : Active(c)) /\ (d.err \/ Tracked(t) = {})
    BY <1>1 DEF Control, DrainOK
  <2>2. \A t \in Servers : Tracked(t)' = Tracked(t) \/ Tracked(t)' = {}
    <3>1. ASSUME \A c \in Conns : conn'[c] = NoConn, NEW t \in Servers PROVE Tracked(t)' = {}
      BY <3>1 DEF Tracked, NoConn, Servers
    <3>2. QED
      BY <1>0, <3>1, Frames
  <2>3. \A t \in Servers : \A c \in Tracked(t)' : conn'[c] = conn[c]
    <3>1. ASSUME \A c \in Conns : conn'[c] = NoConn, NEW t \in Servers PROVE Tracked(t)' = {}
      BY <3>1 DEF Tracked, NoConn, Servers
    <3>2. QED
      BY <1>0, <3>1
  <2>4. \A t \in Servers : IsDown(t)' => \A c \in Tracked(t)' : Active(c)'
    BY <1>2, <2>1, <2>2, <2>3, Frames DEF Active
  <2>5. QED
    BY <1>2, <2>1, <2>2, <2>4, Frames DEF DrainOK, Booting
<1>8. QED
  BY <1>3, <1>4, <1>5, <1>6, <1>7 DEF Control

\* Every step of the main goroutine.
LEMMA MainStep ==
    ASSUME Shape, Loaded, Control, Main
    PROVE  Control' /\ Loaded'
  BY LoadConfigInv, BuildInv, BindInv, BindFailsInv, StartInv, SelectInv, CloseListenerInv, DrainInv,
     ShutdownReturnsInv, WaitInv, EndInv DEF Main

-----------------------------------------------------------------------------
(* Serve goroutines, the operating system and the clock.                   *)

\* A Serve goroutine that comes to serve after its server was told to shut down
\* closes its listener instead.
LEMMA ServeInv ==
    ASSUME Shape, Loaded, Control, NEW s \in Servers, Serve(s) \/ ServeFails(s)
    PROVE  Control' /\ Loaded'
<1>0. UNCHANGED <<env, d, expired, conn>>
  BY DEF Serve, ServeFails, world
<1>1. /\ ln[s] \in {"launched", "serving"}
      /\ ln'[s] = "failed" \/ (IsDown(s) /\ ln'[s] = "closed") \/ (~IsDown(s) /\ ln'[s] = "serving")
      /\ \A t \in Servers : t # s => ln'[t] = ln[t]
  BY DEF Shape, Serve, ServeFails
<1>2. d.pc \in Running \cup {"cleanup", "closing", "return"}
  BY DEF Serve, ServeFails, Up, Running
<1>3. Loaded' /\ MainOK'
  BY <1>0 DEF Control, Loaded, MainOK
<1>4. ASSUME d.pc \in Ending PROVE WasShutDown'
  <2>1. WasShutDown
    BY <1>1, <1>4 DEF Control, EndOK, Never
  <2>2. IsDown(s)
    BY <2>1, OrderFacts DEF WasShutDown, Servers
  <2>3. QED
    BY <1>0, <1>1, <2>1, <2>2 DEF WasShutDown
<1>5. EndOK'
  BY <1>0, <1>4 DEF EndOK
<1>6. \A t \in Servers : IsDown(t)' <=> IsDown(t)
  BY <1>0, Frames
<1>7. \A t \in Servers : Port(t)' = Port(t)
  BY <1>0, Frames
<1>8. ListenOK'
  <2>1. \A t \in Servers : IsDown(t)' => ln'[t] # "serving"
    BY <1>1, <1>6 DEF Control, ListenOK
  <2>2. d.pc \in Running => \A t \in Servers : ln'[t] \in {"launched", "serving", "closed", "failed"}
    BY <1>1 DEF Control, ListenOK
  <2>3. d.pc \in Running => \A t \in Servers : ln'[t] = "closed" => IsDown(t)'
    BY <1>1, <1>6 DEF Control, ListenOK
  <2>4. d.pc \in Running => \A t, u \in Servers : t # u => Port(t)' # Port(u)'
    BY <1>7 DEF Control, ListenOK
  <2>5. d.pc \notin {"load", "deps", "new", "bind", "start"}
    BY <1>2 DEF Running
  <2>6. QED
    BY <1>0, <2>1, <2>2, <2>3, <2>4, <2>5 DEF ListenOK
<1>9. DrainOK'
  BY <1>0, Frames DEF Control, DrainOK
<1>10. QED
  BY <1>3, <1>5, <1>8, <1>9 DEF Control

\* A signal, a deadline or the clock.
LEMMA OutsideInv ==
    ASSUME Shape, Loaded, Control, UNCHANGED <<env, d, ln, conn>>, expired' = expired \/ expired' = TRUE
    PROVE  Control' /\ Loaded'
<1>1. Loaded' /\ MainOK'
  BY DEF Control, Loaded, MainOK
<1>2. EndOK'
  BY DEF Control, EndOK, Never, WasShutDown
<1>3. ListenOK'
  BY Frames DEF Control, ListenOK
<1>4. DrainOK'
  BY Frames DEF Control, DrainOK
<1>5. QED
  BY <1>1, <1>2, <1>3, <1>4 DEF Control

-----------------------------------------------------------------------------
(* Requests.                                                               *)

\* A connection of its server that is new or idle, or that was replied to, is
\* not a tracked one of a server that is down.
LEMMA RequestEffect ==
    ASSUME Shape, Loaded, Control, NEW c \in Conns, Request(c) \/ Finish(c) \/ Leave(c)
    PROVE  /\ UNCHANGED <<env, d, ln, signal, expired, busy, now>>
           /\ Up /\ d.cfg = loadConfig(env) /\ Accepted(env)
           /\ ~(d.pc \in Ending /\ Never)
           /\ \A e \in Conns : e # c => conn'[e] = conn[e]
           /\ conn' = [e \in Conns |-> conn'[e]]
           /\ ConnShape(c)'
           /\ conn'[c] = NoConn \/ (conn'[c].srv \in {"client", "internal"}
                                    /\ (IsDown(conn'[c].srv) => conn'[c].h2c))
<1>1. Up /\ d.cfg = loadConfig(env) /\ Accepted(env)
  <2>1. Up
    BY DEF Request, Finish, Leave
  <2>2. QED
    BY <2>1 DEF Up, Loaded
<1>2. ConnShape(c) /\ conn = [e \in Conns |-> conn[e]]
  BY DEF Shape
<1>3. \A s \in {"client", "internal"} : IsDown(s) => (\A e \in Tracked(s) : Active(e)) /\ ln[s] # "serving"
  BY DEF Control, DrainOK, ListenOK, Servers
<1>4. CASE Request(c)
  <2>1. PICK p \in Procs, h2c \in BOOLEAN, h \in Headers \cup {NoHeader}, k \in Tokens \cup {"none"} :
          LET r == [srv |-> ServerOf(p), h2c |-> h2c, stage |-> "run", proc |-> p, header |-> h, token |-> k,
                    who |-> Validate(d.cfg, h, now), at |-> now]
          IN  /\ Up
              /\ IF p = "Notify" THEN h = NoHeader ELSE k = "none"
              /\ \/ conn[c] = NoConn /\ ln[ServerOf(p)] = "serving"
                 \/ conn[c] = [srv |-> ServerOf(p), h2c |-> h2c, stage |-> "idle"]
              /\ conn' = [conn EXCEPT ![c] = IF Admitted(r) THEN r ELSE Replied(r)]
              /\ UNCHANGED <<env, d, ln, signal, expired, busy, now>>
    BY <1>4, Zenon DEF Request
  <2>2. PICK s \in {"client", "internal"} : s = ServerOf(p)
    BY DEF ServerOf
  <2> DEFINE r == [srv |-> s, h2c |-> h2c, stage |-> "run", proc |-> p, header |-> h, token |-> k,
                   who |-> Validate(d.cfg, h, now), at |-> now]
  <2>3. /\ \/ conn[c] = NoConn /\ ln[s] = "serving"
           \/ conn[c] = [srv |-> s, h2c |-> h2c, stage |-> "idle"]
        /\ conn' = [conn EXCEPT ![c] = IF Admitted(r) THEN r ELSE Replied(r)]
        /\ UNCHANGED <<env, d, ln, signal, expired, busy, now>>
    BY <2>1, <2>2
  <2>4. r.srv = s /\ r.h2c = h2c /\ r.stage = "run"
    OBVIOUS
  <2>5. IsDown(s) => h2c
    <3>1. CASE conn[c] = NoConn /\ ln[s] = "serving"
      BY <1>3, <3>1
    <3>2. CASE conn[c] = [srv |-> s, h2c |-> h2c, stage |-> "idle"]
      BY <1>3, <3>2 DEF Tracked, Active
    <3>3. QED
      BY <2>3, <3>1, <3>2
  <2>6. Replied(r) = IF IsDown(s) /\ ~h2c THEN NoConn ELSE [srv |-> s, h2c |-> h2c, stage |-> "idle"]
    BY <2>4 DEF Replied
  <2> HIDE DEF r
  <2>7. conn'[c] = r \/ conn'[c] = [srv |-> s, h2c |-> h2c, stage |-> "idle"]
    BY <1>2, <2>3, <2>5, <2>6
  <2>8. ConnShape(c)'
    BY <2>4, <2>7 DEF ConnShape, IdleConn, RunConn
  <2>9. ~(d.pc \in Ending /\ Never)
    BY <2>3 DEF Never, NoConn, Servers
  <2>10. conn'[c].srv = s /\ conn'[c].h2c = h2c
    BY <2>4, <2>7
  <2>11. (\A e \in Conns : e # c => conn'[e] = conn[e]) /\ conn' = [e \in Conns |-> conn'[e]]
    BY <1>2, <2>3
  <2>12. QED
    BY <1>1, <2>3, <2>5, <2>8, <2>9, <2>10, <2>11
<1>5. CASE Finish(c)
  <2>1. Active(c) /\ conn' = [conn EXCEPT ![c] = Replied(conn[c])] /\ UNCHANGED <<env, d, ln, signal, expired, busy, now>>
    BY <1>5 DEF Finish
  <2>2. RunConn(c)
    BY <1>2, <2>1 DEF ConnShape, IdleConn, Active, NoConn
  <2>3. PICK s \in {"client", "internal"}, b \in BOOLEAN : s = conn[c].srv /\ b = conn[c].h2c
    BY <2>2 DEF RunConn
  <2>4. conn'[c] = IF IsDown(s) /\ ~b THEN NoConn ELSE [srv |-> s, h2c |-> b, stage |-> "idle"]
    BY <1>2, <2>1, <2>3 DEF Replied
  <2>5. ConnShape(c)'
    BY <2>4 DEF ConnShape, IdleConn
  <2>6. ~(d.pc \in Ending /\ Never)
    BY <2>1 DEF Never, NoConn, Active
  <2>7. (\A e \in Conns : e # c => conn'[e] = conn[e]) /\ conn' = [e \in Conns |-> conn'[e]]
    BY <1>2, <2>1
  <2>8. QED
    BY <1>1, <2>1, <2>4, <2>5, <2>6, <2>7
<1>6. CASE Leave(c)
  <2>1. conn[c].stage # "none" /\ conn' = [conn EXCEPT ![c] = NoConn] /\ UNCHANGED <<env, d, ln, signal, expired, busy, now>>
    BY <1>6 DEF Leave, Active
  <2>2. conn'[c] = NoConn
    BY <1>2, <2>1
  <2>3. ConnShape(c)'
    BY <2>2 DEF ConnShape
  <2>4. ~(d.pc \in Ending /\ Never)
    BY <2>1 DEF Never, NoConn
  <2>5. (\A e \in Conns : e # c => conn'[e] = conn[e]) /\ conn' = [e \in Conns |-> conn'[e]]
    BY <1>2, <2>1
  <2>6. QED
    BY <1>1, <2>1, <2>2, <2>3, <2>4, <2>5
<1>7. QED
  BY <1>4, <1>5, <1>6

\* A request, its reply or its client's leaving.
LEMMA RequestInv ==
    ASSUME Shape, Loaded, Control, NEW c \in Conns, Request(c) \/ Finish(c) \/ Leave(c)
    PROVE  Control' /\ Loaded'
<1>0. /\ UNCHANGED <<env, d, ln, expired>> /\ Up
      /\ ~(d.pc \in Ending /\ Never)
      /\ \A e \in Conns : e # c => conn'[e] = conn[e]
      /\ conn'[c] = NoConn \/ (conn'[c].srv \in {"client", "internal"}
                               /\ (IsDown(conn'[c].srv) => conn'[c].h2c))
  BY RequestEffect
<1>1. Loaded' /\ MainOK'
  BY <1>0 DEF Control, Loaded, MainOK
<1>2. EndOK'
  BY <1>0 DEF Control, EndOK, WasShutDown
<1>3. ListenOK'
  BY <1>0, Frames DEF Control, ListenOK
<1>4. \A t \in Servers : IsDown(t) => \A e \in Tracked(t)' : e \in Tracked(t) /\ conn'[e] = conn[e]
  BY <1>0 DEF Tracked, NoConn, Servers
<1>5. DrainOK'
  <2>1. d.pc \notin Booting
    BY <1>0 DEF Up, Booting
  <2>2. \A t \in Servers : IsDown(t)' <=> IsDown(t)
    BY <1>0, Frames
  <2>3. \A t \in Servers : IsDown(t) => \A e \in Tracked(t)' : Active(e)'
    BY <1>4 DEF Control, DrainOK, Active
  <2>4. \A t \in Servers : IsDown(t) /\ ~(d.pc = "drain" /\ t = Order[d.down]) => d.err \/ Tracked(t)' = {}
    BY <1>4 DEF Control, DrainOK
  <2>5. QED
    BY <1>0, <2>1, <2>2, <2>3, <2>4 DEF DrainOK
<1>6. QED
  BY <1>1, <1>2, <1>3, <1>5 DEF Control

\* What the settings of an accepted environment mean to the validators.
LEMMA ConfigFacts ==
    ASSUME NEW e \in Envs, Accepted(e)
    PROVE  LET cfg == loadConfig(e) IN
           /\ cfg.secret <=> "AUTH_JWT_SECRET" \in e.given
           /\ cfg.token <=> "INTERNAL_TOKEN" \in e.given
           /\ cfg.dev <=> e.bool["AUTH_DEV_MODE"] = "true"
           /\ cfg.driver = Driver(e) /\ cfg.driver \in {"memory", "postgres", "entdb"}
           /\ \A v \in NumVars : cfg.num[v] = Value(v, e.num[v]) /\ cfg.num[v] \in Int
           /\ cfg.secret \/ (cfg.dev /\ ~cfg.secret)
<1> DEFINE cfg == loadConfig(e)
<1>1. cfg.dev <=> e.bool["AUTH_DEV_MODE"] = "true"
  BY DEF loadConfig, DevMode, parseBoolDefault
<1>2. cfg.driver = Driver(e) /\ cfg.driver \in {"memory", "postgres", "entdb"}
  BY DEF loadConfig, Accepted, StoreAccepted
<1>3. (cfg.secret <=> "AUTH_JWT_SECRET" \in e.given) /\ (cfg.token <=> "INTERNAL_TOKEN" \in e.given)
  BY DEF loadConfig
<1>4. \A v \in NumVars : cfg.num[v] = Value(v, e.num[v])
  BY DEF loadConfig
<1>5. \A v \in NumVars : Value(v, e.num[v]) \in Int
  <2>1. \A v \in NumVars : Default[v] \in Int
    BY DEF Default, NumVars, Lowest
  <2>2. QED
    BY <2>1, DaemonConstants DEF Value
<1>6. cfg.secret \/ cfg.dev
  BY <1>1, <1>3 DEF Accepted, AuthAccepted, DevMode, parseBoolDefault
<1>7. QED
  BY <1>1, <1>2, <1>3, <1>4, <1>5, <1>6

\* Validate's claims come from the header's own token, complete and checked.
LEMMA ValidateSound ==
    ASSUME NEW cfg, NEW h, NEW at \in Int, Validate(cfg, h, at) # NoClaims,
           h.tok.kind = "jwt" => h.tok.exp \in Int, cfg.num["AUTH_JWT_LEEWAY"] \in Int
    PROVE  LET w == Validate(cfg, h, at)  t == h.tok IN
           /\ w.user # "" /\ w.tenant # ""
           /\ \/ /\ t.kind = "jwt" /\ t.signed /\ cfg.secret
                 /\ w.user = t.sub
                 /\ t.exp # 0 => at <= t.exp + cfg.num["AUTH_JWT_LEEWAY"]
              \/ t.kind = "dev" /\ cfg.dev /\ ~cfg.secret
<1> DEFINE t == stripBearer(h)
           c == CASE t.kind = "jwt" -> JWTClaims(t)
                  [] t.kind = "dev" -> [user |-> t.user, tenant |-> t.tenant]
                  [] OTHER          -> NoClaims
<1>1. /\ Validate(cfg, h, at) = c
      /\ t.kind = buildValidator(cfg) /\ Complete(c)
      /\ t.kind = "jwt" => Verified(cfg, t, at)
  BY Zenon DEF Validate
<1>2. c.user # "" /\ c.tenant # ""
  BY <1>1 DEF Complete
<1>3. t.kind \in {"jwt", "dev"}
  <2>1. NoClaims.user = ""
    BY DEF NoClaims
  <2>2. t.kind \notin {"jwt", "dev"} => c = NoClaims
    OBVIOUS
  <2> HIDE DEF c
  <2>3. QED
    BY <1>2, <2>1, <2>2
<1>4. t = h.tok
  BY <1>3 DEF stripBearer, NoToken
<1>5. CASE t.kind = "jwt"
  <2>1. cfg.secret /\ Verified(cfg, t, at)
    BY <1>1, <1>5 DEF buildValidator
  <2>2. t.signed /\ (t.exp # 0 => at < t.exp + cfg.num["AUTH_JWT_LEEWAY"])
    BY <2>1 DEF Verified
  <2>3. t.exp \in Int
    BY <1>4, <1>5
  <2>4. t.exp # 0 => at <= t.exp + cfg.num["AUTH_JWT_LEEWAY"]
    BY <2>2, <2>3
  <2>5. c.user = t.sub
    BY <1>5 DEF JWTClaims
  <2>6. QED
    BY <1>1, <1>2, <1>4, <1>5, <2>1, <2>2, <2>4, <2>5
<1>6. CASE t.kind = "dev"
  BY <1>1, <1>2, <1>4, <1>6 DEF buildValidator
<1>7. QED
  BY <1>3, <1>5, <1>6

\* What ServedAreTrusted says of one connection.
Trusted(c) ==
  Active(c) =>
    LET r == conn[c]  t == r.header.tok IN
    /\ r.srv = "client" =>
         /\ r.who.user # "" /\ r.who.tenant # ""
         /\ \/ /\ t.kind = "jwt" /\ t.signed /\ "AUTH_JWT_SECRET" \in env.given
               /\ r.who.user = t.sub
               /\ t.exp # 0 => r.at <= t.exp + d.cfg.num["AUTH_JWT_LEEWAY"]
            \/ /\ t.kind = "dev" /\ env.bool["AUTH_DEV_MODE"] = "true"
               /\ "AUTH_JWT_SECRET" \notin env.given
    /\ r.srv = "internal" =>
         r.token = "right" \/ (env.bool["AUTH_DEV_MODE"] = "true" /\ "INTERNAL_TOKEN" \notin env.given)

\* The interceptors let only trusted requests through.
LEMMA RequestTrusted ==
    ASSUME Shape, Loaded, Control, NEW c \in Conns, Request(c)
    PROVE  Trusted(c)'
<1> USE DaemonConstants
<1>1. UNCHANGED <<env, d, now>> /\ d.cfg = loadConfig(env) /\ Accepted(env) /\ env \in Envs /\ now \in Int
  BY RequestEffect DEF Shape
<1>2. PICK p \in Procs, h2c \in BOOLEAN, h \in Headers \cup {NoHeader}, k \in Tokens \cup {"none"} :
        LET r == [srv |-> ServerOf(p), h2c |-> h2c, stage |-> "run", proc |-> p, header |-> h, token |-> k,
                  who |-> Validate(d.cfg, h, now), at |-> now]
        IN  /\ Up
            /\ IF p = "Notify" THEN h = NoHeader ELSE k = "none"
            /\ \/ conn[c] = NoConn /\ ln[ServerOf(p)] = "serving"
               \/ conn[c] = [srv |-> ServerOf(p), h2c |-> h2c, stage |-> "idle"]
            /\ conn' = [conn EXCEPT ![c] = IF Admitted(r) THEN r ELSE Replied(r)]
            /\ UNCHANGED <<env, d, ln, signal, expired, busy, now>>
  BY Zenon DEF Request
<1>3. PICK s \in {"client", "internal"} : s = ServerOf(p)
  BY DEF ServerOf
<1>4. PICK w : w = Validate(d.cfg, h, now)
  OBVIOUS
<1> DEFINE r == [srv |-> s, h2c |-> h2c, stage |-> "run", proc |-> p, header |-> h, token |-> k,
                 who |-> w, at |-> now]
<1>5. conn' = [conn EXCEPT ![c] = IF Admitted(r) THEN r ELSE Replied(r)]
  BY <1>2, <1>3, <1>4
<1>6. /\ r.srv = s /\ r.h2c = h2c /\ r.stage = "run" /\ r.header = h /\ r.token = k /\ r.who = w
      /\ r.at = now
  OBVIOUS
<1>7. conn'[c] = IF Admitted(r) THEN r ELSE Replied(r)
  BY <1>5 DEF Shape
<1>8. Replied(r).stage # "run"
  BY DEF Replied, NoConn
<1>9. Admitted(r) => /\ s = "client" => w # NoClaims
                     /\ s = "internal" => InternalAllowed(d.cfg, k)
  BY <1>4, <1>6 DEF Admitted
<1> HIDE DEF r
<1>10. ASSUME Active(c)' PROVE conn'[c] = r /\ Admitted(r)
  BY <1>7, <1>8, <1>10 DEF Active
<1>11. ASSUME w # NoClaims
       PROVE  /\ w.user # "" /\ w.tenant # ""
              /\ \/ /\ h.tok.kind = "jwt" /\ h.tok.signed /\ d.cfg.secret
                    /\ w.user = h.tok.sub
                    /\ h.tok.exp # 0 => now <= h.tok.exp + d.cfg.num["AUTH_JWT_LEEWAY"]
                 \/ h.tok.kind = "dev" /\ d.cfg.dev /\ ~d.cfg.secret
  <2>1. h.tok.kind = "jwt" => h.tok.exp \in Int
    BY DEF NoHeader, NoToken
  <2>2. d.cfg.num["AUTH_JWT_LEEWAY"] \in Int
    <3>1. "AUTH_JWT_LEEWAY" \in NumVars
      BY DEF NumVars, Lowest
    <3>2. QED
      BY <1>1, <3>1, ConfigFacts
  <2>3. QED
    BY <1>1, <1>4, <1>11, <2>1, <2>2, ValidateSound
<1>12. /\ d.cfg.secret <=> "AUTH_JWT_SECRET" \in env.given
       /\ d.cfg.token <=> "INTERNAL_TOKEN" \in env.given
       /\ d.cfg.dev <=> env.bool["AUTH_DEV_MODE"] = "true"
  BY <1>1, ConfigFacts
<1>13. InternalAllowed(d.cfg, k) => k = "right" \/ (d.cfg.dev /\ ~d.cfg.token)
  BY DEF InternalAllowed
<1>14. QED
  BY <1>1, <1>6, <1>9, <1>10, <1>11, <1>12, <1>13 DEF Trusted

\* A connection keeps the trust of its request: the configuration it was checked
\* against does not change.
LEMMA TrustStays ==
    ASSUME NEW c \in Conns, Trusted(c), env' = env, d'.cfg = d.cfg \/ conn[c] = NoConn,
           conn'[c] = conn[c] \/ conn'[c].stage # "run"
    PROVE  Trusted(c)'
<1>1. CASE ~Active(c)'
  BY <1>1 DEF Trusted
<1>2. CASE Active(c)'
  <2>1. conn'[c] = conn[c] /\ Active(c) /\ d'.cfg = d.cfg
    BY <1>2 DEF Active, NoConn
  <2>2. QED
    BY <2>1 DEF Trusted
<1>3. QED
  BY <1>1, <1>2

\* The parts are built once, as configured, and the store is closed at the end.
LEMMA PartsStep ==
    ASSUME Shape, Loaded, Control, PartsOK, [Next]_vars
    PROVE  PartsOK'
<1> DEFINE Built == {"bind", "start"} \cup Running \cup {"cleanup", "closing", "return"}
<1>0. d \in Main0
  BY DEF Shape
<1>1. CASE d' = d
  BY <1>1 DEF PartsOK, StoreIsConfigured
<1>2. CASE LoadConfig \/ Exit
  <2>1. d'.pc \in {"deps", "exit"}
    BY <1>0, <1>2 DEF LoadConfig, Exit, Main0
  <2>2. QED
    BY <2>1 DEF PartsOK, Running
<1>3. CASE buildDependencies
  <2>1. /\ d'.cfg = d.cfg
        /\ \/ d'.pc = "exit"
           \/ d'.pc = "new" /\ d'.store = IF d.cfg.driver = "memory" THEN "none" ELSE "open"
    BY <1>0, <1>3 DEF buildDependencies, Main0
  <2>2. QED
    BY <2>1 DEF PartsOK, Running
<1>4. CASE NewWithDeps
  <2>1. d.pc = "new" /\ d.store = IF d.cfg.driver = "memory" THEN "none" ELSE "open"
    BY <1>4 DEF NewWithDeps, PartsOK
  <2>2. buildValidator(d.cfg) # "none"
    <3>1. d.cfg = loadConfig(env) /\ Accepted(env) /\ env \in Envs
      BY <2>1 DEF Loaded, Shape
    <3>2. d.cfg.secret \/ (d.cfg.dev /\ ~d.cfg.secret)
      BY <3>1, ConfigFacts
    <3>3. QED
      BY <3>2 DEF buildValidator
  <2>3. d.cfg.live \in BOOLEAN
    BY <2>1, LiveIsBoolean
  <2>4. PICK P : P = IF d.cfg.live THEN {"in_app"} ELSE {}
    OBVIOUS
  <2>5. "in_app" \in P <=> d.cfg.live
    BY <2>4
  <2>6. d' = [[d EXCEPT !.store = IF @ = "none" THEN "inproc" ELSE @] EXCEPT !.pc = "bind", !.providers = P]
    BY <1>4, <2>2, <2>4 DEF NewWithDeps
  <2>7. d'.pc = "bind" /\ d'.cfg = d.cfg /\ d'.providers = P
        /\ d'.store = IF d.store = "none" THEN "inproc" ELSE d.store
    BY <1>0, <2>6 DEF Main0
  <2>8. StoreIsConfigured'
    BY <2>1, <2>7 DEF StoreIsConfigured
  <2>9. QED
    BY <2>5, <2>7, <2>8 DEF PartsOK
<1>5. ASSUME d.pc \in Built, d'.pc # "new", d'.cfg = d.cfg, d'.providers = d.providers,
             d'.store = d.store \/ (d.store = "open" /\ d'.store = "closed")
      PROVE  PartsOK'
  <2>1. StoreIsConfigured /\ ("in_app" \in d.providers <=> d.cfg.live)
    BY <1>5 DEF PartsOK
  <2>2. StoreIsConfigured'
    BY <1>5, <2>1 DEF StoreIsConfigured
  <2>3. QED
    BY <1>5, <2>1, <2>2 DEF PartsOK
<1>6. ASSUME NEW s \in Servers, Bind(s) PROVE PartsOK'
  BY <1>0, <1>5, <1>6 DEF Bind, Main0
<1>7. CASE BindFails \/ Start \/ MarkReady \/ Wake \/ Shutdown
  BY <1>0, <1>5, <1>7 DEF BindFails, Start, MarkReady, Wake, Shutdown, Main0, Running
<1>8. CASE CloseListener \/ Drain \/ ShutdownReturns \/ Wait
  BY <1>0, <1>5, <1>8 DEF CloseListener, Drain, ShutdownReturns, Wait, Main0, Running
<1>9. CASE Cleanup \/ PoolCloses
  BY <1>0, <1>5, <1>9 DEF Cleanup, PoolCloses, Main0
<1>10. QED
  BY <1>1, <1>2, <1>3, <1>4, <1>6, <1>7, <1>8, <1>9, StepKinds DEF Main

-----------------------------------------------------------------------------
(* The invariant.                                                          *)

\* Apart from its own record, the main goroutine writes listeners and closes
\* connections.
LEMMA MainWrites ==
    ASSUME Shape, Main
    PROVE  /\ UNCHANGED <<env, signal, expired, now>>
           /\ ln' \in [Servers -> {"none", "bound", "launched", "serving", "closed", "failed"}]
           /\ conn' = [c \in Conns |-> conn'[c]]
           /\ \A c \in Conns : conn'[c] = conn[c] \/ conn'[c] = NoConn
           /\ busy' = busy \/ busy' = {}
           /\ d'.cfg = d.cfg \/ d.pc = "load"
<1>0. d \in Main0 /\ ln \in [Servers -> {"none", "bound", "launched", "serving", "closed", "failed"}]
      /\ conn = [c \in Conns |-> conn[c]]
  BY DEF Shape
<1>1. CASE LoadConfig \/ buildDependencies \/ NewWithDeps \/ MarkReady \/ Wake \/ Shutdown
  <2>1. UNCHANGED <<ln, world>>
    BY <1>1 DEF LoadConfig, buildDependencies, NewWithDeps, MarkReady, Wake, Shutdown
  <2>2. d'.cfg = d.cfg \/ d.pc = "load"
    <3>1. CASE LoadConfig
      BY <3>1 DEF LoadConfig
    <3>2. CASE buildDependencies \/ NewWithDeps
      BY <1>0, <3>2 DEF buildDependencies, NewWithDeps, Main0
    <3>3. CASE MarkReady \/ Wake \/ Shutdown
      BY <1>0, <3>3 DEF MarkReady, Wake, Shutdown, Main0
    <3>4. QED
      BY <1>1, <3>1, <3>2, <3>3
  <2>3. QED
    BY <1>0, <2>1, <2>2 DEF world
<1>2. CASE Drain \/ ShutdownReturns \/ Wait \/ Cleanup \/ PoolCloses
  <2>1. UNCHANGED <<ln, world>>
    BY <1>2 DEF Drain, ShutdownReturns, Wait, Cleanup, PoolCloses
  <2>2. d'.cfg = d.cfg
    BY <1>0, <1>2 DEF Drain, ShutdownReturns, Wait, Cleanup, PoolCloses, Main0
  <2>3. QED
    BY <1>0, <2>1, <2>2 DEF world
<1>3. ASSUME NEW s \in Servers, Bind(s)
      PROVE  /\ UNCHANGED world /\ d'.cfg = d.cfg
             /\ ln' \in [Servers -> {"none", "bound", "launched", "serving", "closed", "failed"}]
  BY <1>0, <1>3 DEF Bind, Main0
<1>4. CASE BindFails \/ Start
  <2>1. UNCHANGED world /\ d'.cfg = d.cfg
    BY <1>0, <1>4 DEF BindFails, Start, Main0
  <2>2. ln' \in [Servers -> {"none", "bound", "launched", "serving", "closed", "failed"}]
    BY <1>0, <1>4 DEF BindFails, Start
  <2>3. QED
    BY <1>0, <2>1, <2>2 DEF world
<1>5. CASE CloseListener
  <2>1. UNCHANGED <<env, signal, expired, busy, now>> /\ d'.cfg = d.cfg
    BY <1>0, <1>5 DEF CloseListener, Main0
  <2>2. ln' \in [Servers -> {"none", "bound", "launched", "serving", "closed", "failed"}]
    BY <1>0, <1>5 DEF CloseListener
  <2>3. conn' = [c \in Conns |-> conn'[c]] /\ \A c \in Conns : conn'[c] = conn[c] \/ conn'[c] = NoConn
    BY <1>5 DEF CloseListener
  <2>4. QED
    BY <2>1, <2>2, <2>3
<1>6. CASE Exit
  BY <1>0, <1>6 DEF Exit, Main0
<1>7. QED
  BY <1>0, <1>1, <1>2, <1>3, <1>4, <1>5, <1>6 DEF Main, world

\* The process has been started and nothing else.
LEMMA InitIInv == Init => IInv
<1> SUFFICES ASSUME Init PROVE IInv
  OBVIOUS
<1> USE DaemonConstants
<1>1. \A c \in Conns : conn[c] = NoConn
  BY DEF Init
<1>2. /\ d.pc = "load" /\ d.cfg = NoCfg /\ d.code = "none" /\ d.store = "none" /\ ~d.ready /\ d.down = 0
      /\ ~d.err /\ d \in Main0
  BY DEF Init, Main0, NoCfg, Cfgs, Booting
<1>3. Shape
  BY <1>1, <1>2 DEF Init, Shape, ConnShape
<1>4. Loaded /\ MainOK /\ EndOK
  BY <1>2 DEF Loaded, MainOK, EndOK, Ending, Booting
<1>5. \A s \in Servers : ~IsDown(s)
  BY <1>2 DEF IsDown
<1>6. ListenOK
  BY <1>2, <1>5 DEF Init, ListenOK, Running
<1>7. DrainOK
  BY <1>1, <1>5 DEF DrainOK
<1>8. ServedAreTrusted
  <2>1. \A c \in Conns : ~Active(c)
    BY <1>1 DEF Active, NoConn
  <2>2. QED
    BY <2>1 DEF ServedAreTrusted
<1>9. PartsOK
  BY <1>2 DEF PartsOK, Running
<1>10. QED
  BY <1>3, <1>4, <1>6, <1>7, <1>8, <1>9 DEF IInv

\* Every step of the process, its clients and its environment keeps it.
LEMMA StepIInv == IInv /\ [Next]_vars => IInv'
<1> SUFFICES ASSUME IInv, [Next]_vars PROVE IInv'
  OBVIOUS
<1>0. Shape /\ Loaded /\ Control /\ (\A c \in Conns : Trusted(c)) /\ d' \in Main0
  BY MainShape DEF IInv, Control, ServedAreTrusted, Trusted
<1>b. PartsOK'
  BY <1>0, PartsStep DEF IInv
<1>a. SUFFICES Shape' /\ Loaded' /\ Control' /\ \A c \in Conns : Trusted(c)'
  BY <1>b DEF IInv, Control, ServedAreTrusted, Trusted
<1> DEFINE Goal == Shape' /\ Loaded' /\ Control' /\ \A c \in Conns : Trusted(c)'
<1>1. CASE Main
  <2>1. /\ UNCHANGED <<env, signal, expired, now>>
        /\ ln' \in [Servers -> {"none", "bound", "launched", "serving", "closed", "failed"}]
        /\ conn' = [c \in Conns |-> conn'[c]]
        /\ \A c \in Conns : conn'[c] = conn[c] \/ conn'[c] = NoConn
        /\ busy' = busy \/ busy' = {}
        /\ d'.cfg = d.cfg \/ d.pc = "load"
    BY <1>0, <1>1, MainWrites
  <2>2. \A c \in Conns : ConnShape(c)'
    BY <1>0, <2>1 DEF Shape, ConnShape, IdleConn, RunConn
  <2>3. Shape'
    BY <1>0, <2>1, <2>2 DEF Shape
  <2>4. Control' /\ Loaded'
    BY <1>0, <1>1, MainStep
  <2>5. ASSUME NEW c \in Conns PROVE Trusted(c)'
    <3>1. d'.cfg = d.cfg \/ conn[c] = NoConn
      BY <1>0, <2>1 DEF Control, DrainOK, Booting
    <3>2. conn'[c] = conn[c] \/ conn'[c].stage # "run"
      BY <2>1 DEF NoConn
    <3>3. QED
      BY <1>0, <2>1, <3>1, <3>2, TrustStays
  <2>6. QED
    BY <2>3, <2>4, <2>5
<1>2. ASSUME UNCHANGED <<env, d, conn>>, ln' \in [Servers -> {"none", "bound", "launched", "serving", "closed", "failed"}],
             signal' \in BOOLEAN, expired' \in BOOLEAN, now' \in Times, busy' \subseteq Conns
      PROVE  Shape' /\ \A c \in Conns : Trusted(c)'
  <2>1. \A c \in Conns : ConnShape(c)'
    BY <1>0, <1>2 DEF Shape, ConnShape, IdleConn, RunConn
  <2>2. Shape'
    BY <1>0, <1>2, <2>1 DEF Shape
  <2>3. QED
    BY <1>0, <1>2, <2>2, TrustStays
<1>3. ASSUME NEW s \in Servers, Serve(s) \/ ServeFails(s) PROVE Goal
  <2>1. UNCHANGED <<env, d, conn, signal, expired, busy, now>>
    BY <1>3 DEF Serve, ServeFails, world
  <2>2. ln' \in [Servers -> {"none", "bound", "launched", "serving", "closed", "failed"}]
    BY <1>0, <1>3 DEF Serve, ServeFails, Shape
  <2>3. Shape' /\ \A c \in Conns : Trusted(c)'
    BY <1>0, <1>2, <2>1, <2>2 DEF Shape
  <2>4. Control' /\ Loaded'
    BY <1>0, <1>3, ServeInv
  <2>5. QED
    BY <2>3, <2>4
<1>4. ASSUME Signal \/ Expire \/ Tick \/ UNCHANGED vars \/ \E c \in Conns : Acquire(c) \/ Release(c)
      PROVE  Goal
  <2>1. /\ UNCHANGED <<env, d, ln, conn>> /\ (expired' = expired \/ expired' = TRUE)
        /\ signal' \in BOOLEAN /\ expired' \in BOOLEAN /\ now' \in Times /\ busy' \subseteq Conns
    BY <1>0, <1>4 DEF Signal, Expire, Tick, Acquire, Release, vars, Shape
  <2>2. Shape' /\ \A c \in Conns : Trusted(c)'
    BY <1>0, <1>2, <2>1 DEF Shape
  <2>3. Control' /\ Loaded'
    BY <1>0, <2>1, OutsideInv
  <2>4. QED
    BY <2>2, <2>3
<1>5. ASSUME NEW c \in Conns, Request(c) \/ Finish(c) \/ Leave(c) PROVE Goal
  <2>1. /\ UNCHANGED <<env, d, ln, signal, expired, busy, now>>
        /\ \A e \in Conns : e # c => conn'[e] = conn[e]
        /\ conn' = [e \in Conns |-> conn'[e]]
        /\ ConnShape(c)'
    BY <1>0, <1>5, RequestEffect
  <2>2. \A e \in Conns : ConnShape(e)'
    <3>1. ASSUME NEW e \in Conns, e # c PROVE ConnShape(e)'
      BY <1>0, <2>1, <3>1 DEF Shape, ConnShape, IdleConn, RunConn
    <3>2. QED
      BY <2>1, <3>1
  <2>3. Shape'
    BY <1>0, <2>1, <2>2 DEF Shape
  <2>4. Control' /\ Loaded'
    BY <1>0, <1>5, RequestInv
  <2>5. Trusted(c)'
    <3>1. CASE Request(c)
      BY <1>0, <3>1, RequestTrusted
    <3>2. CASE Finish(c) \/ Leave(c)
      <4>1. conn'[c].stage # "run"
        BY <1>0, <3>2 DEF Finish, Leave, Shape, Replied, NoConn
      <4>2. QED
        BY <1>0, <2>1, <4>1, TrustStays
    <3>3. QED
      BY <1>5, <3>1, <3>2
  <2>6. \A e \in Conns : Trusted(e)'
    BY <1>0, <2>1, <2>5, TrustStays
  <2>7. QED
    BY <2>3, <2>4, <2>6
<1>6. QED
  BY <1>1, <1>3, <1>4, <1>5 DEF Next, Done

\* The inductive invariant holds in every reachable state.
LEMMA Invariance == Spec => []IInv
  BY InitIInv, StepIInv, PTL DEF Spec

-----------------------------------------------------------------------------
(* Theorems.                                                               *)

\* For any environment: a process that is up has a configuration its parts can
\* run with, and it is ready when /healthz says so.
THEOREM ProcessRunsAsConfigured == Spec => []RunsAsConfigured
<1>1. ASSUME IInv PROVE TypeOK
  <2>1. \A c \in Conns : conn[c].stage \in {"none", "idle", "run"} /\ conn[c].srv \in Servers \cup {"none"}
    BY <1>1 DEF IInv, Shape, ConnShape, IdleConn, RunConn, NoConn, Servers
  <2>2. d.code \in IF d.pc \in {"cleanup", "closing", "return", "exit"} THEN {"0", "1"} ELSE {"none"}
    BY <1>1 DEF IInv, Shape, Main0, MainOK, Ending
  <2>3. /\ d.pc \in {"load", "deps", "new", "bind", "start", "ready", "select", "shutdown", "close",
               "drain", "wait", "cleanup", "closing", "return", "exit"}
        /\ d.providers \subseteq {"in_app"} /\ busy \subseteq Conns
        /\ d.store \in {"none", "inproc", "open", "closed"} /\ d.down \in 0 .. 3
        /\ {d.ready, d.failed, d.err, d.cancelled} \subseteq BOOLEAN
    BY <1>1 DEF IInv, Shape, Main0, Booting, Running, Ending
  <2>4. QED
    BY <1>1, <2>1, <2>2, <2>3 DEF IInv, Shape, TypeOK
<1>2. ASSUME IInv PROVE ConfigUsable
  <2> SUFFICES ASSUME d.cfg.driver # "none"
               PROVE  /\ \A v \in {"LIVE_HEARTBEAT_INTERVAL", "LIVE_RETRY_INTERVAL", "SHUTDOWN_TIMEOUT"} :
                            d.cfg.num[v] > 0
                      /\ \A s \in Servers : Port(s) \in 1 .. MaxPort
                      /\ \A q \in Requires : env.name[q[1]] = q[2] => q[3] \subseteq env.given
                      /\ "email" \in d.cfg.channels => "EMAIL_FROM" \in env.given
                      /\ d.cfg.dev => env.bool["AUTH_DEV_MODE"] = "true"
                      /\ buildValidator(d.cfg) # "none"
    BY DEF ConfigUsable
  <2>1. d.cfg = loadConfig(env) /\ Accepted(env) /\ env \in Envs
    BY <1>2 DEF IInv, Loaded, NoCfg, Shape
  <2>2. /\ d.cfg.dev <=> env.bool["AUTH_DEV_MODE"] = "true"
        /\ d.cfg.driver = Driver(env)
        /\ \A v \in NumVars : d.cfg.num[v] = Value(v, env.num[v]) /\ d.cfg.num[v] \in Int
        /\ d.cfg.secret \/ (d.cfg.dev /\ ~d.cfg.secret)
    BY <2>1, ConfigFacts
  <2>3. \A v \in NumVars : Legal(v, env.num[v])
    BY <2>1 DEF Accepted
  <2>4. \A v \in {"LIVE_HEARTBEAT_INTERVAL", "LIVE_RETRY_INTERVAL", "SHUTDOWN_TIMEOUT"} : d.cfg.num[v] > 0
    <3> SUFFICES ASSUME NEW v \in {"LIVE_HEARTBEAT_INTERVAL", "LIVE_RETRY_INTERVAL", "SHUTDOWN_TIMEOUT"}
                 PROVE  d.cfg.num[v] > 0
      OBVIOUS
    <3>1. v \in NumVars /\ Lowest[v] = 1 /\ Default[v] \in {5, 30}
      BY DEF NumVars, Lowest, Default
    <3>2. d.cfg.num[v] >= 1 \/ d.cfg.num[v] \in {5, 30}
      BY <2>2, <2>3, <3>1 DEF Legal, Value
    <3>3. QED
      BY <2>2, <3>1, <3>2
  <2>5. \A v \in PortVars : d.cfg.num[v] \in 1 .. MaxPort
    <3> SUFFICES ASSUME NEW v \in PortVars PROVE d.cfg.num[v] \in 1 .. MaxPort
      OBVIOUS
    <3>1. v \in NumVars /\ Lowest[v] = 1 /\ Default[v] \in {8080, 8081, 9090}
      BY DEF PortVars, NumVars, Lowest, Default
    <3>2. (d.cfg.num[v] >= 1 /\ d.cfg.num[v] <= MaxPort) \/ d.cfg.num[v] \in {8080, 8081, 9090}
      BY <2>2, <2>3, <3>1 DEF Legal, Value
    <3>3. MaxPort \in Int /\ 9090 <= MaxPort
      BY DEF MaxPort
    <3>4. QED
      BY <2>2, <3>1, <3>2, <3>3
  <2>6. \A s \in Servers : Port(s) \in 1 .. MaxPort
    BY <2>5 DEF Port, Servers, PortVars
  <2>7. /\ \A q \in Requires : env.name[q[1]] = q[2] => q[3] \subseteq env.given
        /\ "email" \in d.cfg.channels => "EMAIL_FROM" \in env.given
    <3>1. RequirementsMet(env)
      BY <2>1 DEF Accepted
    <3>2. "email" \in d.cfg.channels => EmailProvider(env) # "none"
      <4>1. d.cfg.channels = Selected(env)
        BY <2>1 DEF loadConfig
      <4>2. QED
        BY <4>1 DEF Selected
    <3>3. QED
      BY <3>1, <3>2 DEF RequirementsMet
  <2>8. buildValidator(d.cfg) # "none"
    BY <2>2 DEF buildValidator
  <2>9. QED
    BY <2>2, <2>4, <2>6, <2>7, <2>8
<1>3. ASSUME IInv PROVE ReadyMeansServing
  <2> SUFFICES ASSUME d.ready
               PROVE  /\ d.down = 0
                      /\ \A s \in Servers : \/ ln[s] \in {"launched", "serving"}
                                            \/ ln[s] = "failed" /\ d.pc \in {"select", "shutdown"}
                      /\ \A s, t \in Servers : s # t => Port(s) # Port(t)
    BY DEF ReadyMeansServing
  <2>1. d.pc \in {"select", "shutdown"} /\ d.down = 0
    BY <1>3 DEF IInv, MainOK
  <2>2. \A s \in Servers : ~IsDown(s)
    BY <2>1 DEF IsDown
  <2>3. QED
    BY <1>3, <2>1, <2>2 DEF IInv, ListenOK, Running
<1>4. ASSUME IInv PROVE PartsAsConfigured
  <2>1. ASSUME Up PROVE d.pc \in {"bind", "start"} \cup Running \cup {"cleanup", "closing", "return"}
    BY <2>1 DEF Up, Running
  <2>2. ASSUME Up PROVE "in_app" \in d.providers <=> d.cfg.live
    BY <1>4, <2>1, <2>2 DEF IInv, PartsOK
  <2>3. d.providers \subseteq {"in_app"}
    BY <1>1, <1>4 DEF TypeOK
  <2>4. ASSUME Up PROVE d.providers = IF d.cfg.live THEN {"in_app"} ELSE {}
    <3>1. CASE d.cfg.live
      BY <2>2, <2>3, <2>4, <3>1
    <3>2. CASE ~d.cfg.live
      BY <2>2, <2>3, <2>4, <3>2
    <3>3. QED
      BY <3>1, <3>2
  <2>5. QED
    BY <1>4, <2>1, <2>4 DEF IInv, PartsOK, StoreIsConfigured, PartsAsConfigured
<1>5. IInv => RunsAsConfigured
  BY <1>1, <1>2, <1>3, <1>4 DEF RunsAsConfigured
<1>6. QED
  BY <1>5, Invariance, PTL

\* For any environment, headers and clock: whoever is served was named by a
\* token, or is a producer, that this configuration trusted at the time.
THEOREM OnlyTrustedAreServed == Spec => []ServedAreTrusted
<1>1. IInv => ServedAreTrusted
  BY DEF IInv
<1>2. QED
  BY <1>1, Invariance, PTL

\* For any number of connections: the store is closed under a running handler
\* only past the deadline, or on a connection that net/http does not track.
THEOREM StoreOutlivesHandlers == Spec => []ClosedUnderHandlerHasCause
<1>1. ASSUME IInv, d.store = "closed", NEW c \in Conns, Active(c)
      PROVE  conn[c].h2c \/ (expired /\ d.code = "1")
  <2>1. d.pc \in {"closing", "return", "exit"}
    BY <1>1 DEF IInv, MainOK
  <2>2. WasShutDown
    BY <1>1, <2>1 DEF IInv, EndOK, Ending, Never, NoConn, Active
  <2>3. conn[c].srv \in {"client", "internal"}
    BY <1>1 DEF IInv, Shape, ConnShape, IdleConn, RunConn, NoConn, Active
  <2>4. IsDown(conn[c].srv)
    BY <2>2, <2>3, OrderFacts DEF WasShutDown
  <2>5. conn[c].h2c \/ d.err
    BY <1>1, <2>1, <2>3, <2>4 DEF IInv, DrainOK, Tracked, Servers
  <2>6. QED
    BY <1>1, <2>2, <2>5 DEF IInv, MainOK, WasShutDown
<1>2. IInv => ClosedUnderHandlerHasCause
  BY <1>1 DEF ClosedUnderHandlerHasCause
<1>3. QED
  BY <1>2, Invariance, PTL

\* For any number of connections: exit status 0 means a drained process, and
\* nothing that was opened is left open.
THEOREM ExitsInOrder == Spec => []ExitIsOrderly
<1>1. ASSUME IInv PROVE CleanExitIsDrained
  <2> SUFFICES ASSUME d.code = "0"
               PROVE  /\ \A s \in Servers, c \in Conns : c \in Tracked(s) => ~Active(c)
                      /\ \A s \in Servers : ln[s] \in {"closed", "failed"}
                      /\ d.cfg.live => d.cancelled
    BY DEF CleanExitIsDrained
  <2>1. d.pc \in Ending /\ WasShutDown
    BY <1>1 DEF IInv, MainOK, EndOK, Never
  <2>2. \A s \in Servers : IsDown(s)
    BY <2>1, OrderFacts DEF WasShutDown, Servers
  <2>3. \A s \in Servers : Tracked(s) = {}
    BY <1>1, <2>1, <2>2 DEF IInv, DrainOK, WasShutDown, Ending
  <2>4. QED
    BY <2>1, <2>3 DEF WasShutDown
<1>2. ASSUME IInv PROVE NothingLeftOpen
  <2>1. ASSUME d.pc = "exit", NEW s \in Servers
        PROVE  d.store # "open" /\ ln[s] # "bound" /\ (ln[s] \in {"launched", "serving"} => d.failed \/ d.err)
    BY <1>2, <2>1 DEF IInv, MainOK, EndOK, Never, WasShutDown, Ending
  <2>2. d.pc = "exit" => d.store # "open"
    BY <1>2 DEF IInv, MainOK
  <2>3. QED
    BY <2>1, <2>2 DEF NothingLeftOpen
<1>3. IInv => ExitIsOrderly
  BY <1>1, <1>2 DEF ExitIsOrderly
<1>4. QED
  BY <1>3, Invariance, PTL
=============================================================================
