------------------------------- MODULE Daemon -------------------------------
(***************************************************************************)
(* One notifyd process from its environment to its exit: run and           *)
(* buildDependencies of cmd/notifyd, NewWithDeps, Run, bindListeners and   *)
(* Shutdown of internal/server, and the requests its HTTP servers admit    *)
(* meanwhile.  d is what the main goroutine owns; every server has a Serve *)
(* goroutine; a connection carries one request at a time.  A connection    *)
(* spoken as h2c is hijacked from net/http, so Shutdown neither waits for  *)
(* its handlers nor closes it.                                             *)
(***************************************************************************)
EXTENDS Config, Auth, Sequences

CONSTANTS Conns,     \* client connections
          Envs,      \* environments the process may be started with
          Headers,   \* Authorization headers clients send
          Tokens,    \* X-Notify-Internal-Token headers producers send
          Procs,     \* procedures called
          Times      \* times the clock may show

\* Numbers where the code parses numbers: settings, exp claims, times.
ASSUME DaemonConstants ==
  /\ 0 \in Times /\ Times \subseteq Int
  /\ \A e \in Envs, v \in NumVars : e.num[v].raw = "num" => e.num[v].n \in Int
  /\ \A h \in Headers : h.tok.kind = "jwt" => h.tok.exp \in Int

VARIABLES env,       \* the environment
          d,         \* the main goroutine: a record, see Init
          ln,        \* each server's listener and Serve goroutine
          signal,    \* whether SIGINT or SIGTERM has arrived
          expired,   \* whether the deadline of Shutdown has passed
          conn,      \* connections, each with its request
          busy,      \* those whose handler has a connection of the postgres pool
          now        \* the clock

vars  == <<env, d, ln, signal, expired, conn, busy, now>>
world == <<env, signal, expired, conn, busy, now>>

Order   == <<"client", "internal", "metrics">>
Servers == {"client", "internal", "metrics"}

Port(s) ==
  d.cfg.num[CASE s = "client"   -> "CLIENT_PORT"
              [] s = "internal" -> "INTERNAL_PORT"
              [] s = "metrics"  -> "METRICS_PORT"]

\* The routes of the generated handlers.
ServerOf(p) == IF p = "Notify" THEN "internal" ELSE "client"

\* Procedures whose handlers call the store.
UsesStore(p) == p \notin {"StreamEvents", "AckDataChange"}

NoHeader   == [scheme |-> "none", tok |-> NoToken]
NoConn     == [srv |-> "none", stage |-> "none"]
Active(c)  == conn[c].stage = "run"
Tracked(s) == {c \in Conns : conn[c].srv = s /\ ~conn[c].h2c}

Init ==
  /\ env \in Envs
  /\ d = [pc |-> "load", cfg |-> [driver |-> "none"], code |-> "none",
          store |-> "none",      \* then "inproc", or "open" and "closed"
          providers |-> {},      \* the channels of the provider registry
          ready |-> FALSE,       \* what /healthz says
          failed |-> FALSE,      \* Run was woken by errCh
          down |-> 0,            \* servers told to shut down: the first .. in Order
          err |-> FALSE,         \* firstErr of Shutdown
          cancelled |-> FALSE]   \* CancelAll has run
  /\ ln = [s \in Servers |-> "none"]
  /\ signal = FALSE /\ expired = FALSE /\ now = 0
  /\ conn = [c \in Conns |-> NoConn] /\ busy = {}

--------------------------------------------------------------------------
(* The main goroutine. *)

LoadConfig ==
  /\ d.pc = "load"
  /\ d' = IF Accepted(env)
          THEN [d EXCEPT !.pc = "deps", !.cfg = loadConfig(env)]
          ELSE [d EXCEPT !.pc = "exit", !.code = "1"]
  /\ UNCHANGED <<ln, world>>

\* A durable store is opened or is not; the memory store is left to NewWithDeps.
buildDependencies ==
  /\ d.pc = "deps"
  /\ \/ d' = [d EXCEPT !.pc = "new", !.store = IF d.cfg.driver = "memory" THEN "none" ELSE "open"]
     \/ d.cfg.driver # "memory" /\ d' = [d EXCEPT !.pc = "exit", !.code = "1"]
  /\ UNCHANGED <<ln, world>>

\* The memory store is made; no validator is an error; the in-app provider is
\* registered with live connections, and no other: run gives no Providers.
NewWithDeps ==
  /\ d.pc = "new"
  /\ LET e == [d EXCEPT !.store = IF @ = "none" THEN "inproc" ELSE @]
     IN  d' = IF buildValidator(d.cfg) = "none"
              THEN [e EXCEPT !.pc = "cleanup", !.code = "1"]
              ELSE [e EXCEPT !.pc = "bind", !.providers = IF d.cfg.live THEN {"in_app"} ELSE {}]
  /\ UNCHANGED <<ln, world>>

Bound == {s \in Servers : ln[s] = "bound"}

\* bindListeners: one net.Listen per step; a port taken before cannot be bound.
Bind(s) ==
  /\ d.pc = "bind"
  /\ \E k \in 1 .. 3 : s = Order[k] /\ Bound = {Order[j] : j \in 1 .. (k - 1)}
  /\ Port(s) \notin {Port(t) : t \in Bound}
  /\ ln' = [ln EXCEPT ![s] = "bound"]
  /\ d' = IF s = "metrics" THEN [d EXCEPT !.pc = "start"] ELSE d
  /\ UNCHANGED world

\* Any net.Listen can fail; the listeners bound before it are closed.
BindFails ==
  /\ d.pc = "bind"
  /\ d' = [d EXCEPT !.pc = "cleanup", !.code = "1"]
  /\ ln' = [s \in Servers |-> IF s \in Bound THEN "closed" ELSE ln[s]]
  /\ UNCHANGED world

Start ==
  /\ d.pc = "start"
  /\ d' = [d EXCEPT !.pc = "ready"]
  /\ ln' = [s \in Servers |-> "launched"]
  /\ UNCHANGED world

MarkReady ==
  /\ d.pc = "ready"
  /\ d' = [d EXCEPT !.pc = "select", !.ready = TRUE]
  /\ UNCHANGED <<ln, world>>

\* Run's select: a signal, or the error of a Serve goroutine; either if both.
Wake ==
  /\ d.pc = "select"
  /\ \/ signal /\ d' = [d EXCEPT !.pc = "shutdown"]
     \/ /\ \E s \in Servers : ln[s] = "failed"
        /\ d' = [d EXCEPT !.pc = "shutdown", !.failed = TRUE]
  /\ UNCHANGED <<ln, world>>

\* Mutant: the health check goes on saying ready.
ShutdownStillReady == d.pc = "shutdown" /\ d' = [d EXCEPT !.pc = "close"] /\ UNCHANGED <<ln, world>>

Shutdown ==
  /\ d.pc = "shutdown"
  /\ d' = [d EXCEPT !.pc = "close", !.ready = FALSE]
  /\ UNCHANGED <<ln, world>>

\* http.Server.Shutdown of the next server: its listener and its idle
\* connections are closed at once ...
CloseListener ==
  /\ d.pc = "close" /\ d.down < 3
  /\ d' = [d EXCEPT !.pc = "drain", !.down = @ + 1]
  /\ LET s == Order[d.down + 1] IN
       /\ ln' = [ln EXCEPT ![s] = IF @ = "serving" THEN "closed" ELSE @]
       /\ conn' = [c \in Conns |-> IF c \in Tracked(s) /\ ~Active(c) THEN NoConn ELSE conn[c]]
  /\ UNCHANGED <<env, signal, expired, busy, now>>

Drained == \A c \in Tracked(Order[d.down]) : ~Active(c)

\* Mutant: the shutdown does not wait for handlers.
DrainNever == d.pc = "drain" /\ d' = [d EXCEPT !.pc = "close"] /\ UNCHANGED <<ln, world>>

\* Mutant: the wait has no deadline.
DrainPatiently ==
  /\ d.pc = "drain" /\ Drained
  /\ d' = [d EXCEPT !.pc = "close"]
  /\ UNCHANGED <<ln, world>>

\* ... and it returns when its tracked connections are idle, or with an error
\* once the deadline that the three servers share has passed.
Drain ==
  /\ d.pc = "drain"
  /\ Drained \/ expired
  /\ d' = [d EXCEPT !.pc = "close", !.err = @ \/ ~Drained]
  /\ UNCHANGED <<ln, world>>

\* Mutant: the error of a drain is dropped.
ShutdownReturnsNil ==
  /\ d.pc = "close" /\ d.down = 3
  /\ d' = [d EXCEPT !.cancelled = d.cfg.live, !.pc = IF d.failed THEN "cleanup" ELSE "wait",
                    !.code = IF d.failed THEN "1" ELSE @]
  /\ UNCHANGED <<ln, world>>

\* The end of Shutdown and what Run makes of it: only a clean one is waited for.
ShutdownReturns ==
  /\ d.pc = "close" /\ d.down = 3
  /\ d' = [d EXCEPT !.cancelled = d.cfg.live, !.pc = IF d.failed \/ d.err THEN "cleanup" ELSE "wait",
                    !.code = IF d.failed \/ d.err THEN "1" ELSE @]
  /\ UNCHANGED <<ln, world>>

\* wg.Wait: every Serve goroutine has returned.
Wait ==
  /\ d.pc = "wait"
  /\ \A s \in Servers : ln[s] \in {"closed", "failed"}
  /\ d' = [d EXCEPT !.pc = "cleanup", !.code = "0"]
  /\ UNCHANGED <<ln, world>>

\* The deferred cleanup of run closes a durable store: entdb's transport at once;
\* a postgres pool gives out no connection from now on ...
Cleanup ==
  /\ d.pc = "cleanup"
  /\ d' = [d EXCEPT !.pc = IF d.cfg.driver = "postgres" THEN "closing" ELSE "return",
                    !.store = IF @ = "open" THEN "closed" ELSE @]
  /\ UNCHANGED <<ln, world>>

\* ... and its Close returns when every connection that is out has been returned.
PoolCloses ==
  /\ d.pc = "closing" /\ busy = {}
  /\ d' = [d EXCEPT !.pc = "return"]
  /\ UNCHANGED <<ln, world>>

\* The process ends, and every goroutine with it.
Exit ==
  /\ d.pc = "return"
  /\ d' = [d EXCEPT !.pc = "exit"]
  /\ conn' = [c \in Conns |-> NoConn] /\ busy' = {}
  /\ UNCHANGED <<env, ln, signal, expired, now>>

--------------------------------------------------------------------------
(* Serve goroutines, the operating system and the clock. *)

Up == d.pc \in {"ready", "select", "shutdown", "close", "drain", "wait", "cleanup", "closing", "return"}

IsDown(s) == \E k \in 1 .. d.down : Order[k] = s

\* A server told to shut down before it came to serve closes its listener.
Serve(s) ==
  /\ Up /\ ln[s] = "launched"
  /\ ln' = [ln EXCEPT ![s] = IF IsDown(s) THEN "closed" ELSE "serving"]
  /\ UNCHANGED <<d, world>>

\* Accept fails for good; the goroutine puts the error into errCh and returns.
ServeFails(s) ==
  /\ Up /\ ln[s] = "serving"
  /\ ln' = [ln EXCEPT ![s] = "failed"]
  /\ UNCHANGED <<d, world>>

Signal ==
  /\ Up \/ d.pc \in {"bind", "start"}
  /\ ~signal /\ signal' = TRUE
  /\ UNCHANGED <<env, d, ln, expired, conn, busy, now>>

Expire ==
  /\ d.pc \in {"close", "drain"}
  /\ ~expired /\ expired' = TRUE
  /\ UNCHANGED <<env, d, ln, signal, conn, busy, now>>

Tick ==
  /\ Up
  /\ \E t \in Times : t > now /\ now' = t
  /\ UNCHANGED <<env, d, ln, signal, expired, conn, busy>>

--------------------------------------------------------------------------
(* Requests. *)

\* After a reply a connection is kept, unless net/http is shutting its server down.
Replied(r) ==
  IF IsDown(r.srv) /\ ~r.h2c THEN NoConn
  ELSE [srv |-> r.srv, h2c |-> r.h2c, stage |-> "idle"]

\* Mutant: streams are not authenticated.
AdmittedUnaryOnly(r) ==
  IF r.srv = "internal" THEN InternalAllowed(d.cfg, r.token)
  ELSE r.proc = "StreamEvents" \/ Validate(d.cfg, r.header, now) # NoClaims

\* Without it StreamEvents answers Unimplemented.
maybeStreamHandler == d.cfg.live

\* The interceptors of unary calls, and streamAuthShim for StreamEvents.
Admitted(r) ==
  IF r.srv = "internal" THEN InternalAllowed(d.cfg, r.token)
  ELSE /\ Validate(d.cfg, r.header, now) # NoClaims
       /\ r.proc = "StreamEvents" => maybeStreamHandler

\* A request on a new connection of a server that accepts, or on an idle one:
\* its handler runs with the validated claims, or it is answered at once.
Request(c) ==
  \E p \in Procs, h2c \in BOOLEAN, h \in Headers \cup {NoHeader}, k \in Tokens \cup {"none"} :
    LET r == [srv |-> ServerOf(p), h2c |-> h2c, stage |-> "run", proc |-> p, header |-> h, token |-> k,
              who |-> Validate(d.cfg, h, now), at |-> now]
    IN  /\ Up
        /\ IF p = "Notify" THEN h = NoHeader ELSE k = "none"
        /\ \/ conn[c] = NoConn /\ ln[ServerOf(p)] = "serving"
           \/ conn[c] = [srv |-> ServerOf(p), h2c |-> h2c, stage |-> "idle"]
        /\ conn' = [conn EXCEPT ![c] = IF Admitted(r) THEN r ELSE Replied(r)]
        /\ UNCHANGED <<env, d, ln, signal, expired, busy, now>>

\* A handler's store call takes a connection out of a postgres pool ...
Acquire(c) ==
  /\ Up /\ Active(c) /\ UsesStore(conn[c].proc)
  /\ d.cfg.driver = "postgres" /\ d.store = "open" /\ c \notin busy
  /\ busy' = busy \cup {c}
  /\ UNCHANGED <<env, d, ln, signal, expired, conn, now>>

\* ... and returns it when its statement does.
Release(c) ==
  /\ c \in busy
  /\ busy' = busy \ {c}
  /\ UNCHANGED <<env, d, ln, signal, expired, conn, now>>

\* A unary handler returns, or its panic is turned into an answer.
Finish(c) ==
  /\ Up /\ Active(c) /\ conn[c].proc # "StreamEvents" /\ c \notin busy
  /\ conn' = [conn EXCEPT ![c] = Replied(conn[c])]
  /\ UNCHANGED <<env, d, ln, signal, expired, busy, now>>

\* A client closes an idle connection, or leaves its stream, which ends it.
Leave(c) ==
  /\ Up
  /\ conn[c].stage = "idle" \/ (Active(c) /\ conn[c].proc = "StreamEvents")
  /\ conn' = [conn EXCEPT ![c] = NoConn]
  /\ UNCHANGED <<env, d, ln, signal, expired, busy, now>>

--------------------------------------------------------------------------
Main ==
  \/ LoadConfig \/ buildDependencies \/ NewWithDeps
  \/ (\E s \in Servers : Bind(s)) \/ BindFails \/ Start \/ MarkReady
  \/ Wake \/ Shutdown \/ CloseListener \/ Drain \/ ShutdownReturns \/ Wait
  \/ Cleanup \/ PoolCloses \/ Exit

Done == d.pc = "exit" /\ UNCHANGED vars

Next ==
  \/ Main
  \/ \E s \in Servers : Serve(s) \/ ServeFails(s)
  \/ Signal \/ Expire \/ Tick
  \/ \E c \in Conns : Request(c) \/ Acquire(c) \/ Release(c) \/ Finish(c) \/ Leave(c)
  \/ Done

Spec == Init /\ [][Next]_vars

\* The main goroutine and the Serve goroutines are scheduled and the timer of
\* Shutdown fires; no handler, client or producer is assumed to do anything.
Fairness ==
  /\ WF_vars(Main)
  /\ \A s \in Servers : WF_vars(Serve(s))
  /\ WF_vars(Expire)

FairSpec == Spec /\ Fairness

--------------------------------------------------------------------------
(* Properties. *)

\* Types of the state of the process, its servers and its connections.
TypeOK ==
  /\ env \in Envs /\ signal \in BOOLEAN /\ expired \in BOOLEAN /\ now \in Times
  /\ d.pc \in {"load", "deps", "new", "bind", "start", "ready", "select", "shutdown", "close",
               "drain", "wait", "cleanup", "closing", "return", "exit"}
  /\ d.code \in IF d.pc \in {"cleanup", "closing", "return", "exit"} THEN {"0", "1"} ELSE {"none"}
  /\ d.store \in {"none", "inproc", "open", "closed"}
  /\ d.providers \subseteq {"in_app"} /\ busy \subseteq Conns
  /\ d.down \in 0 .. 3 /\ {d.ready, d.failed, d.err, d.cancelled} \subseteq BOOLEAN
  /\ \A s \in Servers : ln[s] \in {"none", "bound", "launched", "serving", "closed", "failed"}
  /\ \A c \in Conns : conn[c].stage \in {"none", "idle", "run"} /\ conn[c].srv \in Servers \cup {"none"}

\* A process that got past loadConfig has a configuration its parts can run
\* with: a ticker panics on an interval that is not positive, and ports have 16
\* bits; the store and every provider block that is selected has its settings;
\* and development mode was spelled out.
ConfigUsable ==
  d.cfg.driver # "none" =>
    /\ \A v \in {"LIVE_HEARTBEAT_INTERVAL", "LIVE_RETRY_INTERVAL", "SHUTDOWN_TIMEOUT"} : d.cfg.num[v] > 0
    /\ \A s \in Servers : Port(s) \in 1 .. MaxPort
    /\ \A r \in Requires : env.name[r[1]] = r[2] => r[3] \subseteq env.given
    /\ "email" \in d.cfg.channels => "EMAIL_FROM" \in env.given
    /\ d.cfg.dev => env.bool["AUTH_DEV_MODE"] = "true"
    /\ buildValidator(d.cfg) # "none"

\* A process that is up has the store it is configured for, and of the channels'
\* providers the in-app one if live connections are on and no other, whatever is
\* selected: channels-and-providers.astro:99-100 says that notifyd registers what
\* NOTIFY_<CHANNEL>_PROVIDER selects, but run hands NewWithDeps no Providers.
PartsAsConfigured ==
  Up => /\ IF d.cfg.driver = "memory" THEN d.store = "inproc" ELSE d.store \in {"open", "closed"}
        /\ d.providers = IF d.cfg.live THEN {"in_app"} ELSE {}

\* While /healthz says ready, no server has been told to stop and each has a
\* port of its own, with a Serve goroutine that listens on it or is about to; or
\* that has failed since, which Run has yet to see or has just been woken by.
ReadyMeansServing ==
  d.ready => /\ d.down = 0
             /\ \A s \in Servers : \/ ln[s] \in {"launched", "serving"}
                                   \/ ln[s] = "failed" /\ d.pc \in {"select", "shutdown"}
             /\ \A s, t \in Servers : s # t => Port(s) # Port(t)

\* The configuration is usable, the store and the live channel are the configured
\* ones, and the process is ready when it says so.
RunsAsConfigured == TypeOK /\ ConfigUsable /\ PartsAsConfigured /\ ReadyMeansServing

\* Whoever a client handler serves was named, user and tenant, by a token that
\* this configuration trusted at the time; development tokens are trusted only
\* where the environment says "true" and sets no secret, and a producer gets in
\* without the shared secret only where the environment says "true" and has none.
ServedAreTrusted ==
  \A c \in Conns : Active(c) =>
    LET r == conn[c]  t == r.header.tok IN
    /\ r.srv = "client" =>
         /\ r.who.user # "" /\ r.who.tenant # ""
         /\ \/ /\ t.kind = "jwt" /\ t.signed /\ "AUTH_JWT_SECRET" \in env.given
               /\ r.who.user = t.sub
               /\ t.exp # 0 => r.at <= t.exp + d.cfg.num["AUTH_JWT_LEEWAY"]
            \/ /\ t.kind = "dev" /\ env.bool["AUTH_DEV_MODE"] = "true"
               /\ "AUTH_JWT_SECRET" \notin env.given
    /\ r.srv = "internal" =>
         r.token = "right" \/ (env.bool["AUTH_DEV_MODE"] = "true" /\ "INTERNAL_TOKEN" \notin env.given)

\* The store is closed under a running handler only if the drain ran into its
\* deadline or the handler's connection is one net/http does not track; in these
\* two cases it can be, although main.go:79-81 and shutdown.astro:118-122 say never.
ClosedUnderHandlerHasCause ==
  d.store = "closed" => \A c \in Conns :
    Active(c) /\ UsesStore(conn[c].proc) => conn[c].h2c \/ (expired /\ d.code = "1")

\* Exit status 0 means a drained process: no tracked handler runs, every Serve
\* goroutine has returned, and the retry goroutines were cancelled.
CleanExitIsDrained ==
  d.code = "0" => /\ \A s \in Servers, c \in Conns : c \in Tracked(s) => ~Active(c)
                  /\ \A s \in Servers : ln[s] \in {"closed", "failed"}
                  /\ d.cfg.live => d.cancelled

\* At its exit the process has closed a store it opened, and every listener but
\* those of Serve goroutines that a failing Run did not wait for.
NothingLeftOpen ==
  d.pc = "exit" => /\ d.store # "open"
                   /\ \A s \in Servers : ln[s] # "bound" /\ (ln[s] \in {"launched", "serving"} => d.failed \/ d.err)

\* Both of the above: what an exit, clean or not, leaves behind.
ExitIsOrderly == CleanExitIsDrained /\ NothingLeftOpen

\* What should end the process: a signal, or a listener that failed.
MustEnd == signal \/ \E s \in Servers : ln[s] = "failed"

\* main waits in the Close of the pool for a handler's statement.
HeldUp == d.pc = "closing" /\ busy # {}

\* The database answers, or breaks the connection of, every statement.
StoreCallsReturn == \A c \in Conns : WF_vars(Release(c))

\* A signal or a failed listener ends the process whatever clients and handlers
\* do, or main gets to the close of the pool and waits there for a connection
\* that a handler has out; if statements return, the process does end.  (The
\* deadline alone does not, although shutdown.astro:135-137 says so: Close has none.)
ProcessEnds ==
  /\ MustEnd ~> d.pc = "exit" \/ HeldUp
  /\ StoreCallsReturn => (MustEnd ~> d.pc = "exit")
=============================================================================
