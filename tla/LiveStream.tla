----------------------------- MODULE LiveStream -----------------------------
(***************************************************************************)
(* The in-app channel's live half: the connection registry                 *)
(* (realtime/registry.go, conn.go), the StreamEvents handler that serves   *)
(* each connection (internal/server/stream.go) and the in-app provider     *)
(* that pushes to them (internal/server/inapp.go).                         *)
(*                                                                         *)
(* Register and Unregister run under the registry's lock.  Push takes a    *)
(* snapshot of the user's connections under the lock and then offers the   *)
(* event to each connection's channel outside it, so connections come and  *)
(* go between the snapshot and the offers.  Every connection of a user is  *)
(* offered the same *StreamEvent: its SessionId is shared, mutable state.  *)
(*                                                                         *)
(* A client is an account, (tenant, user), as its claims name it.  The     *)
(* registry looks at the user half only: Conn.TenantID is stored and never *)
(* read, so users of one name in two tenants share a list.                 *)
(***************************************************************************)
EXTENDS Naturals, Sequences

CONSTANTS Tenants,
          Users,      \* user ids, unique within a tenant only
          Accounts,   \* the clients: <<tenant, user>>
          Conns,      \* connections, each a fresh UUID
          Owner,      \* the account of each connection, from its claims
          Events,     \* the *StreamEvent objects, one per push
          RowOf,      \* event -> the account whose notification it carries
          Buffer,     \* capacity of a connection's EventCh
          NoConn      \* an event's SessionId before any handler set it

ASSUME StreamConstants ==
    /\ Accounts \subseteq Tenants \X Users
    /\ Owner \in [Conns -> Accounts]
    /\ RowOf \in [Events -> Accounts]
    /\ Buffer \in Nat \ {0}
    /\ NoConn \notin Conns

VARIABLES
    byUser,     \* Registry.byUser: user -> its connections
    pc,         \* connection -> where its serve() is
    ctxDone,    \* connections whose request context is cancelled
    buf,        \* connection -> its EventCh
    held,       \* connection -> the event between receive and Send, as a set
    session,    \* event -> its SessionId field
    received,   \* connection -> what its client got: <<event, session id>>
    push,       \* event -> where its push is
    dest,       \* event -> the user id it is pushed to, as a set
    todo,       \* event -> the rest of the snapshot
    pushed,     \* event -> how many connections accepted it
    receipt     \* event -> the status of the provider's receipt

connVars == <<pc, ctxDone, held, session, received>>
pushVars == <<push, dest, todo, pushed, receipt>>
vars == <<byUser, buf, connVars, pushVars>>

\* serve() has registered the connection and not unregistered it yet.
Serving(c) == pc[c] \in {"handshake", "select", "stamped", "closing"}

\* Conn.UserID, the key of its list.
UserOf(c) == Owner[c][2]

Elems(s) == {s[i] : i \in DOMAIN s}

TypeOK ==
    /\ byUser \in [Users -> Seq(Conns)]
    /\ pc \in [Conns -> {"new", "handshake", "select", "stamped", "closing", "gone"}]
    /\ ctxDone \subseteq Conns
    /\ buf \in [Conns -> Seq(Events)]
    /\ \A c \in Conns : Len(buf[c]) <= Buffer
    /\ held \in [Conns -> SUBSET Events]
    /\ session \in [Events -> Conns \cup {NoConn}]
    /\ received \in [Conns -> Seq(Events \X (Conns \cup {NoConn}))]
    /\ push \in [Events -> {"idle", "pushing", "done"}]
    /\ dest \in [Events -> SUBSET Users]
    /\ todo \in [Events -> Seq(Conns)]
    /\ pushed \in [Events -> Nat]
    /\ receipt \in [Events -> {"none", "pending", "delivered"}]

Init ==
    /\ byUser = [u \in Users |-> <<>>]
    /\ pc = [c \in Conns |-> "new"]
    /\ ctxDone = {}
    /\ buf = [c \in Conns |-> <<>>]
    /\ held = [c \in Conns |-> {}]
    /\ session = [e \in Events |-> NoConn]
    /\ received = [c \in Conns |-> <<>>]
    /\ push = [e \in Events |-> "idle"]
    /\ dest = [e \in Events |-> {}]
    /\ todo = [e \in Events |-> <<>>]
    /\ pushed = [e \in Events |-> 0]
    /\ receipt = [e \in Events |-> "none"]

-----------------------------------------------------------------------------
(* Registry.                                                               *)

\* Mutant: the list is not picked by the connection's own user.
RegisterAnywhere(c) == \E u \in Users : byUser' = [byUser EXCEPT ![u] = Append(@, c)]

Register(c) == byUser' = [byUser EXCEPT ![UserOf(c)] = Append(@, c)]

\* Mutant: the last connection is copied over, but the slice is not shortened.
WithoutUncut(s, c) == [i \in 1..Len(s) |-> IF s[i] = c THEN s[Len(s)] ELSE s[i]]

\* The slice without c: the last connection takes its place.
Without(s, c) == [i \in 1..(Len(s) - 1) |-> IF s[i] = c THEN s[Len(s)] ELSE s[i]]

Unregister(c) ==
    byUser' = [u \in Users |-> IF c \in Elems(byUser[u]) THEN Without(byUser[u], c) ELSE byUser[u]]

\* Get(connID) finds the connection.
Registered(c) == \E u \in Users : c \in Elems(byUser[u])

-----------------------------------------------------------------------------
(* serve(): one goroutine per connection.                                  *)

\* NewConn and Register; Unregister is deferred.
Open(c) ==
    /\ pc[c] = "new"
    /\ Register(c)
    /\ pc' = [pc EXCEPT ![c] = "handshake"]
    /\ UNCHANGED <<buf, ctxDone, held, session, received, pushVars>>

\* The handshake heartbeat is sent.
Handshake(c) ==
    /\ pc[c] = "handshake"
    /\ pc' = [pc EXCEPT ![c] = "select"]
    /\ UNCHANGED <<byUser, buf, ctxDone, held, session, received, pushVars>>

\* stream.Send returns an error, of the handshake, of a ticker's heartbeat or
\* of an event: serve returns.  (A heartbeat that is sent changes nothing.)
SendFails(c) ==
    /\ pc[c] \in {"handshake", "select", "stamped"}
    /\ pc' = [pc EXCEPT ![c] = "closing"]
    /\ held' = [held EXCEPT ![c] = {}]
    /\ UNCHANGED <<byUser, buf, ctxDone, session, received, pushVars>>

\* The client goes away, or the server cancels the request.
ClientGone(c) ==
    /\ Serving(c)
    /\ ctxDone' = ctxDone \cup {c}
    /\ UNCHANGED <<byUser, buf, pc, held, session, received, pushVars>>

SelectDone(c) ==
    /\ pc[c] = "select"
    /\ c \in ctxDone
    /\ pc' = [pc EXCEPT ![c] = "closing"]
    /\ UNCHANGED <<byUser, buf, ctxDone, held, session, received, pushVars>>

\* case ev := <-conn.EventCh, and ev.SessionId = conn.ID.
Receive(c) ==
    /\ pc[c] = "select"
    /\ buf[c] # <<>>
    /\ held' = [held EXCEPT ![c] = {Head(buf[c])}]
    /\ session' = [session EXCEPT ![Head(buf[c])] = c]
    /\ buf' = [buf EXCEPT ![c] = Tail(@)]
    /\ pc' = [pc EXCEPT ![c] = "stamped"]
    /\ UNCHANGED <<byUser, ctxDone, received, pushVars>>

\* Mutant: the event is taken off the channel and not sent.
SendEventLost(c) ==
    /\ pc[c] = "stamped"
    /\ held' = [held EXCEPT ![c] = {}]
    /\ pc' = [pc EXCEPT ![c] = "select"]
    /\ UNCHANGED <<byUser, buf, ctxDone, session, received, pushVars>>

\* stream.Send(ev) encodes the event, with the SessionId it has by then.
SendEvent(c) ==
    /\ pc[c] = "stamped"
    /\ \E e \in held[c] : received' = [received EXCEPT ![c] = Append(@, <<e, session[e]>>)]
    /\ held' = [held EXCEPT ![c] = {}]
    /\ pc' = [pc EXCEPT ![c] = "select"]
    /\ UNCHANGED <<byUser, buf, ctxDone, session, pushVars>>

\* Mutant: a handler returns without the deferred Unregister.
ReturnRegistered(c) ==
    /\ pc[c] = "closing"
    /\ pc' = [pc EXCEPT ![c] = "gone"]
    /\ UNCHANGED <<byUser, buf, ctxDone, held, session, received, pushVars>>

\* serve returns: the deferred Unregister.  EventCh is never closed.
Return(c) ==
    /\ pc[c] = "closing"
    /\ Unregister(c)
    /\ pc' = [pc EXCEPT ![c] = "gone"]
    /\ UNCHANGED <<buf, ctxDone, held, session, received, pushVars>>

-----------------------------------------------------------------------------
(* Pushes.                                                                 *)

Begin(e, u, snapshot) ==
    /\ push[e] = "idle"
    /\ push' = [push EXCEPT ![e] = "pushing"]
    /\ dest' = [dest EXCEPT ![e] = {u}]
    /\ todo' = [todo EXCEPT ![e] = snapshot]
    /\ UNCHANGED <<byUser, buf, connVars, pushed, receipt>>

\* inAppProvider.Send builds the event from a row; Push snapshots the connections
\* of the address u: the row's user id, unless the producer's request gave in_app
\* an address of its own.
Push(e, u) == Begin(e, u, byUser[u])

\* PushTo(connID): one connection, found by Get under the lock.  Nothing in the
\* repository calls it; the event is taken to be one of the connection's account.
PushTo(e, c) == Registered(c) /\ Owner[c] = RowOf[e] /\ Begin(e, UserOf(c), <<c>>)

\* Mutant: the send blocks while the channel is full.
TrySendBlocks(e) ==
    /\ push[e] = "pushing"
    /\ todo[e] # <<>>
    /\ todo' = [todo EXCEPT ![e] = Tail(@)]
    /\ LET c == Head(todo[e])
       IN  /\ Len(buf[c]) < Buffer
           /\ buf' = [buf EXCEPT ![c] = Append(@, e)]
           /\ pushed' = [pushed EXCEPT ![e] = @ + 1]
    /\ UNCHANGED <<byUser, connVars, push, dest, receipt>>

\* trySend: the channel takes the event, or it is full and the event is dropped
\* for this connection, which stays registered.  Nothing checks that the
\* connection is still registered or served.
TrySend(e) ==
    /\ push[e] = "pushing"
    /\ todo[e] # <<>>
    /\ todo' = [todo EXCEPT ![e] = Tail(@)]
    /\ LET c == Head(todo[e])
       IN  IF Len(buf[c]) < Buffer
             THEN /\ buf' = [buf EXCEPT ![c] = Append(@, e)]
                  /\ pushed' = [pushed EXCEPT ![e] = @ + 1]
             ELSE UNCHANGED <<buf, pushed>>
    /\ UNCHANGED <<byUser, connVars, push, dest, receipt>>

\* Mutant: a single acceptance is not counted.
PushReturnsMiscounted(e) ==
    /\ push[e] = "pushing"
    /\ todo[e] = <<>>
    /\ push' = [push EXCEPT ![e] = "done"]
    /\ receipt' = [receipt EXCEPT ![e] = IF pushed[e] <= 1 THEN "pending" ELSE "delivered"]
    /\ UNCHANGED <<byUser, buf, connVars, dest, todo, pushed>>

\* The receipt: delivered if any connection accepted the event (for PushTo, its
\* result: whether its connection did).
PushReturns(e) ==
    /\ push[e] = "pushing"
    /\ todo[e] = <<>>
    /\ push' = [push EXCEPT ![e] = "done"]
    /\ receipt' = [receipt EXCEPT ![e] = IF pushed[e] = 0 THEN "pending" ELSE "delivered"]
    /\ UNCHANGED <<byUser, buf, connVars, dest, todo, pushed>>

-----------------------------------------------------------------------------
ServeStep(c) == Handshake(c) \/ SelectDone(c) \/ Receive(c) \/ SendEvent(c) \/ Return(c)

PushStep(e) == TrySend(e) \/ PushReturns(e)

Next ==
    \/ \E c \in Conns : Open(c)
    \/ \E c \in Conns : Handshake(c)
    \/ \E c \in Conns : SendFails(c)
    \/ \E c \in Conns : ClientGone(c)
    \/ \E c \in Conns : SelectDone(c)
    \/ \E c \in Conns : Receive(c)
    \/ \E c \in Conns : SendEvent(c)
    \/ \E c \in Conns : Return(c)
    \/ \E e \in Events, u \in Users : Push(e, u)
    \/ \E e \in Events, c \in Conns : PushTo(e, c)
    \/ \E e \in Events : TrySend(e)
    \/ \E e \in Events : PushReturns(e)

Spec == Init /\ [][Next]_vars

\* The handlers' goroutines are scheduled and stream.Send returns.
ServeFairness == \A c \in Conns : WF_vars(ServeStep(c))

\* Push runs in a request goroutine the scheduler keeps running; nothing is
\* assumed of the connections' handlers or clients.
FairSpec == Spec /\ \A e \in Events : WF_vars(PushStep(e))

-----------------------------------------------------------------------------
(* Properties.                                                             *)

\* A connection is in the list of its user id exactly once while serve() runs, and
\* in no list before or after, whichever connections come and go with it: no
\* registration is leaked, lost or duplicated (registry.go:34-50, stream.go:84-85).
\* Its queue never exceeds its capacity (TypeOK).
RegisteredWhileServing ==
    /\ TypeOK
    /\ \A c \in Conns, u \in Users :
          c \in Elems(byUser[u]) <=> Serving(c) /\ u = UserOf(c)
    /\ \A u \in Users : \A i, j \in DOMAIN byUser[u] : byUser[u][i] = byUser[u][j] => i = j

\* The events of a connection: sent to its client, being sent, or queued.
EventsOf(c) == [i \in DOMAIN received[c] |-> received[c][i][1]]

\* A connection only gets events that were pushed to the user id of its claims,
\* and the session id its client reads in one is that of a connection under the
\* same user id, whatever connections were opened or closed since the push took
\* its snapshot, and however the handlers that share the event interleave
\* (registry.go:91-99, stream.go:127-128).  A user id is not an account: see
\* TenantsAreApart.
OnlyAddressedEvents ==
    \A c \in Conns :
        /\ \A e \in Elems(EventsOf(c)) \cup held[c] \cup Elems(buf[c]) : UserOf(c) \in dest[e]
        /\ \A i \in DOMAIN received[c] :
              received[c][i][2] \in Conns /\ UserOf(received[c][i][2]) = UserOf(c)

\* The producer left the address to addressFor: the row's user id.
OwnAddress(e) == dest[e] = {RowOf[e][2]}

\* multi-tenancy.astro:111-112, "The tenant boundary is a hard wall because the auth
\* boundary is", and auth-model.astro:64, "Every client-side RPC scopes data by
\* (tenant, user)": a notification that no producer addressed elsewhere only
\* gets to connections of the account its row belongs to.
TenantsAreApart ==
    \A c \in Conns :
        \A e \in Elems(EventsOf(c)) \cup held[c] \cup Elems(buf[c]) :
            OwnAddress(e) => Owner[c] = RowOf[e]

\* A connection gets an event at most once, although the list it is found in is
\* reordered by Unregister while pushes run.
AtMostOncePerConn ==
    \A c \in Conns :
        LET s == EventsOf(c) \o buf[c]
        IN  /\ \A i, j \in DOMAIN s : s[i] = s[j] => i = j
            /\ held[c] \cap Elems(s) = {}

\* A receipt of pending means no connection has the event or ever will: the row
\* is only found by catch-up (inapp.go:47-51).
PendingReachesNobody ==
    \A e \in Events : receipt[e] = "pending" =>
        \A c \in Conns : e \notin Elems(EventsOf(c)) \cup held[c] \cup Elems(buf[c])

\* A push returns whatever the connections do: a client that stops reading
\* never blocks it (conn.go:19-21, registry.go:88-90).
PushNeverBlocks == \A e \in Events : push[e] = "pushing" ~> push[e] = "done"

\* If the handlers run, a queued event is sent to the client unless the stream
\* ends first (stream.go:120-130).
QueuedIsSent ==
    ServeFairness => \A c \in Conns, e \in Events :
        e \in Elems(buf[c]) /\ Serving(c) ~> e \in Elems(EventsOf(c)) \/ pc[c] = "gone"

\* If the handlers run, a stream whose context is cancelled ends and is
\* unregistered (stream.go:68).
CancelledStreamEnds ==
    ServeFairness => \A c \in Conns : c \in ctxDone ~> pc[c] = "gone"

\* A handler that is scheduled hangs neither on what is queued nor on a client
\* that left: both of the above.
HandlersProgress == QueuedIsSent /\ CancelledStreamEnds

\* notify.proto:163-165, "Every event carries the server-assigned session_id so
\* the client can scope acks ... back to this exact connection".
SessionIsOwn == \A c \in Conns : \A i \in DOMAIN received[c] : received[c][i][2] = c
=============================================================================
