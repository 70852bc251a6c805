-------------------------- MODULE LiveStreamProofs --------------------------
(***************************************************************************)
(* Proofs about LiveStream, for every set of users, connections and events *)
(* and every buffer capacity.                                              *)
(***************************************************************************)
EXTENDS LiveStream, TLAPS

\* A sequence without repetition.
Distinct(s) == \A i, j \in DOMAIN s : s[i] = s[j] => i = j

\* What was sent to the client of c, and what c was ever given.
Sent(c) == Elems(EventsOf(c))
Has(c, e) == e \in Sent(c) \/ e \in held[c] \/ e \in Elems(buf[c])

\* AtMostOncePerConn, apart by place.
OncePerPlace ==
    \A c \in Conns :
        /\ Distinct(EventsOf(c)) /\ Distinct(buf[c])
        /\ Sent(c) \cap Elems(buf[c]) = {}
        /\ held[c] \cap Sent(c) = {} /\ held[c] \cap Elems(buf[c]) = {}

\* The rest of a push's snapshot names connections of the addressee, each once,
\* and none that got the event.
SnapshotIsAhead ==
    \A e \in Events :
        /\ Distinct(todo[e])
        /\ \A c \in Elems(todo[e]) : UserOf(c) \in dest[e] /\ ~Has(c, e)

\* A push has at most one addressee, and none before it begins.
OneAddressee ==
    \A e \in Events :
        /\ push[e] = "idle" => dest[e] = {}
        /\ \A u, v \in dest[e] : u = v

\* The shared session id was written by a connection of the addressee.
SessionOfAddressee ==
    \A e \in Events : session[e] # NoConn => UserOf(session[e]) \in dest[e]

\* An event is stamped before it is sent.
HeldIsStamped == \A c \in Conns : \A e \in held[c] : session[e] # NoConn

\* An event that some connection has was counted, and a receipt of pending was
\* written by a push that counted nothing.
AcceptedIsCounted ==
    \A e \in Events :
        /\ \A c \in Conns : Has(c, e) => pushed[e] # 0
        /\ receipt[e] = "pending" => pushed[e] = 0 /\ push[e] = "done"

\* The part of the invariant about events.
EventInv ==
    /\ OnlyAddressedEvents
    /\ OncePerPlace
    /\ SnapshotIsAhead
    /\ OneAddressee
    /\ SessionOfAddressee
    /\ HeldIsStamped
    /\ AcceptedIsCounted

\* The inductive invariant.  A connection gets an event once because a snapshot
\* names it once, which is what the registry's half provides.
IInv == RegisteredWhileServing /\ EventInv

-----------------------------------------------------------------------------
(* Sequences.                                                              *)

\* An appended element.
LEMMA AppendElems ==
    ASSUME NEW S, NEW s \in Seq(S), NEW x \in S
    PROVE  /\ Append(s, x) \in Seq(S)
           /\ Elems(Append(s, x)) = Elems(s) \cup {x}
           /\ Distinct(s) /\ x \notin Elems(s) => Distinct(Append(s, x))
<1> DEFINE t == Append(s, x)
<1>1. /\ t \in Seq(S) /\ Len(s) \in Nat /\ DOMAIN s = 1..Len(s) /\ DOMAIN t = 1..(Len(s) + 1)
      /\ t[Len(s) + 1] = x /\ \A i \in 1..Len(s) : t[i] = s[i]
  OBVIOUS
<1> HIDE DEF t
<1>2. \A i \in DOMAIN t : i \in DOMAIN s \/ i = Len(s) + 1
  BY <1>1
<1>3. Elems(t) = Elems(s) \cup {x}
  <2>1. \A y \in Elems(t) : y \in Elems(s) \/ y = x
    BY <1>1, <1>2 DEF Elems
  <2>2. \A i \in DOMAIN s : i \in DOMAIN t
    BY <1>1
  <2>3. Len(s) + 1 \in DOMAIN t
    BY <1>1
  <2>4. QED
    BY <1>1, <2>1, <2>2, <2>3 DEF Elems
<1>4. ASSUME Distinct(s), x \notin Elems(s) PROVE Distinct(t)
  <2> SUFFICES ASSUME NEW i \in DOMAIN t, NEW j \in DOMAIN t, t[i] = t[j] PROVE i = j
    BY DEF Distinct
  <2>1. \A k \in DOMAIN s : s[k] # x
    BY <1>4 DEF Elems
  <2>2. QED
    BY <1>1, <1>2, <1>4, <2>1 DEF Distinct
<1>5. QED
  BY <1>1, <1>3, <1>4 DEF t

\* The first element and the others.
LEMMA TailElems ==
    ASSUME NEW S, NEW s \in Seq(S), s # <<>>
    PROVE  /\ Head(s) \in S /\ Tail(s) \in Seq(S)
           /\ Elems(s) = {Head(s)} \cup Elems(Tail(s))
           /\ Distinct(s) => Distinct(Tail(s)) /\ Head(s) \notin Elems(Tail(s))
<1>1. /\ Head(s) = s[1] /\ Head(s) \in S /\ Tail(s) \in Seq(S) /\ Len(s) \in Nat /\ Len(s) # 0
      /\ Len(Tail(s)) = Len(s) - 1 /\ DOMAIN s = 1..Len(s) /\ DOMAIN Tail(s) = 1..(Len(s) - 1)
  OBVIOUS
<1>2. \A i \in 1..(Len(s) - 1) : Tail(s)[i] = s[i + 1]
  OBVIOUS
<1>3. Elems(s) = {Head(s)} \cup Elems(Tail(s))
  <2>1. \A x \in Elems(s) : x = Head(s) \/ x \in Elems(Tail(s))
    <3> SUFFICES ASSUME NEW i \in 1..Len(s), i # 1 PROVE s[i] \in Elems(Tail(s))
      BY <1>1 DEF Elems
    <3>1. i - 1 \in 1..(Len(s) - 1) /\ Tail(s)[i - 1] = s[i]
      BY <1>1, <1>2
    <3>2. QED
      BY <1>1, <3>1 DEF Elems
  <2>2. \A x \in Elems(Tail(s)) : x \in Elems(s)
    BY <1>1, <1>2 DEF Elems
  <2>3. Head(s) \in Elems(s)
    BY <1>1 DEF Elems
  <2>4. QED
    BY <2>1, <2>2, <2>3
<1>4. ASSUME Distinct(s) PROVE Distinct(Tail(s)) /\ Head(s) \notin Elems(Tail(s))
  BY <1>1, <1>2, <1>4 DEF Elems, Distinct
<1>5. QED
  BY <1>1, <1>3, <1>4

\* Unregister's slice has lost the connection and nothing else.
LEMMA WithoutElems ==
    ASSUME NEW s \in Seq(Conns), Distinct(s), NEW c \in Elems(s)
    PROVE  /\ Without(s, c) \in Seq(Conns)
           /\ Elems(Without(s, c)) = Elems(s) \ {c}
           /\ Distinct(Without(s, c))
<1> DEFINE n == Len(s)
           w == Without(s, c)
<1>1. n \in Nat /\ DOMAIN s = 1..n /\ \A i \in 1..n : s[i] \in Conns
  OBVIOUS
<1>2. PICK k \in 1..n : s[k] = c
  BY <1>1 DEF Elems
<1>3. \A i \in 1..n : s[i] = c => i = k
  BY <1>1, <1>2 DEF Distinct
<1>4. DOMAIN w = 1..(n - 1) /\ \A i \in 1..(n - 1) : w[i] = IF i = k THEN s[n] ELSE s[i]
  BY <1>2, <1>3 DEF Without
<1>5. w \in Seq(Conns)
  <2>1. n - 1 \in Nat
    BY <1>1, <1>2
  <2>2. \A i \in 1..(n - 1) : w[i] \in Conns
    BY <1>1, <1>2, <1>4
  <2>3. w \in [1..(n - 1) -> Conns]
    BY <2>2 DEF Without
  <2>4. QED
    BY <2>1, <2>3
<1> HIDE DEF w, n
<1>6. Elems(w) = Elems(s) \ {c}
  <2>1. \A x \in Elems(w) : x \in Elems(s) /\ x # c
    <3> SUFFICES ASSUME NEW i \in 1..(n - 1) PROVE w[i] \in Elems(s) /\ w[i] # c
      BY <1>4 DEF Elems
    <3>1. CASE i = k
      BY <1>1, <1>2, <1>3, <1>4, <3>1 DEF Elems
    <3>2. CASE i # k
      BY <1>1, <1>2, <1>3, <1>4, <3>2 DEF Elems
    <3>3. QED
      BY <3>1, <3>2
  <2>2. ASSUME NEW i \in 1..n, s[i] # c PROVE s[i] \in Elems(w)
    <3>1. CASE i = n
      <4>1. k # n
        BY <1>2, <2>2, <3>1
      <4>2. k \in 1..(n - 1)
        BY <1>1, <4>1
      <4>3. w[k] = s[i]
        BY <1>4, <3>1, <4>2
      <4>4. QED
        BY <1>4, <4>2, <4>3 DEF Elems
    <3>2. CASE i # n
      <4>1. i \in 1..(n - 1) /\ w[i] = s[i]
        BY <1>1, <1>2, <1>4, <2>2, <3>2
      <4>2. QED
        BY <1>4, <4>1 DEF Elems
    <3>3. QED
      BY <3>1, <3>2
  <2>3. QED
    BY <1>1, <2>1, <2>2 DEF Elems
<1>7. Distinct(w)
  <2> SUFFICES ASSUME NEW i \in 1..(n - 1), NEW j \in 1..(n - 1), w[i] = w[j] PROVE i = j
    BY <1>4 DEF Distinct
  <2>1. \A a, b \in 1..n : s[a] = s[b] => a = b
    BY <1>1 DEF Distinct
  <2>2. QED
    BY <1>1, <1>2, <1>4, <2>1
<1>8. QED
  BY <1>5, <1>6, <1>7 DEF w

-----------------------------------------------------------------------------
(* Types and the registry.                                                 *)

\* A connection's claims name an account, and its user.
LEMMA OwnerTypes ==
    ASSUME NEW c \in Conns
    PROVE  Owner[c] \in Accounts /\ UserOf(c) \in Users
<1>1. Owner[c] \in Accounts /\ Owner[c] \in Tenants \X Users
  BY StreamConstants
<1>2. QED
  BY <1>1 DEF UserOf

\* Unregister finds the connection in at most the list of its user id.
LEMMA UnregisterType ==
    ASSUME RegisteredWhileServing, NEW c \in Conns, Unregister(c)
    PROVE  /\ byUser' \in [Users -> Seq(Conns)]
           /\ \A u \in Users : /\ Elems(byUser'[u]) = Elems(byUser[u]) \ {c}
                                /\ Distinct(byUser'[u])
<1>1. \A u \in Users : byUser[u] \in Seq(Conns) /\ Distinct(byUser[u])
  BY DEF RegisteredWhileServing, TypeOK, Distinct
<1>2. \A u \in Users : byUser'[u] =
         IF c \in Elems(byUser[u]) THEN Without(byUser[u], c) ELSE byUser[u]
  BY DEF Unregister
<1>3. ASSUME NEW u \in Users
      PROVE  /\ byUser'[u] \in Seq(Conns)
             /\ Elems(byUser'[u]) = Elems(byUser[u]) \ {c}
             /\ Distinct(byUser'[u])
  BY <1>1, <1>2, WithoutElems
<1>4. byUser' \in [Users -> Seq(Conns)]
  <2>1. byUser' = [u \in Users |-> byUser'[u]]
    BY DEF Unregister
  <2>2. QED
    BY <1>3, <2>1
<1>5. QED
  BY <1>3, <1>4

\* Every variable keeps its type, and no queue outgrows its capacity.
LEMMA TypeStep == RegisteredWhileServing /\ [Next]_vars => TypeOK'
<1> SUFFICES ASSUME RegisteredWhileServing, [Next]_vars PROVE TypeOK'
  OBVIOUS
<1> USE StreamConstants
<1>0. TypeOK
  BY DEF RegisteredWhileServing
<1>1. ASSUME NEW c \in Conns, Open(c) PROVE TypeOK'
  <2>1. byUser' \in [Users -> Seq(Conns)]
    BY <1>0, <1>1, OwnerTypes DEF Open, Register, TypeOK
  <2>2. QED
    BY <1>0, <1>1, <2>1 DEF Open, TypeOK, pushVars
<1>2. ASSUME NEW c \in Conns, Handshake(c) PROVE TypeOK'
  BY <1>0, <1>2 DEF Handshake, TypeOK, pushVars
<1>3. ASSUME NEW c \in Conns, SendFails(c) PROVE TypeOK'
  BY <1>0, <1>3 DEF SendFails, TypeOK, pushVars
<1>4. ASSUME NEW c \in Conns, ClientGone(c) PROVE TypeOK'
  BY <1>0, <1>4 DEF ClientGone, TypeOK, pushVars
<1>5. ASSUME NEW c \in Conns, SelectDone(c) PROVE TypeOK'
  BY <1>0, <1>5 DEF SelectDone, TypeOK, pushVars
<1>6. ASSUME NEW c \in Conns, Receive(c) PROVE TypeOK'
  <2>1. buf[c] \in Seq(Events) /\ buf[c] # <<>> /\ Len(buf[c]) <= Buffer
    BY <1>0, <1>6 DEF Receive, TypeOK
  <2>2. Head(buf[c]) \in Events /\ Tail(buf[c]) \in Seq(Events) /\ Len(Tail(buf[c])) <= Buffer
    BY <2>1
  <2>3. buf' \in [Conns -> Seq(Events)] /\ \A d \in Conns : Len(buf'[d]) <= Buffer
    BY <1>0, <1>6, <2>2 DEF Receive, TypeOK
  <2>4. QED
    BY <1>0, <1>6, <2>2, <2>3 DEF Receive, TypeOK, pushVars
<1>7. ASSUME NEW c \in Conns, SendEvent(c) PROVE TypeOK'
  <2>1. PICK e \in held[c] : received' = [received EXCEPT ![c] = Append(@, <<e, session[e]>>)]
    BY <1>7 DEF SendEvent
  <2> DEFINE Got == Events \X (Conns \cup {NoConn})
             x == <<e, session[e]>>
  <2>2. x \in Got
    BY <1>0 DEF TypeOK
  <2>3. received' \in [Conns -> Seq(Got)]
    <3>1. received \in [Conns -> Seq(Got)] /\ received' = [received EXCEPT ![c] = Append(@, x)]
      BY <1>0, <2>1 DEF TypeOK
    <3> HIDE DEF Got, x
    <3>2. QED
      BY <2>2, <3>1
  <2>4. QED
    BY <1>0, <1>7, <2>3 DEF SendEvent, TypeOK, pushVars
<1>8. ASSUME NEW c \in Conns, Return(c) PROVE TypeOK'
  <2>1. byUser' \in [Users -> Seq(Conns)]
    BY <1>8, UnregisterType DEF Return
  <2>2. QED
    BY <1>0, <1>8, <2>1 DEF Return, TypeOK, pushVars
<1>9. ASSUME NEW e \in Events, NEW u \in Users, NEW t \in Seq(Conns), Begin(e, u, t) PROVE TypeOK'
  BY <1>0, <1>9 DEF Begin, TypeOK, connVars
<1>10. ASSUME NEW e \in Events, TrySend(e) PROVE TypeOK'
  <2>1. todo[e] \in Seq(Conns) /\ todo[e] # <<>>
    BY <1>0, <1>10 DEF TrySend, TypeOK
  <2>2. Head(todo[e]) \in Conns /\ Tail(todo[e]) \in Seq(Conns)
    BY <2>1
  <2>3. todo' \in [Events -> Seq(Conns)]
    BY <1>0, <1>10, <2>2 DEF TrySend, TypeOK
  <2> DEFINE c == Head(todo[e])
  <2>4. CASE Len(buf[c]) < Buffer
    <3>1. buf[c] \in Seq(Events)
      BY <1>0, <2>2 DEF TypeOK
    <3>2. Append(buf[c], e) \in Seq(Events) /\ Len(Append(buf[c], e)) <= Buffer
      BY <2>4, <3>1
    <3>3. buf' = [buf EXCEPT ![c] = Append(@, e)] /\ pushed' = [pushed EXCEPT ![e] = @ + 1]
      BY <1>10, <2>4 DEF TrySend
    <3>4. buf' \in [Conns -> Seq(Events)] /\ \A d \in Conns : Len(buf'[d]) <= Buffer
      BY <1>0, <2>2, <3>2, <3>3 DEF TypeOK
    <3>5. pushed' \in [Events -> Nat]
      BY <1>0, <3>3 DEF TypeOK
    <3>6. QED
      BY <1>0, <1>10, <2>3, <3>4, <3>5 DEF TrySend, TypeOK, connVars
  <2>5. CASE ~(Len(buf[c]) < Buffer)
    <3>1. UNCHANGED <<buf, pushed>>
      BY <1>10, <2>5 DEF TrySend
    <3>2. QED
      BY <1>0, <1>10, <2>3, <3>1 DEF TrySend, TypeOK, connVars
  <2>6. QED
    BY <2>4, <2>5
<1>11. ASSUME NEW e \in Events, PushReturns(e) PROVE TypeOK'
  BY <1>0, <1>11 DEF PushReturns, TypeOK, connVars
<1>12. CASE UNCHANGED vars
  BY <1>0, <1>12 DEF vars, connVars, pushVars, TypeOK
<1>13. \A u \in Users : byUser[u] \in Seq(Conns)
  BY <1>0 DEF TypeOK
<1>14. \A c \in Conns : Owner[c] \in Accounts /\ UserOf(c) \in Users /\ <<c>> \in Seq(Conns)
  BY OwnerTypes
<1>15. QED
  BY <1>1, <1>2, <1>3, <1>4, <1>5, <1>6, <1>7, <1>8, <1>9, <1>10, <1>11, <1>12, <1>13, <1>14
     DEF Next, Push, PushTo

\* A connection is registered and unregistered by its own serve() only.
LEMMA RegistryStep == RegisteredWhileServing /\ [Next]_vars => RegisteredWhileServing'
<1> SUFFICES ASSUME RegisteredWhileServing, [Next]_vars PROVE RegisteredWhileServing'
  OBVIOUS
<1>0. TypeOK /\ TypeOK'
  BY TypeStep DEF RegisteredWhileServing
<1>a. \A u \in Users : byUser[u] \in Seq(Conns) /\ Distinct(byUser[u])
  BY <1>0 DEF RegisteredWhileServing, TypeOK, Distinct
<1>b. \A d \in Conns, u \in Users : d \in Elems(byUser[u]) <=> Serving(d) /\ u = UserOf(d)
  BY DEF RegisteredWhileServing
<1>c. SUFFICES /\ \A d \in Conns, u \in Users :
                     d \in Elems(byUser'[u]) <=> Serving(d)' /\ u = UserOf(d)
               /\ \A u \in Users : Distinct(byUser'[u])
  BY <1>0 DEF RegisteredWhileServing, Distinct
<1> DEFINE Goal == /\ \A d \in Conns, u \in Users :
                         d \in Elems(byUser'[u]) <=> Serving(d)' /\ u = UserOf(d)
                   /\ \A u \in Users : Distinct(byUser'[u])
<1>1. ASSUME NEW c \in Conns, Open(c) PROVE Goal
  <2>1. \A u \in Users : c \notin Elems(byUser[u])
    BY <1>1, <1>b DEF Open, Serving
  <2>2. \A u \in Users : byUser'[u] = IF u = UserOf(c) THEN Append(byUser[u], c) ELSE byUser[u]
    BY <1>0, <1>1 DEF Open, Register, TypeOK
  <2>3. \A u \in Users : /\ Elems(byUser'[u]) = Elems(byUser[u]) \cup (IF u = UserOf(c) THEN {c} ELSE {})
                         /\ Distinct(byUser'[u])
    BY <1>a, <2>1, <2>2, AppendElems
  <2>4. \A d \in Conns : Serving(d)' <=> Serving(d) \/ d = c
    BY <1>0, <1>1 DEF Open, Serving, TypeOK
  <2>5. QED
    BY <1>b, <2>3, <2>4
<1>2. ASSUME NEW c \in Conns, Return(c) PROVE Goal
  <2>1. \A u \in Users : Elems(byUser'[u]) = Elems(byUser[u]) \ {c} /\ Distinct(byUser'[u])
    BY <1>2, UnregisterType DEF Return
  <2>2. \A d \in Conns : Serving(d)' <=> Serving(d) /\ d # c
    BY <1>0, <1>2 DEF Return, Serving, TypeOK
  <2>3. QED
    BY <1>b, <2>1, <2>2
<1>3. ASSUME byUser' = byUser, \A d \in Conns : Serving(d)' <=> Serving(d) PROVE Goal
  BY <1>a, <1>b, <1>3
<1>4. ASSUME NEW c \in Conns,
             Handshake(c) \/ SendFails(c) \/ SelectDone(c) \/ Receive(c) \/ SendEvent(c) \/ ClientGone(c)
      PROVE  Goal
  <2>1. byUser' = byUser /\ \A d \in Conns : Serving(d)' <=> Serving(d)
    BY <1>0, <1>4 DEF Handshake, SendFails, SelectDone, Receive, SendEvent, ClientGone, Serving, TypeOK
  <2>2. QED
    BY <1>3, <2>1
<1>5. ASSUME NEW e \in Events, TrySend(e) \/ PushReturns(e) \/ \E u, t : Begin(e, u, t)
      PROVE  Goal
  <2>1. byUser' = byUser /\ pc' = pc
    BY <1>5 DEF TrySend, PushReturns, Begin, connVars
  <2>2. QED
    BY <1>3, <2>1 DEF Serving
<1>6. CASE UNCHANGED vars
  BY <1>3, <1>6 DEF vars, connVars, Serving
<1>7. QED
  BY <1>1, <1>2, <1>4, <1>5, <1>6 DEF Next, Push, PushTo

-----------------------------------------------------------------------------
(* Events.                                                                 *)

\* What a connection has sent is a sequence of events.
LEMMA EventsOfType ==
    ASSUME TypeOK, NEW c \in Conns
    PROVE  EventsOf(c) \in Seq(Events)
<1>1. received[c] \in Seq(Events \X (Conns \cup {NoConn}))
  BY DEF TypeOK
<1>2. Len(received[c]) \in Nat /\ DOMAIN received[c] = 1..Len(received[c])
  BY <1>1
<1>3. \A i \in 1..Len(received[c]) : received[c][i][1] \in Events
  BY <1>1, <1>2
<1>4. EventsOf(c) \in [1..Len(received[c]) -> Events]
  BY <1>2, <1>3 DEF EventsOf
<1>5. QED
  BY <1>2, <1>4

\* Has, in primed states, of a connection whose part of the state is unchanged.
LEMMA SameHas ==
    ASSUME NEW c \in Conns, received'[c] = received[c], held'[c] = held[c], buf'[c] = buf[c]
    PROVE  /\ EventsOf(c)' = EventsOf(c) /\ Sent(c)' = Sent(c)
           /\ \A e \in Events : Has(c, e)' <=> Has(c, e)
<1>1. EventsOf(c)' = EventsOf(c)
  BY DEF EventsOf
<1>2. QED
  BY <1>1 DEF Sent, Has, Elems

\* A step that touches neither events nor pushes.
LEMMA EventsUntouched ==
    ASSUME EventInv, UNCHANGED <<buf, held, session, received, pushVars>>
    PROVE  EventInv'
<1>1. UNCHANGED <<push, dest, todo, pushed, receipt>>
  BY DEF pushVars
<1>2. \A c \in Conns : EventsOf(c)' = EventsOf(c)
  BY DEF EventsOf
<1>3. OnlyAddressedEvents'
  BY <1>1, <1>2 DEF EventInv, OnlyAddressedEvents, Elems
<1>4. OncePerPlace'
  BY <1>1, <1>2 DEF EventInv, OncePerPlace, Sent, Elems, Distinct
<1>5. SnapshotIsAhead'
  <2>1. \A c \in Conns, e \in Events : Has(c, e)' <=> Has(c, e)
    BY SameHas
  <2>2. \A e \in Events : \A c \in Elems(todo[e]) : Has(c, e)' <=> Has(c, e)
    BY <1>2 DEF Has, Sent, EventsOf, Elems
  <2>3. QED
    BY <1>1, <2>2 DEF EventInv, SnapshotIsAhead, Elems, Distinct
<1>6. OneAddressee' /\ SessionOfAddressee' /\ HeldIsStamped'
  BY <1>1 DEF EventInv, OneAddressee, SessionOfAddressee, HeldIsStamped
<1>7. AcceptedIsCounted'
  <2>1. \A c \in Conns, e \in Events : Has(c, e)' <=> Has(c, e)
    BY SameHas
  <2>2. QED
    BY <1>1, <2>1 DEF EventInv, AcceptedIsCounted
<1>8. QED
  BY <1>3, <1>4, <1>5, <1>6, <1>7 DEF EventInv

\* A failed send drops what the handler held.
LEMMA SendFailsInv ==
    ASSUME TypeOK, EventInv, NEW c \in Conns, SendFails(c)
    PROVE  EventInv'
<1>1. /\ UNCHANGED <<buf, session, received, push, dest, todo, pushed, receipt>>
      /\ held'[c] = {} /\ \A d \in Conns : d # c => held'[d] = held[d]
      /\ \A d \in Conns : held'[d] \subseteq held[d]
  BY DEF SendFails, pushVars, TypeOK
<1>2. \A d \in Conns : EventsOf(d)' = EventsOf(d) /\ Sent(d)' = Sent(d) /\ Elems(buf'[d]) = Elems(buf[d])
  BY <1>1 DEF EventsOf, Sent, Elems
<1>3. \A d \in Conns, e \in Events : Has(d, e)' => Has(d, e)
  BY <1>1, <1>2 DEF Has
<1>4. OnlyAddressedEvents'
  BY <1>1, <1>2 DEF EventInv, OnlyAddressedEvents, Sent
<1>5. OncePerPlace'
  BY <1>1, <1>2 DEF EventInv, OncePerPlace, Distinct
<1>6. SnapshotIsAhead'
  <2>1. \A e \in Events : Elems(todo[e]) \subseteq Conns
    BY DEF TypeOK, Elems
  <2>2. QED
    BY <1>1, <1>3, <2>1 DEF EventInv, SnapshotIsAhead, Elems, Distinct
<1>7. OneAddressee' /\ SessionOfAddressee' /\ HeldIsStamped' /\ AcceptedIsCounted'
  BY <1>1, <1>3 DEF EventInv, OneAddressee, SessionOfAddressee, HeldIsStamped, AcceptedIsCounted
<1>8. QED
  BY <1>4, <1>5, <1>6, <1>7 DEF EventInv

\* Receive moves the first queued event to the handler's hand and stamps it.
LEMMA ReceiveInv ==
    ASSUME TypeOK, EventInv, NEW c \in Conns, Receive(c)
    PROVE  EventInv'
<1> USE StreamConstants
<1> DEFINE h == Head(buf[c])
<1>0. buf[c] \in Seq(Events) /\ buf[c] # <<>>
  BY DEF Receive, TypeOK
<1>1. /\ h \in Events /\ Elems(buf[c]) = {h} \cup Elems(Tail(buf[c]))
      /\ Distinct(Tail(buf[c])) /\ h \notin Elems(Tail(buf[c]))
  BY <1>0, TailElems DEF EventInv, OncePerPlace
<1>2. /\ UNCHANGED <<received, push, dest, todo, pushed, receipt>>
      /\ held'[c] = {h} /\ buf'[c] = Tail(buf[c])
      /\ session' = [session EXCEPT ![h] = c]
      /\ \A d \in Conns : d # c => held'[d] = held[d] /\ buf'[d] = buf[d]
  BY DEF Receive, pushVars, TypeOK
<1>3. UserOf(c) \in dest[h]
  BY <1>1 DEF EventInv, OnlyAddressedEvents
<1>4. \A d \in Conns : EventsOf(d)' = EventsOf(d) /\ Sent(d)' = Sent(d)
  BY <1>2 DEF EventsOf, Sent, Elems
<1> HIDE DEF h
<1>5. \A d \in Conns, e \in Events : Has(d, e)' => Has(d, e)
  BY <1>1, <1>2, <1>4 DEF Has
<1>6. OnlyAddressedEvents'
  <2>1. \A d \in Conns : \A e \in (Elems(EventsOf(d)) \cup held[d] \cup Elems(buf[d]))' :
            e \in Elems(EventsOf(d)) \cup held[d] \cup Elems(buf[d])
    BY <1>1, <1>2, <1>4 DEF Sent
  <2>2. QED
    BY <1>2, <2>1 DEF EventInv, OnlyAddressedEvents
<1>7. OncePerPlace'
  <2> SUFFICES ASSUME NEW d \in Conns
               PROVE  /\ Distinct(EventsOf(d)') /\ Distinct(buf'[d])
                      /\ Sent(d)' \cap Elems(buf'[d]) = {}
                      /\ held'[d] \cap Sent(d)' = {} /\ held'[d] \cap Elems(buf'[d]) = {}
    BY DEF OncePerPlace, Distinct, Elems
  <2>1. CASE d = c
    BY <1>1, <1>2, <1>4, <2>1 DEF EventInv, OncePerPlace
  <2>2. CASE d # c
    BY <1>2, <1>4, <2>2 DEF EventInv, OncePerPlace
  <2>3. QED
    BY <2>1, <2>2
<1>8. SnapshotIsAhead'
  <2>1. \A e \in Events : Elems(todo[e]) \subseteq Conns
    BY DEF TypeOK, Elems
  <2>2. QED
    BY <1>2, <1>5, <2>1 DEF EventInv, SnapshotIsAhead, Elems, Distinct
<1>9. OneAddressee' /\ AcceptedIsCounted'
  BY <1>2, <1>5 DEF EventInv, OneAddressee, AcceptedIsCounted
<1>10. \A e \in Events : session'[e] = IF e = h THEN c ELSE session[e]
  BY <1>1, <1>2 DEF TypeOK
<1>11. SessionOfAddressee'
  BY <1>2, <1>3, <1>10 DEF EventInv, SessionOfAddressee
<1>12. HeldIsStamped'
  <2>1. c # NoConn /\ \A d \in Conns : held[d] \subseteq Events
    BY DEF TypeOK
  <2>2. \A d \in Conns : \A e \in held'[d] : e \in Events /\ (e = h \/ e \in held[d])
    BY <1>1, <1>2, <2>1
  <2>3. QED
    BY <1>10, <2>1, <2>2 DEF EventInv, HeldIsStamped
<1>13. QED
  BY <1>6, <1>7, <1>8, <1>9, <1>11, <1>12 DEF EventInv

\* SendEvent moves the handler's event to the client, with the session id it has
\* by then, which is one of the addressee's.
LEMMA SendEventInv ==
    ASSUME TypeOK, EventInv, NEW c \in Conns, SendEvent(c)
    PROVE  EventInv'
<1> USE StreamConstants
<1>0. PICK e \in held[c] : received' = [received EXCEPT ![c] = Append(@, <<e, session[e]>>)]
  BY DEF SendEvent
<1>1. e \in Events /\ session[e] \in Conns /\ UserOf(session[e]) = UserOf(c) /\ UserOf(c) \in dest[e]
  <2>1. e \in Events /\ session[e] \in Conns \cup {NoConn} /\ session[e] # NoConn
    BY DEF TypeOK, EventInv, HeldIsStamped
  <2>2. UserOf(session[e]) \in dest[e] /\ UserOf(c) \in dest[e]
    BY <2>1 DEF EventInv, SessionOfAddressee, OnlyAddressedEvents
  <2>3. QED
    BY <2>1, <2>2 DEF EventInv, OneAddressee
<1>2. /\ UNCHANGED <<buf, session, push, dest, todo, pushed, receipt>>
      /\ held'[c] = {} /\ received'[c] = Append(received[c], <<e, session[e]>>)
      /\ \A d \in Conns : d # c => held'[d] = held[d] /\ received'[d] = received[d]
  BY <1>0 DEF SendEvent, pushVars, TypeOK
<1>3. EventsOf(c)' = Append(EventsOf(c), e)
  <2>1. received[c] \in Seq(Events \X (Conns \cup {NoConn}))
    BY DEF TypeOK
  <2>2. QED
    BY <1>1, <1>2, <2>1 DEF EventsOf
<1>4. /\ Sent(c)' = Sent(c) \cup {e}
      /\ Distinct(EventsOf(c)')
  <2>1. EventsOf(c) \in Seq(Events) /\ Distinct(EventsOf(c)) /\ e \notin Elems(EventsOf(c))
    BY EventsOfType DEF EventInv, OncePerPlace, Sent
  <2>2. /\ Elems(Append(EventsOf(c), e)) = Elems(EventsOf(c)) \cup {e}
        /\ Distinct(Append(EventsOf(c), e))
    BY <1>1, <2>1, AppendElems
  <2>3. Sent(c)' = Elems(EventsOf(c)')
    BY DEF Sent, Elems
  <2>4. QED
    BY <1>3, <2>2, <2>3 DEF Sent
<1>5. \A d \in Conns : d # c => EventsOf(d)' = EventsOf(d) /\ Sent(d)' = Sent(d)
  BY <1>2 DEF EventsOf, Sent, Elems
<1>6. \A d \in Conns, f \in Events : Has(d, f)' => Has(d, f)
  BY <1>2, <1>4, <1>5 DEF Has
<1>7. OnlyAddressedEvents'
  <2>1. \A d \in Conns : \A f \in (Elems(EventsOf(d)) \cup held[d] \cup Elems(buf[d]))' :
            f \in Elems(EventsOf(d)) \cup held[d] \cup Elems(buf[d])
    BY <1>2, <1>4, <1>5 DEF Sent
  <2>2. \A d \in Conns : \A i \in DOMAIN received'[d] :
            received'[d][i][2] \in Conns /\ UserOf(received'[d][i][2]) = UserOf(d)
    <3> SUFFICES ASSUME NEW d \in Conns, NEW i \in DOMAIN received'[d]
                 PROVE  received'[d][i][2] \in Conns /\ UserOf(received'[d][i][2]) = UserOf(d)
      OBVIOUS
    <3>1. CASE d # c
      BY <1>2, <3>1 DEF EventInv, OnlyAddressedEvents
    <3>2. CASE d = c
      <4>1. received[c] \in Seq(Events \X (Conns \cup {NoConn}))
        BY DEF TypeOK
      <4>2. \/ i \in DOMAIN received[c] /\ received'[c][i] = received[c][i]
            \/ received'[c][i] = <<e, session[e]>>
        BY <1>2, <3>2, <4>1
      <4>3. QED
        BY <1>1, <3>2, <4>2 DEF EventInv, OnlyAddressedEvents
    <3>3. QED
      BY <3>1, <3>2
  <2>3. QED
    BY <1>2, <2>1, <2>2 DEF EventInv, OnlyAddressedEvents
<1>8. OncePerPlace'
  <2> SUFFICES ASSUME NEW d \in Conns
               PROVE  /\ Distinct(EventsOf(d)') /\ Distinct(buf'[d])
                      /\ Sent(d)' \cap Elems(buf'[d]) = {}
                      /\ held'[d] \cap Sent(d)' = {} /\ held'[d] \cap Elems(buf'[d]) = {}
    BY DEF OncePerPlace, Distinct, Elems
  <2>1. CASE d = c
    BY <1>2, <1>4, <2>1 DEF EventInv, OncePerPlace
  <2>2. CASE d # c
    BY <1>2, <1>5, <2>2 DEF EventInv, OncePerPlace
  <2>3. QED
    BY <2>1, <2>2
<1>9. SnapshotIsAhead'
  <2>1. \A f \in Events : Elems(todo[f]) \subseteq Conns
    BY DEF TypeOK, Elems
  <2>2. \A f \in Events : \A d \in Elems(todo[f]) : UserOf(d) \in dest'[f] /\ ~Has(d, f)'
    BY <1>2, <1>6, <2>1 DEF EventInv, SnapshotIsAhead
  <2>3. \A f \in Events : todo'[f] = todo[f] /\ Distinct(todo[f])
    BY <1>2 DEF EventInv, SnapshotIsAhead
  <2>4. QED
    BY <2>2, <2>3 DEF SnapshotIsAhead, Elems, Distinct
<1>10. OneAddressee' /\ SessionOfAddressee'
  BY <1>2 DEF EventInv, OneAddressee, SessionOfAddressee
<1>11. HeldIsStamped'
  BY <1>2 DEF EventInv, HeldIsStamped
<1>12. AcceptedIsCounted'
  BY <1>2, <1>6 DEF EventInv, AcceptedIsCounted
<1>13. QED
  BY <1>7, <1>8, <1>9, <1>10, <1>11, <1>12 DEF EventInv

\* A push begins with a snapshot of connections of its addressee, each once; no
\* connection has the event yet, for it had no addressee.
LEMMA BeginInv ==
    ASSUME TypeOK, EventInv, NEW e \in Events, NEW u \in Users,
           NEW t \in Seq(Conns),
           Distinct(t), \A c \in Elems(t) : UserOf(c) = u, Begin(e, u, t)
    PROVE  EventInv'
<1>1. /\ UNCHANGED <<buf, held, session, received, pushed, receipt>>
      /\ push[e] = "idle" /\ push'[e] = "pushing" /\ dest'[e] = {u} /\ todo'[e] = t
      /\ \A f \in Events : f # e => push'[f] = push[f] /\ dest'[f] = dest[f] /\ todo'[f] = todo[f]
  BY DEF Begin, connVars, TypeOK
<1>2. \A c \in Conns : EventsOf(c)' = EventsOf(c) /\ Sent(c)' = Sent(c)
  BY <1>1 DEF EventsOf, Sent, Elems
<1>3. \A c \in Conns, f \in Events : Has(c, f)' <=> Has(c, f)
  BY <1>1, <1>2 DEF Has
<1>4. dest[e] = {}
  BY <1>1 DEF EventInv, OneAddressee
<1>5. \A c \in Conns : ~Has(c, e)
  BY <1>4 DEF EventInv, OnlyAddressedEvents, Has, Sent
<1>6. \A f \in Events : dest[f] \subseteq dest'[f]
  BY <1>1, <1>4
<1>7. OnlyAddressedEvents'
  <2>1. \A c \in Conns : \A f \in (Elems(EventsOf(c)) \cup held[c] \cup Elems(buf[c]))' :
            f \in Events /\ Has(c, f)
    <3>1. \A c \in Conns : Elems(EventsOf(c)) \subseteq Events /\ held[c] \subseteq Events
                           /\ Elems(buf[c]) \subseteq Events
      BY EventsOfType DEF TypeOK, Elems
    <3>2. QED
      BY <1>1, <1>2, <3>1 DEF Has, Sent
  <2>2. \A c \in Conns, f \in Events : Has(c, f) => UserOf(c) \in dest[f]
    BY DEF EventInv, OnlyAddressedEvents, Has, Sent
  <2>3. QED
    BY <1>1, <1>6, <2>1, <2>2 DEF EventInv, OnlyAddressedEvents
<1>8. OncePerPlace'
  BY <1>1, <1>2 DEF EventInv, OncePerPlace, Distinct
<1>9. SnapshotIsAhead'
  <2> SUFFICES ASSUME NEW f \in Events
               PROVE  /\ Distinct(todo'[f])
                      /\ \A c \in Elems(todo'[f]) : UserOf(c) \in dest'[f] /\ ~Has(c, f)'
    BY DEF SnapshotIsAhead, Distinct, Elems
  <2>1. Elems(t) \subseteq Conns /\ Elems(todo[f]) \subseteq Conns
    BY DEF TypeOK, Elems
  <2>2. CASE f = e
    BY <1>1, <1>3, <1>5, <2>1, <2>2
  <2>3. CASE f # e
    BY <1>1, <1>3, <2>1, <2>3 DEF EventInv, SnapshotIsAhead
  <2>4. QED
    BY <2>2, <2>3
<1>10. OneAddressee' /\ SessionOfAddressee'
  BY <1>1, <1>6 DEF EventInv, OneAddressee, SessionOfAddressee
<1>11. HeldIsStamped'
  BY <1>1 DEF EventInv, HeldIsStamped
<1>12. AcceptedIsCounted'
  BY <1>1, <1>3 DEF EventInv, AcceptedIsCounted
<1>13. QED
  BY <1>7, <1>8, <1>9, <1>10, <1>11, <1>12 DEF EventInv

\* trySend gives the event to the next connection of the snapshot, which has not
\* got it, or to none.
LEMMA TrySendInv ==
    ASSUME TypeOK, EventInv, NEW e \in Events, TrySend(e)
    PROVE  EventInv'
<1> DEFINE c == Head(todo[e])
<1>0. todo[e] \in Seq(Conns) /\ todo[e] # <<>> /\ push[e] = "pushing"
  BY DEF TrySend, TypeOK
<1>1. /\ c \in Conns /\ Elems(todo[e]) = {c} \cup Elems(Tail(todo[e]))
      /\ Distinct(Tail(todo[e])) /\ c \notin Elems(Tail(todo[e]))
  BY <1>0, TailElems DEF EventInv, SnapshotIsAhead
<1>2. UserOf(c) \in dest[e] /\ ~Has(c, e)
  BY <1>1 DEF EventInv, SnapshotIsAhead
<1>3. /\ UNCHANGED <<held, session, received, push, dest, receipt>>
      /\ todo'[e] = Tail(todo[e]) /\ \A f \in Events : f # e => todo'[f] = todo[f]
  BY DEF TrySend, connVars, TypeOK
<1>4. \A d \in Conns : EventsOf(d)' = EventsOf(d) /\ Sent(d)' = Sent(d)
  BY <1>3 DEF EventsOf, Sent, Elems
<1>5. buf[c] \in Seq(Events) /\ pushed[e] \in Nat
  BY <1>1 DEF TypeOK
<1>6. \/ UNCHANGED <<buf, pushed>>
      \/ /\ buf'[c] = Append(buf[c], e) /\ \A d \in Conns : d # c => buf'[d] = buf[d]
         /\ pushed'[e] = pushed[e] + 1 /\ \A f \in Events : f # e => pushed'[f] = pushed[f]
  BY <1>1 DEF TrySend, TypeOK
<1> HIDE DEF c
<1>7. /\ Elems(Append(buf[c], e)) = Elems(buf[c]) \cup {e}
      /\ Distinct(Append(buf[c], e))
  <2>1. Distinct(buf[c]) /\ e \notin Elems(buf[c])
    BY <1>1, <1>2 DEF EventInv, OncePerPlace, Has
  <2>2. QED
    BY <1>5, <2>1, AppendElems
<1>8. \A d \in Conns : /\ \/ Elems(buf'[d]) = Elems(buf[d])
                          \/ d = c /\ Elems(buf'[d]) = Elems(buf[d]) \cup {e}
                       /\ Distinct(buf'[d])
  <2>1. \A d \in Conns : Distinct(buf[d])
    BY DEF EventInv, OncePerPlace
  <2>2. CASE UNCHANGED <<buf, pushed>>
    BY <2>1, <2>2
  <2>3. CASE buf'[c] = Append(buf[c], e) /\ \A d \in Conns : d # c => buf'[d] = buf[d]
    BY <1>7, <2>1, <2>3
  <2>4. QED
    BY <1>6, <2>2, <2>3
<1>9. \A d \in Conns, f \in Events : Has(d, f)' => Has(d, f) \/ (d = c /\ f = e)
  BY <1>3, <1>4, <1>8 DEF Has
<1>10. OnlyAddressedEvents'
  <2>1. \A d \in Conns : \A f \in (Elems(EventsOf(d)) \cup held[d] \cup Elems(buf[d]))' :
            f \in Elems(EventsOf(d)) \cup held[d] \cup Elems(buf[d]) \/ (d = c /\ f = e)
    BY <1>3, <1>4, <1>8 DEF Sent
  <2>2. QED
    BY <1>2, <1>3, <2>1 DEF EventInv, OnlyAddressedEvents
<1>11. OncePerPlace'
  <2> SUFFICES ASSUME NEW d \in Conns
               PROVE  /\ Distinct(EventsOf(d)') /\ Distinct(buf'[d])
                      /\ Sent(d)' \cap Elems(buf'[d]) = {}
                      /\ held'[d] \cap Sent(d)' = {} /\ held'[d] \cap Elems(buf'[d]) = {}
    BY DEF OncePerPlace, Distinct, Elems
  <2>1. e \notin Sent(c) /\ e \notin held[c]
    BY <1>2 DEF Has
  <2>2. QED
    BY <1>3, <1>4, <1>8, <2>1 DEF EventInv, OncePerPlace
<1>12. SnapshotIsAhead'
  <2> SUFFICES ASSUME NEW f \in Events
               PROVE  /\ Distinct(todo'[f])
                      /\ \A d \in Elems(todo'[f]) : UserOf(d) \in dest'[f] /\ ~Has(d, f)'
    BY DEF SnapshotIsAhead, Distinct, Elems
  <2>1. Elems(todo[f]) \subseteq Conns
    BY DEF TypeOK, Elems
  <2>2. CASE f = e
    BY <1>1, <1>3, <1>9, <2>1, <2>2 DEF EventInv, SnapshotIsAhead
  <2>3. CASE f # e
    BY <1>3, <1>9, <2>1, <2>3 DEF EventInv, SnapshotIsAhead
  <2>4. QED
    BY <2>2, <2>3
<1>13. OneAddressee' /\ SessionOfAddressee' /\ HeldIsStamped'
  BY <1>3 DEF EventInv, OneAddressee, SessionOfAddressee, HeldIsStamped
<1>14. AcceptedIsCounted'
  <2>1. pushed[e] + 1 # 0
    BY <1>5
  <2>2. receipt[e] # "pending"
    BY <1>0 DEF EventInv, AcceptedIsCounted
  <2>3. \A f \in Events : pushed'[f] = pushed[f] \/ (f = e /\ pushed'[f] # 0)
    <3>1. CASE UNCHANGED <<buf, pushed>>
      BY <3>1
    <3>2. CASE pushed'[e] = pushed[e] + 1 /\ \A f \in Events : f # e => pushed'[f] = pushed[f]
      BY <2>1, <3>2
    <3>3. QED
      BY <1>6, <3>1, <3>2
  <2>4. \A d \in Conns, f \in Events : Has(d, f)' => pushed'[f] # 0
    <3>1. CASE UNCHANGED <<buf, pushed>>
      <4>1. \A d \in Conns, f \in Events : Has(d, f)' => Has(d, f)
        BY <1>3, <1>4, <3>1 DEF Has
      <4>2. QED
        BY <3>1, <4>1 DEF EventInv, AcceptedIsCounted
    <3>2. CASE pushed'[e] # 0
      BY <1>9, <2>3, <3>2 DEF EventInv, AcceptedIsCounted
    <3>3. QED
      BY <1>6, <2>1, <3>1, <3>2
  <2>5. QED
    BY <1>3, <2>2, <2>3, <2>4 DEF EventInv, AcceptedIsCounted
<1>15. QED
  BY <1>10, <1>11, <1>12, <1>13, <1>14 DEF EventInv

\* A push returns a receipt of pending only if it counted nothing.
LEMMA PushReturnsInv ==
    ASSUME TypeOK, EventInv, NEW e \in Events, PushReturns(e)
    PROVE  EventInv'
<1>1. /\ UNCHANGED <<buf, held, session, received, dest, todo, pushed>>
      /\ push'[e] = "done" /\ (receipt'[e] = "pending" => pushed[e] = 0)
      /\ \A f \in Events : f # e => push'[f] = push[f] /\ receipt'[f] = receipt[f]
  BY DEF PushReturns, connVars, TypeOK
<1>2. \A c \in Conns : EventsOf(c)' = EventsOf(c) /\ Sent(c)' = Sent(c)
  BY <1>1 DEF EventsOf, Sent, Elems
<1>3. \A c \in Conns, f \in Events : Has(c, f)' <=> Has(c, f)
  BY <1>1, <1>2 DEF Has
<1>4. OnlyAddressedEvents'
  BY <1>1, <1>2 DEF EventInv, OnlyAddressedEvents, Elems
<1>5. OncePerPlace'
  BY <1>1, <1>2 DEF EventInv, OncePerPlace, Distinct
<1>6. SnapshotIsAhead'
  <2>1. \A f \in Events : Elems(todo[f]) \subseteq Conns
    BY DEF TypeOK, Elems
  <2>2. QED
    BY <1>1, <1>3, <2>1 DEF EventInv, SnapshotIsAhead, Elems, Distinct
<1>7. OneAddressee' /\ SessionOfAddressee' /\ HeldIsStamped'
  BY <1>1 DEF EventInv, OneAddressee, SessionOfAddressee, HeldIsStamped
<1>8. AcceptedIsCounted'
  BY <1>1, <1>3 DEF EventInv, AcceptedIsCounted
<1>9. QED
  BY <1>4, <1>5, <1>6, <1>7, <1>8 DEF EventInv

-----------------------------------------------------------------------------
(* The invariant.                                                          *)

\* The registry is empty and no push has begun.
LEMMA InitIInv == Init => IInv
<1> SUFFICES ASSUME Init PROVE IInv
  OBVIOUS
<1> USE StreamConstants
<1>1. RegisteredWhileServing
  <2>1. TypeOK
    BY DEF Init, TypeOK
  <2>2. \A u \in Users : Elems(byUser[u]) = {} /\ DOMAIN byUser[u] = {}
    <3>1. \A u \in Users : byUser[u] = <<>>
      BY DEF Init
    <3>2. Elems(<<>>) = {} /\ DOMAIN <<>> = {}
      BY DEF Elems
    <3>3. QED
      BY <3>1, <3>2
  <2>3. \A c \in Conns : ~Serving(c)
    BY DEF Init, Serving
  <2>4. QED
    BY <2>1, <2>2, <2>3 DEF RegisteredWhileServing
<1>2. \A c \in Conns : /\ DOMAIN received[c] = {} /\ DOMAIN EventsOf(c) = {} /\ Elems(EventsOf(c)) = {}
                       /\ held[c] = {} /\ DOMAIN buf[c] = {} /\ Elems(buf[c]) = {}
  BY DEF Init, EventsOf, Elems
<1>3. \A e \in Events : DOMAIN todo[e] = {} /\ Elems(todo[e]) = {}
  BY DEF Init, Elems
<1>4. OnlyAddressedEvents /\ OncePerPlace /\ HeldIsStamped
  BY <1>2 DEF OnlyAddressedEvents, OncePerPlace, HeldIsStamped, Sent, Distinct
<1>5. SnapshotIsAhead
  BY <1>3 DEF SnapshotIsAhead, Distinct
<1>6. OneAddressee /\ SessionOfAddressee
  BY DEF Init, OneAddressee, SessionOfAddressee
<1>7. AcceptedIsCounted
  BY <1>2 DEF Init, AcceptedIsCounted, Has, Sent
<1>8. QED
  BY <1>1, <1>4, <1>5, <1>6, <1>7 DEF IInv, EventInv

\* Every step of a handler, a client or a push keeps it.
LEMMA StepIInv == IInv /\ [Next]_vars => IInv'
<1> SUFFICES ASSUME IInv, [Next]_vars PROVE EventInv'
  BY RegistryStep DEF IInv
<1> USE StreamConstants
<1>0. TypeOK /\ EventInv
  BY DEF IInv, RegisteredWhileServing
<1>1. ASSUME NEW c \in Conns,
             Open(c) \/ Handshake(c) \/ ClientGone(c) \/ SelectDone(c) \/ Return(c)
      PROVE  EventInv'
  <2>1. UNCHANGED <<buf, held, session, received, pushVars>>
    BY <1>1 DEF Open, Handshake, ClientGone, SelectDone, Return
  <2>2. QED
    BY <1>0, <2>1, EventsUntouched
<1>2. ASSUME NEW c \in Conns, SendFails(c) \/ Receive(c) \/ SendEvent(c) PROVE EventInv'
  BY <1>0, <1>2, SendFailsInv, ReceiveInv, SendEventInv
<1>3. ASSUME NEW e \in Events, NEW u \in Users, Push(e, u) PROVE EventInv'
  <2>1. byUser[u] \in Seq(Conns) /\ Distinct(byUser[u])
    BY <1>0 DEF IInv, RegisteredWhileServing, TypeOK, Distinct
  <2>2. \A c \in Elems(byUser[u]) : c \in Conns /\ UserOf(c) = u
    <3>1. Elems(byUser[u]) \subseteq Conns
      BY <2>1 DEF Elems
    <3>2. QED
      BY <3>1 DEF IInv, RegisteredWhileServing
  <2>3. QED
    BY <1>0, <1>3, <2>1, <2>2, BeginInv DEF Push
<1>4. ASSUME NEW e \in Events, NEW c \in Conns, PushTo(e, c) PROVE EventInv'
  <2>1. <<c>> \in Seq(Conns) /\ Distinct(<<c>>) /\ Owner[c] \in Accounts /\ UserOf(c) \in Users
    BY OwnerTypes DEF Distinct
  <2>2. \A d \in Elems(<<c>>) : UserOf(d) = UserOf(c)
    BY DEF Elems
  <2>3. QED
    BY <1>0, <1>4, <2>1, <2>2, BeginInv DEF PushTo
<1>5. ASSUME NEW e \in Events, TrySend(e) \/ PushReturns(e) PROVE EventInv'
  BY <1>0, <1>5, TrySendInv, PushReturnsInv
<1>6. CASE UNCHANGED vars
  <2>1. UNCHANGED <<buf, held, session, received, pushVars>>
    BY <1>6 DEF vars, connVars
  <2>2. QED
    BY <1>0, <2>1, EventsUntouched
<1>7. QED
  BY <1>1, <1>2, <1>3, <1>4, <1>5, <1>6 DEF Next

\* The inductive invariant holds in every reachable state.
LEMMA Invariance == Spec => []IInv
  BY InitIInv, StepIInv, PTL DEF Spec

-----------------------------------------------------------------------------
(* Theorems.                                                               *)

\* For any number of users and connections: a connection is in the list of its
\* user id exactly once while its serve() runs, and in no list before or after
\* (registry.go:34-50).
THEOREM NoRegistrationLeaks == Spec => []RegisteredWhileServing
<1>1. IInv => RegisteredWhileServing
  BY DEF IInv
<1>2. QED
  BY <1>1, Invariance, PTL

\* For any number of tenants, users and connections: a connection only gets the
\* events pushed to its user id, with a session id of a connection under this
\* user id (registry.go:91-99, stream.go:127-128).
THEOREM EventsReachTheirAddressOnly == Spec => []OnlyAddressedEvents
<1>1. IInv => OnlyAddressedEvents
  BY DEF IInv, EventInv
<1>2. QED
  BY <1>1, Invariance, PTL

\* What the tenants' wall rests on: if no user id is known in two tenants, a
\* notification only gets to connections of its row's account, although the
\* registry never reads Conn.TenantID.  Without the assumption it does not hold:
\* the run stream_tenants is the counterexample.
THEOREM DistinctNamesKeepTenantsApart ==
    ASSUME \A a, b \in Accounts : a[2] = b[2] => a = b
    PROVE  Spec => []TenantsAreApart
<1>1. ASSUME IInv PROVE TenantsAreApart
  <2> SUFFICES ASSUME NEW c \in Conns,
                      NEW e \in Elems(EventsOf(c)) \cup held[c] \cup Elems(buf[c]),
                      OwnAddress(e)
               PROVE  Owner[c] = RowOf[e]
    BY DEF TenantsAreApart
  <2>1. e \in Events
    BY <1>1, EventsOfType DEF IInv, RegisteredWhileServing, TypeOK, Elems
  <2>2. UserOf(c) = RowOf[e][2]
    BY <1>1 DEF IInv, EventInv, OnlyAddressedEvents, OwnAddress
  <2>3. RowOf[e] \in Accounts /\ Owner[c] \in Accounts
    BY <2>1, OwnerTypes, StreamConstants
  <2>4. QED
    BY <2>2, <2>3 DEF UserOf
<1>2. QED
  BY <1>1, Invariance, PTL

\* Two sequences without repetition and without a common element, one after the
\* other.
LEMMA ConcatDistinct ==
    ASSUME NEW S, NEW s \in Seq(S), NEW t \in Seq(S), Distinct(s), Distinct(t),
           Elems(s) \cap Elems(t) = {}
    PROVE  /\ Distinct(s \o t)
           /\ Elems(s \o t) \subseteq Elems(s) \cup Elems(t)
<1> DEFINE m == Len(s)
           n == Len(t)
           w == s \o t
<1>1. /\ m \in Nat /\ n \in Nat /\ DOMAIN s = 1..m /\ DOMAIN t = 1..n /\ DOMAIN w = 1..(m + n)
      /\ \A i \in 1..(m + n) : w[i] = IF i <= m THEN s[i] ELSE t[i - m]
  OBVIOUS
<1> HIDE DEF m, n, w
<1>2. \A i \in DOMAIN w : \/ i \in DOMAIN s /\ w[i] = s[i]
                          \/ i \notin DOMAIN s /\ i - m \in DOMAIN t /\ w[i] = t[i - m]
  BY <1>1
<1>3. \A i, j \in DOMAIN w : i - m = j - m => i = j
  BY <1>1
<1>4. \A i \in DOMAIN s, j \in DOMAIN t : s[i] # t[j]
  BY DEF Elems
<1>5. Distinct(w)
  <2> SUFFICES ASSUME NEW i \in DOMAIN w, NEW j \in DOMAIN w, w[i] = w[j] PROVE i = j
    BY DEF Distinct
  <2>1. CASE i \in DOMAIN s /\ j \in DOMAIN s
    BY <1>2, <2>1 DEF Distinct
  <2>2. CASE i \notin DOMAIN s /\ j \notin DOMAIN s
    <3>1. i - m \in DOMAIN t /\ j - m \in DOMAIN t /\ t[i - m] = t[j - m]
      BY <1>2, <2>2
    <3>2. i - m = j - m
      BY <3>1 DEF Distinct
    <3>3. QED
      BY <1>3, <3>2
  <2>3. QED
    BY <1>2, <1>4, <2>1, <2>2
<1>6. Elems(w) \subseteq Elems(s) \cup Elems(t)
  BY <1>2 DEF Elems
<1>7. QED
  BY <1>5, <1>6 DEF w

\* For any number of users and connections: a connection gets an event at most
\* once, although Unregister reorders the lists while pushes run.
THEOREM DeliveredAtMostOnce == Spec => []AtMostOncePerConn
<1>1. ASSUME IInv PROVE AtMostOncePerConn
  <2> SUFFICES ASSUME NEW c \in Conns
               PROVE  /\ Distinct(EventsOf(c) \o buf[c])
                      /\ held[c] \cap Elems(EventsOf(c) \o buf[c]) = {}
    BY DEF AtMostOncePerConn, Distinct
  <2>1. EventsOf(c) \in Seq(Events) /\ buf[c] \in Seq(Events)
    BY <1>1, EventsOfType DEF IInv, RegisteredWhileServing, TypeOK
  <2>2. /\ Distinct(EventsOf(c)) /\ Distinct(buf[c]) /\ Elems(EventsOf(c)) \cap Elems(buf[c]) = {}
        /\ held[c] \cap Elems(EventsOf(c)) = {} /\ held[c] \cap Elems(buf[c]) = {}
    BY <1>1 DEF IInv, EventInv, OncePerPlace, Sent
  <2>3. QED
    BY <2>1, <2>2, ConcatDistinct
<1>2. QED
  BY <1>1, Invariance, PTL

\* For any number of users and connections: a receipt of pending means that no
\* connection has the event or ever will (inapp.go:47-51).
THEOREM PendingIsTrue == Spec => []PendingReachesNobody
<1>1. IInv => PendingReachesNobody
  BY DEF IInv, EventInv, AcceptedIsCounted, PendingReachesNobody, Has, Sent
<1>2. QED
  BY <1>1, Invariance, PTL
=============================================================================
