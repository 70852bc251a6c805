-------------------------------- MODULE Inbox --------------------------------
(***************************************************************************)
(* The inbox of one user: QueryUserNotifications of the memory store,      *)
(* ClampLimit, and a client that walks the pages with GetNotifications by  *)
(* handing every next_cursor back, while producers create rows and other   *)
(* calls change their status.  A query runs under the store's lock.        *)
(*                                                                         *)
(* The reply's unread count is left out: no later request depends on it.   *)
(*                                                                         *)
(* A cursor is a creation time.  Notify stamps a row before it stores it,  *)
(* so a row can appear with a creation time that is already past.          *)
(***************************************************************************)
EXTENDS MemoryStore, Integers, SequencesExt

CONSTANTS DefaultPageLimit,
          MaxPageLimit,
          Limits,         \* the limits clients ask for
          Changes,        \* the statuses other calls write meanwhile
          MaxInFlight     \* bound: Notify calls between stamp and store

ASSUME InboxConstants ==
    /\ IDs \subseteq Nat                  \* rows are ordered by id, as strings are
    /\ DefaultPageLimit \in 1..MaxPageLimit
    /\ MaxPageLimit \in Nat
    /\ Limits \subseteq Int
    /\ Changes \subseteq Status
    /\ MaxInFlight \in Nat

VARIABLES
    now,
    built,      \* rows that were stamped and are not stored yet
    walk,       \* the client: "idle", "paging" or "over"
    query,      \* its query: owner, limit and the unread_only flag
    cursor,     \* the cursor of its next request, 0 for none
    page,       \* the ids of the page it got last
    seen,       \* the ids of the pages before that
    edges,      \* history: the creation times of the pages' last rows
    steady      \* history: ids that matched at its first request and ever since

clientVars == <<walk, query, cursor, page, seen, edges>>
vars == <<storeVars, now, built, clientVars, steady>>

Queries == [tenant : Tenants, user : Users, limit : Limits, unreadOnly : BOOLEAN]

ClampLimit(limit) ==
    CASE limit <= 0           -> DefaultPageLimit
      [] limit > MaxPageLimit -> MaxPageLimit
      [] OTHER                -> limit

\* Rows the query is about, whatever page is asked for.
Matches(q, n) ==
    /\ n # NoRow
    /\ n.key[1] = q.tenant
    /\ n.key[2] = q.user
    /\ q.unreadOnly => n.status # "read"

\* Mutant: the boundary row is on both pages.
OlderOrSame(n, after) == after = 0 \/ n.createdAt <= after

\* Rows of the page after the cursor: strictly older.
Older(n, after) == after = 0 \/ n.createdAt < after

\* Newest first; ties are broken on the id.
NewestFirst(i, j) ==
    IF notifications[i].createdAt # notifications[j].createdAt
      THEN notifications[i].createdAt > notifications[j].createdAt
      ELSE i > j

\* The ids of S in order: each stands behind those that come before it.
InOrder(S) ==
    [i \in 1..Cardinality(S) |->
        CHOOSE id \in S : Cardinality({j \in S : NewestFirst(j, id)}) = i - 1]

\* All matches from the cursor on, in order.
Rest(q, after) ==
    InOrder({id \in IDs : Matches(q, notifications[id]) /\ Older(notifications[id], after)})

Page(q, after) == SubSeq(Rest(q, after), 1, Min({ClampLimit(q.limit), Len(Rest(q, after))}))

\* Mutant: the cursor is the first row that was cut off.
NextCursorOfNext(q, after) ==
    IF Len(Rest(q, after)) > ClampLimit(q.limit)
      THEN notifications[Rest(q, after)[ClampLimit(q.limit) + 1]].createdAt
      ELSE 0

\* The last row's creation time if rows were cut off, else no cursor.
NextCursor(q, after) ==
    IF Len(Rest(q, after)) > ClampLimit(q.limit)
      THEN notifications[Last(Page(q, after))].createdAt
      ELSE 0

-----------------------------------------------------------------------------
TypeOK ==
    /\ StoreTypeOK
    /\ now \in 1..MaxTime
    /\ built \subseteq Row
    /\ walk \in {"idle", "paging", "over"}
    /\ query \in Queries
    /\ cursor \in Stamp
    /\ page \in Seq(IDs)
    /\ Len(page) <= MaxPageLimit
    /\ seen \subseteq IDs
    /\ edges \subseteq Stamp
    /\ steady \subseteq IDs

Init ==
    /\ StoreInit
    /\ now = 1
    /\ built = {}
    /\ walk = "idle"
    /\ query \in Queries
    /\ cursor = 0
    /\ page = <<>>
    /\ seen = {}
    /\ edges = {}
    /\ steady = {}

\* Notify reads the clock for a row of some channel ...
Build(key, kind) ==
    /\ Cardinality(built) < MaxInFlight
    /\ \A n \in built : n.key # key
    /\ built' = built \cup {NewRow(key, kind, now)}
    /\ UNCHANGED <<storeVars, now, clientVars, steady>>

\* ... and stores it.
Store(n) ==
    /\ n \in built
    /\ \E id \in IDs : CreateNotification(n, id)
    /\ built' = built \ {n}
    /\ UNCHANGED <<now, clientVars, steady>>

\* Notify records a receipt, AckNotification marks the row read.
ChangeStatus(id, status) ==
    /\ \E t \in Tenants : UpdateStatus(t, id, status, now)
    /\ steady' = IF query.unreadOnly /\ status = "read" THEN steady \ {id} ELSE steady
    /\ UNCHANGED <<now, built, clientVars>>

\* GetNotifications, the first time without a cursor; decodeCursor takes back
\* what NextCursor formatted.
GetNotifications ==
    /\ walk # "over"
    /\ page' = Page(query, cursor)
    /\ cursor' = NextCursor(query, cursor)
    /\ seen' = seen \cup Range(page)
    /\ edges' = IF page' = <<>> THEN edges ELSE edges \cup {notifications[Last(page')].createdAt}
    /\ walk' = IF cursor' = 0 THEN "over" ELSE "paging"
    /\ steady' = IF walk = "idle" THEN {id \in IDs : Matches(query, notifications[id])} ELSE steady
    /\ UNCHANGED <<storeVars, now, built, query>>

Tick ==
    /\ now < MaxTime
    /\ now' = now + 1
    /\ UNCHANGED <<storeVars, built, clientVars, steady>>

Next ==
    \/ \E key \in Key, kind \in Channels : Build(key, kind)
    \/ \E n \in built : Store(n)
    \/ \E id \in IDs, status \in Changes : ChangeStatus(id, status)
    \/ GetNotifications
    \/ Tick

Spec == Init /\ [][Next]_vars

\* The client goes on asking until there is no next cursor.
FairSpec == Spec /\ WF_vars(GetNotifications)

-----------------------------------------------------------------------------
(* Properties.                                                             *)

CreatedAt(id) == notifications[id].createdAt

\* No row is on two pages, although rows are added and change while the client
\* pages (queryedge.go:48-50).
NothingListedTwice == IsInjective(page) /\ Range(page) \cap seen = {}

\* Over all of the pages together, rows come newest first (store.go:34-35).
NewestFirstOverall ==
    /\ \A i, j \in DOMAIN page : i < j => CreatedAt(page[i]) >= CreatedAt(page[j])
    /\ \A old \in seen, id \in Range(page) : CreatedAt(old) >= CreatedAt(id)

\* The pages of a walk are one list, newest first and without repetition, and
\* none is longer than MaxPageLimit (TypeOK).
PagesInOrder == TypeOK /\ NothingListedTwice /\ NewestFirstOverall

\* A complete walk lists every row that matched all the time, except rows that
\* share the creation time of a page's last row: the strict cursor skips those
\* (memory/store.go:126), where queryedge.go:18-19 has the pages return "every
\* matching row".
MissedOnlyAtTie ==
    walk = "over" =>
        \A id \in steady : id \in seen \cup Range(page) \/ CreatedAt(id) \in edges

\* A walk ends, however many rows are added meanwhile: cursors only go back in
\* time.
WalkEnds == <>(walk = "over")
=============================================================================
