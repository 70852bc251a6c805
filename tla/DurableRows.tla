----------------------------- MODULE DurableRows -----------------------------
(***************************************************************************)
(* Notification rows in the three store drivers: store/memory, which holds *)
(* one mutex per call, store/postgres and store/entdb, whose calls are     *)
(* several statements with nothing held between them.  Clients call them   *)
(* concurrently: creates, acknowledgements (GetNotification then           *)
(* UpdateStatus), delivery records (UpdateStatus) and inbox queries.       *)
(*                                                                         *)
(* A statement may fail before it is applied; a reply lost after it was    *)
(* applied leaves the store as a success does, and its caller knows less.  *)
(***************************************************************************)
EXTENDS NotificationModel, Sequences, FiniteSets

CONSTANTS Clients,       \* store calls in flight at once
          Drivers,       \* the drivers among "memory", "postgres", "entdb"
          Creates,       \* <<key, created at>> of the rows producers create
          Queries,       \* the inbox queries clients make
          MaxRows,       \* bound: at most MaxRows rows, with ids 1..MaxRows
          BadID,         \* an id argument that is not a UUID
          Limit,         \* the page size, after ClampLimit
          NoRow,
          Chars,         \* the characters of tenant, user and notification ids
          Itoa           \* strconv.Itoa: a length -> its decimal digits

ASSUME DriverConstants ==
    /\ Creates \subseteq Key \X Stamp
    /\ Queries \subseteq [tenant : Tenants, user : Users, cursor : Stamp, unreadOnly : BOOLEAN]
    /\ MaxRows \in Nat /\ Limit \in Nat \ {0}
    /\ BadID \notin 1..MaxRows
    /\ NoRow \notin Row

\* Lengths are written without a colon, and no two lengths alike.
ASSUME KeyConstants ==
    /\ Tenants \cup Users \cup NotificationIDs \subseteq Seq(Chars)
    /\ \A s \in Tenants \cup Users \cup NotificationIDs : Len(s) \in DOMAIN Itoa
    /\ \A n \in DOMAIN Itoa : Itoa[n] \in Seq(Chars \ {":"})
    /\ \A m, n \in DOMAIN Itoa : Itoa[m] = Itoa[n] => m = n

IDs == 1..MaxRows       \* UUIDs, in their order, assigned in any order

VARIABLES driver,    \* the configured driver
          rows,      \* id -> row, or NoRow
          step,      \* client -> the next statement of its call
          call,      \* client -> the arguments and local variables of its call
          out        \* what the last step returned to its caller

rowVars == <<rows, step, call, out>>

NoCall == [op |-> "none"]

\* Mutant: the parts are joined by a separator.
CompositeKeyJoined(k) == k[1] \o <<":">> \o k[2] \o <<":">> \o k[3]

\* lpEncode and the composite key of entdb: parts are strings, as sequences of
\* characters, each behind its length.
LPEncode(s) == Itoa[Len(s)] \o <<":">> \o s
CompositeKey(k) == LPEncode(k[1]) \o LPEncode(k[2]) \o LPEncode(k[3])

\* Two keys are the same to the driver's unique constraint.
SameKey(j, k) == IF driver = "entdb" THEN CompositeKey(j) = CompositeKey(k) ELSE j = k

Present == {id \in IDs : rows[id] # NoRow}
WithKey(k) == {id \in Present : SameKey(rows[id].key, k)}
OfUser(tenant, user) == {id \in Present : rows[id].key[1] = tenant /\ rows[id].key[2] = user}
Unread(ids) == {id \in ids : rows[id].status # "read"}

RowTypeOK ==
    /\ driver \in Drivers
    /\ rows \in [IDs -> Row \cup {NoRow}]
    /\ step \in [Clients -> {"idle", "find", "update", "write", "count", "node",
                             "findDevice", "rotate", "readBack"}]
    /\ \A c \in Clients : step[c] = "idle" <=> call[c] = NoCall

RowInit ==
    /\ driver \in Drivers
    /\ rows = [id \in IDs |-> NoRow]
    /\ step = [c \in Clients |-> "idle"]
    /\ call = [c \in Clients |-> NoCall]
    /\ out = NoCall

-----------------------------------------------------------------------------
(* The steps of a call.  A call starts with its first statement.           *)

Goto(c, next, locals) ==
    /\ step' = [step EXCEPT ![c] = next]
    /\ call' = [call EXCEPT ![c] = locals]
    /\ out' = NoCall

Return(c, result) ==
    /\ step' = [step EXCEPT ![c] = "idle"]
    /\ call' = [call EXCEPT ![c] = NoCall]
    /\ out' = result

\* The window of a query in flight when the rows become new: which rows were
\* unread all through it, and which at some moment of it.
Watch(q, new) ==
    LET unread == {id \in IDs : /\ new[id] # NoRow /\ new[id].status # "read"
                                /\ new[id].key[1] = q.ask.tenant /\ new[id].key[2] = q.ask.user}
    IN  [q EXCEPT !.always = @ \cap unread, !.ever = @ \cup unread]

\* The last statement of c's call writes the rows and returns.
Commit(c, new, result) ==
    /\ rows' = new
    /\ step' = [step EXCEPT ![c] = "idle"]
    /\ call' = [d \in Clients |-> IF d = c THEN NoCall
                                  ELSE IF call[d].op = "query" THEN Watch(call[d], new)
                                  ELSE call[d]]
    /\ out' = result

-----------------------------------------------------------------------------
(* CreateNotification.                                                     *)

\* The insert (INSERT ... ON CONFLICT DO NOTHING, commitCreate) applies, or
\* meets the row: memory answers at once, the others look the stored id up with
\* a second statement.
Create(c, k, at) ==
    /\ step[c] = "idle"
    /\ \/ /\ WithKey(k) = {}
          /\ \E id \in IDs \ Present : Commit(c, [rows EXCEPT ![id] = NewRow(k, "in_app", at)],
                                              [op |-> "create", key |-> k, id |-> id])
       \/ /\ driver = "memory"
          /\ \E id \in WithKey(k) : Return(c, [op |-> "create", key |-> k, id |-> id])
          /\ UNCHANGED rows
       \/ /\ driver # "memory" /\ WithKey(k) # {}
          /\ Goto(c, "find", [op |-> "create", key |-> k])
          /\ UNCHANGED rows
    /\ UNCHANGED driver

\* The select of the stored row, findNotificationByKey.  Without a match the
\* call returns an error.
FindExisting(c) ==
    LET k == call[c].key
    IN  /\ step[c] = "find"
        /\ IF WithKey(k) = {}
             THEN Return(c, [op |-> "unresolved"])
             ELSE \E id \in WithKey(k) : Return(c, [op |-> "create", key |-> k, id |-> id])
        /\ UNCHANGED <<driver, rows>>

-----------------------------------------------------------------------------
(* GetNotification and UpdateStatus.                                       *)

\* A malformed id is answered like one that finds nothing.
isInvalidUUID(id) == id = BadID

\* A row of the tenant is found under this id.
Finds(tenant, id) == ~isInvalidUUID(id) /\ id \in Present /\ rows[id].key[1] = tenant

\* GetNotification is scoped to the user as well.
Owns(tenant, user, id) == Finds(tenant, id) /\ rows[id].key[2] = user

\* An acknowledgement: GetNotification comes first.
Get(c, tenant, user, id) ==
    /\ step[c] = "idle"
    /\ IF Owns(tenant, user, id)
         THEN Goto(c, "update", [op |-> "read", tenant |-> tenant, user |-> user, id |-> id])
         ELSE Return(c, NoCall)
    /\ UNCHANGED <<driver, rows>>

\* Mutant: the patch names every timestamp field, so that zeros are written.
PatchedAll(u) ==
    [rows[u.id] EXCEPT !.status = u.op,
        !.deliveredAt = IF u.op = "delivered" THEN MaxTime ELSE 0,
        !.readAt = IF u.op = "read" THEN MaxTime ELSE 0]

\* The row with the fields of the update replaced.
Patched(u) == Stamped(rows[u.id], u.op, MaxTime)

\* UpdateStatus in one statement, or the lookup that precedes entdb's patch.
UpdateStatus(c, u) ==
    /\ \/ ~Finds(u.tenant, u.id) /\ Return(c, NoCall) /\ UNCHANGED rows
       \/ /\ Finds(u.tenant, u.id) /\ driver # "entdb"
          /\ Commit(c, [rows EXCEPT ![u.id] = Patched(u)], u)
       \/ /\ Finds(u.tenant, u.id) /\ driver = "entdb"
          /\ Goto(c, "write", u)
          /\ UNCHANGED rows
    /\ UNCHANGED driver

\* The update of an acknowledgement.
Ack(c) == step[c] = "update" /\ UpdateStatus(c, call[c])

\* Notify records a delivery.
RecordDelivery(c, tenant, id) ==
    /\ step[c] = "idle"
    /\ UpdateStatus(c, [op |-> "delivered", tenant |-> tenant, id |-> id])

\* commitUpdateFields: only the status and its stamp go on the wire.
Write(c) ==
    /\ step[c] = "write"
    /\ Commit(c, [rows EXCEPT ![call[c].id] = Patched(call[c])], call[c])
    /\ UNCHANGED driver

-----------------------------------------------------------------------------
(* QueryUserNotifications.                                                 *)

\* The page's filter over rows read as f: id -> row; cursor 0 is none.
Matching(f, q) ==
    {id \in DOMAIN f : /\ q.unreadOnly => f[id].status # "read"
                       /\ q.cursor # 0 => f[id].createdAt < q.cursor}

Newer(f, i, j) ==
    f[i].createdAt > f[j].createdAt \/ (f[i].createdAt = f[j].createdAt /\ i > j)

\* The first Limit of the matching rows; a longer match leaves a cursor.
Page(f, ids) == {i \in ids : Cardinality({j \in ids : Newer(f, j, i)}) < Limit}

Listing(q, f, unread) ==
    LET ids == Matching(f, q.ask)
    IN  [op |-> "query", cursor |-> q.ask.cursor, always |-> q.always, ever |-> Cardinality(q.ever),
         items |-> Page(f, ids), more |-> ids # Page(f, ids), unread |-> unread]

\* A query in flight: the rows it has read, and the ids it still has to read.
Asked(ask, read, todo) ==
    LET unread == Unread(OfUser(ask.tenant, ask.user))
    IN  [op |-> "query", ask |-> ask, read |-> read, todo |-> todo, always |-> unread, ever |-> unread]

\* memory: the whole query.  postgres: the page.  entdb: the nodes to be read.
Query(c, ask) ==
    LET mine == OfUser(ask.tenant, ask.user)
        f == [id \in mine |-> rows[id]]
    IN  /\ step[c] = "idle"
        /\ \/ driver = "memory" /\ Return(c, Listing(Asked(ask, f, {}), f, Cardinality(Unread(mine))))
           \/ driver = "postgres" /\ Goto(c, "count", Asked(ask, f, {}))
           \/ driver = "entdb" /\ Goto(c, "node", Asked(ask, <<>>, mine))
        /\ UNCHANGED <<driver, rows>>

\* Mutant: the count is taken over every user of the tenant.
CountEveryone(c) ==
    /\ step[c] = "count"
    /\ Return(c, Listing(call[c], call[c].read, Cardinality(Unread(Present))))
    /\ UNCHANGED <<driver, rows>>

\* postgres: count(*) of the unread rows, a statement of its own.
Count(c) ==
    /\ step[c] = "count"
    /\ Return(c, Listing(call[c], call[c].read,
                         Cardinality(Unread(OfUser(call[c].ask.tenant, call[c].ask.user)))))
    /\ UNCHANGED <<driver, rows>>

\* entdb: the next node is read by its id.
NodeRead(q, id) ==
    [q EXCEPT !.read = [i \in DOMAIN q.read \cup {id} |-> IF i = id THEN rows[id] ELSE q.read[i]],
              !.todo = q.todo \ {id}]

ReadNode(c) ==
    /\ step[c] = "node"
    /\ \E id \in call[c].todo : Goto(c, "node", NodeRead(call[c], id))
    /\ UNCHANGED <<driver, rows>>

\* entdb: page and count come from the same reads.
Assemble(c) ==
    LET f == call[c].read
    IN  /\ step[c] = "node" /\ call[c].todo = {}
        /\ Return(c, Listing(call[c], f, Cardinality({id \in DOMAIN f : f[id].status # "read"})))
        /\ UNCHANGED <<driver, rows>>

\* A statement fails; the call returns the error.
CallFails(c) ==
    /\ step[c] # "idle"
    /\ Return(c, NoCall)
    /\ UNCHANGED <<driver, rows>>
=============================================================================
