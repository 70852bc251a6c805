------------------------------- MODULE Stores -------------------------------
(***************************************************************************)
(* Concurrent callers of one configured store driver.  The notification    *)
(* and the device table share nothing, so a behaviour works on one of them.*)
(***************************************************************************)
EXTENDS DurableDevices

VARIABLE table      \* the table the callers work on

vars == <<driver, rowVars, deviceVars, table>>

Init == RowInit /\ DeviceInit /\ table \in {"notifications", "devices"}

RowNext(c) ==
    /\ table = "notifications"
    /\ \/ \E p \in Creates : Create(c, p[1], p[2])
       \/ \E t \in Tenants, u \in Users, id \in IDs \cup {BadID} : Get(c, t, u, id)
       \/ \E t \in Tenants, id \in IDs : RecordDelivery(c, t, id)
       \/ \E q \in Queries : Query(c, q)
       \/ FindExisting(c) \/ Ack(c) \/ Write(c) \/ Count(c) \/ ReadNode(c) \/ Assemble(c)
    /\ UNCHANGED <<deviceVars, table>>

DeviceNext(c) ==
    /\ table = "devices"
    /\ \/ \E u \in Users, type \in DeviceTypes : RegisterPushToken(c, u, type)
       \/ FindDevice(c) \/ Rotate(c) \/ ReadBack(c)
    /\ UNCHANGED table

Fails(c) == CallFails(c) /\ UNCHANGED <<deviceVars, table>>

Next == \E c \in Clients : RowNext(c) \/ DeviceNext(c) \/ Fails(c)

Spec == Init /\ [][Next]_vars

-----------------------------------------------------------------------------
TypeOK == RowTypeOK /\ DeviceTypeOK

\* A create that returns an id returns the one row stored under its key, also
\* when it lost the race for the insert and found the row with a second
\* statement, and also for keys whose parts contain the separator.
CreateReturnsStoredRow ==
    out.op = "create" => {id \in Present : rows[id].key = out.key} = {out.id}

\* The second statement always finds the row the first one collided with:
\* "unique constraint hit but key not resolvable" is never returned.
ConflictResolves == out.op # "unresolved"

\* The unread count of a reply lies between the rows that were unread all
\* through the query and those that were unread at some moment of it, although
\* postgres counts in a second statement and entdb reads row by row.
UnreadWithinWindow ==
    out.op = "query" =>
        /\ Cardinality(out.always) <= out.unread
        /\ out.unread <= out.ever

\* A page has no holes: a row that was unread all through the query, on the
\* cursor's side, is listed unless Limit newer ones are.
PageHasNoHoles ==
    out.op = "query" =>
        \A id \in out.always :
            (out.cursor = 0 \/ rows[id].createdAt < out.cursor) =>
                \/ id \in out.items
                \/ out.more /\ \A i \in out.items : Newer(rows, i, id)

\* Only the owner of a row acknowledges it, although UpdateStatus takes no
\* user: GetNotification has scoped the id before.
ReadOnlyByOwner ==
    out.op = "read" => rows[out.id].key[2] = out.user

\* A registration returns its own token or one registered after it, never one
\* that it replaced.
RegisterReturnsOwnOrLater == out.op = "registered" => out.token \in since[out.client]

\* What the drivers answer to a write is true of the store when they answer,
\* however the statements of two calls interleave: all of the above about
\* creates, acknowledgements and registrations.
WritesAreAnsweredTruly ==
    /\ TypeOK
    /\ CreateReturnsStoredRow
    /\ ConflictResolves
    /\ ReadOnlyByOwner
    /\ RegisterReturnsOwnOrLater

\* What a query answers, page and count, fits the time it took.
QueryFitsItsWindow == UnreadWithinWindow /\ PageHasNoHoles

Mailbox == [k \in Key |-> LET ids == {id \in Present : rows[id].key = k}
                          IN  IF ids = {} THEN NoRow ELSE rows[CHOOSE id \in ids : TRUE]]
Rows == INSTANCE StoreContract WITH box <- Mailbox

\* Whatever the driver, the rows are the contract's mailbox: Rows!Spec, where a
\* step that leaves the rows alone is known to leave the mailbox alone.
ImplementsStoreContract == Rows!Init /\ [][rows' # rows => Rows!Next]_Mailbox

\* Whatever the driver, and however registrations of one device race, each is
\* one atomic registration of the contract.
ImplementsDeviceContract == C!Spec
=============================================================================
