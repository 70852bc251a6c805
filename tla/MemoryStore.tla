----------------------------- MODULE MemoryStore -----------------------------
(***************************************************************************)
(* The notification half of the in-process store, store/memory/store.go.   *)
(* Every method runs under s.mu, so each operator below is one atomic step *)
(* of the caller that conjoins it.                                         *)
(***************************************************************************)
EXTENDS NotificationModel

CONSTANTS IDs,       \* the UUIDs the store assigns
          NoRow,     \* no row under this id
          NoID       \* no id under this key

ASSUME StoreConstants == NoID \notin IDs /\ NoRow \notin Row

VARIABLES notifications,   \* s.notifications: id -> row
          notifByKey       \* s.notifByKey: key -> id

storeVars == <<notifications, notifByKey>>

StoreTypeOK ==
    /\ notifications \in [IDs -> Row \cup {NoRow}]
    /\ notifByKey \in [Key -> IDs \cup {NoID}]

StoreInit ==
    /\ notifications = [id \in IDs |-> NoRow]
    /\ notifByKey = [k \in Key |-> NoID]

\* Mutant: the secondary index is not written.
CreateNotificationUnindexed(n, id) ==
    \/ /\ notifByKey[n.key] # NoID
       /\ id = notifByKey[n.key]
       /\ UNCHANGED storeVars
    \/ /\ notifByKey[n.key] = NoID
       /\ id \in IDs
       /\ notifications[id] = NoRow
       /\ notifications' = [notifications EXCEPT ![id] = n]
       /\ UNCHANGED notifByKey

\* Mutant: a repeated create replaces the stored row (an upsert).
CreateNotificationUpsert(n, id) ==
    /\ \/ notifByKey[n.key] # NoID /\ id = notifByKey[n.key]
       \/ notifByKey[n.key] = NoID /\ id \in IDs /\ notifications[id] = NoRow
    /\ notifications' = [notifications EXCEPT ![id] = n]
    /\ notifByKey' = [notifByKey EXCEPT ![n.key] = id]

\* CreateNotification(n) leaving n.ID = id.  A repeated key returns the stored
\* row's id and writes nothing; a new row gets a fresh UUID (no caller of the
\* service presets n.ID).
CreateNotification(n, id) ==
    \/ /\ notifByKey[n.key] # NoID
       /\ id = notifByKey[n.key]
       /\ UNCHANGED storeVars
    \/ /\ notifByKey[n.key] = NoID
       /\ id \in IDs
       /\ notifications[id] = NoRow
       /\ notifications' = [notifications EXCEPT ![id] = n]
       /\ notifByKey' = [notifByKey EXCEPT ![n.key] = id]

\* GetNotification(tenant, user, id) finds the row.
GetFinds(tenant, user, id) ==
    /\ notifications[id] # NoRow
    /\ notifications[id].key[1] = tenant
    /\ notifications[id].key[2] = user

\* UpdateStatus(tenant, id, status, at) that finds the row; every other call
\* returns ErrNotFound and changes nothing.
UpdateStatus(tenant, id, status, at) ==
    /\ notifications[id] # NoRow
    /\ notifications[id].key[1] = tenant
    /\ notifications' = [notifications EXCEPT ![id] = Stamped(notifications[id], status, at)]
    /\ UNCHANGED notifByKey

-----------------------------------------------------------------------------
\* The two maps agree: every indexed id is a row with that key, and every row
\* is indexed, so (tenant, user, notification id) names at most one row
\* (model.go:54-55) however creates and retries interleave.
IndexConsistent ==
    /\ \A k \in Key : notifByKey[k] # NoID =>
          notifications[notifByKey[k]] # NoRow /\ notifications[notifByKey[k]].key = k
    /\ \A id \in IDs : notifications[id] # NoRow =>
          notifByKey[notifications[id].key] = id

\* The contract's mailbox, read through the index.
Mailbox == [k \in Key |-> IF notifByKey[k] = NoID THEN NoRow ELSE notifications[notifByKey[k]]]

Contract == INSTANCE StoreContract WITH box <- Mailbox
=============================================================================
