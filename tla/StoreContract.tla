---------------------------- MODULE StoreContract ----------------------------
(***************************************************************************)
(* What notify.Store promises about notification rows (store.go:18-32),    *)
(* without ids, indexes or locks: a mailbox with at most one row per       *)
(* (tenant, user, notification id).  A row appears once, keeps its key,    *)
(* its channel and its creation time for ever, and only changes by         *)
(* UpdateStatus.                                                           *)
(***************************************************************************)
EXTENDS NotificationModel

CONSTANT NoRow

VARIABLE box         \* Key -> its row, or NoRow

Init == box = [k \in Key |-> NoRow]

\* A CreateNotification that inserts; a repeated one leaves the row unchanged.
Insert(k) ==
    /\ box[k] = NoRow
    /\ \E kind \in Channels, at \in Stamp :
         box' = [box EXCEPT ![k] = NewRow(k, kind, at)]

SetStatus(k) ==
    /\ box[k] # NoRow
    /\ \E status \in Status, at \in Stamp :
         box' = [box EXCEPT ![k] = Stamped(box[k], status, at)]

Next == \E k \in Key : Insert(k) \/ SetStatus(k)

Spec == Init /\ [][Next]_box
=============================================================================
