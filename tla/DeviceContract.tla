--------------------------- MODULE DeviceContract ---------------------------
(***************************************************************************)
(* What notify.Store promises about push registrations (store.go,          *)
(* model.go:80-82): one device per (tenant, user, device type); a          *)
(* registration replaces token and last-active time together and keeps     *)
(* the creation time of the first.                                         *)
(***************************************************************************)
CONSTANTS DeviceKeys, Clients, NoDevice

VARIABLE registered      \* key -> its device, or NoDevice

\* A device's fields, each named by the client whose call supplied it.
Device == [token : Clients, lastActive : Clients, createdAt : Clients]

Fresh(c) == [token |-> c, lastActive |-> c, createdAt |-> c]
Rotated(d, c) == [d EXCEPT !.token = c, !.lastActive = c]

Init == registered = [k \in DeviceKeys |-> NoDevice]

Register(k, c) ==
    registered' = [registered EXCEPT ![k] = IF @ = NoDevice THEN Fresh(c) ELSE Rotated(@, c)]

Next == \E k \in DeviceKeys, c \in Clients : Register(k, c)

Spec == Init /\ [][Next]_registered
=============================================================================
