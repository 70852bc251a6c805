--------------------------- MODULE DurableDevices ---------------------------
(***************************************************************************)
(* Push registrations in the three store drivers, called by the            *)
(* RegisterPushToken handler.  memory and postgres upsert in one step;     *)
(* entdb creates, and on a conflict looks the row up, patches it and reads *)
(* it back, with nothing held between the calls.                           *)
(***************************************************************************)
EXTENDS DurableRows

CONSTANTS DeviceTypes,      \* wire device types, "unspecified" among them
          NoDevice

ASSUME DeviceConstants == NoDevice \notin [token : Clients, lastActive : Clients, createdAt : Clients]

VARIABLES devices,    \* <<user, device type>> -> the row, or NoDevice
          since       \* history: client -> whose tokens were written since its own

deviceVars == <<devices, since>>

\* deviceTypeFromProto: the unspecified type is refused by the handler.
Accepted == DeviceTypes \ {"unspecified"}
DeviceKeys == Users \X Accepted

C == INSTANCE DeviceContract WITH registered <- devices

DeviceTypeOK ==
    /\ devices \in [DeviceKeys -> C!Device \cup {NoDevice}]
    /\ since \in [Clients -> SUBSET Clients]

DeviceInit ==
    /\ devices = [k \in DeviceKeys |-> NoDevice]
    /\ since = [c \in Clients |-> {}]

-----------------------------------------------------------------------------
\* The device row is written with c's values.
Put(k, d, c) ==
    /\ devices' = [devices EXCEPT ![k] = d]
    /\ since' = [e \in Clients |->
                    IF e = c THEN {c}
                    ELSE IF call[e].op = "register" /\ call[e].key = k /\ since[e] # {}
                      THEN since[e] \cup {c} ELSE since[e]]

Registered(c, token) == [op |-> "registered", client |-> c, token |-> token]

\* Whole in memory and postgres, the optimistic commitCreate in entdb.
UpsertDevice(c, k) ==
    /\ step[c] = "idle"
    /\ \/ /\ driver # "entdb"
          /\ Put(k, IF devices[k] = NoDevice THEN C!Fresh(c) ELSE C!Rotated(devices[k], c), c)
          /\ Return(c, Registered(c, c))
       \/ /\ driver = "entdb" /\ devices[k] = NoDevice
          /\ Put(k, C!Fresh(c), c)
          /\ Goto(c, "readBack", [op |-> "register", key |-> k])
       \/ /\ driver = "entdb" /\ devices[k] # NoDevice
          /\ Goto(c, "findDevice", [op |-> "register", key |-> k])
          /\ since' = [since EXCEPT ![c] = {}]
          /\ UNCHANGED devices
    /\ UNCHANGED <<driver, rows>>

\* The handler refuses a call without a device type, or without a token.
RegisterPushToken(c, user, type) == type \in Accepted /\ UpsertDevice(c, <<user, type>>)

\* findDeviceByKey: rows are never deleted, so the conflict resolves.
FindDevice(c) ==
    /\ step[c] = "findDevice"
    /\ IF devices[call[c].key] = NoDevice
         THEN Return(c, [op |-> "unresolved"]) ELSE Goto(c, "rotate", call[c])
    /\ UNCHANGED <<driver, rows, deviceVars>>

\* Mutant: the conflicting row is replaced, creation time and all.
RotateAll(c) ==
    /\ step[c] = "rotate"
    /\ Put(call[c].key, C!Fresh(c), c)
    /\ Goto(c, "readBack", call[c])
    /\ UNCHANGED <<driver, rows>>

\* commitUpdateFields of token and last_active_ms.
Rotate(c) ==
    /\ step[c] = "rotate"
    /\ Put(call[c].key, C!Rotated(devices[call[c].key], c), c)
    /\ Goto(c, "readBack", call[c])
    /\ UNCHANGED <<driver, rows>>

\* readDeviceBack returns what is stored now.
ReadBack(c) ==
    /\ step[c] = "readBack"
    /\ Return(c, Registered(c, devices[call[c].key].token))
    /\ UNCHANGED <<driver, rows, deviceVars>>
=============================================================================
