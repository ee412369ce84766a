--------------------------- MODULE DeviceDiscovery ---------------------------
(***************************************************************************)
(* DeviceManager.get_devices: the cached device list of one client, asked  *)
(* for by concurrent tasks that may fail or be cancelled and ask again.    *)
(* AquareaService keeps one client for the life of its process.            *)
(***************************************************************************)
EXTENDS Naturals, Sequences

CONSTANTS
  Task,        \* callers of get_devices
  Listing      \* the devices of the account, as the cloud lists them

VARIABLES
  devices,     \* _devices: whether it is set, and the list
  caller       \* what each task is doing and what it was told

vars == <<devices, caller>>

Init ==
  /\ devices = [set |-> FALSE, list |-> <<>>]
  /\ caller = [t \in Task |-> [at |-> "idle", told |-> <<>>]]

\* A list that is set is returned as it is; otherwise it is set to the empty
\* list and requested.
Ask(t) ==
  /\ caller[t].at # "waiting"
  /\ devices' = [devices EXCEPT !.set = TRUE]
  /\ caller' = [caller EXCEPT ![t] = IF devices.set
                                       THEN [at |-> "answered", told |-> devices.list]
                                       ELSE [at |-> "waiting", told |-> <<>>]]

\* The answer arrives and is appended, and the whole list returned.
Listed(t) ==
  /\ caller[t].at = "waiting"
  /\ devices' = [devices EXCEPT !.list = @ \o Listing]
  /\ caller' = [caller EXCEPT ![t] = [at |-> "answered", told |-> devices'.list]]

\* The request fails, cannot be built, or the caller is cancelled.
Fails(t) ==
  /\ caller[t].at = "waiting"
  /\ caller' = [caller EXCEPT ![t] = [at |-> "raised", told |-> <<>>]]
  /\ UNCHANGED devices

Next == \E t \in Task : Ask(t) \/ Listed(t) \/ Fails(t)

Spec == Init /\ [][Next]_vars

-----------------------------------------------------------------------------
\* A call that returns, rather than raises, has the device list of the account.
AnswersAreTheListing == \A t \in Task : caller[t].at = "answered" => caller[t].told = Listing
=============================================================================
