--------------------------- MODULE RestoreLedger ---------------------------
(***************************************************************************)
(* What the linked-restore executor promises, without tokens, fences,      *)
(* processes or retries.  Every restore is an obligation that stays open   *)
(* until it is settled, and a device carries out at most one restore       *)
(* command at a time, only for an obligation that is still open.           *)
(*                                                                         *)
(* RestoreOwnership shows that the claims, the session fence and the       *)
(* drainage evidence of the real executor implement this ledger, whatever  *)
(* crashes and fence losses happen.                                        *)
(***************************************************************************)
CONSTANTS
  Action,       \* linked restores: plan_actions rows with reverts_action_id
  Device,       \* device identities
  NoDevice,     \* the NULL device_id of a legacy row
  DeviceOf,     \* DeviceOf[a]: the device a restore is about
  Quiet         \* "no command in progress"

VARIABLES
  open,         \* obligations not settled yet
  busy          \* busy[d]: the restore whose command device d is executing

ledgerVars == <<open, busy>>

LedgerTypeOK ==
  /\ open \in SUBSET Action
  /\ busy \in [Device -> Action \cup {Quiet}]

LedgerInit ==
  /\ open = Action
  /\ busy = [d \in Device |-> Quiet]

\* A command goes out for an open obligation, to a device that has none.
Begin(a) ==
  /\ a \in open
  /\ DeviceOf[a] \in Device
  /\ busy[DeviceOf[a]] = Quiet
  /\ busy' = [busy EXCEPT ![DeviceOf[a]] = a]
  /\ UNCHANGED open

\* The command ends: it returned, failed, was cancelled, or its process died.
End(D) ==
  /\ D # {}
  /\ \A d \in D : busy[d] # Quiet
  /\ busy' = [d \in Device |-> IF d \in D THEN Quiet ELSE busy[d]]
  /\ UNCHANGED open

\* The obligation is settled, with no command of its own under way.
Settle(a) ==
  /\ a \in open
  /\ \A d \in Device : busy[d] # a
  /\ open' = open \ {a}
  /\ UNCHANGED busy

LedgerNext ==
  \/ \E a \in Action : Begin(a) \/ Settle(a)
  \/ \E D \in SUBSET Device : End(D)

LedgerSpec == LedgerInit /\ [][LedgerNext]_ledgerVars
=============================================================================
