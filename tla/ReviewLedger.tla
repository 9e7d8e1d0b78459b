---------------------------- MODULE ReviewLedger ----------------------------
(***************************************************************************)
(* What the review of a manufacturing drawing promises: a ledger with one  *)
(* entry per version.  A request takes effect at one instant, only if it   *)
(* expected the version that is then current, only by a transition the     *)
(* current status allows, and never twice.  An approved or rejected        *)
(* drawing takes no further entry, and no entry is ever taken back.        *)
(***************************************************************************)
EXTENDS Naturals, Sequences

CONSTANTS Requests, Asks

VARIABLES
  ask,      \* what each request asks for
  ledger    \* the requests that took effect, oldest first

(* The status after a sequence of entries.                                 *)
StatusAfter(entries) ==
  IF entries = <<>> THEN "draft"
  ELSE CASE ask[entries[Len(entries)]].action = "submit"  -> "in_review"
         [] ask[entries[Len(entries)]].action = "approve" -> "approved"
         [] OTHER                                         -> "rejected"

Allowed(status, action) ==
  \/ status = "draft" /\ action = "submit"
  \/ status = "in_review" /\ action \in {"approve", "reject"}

Init == ask \in [Requests -> Asks] /\ ledger = <<>>

Enter(r) ==
  /\ ask[r].expected = Len(ledger)
  /\ Allowed(StatusAfter(ledger), ask[r].action)
  /\ ledger' = Append(ledger, r)
  /\ UNCHANGED ask

Next == \E r \in Requests : Enter(r)

Spec == Init /\ [][Next]_<<ask, ledger>>

=============================================================================
