---------------------------- MODULE DurableJob ----------------------------
(***************************************************************************)
(* What the queue and its workers promise to a client, without the table,  *)
(* the leases, the processes and their manifests: a job that was accepted  *)
(* stays open until it is settled once and for all.  It is attempted at    *)
(* most MaxAttempts times and never after it was cancelled; it completes   *)
(* or fails only after an attempt; it is cancelled if, and only if, the    *)
(* user asked for that before it was settled.                              *)
(***************************************************************************)
EXTENDS Naturals, FiniteSets

CONSTANTS Jobs, MaxPending, MaxAttempts

VARIABLES
  phase,   \* "none", "open" or how the job was settled
  asked,   \* whether its cancellation was asked for while it was open
  tries    \* attempts begun

jobVars == <<phase, asked, tries>>

Settled == {"completed", "failed", "cancelled"}
Open    == {j \in Jobs : phase[j] = "open"}

Init ==
  /\ phase = [j \in Jobs |-> "none"]
  /\ asked = [j \in Jobs |-> FALSE]
  /\ tries = [j \in Jobs |-> 0]

Submit(j) ==
  /\ phase[j] = "none"
  /\ Cardinality(Open) < MaxPending
  /\ phase' = [phase EXCEPT ![j] = "open"]
  /\ UNCHANGED <<asked, tries>>

(* A job that is not being attempted is cancelled at once.                 *)
Ask(j) ==
  /\ j \in Open
  /\ asked' = [asked EXCEPT ![j] = TRUE]
  /\ \/ UNCHANGED phase
     \/ phase' = [phase EXCEPT ![j] = "cancelled"]
  /\ UNCHANGED tries

Settle(j) ==
  /\ j \in Open
  /\ tries[j] > 0
  /\ \E outcome \in IF asked[j] THEN {"cancelled"} ELSE {"completed", "failed"} :
       phase' = [phase EXCEPT ![j] = outcome]
  /\ UNCHANGED <<asked, tries>>

(* The jobs in lost are given up together: their last attempt vanished.    *)
GivenUp(lost) ==
  [j \in Jobs |-> IF j \notin lost THEN phase[j]
                  ELSE IF asked[j] THEN "cancelled" ELSE "failed"]

Lost == {j \in Open : tries[j] > 0 /\ (asked[j] \/ tries[j] = MaxAttempts)}

GiveUp(lost) ==
  /\ phase' = GivenUp(lost)
  /\ UNCHANGED <<asked, tries>>

Attempt(j, lost) ==
  /\ j \in Open \ lost
  /\ ~asked[j]
  /\ tries[j] < MaxAttempts
  /\ phase' = GivenUp(lost)
  /\ tries' = [tries EXCEPT ![j] = @ + 1]
  /\ UNCHANGED asked

Next ==
  \/ \E j \in Jobs : Submit(j) \/ Ask(j) \/ Settle(j)
  \/ \E lost \in SUBSET Lost :
       GiveUp(lost) \/ \E j \in Jobs : Attempt(j, lost)

SafeSpec == Init /\ [][Next]_jobVars

(* Every open job is settled in the end, and as cancelled if it was asked. *)
Promise ==
  \A j \in Jobs :
    /\ (phase[j] = "open") ~> (phase[j] \in Settled)
    /\ asked[j] ~> (phase[j] = "cancelled")

Spec == SafeSpec /\ Promise

=============================================================================
