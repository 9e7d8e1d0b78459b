---------------------------- MODULE RendererRun ----------------------------
(***************************************************************************)
(* Renderer._run of app/services/renderer.py on POSIX, under the render    *)
(* slots of JobService._materialize: threads of one process that start a   *)
(* CAD kernel as the leader of a new session, watch it, and end its        *)
(* process group when the job is cancelled or a limit is passed.           *)
(*                                                                         *)
(* The kernel may start descendants, hang, or exit before them.  Leaders   *)
(* and descendants act between any two statements of the watching thread.  *)
(*                                                                         *)
(* A server renders for requests that nobody can cancel, several at once.  *)
(* A worker renders for queued jobs, which can be cancelled, one by one.   *)
(***************************************************************************)
EXTENDS Naturals, FiniteSets

CONSTANTS
  Renders,      \* calls of Renderer.render
  Slots,        \* render_concurrency
  CheckRaises   \* whether cancel_check may raise (its database is locked)

ASSUME SlotAssumption == Slots \in Nat \ {0} /\ CheckRaises \in BOOLEAN

VARIABLES
  role,       \* "server" or "worker": the process that renders
  pc,         \* where the thread of each call is
  ended,      \* what ended the watch over the child
  outcome,    \* how the call ends
  leader,     \* the process Popen started
  kids,       \* its descendants, as one
  cancelled,  \* calls whose job a user has cancelled
  passed      \* limits each child is beyond: "time", "output"

vars == <<role, pc, ended, outcome, leader, kids, cancelled, passed>>

Init ==
  /\ role \in {"server", "worker"}
  /\ pc = [c \in Renders |-> "waiting"]
  /\ ended = [c \in Renders |-> "not"]
  /\ outcome = [c \in Renders |-> "none"]
  /\ leader = [c \in Renders |-> "none"]
  /\ kids = [c \in Renders |-> "none"]
  /\ cancelled = {}
  /\ passed = [c \in Renders |-> {}]

Goto(c, label) == pc' = [pc EXCEPT ![c] = label]

EndWatch(c, why) == ended' = [ended EXCEPT ![c] = why]

Result(c, text) == outcome' = [outcome EXCEPT ![c] = text]

processes == <<leader, kids>>
requests  == <<role, cancelled, passed>>

----------------------------------------------------------------------------
(* The slot and the start                                                  *)

Holding == {c \in Renders : pc[c] \notin {"waiting", "over"}}

(* Planted fault: a slot more than there are.                              *)
BugSlotFree == Cardinality(Holding) <= Slots

SlotFree == Cardinality(Holding) < Slots

(* process_next returns before it is called again.                         *)
TakeSlot(c) ==
  /\ pc[c] = "waiting"
  /\ SlotFree
  /\ role = "worker" => Holding = {}
  /\ Goto(c, "start")
  /\ UNCHANGED <<ended, outcome, processes, requests>>

(* Planted fault: any answer of the check counts as a yes.                 *)
BugAsked(c, yes, no) == yes

(* cancel_check, when it answers; a server has none, and no cancelled call. *)
Asked(c, yes, no) ==
  \/ c \in cancelled /\ yes
  \/ c \notin cancelled /\ no

CheckFails == CheckRaises /\ role = "worker"

CheckBefore(c) ==
  /\ pc[c] = "start"
  /\ \/ Asked(c, Result(c, "cancelled") /\ Goto(c, "over"),
                 UNCHANGED outcome /\ Goto(c, "spawn"))
     \/ CheckFails /\ Result(c, "error") /\ Goto(c, "over")
  /\ UNCHANGED <<ended, processes, requests>>

Spawn(c) ==           \* Popen, which may fail
  /\ pc[c] = "spawn"
  /\ \/ /\ leader' = [leader EXCEPT ![c] = "running"]
        /\ Goto(c, "poll")
        /\ UNCHANGED outcome
     \/ Result(c, "error") /\ Goto(c, "cleanup") /\ UNCHANGED leader
  /\ UNCHANGED <<ended, kids, requests>>

----------------------------------------------------------------------------
(* The loop                                                                *)

Poll(c) ==
  /\ pc[c] = "poll"
  /\ IF leader[c] = "running"
     THEN Goto(c, "ask") /\ UNCHANGED ended
     ELSE Goto(c, "collect") /\ EndWatch(c, "exit")
  /\ UNCHANGED <<outcome, processes, requests>>

(* An exception of the check leaves the loop: nothing ends the child.      *)
Ask(c) ==
  /\ pc[c] = "ask"
  /\ \/ Asked(c, /\ Goto(c, "kill") /\ EndWatch(c, "cancel")
                 /\ Result(c, "cancelled"),
                 Goto(c, "limits") /\ UNCHANGED <<ended, outcome>>)
     \/ /\ CheckFails
        /\ Goto(c, "cleanup") /\ EndWatch(c, "raise") /\ Result(c, "error")
  /\ UNCHANGED <<processes, requests>>

(* Planted fault: only the console output is watched.                      *)
BugBeyond(c) == passed[c] \cap {"output"}

Beyond(c) == passed[c]

Limits(c) ==
  /\ pc[c] = "limits"
  /\ IF Beyond(c) = {}
     THEN Goto(c, "poll") /\ UNCHANGED <<ended, outcome>>
     ELSE Goto(c, "kill") /\ EndWatch(c, "limit") /\ Result(c, "failed")
  /\ UNCHANGED <<processes, requests>>

----------------------------------------------------------------------------
(* The end of the child                                                    *)

Dead(state) == IF state = "running" THEN "killed" ELSE state

(* Planted fault: only the leader is killed, as Popen.kill would.          *)
BugKill(c) ==
  /\ pc[c] = "kill"
  /\ leader' = [leader EXCEPT ![c] = Dead(@)]
  /\ Goto(c, "cleanup")
  /\ UNCHANGED <<ended, outcome, kids, requests>>

(* _terminate_process_tree looks once more whether the leader still runs:  *)
(* SIGKILL to the whole group, or nothing.  Then it waits for the leader.  *)
Kill(c) ==
  /\ pc[c] = "kill"
  /\ IF leader[c] = "running"
     THEN /\ leader' = [leader EXCEPT ![c] = "killed"]
          /\ kids' = [kids EXCEPT ![c] = Dead(@)]
     ELSE UNCHANGED processes
  /\ Goto(c, "cleanup")
  /\ UNCHANGED <<ended, outcome, requests>>

(* Return code and console output of a child that exited.                  *)
Collect(c) ==
  /\ pc[c] = "collect"
  /\ \/ leader[c] = "exited" /\ "output" \notin passed[c] /\ Result(c, "ok")
     \/ Result(c, "failed")
  /\ Goto(c, "cleanup")
  /\ UNCHANGED <<ended, processes, requests>>

Alive(c) == "running" \in {leader[c], kids[c]}

(* The staging directory is removed, under whatever still runs in it; the  *)
(* removal may then fail.  The slot is free again.                         *)
Cleanup(c) ==
  /\ pc[c] = "cleanup"
  /\ \/ UNCHANGED outcome
     \/ Alive(c) /\ Result(c, "error")
  /\ Goto(c, "over")
  /\ UNCHANGED <<ended, processes, requests>>

----------------------------------------------------------------------------
(* The kernel, the user and time                                           *)

Fork(c) ==
  /\ leader[c] = "running" /\ kids[c] = "none"
  /\ kids' = [kids EXCEPT ![c] = "running"]
  /\ UNCHANGED <<pc, ended, outcome, leader, requests>>

LeaderExits(c) ==
  /\ leader[c] = "running"
  /\ leader' = [leader EXCEPT ![c] = "exited"]
  /\ UNCHANGED <<pc, ended, outcome, kids, requests>>

KidsExit(c) ==
  /\ kids[c] = "running"
  /\ kids' = [kids EXCEPT ![c] = "exited"]
  /\ UNCHANGED <<pc, ended, outcome, leader, requests>>

UserCancels(c) ==
  /\ role = "worker" /\ c \notin cancelled
  /\ cancelled' = cancelled \cup {c}
  /\ UNCHANGED <<role, pc, ended, outcome, processes, passed>>

TimePasses(c) ==
  /\ leader[c] = "running" /\ "time" \notin passed[c]
  /\ passed' = [passed EXCEPT ![c] = @ \cup {"time"}]
  /\ UNCHANGED <<role, pc, ended, outcome, processes, cancelled>>

Floods(c) ==
  /\ Alive(c) /\ "output" \notin passed[c]
  /\ passed' = [passed EXCEPT ![c] = @ \cup {"output"}]
  /\ UNCHANGED <<role, pc, ended, outcome, processes, cancelled>>

----------------------------------------------------------------------------
Watch(c) ==
  \/ CheckBefore(c) \/ Spawn(c) \/ Poll(c) \/ Ask(c) \/ Limits(c)
  \/ Kill(c) \/ Collect(c) \/ Cleanup(c)

Environment(c) ==
  \/ Fork(c) \/ LeaderExits(c) \/ KidsExit(c)
  \/ UserCancels(c) \/ TimePasses(c) \/ Floods(c)

Next == \E c \in Renders : TakeSlot(c) \/ Watch(c) \/ Environment(c)

Spec == Init /\ [][Next]_vars

(* Threads run, a slot that is free is given to one that waits, and time   *)
(* passes.  Kernels may hang for ever.                                     *)
FairSpec ==
  /\ Spec
  /\ \A c \in Renders :
       WF_vars(TakeSlot(c)) /\ WF_vars(Watch(c)) /\ WF_vars(TimePasses(c))

----------------------------------------------------------------------------
(* Properties                                                              *)

(* The variables have their types, and a call knows how it ends exactly    *)
(* when it no longer watches its child.                                    *)
TypeOK ==
  /\ role \in {"server", "worker"}
  /\ pc \in [Renders -> {"waiting", "start", "spawn", "poll", "ask", "limits",
                         "kill", "collect", "cleanup", "over"}]
  /\ ended \in [Renders -> {"not", "exit", "cancel", "limit", "raise"}]
  /\ outcome \in [Renders -> {"none", "ok", "failed", "cancelled", "error"}]
  /\ leader \in [Renders -> {"none", "running", "exited", "killed"}]
  /\ kids \in [Renders -> {"none", "running", "exited", "killed"}]
  /\ cancelled \subseteq Renders
  /\ passed \in [Renders -> SUBSET {"time", "output"}]
  /\ \A c \in Renders :
       outcome[c] # "none" <=> pc[c] \in {"kill", "cleanup", "over"}

Watched == {c \in Renders : leader[c] = "running" /\ ended[c] # "raise"}

(* Never more kernels than slots, those set aside that an exception of the *)
(* cancel check has let go.                                                *)
KernelsBounded == Cardinality(Watched) <= Slots

(* What outlives a call has escaped in one of two ways: its leader exited  *)
(* before anyone killed the group, or the cancel check raised.  A kernel   *)
(* that was still running when the watch ended takes its descendants with  *)
(* it.                                                                     *)
SurvivorsExplained ==
  \A c \in Renders :
    (pc[c] = "over" /\ Alive(c)) =>
      ended[c] = "raise" \/ leader[c] = "exited"

(* A result is never taken from a child that was killed or is still        *)
(* running, and a job nobody cancelled is not reported as cancelled.       *)
ResultsAreReal ==
  \A c \in Renders :
    /\ outcome[c] = "ok" => leader[c] = "exited" /\ ended[c] = "exit"
    /\ outcome[c] = "cancelled" => c \in cancelled

(* Every call ends, and with it every wait for a slot, even if each kernel *)
(* hangs for ever.                                                         *)
EveryCallEnds == \A c \in Renders : <>(pc[c] = "over")

=============================================================================
