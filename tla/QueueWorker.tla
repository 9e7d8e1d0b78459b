---------------------------- MODULE QueueWorker ----------------------------
(***************************************************************************)
(* The worker processes of app/worker.py over the queue table, and the     *)
(* manifests JobService writes for them (generate, generate_from_spec,     *)
(* _materialize and mark_cancelled of app/services/job_service.py).        *)
(*                                                                         *)
(* Each member of Workers is one process: a restarted worker draws a new   *)
(* id.  A process has a main thread, followed by pc, and one heartbeat     *)
(* thread for each job in beats.  The table and the job directory are two  *)
(* stores: a crash between a write to one and a write to the other leaves  *)
(* them as they are.                                                       *)
(***************************************************************************)
EXTENDS AsyncJobQueue

CONSTANTS
  CorruptJobs,  \* jobs whose stored payload is not a JSON object
  Mortal,       \* workers that may be killed, or end by an uncaught error
  IoFails       \* whether SQLite may stay locked and the disk may refuse

ASSUME WorkerAssumption ==
  /\ CorruptJobs \subseteq Jobs
  /\ Mortal \subseteq Workers
  /\ IoFails \in BOOLEAN

VARIABLES
  pc,        \* where the main thread of each worker is
  task,      \* its ClaimedQueueJob: the job and the number of the attempt
  verdict,   \* status of the manifest it holds in memory
  retry,     \* the retry argument of the fail call it is about to make
  beats,     \* <<worker, job>> for each heartbeat thread alive
  manifest   \* manifest.json of each attempt at each job, "absent" before

workerVars == <<pc, task, verdict, retry, beats, manifest>>
vars == <<queueVars, workerVars>>

(* "done" stands for the manifest statuses completed and source_only: the  *)
(* worker treats them alike.                                               *)
Verdicts == {"done", "failed", "cancelled"}

Processing == {"check_start", "plan", "check_planned", "materialize",
               "write_manifest", "check_finished", "publish", "rewrite",
               "failing", "cancelling"}

NoTask == [job |-> None, attempt |-> 0]

Init ==
  /\ QueueInit
  /\ pc = [w \in Workers |-> "idle"]
  /\ task = [w \in Workers |-> NoTask]
  /\ verdict = [w \in Workers |-> "none"]
  /\ retry = [w \in Workers |-> FALSE]
  /\ beats = {}
  /\ manifest = [j \in Jobs |-> [a \in 1 .. MaxAttempts |-> "absent"]]

CancelSeen(w) ==      \* is_cancel_requested for the worker's job
  \/ rows[task[w].job].cancel_requested
  \/ rows[task[w].job].status = "cancelled"

Owns(w) == Owned(task[w].job, w)

Goto(w, label) == pc' = [pc EXCEPT ![w] = label]

(* process_next returns: the claimed job, the manifest and the exception   *)
(* are forgotten.  The heartbeat thread was told to stop, and may be in    *)
(* the middle of one last beat.                                            *)
Return(w) ==
  /\ Goto(w, "idle")
  /\ task' = [task EXCEPT ![w] = NoTask]
  /\ verdict' = [verdict EXCEPT ![w] = "none"]
  /\ retry' = [retry EXCEPT ![w] = FALSE]
  /\ UNCHANGED <<beats, manifest>>

(* The process is gone, and its heartbeat threads with it.                 *)
Exit(w) ==
  /\ Goto(w, "gone")
  /\ task' = [task EXCEPT ![w] = NoTask]
  /\ verdict' = [verdict EXCEPT ![w] = "none"]
  /\ retry' = [retry EXCEPT ![w] = FALSE]
  /\ beats' = {b \in beats : b[1] # w}
  /\ UNCHANGED manifest

(* An exception reaches process_next: fail with or without a retry.        *)
Raise(w, again) ==
  /\ Goto(w, "failing")
  /\ retry' = [retry EXCEPT ![w] = again]
  /\ UNCHANGED <<task, verdict, beats, manifest>>

----------------------------------------------------------------------------
(* claim                                                                   *)

PollNothing(w) ==
  /\ pc[w] = "idle"
  /\ ClaimNone
  /\ UNCHANGED workerVars

PollClaims(w, j) ==
  /\ pc[w] = "idle"
  /\ Claim(w, j)
  /\ task' = [task EXCEPT ![w] = [job |-> j, attempt |-> rows'[j].attempts]]
  /\ IF j \in CorruptJobs
     THEN Goto(w, "reject") /\ UNCHANGED beats
     ELSE Goto(w, "check_start") /\ beats' = beats \cup {<<w, j>>}
  /\ UNCHANGED <<verdict, retry, manifest>>

(* The payload does not decode: claim itself fails the job, after its own  *)
(* transaction and before any heartbeat.  That call is not guarded: if the *)
(* lease was lost in between, its RuntimeError ends the worker process.    *)
RejectPayload(w) ==
  /\ pc[w] = "reject"
  /\ \/ Fail(task[w].job, w, FALSE) /\ Return(w)
     \/ ~Owns(w) /\ Exit(w) /\ UNCHANGED queueVars

----------------------------------------------------------------------------
(* _process and the JobService calls it makes                              *)

(* A cancel_check between two stages raises JobCancelled.                  *)
Poll(w, here, next) ==
  /\ pc[w] = here
  /\ Goto(w, IF CancelSeen(w) THEN "cancelling" ELSE next)
  /\ UNCHANGED <<queueVars, task, verdict, retry, beats, manifest>>

CheckStart(w)   == Poll(w, "check_start", "plan")
CheckPlanned(w) == Poll(w, "check_planned", "materialize")

(* Planning, or validating an edited spec: a plan, a ValueError (bad       *)
(* request: no retry) or any other exception (retry).                      *)
Plan(w) ==
  /\ pc[w] = "plan"
  /\ \/ Goto(w, "check_planned") /\ UNCHANGED <<task, verdict, retry, beats, manifest>>
     \/ \E again \in BOOLEAN : Raise(w, again)
  /\ UNCHANGED queueVars

(* _materialize up to the status of the manifest.  Rendering polls the     *)
(* flag; a RuntimeError and an invalid CAD document end in a failed        *)
(* manifest; any other exception leaves the job directory without one.     *)
Materialize(w) ==
  /\ pc[w] = "materialize"
  /\ \/ \E v \in {"done", "failed"} \cup
                 (IF CancelSeen(w) THEN {"cancelled"} ELSE {}) :
          /\ verdict' = [verdict EXCEPT ![w] = v]
          /\ Goto(w, "write_manifest")
          /\ UNCHANGED <<task, retry, beats, manifest>>
     \/ \E again \in BOOLEAN : Raise(w, again)
  /\ UNCHANGED queueVars

WriteManifest(w) ==
  /\ pc[w] = "write_manifest"
  /\ manifest' =
       [manifest EXCEPT ![task[w].job][task[w].attempt] = verdict[w]]
  /\ Goto(w, "check_finished")
  /\ UNCHANGED <<queueVars, task, verdict, retry, beats>>

(* manifest.status == "cancelled" or cancel_check(): which method the      *)
(* worker will call, decided before it calls it.                           *)
CheckFinished(w) ==
  /\ pc[w] = "check_finished"
  /\ verdict' = [verdict EXCEPT
       ![w] = IF CancelSeen(w) THEN "cancelled" ELSE @]
  /\ Goto(w, "publish")
  /\ UNCHANGED <<queueVars, task, retry, beats, manifest>>

(* Planted fault: a manifest with status failed is reported as completed.  *)
BugStatusFor ==
  [v \in Verdicts |-> IF v = "cancelled" THEN v ELSE "completed"]

StatusFor == [v \in Verdicts |-> IF v = "done" THEN "completed" ELSE v]

(* Planted fault: the row's final status is not looked at.                 *)
BugMustRewriteAlways(w) ==
  manifest[task[w].job][task[w].attempt] # "cancelled"

(* terminal.status == "cancelled" and manifest.status != "cancelled"       *)
MustRewrite(w) ==
  /\ rows'[task[w].job].status = "cancelled"
  /\ manifest[task[w].job][task[w].attempt] # "cancelled"

(* complete, mark_failed or mark_cancelled; when the row is no longer the  *)
(* worker's, the RuntimeError goes through fail, which refuses as well.    *)
Publish(w) ==
  /\ pc[w] = "publish"
  /\ \/ /\ Finish(task[w].job, w, StatusFor[verdict[w]], task[w].attempt)
        /\ IF MustRewrite(w)
           THEN Goto(w, "rewrite")
                /\ UNCHANGED <<task, verdict, retry, beats, manifest>>
           ELSE Return(w)
     \/ ~Owns(w) /\ Raise(w, TRUE) /\ UNCHANGED queueVars

(* service.mark_cancelled replaces the manifest already on disk.           *)
RewriteManifest(w) ==
  /\ pc[w] = "rewrite"
  /\ manifest' =
       [manifest EXCEPT ![task[w].job][task[w].attempt] = "cancelled"]
  /\ Goto(w, "idle")
  /\ task' = [task EXCEPT ![w] = NoTask]
  /\ verdict' = [verdict EXCEPT ![w] = "none"]
  /\ UNCHANGED <<queueVars, retry, beats>>

----------------------------------------------------------------------------
(* The except clauses of process_next                                      *)

(* Planted fault: the second fail of a lost lease is not guarded.          *)
BugFailJob(w) ==
  /\ pc[w] = "failing"
  /\ \/ Fail(task[w].job, w, retry[w]) /\ Return(w)
     \/ ~Owns(w) /\ Exit(w) /\ UNCHANGED queueVars

FailJob(w) ==         \* _fail_if_owned
  /\ pc[w] = "failing"
  /\ \/ Fail(task[w].job, w, retry[w])
     \/ ~Owns(w) /\ UNCHANGED queueVars
  /\ Return(w)

MarkCancelled(w) ==   \* _mark_cancelled_if_owned
  /\ pc[w] = "cancelling"
  /\ \/ Finish(task[w].job, w, "cancelled", 0)
     \/ ~Owns(w) /\ UNCHANGED queueVars
  /\ Return(w)

(* A statement that finds the database locked for five seconds, or a write *)
(* the disk refuses.  Inside _process it is retried as a failure of the    *)
(* job; in claim and in the except clauses nothing catches it.             *)
IoError(w) ==
  /\ IoFails
  /\ \/ /\ pc[w] \in {"check_start", "check_planned", "write_manifest",
                      "check_finished", "publish", "rewrite"}
        /\ Raise(w, TRUE)
     \/ /\ w \in Mortal
        /\ pc[w] \in {"idle", "reject", "failing", "cancelling"}
        /\ Exit(w)
  /\ UNCHANGED queueVars

Crash(w) ==
  /\ w \in Mortal
  /\ pc[w] # "gone"
  /\ Exit(w)
  /\ UNCHANGED queueVars

----------------------------------------------------------------------------
(* _heartbeat_loop                                                         *)

Busy(w, j) == pc[w] \in Processing /\ task[w].job = j

(* One round of the loop.  The thread goes on while its job is processed   *)
(* and still its own; a round that fails is simply not taken.              *)
Beat(w, j) ==
  /\ <<w, j>> \in beats
  /\ \/ Heartbeat(j, w)
     \/ ~Owned(j, w) /\ UNCHANGED queueVars
  /\ beats' = IF Owned(j, w) /\ Busy(w, j) THEN beats ELSE beats \ {<<w, j>>}
  /\ UNCHANGED <<pc, task, verdict, retry, manifest>>

BeatStops(w, j) ==    \* heartbeat_stop is set
  /\ <<w, j>> \in beats
  /\ ~Busy(w, j)
  /\ beats' = beats \ {<<w, j>>}
  /\ UNCHANGED <<queueVars, pc, task, verdict, retry, manifest>>

----------------------------------------------------------------------------
MainStep(w) ==
  \/ PollNothing(w) \/ \E j \in Jobs : PollClaims(w, j)
  \/ RejectPayload(w)
  \/ CheckStart(w) \/ Plan(w) \/ CheckPlanned(w) \/ Materialize(w)
  \/ WriteManifest(w) \/ CheckFinished(w) \/ Publish(w) \/ RewriteManifest(w)
  \/ FailJob(w) \/ MarkCancelled(w)

BeatStep(w) == \E j \in Jobs : Beat(w, j) \/ BeatStops(w, j)

Environment ==
  \/ \E j \in Jobs : (ClientStep(j) \/ Lapse(j)) /\ UNCHANGED workerVars
  \/ \E w \in Workers : IoError(w) \/ Crash(w)

Next == (\E w \in Workers : MainStep(w) \/ BeatStep(w)) \/ Environment

Spec == Init /\ [][Next]_vars

(* A worker that is not gone keeps taking steps: run_forever polls until   *)
(* it is stopped, every stage of a job ends (the planner, the renderer and *)
(* SQLite all have time limits), and a heartbeat thread runs beside it.    *)
(* Time passes for a lease nobody is there to renew.  Clients may stop at  *)
(* any point, a mortal worker may end at any point, and a heartbeat may    *)
(* always come too late.                                                   *)
Abandoned(j) == \A w \in Workers : <<w, j>> \notin beats

Fairness ==
  /\ \A w \in Workers : WF_vars(MainStep(w)) /\ WF_vars(BeatStep(w))
  /\ \A j \in Jobs :
       WF_vars(Abandoned(j) /\ Lapse(j) /\ UNCHANGED workerVars)

FairSpec == Spec /\ Fairness

----------------------------------------------------------------------------
(* Properties.                                                             *)

(* The type of every variable the workers add.                             *)
WorkerTypeOK ==
  /\ pc \in [Workers -> Processing \cup {"idle", "reject", "gone"}]
  /\ task \in [Workers -> [job: Jobs \cup {None}, attempt: 0 .. MaxAttempts]]
  /\ verdict \in [Workers -> Verdicts \cup {"none"}]
  /\ retry \in [Workers -> BOOLEAN]
  /\ beats \subseteq Workers \X Jobs
  /\ manifest \in [Jobs -> [1 .. MaxAttempts -> Verdicts \cup {"absent"}]]

(* The owner of a row is working on its latest attempt: a worker that lost *)
(* its lease while a native kernel was still running can never pass for    *)
(* the owner again and publish the output of an earlier attempt.           *)
OwnerIsCurrent ==
  \A w \in Workers :
    (task[w].job # None /\ Owns(w)) =>
      task[w].attempt = rows[task[w].job].attempts

ResultManifest(j) ==
  IF rows[j].result = 0 THEN "absent" ELSE manifest[j][rows[j].result]

(* What a settled row says of its result is what is on disk: completed and *)
(* failed rows name a manifest with that status, written by the attempt    *)
(* that owned the row, and a cancelled one never names an absent manifest. *)
ResultMatchesManifest ==
  /\ OwnerIsCurrent
  /\ \A j \in Jobs :
       LET r == rows[j] IN
       /\ r.status = "completed" =>
            ResultManifest(j) = "done" /\ r.result = r.attempts
       /\ (r.status = "failed" /\ r.result # 0) =>
            ResultManifest(j) = "failed" /\ r.result = r.attempts
       /\ (r.status = "cancelled" /\ r.result # 0) => ResultManifest(j) # "absent"

(* A manifest, once written, changes only to "cancelled", and only when    *)
(* the row that names it was cancelled: nobody rewrites the manifest of a  *)
(* completed job, nor that of an attempt the row does not name.            *)
ManifestFinal ==
  [][\A j \in Jobs, a \in 1 .. MaxAttempts :
       (manifest[j][a] # "absent" /\ manifest'[j][a] # manifest[j][a]) =>
         /\ manifest'[j][a] = "cancelled"
         /\ rows[j].status = "cancelled"
         /\ rows[j].result = a]_manifest

(* A queue row and its manifest do not contradict each other for ever: a   *)
(* cancelled row that names a manifest ends up with a cancelled manifest.  *)
ManifestCatchesUp ==
  \A j \in Jobs :
    (rows[j].status = "cancelled" /\ rows[j].result # 0) ~>
      (ResultManifest(j) = "cancelled")

(* Nothing a job or its queue row does ends a worker process, but one race *)
(* that is not guarded: a payload that does not decode, whose lease is     *)
(* lost before the worker that claimed it can fail the job.                *)
JobsSpareWorkers ==
  [][\A w \in Workers \ Mortal :
       (pc[w] # "gone" /\ pc'[w] = "gone") =>
         task[w].job \in CorruptJobs /\ ~Owns(w)]_vars

(* The job a client sees, without the table, the leases and the processes. *)
phaseBar == [j \in Jobs |-> IF rows[j].status \in Active THEN "open"
                            ELSE rows[j].status]
askedBar == [j \in Jobs |-> rows[j].cancel_requested]
triesBar == [j \in Jobs |-> rows[j].attempts]

Durable == INSTANCE DurableJob WITH
             phase <- phaseBar, asked <- askedBar, tries <- triesBar

(* The workers and the table keep every promise of DurableJob: each step   *)
(* is a step or a stutter of it, several jobs may be given up at once by   *)
(* one recovery, and every job is settled.                                 *)
ImplementsDurableJob == Durable!Spec

(* The safety part alone, for the runs without fairness.                   *)
ImplementsDurableSteps == Durable!SafeSpec

=============================================================================
