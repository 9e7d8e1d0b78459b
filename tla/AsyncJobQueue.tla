--------------------------- MODULE AsyncJobQueue ---------------------------
(***************************************************************************)
(* The durable job queue of app/services/async_queue.py: one SQLite table, *)
(* used at the same time by the threads of the API process and by any      *)
(* number of worker processes.  Every method is one transaction, so every  *)
(* method is one action; enqueue is two, because it reads the clock before *)
(* it waits for the write lock.                                            *)
(*                                                                         *)
(* This module is the table under its most general clients: any worker may *)
(* call any method on any row at any time, and a lease may run out at any  *)
(* time.  QueueWorker restricts the callers to what app/worker.py does.    *)
(***************************************************************************)
EXTENDS Naturals, FiniteSets

CONSTANTS
  Jobs,         \* the ids enqueue draws; an id is never used twice
  Workers,      \* worker ids: host, pid and a random suffix, one per process
  None,         \* SQL NULL in worker_id
  MaxPending,   \* async_queue_max_pending
  MaxAttempts   \* async_queue_max_attempts

ASSUME JobsAssumption == IsFiniteSet(Jobs)
ASSUME NoneAssumption == None \notin Workers
ASSUME LimitsAssumption ==
  /\ MaxPending \in Nat \ {0}
  /\ MaxAttempts \in Nat \ {0}

VARIABLES
  rows,      \* the table: one record per job id, "none" before its insert
  clock,     \* the wall clock as enqueue reads it, one tick per reading
  created,   \* created_at of each job, 0 until the clock has been read
  entering,  \* enqueue calls that have read the clock and not committed
  ahead      \* history: the jobs already in the table at that reading

queueVars == <<rows, clock, created, entering, ahead>>

Active   == {"queued", "running"}
Terminal == {"completed", "failed", "cancelled"}
Leases   == {"null", "live", "expired"}   \* lease_expires_at against the clock

(* result is the number of the attempt whose manifest the row names, 0 for *)
(* NULL.                                                                   *)
Row == [status: Active \cup Terminal \cup {"none"}, attempts: Nat,
        cancel_requested: BOOLEAN, worker_id: Workers \cup {None},
        lease: Leases, result: Nat]

NoRow == [status |-> "none", attempts |-> 0, cancel_requested |-> FALSE,
          worker_id |-> None, lease |-> "null", result |-> 0]

QueueInit ==
  /\ rows = [j \in Jobs |-> NoRow]
  /\ clock = 0
  /\ created = [j \in Jobs |-> 0]
  /\ entering = {}
  /\ ahead = [j \in Jobs |-> {}]

Pending(rs) == {j \in Jobs : rs[j].status \in Active}

(* Planted faults: the WHERE clause loses the status, or the worker.       *)
BugOwnedAnyStatus(j, w) == rows[j].worker_id = w
BugOwnedAnyWorker(j, w) == rows[j].status = "running"

Owned(j, w) == rows[j].status = "running" /\ rows[j].worker_id = w

(* An UPDATE ... WHERE id = j.                                             *)
Update(j, row) ==
  /\ rows' = [rows EXCEPT ![j] = row]
  /\ UNCHANGED <<clock, created, entering, ahead>>

----------------------------------------------------------------------------
(* enqueue: the clock is read first, the transaction comes later.          *)

ReadClock(j) ==
  /\ created[j] = 0
  /\ clock' = clock + 1
  /\ created' = [created EXCEPT ![j] = clock + 1]
  /\ entering' = entering \cup {j}
  /\ ahead' = [ahead EXCEPT ![j] = {k \in Jobs : rows[k].status # "none"}]
  /\ UNCHANGED rows

(* Planted fault: the capacity test counts only the rows still queued.     *)
BugFullCountsQueued ==
  Cardinality({j \in Jobs : rows[j].status = "queued"}) >= MaxPending

Full == Cardinality(Pending(rows)) >= MaxPending

Insert(j) ==
  /\ j \in entering
  /\ ~Full
  /\ entering' = entering \ {j}
  /\ rows' = [rows EXCEPT ![j] = [@ EXCEPT !.status = "queued"]]
  /\ UNCHANGED <<clock, created, ahead>>

RefuseFull(j) ==      \* QueueFullError, the API answers 429
  /\ j \in entering
  /\ Full
  /\ entering' = entering \ {j}
  /\ UNCHANGED <<rows, clock, created, ahead>>

----------------------------------------------------------------------------
(* cancel: a queued row ends at once, a running one is only flagged.  On a *)
(* settled row the call changes nothing.                                   *)

CancelQueued(j) ==
  /\ rows[j].status = "queued"
  /\ Update(j, [rows[j] EXCEPT !.status = "cancelled",
                               !.cancel_requested = TRUE, !.lease = "null"])

CancelRunning(j) ==
  /\ rows[j].status = "running"
  /\ Update(j, [rows[j] EXCEPT !.cancel_requested = TRUE])

Cancel(j) == CancelQueued(j) \/ CancelRunning(j)

----------------------------------------------------------------------------
(* claim: recover every expired row, then take the oldest claimable one.   *)

(* Planted faults: recovery forgets the flag, or the retry limit.          *)
BugRequeue(r) ==
  IF r.attempts >= MaxAttempts
  THEN [r EXCEPT !.status = "failed", !.worker_id = None, !.lease = "null"]
  ELSE [r EXCEPT !.status = "queued", !.worker_id = None, !.lease = "null"]

BugRequeueForever(r) ==
  [r EXCEPT !.status = IF r.cancel_requested THEN "cancelled" ELSE "queued",
            !.worker_id = None, !.lease = "null"]

Requeued(r) ==
  [r EXCEPT !.worker_id = None, !.lease = "null",
            !.status = IF r.cancel_requested THEN "cancelled"
                       ELSE IF r.attempts >= MaxAttempts THEN "failed"
                       ELSE "queued"]

Expired(r) == r.status = "running" /\ r.lease = "expired"

(* Planted fault: recovery also takes rows whose lease is still running.   *)
BugRecoveredEarly ==
  [j \in Jobs |-> IF rows[j].status = "running" THEN Requeued(rows[j])
                                                ELSE rows[j]]

Recovered ==
  [j \in Jobs |-> IF Expired(rows[j]) THEN Requeued(rows[j]) ELSE rows[j]]

Claimable ==
  {j \in Jobs : Recovered[j].status = "queued"
                /\ ~Recovered[j].cancel_requested}

(* Planted fault: ORDER BY created_at DESC.                                *)
BugYoungest == {j \in Claimable : \A k \in Claimable : created[k] <= created[j]}

Oldest == {j \in Claimable : \A k \in Claimable : created[j] <= created[k]}

Started(r, w) ==
  [r EXCEPT !.status = "running", !.worker_id = w, !.lease = "live",
            !.attempts = @ + 1]

Claim(w, j) ==
  /\ j \in Oldest
  /\ rows' = [Recovered EXCEPT ![j] = Started(@, w)]
  /\ UNCHANGED <<clock, created, entering, ahead>>

ClaimNone ==          \* nothing to claim: the recovery is still committed
  /\ Claimable = {}
  /\ rows' = Recovered
  /\ UNCHANGED <<clock, created, entering, ahead>>

----------------------------------------------------------------------------
(* The methods of a worker that holds a row.  A worker that does not is    *)
(* refused (heartbeat returns False, the others raise RuntimeError) and    *)
(* changes nothing.                                                        *)

(* heartbeat looks at the owner and never at the lease: a lease that has   *)
(* run out but was not yet recovered comes back to life.                   *)
Heartbeat(j, w) ==
  /\ Owned(j, w)
  /\ Update(j, [rows[j] EXCEPT !.lease = "live"])

(* Planted fault: the caller's status wins over the flag.                  *)
BugFinishStatus(r, status) == status

FinishStatus(r, status) == IF r.cancel_requested THEN "cancelled" ELSE status

(* complete, mark_cancelled and mark_failed, all through _finish.          *)
Finish(j, w, status, result) ==
  /\ Owned(j, w)
  /\ Update(j, [rows[j] EXCEPT !.status = FinishStatus(rows[j], status),
                               !.lease = "null", !.result = result])

Retries(r, retry) == retry /\ ~r.cancel_requested /\ r.attempts < MaxAttempts

FailedRow(r, retry) ==
  IF Retries(r, retry)
  THEN [r EXCEPT !.status = "queued", !.worker_id = None, !.lease = "null"]
  ELSE [r EXCEPT !.status = FinishStatus(r, "failed"), !.lease = "null"]

Fail(j, w, retry) ==
  /\ Owned(j, w)
  /\ Update(j, FailedRow(rows[j], retry))

(* Time passes: a lease nobody renewed runs out.                           *)
Lapse(j) ==
  /\ rows[j].status = "running"
  /\ rows[j].lease = "live"
  /\ Update(j, [rows[j] EXCEPT !.lease = "expired"])

----------------------------------------------------------------------------
ClientStep(j) == ReadClock(j) \/ Insert(j) \/ RefuseFull(j) \/ Cancel(j)

(* A holder finishes with or without the manifest of the current attempt.  *)
HolderStep(j, w) ==
  \/ Heartbeat(j, w)
  \/ \E status \in Terminal, result \in {0, rows[j].attempts} :
       Finish(j, w, status, result)
  \/ \E retry \in BOOLEAN : Fail(j, w, retry)

QueueNext ==
  \/ \E j \in Jobs : ClientStep(j) \/ Lapse(j)
  \/ \E j \in Jobs, w \in Workers : Claim(w, j) \/ HolderStep(j, w)
  \/ ClaimNone

QueueSpec == QueueInit /\ [][QueueNext]_queueVars

----------------------------------------------------------------------------
(* Properties.                                                             *)

(* The type of every variable.                                             *)
TypeOK ==
  /\ rows \in [Jobs -> Row]
  /\ clock \in Nat
  /\ created \in [Jobs -> Nat]
  /\ entering \subseteq Jobs
  /\ ahead \in [Jobs -> SUBSET Jobs]

(* A queued row can always be claimed: it has no owner, no lease, no       *)
(* cancellation and an attempt left.  claim skips a flagged row, so one    *)
(* that was queued and flagged would wait for ever.                        *)
QueuedClaimable ==
  \A j \in Jobs : rows[j].status = "queued" =>
    /\ ~rows[j].cancel_requested
    /\ rows[j].worker_id = None /\ rows[j].lease = "null"
    /\ rows[j].attempts < MaxAttempts

(* A running row always has an owner and a lease.  Recovery compares the   *)
(* lease with the time: a running row with a NULL lease would never match  *)
(* and never end.                                                          *)
RunningLeased ==
  \A j \in Jobs : rows[j].status = "running" =>
    /\ rows[j].worker_id \in Workers
    /\ rows[j].lease # "null"
    /\ rows[j].attempts \in 1 .. MaxAttempts

(* Once a user has cancelled a job, neither a late complete, a failure     *)
(* with a retry nor the recovery of a lost lease may give it another       *)
(* outcome.                                                                *)
CancelWins ==
  \A j \in Jobs :
    rows[j].cancel_requested => rows[j].status \in {"running", "cancelled"}

(* No job waits or runs in a state the queue's own methods cannot leave.   *)
NoStuckRow == QueuedClaimable /\ RunningLeased

(* The backlog never exceeds its limit, although enqueue counts rows that  *)
(* claim, fail and recovery move in and out of "queued" at the same time.  *)
CapacityRespected == Cardinality(Pending(rows)) <= MaxPending

(* A settled row never changes again: not by a worker that lost its lease, *)
(* not by a late heartbeat, a second cancel or a recovery.                 *)
TerminalImmutable ==
  [][\A j \in Jobs : rows[j].status \in Terminal => rows'[j] = rows[j]]_rows

(* A row is taken from its owner only after the lease has run out, and an  *)
(* owner is replaced only by a claim that counts as a new attempt.         *)
LeaseHonoured ==
  [][\A j \in Jobs :
       /\ (rows[j].status = "running" /\ rows[j].lease = "live"
           /\ rows'[j].worker_id # rows[j].worker_id) =>
            rows'[j] = [rows[j] EXCEPT !.status = "queued", !.lease = "null",
                                       !.worker_id = None]
       /\ (rows'[j].worker_id \notin {None, rows[j].worker_id}) =>
            rows'[j].attempts = rows[j].attempts + 1]_rows

(* First come, first served in real time: a job whose enqueue returned     *)
(* before that of another began is claimed first, however late the other   *)
(* transaction commits and however often the first one was requeued.       *)
FirstComeFirstServed ==
  [][\A j, k \in Jobs :
       (rows'[k].attempts > rows[k].attempts /\ j \in ahead[k]) =>
         rows'[j].status # "queued"]_rows

=============================================================================
