------------------------- MODULE QueueWorkerProofs -------------------------
(***************************************************************************)
(* Proofs about the job queue and the workers over it, for any sets of     *)
(* jobs and of workers, any limits, and whichever workers may die.         *)
(*                                                                         *)
(* First the queue under its most general clients, QueueSpec.  RowOK is    *)
(* the invariant of one row: the properties the model checker examines,    *)
(* and the blankness of a row before its insert.  Every update of a row    *)
(* preserves it (the lemmas about rows); QueueInv adds that an enqueue     *)
(* call in progress owns an id that is not in the table yet, and that      *)
(* created_at follows the order of the clock readings.                     *)
(*                                                                         *)
(* Then the workers, Spec.  Every step of theirs is a step of the queue,   *)
(* so its invariant carries over.  An attempt is counted in the same       *)
(* transaction that hands out the row, so two workers never hold the same  *)
(* attempt at a job and the manifest of an attempt has one writer.         *)
(***************************************************************************)
EXTENDS QueueWorker, FiniteSetTheorems, TLAPS

RowOK(r) ==
  /\ r.status = "none" =>
       r.attempts = 0 /\ ~r.cancel_requested
       /\ r.worker_id = None /\ r.lease = "null"
  /\ r.status = "queued" =>
       ~r.cancel_requested /\ r.worker_id = None /\ r.lease = "null"
       /\ r.attempts < MaxAttempts
  /\ r.status = "running" =>
       r.worker_id \in Workers /\ r.lease # "null"
       /\ 1 <= r.attempts /\ r.attempts <= MaxAttempts
  /\ r.cancel_requested => r.status \in {"running", "cancelled"}

(* A call between its clock reading and its commit has no row yet, and a   *)
(* row has a created_at.                                                   *)
Entered ==
  /\ \A j \in entering : rows[j].status = "none" /\ created[j] # 0
  /\ \A j \in Jobs : rows[j].status # "none" => created[j] # 0

(* created_at respects real time.                                          *)
Ordered ==
  /\ \A j \in Jobs : created[j] <= clock
  /\ \A k \in Jobs : \A j \in ahead[k] : 0 < created[j] /\ created[j] < created[k]

QueueInv ==
  /\ TypeOK
  /\ \A j \in Jobs : RowOK(rows[j])
  /\ Entered
  /\ Ordered

----------------------------------------------------------------------------
(* What each method makes of one row.                                      *)

LEMMA RequeuedRow ==
  ASSUME NEW r \in Row
  PROVE  /\ Requeued(r) \in Row
         /\ Requeued(r).status \in {"queued", "failed", "cancelled"}
         /\ RowOK(r) => RowOK(Requeued(r))
  <1>. USE DEF Row, Active, Terminal, Leases
  <1>1. CASE r.cancel_requested
    <2>1. Requeued(r) = [r EXCEPT !.worker_id = None, !.lease = "null",
                                  !.status = "cancelled"]
      BY <1>1 DEF Requeued
    <2>2. Requeued(r) \in Row
      BY <2>1
    <2>3. Requeued(r).status = "cancelled"
      BY <2>1
    <2>4. RowOK(Requeued(r))
      BY <2>3 DEF RowOK
    <2>. QED
      BY <2>2, <2>3, <2>4
  <1>2. CASE ~r.cancel_requested /\ r.attempts >= MaxAttempts
    <2>1. Requeued(r) = [r EXCEPT !.worker_id = None, !.lease = "null",
                                  !.status = "failed"]
      BY <1>2 DEF Requeued
    <2>. QED
      BY <1>2, <2>1 DEF RowOK
  <1>3. CASE ~r.cancel_requested /\ ~(r.attempts >= MaxAttempts)
    <2>1. Requeued(r) = [r EXCEPT !.worker_id = None, !.lease = "null",
                                  !.status = "queued"]
      BY <1>3 DEF Requeued
    <2>2. r.attempts < MaxAttempts
      BY <1>3, LimitsAssumption
    <2>3. /\ Requeued(r) \in Row
          /\ Requeued(r).status = "queued"
          /\ Requeued(r).worker_id = None
          /\ Requeued(r).lease = "null"
          /\ Requeued(r).attempts = r.attempts
          /\ Requeued(r).cancel_requested = r.cancel_requested
      BY <2>1
    <2>4. RowOK(Requeued(r))
      BY <1>3, <2>2, <2>3 DEF RowOK
    <2>. QED
      BY <2>3, <2>4
  <1>. QED
    BY <1>1, <1>2, <1>3

LEMMA RecoveredRow ==
  ASSUME TypeOK, NEW j \in Jobs
  PROVE  /\ Recovered[j] \in Row
         /\ RowOK(rows[j]) => RowOK(Recovered[j])
         /\ Recovered[j] # rows[j] =>
              /\ Expired(rows[j])
              /\ Recovered[j].status \in {"queued", "failed", "cancelled"}
         /\ Recovered[j] = IF Expired(rows[j]) THEN Requeued(rows[j])
                                               ELSE rows[j]
  BY RequeuedRow DEF Recovered, TypeOK

LEMMA StartedRow ==
  ASSUME NEW r \in Row, NEW w \in Workers,
         r.status = "queued", RowOK(r)
  PROVE  /\ Started(r, w) \in Row
         /\ Started(r, w).status = "running"
         /\ RowOK(Started(r, w))
  <1>. USE DEF Row, Active, Terminal, Leases
  <1>1. /\ Started(r, w).attempts = r.attempts + 1
        /\ Started(r, w).status = "running"
        /\ Started(r, w).worker_id = w
        /\ Started(r, w).lease = "live"
        /\ Started(r, w).cancel_requested = r.cancel_requested
    BY DEF Started
  <1>2. Started(r, w) \in Row
    <2>1. r.attempts + 1 \in Nat
      OBVIOUS
    <2>. QED
      BY <2>1 DEF Started
  <1>3. RowOK(Started(r, w))
    BY <1>1, LimitsAssumption DEF RowOK
  <1>. QED
    BY <1>1, <1>2, <1>3

LEMMA FinishedRow ==
  ASSUME NEW r \in Row, NEW status \in Terminal, NEW result \in Nat,
         r.status = "running", RowOK(r)
  PROVE  LET f == [r EXCEPT !.status = FinishStatus(r, status),
                            !.lease = "null", !.result = result]
         IN  /\ f \in Row
             /\ f.status \in Terminal
             /\ RowOK(f)
  <1>1. CASE r.cancel_requested
    BY <1>1 DEF FinishStatus, RowOK, Row, Active, Terminal, Leases
  <1>2. CASE ~r.cancel_requested
    BY <1>2 DEF FinishStatus, RowOK, Row, Active, Terminal, Leases
  <1>. QED
    BY <1>1, <1>2

LEMMA FailedRowOK ==
  ASSUME NEW r \in Row, NEW again \in BOOLEAN,
         r.status = "running", RowOK(r)
  PROVE  /\ FailedRow(r, again) \in Row
         /\ FailedRow(r, again).status \in {"queued", "failed", "cancelled"}
         /\ RowOK(FailedRow(r, again))
  <1>. USE DEF Row, Active, Terminal, Leases, RowOK, FailedRow
  <1>1. CASE Retries(r, again)
    BY <1>1 DEF Retries
  <1>2. CASE ~Retries(r, again) /\ r.cancel_requested
    BY <1>2 DEF FinishStatus
  <1>3. CASE ~Retries(r, again) /\ ~r.cancel_requested
    BY <1>3 DEF FinishStatus
  <1>. QED
    BY <1>1, <1>2, <1>3

(* A worker's or a client's update of a row that is in the table.          *)
LEMMA UpdateInv ==
  ASSUME QueueInv, NEW j \in Jobs, NEW r \in Row,
         rows[j].status # "none", r.status # "none", RowOK(r), Update(j, r)
  PROVE  QueueInv'
  <1>1. /\ rows' = [rows EXCEPT ![j] = r]
        /\ UNCHANGED <<clock, created, entering, ahead>>
    BY DEF Update
  <1>2. TypeOK'
    BY <1>1 DEF QueueInv, TypeOK
  <1>3. \A k \in Jobs : RowOK(rows[k])'
    BY <1>1 DEF QueueInv, TypeOK, RowOK
  <1>4. Entered'
    BY <1>1 DEF QueueInv, TypeOK, Entered
  <1>5. Ordered'
    BY <1>1 DEF QueueInv, Ordered
  <1>. QED
    BY <1>2, <1>3, <1>4, <1>5 DEF QueueInv

(* The recovery, and then at most one claim.                               *)
LEMMA RecoveryInv ==
  ASSUME QueueInv, NEW new,
         new \in [Jobs -> Row],
         \A j \in Jobs : RowOK(new[j]),
         \A j \in Jobs : new[j].status = "none" <=> rows[j].status = "none",
         rows' = new, UNCHANGED <<clock, created, entering, ahead>>
  PROVE  QueueInv'
  BY DEF QueueInv, TypeOK, Entered, Ordered, RowOK

----------------------------------------------------------------------------
LEMMA InitInv == QueueInit => QueueInv
  BY DEF QueueInit, QueueInv, TypeOK, NoRow, RowOK, Entered, Ordered,
         Row, Active, Terminal, Leases

LEMMA NextInv == QueueInv /\ [QueueNext]_queueVars => QueueInv'
  <1>. SUFFICES ASSUME QueueInv, [QueueNext]_queueVars PROVE QueueInv'
    OBVIOUS
  <1>0. TypeOK /\ (\A j \in Jobs : rows[j] \in Row /\ RowOK(rows[j]))
    BY DEF QueueInv, TypeOK
  <1>1. ASSUME NEW j \in Jobs, ReadClock(j) PROVE QueueInv'
    <2>1. TypeOK' /\ (\A k \in Jobs : RowOK(rows[k])')
      BY <1>1 DEF ReadClock, QueueInv, TypeOK, RowOK
    <2>2. Entered'
      BY <1>1, <1>0 DEF ReadClock, QueueInv, TypeOK, Entered
    <2>3. /\ created[j] = 0 /\ created' = [created EXCEPT ![j] = clock + 1]
          /\ clock' = clock + 1
          /\ ahead' = [ahead EXCEPT ![j] = {k \in Jobs : rows[k].status # "none"}]
          /\ clock \in Nat /\ created \in [Jobs -> Nat]
          /\ ahead \in [Jobs -> SUBSET Jobs]
      BY <1>1, <1>0 DEF ReadClock, TypeOK
    <2>4. \A k \in Jobs : created[k] <= clock
      BY DEF QueueInv, Ordered
    <2>5. \A k \in ahead'[j] : 0 < created'[k] /\ created'[k] < created'[j]
      BY <2>3, <2>4 DEF QueueInv, Entered
    <2>6. \A i \in Jobs \ {j} : \A k \in ahead[i] :
            k \in Jobs /\ k # j /\ 0 < created[k] /\ created[k] < created[i]
      BY <2>3 DEF QueueInv, Ordered
    <2>7. Ordered'
      BY <2>3, <2>4, <2>5, <2>6 DEF Ordered
    <2>. QED
      BY <2>1, <2>2, <2>7 DEF QueueInv
  <1>2. ASSUME NEW j \in Jobs, Insert(j) PROVE QueueInv'
    <2>. DEFINE r == [rows[j] EXCEPT !.status = "queued"]
    <2>1. rows[j].status = "none" /\ created[j] # 0
      BY <1>2 DEF Insert, QueueInv, Entered
    <2>2. r \in Row /\ r.status = "queued" /\ RowOK(r)
      BY <1>0, <2>1, LimitsAssumption DEF RowOK, Row, Active
    <2>3. rows' = [rows EXCEPT ![j] = r] /\ entering' = entering \ {j}
          /\ UNCHANGED <<clock, created, ahead>>
      BY <1>2 DEF Insert
    <2>. HIDE DEF r
    <2>4. TypeOK' /\ (\A k \in Jobs : RowOK(rows[k])')
      BY <2>2, <2>3 DEF QueueInv, TypeOK, RowOK
    <2>5. Entered'
      BY <2>1, <2>2, <2>3 DEF QueueInv, TypeOK, Entered
    <2>6. Ordered'
      BY <2>3 DEF QueueInv, Ordered
    <2>. QED
      BY <2>4, <2>5, <2>6 DEF QueueInv
  <1>3. ASSUME NEW j \in Jobs, RefuseFull(j) PROVE QueueInv'
    BY <1>3 DEF RefuseFull, QueueInv, TypeOK, Entered, Ordered, RowOK
  <1>4. ASSUME NEW j \in Jobs, CancelQueued(j) PROVE QueueInv'
    <2>. DEFINE r == [rows[j] EXCEPT !.status = "cancelled",
                        !.cancel_requested = TRUE, !.lease = "null"]
    <2>1. r \in Row /\ r.status = "cancelled" /\ RowOK(r)
      BY <1>0 DEF RowOK, Row, Active, Terminal, Leases
    <2>2. rows[j].status # "none" /\ Update(j, r)
      BY <1>4 DEF CancelQueued
    <2>. QED
      BY <2>1, <2>2, UpdateInv
  <1>5. ASSUME NEW j \in Jobs, CancelRunning(j) PROVE QueueInv'
    <2>. DEFINE r == [rows[j] EXCEPT !.cancel_requested = TRUE]
    <2>1. rows[j].status = "running" /\ Update(j, r)
      BY <1>5 DEF CancelRunning
    <2>2. r \in Row /\ r.status = "running" /\ RowOK(r)
      BY <1>0, <2>1 DEF RowOK, Row, Active, Terminal, Leases
    <2>. QED
      BY <2>1, <2>2, UpdateInv
  <1>6. ASSUME NEW j \in Jobs, Lapse(j) PROVE QueueInv'
    <2>. DEFINE r == [rows[j] EXCEPT !.lease = "expired"]
    <2>1. rows[j].status = "running" /\ Update(j, r)
      BY <1>6 DEF Lapse
    <2>2. r \in Row /\ r.status = "running" /\ RowOK(r)
      BY <1>0, <2>1 DEF RowOK, Row, Active, Terminal, Leases
    <2>. QED
      BY <2>1, <2>2, UpdateInv
  <1>7. ASSUME NEW j \in Jobs, NEW w \in Workers, Heartbeat(j, w)
        PROVE QueueInv'
    <2>. DEFINE r == [rows[j] EXCEPT !.lease = "live"]
    <2>1. rows[j].status = "running" /\ Update(j, r)
      BY <1>7 DEF Heartbeat, Owned
    <2>2. r \in Row /\ r.status = "running" /\ RowOK(r)
      BY <1>0, <2>1 DEF RowOK, Row, Active, Terminal, Leases
    <2>. QED
      BY <2>1, <2>2, UpdateInv
  <1>8. ASSUME NEW j \in Jobs, NEW w \in Workers,
               NEW status \in Terminal, NEW result \in {0, rows[j].attempts},
               Finish(j, w, status, result)
        PROVE QueueInv'
    <2>. DEFINE r == [rows[j] EXCEPT !.status = FinishStatus(rows[j], status),
                                     !.lease = "null", !.result = result]
    <2>1. rows[j].status = "running" /\ Update(j, r)
      BY <1>8 DEF Finish, Owned
    <2>2. result \in Nat
      BY <1>0 DEF Row
    <2>3. r \in Row /\ r.status \in Terminal /\ RowOK(r)
      BY <1>0, <2>1, <2>2, FinishedRow
    <2>. QED
      BY <2>1, <2>3, UpdateInv DEF Terminal
  <1>9. ASSUME NEW j \in Jobs, NEW w \in Workers, NEW again \in BOOLEAN,
               Fail(j, w, again)
        PROVE QueueInv'
    <2>1. rows[j].status = "running" /\ Update(j, FailedRow(rows[j], again))
      BY <1>9 DEF Fail, Owned
    <2>. QED
      BY <1>0, <2>1, FailedRowOK, UpdateInv
  <1>10. ASSUME NEW j \in Jobs, NEW w \in Workers, Claim(w, j)
         PROVE QueueInv'
    <2>. DEFINE new == [Recovered EXCEPT ![j] = Started(@, w)]
    <2>1. rows' = new /\ UNCHANGED <<clock, created, entering, ahead>>
          /\ Recovered[j].status = "queued"
      BY <1>10 DEF Claim, Oldest, Claimable
    <2>2. \A k \in Jobs : Recovered[k] \in Row /\ RowOK(Recovered[k])
      BY <1>0, RecoveredRow
    <2>3. Started(Recovered[j], w) \in Row
          /\ Started(Recovered[j], w).status = "running"
          /\ RowOK(Started(Recovered[j], w))
      BY <2>1, <2>2, StartedRow
    <2>4. Recovered = [k \in Jobs |-> Recovered[k]]
      BY DEF Recovered
    <2>5. \A k \in Jobs : new[k] = IF k = j THEN Started(Recovered[j], w)
                                             ELSE Recovered[k]
      BY <2>4
    <2>6. new \in [Jobs -> Row] /\ (\A k \in Jobs : RowOK(new[k]))
      BY <2>2, <2>3, <2>4, <2>5
    <2>7. \A k \in Jobs : new[k].status = "none" <=> rows[k].status = "none"
      BY <1>0, <2>1, <2>3, <2>5, RecoveredRow DEF Expired
    <2>. HIDE DEF new
    <2>. QED
      BY <2>1, <2>6, <2>7, RecoveryInv
  <1>11. CASE ClaimNone
    <2>1. Recovered \in [Jobs -> Row]
      BY <1>0, RecoveredRow DEF Recovered
    <2>2. \A k \in Jobs :
             /\ RowOK(Recovered[k])
             /\ Recovered[k].status = "none" <=> rows[k].status = "none"
      <3>. TAKE k \in Jobs
      <3>1. /\ RowOK(Recovered[k])
            /\ Recovered[k] # rows[k] =>
                 /\ Expired(rows[k])
                 /\ Recovered[k].status \in {"queued", "failed", "cancelled"}
        BY <1>0, RecoveredRow
      <3>. QED
        BY <3>1 DEF Expired
    <2>3. rows' = Recovered /\ UNCHANGED <<clock, created, entering, ahead>>
      BY <1>11 DEF ClaimNone
    <2>4. (\A k \in Jobs : RowOK(Recovered[k]))
          /\ (\A k \in Jobs :
                Recovered[k].status = "none" <=> rows[k].status = "none")
      BY <2>2
    <2>. QED
      BY <2>1, <2>3, <2>4, RecoveryInv
  <1>12. CASE UNCHANGED queueVars
    BY <1>12 DEF queueVars, QueueInv, TypeOK, Entered, Ordered, RowOK
  <1>. QED
    BY <1>1, <1>2, <1>3, <1>4, <1>5, <1>6, <1>7, <1>8, <1>9, <1>10, <1>11,
       <1>12 DEF QueueNext, ClientStep, HolderStep, Cancel

(* QueueInv is an invariant of the queue.                                  *)
THEOREM QueueInvariant == QueueSpec => []QueueInv
  BY InitInv, NextInv, PTL DEF QueueSpec

----------------------------------------------------------------------------
(* The type of every variable is as declared.                              *)
THEOREM TypeCorrect == QueueSpec => []TypeOK
  BY QueueInvariant, PTL DEF QueueInv

(* No row is ever queued and unclaimable, nor running and unrecoverable.   *)
THEOREM NeverStuck == QueueSpec => []NoStuckRow
  <1>1. QueueInv => NoStuckRow
    BY LimitsAssumption
    DEF QueueInv, TypeOK, RowOK, NoStuckRow, QueuedClaimable, RunningLeased,
        Row
  <1>. QED
    BY <1>1, QueueInvariant, PTL

(* A cancelled job never completes, fails or goes back to the queue.       *)
THEOREM CancellationWins == QueueSpec => []CancelWins
  <1>1. QueueInv => CancelWins
    BY DEF QueueInv, RowOK, CancelWins
  <1>. QED
    BY <1>1, QueueInvariant, PTL

----------------------------------------------------------------------------
(* What one step does to one row: it is inserted, or it was in the table,  *)
(* not settled, and its new state is reached by one of the methods.        *)
LEMMA RowStep ==
  ASSUME QueueInv, QueueNext, NEW j \in Jobs, rows'[j] # rows[j]
  PROVE  \/ /\ Insert(j)
            /\ rows[j].status = "none"
         \/ rows[j].status \in Active
  <1>0. TypeOK /\ (\A k \in Jobs : rows[k] \in Row /\ RowOK(rows[k]))
    BY DEF QueueInv, TypeOK
  <1>1. ASSUME NEW k \in Jobs, ClientStep(k)
        PROVE (Insert(j) /\ rows[j].status = "none") \/ rows[j].status \in Active
    BY <1>0, <1>1
    DEF ClientStep, ReadClock, Insert, RefuseFull, Cancel, CancelQueued,
        CancelRunning, Update, QueueInv, Entered, TypeOK, Active
  <1>2. ASSUME NEW k \in Jobs, Lapse(k) PROVE rows[j].status \in Active
    BY <1>0, <1>2 DEF Lapse, Update, TypeOK, Active
  <1>3. ASSUME NEW k \in Jobs, NEW w \in Workers, HolderStep(k, w)
        PROVE rows[j].status \in Active
    BY <1>0, <1>3
    DEF HolderStep, Heartbeat, Finish, Fail, Owned, Update, TypeOK, Active
  <1>4. ASSUME NEW k \in Jobs, NEW w \in Workers, Claim(w, k)
        PROVE rows[j].status \in Active
    <2>1. rows' = [Recovered EXCEPT ![k] = Started(@, w)]
          /\ Recovered[k].status = "queued"
      BY <1>4 DEF Claim, Oldest, Claimable
    <2>2. j # k => rows'[j] = Recovered[j]
      BY <2>1 DEF Recovered
    <2>. QED
      BY <1>0, <2>1, <2>2, RecoveredRow DEF Expired, Active
  <1>5. CASE ClaimNone
    BY <1>0, <1>5, RecoveredRow DEF ClaimNone, Expired, Active
  <1>. QED
    BY <1>1, <1>2, <1>3, <1>4, <1>5 DEF QueueNext

(* A settled row is settled for good.                                      *)
THEOREM SettledForGood == QueueSpec => TerminalImmutable
  <1>1. QueueInv /\ [QueueNext]_queueVars =>
          [\A j \in Jobs : rows[j].status \in Terminal => rows'[j] = rows[j]]_rows
    <2>1. ASSUME QueueInv, QueueNext, NEW j \in Jobs,
                 rows[j].status \in Terminal
          PROVE  rows'[j] = rows[j]
      BY <2>1, RowStep DEF Terminal, Active
    <2>. QED
      BY <2>1 DEF queueVars
  <1>. QED
    BY <1>1, QueueInvariant, PTL DEF QueueSpec, TerminalImmutable

(* The backlog never exceeds its limit: only an insert makes a row active, *)
(* it does so for one row, and it counted the active rows in the same      *)
(* transaction.                                                            *)
THEOREM BacklogBounded == QueueSpec => []CapacityRespected
  <1>1. QueueInit => CapacityRespected
    <2>1. QueueInit => Pending(rows) = {}
      BY DEF QueueInit, Pending, NoRow, Active
    <2>. QED
      BY <2>1, FS_EmptySet, LimitsAssumption DEF CapacityRespected
  <1>2. CapacityRespected /\ QueueInv /\ [QueueNext]_queueVars
          => CapacityRespected'
    <2>. SUFFICES ASSUME CapacityRespected, QueueInv, [QueueNext]_queueVars
                  PROVE  CapacityRespected'
      OBVIOUS
    <2>. DEFINE now == Pending(rows)  next == Pending(rows')
    <2>1. IsFiniteSet(now) /\ IsFiniteSet(next)
      BY JobsAssumption, FS_Subset DEF Pending
    <2>2. Cardinality(now) \in Nat /\ Cardinality(next) \in Nat
      BY <2>1, FS_CardinalityType
    <2>3. ASSUME NEW j \in Jobs, Insert(j) PROVE CapacityRespected'
      <3>1. Cardinality(now) < MaxPending
        BY <2>2, <2>3, LimitsAssumption DEF Insert, Full
      <3>2. next \subseteq now \cup {j}
        BY <2>3 DEF Insert, Pending, QueueInv, TypeOK
      <3>3. IsFiniteSet(now \cup {j})
            /\ Cardinality(now \cup {j}) <= Cardinality(now) + 1
        <4>. HIDE DEF now
        <4>1. /\ IsFiniteSet(now \cup {j})
              /\ Cardinality(now \cup {j}) = IF j \in now THEN Cardinality(now)
                                             ELSE Cardinality(now) + 1
          BY <2>1, FS_AddElement
        <4>. QED
          BY <2>2, <4>1
      <3>4. Cardinality(next) <= Cardinality(now \cup {j})
        BY <3>2, <3>3, FS_Subset
      <3>5. Cardinality(now \cup {j}) \in Nat
        BY <3>3, FS_CardinalityType
      <3>6. Cardinality(next) <= MaxPending
        BY <2>2, <3>1, <3>3, <3>4, <3>5, LimitsAssumption
      <3>. QED
        BY <3>6 DEF CapacityRespected
    <2>4. ASSUME \A j \in Jobs : ~Insert(j) PROVE CapacityRespected'
      <3>1. next \subseteq now
        <4>. SUFFICES ASSUME NEW j \in Jobs, rows'[j].status \in Active
                      PROVE  rows[j].status \in Active
          BY DEF Pending
        <4>1. CASE rows'[j] = rows[j]
          BY <4>1
        <4>2. CASE rows'[j] # rows[j]
          BY <2>4, <4>2, RowStep DEF queueVars
        <4>. QED
          BY <4>1, <4>2
      <3>2. Cardinality(next) <= Cardinality(now)
        BY <2>1, <3>1, FS_Subset
      <3>. QED
        BY <2>2, <3>2, LimitsAssumption DEF CapacityRespected
    <2>. QED
      BY <2>3, <2>4
  <1>. QED
    BY <1>1, <1>2, QueueInvariant, PTL DEF QueueSpec

----------------------------------------------------------------------------
(* What one step makes of one row: a finish, a claim, or anything else.    *)
FinishMove(j) ==
  /\ rows[j].status = "running"
  /\ \E status \in Terminal, result \in {0, rows[j].attempts} :
       rows'[j] = [rows[j] EXCEPT !.status = FinishStatus(rows[j], status),
                                  !.lease = "null", !.result = result]

ClaimMove(j, w) ==
  /\ Recovered[j].status = "queued"
  /\ rows'[j] = Started(Recovered[j], w)

RestMove(j) ==
  \/ /\ rows[j].status = "none" /\ Insert(j)
     /\ rows'[j] = [rows[j] EXCEPT !.status = "queued"]
  \/ /\ rows[j].status = "queued"
     /\ rows'[j] = [rows[j] EXCEPT !.status = "cancelled",
                                   !.cancel_requested = TRUE, !.lease = "null"]
  \/ /\ rows[j].status = "running"
     /\ \/ rows'[j] = [rows[j] EXCEPT !.cancel_requested = TRUE]
        \/ \E lease \in {"live", "expired"} :
             rows'[j] = [rows[j] EXCEPT !.lease = lease]
        \/ \E again \in BOOLEAN : rows'[j] = FailedRow(rows[j], again)
  \/ /\ Expired(rows[j])
     /\ rows'[j] = Requeued(rows[j])

(* A step of the queue that is neither a claim nor a finish.               *)
RestStep ==
  \/ \E j \in Jobs : ClientStep(j) \/ Lapse(j)
  \/ \E j \in Jobs, w \in Workers :
       Heartbeat(j, w) \/ \E again \in BOOLEAN : Fail(j, w, again)
  \/ ClaimNone

LEMMA UpdatedRow ==
  ASSUME TypeOK, NEW j \in Jobs, NEW k \in Jobs, NEW r,
         rows' = [rows EXCEPT ![k] = r], rows'[j] # rows[j]
  PROVE  k = j /\ rows'[j] = r
  BY DEF TypeOK

LEMMA RestMoves ==
  ASSUME QueueInv, RestStep, NEW j \in Jobs, rows'[j] # rows[j]
  PROVE  RestMove(j)
  <1>0. TypeOK /\ (\A k \in Jobs : rows[k] \in Row /\ RowOK(rows[k]))
    BY DEF QueueInv, TypeOK
  <1>1. ASSUME NEW k \in Jobs, NEW r, rows' = [rows EXCEPT ![k] = r]
        PROVE  k = j /\ rows'[j] = r
    BY <1>0, <1>1, UpdatedRow
  <1>2. ASSUME NEW k \in Jobs, ClientStep(k) PROVE RestMove(j)
    <2>1. CASE Insert(k)
      <3>1. k = j /\ rows'[j] = [rows[k] EXCEPT !.status = "queued"]
        BY <1>1, <2>1 DEF Insert
      <3>2. rows[j].status = "none"
        BY <2>1, <3>1 DEF Insert, QueueInv, Entered
      <3>. QED
        BY <2>1, <3>1, <3>2 DEF RestMove
    <2>2. CASE CancelQueued(k)
      <3>1. k = j /\ rows'[j] = [rows[k] EXCEPT !.status = "cancelled",
                                   !.cancel_requested = TRUE, !.lease = "null"]
        BY <1>1, <2>2 DEF CancelQueued, Update
      <3>. QED
        BY <2>2, <3>1 DEF RestMove, CancelQueued
    <2>3. CASE CancelRunning(k)
      <3>1. k = j /\ rows'[j] = [rows[k] EXCEPT !.cancel_requested = TRUE]
        BY <1>1, <2>3 DEF CancelRunning, Update
      <3>. QED
        BY <2>3, <3>1 DEF RestMove, CancelRunning
    <2>. QED
      BY <1>2, <2>1, <2>2, <2>3
      DEF ClientStep, Cancel, ReadClock, RefuseFull
  <1>3. ASSUME NEW k \in Jobs, Lapse(k) PROVE RestMove(j)
    <2>1. k = j /\ rows'[j] = [rows[k] EXCEPT !.lease = "expired"]
      BY <1>1, <1>3 DEF Lapse, Update
    <2>. QED
      BY <1>3, <2>1 DEF RestMove, Lapse
  <1>4. ASSUME NEW k \in Jobs, NEW w \in Workers, Heartbeat(k, w)
        PROVE  RestMove(j)
    <2>1. k = j /\ rows'[j] = [rows[k] EXCEPT !.lease = "live"]
      BY <1>1, <1>4 DEF Heartbeat, Update
    <2>. QED
      BY <1>4, <2>1 DEF RestMove, Heartbeat, Owned
  <1>5. ASSUME NEW k \in Jobs, NEW w \in Workers, NEW again \in BOOLEAN,
               Fail(k, w, again)
        PROVE  RestMove(j)
    <2>1. k = j /\ rows'[j] = FailedRow(rows[k], again)
      BY <1>1, <1>5 DEF Fail, Update
    <2>. QED
      BY <1>5, <2>1 DEF RestMove, Fail, Owned
  <1>6. CASE ClaimNone
    BY <1>0, <1>6, RecoveredRow DEF ClaimNone, RestMove
  <1>. QED
    BY <1>2, <1>3, <1>4, <1>5, <1>6 DEF RestStep

LEMMA ClaimMoves ==
  ASSUME QueueInv, NEW k \in Jobs, NEW w \in Workers, Claim(w, k),
         NEW j \in Jobs
  PROVE  /\ j = k => ClaimMove(j, w)
         /\ j # k => rows'[j] = rows[j] \/ RestMove(j)
  <1>1. rows' = [Recovered EXCEPT ![k] = Started(@, w)]
        /\ Recovered[k].status = "queued"
    BY DEF Claim, Oldest, Claimable
  <1>2. CASE k = j
    BY <1>1, <1>2 DEF ClaimMove, Recovered
  <1>3. CASE k # j
    <2>1. rows'[j] = Recovered[j]
      BY <1>1, <1>3 DEF Recovered
    <2>. QED
      BY <1>3, <2>1, RecoveredRow DEF RestMove, QueueInv
  <1>. QED
    BY <1>2, <1>3

LEMMA FinishMoves ==
  ASSUME QueueInv, NEW k \in Jobs, NEW w \in Workers, NEW status \in Terminal,
         NEW result \in {0, rows[k].attempts}, Finish(k, w, status, result),
         NEW j \in Jobs, rows'[j] # rows[j]
  PROVE  j = k /\ FinishMove(j)
  <1>1. k = j /\ rows'[j] =
          [rows[k] EXCEPT !.status = FinishStatus(rows[k], status),
                          !.lease = "null", !.result = result]
    BY UpdatedRow DEF QueueInv, Finish, Update
  <1>. QED
    BY <1>1 DEF FinishMove, Finish, Owned

LEMMA RowMoves ==
  ASSUME QueueInv, QueueNext, NEW j \in Jobs, rows'[j] # rows[j]
  PROVE  \/ FinishMove(j)
         \/ RestMove(j)
         \/ \E w \in Workers : Claim(w, j) /\ ClaimMove(j, w)
  <1>1. \/ RestStep
        \/ \E k \in Jobs, w \in Workers : Claim(w, k)
        \/ \E k \in Jobs, w \in Workers, status \in Terminal :
             \E result \in {0, rows[k].attempts} : Finish(k, w, status, result)
    BY DEF QueueNext, HolderStep, RestStep
  <1>. QED
    BY <1>1, RestMoves, ClaimMoves, FinishMoves

(* A row that is not claimed: it was not settled, it keeps its flag and    *)
(* its attempts, and nobody becomes its owner.  Only a finish completes it *)
(* or names a result.                                                      *)
LEMMA MoveKeeps ==
  ASSUME QueueInv, NEW j \in Jobs, FinishMove(j) \/ RestMove(j)
  PROVE  /\ rows[j].status \notin Terminal
         /\ rows[j].cancel_requested => rows'[j].cancel_requested
         /\ rows'[j].attempts = rows[j].attempts
         /\ \A w \in Workers : Owned(j, w)' => Owned(j, w)
         /\ RestMove(j) => /\ rows'[j].status # "completed"
                           /\ rows'[j].result = rows[j].result
  <1>. DEFINE Kept == /\ rows[j].cancel_requested => rows'[j].cancel_requested
                      /\ rows'[j].attempts = rows[j].attempts
                      /\ \A w \in Workers : Owned(j, w)' => Owned(j, w)
              Unnamed == /\ rows'[j].status # "completed"
                         /\ rows'[j].result = rows[j].result
  <1>. USE DEF Row
  <1>0. rows[j] \in Row /\ RowOK(rows[j])
    BY DEF QueueInv, TypeOK
  <1>1. rows[j].status \notin Terminal
    BY DEF FinishMove, RestMove, Expired, Terminal
  <1>2. ASSUME FinishMove(j) PROVE Kept
    BY <1>0, <1>2 DEF FinishMove, Owned, FinishStatus, Terminal
  <1>3. ASSUME rows[j].status = "none",
               rows'[j] = [rows[j] EXCEPT !.status = "queued"]
        PROVE  Kept /\ Unnamed
    BY <1>0, <1>3 DEF Owned
  <1>4. ASSUME rows[j].status = "queued",
               rows'[j] = [rows[j] EXCEPT !.status = "cancelled",
                                 !.cancel_requested = TRUE, !.lease = "null"]
        PROVE  Kept /\ Unnamed
    BY <1>0, <1>4 DEF Owned
  <1>5. ASSUME rows[j].status = "running",
               rows'[j] = [rows[j] EXCEPT !.cancel_requested = TRUE]
        PROVE  Kept /\ Unnamed
    BY <1>0, <1>5 DEF Owned
  <1>6. ASSUME NEW lease, rows[j].status = "running",
               rows'[j] = [rows[j] EXCEPT !.lease = lease]
        PROVE  Kept /\ Unnamed
    BY <1>0, <1>6 DEF Owned
  <1>7. ASSUME NEW again, rows[j].status = "running",
               rows'[j] = FailedRow(rows[j], again)
        PROVE  Kept /\ Unnamed
    <2>1. CASE Retries(rows[j], again)
      BY <1>0, <1>7, <2>1 DEF Owned, FailedRow
    <2>2. CASE ~Retries(rows[j], again)
      BY <1>0, <1>7, <2>2 DEF Owned, FailedRow, FinishStatus
    <2>. QED
      BY <2>1, <2>2
  <1>8. ASSUME Expired(rows[j]), rows'[j] = Requeued(rows[j])
        PROVE  Kept /\ Unnamed
    <2>1. /\ rows'[j].attempts = rows[j].attempts
          /\ rows'[j].cancel_requested = rows[j].cancel_requested
          /\ rows'[j].result = rows[j].result
      BY <1>0, <1>8 DEF Requeued
    <2>2. rows'[j].status \in {"queued", "failed", "cancelled"}
      BY <1>0, <1>8, RequeuedRow
    <2>. QED
      BY <2>1, <2>2 DEF Owned
  <1>9. Kept /\ (RestMove(j) => Unnamed)
    <2>1. CASE RestMove(j)
      BY <2>1, <1>3, <1>4, <1>5, <1>6, <1>7, <1>8 DEF RestMove
    <2>. QED
      BY <1>2, <2>1
  <1>. QED
    BY <1>1, <1>9

LEMMA ClaimKeeps ==
  ASSUME QueueInv, NEW j \in Jobs, NEW w \in Workers, ClaimMove(j, w)
  PROVE  /\ rows[j].status \notin Terminal
         /\ rows'[j].cancel_requested = rows[j].cancel_requested
         /\ rows'[j].attempts = rows[j].attempts + 1
         /\ rows'[j].result = rows[j].result
         /\ \A v \in Workers : Owned(j, v)' <=> v = w
  <1>. USE DEF Row
  <1>1. rows[j] \in Row /\ Recovered[j] \in Row
        /\ Recovered[j] = IF Expired(rows[j]) THEN Requeued(rows[j])
                                              ELSE rows[j]
    BY RecoveredRow DEF QueueInv, TypeOK
  <1>2. /\ Recovered[j].attempts = rows[j].attempts
        /\ Recovered[j].cancel_requested = rows[j].cancel_requested
        /\ Recovered[j].result = rows[j].result
    BY <1>1 DEF Requeued
  <1>3. rows[j].status \notin Terminal
    BY <1>1 DEF ClaimMove, Expired, Terminal
  <1>4. rows'[j] = Started(Recovered[j], w)
    BY DEF ClaimMove
  <1>5. /\ rows'[j].attempts = rows[j].attempts + 1
        /\ rows'[j].status = "running"
        /\ rows'[j].worker_id = w
        /\ rows'[j].cancel_requested = rows[j].cancel_requested
        /\ rows'[j].result = rows[j].result
    BY <1>1, <1>2, <1>4 DEF Started
  <1>. QED
    BY <1>3, <1>5 DEF Owned

(* What a row keeps, whatever is done to it: a settled row everything, any *)
(* row its flag, and its attempts unless it is claimed.                    *)
LEMMA RowKeeps ==
  ASSUME QueueInv, QueueNext, NEW j \in Jobs
  PROVE  /\ rows[j].status \in Terminal => rows'[j] = rows[j]
         /\ rows[j].cancel_requested => rows'[j].cancel_requested
         /\ \/ rows'[j].attempts = rows[j].attempts
            \/ /\ rows'[j].attempts = rows[j].attempts + 1
               /\ \E w \in Workers : Claim(w, j)
  BY RowMoves, MoveKeeps, ClaimKeeps

(* Only a claim of the job counts an attempt.                              *)
LEMMA AttemptIsClaim ==
  ASSUME QueueInv, [QueueNext]_queueVars, NEW j \in Jobs,
         rows'[j].attempts > rows[j].attempts
  PROVE  \E w \in Workers : Claim(w, j)
  <1>1. rows[j] \in Row
    BY DEF QueueInv, TypeOK
  <1>2. QueueNext /\ rows'[j].attempts # rows[j].attempts
    BY <1>1 DEF queueVars, Row
  <1>. QED
    BY <1>2, RowKeeps

(* Jobs are claimed in the order in which their enqueue calls were made.   *)
THEOREM ClaimsInOrder == QueueSpec => FirstComeFirstServed
  <1>1. ASSUME QueueInv, [QueueNext]_queueVars, NEW j \in Jobs, NEW k \in Jobs,
               rows'[k].attempts > rows[k].attempts, j \in ahead[k],
               rows'[j].status = "queued"
        PROVE  FALSE
    <2>1. PICK w \in Workers : Claim(w, k)
      BY <1>1, AttemptIsClaim
    <2>2. /\ rows' = [Recovered EXCEPT ![k] = Started(@, w)]
          /\ \A i \in Claimable : created[k] <= created[i]
      BY <2>1 DEF Claim, Oldest
    <2>3. created[j] < created[k] /\ created[j] \in Nat /\ created[k] \in Nat
      BY <1>1 DEF QueueInv, Ordered, TypeOK
    <2>4. rows'[j] = Recovered[j]
      BY <2>2, <2>3 DEF Recovered
    <2>5. RowOK(Recovered[j])
      BY RecoveredRow, <1>1 DEF QueueInv
    <2>6. j \in Claimable
      BY <1>1, <2>4, <2>5 DEF Claimable, RowOK
    <2>. QED
      BY <2>2, <2>3, <2>6
  <1>2. QueueInv /\ [QueueNext]_queueVars =>
          [\A j, k \in Jobs :
             (rows'[k].attempts > rows[k].attempts /\ j \in ahead[k]) =>
               rows'[j].status # "queued"]_rows
    BY <1>1
  <1>. QED
    BY <1>2, QueueInvariant, PTL DEF QueueSpec, FirstComeFirstServed

(* A lease that has not run out protects its owner: only the owner itself  *)
(* gives the row back, and whoever owns it next has claimed it.            *)
THEOREM LeasesHonoured == QueueSpec => LeaseHonoured
  <1>. DEFINE Kept(j) == (rows[j].status = "running" /\ rows[j].lease = "live"
                          /\ rows'[j].worker_id # rows[j].worker_id) =>
                 rows'[j] = [rows[j] EXCEPT !.status = "queued", !.lease = "null",
                                            !.worker_id = None]
              Counted(j) == (rows'[j].worker_id \notin {None, rows[j].worker_id}) =>
                 rows'[j].attempts = rows[j].attempts + 1
  <1>1. ASSUME QueueInv, QueueNext, NEW j \in Jobs, rows'[j] # rows[j]
        PROVE  Kept(j) /\ Counted(j)
    <2>. USE DEF Row
    <2>1. /\ \/ FinishMove(j) \/ RestMove(j)
             \/ \E w \in Workers : ClaimMove(j, w)
          /\ rows[j] \in Row /\ RowOK(rows[j])
      BY <1>1, RowMoves DEF QueueInv, TypeOK
    <2>2. ASSUME rows'[j].worker_id = rows[j].worker_id
          PROVE  Kept(j) /\ Counted(j)
      BY <2>2
    <2>3. ASSUME NEW again \in BOOLEAN, rows[j].status = "running",
                 rows'[j] = FailedRow(rows[j], again)
          PROVE  Kept(j) /\ Counted(j)
      <3>1. CASE Retries(rows[j], again)
        BY <2>1, <2>3, <3>1 DEF FailedRow
      <3>2. CASE ~Retries(rows[j], again)
        BY <2>1, <2>2, <2>3, <3>2 DEF FailedRow
      <3>. QED
        BY <3>1, <3>2
    <2>4. CASE Expired(rows[j]) /\ rows'[j] = Requeued(rows[j])
      BY <2>1, <2>4 DEF Expired, Requeued
    <2>5. ASSUME NEW w \in Workers, ClaimMove(j, w)
          PROVE  Kept(j) /\ Counted(j)
      <3>1. Recovered[j] = IF Expired(rows[j]) THEN Requeued(rows[j])
                                               ELSE rows[j]
        BY <1>1, RecoveredRow DEF QueueInv
      <3>2. ~(rows[j].status = "running" /\ rows[j].lease = "live")
        BY <2>5, <3>1 DEF ClaimMove, Expired
      <3>. QED
        BY <1>1, <2>5, <3>2, ClaimKeeps
    <2>. QED
      BY <2>1, <2>2, <2>3, <2>4, <2>5 DEF FinishMove, RestMove
  <1>2. QueueInv /\ [QueueNext]_queueVars =>
          [\A j \in Jobs :
             /\ (rows[j].status = "running" /\ rows[j].lease = "live"
                 /\ rows'[j].worker_id # rows[j].worker_id) =>
                  rows'[j] = [rows[j] EXCEPT !.status = "queued",
                                             !.lease = "null",
                                             !.worker_id = None]
             /\ (rows'[j].worker_id \notin {None, rows[j].worker_id}) =>
                  rows'[j].attempts = rows[j].attempts + 1]_rows
    BY <1>1 DEF queueVars
  <1>. QED
    BY <1>2, QueueInvariant, PTL DEF QueueSpec, LeaseHonoured

----------------------------------------------------------------------------
(* The workers                                                             *)

(* A worker that has claimed a job and not returned from process_next.     *)
Working(w) == pc[w] \notin {"idle", "gone"}

(* The steps before the manifest of the attempt is written.                *)
Unwritten == {"reject", "check_start", "plan", "check_planned",
              "materialize", "write_manifest"}

Mine(w) == manifest[task[w].job][task[w].attempt]

(* A worker at work has a job and one of its attempts; any other has       *)
(* nothing left from the job before.                                       *)
Held(w) ==
  /\ Working(w) => /\ task[w].job \in Jobs
                   /\ task[w].attempt \in 1 .. MaxAttempts
                   /\ task[w].attempt <= rows[task[w].job].attempts
  /\ ~Working(w) => task[w] = NoTask /\ verdict[w] = "none"
  /\ pc[w] = "reject" => task[w].job \in CorruptJobs

(* The owner of a row works on its latest attempt.                         *)
Current(w) ==
  (Working(w) /\ Owns(w)) => task[w].attempt = rows[task[w].job].attempts

(* What a worker remembers of its manifest is what is on disk.             *)
Known(w) ==
  /\ pc[w] \in Unwritten => Mine(w) = "absent"
  /\ pc[w] \in {"write_manifest", "check_finished", "publish"} =>
       verdict[w] \in Verdicts
  /\ pc[w] = "check_finished" => Mine(w) = verdict[w]
  /\ pc[w] = "publish" =>
       Mine(w) # "absent" /\ verdict[w] \in {"cancelled", Mine(w)}
  /\ pc[w] = "rewrite" =>
       /\ Mine(w) # "absent"
       /\ rows[task[w].job].status = "cancelled"
       /\ rows[task[w].job].result = task[w].attempt

(* A worker reports a cancellation only if one was asked for.              *)
CancelAsked(w) ==
  (Working(w) /\ (verdict[w] = "cancelled" \/ pc[w] = "cancelling")) =>
    CancelSeen(w)

WorkerOK(w) == Held(w) /\ Current(w) /\ Known(w) /\ CancelAsked(w)

(* No two workers hold the same attempt at a job.                          *)
Apart ==
  \A v, w \in Workers : (Working(v) /\ Working(w) /\ v # w) =>
    (task[v].job # task[w].job \/ task[v].attempt # task[w].attempt)

(* An attempt that has not begun has no manifest.                          *)
Fresh ==
  \A j \in Jobs : \A a \in 1 .. MaxAttempts :
    rows[j].attempts < a => manifest[j][a] = "absent"

(* Only a settled row names a result, and the manifest agrees with it.     *)
ResultOK(j) ==
  LET r == rows[j] IN
  /\ r.status \notin Terminal => r.result = 0
  /\ r.result <= r.attempts
  /\ r.attempts <= MaxAttempts
  /\ r.status = "completed" =>
       r.result = r.attempts /\ r.result # 0 /\ manifest[j][r.result] = "done"
  /\ (r.status = "failed" /\ r.result # 0) =>
       r.result = r.attempts /\ manifest[j][r.result] = "failed"
  /\ (r.status = "cancelled" /\ r.result # 0) =>
       manifest[j][r.result] # "absent"

WorkerInv ==
  /\ QueueInv
  /\ WorkerTypeOK
  /\ \A w \in Workers : WorkerOK(w)
  /\ Apart
  /\ Fresh
  /\ \A j \in Jobs : ResultOK(j)

----------------------------------------------------------------------------
(* Every step of the workers is a step of the queue, or leaves it alone.   *)
LEMMA StepOfQueue ==
  ASSUME WorkerInv, [Next]_vars
  PROVE  [QueueNext]_queueVars
  <1>1. ASSUME NEW w \in Workers, Working(w)
        PROVE  /\ task[w].job \in Jobs
               /\ retry[w] \in BOOLEAN
               /\ Owns(w) => task[w].attempt = rows[task[w].job].attempts
    BY <1>1 DEF WorkerInv, WorkerTypeOK, WorkerOK, Held, Current
  <1>2. ASSUME NEW w \in Workers, PollNothing(w)
        PROVE  QueueNext
    BY <1>2 DEF PollNothing, QueueNext
  <1>3. ASSUME NEW w \in Workers, NEW j \in Jobs, PollClaims(w, j)
        PROVE  QueueNext
    BY <1>3 DEF PollClaims, QueueNext
  <1>4. ASSUME NEW w \in Workers, NEW again \in BOOLEAN, Working(w),
               Fail(task[w].job, w, again)
        PROVE  QueueNext
    BY <1>1, <1>4 DEF QueueNext, HolderStep
  <1>5. ASSUME NEW w \in Workers, Publish(w)
        PROVE  [QueueNext]_queueVars
    <2>1. Working(w) /\ verdict[w] \in Verdicts
      BY <1>5 DEF Publish, Working, WorkerInv, WorkerOK, Known
    <2>2. StatusFor[verdict[w]] \in Terminal
      BY <2>1 DEF StatusFor, Verdicts, Terminal
    <2>3. CASE Finish(task[w].job, w, StatusFor[verdict[w]], task[w].attempt)
      <3>1. task[w].attempt \in {0, rows[task[w].job].attempts}
        BY <1>1, <2>1, <2>3 DEF Finish, Owns
      <3>. QED
        BY <1>1, <2>1, <2>2, <2>3, <3>1 DEF QueueNext, HolderStep
    <2>. QED
      BY <1>5, <2>3 DEF Publish
  <1>6. ASSUME NEW w \in Workers, MarkCancelled(w)
        PROVE  [QueueNext]_queueVars
    <2>1. Working(w)
      BY <1>6 DEF MarkCancelled, Working
    <2>2. CASE Finish(task[w].job, w, "cancelled", 0)
      <3>1. "cancelled" \in Terminal
        BY DEF Terminal
      <3>. QED
        BY <1>1, <2>1, <2>2, <3>1 DEF QueueNext, HolderStep
    <2>. QED
      BY <1>6, <2>2 DEF MarkCancelled
  <1>7. ASSUME NEW w \in Workers, MainStep(w) PROVE [QueueNext]_queueVars
    BY <1>1, <1>2, <1>3, <1>4, <1>5, <1>6, <1>7
    DEF MainStep, RejectPayload, CheckStart, Plan, CheckPlanned, Poll,
        Materialize, WriteManifest, CheckFinished, RewriteManifest, FailJob,
        Working
  <1>8. ASSUME NEW w \in Workers, BeatStep(w) PROVE [QueueNext]_queueVars
    BY <1>8 DEF BeatStep, Beat, BeatStops, QueueNext, HolderStep
  <1>9. CASE Environment
    BY <1>9 DEF Environment, IoError, Crash, QueueNext
  <1>. QED
    BY <1>7, <1>8, <1>9 DEF Next, vars

----------------------------------------------------------------------------
(* Types.                                                                  *)
Task == [job: Jobs \cup {None}, attempt: 0 .. MaxAttempts]

LEMMA NoTaskType == NoTask \in Task
  BY LimitsAssumption DEF NoTask, Task

LEMMA ReturnTypes ==
  ASSUME WorkerTypeOK, NEW w \in Workers, Return(w) \/ Exit(w)
  PROVE  WorkerTypeOK'
  <1>. USE DEF WorkerTypeOK, Return, Exit, Goto
  <1>1. task' \in [Workers -> [job: Jobs \cup {None}, attempt: 0 .. MaxAttempts]]
    <2>. HIDE DEF NoTask
    <2>. QED
      BY NoTaskType DEF Task
  <1>2. beats' \subseteq Workers \X Jobs
    OBVIOUS
  <1>. QED
    BY <1>1, <1>2

LEMMA RaiseTypes ==
  ASSUME WorkerTypeOK, NEW w \in Workers, NEW again \in BOOLEAN,
         Raise(w, again)
  PROVE  WorkerTypeOK'
  BY DEF WorkerTypeOK, Raise, Goto, Processing

LEMMA TypesKept ==
  ASSUME WorkerInv, QueueInv', [Next]_vars
  PROVE  WorkerTypeOK'
  <1>. USE DEF Goto, Processing
  <1>0. WorkerTypeOK /\ \A w \in Workers : WorkerOK(w)
    BY DEF WorkerInv
  <1>1. ASSUME NEW w \in Workers, PollNothing(w) PROVE WorkerTypeOK'
    BY <1>0, <1>1 DEF PollNothing, workerVars, WorkerTypeOK
  <1>2. ASSUME NEW w \in Workers, NEW j \in Jobs, PollClaims(w, j)
        PROVE  WorkerTypeOK'
    <2>1. rows'[j].status = "running"
      BY <1>2, ClaimMoves, ClaimKeeps DEF PollClaims, WorkerInv, Owned
    <2>2. rows'[j].attempts \in 0 .. MaxAttempts
      BY <2>1, LimitsAssumption DEF QueueInv, RowOK, TypeOK, Row
    <2>3. [job |-> j, attempt |-> rows'[j].attempts] \in Task
      BY <2>2 DEF Task
    <2>4. task' \in [Workers -> Task]
      BY <1>0, <1>2, <2>3 DEF PollClaims, WorkerTypeOK, Task
    <2>5. beats' \subseteq Workers \X Jobs
      BY <1>0, <1>2 DEF PollClaims, WorkerTypeOK
    <2>. QED
      BY <1>0, <1>2, <2>4, <2>5 DEF PollClaims, WorkerTypeOK, Task
  <1>3. ASSUME NEW w \in Workers, RejectPayload(w) PROVE WorkerTypeOK'
    BY <1>0, <1>3, ReturnTypes DEF RejectPayload
  <1>4. ASSUME NEW w \in Workers,
               CheckStart(w) \/ CheckPlanned(w) \/ CheckFinished(w)
        PROVE  WorkerTypeOK'
    BY <1>0, <1>4
    DEF CheckStart, CheckPlanned, Poll, CheckFinished, WorkerTypeOK, Verdicts
  <1>5. ASSUME NEW w \in Workers, Plan(w) PROVE WorkerTypeOK'
    BY <1>0, <1>5, RaiseTypes DEF Plan, WorkerTypeOK
  <1>6. ASSUME NEW w \in Workers, Materialize(w) PROVE WorkerTypeOK'
    BY <1>0, <1>6, RaiseTypes DEF Materialize, WorkerTypeOK, Verdicts
  <1>7. ASSUME NEW w \in Workers, WriteManifest(w) PROVE WorkerTypeOK'
    <2>1. verdict[w] \in Verdicts
      BY <1>0, <1>7 DEF WriteManifest, WorkerOK, Known
    <2>. QED
      BY <1>0, <1>7, <2>1 DEF WriteManifest, WorkerTypeOK
  <1>8. ASSUME NEW w \in Workers, Publish(w) PROVE WorkerTypeOK'
    BY <1>0, <1>8, RaiseTypes, ReturnTypes DEF Publish, WorkerTypeOK
  <1>9. ASSUME NEW w \in Workers, RewriteManifest(w) PROVE WorkerTypeOK'
    BY <1>0, <1>9, NoTaskType
    DEF RewriteManifest, WorkerTypeOK, Task, Verdicts
  <1>10. ASSUME NEW w \in Workers, FailJob(w) \/ MarkCancelled(w)
         PROVE  WorkerTypeOK'
    BY <1>0, <1>10, ReturnTypes DEF FailJob, MarkCancelled
  <1>11. ASSUME NEW w \in Workers, BeatStep(w) PROVE WorkerTypeOK'
    BY <1>0, <1>11 DEF BeatStep, Beat, BeatStops, WorkerTypeOK
  <1>12. ASSUME NEW w \in Workers, IoError(w) \/ Crash(w) PROVE WorkerTypeOK'
    BY <1>0, <1>12, RaiseTypes, ReturnTypes DEF IoError, Crash
  <1>13. CASE UNCHANGED workerVars
    BY <1>0, <1>13 DEF workerVars, WorkerTypeOK
  <1>. QED
    BY <1>1, <1>2, <1>3, <1>4, <1>5, <1>6, <1>7, <1>8, <1>9, <1>10, <1>11,
       <1>12, <1>13
    DEF Next, vars, MainStep, Environment

----------------------------------------------------------------------------
(* What a step means for a worker that does not take it.                   *)

(* Nobody becomes the owner of a row, nor sees its attempts counted, but   *)
(* by a claim of its own.                                                  *)
Steady(j, w) ==
  Owned(j, w)' => Owned(j, w) /\ rows'[j].attempts = rows[j].attempts

LEMMA Steadiness ==
  ASSUME QueueInv, NEW j \in Jobs, NEW w \in Workers,
         \/ UNCHANGED queueVars
         \/ RestStep
         \/ \E k \in Jobs, v \in Workers, status \in Terminal :
              \E result \in {0, rows[k].attempts} : Finish(k, v, status, result)
         \/ \E k \in Jobs, v \in Workers \ {w} : Claim(v, k)
  PROVE  Steady(j, w)
  <1>1. CASE rows'[j] = rows[j]
    BY <1>1 DEF Steady, Owned
  <1>2. CASE FinishMove(j) \/ RestMove(j)
    BY <1>2, MoveKeeps DEF Steady
  <1>3. ASSUME NEW k \in Jobs, NEW v \in Workers \ {w}, Claim(v, k)
        PROVE  Steady(j, w)
    <2>1. CASE j = k
      BY <1>3, <2>1, ClaimMoves, ClaimKeeps DEF Steady
    <2>2. CASE j # k
      BY <1>1, <1>2, <1>3, <2>2, ClaimMoves
    <2>. QED
      BY <2>1, <2>2
  <1>. QED
    BY <1>1, <1>2, <1>3, RestMoves, FinishMoves DEF queueVars

LEMMA Bystander ==
  ASSUME WorkerInv, [QueueNext]_queueVars, NEW w \in Workers,
         pc'[w] = pc[w], task'[w] = task[w], verdict'[w] = verdict[w],
         Working(w) => Mine(w)' = Mine(w),
         Working(w) => Steady(task[w].job, w)
  PROVE  WorkerOK(w)'
  <1>0. WorkerOK(w) /\ QueueInv
    BY DEF WorkerInv
  <1>1. Working(w)' <=> Working(w)
    BY DEF Working
  <1>. DEFINE j == task[w].job
  <1>2. Working(w) => j \in Jobs /\ rows[j] \in Row /\ rows[j].attempts \in Nat
    BY <1>0 DEF WorkerOK, Held, QueueInv, TypeOK, Row
  <1>3. Working(w) => /\ rows[j].status \in Terminal => rows'[j] = rows[j]
                      /\ rows[j].cancel_requested => rows'[j].cancel_requested
                      /\ rows'[j].attempts >= rows[j].attempts
                      /\ rows'[j].attempts \in Nat
    BY <1>0, <1>2, RowKeeps DEF queueVars
  <1>4. Held(w)'
    BY <1>0, <1>1, <1>2, <1>3, LimitsAssumption DEF WorkerOK, Held
  <1>5. Current(w)'
    BY <1>0, <1>1 DEF WorkerOK, Current, Steady, Owns, Owned
  <1>6. Known(w)'
    BY <1>0, <1>1, <1>3 DEF WorkerOK, Known, Unwritten, Working, Terminal, Mine
  <1>7. CancelAsked(w)'
    BY <1>0, <1>1, <1>3 DEF WorkerOK, CancelAsked, CancelSeen, Terminal
  <1>. QED
    BY <1>4, <1>5, <1>6, <1>7 DEF WorkerOK

(* A worker that is not at work any more.                                  *)
LEMMA RestedOK ==
  ASSUME NEW w \in Workers, pc'[w] \in {"idle", "gone"},
         task'[w] = NoTask, verdict'[w] = "none"
  PROVE  WorkerOK(w)'
  BY DEF WorkerOK, Held, Current, Known, CancelAsked, Working, Unwritten

(* The manifests: at most the one of the attempt in hand is written.       *)
WritesOwn(w) ==
  \/ manifest' = manifest
  \/ /\ Working(w)
     /\ \E text \in Verdicts :
          manifest' = [manifest EXCEPT ![task[w].job][task[w].attempt] = text]

LEMMA WrittenElsewhere ==
  ASSUME WorkerTypeOK, NEW w \in Workers, WritesOwn(w),
         NEW j \in Jobs, NEW a \in 1 .. MaxAttempts,
         Working(w) => j # task[w].job \/ a # task[w].attempt
  PROVE  manifest'[j][a] = manifest[j][a]
  <1>1. manifest \in [Jobs -> [1 .. MaxAttempts -> Verdicts \cup {"absent"}]]
    BY DEF WorkerTypeOK
  <1>2. ASSUME NEW k, NEW b, NEW text, j # k \/ a # b,
               manifest' = [manifest EXCEPT ![k][b] = text]
        PROVE  manifest'[j][a] = manifest[j][a]
    <2>1. CASE j # k
      BY <1>1, <1>2, <2>1
    <2>2. CASE j = k
      <3>1. manifest'[j] = [manifest[j] EXCEPT ![b] = text]
        BY <1>1, <1>2, <2>2
      <3>. QED
        BY <1>1, <1>2, <2>2, <3>1
    <2>. QED
      BY <2>1, <2>2
  <1>3. CASE manifest' = manifest
    BY <1>3
  <1>4. ASSUME Working(w), NEW text,
               manifest' = [manifest EXCEPT ![task[w].job][task[w].attempt] = text]
        PROVE  manifest'[j][a] = manifest[j][a]
    BY <1>2, <1>4
  <1>. QED
    BY <1>3, <1>4 DEF WritesOwn

LEMMA OthersManifests ==
  ASSUME WorkerInv, NEW w \in Workers, WritesOwn(w),
         NEW v \in Workers \ {w}, Working(v)
  PROVE  manifest'[task[v].job][task[v].attempt] = Mine(v)
  <1>1. task[v].job \in Jobs /\ task[v].attempt \in 1 .. MaxAttempts
    BY DEF WorkerInv, WorkerOK, Held
  <1>2. Working(w) => \/ task[v].job # task[w].job
                      \/ task[v].attempt # task[w].attempt
    BY DEF WorkerInv, Apart
  <1>. QED
    BY <1>1, <1>2, WrittenElsewhere DEF WorkerInv, Mine

LEMMA FreshKept ==
  ASSUME WorkerInv, [QueueNext]_queueVars, NEW w \in Workers, WritesOwn(w)
  PROVE  Fresh'
  <1>. SUFFICES ASSUME NEW j \in Jobs, NEW a \in 1 .. MaxAttempts,
                       rows'[j].attempts < a
                PROVE  manifest'[j][a] = "absent"
    BY DEF Fresh
  <1>1. rows[j].attempts \in Nat /\ rows'[j].attempts \in Nat
        /\ rows[j].attempts <= rows'[j].attempts
    <2>1. rows[j].attempts \in Nat
      BY DEF WorkerInv, QueueInv, TypeOK, Row
    <2>2. \/ rows'[j].attempts = rows[j].attempts
          \/ rows'[j].attempts = rows[j].attempts + 1
      BY RowKeeps DEF WorkerInv, queueVars
    <2>. QED
      BY <2>1, <2>2
  <1>2. manifest[j][a] = "absent"
    BY <1>1, LimitsAssumption DEF WorkerInv, Fresh
  <1>3. ASSUME Working(w)
        PROVE  j # task[w].job \/ a # task[w].attempt
    BY <1>1, <1>3, LimitsAssumption DEF WorkerInv, WorkerOK, Held
  <1>. QED
    BY <1>2, <1>3, WrittenElsewhere DEF WorkerInv

(* Rows that name no new result, with their manifests left alone.          *)
LEMMA ResultsKept ==
  ASSUME WorkerInv, QueueInv', NEW j \in Jobs,
         manifest'[j] = manifest[j],
         \/ rows'[j] = rows[j]
         \/ RestMove(j)
         \/ \E w \in Workers : ClaimMove(j, w)
  PROVE  ResultOK(j)'
  <1>0. ResultOK(j) /\ QueueInv /\ rows[j] \in Row /\ rows'[j] \in Row
        /\ RowOK(rows[j])'
    BY DEF WorkerInv, QueueInv, TypeOK
  <1>1. CASE rows'[j] = rows[j]
    BY <1>0, <1>1 DEF ResultOK
  <1>2. CASE RestMove(j)
    <2>1. /\ rows[j].result = 0
          /\ rows'[j].result = rows[j].result
          /\ rows'[j].status # "completed"
          /\ rows'[j].attempts = rows[j].attempts
      BY <1>0, <1>2, MoveKeeps DEF ResultOK
    <2>. QED
      BY <1>0, <2>1, LimitsAssumption DEF ResultOK, Row
  <1>3. ASSUME NEW w \in Workers, ClaimMove(j, w) PROVE ResultOK(j)'
    <2>1. /\ rows[j].result = 0
          /\ rows'[j].result = rows[j].result
          /\ rows'[j].status = "running"
      BY <1>0, <1>3, ClaimKeeps DEF ResultOK, Owned
    <2>2. rows'[j].attempts \in Nat /\ rows'[j].attempts <= MaxAttempts
      BY <1>0, <2>1 DEF RowOK, Row
    <2>. QED
      BY <2>1, <2>2 DEF ResultOK, Terminal
  <1>. QED
    BY <1>1, <1>2, <1>3

----------------------------------------------------------------------------
(* One step of one worker.                                                 *)
LEMMA OneWorker ==
  ASSUME WorkerInv, QueueInv', WorkerTypeOK', [QueueNext]_queueVars,
         NEW w \in Workers,
         \A v \in Workers \ {w} :
           /\ pc'[v] = pc[v] /\ task'[v] = task[v] /\ verdict'[v] = verdict[v]
           /\ \A j \in Jobs : Steady(j, v),
         WritesOwn(w),
         WorkerOK(w)',
         Working(w)' => \/ Working(w) /\ task'[w] = task[w]
                        \/ /\ task'[w].job \in Jobs
                           /\ task'[w].attempt > rows[task'[w].job].attempts,
         \A j \in Jobs : ResultOK(j)'
  PROVE  WorkerInv'
  <1>0. QueueInv /\ Apart /\ \A v \in Workers : WorkerOK(v)
    BY DEF WorkerInv
  <1>1. \A v \in Workers : WorkerOK(v)'
    <2>. SUFFICES ASSUME NEW v \in Workers \ {w} PROVE WorkerOK(v)'
      OBVIOUS
    <2>1. Working(v) => Mine(v)' = Mine(v)
      BY OthersManifests DEF Mine
    <2>2. Working(v) => Steady(task[v].job, v)
      BY <1>0 DEF WorkerOK, Held
    <2>. QED
      BY <2>1, <2>2, Bystander
  <1>2. Apart'
    <2>1. ASSUME NEW v \in Workers \ {w}, Working(v)', Working(w)'
          PROVE  \/ task'[v].job # task'[w].job
                 \/ task'[v].attempt # task'[w].attempt
      <3>1. Working(v) /\ task'[v] = task[v]
        BY <2>1 DEF Working
      <3>2. CASE Working(w) /\ task'[w] = task[w]
        BY <1>0, <3>1, <3>2 DEF Apart
      <3>3. CASE /\ task'[w].job \in Jobs
                 /\ task'[w].attempt > rows[task'[w].job].attempts
        <4>1. /\ task[v].job \in Jobs
              /\ task[v].attempt \in Nat
              /\ rows[task[v].job].attempts \in Nat
              /\ task[v].attempt <= rows[task[v].job].attempts
          BY <1>0, <3>1, LimitsAssumption
          DEF WorkerOK, Held, QueueInv, TypeOK, Row
        <4>2. task'[w].attempt \in Nat
          BY LimitsAssumption DEF WorkerTypeOK
        <4>. QED
          BY <3>1, <3>3, <4>1, <4>2
      <3>. QED
        BY <2>1, <3>2, <3>3
    <2>2. \A v1, v2 \in Workers :
            (Working(v1) /\ Working(v2) /\ v1 # v2 /\ v1 # w /\ v2 # w)' =>
              (task[v1].job # task[v2].job \/ task[v1].attempt # task[v2].attempt)'
      BY <1>0 DEF Apart, Working
    <2>. QED
      BY <2>1, <2>2 DEF Apart
  <1>3. Fresh'
    BY FreshKept
  <1>. QED
    BY <1>1, <1>2, <1>3 DEF WorkerInv

(* A step of the queue in which no worker changes its place.               *)
LEMMA NoWorker ==
  ASSUME WorkerInv, QueueInv', WorkerTypeOK',
         UNCHANGED queueVars \/ RestStep,
         UNCHANGED <<pc, task, verdict, manifest>>
  PROVE  WorkerInv'
  <1>0. QueueInv
    BY DEF WorkerInv
  <1>1. [QueueNext]_queueVars
    BY DEF RestStep, QueueNext, HolderStep
  <1>2. \A v \in Workers : WorkerOK(v)'
    <2>. SUFFICES ASSUME NEW v \in Workers PROVE WorkerOK(v)'
      OBVIOUS
    <2>1. Working(v) => Steady(task[v].job, v)
      BY <1>0, Steadiness DEF WorkerInv, WorkerOK, Held
    <2>. QED
      BY <1>1, <2>1, Bystander DEF Mine
  <1>3. Apart'
    BY DEF WorkerInv, Apart, Working
  <1>4. Fresh'
    <2>1. ASSUME NEW j \in Jobs
          PROVE  rows[j].attempts \in Nat
                 /\ rows'[j].attempts \in Nat
                 /\ rows[j].attempts <= rows'[j].attempts
      <3>1. rows[j].attempts \in Nat
        BY <1>0 DEF QueueInv, TypeOK, Row
      <3>2. \/ rows'[j].attempts = rows[j].attempts
            \/ rows'[j].attempts = rows[j].attempts + 1
        BY <1>0, <1>1, RowKeeps DEF queueVars
      <3>. QED
        BY <3>1, <3>2
    <2>. QED
      BY <2>1, LimitsAssumption DEF WorkerInv, Fresh
  <1>5. \A j \in Jobs : ResultOK(j)'
    BY <1>0, ResultsKept, RestMoves DEF queueVars
  <1>. QED
    BY <1>2, <1>3, <1>4, <1>5 DEF WorkerInv

----------------------------------------------------------------------------
(* The steps of a worker that leave the table alone.                       *)
LEMMA LocalStep ==
  ASSUME WorkerInv, QueueInv', WorkerTypeOK', UNCHANGED queueVars,
         NEW w \in Workers,
         \A v \in Workers \ {w} :
           pc'[v] = pc[v] /\ task'[v] = task[v] /\ verdict'[v] = verdict[v],
         manifest' = manifest,
         WorkerOK(w)',
         Working(w)' => Working(w) /\ task'[w] = task[w]
  PROVE  WorkerInv'
  <1>1. \A v \in Workers \ {w} : \A j \in Jobs : Steady(j, v)
    BY Steadiness DEF WorkerInv
  <1>2. \A j \in Jobs : ResultOK(j)'
    BY ResultsKept DEF WorkerInv, queueVars
  <1>. QED
    BY <1>1, <1>2, OneWorker DEF WritesOwn

LEMMA ExitInv ==
  ASSUME WorkerInv, QueueInv', WorkerTypeOK', UNCHANGED queueVars,
         NEW w \in Workers, Return(w) \/ Exit(w)
  PROVE  WorkerInv'
  <1>. USE DEF Return, Exit, Goto
  <1>0. WorkerTypeOK
    BY DEF WorkerInv
  <1>1. /\ pc'[w] \in {"idle", "gone"}
        /\ task'[w] = NoTask /\ verdict'[w] = "none"
    BY <1>0 DEF WorkerTypeOK
  <1>2. WorkerOK(w)' /\ ~Working(w)'
    BY <1>1, RestedOK DEF Working
  <1>3. \A v \in Workers \ {w} :
          pc'[v] = pc[v] /\ task'[v] = task[v] /\ verdict'[v] = verdict[v]
    BY <1>0 DEF WorkerTypeOK
  <1>. QED
    BY <1>2, <1>3, LocalStep

(* A worker at work goes on to another label, its task and verdict kept.   *)
LEMMA MovesOn ==
  ASSUME WorkerInv, QueueInv', WorkerTypeOK', UNCHANGED queueVars,
         NEW w \in Workers, NEW label, Goto(w, label), Working(w),
         label \notin {"idle", "gone", "reject"},
         UNCHANGED <<task, manifest>>,
         \A v \in Workers \ {w} : verdict'[v] = verdict[v],
         Known(w)', CancelAsked(w)'
  PROVE  WorkerInv'
  <1>. USE DEF Goto
  <1>0. WorkerTypeOK /\ WorkerOK(w)
    BY DEF WorkerInv
  <1>1. pc'[w] = label /\ Working(w)'
    BY <1>0 DEF WorkerTypeOK, Working
  <1>2. Held(w)' /\ Current(w)'
    BY <1>0, <1>1 DEF WorkerOK, Held, Current, Owns, Owned, queueVars
  <1>3. \A v \in Workers \ {w} : pc'[v] = pc[v]
    BY <1>0 DEF WorkerTypeOK
  <1>. QED
    BY <1>1, <1>2, <1>3, LocalStep DEF WorkerOK

LEMMA RaiseInv ==
  ASSUME WorkerInv, QueueInv', WorkerTypeOK', UNCHANGED queueVars,
         NEW w \in Workers, NEW again \in BOOLEAN, Raise(w, again), Working(w)
  PROVE  WorkerInv'
  <1>0. WorkerTypeOK /\ WorkerOK(w)
    BY DEF WorkerInv
  <1>1. pc'[w] = "failing" /\ UNCHANGED <<task, verdict, manifest>>
    BY <1>0 DEF Raise, Goto, WorkerTypeOK
  <1>2. Known(w)'
    BY <1>1 DEF Known, Unwritten
  <1>3. CancelAsked(w)'
    BY <1>0, <1>1 DEF WorkerOK, CancelAsked, CancelSeen, queueVars
  <1>. QED
    BY <1>1, <1>2, <1>3, MovesOn DEF Raise

LEMMA LocalInv ==
  ASSUME WorkerInv, QueueInv', WorkerTypeOK', UNCHANGED queueVars,
         NEW w \in Workers,
         \/ CheckStart(w) \/ Plan(w) \/ CheckPlanned(w) \/ Materialize(w)
         \/ CheckFinished(w)
  PROVE  WorkerInv'
  <1>0. WorkerTypeOK /\ WorkerOK(w)
    BY DEF WorkerInv
  <1>. USE DEF Goto, WorkerTypeOK
  <1>1. Working(w)
    BY DEF CheckStart, Plan, CheckPlanned, Poll, Materialize, CheckFinished,
           Working
  <1>2. ASSUME NEW here \in {"check_start", "check_planned"},
               NEW next \in {"plan", "materialize"}, Poll(w, here, next)
        PROVE  WorkerInv'
    <2>. DEFINE label == IF CancelSeen(w) THEN "cancelling" ELSE next
    <2>1. pc'[w] = label /\ UNCHANGED <<task, verdict, manifest>>
          /\ Goto(w, label)
      BY <1>0, <1>2 DEF Poll
    <2>2. Known(w)'
      BY <1>0, <1>2, <2>1 DEF Poll, WorkerOK, Known, Unwritten, Mine
    <2>3. CancelAsked(w)'
      BY <1>0, <1>1, <2>1 DEF WorkerOK, CancelAsked, CancelSeen, queueVars
    <2>. QED
      BY <1>1, <2>1, <2>2, <2>3, MovesOn
  <1>3. CASE Plan(w)
    <2>1. CASE Goto(w, "check_planned")
               /\ UNCHANGED <<task, verdict, retry, beats, manifest>>
      <3>1. pc'[w] = "check_planned"
        BY <1>0, <2>1
      <3>2. Known(w)'
        BY <1>0, <1>3, <2>1, <3>1 DEF Plan, WorkerOK, Known, Unwritten, Mine
      <3>3. CancelAsked(w)'
        BY <1>0, <1>1, <2>1, <3>1
        DEF WorkerOK, CancelAsked, CancelSeen, queueVars
      <3>. QED
        BY <1>1, <2>1, <3>2, <3>3, MovesOn
    <2>. QED
      BY <1>1, <1>3, <2>1, RaiseInv DEF Plan
  <1>4. CASE Materialize(w)
    <2>1. ASSUME NEW v \in {"done", "failed"} \cup
                    (IF CancelSeen(w) THEN {"cancelled"} ELSE {}),
                 verdict' = [verdict EXCEPT ![w] = v],
                 Goto(w, "write_manifest"),
                 UNCHANGED <<task, retry, beats, manifest>>
          PROVE  WorkerInv'
      <3>1. pc'[w] = "write_manifest" /\ verdict'[w] = v
            /\ \A u \in Workers \ {w} : verdict'[u] = verdict[u]
        BY <1>0, <2>1
      <3>2. Known(w)'
        BY <1>0, <1>4, <2>1, <3>1
        DEF Materialize, WorkerOK, Known, Unwritten, Mine, Verdicts
      <3>3. CancelAsked(w)'
        BY <2>1, <3>1 DEF CancelAsked, CancelSeen, queueVars
      <3>. QED
        BY <1>1, <2>1, <3>1, <3>2, <3>3, MovesOn
    <2>. QED
      BY <1>1, <1>4, <2>1, RaiseInv DEF Materialize
  <1>5. CASE CheckFinished(w)
    <2>1. /\ pc'[w] = "publish" /\ Goto(w, "publish")
          /\ verdict'[w] = IF CancelSeen(w) THEN "cancelled" ELSE verdict[w]
          /\ \A u \in Workers \ {w} : verdict'[u] = verdict[u]
          /\ UNCHANGED <<task, manifest>>
      BY <1>0, <1>5 DEF CheckFinished
    <2>2. Mine(w) = verdict[w] /\ verdict[w] \in Verdicts
      BY <1>0, <1>5 DEF CheckFinished, WorkerOK, Known
    <2>3. Known(w)'
      BY <2>1, <2>2 DEF Known, Unwritten, Mine, Verdicts
    <2>4. CancelAsked(w)'
      BY <1>0, <1>1, <2>1 DEF WorkerOK, CancelAsked, CancelSeen, queueVars
    <2>. QED
      BY <1>1, <2>1, <2>3, <2>4, MovesOn
  <1>. QED
    BY <1>2, <1>3, <1>4, <1>5 DEF CheckStart, CheckPlanned

----------------------------------------------------------------------------
(* The steps that write a manifest.                                        *)
LEMMA WriteInv ==
  ASSUME WorkerInv, QueueInv', WorkerTypeOK', UNCHANGED queueVars,
         NEW w \in Workers, WriteManifest(w)
  PROVE  WorkerInv'
  <1>. DEFINE j == task[w].job  a == task[w].attempt
  <1>0. WorkerTypeOK /\ WorkerOK(w) /\ QueueInv
    BY DEF WorkerInv
  <1>1. /\ Working(w) /\ j \in Jobs /\ a \in 1 .. MaxAttempts
        /\ verdict[w] \in Verdicts
        /\ manifest[j][a] = "absent"
    BY <1>0 DEF WriteManifest, Working, WorkerOK, Held, Known, Unwritten, Mine
  <1>2. /\ pc'[w] = "check_finished"
        /\ UNCHANGED <<task, verdict>>
        /\ \A v \in Workers \ {w} : pc'[v] = pc[v]
        /\ manifest' = [manifest EXCEPT ![j][a] = verdict[w]]
    BY <1>0 DEF WriteManifest, Goto, WorkerTypeOK
  <1>3. manifest'[j][a] = verdict[w]
    BY <1>0, <1>1, <1>2 DEF WorkerTypeOK
  <1>4. WritesOwn(w)
    BY <1>1, <1>2 DEF WritesOwn
  <1>5. WorkerOK(w)'
    <2>1. Held(w)' /\ Current(w)'
      BY <1>0, <1>1, <1>2
      DEF WorkerOK, Held, Current, Owns, Owned, queueVars, Working
    <2>2. Known(w)'
      BY <1>1, <1>2, <1>3 DEF Known, Unwritten, Mine
    <2>3. CancelAsked(w)'
      BY <1>0, <1>1, <1>2 DEF WorkerOK, CancelAsked, CancelSeen, queueVars
    <2>. QED
      BY <2>1, <2>2, <2>3 DEF WorkerOK
  <1>6. ASSUME NEW k \in Jobs PROVE ResultOK(k)'
    <2>1. ResultOK(k) /\ rows' = rows /\ rows[k] \in Row
      BY <1>0 DEF WorkerInv, queueVars, QueueInv, TypeOK
    <2>2. ASSUME NEW b \in 1 .. MaxAttempts, manifest[k][b] # "absent"
          PROVE  manifest'[k][b] = manifest[k][b]
      BY <1>0, <1>1, <1>4, <2>2, WrittenElsewhere
    <2>3. rows[k].result # 0 => rows[k].result \in 1 .. MaxAttempts
      BY <2>1, LimitsAssumption DEF ResultOK, Row
    <2>. QED
      BY <2>1, <2>2, <2>3 DEF ResultOK
  <1>7. \A v \in Workers \ {w} : \A k \in Jobs : Steady(k, v)
    BY <1>0, Steadiness
  <1>. QED
    BY <1>1, <1>2, <1>4, <1>5, <1>6, <1>7, OneWorker

LEMMA RewriteInv ==
  ASSUME WorkerInv, QueueInv', WorkerTypeOK', UNCHANGED queueVars,
         NEW w \in Workers, RewriteManifest(w)
  PROVE  WorkerInv'
  <1>. DEFINE j == task[w].job  a == task[w].attempt
  <1>0. WorkerTypeOK /\ WorkerOK(w) /\ QueueInv
    BY DEF WorkerInv
  <1>1. /\ Working(w) /\ j \in Jobs /\ a \in 1 .. MaxAttempts
        /\ rows[j].status = "cancelled" /\ rows[j].result = a
    BY <1>0 DEF RewriteManifest, Working, WorkerOK, Held, Known
  <1>2. /\ pc'[w] = "idle" /\ task'[w] = NoTask /\ verdict'[w] = "none"
        /\ \A v \in Workers \ {w} :
             pc'[v] = pc[v] /\ task'[v] = task[v] /\ verdict'[v] = verdict[v]
        /\ manifest' = [manifest EXCEPT ![j][a] = "cancelled"]
    BY <1>0 DEF RewriteManifest, Goto, WorkerTypeOK
  <1>3. WorkerOK(w)' /\ ~Working(w)'
    BY <1>2, RestedOK DEF Working
  <1>4. WritesOwn(w) /\ manifest'[j][a] = "cancelled"
    BY <1>0, <1>1, <1>2 DEF WritesOwn, Verdicts, WorkerTypeOK
  <1>5. ASSUME NEW k \in Jobs PROVE ResultOK(k)'
    <2>1. ResultOK(k) /\ rows' = rows
      BY DEF WorkerInv, queueVars
    <2>2. CASE k = j
      BY <1>1, <1>4, <2>1, <2>2 DEF ResultOK
    <2>3. CASE k # j
      <3>1. manifest'[k] = manifest[k]
        BY <1>0, <1>2, <2>3 DEF WorkerTypeOK
      <3>. QED
        BY <2>1, <3>1 DEF ResultOK
    <2>. QED
      BY <2>2, <2>3
  <1>6. \A v \in Workers \ {w} : \A k \in Jobs : Steady(k, v)
    BY <1>0, Steadiness
  <1>. QED
    BY <1>2, <1>3, <1>4, <1>5, <1>6, OneWorker

----------------------------------------------------------------------------
(* The steps that change the row of the job in hand.                       *)
LEMMA PollClaimsInv ==
  ASSUME WorkerInv, QueueInv', WorkerTypeOK',
         NEW w \in Workers, NEW j \in Jobs, PollClaims(w, j)
  PROVE  WorkerInv'
  <1>0. WorkerTypeOK /\ WorkerOK(w) /\ QueueInv /\ Fresh
    BY DEF WorkerInv
  <1>1. Claim(w, j) /\ pc[w] = "idle"
    BY DEF PollClaims
  <1>2. [QueueNext]_queueVars
    BY <1>1 DEF QueueNext
  <1>3. /\ rows'[j].attempts = rows[j].attempts + 1
        /\ rows'[j].status = "running"
        /\ rows[j].attempts \in Nat
    BY <1>0, <1>1, ClaimMoves, ClaimKeeps DEF Owned, QueueInv, TypeOK, Row
  <1>4. rows'[j].attempts \in 1 .. MaxAttempts
    BY <1>3, LimitsAssumption DEF QueueInv, RowOK, TypeOK, Row
  <1>5. /\ task'[w] = [job |-> j, attempt |-> rows'[j].attempts]
        /\ pc'[w] = IF j \in CorruptJobs THEN "reject" ELSE "check_start"
        /\ verdict' = verdict /\ manifest' = manifest
        /\ \A v \in Workers \ {w} : pc'[v] = pc[v] /\ task'[v] = task[v]
    BY <1>0 DEF PollClaims, Goto, WorkerTypeOK
  <1>6. WorkerOK(w)'
    <2>1. Held(w)' /\ Current(w)'
      BY <1>4, <1>5, LimitsAssumption DEF Held, Current, Owns, Working
    <2>2. manifest[j][rows'[j].attempts] = "absent"
      BY <1>0, <1>3, <1>4 DEF Fresh
    <2>3. Known(w)'
      BY <1>5, <2>2 DEF Known, Unwritten, Mine
    <2>4. CancelAsked(w)'
      BY <1>0, <1>1, <1>5 DEF WorkerOK, Held, CancelAsked, Working
    <2>. QED
      BY <2>1, <2>3, <2>4 DEF WorkerOK
  <1>7. \A v \in Workers \ {w} : \A k \in Jobs : Steady(k, v)
    BY <1>0, <1>1, Steadiness
  <1>8. \A k \in Jobs : ResultOK(k)'
    BY <1>0, <1>1, <1>5, ClaimMoves, ResultsKept
  <1>. QED
    BY <1>2, <1>3, <1>5, <1>6, <1>7, <1>8, OneWorker DEF WritesOwn

(* fail and the return from process_next.                                  *)
LEMMA FailedInv ==
  ASSUME WorkerInv, QueueInv', WorkerTypeOK',
         NEW w \in Workers, NEW again \in BOOLEAN, Working(w),
         Fail(task[w].job, w, again), Return(w)
  PROVE  WorkerInv'
  <1>0. WorkerTypeOK /\ WorkerOK(w) /\ QueueInv
    BY DEF WorkerInv
  <1>1. RestStep
    BY <1>0 DEF RestStep, WorkerOK, Held
  <1>2. [QueueNext]_queueVars
    BY <1>1 DEF RestStep, QueueNext, HolderStep
  <1>3. /\ pc'[w] = "idle" /\ task'[w] = NoTask /\ verdict'[w] = "none"
        /\ manifest' = manifest
        /\ \A v \in Workers \ {w} :
             pc'[v] = pc[v] /\ task'[v] = task[v] /\ verdict'[v] = verdict[v]
    BY <1>0 DEF Return, Goto, WorkerTypeOK
  <1>4. WorkerOK(w)' /\ ~Working(w)'
    BY <1>3, RestedOK DEF Working
  <1>5. \A v \in Workers \ {w} : \A k \in Jobs : Steady(k, v)
    BY <1>0, <1>1, Steadiness
  <1>6. \A k \in Jobs : ResultOK(k)'
    BY <1>0, <1>1, <1>3, RestMoves, ResultsKept
  <1>. QED
    BY <1>2, <1>3, <1>4, <1>5, <1>6, OneWorker DEF WritesOwn

(* complete, mark_failed or mark_cancelled, and what follows.              *)
LEMMA FinishedInv ==
  ASSUME WorkerInv, QueueInv', WorkerTypeOK', [Next]_vars,
         NEW w \in Workers, NEW status \in Terminal, Working(w),
         NEW result \in {0, task[w].attempt},
         Finish(task[w].job, w, status, result),
         result = 0 => status = "cancelled",
         result # 0 => /\ Mine(w) # "absent"
                       /\ status = "completed" => Mine(w) = "done"
                       /\ status = "failed" => Mine(w) = "failed",
         UNCHANGED manifest,
         \A v \in Workers \ {w} :
           pc'[v] = pc[v] /\ task'[v] = task[v] /\ verdict'[v] = verdict[v],
         WorkerOK(w)',
         Working(w)' => task'[w] = task[w]
  PROVE  WorkerInv'
  <1>. DEFINE j == task[w].job
  <1>0. WorkerTypeOK /\ WorkerOK(w) /\ QueueInv
    BY DEF WorkerInv
  <1>1. /\ j \in Jobs /\ rows[j] \in Row /\ rows \in [Jobs -> Row]
        /\ task[w].attempt \in 1 .. MaxAttempts
        /\ task[w].attempt = rows[j].attempts
        /\ rows[j].status = "running"
    BY <1>0 DEF WorkerOK, Held, Current, Finish, Owns, Owned, QueueInv, TypeOK
  <1>2. [QueueNext]_queueVars
    BY StepOfQueue
  <1>3. \A v \in Workers \ {w} : \A k \in Jobs : Steady(k, v)
    BY <1>0, <1>1, Steadiness
  <1>4. ASSUME NEW k \in Jobs, k = j PROVE ResultOK(k)'
    <2>1. rows'[k] = [rows[k] EXCEPT !.status = FinishStatus(rows[k], status),
                                     !.lease = "null", !.result = result]
      BY <1>1, <1>4 DEF Finish, Update
    <2>2. /\ rows'[k].result = result
          /\ rows'[k].attempts = rows[k].attempts
          /\ rows'[k].status \in {status, "cancelled"}
          /\ rows[k].attempts \in 1 .. MaxAttempts
      BY <1>1, <1>4, <2>1 DEF Row, FinishStatus
    <2>3. CASE result = 0
      BY <2>2, <2>3, LimitsAssumption DEF ResultOK, Terminal
    <2>4. CASE result # 0
      <3>1. result = rows[k].attempts /\ manifest'[k][result] = Mine(w)
        BY <1>1, <1>4, <2>4 DEF Mine
      <3>. QED
        BY <2>2, <2>4, <3>1, LimitsAssumption DEF ResultOK, Terminal
    <2>. QED
      BY <2>3, <2>4
  <1>5. ASSUME NEW k \in Jobs, k # j PROVE ResultOK(k)'
    <2>1. rows'[k] = rows[k]
      BY <1>1, <1>5 DEF Finish, Update
    <2>. QED
      BY <2>1, ResultsKept
  <1>. QED
    BY <1>2, <1>3, <1>4, <1>5, OneWorker DEF WritesOwn

LEMMA PublishInv ==
  ASSUME WorkerInv, QueueInv', WorkerTypeOK', [Next]_vars,
         NEW w \in Workers, Publish(w)
  PROVE  WorkerInv'
  <1>. DEFINE j == task[w].job  a == task[w].attempt
              status == StatusFor[verdict[w]]
  <1>0. WorkerTypeOK /\ WorkerOK(w) /\ QueueInv
    BY DEF WorkerInv
  <1>1. /\ pc[w] = "publish" /\ Working(w)
        /\ j \in Jobs /\ a \in 1 .. MaxAttempts
        /\ verdict[w] \in Verdicts
        /\ Mine(w) # "absent" /\ verdict[w] \in {"cancelled", Mine(w)}
    BY <1>0 DEF Publish, Working, WorkerOK, Held, Known
  <1>2. /\ status \in Terminal
        /\ status = "completed" => Mine(w) = "done"
        /\ status = "failed" => Mine(w) = "failed"
    BY <1>1 DEF StatusFor, Verdicts, Terminal
  <1>3. CASE Raise(w, TRUE) /\ UNCHANGED queueVars
    BY <1>1, <1>3, RaiseInv
  <1>4. CASE Finish(j, w, status, a) /\ MustRewrite(w) /\ Goto(w, "rewrite")
             /\ UNCHANGED <<task, verdict, retry, beats, manifest>>
    <2>1. /\ pc'[w] = "rewrite" /\ \A v \in Workers \ {w} : pc'[v] = pc[v]
      BY <1>0, <1>4 DEF Goto, WorkerTypeOK
    <2>2. /\ rows'[j].result = a /\ rows'[j].status = "cancelled"
          /\ rows'[j].attempts = rows[j].attempts
      BY <1>0, <1>1, <1>4
      DEF Finish, Update, MustRewrite, QueueInv, TypeOK, Row
    <2>3. Held(w)' /\ Current(w)'
      BY <1>0, <1>1, <1>4, <2>1, <2>2
      DEF WorkerOK, Held, Current, Working, Owns, Owned
    <2>4. Known(w)' /\ CancelAsked(w)'
      BY <1>1, <1>4, <2>1, <2>2
      DEF Known, Unwritten, Mine, CancelAsked, CancelSeen
    <2>5. WorkerOK(w)'
      BY <2>3, <2>4 DEF WorkerOK
    <2>. QED
      BY <1>1, <1>2, <1>4, <2>1, <2>5, FinishedInv
  <1>5. CASE Finish(j, w, status, a) /\ Return(w)
    <2>1. /\ pc'[w] = "idle" /\ task'[w] = NoTask /\ verdict'[w] = "none"
          /\ manifest' = manifest
          /\ \A v \in Workers \ {w} :
               pc'[v] = pc[v] /\ task'[v] = task[v] /\ verdict'[v] = verdict[v]
      BY <1>0, <1>5 DEF Return, Goto, WorkerTypeOK
    <2>2. WorkerOK(w)' /\ ~Working(w)'
      BY <2>1, RestedOK DEF Working
    <2>. QED
      BY <1>1, <1>2, <1>5, <2>1, <2>2, FinishedInv
  <1>. QED
    BY <1>3, <1>4, <1>5 DEF Publish

LEMMA MarkCancelledInv ==
  ASSUME WorkerInv, QueueInv', WorkerTypeOK', [Next]_vars,
         NEW w \in Workers, MarkCancelled(w)
  PROVE  WorkerInv'
  <1>0. WorkerTypeOK /\ WorkerOK(w) /\ QueueInv /\ Working(w)
    BY DEF WorkerInv, MarkCancelled, Working
  <1>1. /\ pc'[w] = "idle" /\ task'[w] = NoTask /\ verdict'[w] = "none"
        /\ manifest' = manifest
        /\ \A v \in Workers \ {w} :
             pc'[v] = pc[v] /\ task'[v] = task[v] /\ verdict'[v] = verdict[v]
    BY <1>0 DEF MarkCancelled, Return, Goto, WorkerTypeOK
  <1>2. WorkerOK(w)' /\ ~Working(w)'
    BY <1>1, RestedOK DEF Working
  <1>3. "cancelled" \in Terminal
    BY DEF Terminal
  <1>. QED
    BY <1>0, <1>1, <1>2, <1>3, FinishedInv, ExitInv DEF MarkCancelled

----------------------------------------------------------------------------
LEMMA WorkerInitInv == Init => WorkerInv
  <1>. SUFFICES ASSUME Init PROVE WorkerInv
    OBVIOUS
  <1>1. QueueInv
    BY InitInv DEF Init
  <1>2. WorkerTypeOK
    BY NoTaskType DEF Init, WorkerTypeOK, Task
  <1>3. \A w \in Workers : WorkerOK(w)
    BY DEF Init, WorkerOK, Held, Current, Known, CancelAsked, Working,
           Unwritten
  <1>4. Apart /\ Fresh
    BY DEF Init, Apart, Fresh, Working
  <1>5. \A j \in Jobs : ResultOK(j)
    BY LimitsAssumption DEF Init, QueueInit, NoRow, ResultOK, Terminal
  <1>. QED
    BY <1>1, <1>2, <1>3, <1>4, <1>5 DEF WorkerInv

LEMMA WorkerNextInv == WorkerInv /\ [Next]_vars => WorkerInv'
  <1>. SUFFICES ASSUME WorkerInv, [Next]_vars PROVE WorkerInv'
    OBVIOUS
  <1>0. QueueInv' /\ WorkerTypeOK'
    <2>1. QueueInv'
      BY StepOfQueue, NextInv DEF WorkerInv
    <2>. QED
      BY <2>1, TypesKept
  <1>1. ASSUME NEW w \in Workers, MainStep(w) PROVE WorkerInv'
    <2>1. CASE PollNothing(w)
      BY <1>0, <2>1, NoWorker DEF PollNothing, workerVars, RestStep
    <2>2. CASE RejectPayload(w)
      <3>1. Working(w) /\ FALSE \in BOOLEAN
        BY <2>2 DEF RejectPayload, Working
      <3>. QED
        BY <1>0, <2>2, <3>1, FailedInv, ExitInv DEF RejectPayload
    <2>3. CASE FailJob(w)
      <3>1. Working(w) /\ retry[w] \in BOOLEAN
        BY <2>3 DEF FailJob, Working, WorkerInv, WorkerTypeOK
      <3>. QED
        BY <1>0, <2>3, <3>1, FailedInv, ExitInv DEF FailJob
    <2>4. CASE \/ CheckStart(w) \/ Plan(w) \/ CheckPlanned(w)
               \/ Materialize(w) \/ CheckFinished(w)
      <3>1. UNCHANGED queueVars
        BY <2>4 DEF CheckStart, Plan, CheckPlanned, Poll, Materialize,
                    CheckFinished
      <3>. QED
        BY <1>0, <2>4, <3>1, LocalInv
    <2>5. CASE WriteManifest(w) \/ RewriteManifest(w)
      <3>1. UNCHANGED queueVars
        BY <2>5 DEF WriteManifest, RewriteManifest
      <3>. QED
        BY <1>0, <2>5, <3>1, WriteInv, RewriteInv
    <2>. QED
      BY <1>0, <1>1, <2>1, <2>2, <2>3, <2>4, <2>5, PollClaimsInv, PublishInv,
         MarkCancelledInv DEF MainStep
  <1>2. ASSUME NEW w \in Workers, BeatStep(w) PROVE WorkerInv'
    <2>1. UNCHANGED queueVars \/ RestStep
      BY <1>2 DEF BeatStep, Beat, BeatStops, RestStep
    <2>2. UNCHANGED <<pc, task, verdict, manifest>>
      BY <1>2 DEF BeatStep, Beat, BeatStops
    <2>. QED
      BY <1>0, <2>1, <2>2, NoWorker
  <1>3. ASSUME NEW w \in Workers, IoError(w) \/ Crash(w) PROVE WorkerInv'
    <2>1. UNCHANGED queueVars
      BY <1>3 DEF IoError, Crash
    <2>2. CASE Exit(w)
      BY <1>0, <2>1, <2>2, ExitInv
    <2>3. CASE Raise(w, TRUE) /\ Working(w)
      BY <1>0, <2>1, <2>3, RaiseInv
    <2>. QED
      BY <1>3, <2>2, <2>3 DEF IoError, Crash, Working
  <1>4. ASSUME NEW j \in Jobs, (ClientStep(j) \/ Lapse(j)) /\ UNCHANGED workerVars
        PROVE  WorkerInv'
    BY <1>0, <1>4, NoWorker DEF RestStep, workerVars
  <1>5. CASE UNCHANGED vars
    BY <1>0, <1>5, NoWorker DEF vars, workerVars
  <1>. QED
    BY <1>1, <1>2, <1>3, <1>4, <1>5 DEF Next, Environment

(* The invariant of the workers and of the queue under them.               *)
THEOREM WorkerInvariant == Spec => []WorkerInv
  BY WorkerInitInv, WorkerNextInv, PTL DEF Spec

(* Every variable the workers add keeps its type.                          *)
THEOREM WorkerTypesCorrect == Spec => []WorkerTypeOK
  BY WorkerInvariant, PTL DEF WorkerInv

(* What a settled row says of its result is what is on disk, and only the  *)
(* attempt that owned the row wrote it.                                    *)
THEOREM ResultsMatch == Spec => []ResultMatchesManifest
  <1>1. WorkerInv => ResultMatchesManifest
    <2>. SUFFICES ASSUME WorkerInv PROVE ResultMatchesManifest
      OBVIOUS
    <2>1. OwnerIsCurrent
      BY DEF WorkerInv, WorkerOK, Held, Current, OwnerIsCurrent, NoTask
    <2>2. \A j \in Jobs : ResultOK(j)
      BY DEF WorkerInv
    <2>. QED
      BY <2>1, <2>2 DEF ResultMatchesManifest, ResultManifest, ResultOK
  <1>. QED
    BY <1>1, WorkerInvariant, PTL

(* The workers use the table as its most general clients may: whatever is  *)
(* proved of the queue alone holds of it under its workers.                *)
THEOREM WorkersUseTheQueue == Spec => QueueSpec
  <1>1. Init => QueueInit
    BY DEF Init
  <1>2. WorkerInv /\ [Next]_vars => [QueueNext]_queueVars
    BY StepOfQueue
  <1>. QED
    BY <1>1, <1>2, WorkerInvariant, PTL DEF Spec, QueueSpec

(* So a settled row is never touched again, a lease protects its owner and *)
(* jobs start in the order of their enqueue calls, with crashing workers.  *)
THEOREM QueueKeptByWorkers ==
  Spec => /\ TerminalImmutable /\ LeaseHonoured /\ FirstComeFirstServed
          /\ [](NoStuckRow /\ CancelWins /\ CapacityRespected)
  BY WorkersUseTheQueue, SettledForGood, LeasesHonoured, ClaimsInOrder,
     NeverStuck, CancellationWins, BacklogBounded, PTL

----------------------------------------------------------------------------
(* A manifest is written by WriteManifest, over nothing, and by            *)
(* RewriteManifest, over that of the cancelled row which names it.         *)
THEOREM ManifestsFinal == Spec => ManifestFinal
  <1>1. ASSUME WorkerInv, [Next]_vars,
               NEW j \in Jobs, NEW a \in 1 .. MaxAttempts,
               manifest[j][a] # "absent", manifest'[j][a] # manifest[j][a]
        PROVE  /\ manifest'[j][a] = "cancelled"
               /\ rows[j].status = "cancelled"
               /\ rows[j].result = a
    <2>0. WorkerTypeOK
      BY <1>1 DEF WorkerInv
    <2>1. PICK w \in Workers : WriteManifest(w) \/ RewriteManifest(w)
      <3>1. manifest' # manifest
        BY <1>1
      <3>. QED
        BY <1>1, <3>1
        DEF Next, vars, workerVars, MainStep, PollNothing, PollClaims,
            RejectPayload, CheckStart, Plan, CheckPlanned, Poll, Materialize,
            CheckFinished, Publish, FailJob, MarkCancelled, Return, Exit, Raise,
            BeatStep, Beat, BeatStops, Environment, IoError, Crash
    <2>2. WorkerOK(w)
      BY <1>1 DEF WorkerInv
    <2>3. Working(w)
      BY <2>1 DEF WriteManifest, RewriteManifest, Working
    <2>4. WritesOwn(w)
      BY <2>0, <2>1, <2>2, <2>3
      DEF WriteManifest, RewriteManifest, WritesOwn, WorkerOK, Known, Verdicts
    <2>5. task[w].job = j /\ task[w].attempt = a
      BY <1>1, <2>0, <2>4, WrittenElsewhere
    <2>6. RewriteManifest(w)
      BY <1>1, <2>1, <2>2, <2>5
      DEF WriteManifest, WorkerOK, Known, Unwritten, Mine
    <2>7. manifest'[j][a] = "cancelled"
      BY <2>0, <2>5, <2>6 DEF RewriteManifest, WorkerTypeOK
    <2>. QED
      BY <2>2, <2>5, <2>6, <2>7 DEF RewriteManifest, WorkerOK, Known
  <1>2. WorkerInv /\ [Next]_vars =>
          [\A j \in Jobs, a \in 1 .. MaxAttempts :
             (manifest[j][a] # "absent" /\ manifest'[j][a] # manifest[j][a]) =>
               /\ manifest'[j][a] = "cancelled"
               /\ rows[j].status = "cancelled"
               /\ rows[j].result = a]_manifest
    BY <1>1
  <1>. QED
    BY <1>2, WorkerInvariant, PTL DEF Spec, ManifestFinal

(* No job ends a worker that is not killed, but a payload that does not    *)
(* decode whose lease is lost before its claimer can fail it.              *)
THEOREM WorkersSpared == Spec => JobsSpareWorkers
  <1>1. ASSUME WorkerInv, [Next]_vars, NEW w \in Workers \ Mortal,
               pc[w] # "gone", pc'[w] = "gone"
        PROVE  task[w].job \in CorruptJobs /\ ~Owns(w)
    <2>0. WorkerTypeOK /\ WorkerOK(w)
      BY <1>1 DEF WorkerInv
    <2>1. ASSUME NEW v \in Workers, NEW label, Goto(v, label)
          PROVE  v = w /\ label = "gone"
      BY <1>1, <2>0, <2>1 DEF Goto, WorkerTypeOK
    <2>2. pc' # pc
      BY <1>1
    <2>3. ~ IoError(w) /\ ~ Crash(w)
      BY <2>1 DEF IoError, Crash, Raise
    <2>4. PICK v \in Workers : MainStep(v) \/ IoError(v) \/ Crash(v)
      BY <1>1, <2>2
      DEF Next, vars, workerVars, BeatStep, Beat, BeatStops, Environment
    <2>5. MainStep(w)
      BY <2>1, <2>2, <2>3, <2>4
      DEF MainStep, PollNothing, workerVars, PollClaims, RejectPayload,
          CheckStart, Plan, CheckPlanned, Poll, Materialize, WriteManifest,
          CheckFinished, Publish, RewriteManifest, FailJob, MarkCancelled,
          IoError, Crash, Return, Exit, Raise
    <2>6. ~ Return(w) /\ \A again : ~ Raise(w, again)
      BY <2>1 DEF Return, Raise
    <2>7. RejectPayload(w) /\ ~Owns(w)
      <3>1. ~ PollNothing(w) /\ \A j \in Jobs : ~ PollClaims(w, j)
        BY <2>1, <2>2 DEF PollNothing, workerVars, PollClaims
      <3>2. ~ (CheckStart(w) \/ CheckPlanned(w) \/ Plan(w) \/ Materialize(w))
        <4>1. ASSUME NEW here, NEW next, Poll(w, here, next), next # "gone"
              PROVE  FALSE
          BY <2>1, <4>1 DEF Poll
        <4>. QED
          BY <2>1, <2>6, <4>1 DEF CheckStart, CheckPlanned, Plan, Materialize
      <3>3. ~ (WriteManifest(w) \/ CheckFinished(w) \/ RewriteManifest(w))
        BY <2>1 DEF WriteManifest, CheckFinished, RewriteManifest
      <3>4. ~ (Publish(w) \/ FailJob(w) \/ MarkCancelled(w))
        <4>1. ~ Goto(w, "rewrite")
          BY <2>1
        <4>2. ~ FailJob(w) /\ ~ MarkCancelled(w)
          BY <2>6 DEF FailJob, MarkCancelled
        <4>3. ~ Publish(w)
          BY <2>6, <4>1, Zenon DEF Publish
        <4>. QED
          BY <4>2, <4>3
      <3>. QED
        BY <2>5, <2>6, <3>1, <3>2, <3>3, <3>4 DEF MainStep, RejectPayload
    <2>. QED
      BY <2>0, <2>7 DEF RejectPayload, WorkerOK, Held
  <1>2. WorkerInv /\ [Next]_vars =>
          [\A w \in Workers \ Mortal :
             (pc[w] # "gone" /\ pc'[w] = "gone") =>
               task[w].job \in CorruptJobs /\ ~Owns(w)]_vars
    BY <1>1
  <1>. QED
    BY <1>2, WorkerInvariant, PTL DEF Spec, JobsSpareWorkers

----------------------------------------------------------------------------
(* The workers over the queue implement DurableJob: seen through phaseBar, *)
(* askedBar and triesBar, every step of the table is a step of DurableJob  *)
(* or a stutter.  Claims and recoveries give up several jobs at once; a    *)
(* heartbeat, a retried failure and the end of a lease stutter.            *)

Phase(r) == IF r.status \in Active THEN "open" ELSE r.status

(* A worker settles the row it owns, as cancelled only if it was flagged.  *)
SettleStep ==
  \E j \in Jobs, w \in Workers, status \in Terminal, result \in Nat :
    /\ Finish(j, w, status, result)
    /\ status = "cancelled" => rows[j].cancel_requested

LEMMA QueueSteps ==
  ASSUME WorkerInv, [Next]_vars
  PROVE  \/ UNCHANGED queueVars
         \/ RestStep
         \/ \E w \in Workers, j \in Jobs : Claim(w, j)
         \/ SettleStep
  <1>1. ASSUME NEW w \in Workers, Working(w)
        PROVE  /\ task[w].job \in Jobs
               /\ task[w].attempt \in Nat
               /\ retry[w] \in BOOLEAN
               /\ (Owns(w) /\ (verdict[w] = "cancelled" \/ pc[w] = "cancelling"))
                    => rows[task[w].job].cancel_requested
    BY <1>1, LimitsAssumption
    DEF WorkerInv, WorkerTypeOK, WorkerOK, Held, CancelAsked, CancelSeen,
        Owns, Owned
  <1>2. ASSUME NEW w \in Workers, NEW again \in BOOLEAN, Working(w),
               Fail(task[w].job, w, again)
        PROVE  RestStep
    BY <1>1, <1>2 DEF RestStep
  <1>3. ASSUME NEW w \in Workers, Publish(w)
        PROVE  UNCHANGED queueVars \/ SettleStep
    <2>1. Working(w) /\ verdict[w] \in Verdicts
      BY <1>3 DEF Publish, Working, WorkerInv, WorkerOK, Known
    <2>2. /\ StatusFor[verdict[w]] \in Terminal
          /\ StatusFor[verdict[w]] = "cancelled" => verdict[w] = "cancelled"
      BY <2>1 DEF StatusFor, Verdicts, Terminal
    <2>3. CASE Finish(task[w].job, w, StatusFor[verdict[w]], task[w].attempt)
      <3>1. Owns(w)
        BY <2>3 DEF Finish, Owns
      <3>. QED
        BY <1>1, <2>1, <2>2, <2>3, <3>1 DEF SettleStep
    <2>. QED
      BY <1>3, <2>3 DEF Publish
  <1>4. ASSUME NEW w \in Workers, MarkCancelled(w)
        PROVE  UNCHANGED queueVars \/ SettleStep
    <2>1. Working(w) /\ pc[w] = "cancelling"
      BY <1>4 DEF MarkCancelled, Working
    <2>2. CASE Finish(task[w].job, w, "cancelled", 0)
      BY <1>1, <2>1, <2>2 DEF SettleStep, Finish, Owns, Terminal
    <2>. QED
      BY <1>4, <2>2 DEF MarkCancelled
  <1>5. ASSUME NEW w \in Workers, RejectPayload(w) \/ FailJob(w)
        PROVE  UNCHANGED queueVars \/ RestStep
    BY <1>1, <1>2, <1>5 DEF RejectPayload, FailJob, Working
  <1>6. ASSUME NEW w \in Workers, BeatStep(w)
        PROVE  UNCHANGED queueVars \/ RestStep
    BY <1>6 DEF BeatStep, Beat, BeatStops, RestStep
  <1>7. CASE Environment
    BY <1>7 DEF Environment, IoError, Crash, RestStep
  <1>. QED
    BY <1>3, <1>4, <1>5, <1>6, <1>7
    DEF Next, vars, MainStep, PollNothing, PollClaims, CheckStart, Plan,
        CheckPlanned, Poll, Materialize, WriteManifest, CheckFinished,
        RewriteManifest, RestStep

----------------------------------------------------------------------------
(* The mapping, after an update of one row.                                *)
LEMMA OneRow ==
  ASSUME NEW j \in Jobs, NEW r, rows \in [Jobs -> Row],
         rows' = [rows EXCEPT ![j] = r]
  PROVE  /\ phaseBar' = [phaseBar EXCEPT ![j] = Phase(r)]
         /\ askedBar' = [askedBar EXCEPT ![j] = r.cancel_requested]
         /\ triesBar' = [triesBar EXCEPT ![j] = r.attempts]
  <1>1. phaseBar' = [phaseBar EXCEPT ![j] = Phase(r)]
    BY DEF phaseBar, Phase
  <1>2. askedBar' = [askedBar EXCEPT ![j] = r.cancel_requested]
    BY DEF askedBar
  <1>3. triesBar' = [triesBar EXCEPT ![j] = r.attempts]
    BY DEF triesBar
  <1>. QED
    BY <1>1, <1>2, <1>3

LEMMA Unmoved ==
  ASSUME NEW j \in Jobs, NEW r, rows \in [Jobs -> Row],
         rows' = [rows EXCEPT ![j] = r]
  PROVE  /\ Phase(r) = Phase(rows[j]) => phaseBar' = phaseBar
         /\ r.cancel_requested = rows[j].cancel_requested => askedBar' = askedBar
         /\ r.attempts = rows[j].attempts => triesBar' = triesBar
  <1>1. Phase(r) = Phase(rows[j]) => phaseBar' = phaseBar
    BY DEF phaseBar, Phase
  <1>2. r.cancel_requested = rows[j].cancel_requested => askedBar' = askedBar
    BY DEF askedBar
  <1>3. r.attempts = rows[j].attempts => triesBar' = triesBar
    BY DEF triesBar
  <1>. QED
    BY <1>1, <1>2, <1>3

LEMMA OpenIsPending ==
  ASSUME rows \in [Jobs -> Row]
  PROVE  /\ Durable!Open = Pending(rows)
         /\ \A j \in Jobs : /\ phaseBar[j] = Phase(rows[j])
                            /\ askedBar[j] = rows[j].cancel_requested
                            /\ triesBar[j] = rows[j].attempts
  BY DEF Durable!Open, phaseBar, askedBar, triesBar, Pending, Phase, Row,
         Active, Terminal

(* The number of open jobs, as DurableJob counts them.                     *)
LEMMA SameCount == \A S : Durable!Cardinality(S) = Cardinality(S)
  BY DEF Durable!Cardinality, Cardinality

(* An update that the client of a job does not see.                        *)
LEMMA Unseen ==
  ASSUME NEW j \in Jobs, NEW r, rows \in [Jobs -> Row],
         rows' = [rows EXCEPT ![j] = r], Phase(r) = Phase(rows[j]),
         r.cancel_requested = rows[j].cancel_requested,
         r.attempts = rows[j].attempts
  PROVE  UNCHANGED Durable!jobVars
  BY Unmoved DEF Durable!jobVars

LEMMA InsertSubmits ==
  ASSUME QueueInv, NEW j \in Jobs, Insert(j)
  PROVE  Durable!Next
  <1>. DEFINE r == [rows[j] EXCEPT !.status = "queued"]
  <1>0. rows \in [Jobs -> Row] /\ rows[j] \in Row
    BY DEF QueueInv, TypeOK
  <1>1. rows' = [rows EXCEPT ![j] = r] /\ rows[j].status = "none" /\ ~Full
    BY DEF Insert, QueueInv, Entered
  <1>2. /\ r.status = "queued" /\ r.attempts = rows[j].attempts
        /\ r.cancel_requested = rows[j].cancel_requested
    BY <1>0 DEF Row
  <1>3. phaseBar[j] = "none" /\ Phase(r) = "open"
    BY <1>0, <1>1, <1>2, OpenIsPending DEF Phase, Active
  <1>4. Cardinality(Durable!Open) < MaxPending
    <2>1. Pending(rows) \subseteq Jobs
      BY DEF Pending
    <2>2. Cardinality(Pending(rows)) \in Nat
      BY <2>1, JobsAssumption, FS_Subset, FS_CardinalityType
    <2>. QED
      BY <1>0, <1>1, <2>2, OpenIsPending, LimitsAssumption DEF Full
  <1>. HIDE DEF r
  <1>5. phaseBar' = [phaseBar EXCEPT ![j] = "open"]
    <2>1. phaseBar' = [phaseBar EXCEPT ![j] = Phase(r)]
      BY <1>0, <1>1, OneRow
    <2>. QED
      BY <1>3, <2>1
  <1>6. askedBar' = askedBar /\ triesBar' = triesBar
    BY <1>0, <1>1, <1>2, Unmoved
  <1>7. Durable!Submit(j)
    BY <1>3, <1>4, <1>5, <1>6, SameCount DEF Durable!Submit
  <1>. QED
    BY <1>7 DEF Durable!Next

LEMMA CancelAsks ==
  ASSUME QueueInv, NEW j \in Jobs, Cancel(j)
  PROVE  Durable!Next
  <1>0. rows \in [Jobs -> Row] /\ rows[j] \in Row
    BY DEF QueueInv, TypeOK
  <1>1. j \in Durable!Open
    BY <1>0, OpenIsPending DEF Pending, Cancel, CancelQueued, CancelRunning,
       Active
  <1>2. CASE CancelQueued(j)
    <2>. DEFINE r == [rows[j] EXCEPT !.status = "cancelled",
                               !.cancel_requested = TRUE, !.lease = "null"]
    <2>1. rows' = [rows EXCEPT ![j] = r]
      BY <1>2 DEF CancelQueued, Update
    <2>2. /\ r.status = "cancelled" /\ r.attempts = rows[j].attempts
          /\ r.cancel_requested = TRUE
      BY <1>0 DEF Row
    <2>3. Phase(r) = "cancelled"
      BY <2>2 DEF Phase, Active
    <2>. HIDE DEF r
    <2>4. /\ phaseBar' = [phaseBar EXCEPT ![j] = "cancelled"]
          /\ askedBar' = [askedBar EXCEPT ![j] = TRUE]
      <3>1. /\ phaseBar' = [phaseBar EXCEPT ![j] = Phase(r)]
            /\ askedBar' = [askedBar EXCEPT ![j] = r.cancel_requested]
        BY <1>0, <2>1, OneRow
      <3>. QED
        BY <2>2, <2>3, <3>1
    <2>5. triesBar' = triesBar
      BY <1>0, <2>1, <2>2, Unmoved
    <2>. QED
      BY <1>1, <2>4, <2>5 DEF Durable!Next, Durable!Ask
  <1>3. CASE CancelRunning(j)
    <2>. DEFINE r == [rows[j] EXCEPT !.cancel_requested = TRUE]
    <2>1. rows' = [rows EXCEPT ![j] = r]
      BY <1>3 DEF CancelRunning, Update
    <2>2. /\ r.status = rows[j].status /\ r.attempts = rows[j].attempts
          /\ r.cancel_requested = TRUE
      BY <1>0 DEF Row
    <2>3. Phase(r) = Phase(rows[j])
      BY <2>2 DEF Phase
    <2>. HIDE DEF r
    <2>4. askedBar' = [askedBar EXCEPT ![j] = TRUE]
      BY <1>0, <2>1, <2>2, OneRow
    <2>5. phaseBar' = phaseBar /\ triesBar' = triesBar
      BY <1>0, <2>1, <2>2, <2>3, Unmoved
    <2>. QED
      BY <1>1, <2>4, <2>5 DEF Durable!Next, Durable!Ask
  <1>. QED
    BY <1>2, <1>3 DEF Cancel

(* The owner of a row gives it an end.                                     *)
LEMMA OwnerSettles ==
  ASSUME QueueInv, NEW j \in Jobs, NEW r,
         rows[j].status = "running", rows' = [rows EXCEPT ![j] = r],
         r.status \in IF rows[j].cancel_requested THEN {"cancelled"}
                      ELSE {"completed", "failed"},
         r.cancel_requested = rows[j].cancel_requested,
         r.attempts = rows[j].attempts
  PROVE  Durable!Next
  <1>0. /\ rows \in [Jobs -> Row] /\ rows[j].attempts \in Nat
        /\ rows[j].attempts >= 1
    BY DEF QueueInv, TypeOK, RowOK, Row
  <1>1. j \in Durable!Open /\ triesBar[j] > 0
    BY <1>0, OpenIsPending DEF Pending, Active
  <1>2. phaseBar' = [phaseBar EXCEPT ![j] = r.status]
    BY <1>0, OneRow DEF Phase, Active
  <1>3. askedBar' = askedBar /\ triesBar' = triesBar
    BY <1>0, Unmoved
  <1>4. r.status \in IF askedBar[j] THEN {"cancelled"}
                     ELSE {"completed", "failed"}
    BY <1>0, OpenIsPending
  <1>5. Durable!Settle(j)
    BY <1>1, <1>2, <1>3, <1>4 DEF Durable!Settle
  <1>. QED
    BY <1>5 DEF Durable!Next

LEMMA SettleSettles ==
  ASSUME QueueInv, SettleStep
  PROVE  Durable!Next
  <1>1. PICK j \in Jobs, w \in Workers, status \in Terminal, result \in Nat :
          /\ Finish(j, w, status, result)
          /\ status = "cancelled" => rows[j].cancel_requested
    BY DEF SettleStep
  <1>. DEFINE r == [rows[j] EXCEPT !.status = FinishStatus(rows[j], status),
                                   !.lease = "null", !.result = result]
  <1>2. rows[j] \in Row /\ rows[j].status = "running"
        /\ rows' = [rows EXCEPT ![j] = r]
    BY <1>1 DEF Finish, Update, Owned, QueueInv, TypeOK
  <1>3. /\ r.status = FinishStatus(rows[j], status)
        /\ r.cancel_requested = rows[j].cancel_requested
        /\ r.attempts = rows[j].attempts
    BY <1>2 DEF Row
  <1>4. r.status \in IF rows[j].cancel_requested THEN {"cancelled"}
                     ELSE {"completed", "failed"}
    BY <1>1, <1>3 DEF FinishStatus, Terminal
  <1>. QED
    BY <1>2, <1>3, <1>4, OwnerSettles

LEMMA FailSettles ==
  ASSUME QueueInv, NEW j \in Jobs, NEW w \in Workers, NEW again \in BOOLEAN,
         Fail(j, w, again)
  PROVE  [Durable!Next]_(Durable!jobVars)
  <1>. DEFINE r == FailedRow(rows[j], again)
  <1>1. /\ rows \in [Jobs -> Row] /\ rows[j] \in Row
        /\ rows[j].status = "running" /\ rows' = [rows EXCEPT ![j] = r]
    BY DEF Fail, Update, Owned, QueueInv, TypeOK
  <1>2. CASE Retries(rows[j], again)
    <2>1. /\ r.status = "queued"
          /\ r.cancel_requested = rows[j].cancel_requested
          /\ r.attempts = rows[j].attempts
      BY <1>1, <1>2 DEF FailedRow, Row
    <2>. QED
      BY <1>1, <2>1, Unseen DEF Phase, Active
  <1>3. CASE ~Retries(rows[j], again)
    <2>1. /\ r.status = FinishStatus(rows[j], "failed")
          /\ r.cancel_requested = rows[j].cancel_requested
          /\ r.attempts = rows[j].attempts
      BY <1>1, <1>3 DEF FailedRow, Row
    <2>2. r.status \in IF rows[j].cancel_requested THEN {"cancelled"}
                       ELSE {"completed", "failed"}
      BY <2>1 DEF FinishStatus
    <2>. QED
      BY <1>1, <2>1, <2>2, OwnerSettles
  <1>. QED
    BY <1>2, <1>3

----------------------------------------------------------------------------
(* The recovery that starts every claim.                                   *)
Dropped ==
  {j \in Jobs : /\ Expired(rows[j])
                /\ \/ rows[j].cancel_requested
                   \/ rows[j].attempts >= MaxAttempts}

LEMMA DroppedAreLost ==
  ASSUME QueueInv
  PROVE  Dropped \in SUBSET Durable!Lost
  <1>. SUFFICES ASSUME NEW j \in Dropped PROVE j \in Durable!Lost
    OBVIOUS
  <1>1. /\ j \in Jobs /\ rows[j].status = "running"
        /\ rows[j].cancel_requested \/ rows[j].attempts >= MaxAttempts
        /\ rows \in [Jobs -> Row] /\ RowOK(rows[j]) /\ rows[j].attempts \in Nat
    BY DEF Dropped, Expired, QueueInv, TypeOK, Row
  <1>2. rows[j].attempts > 0
        /\ (rows[j].cancel_requested \/ rows[j].attempts = MaxAttempts)
    BY <1>1, LimitsAssumption DEF RowOK
  <1>3. j \in Durable!Open
    BY <1>1, OpenIsPending DEF Pending, Active
  <1>. QED
    BY <1>1, <1>2, <1>3, OpenIsPending DEF Durable!Lost

(* The phase of every row after it.                                        *)
LEMMA RecoveredPhase ==
  ASSUME QueueInv, NEW j \in Jobs
  PROVE  /\ Phase(Recovered[j]) = Durable!GivenUp(Dropped)[j]
         /\ Recovered[j].cancel_requested = rows[j].cancel_requested
         /\ Recovered[j].attempts = rows[j].attempts
         /\ Recovered[j] \in Row
  <1>0. /\ rows \in [Jobs -> Row] /\ rows[j] \in Row
        /\ Recovered[j] = IF Expired(rows[j]) THEN Requeued(rows[j])
                                              ELSE rows[j]
        /\ Recovered[j] \in Row
    BY RecoveredRow DEF QueueInv, TypeOK
  <1>1. /\ Recovered[j].cancel_requested = rows[j].cancel_requested
        /\ Recovered[j].attempts = rows[j].attempts
        /\ Recovered[j].status =
             IF ~Expired(rows[j]) THEN rows[j].status
             ELSE IF rows[j].cancel_requested THEN "cancelled"
             ELSE IF rows[j].attempts >= MaxAttempts THEN "failed"
             ELSE "queued"
    BY <1>0 DEF Requeued, Row
  <1>2. Durable!GivenUp(Dropped)[j] =
          IF j \notin Dropped THEN Phase(rows[j])
          ELSE IF rows[j].cancel_requested THEN "cancelled" ELSE "failed"
    BY <1>0, OpenIsPending DEF Durable!GivenUp
  <1>3. Phase(Recovered[j]) = Durable!GivenUp(Dropped)[j]
    BY <1>1, <1>2 DEF Phase, Dropped, Expired, Active
  <1>. QED
    BY <1>0, <1>1, <1>3

LEMMA RecoveryGivesUp ==
  ASSUME QueueInv, ClaimNone
  PROVE  Durable!Next
  <1>1. rows' = Recovered /\ rows \in [Jobs -> Row]
    BY DEF ClaimNone, QueueInv, TypeOK
  <1>2. phaseBar' = Durable!GivenUp(Dropped)
    BY <1>1, RecoveredPhase DEF phaseBar, Phase, Durable!GivenUp
  <1>3. askedBar' = askedBar /\ triesBar' = triesBar
    BY <1>1, RecoveredPhase DEF askedBar, triesBar
  <1>. QED
    BY <1>2, <1>3, DroppedAreLost DEF Durable!Next, Durable!GiveUp

LEMMA ClaimAttempts ==
  ASSUME QueueInv, NEW w \in Workers, NEW j \in Jobs, Claim(w, j)
  PROVE  Durable!Next
  <1>. DEFINE started == Started(Recovered[j], w)
  <1>1. /\ rows' = [Recovered EXCEPT ![j] = started]
        /\ Recovered[j].status = "queued"
        /\ ~Recovered[j].cancel_requested
        /\ rows \in [Jobs -> Row]
    BY DEF Claim, Oldest, Claimable, QueueInv, TypeOK
  <1>2. /\ Recovered[j] \in Row
        /\ Recovered[j].attempts = rows[j].attempts
        /\ Recovered[j].cancel_requested = rows[j].cancel_requested
        /\ RowOK(Recovered[j])
    BY RecoveredPhase, RecoveredRow DEF QueueInv
  <1>3. /\ started.status = "running"
        /\ started.cancel_requested = rows[j].cancel_requested
        /\ started.attempts = rows[j].attempts + 1
    BY <1>2 DEF Started, Row
  <1>4. Durable!GivenUp(Dropped)[j] = "open" /\ Phase(started) = "open"
    BY <1>1, <1>3, RecoveredPhase DEF Phase, Active
  <1>5. \A k \in Jobs : k # j => rows'[k] = Recovered[k]
    BY <1>1 DEF Recovered
  <1>6. rows'[j] = started
    BY <1>1 DEF Recovered
  <1>7. phaseBar' = Durable!GivenUp(Dropped)
    BY <1>4, <1>5, <1>6, RecoveredPhase DEF phaseBar, Phase, Durable!GivenUp
  <1>8. askedBar' = askedBar
    BY <1>3, <1>5, <1>6, RecoveredPhase DEF askedBar
  <1>9. triesBar' = [triesBar EXCEPT ![j] = @ + 1]
    BY <1>3, <1>5, <1>6, RecoveredPhase DEF triesBar
  <1>10. j \in Durable!Open \ Dropped
    <2>1. j \notin Dropped /\ phaseBar[j] = "open"
      BY <1>1, <1>4, OpenIsPending DEF Durable!GivenUp
    <2>. QED
      BY <2>1 DEF Durable!Open
  <1>11. ~askedBar[j] /\ triesBar[j] < MaxAttempts
    BY <1>1, <1>2, OpenIsPending DEF RowOK
  <1>. QED
    BY <1>7, <1>8, <1>9, <1>10, <1>11, DroppedAreLost
    DEF Durable!Next, Durable!Attempt

----------------------------------------------------------------------------
LEMMA StepOfDurableJob ==
  ASSUME WorkerInv, [Next]_vars
  PROVE  [Durable!Next]_(Durable!jobVars)
  <1>0. QueueInv /\ rows \in [Jobs -> Row]
    BY DEF WorkerInv, QueueInv, TypeOK
  <1>1. CASE UNCHANGED rows
    BY <1>1 DEF Durable!jobVars, phaseBar, askedBar, triesBar
  <1>2. ASSUME NEW j \in Jobs, ClientStep(j)
        PROVE  [Durable!Next]_(Durable!jobVars)
    BY <1>0, <1>1, <1>2, InsertSubmits, CancelAsks
    DEF ClientStep, ReadClock, RefuseFull
  <1>3. ASSUME NEW j \in Jobs, NEW w \in Workers, NEW lease,
               rows[j].status = "running",
               Update(j, [rows[j] EXCEPT !.lease = lease])
        PROVE  UNCHANGED Durable!jobVars
    <2>. DEFINE r == [rows[j] EXCEPT !.lease = lease]
    <2>1. rows' = [rows EXCEPT ![j] = r] /\ rows[j] \in Row
      BY <1>0, <1>3 DEF Update
    <2>2. /\ r.status = rows[j].status
          /\ r.cancel_requested = rows[j].cancel_requested
          /\ r.attempts = rows[j].attempts
      BY <2>1 DEF Row
    <2>. QED
      BY <1>0, <2>1, <2>2, Unseen DEF Phase
  <1>4. CASE RestStep
    <2>1. ASSUME NEW j \in Jobs, Lapse(j)
          PROVE  UNCHANGED Durable!jobVars
      <3>1. rows[j].worker_id \in Workers
        BY <1>0, <2>1 DEF Lapse, QueueInv, RowOK
      <3>. QED
        BY <1>3, <2>1, <3>1 DEF Lapse
    <2>2. ASSUME NEW j \in Jobs, NEW w \in Workers, Heartbeat(j, w)
          PROVE  UNCHANGED Durable!jobVars
      BY <1>3, <2>2 DEF Heartbeat, Owned
    <2>. QED
      BY <1>0, <1>2, <1>4, <2>1, <2>2, FailSettles, RecoveryGivesUp
      DEF RestStep
  <1>. QED
    BY <1>0, <1>1, <1>4, QueueSteps, ClaimAttempts, SettleSettles
    DEF queueVars

(* The queue and its workers, crashing or not, keep every safety promise   *)
(* of DurableJob: a job that was accepted stays open until it is settled   *)
(* once, after at most MaxAttempts attempts, and is cancelled if and only  *)
(* if that was asked for in time.                                          *)
THEOREM WorkersImplementDurableJob == Spec => ImplementsDurableSteps
  <1>1. Init => Durable!Init
    BY DEF Init, QueueInit, NoRow, Durable!Init, phaseBar, askedBar, triesBar,
           Active
  <1>2. WorkerInv /\ [Next]_vars => [Durable!Next]_(Durable!jobVars)
    BY StepOfDurableJob
  <1>. QED
    BY <1>1, <1>2, WorkerInvariant, PTL
    DEF Spec, ImplementsDurableSteps, Durable!SafeSpec

=============================================================================
