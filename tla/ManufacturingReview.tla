------------------------ MODULE ManufacturingReview ------------------------
(***************************************************************************)
(* The review of one job's manufacturing drawing, as the review methods of *)
(* app/services/job_service.py carry it out on the job directory: several  *)
(* server processes, each with several request threads, move the review    *)
(* from draft through in_review to approved or rejected, while other       *)
(* requests read it without any lock.                                      *)
(*                                                                         *)
(* A version is a snapshot file that names a PDF and a drawing spec        *)
(* written before it.  Names carry a random token, here the request that   *)
(* drew it.  Writes are atomic (a complete temporary file is linked into   *)
(* place), so a file is there or it is not; a process may die, and the     *)
(* disk may refuse, between any two of them.                               *)
(***************************************************************************)
EXTENDS Naturals, Sequences, SequencesExt

CONSTANTS
  Requests,    \* transition requests; each is served once, by one thread
  Readers,     \* requests that read the review or the bundle
  Processes,   \* server processes that share the data directory
  Mortal,      \* the processes that may die
  Hindered,    \* the processes to which the disk may refuse a write
  Asks,        \* what clients ask for: an action and the version they saw
  None

Actions == {"submit", "approve", "reject"}

ASSUME NoneAssumption == None \notin Requests /\ None \notin Seq(Requests)
ASSUME ProcessAssumption == Mortal \subseteq Processes /\ Hindered \subseteq Processes
ASSUME AsksAssumption == Asks \subseteq [action: Actions, expected: Nat]

LastVersion == 2        \* draft, in_review and one decision
Versions == 0 .. LastVersion

VARIABLES
  ask,         \* what each request asks for
  home,        \* the process that serves it
  pc,          \* where its thread is
  base,        \* the version it read under the locks
  answer,      \* what the client is told, "none" before
  threadLock,  \* _manufacturing_locks of each process
  fileLock,    \* flock on .manufacturing-review.lock
  claim,       \* claim file of each version and the end of its lease
  files,       \* <<version, kind, request>> of each PDF and drawing spec
  snapshots,   \* events of each snapshot or None while it is not there
  reader,      \* the files each reader still has to check
  dead         \* the processes that died

vars == <<ask, home, pc, base, answer, threadLock, fileLock, claim, files,
          snapshots, reader, dead>>

NoClaim == [by |-> None, over |-> FALSE]

Latest == CHOOSE v \in Versions :
            /\ snapshots[v] # None
            /\ \A u \in Versions : snapshots[u] # None => u <= v

(* The transition table of the review.                                     *)
StatusAfter(events) ==
  IF events = <<>> THEN "draft"
  ELSE CASE ask[Last(events)].action = "submit"  -> "in_review"
         [] ask[Last(events)].action = "approve" -> "approved"
         [] OTHER                              -> "rejected"

Allowed(status, action) ==
  \/ status = "draft" /\ action = "submit"
  \/ status = "in_review" /\ action \in {"approve", "reject"}

(* The files a snapshot names: the job's own drawing at version 0.         *)
Named(v) ==
  IF v = 0 \/ snapshots[v] = None THEN {}
  ELSE {<<v, kind, Last(snapshots[v])>> : kind \in {"pdf", "spec"}}

Init ==
  /\ ask \in [Requests -> Asks]
  /\ home \in [Requests -> Processes]
  /\ pc = [r \in Requests |-> "arrive"]
  /\ base = [r \in Requests |-> 0]
  /\ answer = [r \in Requests |-> "none"]
  /\ threadLock = [p \in Processes |-> None]
  /\ fileLock = None
  /\ claim = [v \in Versions |-> NoClaim]
  /\ files = {}
  /\ snapshots = [v \in Versions |-> IF v = 0 THEN <<>> ELSE None]
  /\ reader = [d \in Readers |-> [at |-> "arrive", check |-> {}]]
  /\ dead = {}

Goto(r, label) == pc' = [pc EXCEPT ![r] = label]

Answer(r, text) == answer' = [answer EXCEPT ![r] = text]

locks  == <<threadLock, fileLock>>
disk   == <<claim, files, snapshots>>
others == <<ask, home, reader, dead>>

----------------------------------------------------------------------------
(* The two locks, taken in this order for the whole transition.            *)

LockThread(r) ==
  /\ pc[r] = "arrive"
  /\ threadLock[home[r]] = None
  /\ threadLock' = [threadLock EXCEPT ![home[r]] = r]
  /\ Goto(r, "lock_file")
  /\ UNCHANGED <<base, answer, fileLock, disk, others>>

(* Planted fault: only threads of one process exclude each other.          *)
BugFileLockFree(r) == TRUE

FileLockFree(r) == fileLock = None

LockFile(r) ==
  /\ pc[r] = "lock_file"
  /\ FileLockFree(r)
  /\ fileLock' = r
  /\ Goto(r, "read")
  /\ UNCHANGED <<base, answer, threadLock, disk, others>>

(* Planted fault: the file lock is only given back after a success.        *)
BugUnlock(r) ==
  /\ pc[r] = "unlock"
  /\ fileLock' = IF answer[r] = "ok" THEN None ELSE fileLock
  /\ threadLock' = [threadLock EXCEPT ![home[r]] = None]
  /\ Goto(r, "answered")
  /\ UNCHANGED <<base, answer, disk, others>>

Unlock(r) ==
  /\ pc[r] = "unlock"
  /\ fileLock' = None
  /\ threadLock' = [threadLock EXCEPT ![home[r]] = None]
  /\ Goto(r, "answered")
  /\ UNCHANGED <<base, answer, disk, others>>

----------------------------------------------------------------------------
(* Reading the current version and claiming the next one                   *)

(* What transition_manufacturing_review itself refuses.                    *)
Conflicts(r, v) ==
  \/ ask[r].expected # v
  \/ StatusAfter(snapshots[v]) \in {"approved", "rejected"}

Intact(v) == Named(v) \subseteq files

ReadCurrent(r) ==
  /\ pc[r] = "read"
  /\ base' = [base EXCEPT ![r] = Latest]
  /\ IF Conflicts(r, Latest) \/ ~Intact(Latest)
     THEN Goto(r, "unlock") /\ Answer(r, "conflict")
     ELSE Goto(r, "claim") /\ UNCHANGED answer
  /\ UNCHANGED <<locks, disk, others>>

Target(r) == base[r] + 1

(* The claim file is created if there is none.                             *)
CreateClaim(r) ==
  /\ pc[r] = "claim"
  /\ claim[Target(r)] = NoClaim
  /\ claim' = [claim EXCEPT ![Target(r)] = [by |-> r, over |-> FALSE]]
  /\ Goto(r, "transition")
  /\ UNCHANGED <<base, answer, locks, files, snapshots, others>>

(* Planted fault: the lease of the claim is not looked at.                 *)
BugFindClaimHeld(r) ==
  /\ pc[r] = "claim"
  /\ claim[Target(r)] # NoClaim
  /\ Goto(r, "unlock")
  /\ Answer(r, "busy")
  /\ UNCHANGED <<base, locks, disk, others>>

FindClaimHeld(r) ==
  /\ pc[r] = "claim"
  /\ claim[Target(r)] # NoClaim
  /\ ~(claim[Target(r)].over /\ snapshots[Target(r)] = None)
  /\ Goto(r, "unlock")
  /\ Answer(r, "busy")
  /\ UNCHANGED <<base, locks, disk, others>>

Debris(r) == {f \in files : f[1] = Target(r)}

(* An expired claim with no snapshot: what the interrupted transition left *)
(* is removed file by file, then the claim, and the claim is tried again.  *)
(* Under the two locks nobody else can make it in between.                 *)
FindClaimOver(r) ==
  /\ pc[r] = "claim"
  /\ claim[Target(r)].over
  /\ snapshots[Target(r)] = None
  /\ \/ /\ Debris(r) # {}
        /\ \E f \in Debris(r) : files' = files \ {f}
        /\ UNCHANGED claim
     \/ /\ Debris(r) = {}
        /\ claim' = [claim EXCEPT ![Target(r)] = NoClaim]
        /\ UNCHANGED files
  /\ UNCHANGED <<pc, base, answer, locks, snapshots, others>>

----------------------------------------------------------------------------
(* The transition under the claim                                          *)

(* Planted fault: any action is taken from any status.                     *)
BugPermitted(r) == TRUE

(* ManufacturingService.transition compares the version again, and holds   *)
(* the action against the status.                                          *)
Permitted(r) ==
  /\ ask[r].expected = base[r]
  /\ Allowed(StatusAfter(snapshots[base[r]]), ask[r].action)

Transition(r) ==
  /\ pc[r] = "transition"
  /\ Permitted(r)
  /\ Goto(r, "write_pdf")
  /\ UNCHANGED <<base, answer, locks, disk, others>>

(* A ValueError of ManufacturingService.transition: the table, or a record *)
(* the drawing spec does not accept (its id is taken, its time is early).  *)
Refuse(r) ==
  /\ pc[r] = "transition"
  /\ Goto(r, "release")
  /\ Answer(r, "invalid")
  /\ UNCHANGED <<base, locks, disk, others>>

Write(r, here, kind, next) ==
  /\ pc[r] = here
  /\ files' = files \cup {<<Target(r), kind, r>>}
  /\ Goto(r, next)
  /\ UNCHANGED <<base, answer, locks, claim, snapshots, others>>

WritePdf(r)  == Write(r, "write_pdf", "pdf", "write_spec")

(* Planted fault: the snapshot is thought to come with the drawing spec.   *)
BugWriteSpec(r) ==
  /\ pc[r] = "write_spec"
  /\ Goto(r, "write_snapshot")
  /\ UNCHANGED <<base, answer, locks, disk, others>>

WriteSpec(r) == Write(r, "write_spec", "spec", "write_snapshot")

(* Planted fault: the new snapshot forgets the events before it.           *)
BugCommitted(r) == [snapshots EXCEPT ![Target(r)] = <<r>>]

(* write_json_once of the snapshot: create if absent, the commit record.   *)
Committed(r) ==
  [snapshots EXCEPT ![Target(r)] = Append(snapshots[base[r]], r)]

WriteSnapshot(r) ==
  /\ pc[r] = "write_snapshot"
  /\ IF snapshots[Target(r)] = None
     THEN snapshots' = Committed(r) /\ Answer(r, "ok")
     ELSE UNCHANGED snapshots /\ Answer(r, "error")
  /\ Goto(r, "release")
  /\ UNCHANGED <<base, locks, claim, files, others>>

(* A write the disk refuses.  The file is missing, or it is there and only *)
(* the removal of its temporary twin failed: the client then sees an error *)
(* for a transition that was committed.  A claim made this way is never    *)
(* released: claiming is outside the try block.                            *)
WriteFails(r) ==
  /\ home[r] \in Hindered
  /\ \/ /\ pc[r] \in {"write_pdf", "write_spec", "write_snapshot"}
        /\ Goto(r, "release")
        /\ UNCHANGED claim
     \/ /\ pc[r] = "claim" /\ claim[Target(r)] = NoClaim
        /\ Goto(r, "unlock")
        /\ \/ claim' = [claim EXCEPT ![Target(r)] = [by |-> r, over |-> FALSE]]
           \/ UNCHANGED claim
  /\ \/ pc[r] = "write_pdf" /\ files' = files \cup {<<Target(r), "pdf", r>>}
     \/ pc[r] = "write_spec" /\ files' = files \cup {<<Target(r), "spec", r>>}
     \/ UNCHANGED files
  /\ \/ pc[r] = "write_snapshot" /\ snapshots[Target(r)] = None
        /\ snapshots' = Committed(r)
     \/ UNCHANGED snapshots
  /\ Answer(r, "error")
  /\ UNCHANGED <<base, locks, others>>

(* Planted fault: the claim stays when the transition was refused.         *)
BugReleased(r) ==
  IF claim[Target(r)].by = r /\ answer[r] = "ok"
  THEN [claim EXCEPT ![Target(r)] = NoClaim] ELSE claim

Released(r) ==
  IF claim[Target(r)].by = r
  THEN [claim EXCEPT ![Target(r)] = NoClaim] ELSE claim

(* The finally block.  The claim stays when it cannot be read, which is    *)
(* passed over, or cannot be removed, which is an error to the client.     *)
Release(r) ==
  /\ pc[r] = "release"
  /\ \/ claim' = Released(r) /\ UNCHANGED answer
     \/ home[r] \in Hindered /\ UNCHANGED <<claim, answer>>
     \/ home[r] \in Hindered /\ Answer(r, "error") /\ UNCHANGED claim
  /\ Goto(r, "unlock")
  /\ UNCHANGED <<base, locks, files, snapshots, others>>

----------------------------------------------------------------------------
(* Time, crashes and readers                                               *)

LeaseOver(v) ==       \* 300 seconds after the claim was made
  /\ claim[v].by # None /\ ~claim[v].over
  /\ claim' = [claim EXCEPT ![v].over = TRUE]
  /\ UNCHANGED <<pc, base, answer, locks, files, snapshots, others>>

(* The threads are gone and the system drops the flock; files stay.        *)
Die(p) ==
  /\ p \in Mortal \ dead
  /\ dead' = dead \cup {p}
  /\ fileLock' = IF fileLock # None /\ home[fileLock] = p THEN None ELSE fileLock
  /\ UNCHANGED <<ask, home, pc, base, answer, threadLock, disk, reader>>

(* The bundle: the latest snapshot and every one before it, then, file by  *)
(* file, what they name.  No lock is held.                                 *)
List(d) ==
  /\ reader[d].at = "arrive"
  /\ reader' = [reader EXCEPT ![d] =
       [at |-> "check", check |-> UNION {Named(v) : v \in 1 .. Latest}]]
  /\ UNCHANGED <<ask, home, pc, base, answer, locks, disk, dead>>

CheckFile(d) ==
  /\ reader[d].at = "check"
  /\ \/ \E f \in reader[d].check :
          reader' = IF f \in files
                    THEN [reader EXCEPT ![d].check = @ \ {f}]
                    ELSE [reader EXCEPT ![d].at = "conflict"]
     \/ /\ reader[d].check = {}
        /\ reader' = [reader EXCEPT ![d].at = "ok"]
  /\ UNCHANGED <<ask, home, pc, base, answer, locks, disk, dead>>

----------------------------------------------------------------------------
Serve(r) ==
  /\ home[r] \notin dead
  /\ \/ LockThread(r) \/ LockFile(r) \/ ReadCurrent(r)
     \/ CreateClaim(r) \/ FindClaimHeld(r) \/ FindClaimOver(r)
     \/ Transition(r) \/ Refuse(r)
     \/ WritePdf(r) \/ WriteSpec(r) \/ WriteSnapshot(r)
     \/ WriteFails(r)
     \/ Release(r) \/ Unlock(r)

Next ==
  \/ \E r \in Requests : Serve(r)
  \/ \E d \in Readers : List(d) \/ CheckFile(d)
  \/ \E v \in Versions : LeaseOver(v)
  \/ \E p \in Processes : Die(p)

Spec == Init /\ [][Next]_vars

(* Threads run, and a lock that is free again is given to one that waits;  *)
(* with finitely many requests none can be passed over for ever.           *)
FairSpec == Spec /\ \A r \in Requests : WF_vars(Serve(r))

----------------------------------------------------------------------------
(* Properties.                                                             *)

Labels == {"arrive", "lock_file", "read", "claim", "transition", "write_pdf",
           "write_spec", "write_snapshot", "release", "unlock", "answered"}

(* The type of every variable.                                             *)
TypeOK ==
  /\ ask \in [Requests -> Asks] /\ home \in [Requests -> Processes]
  /\ pc \in [Requests -> Labels]
  /\ base \in [Requests -> Versions]
  /\ answer \in [Requests ->
       {"none", "ok", "conflict", "busy", "invalid", "error"}]
  /\ threadLock \in [Processes -> Requests \cup {None}]
  /\ fileLock \in Requests \cup {None}
  /\ claim \in [Versions -> [by: Requests \cup {None}, over: BOOLEAN]]
  /\ files \subseteq Versions \X {"pdf", "spec"} \X Requests
  /\ \A v \in Versions : snapshots[v] # None =>
       /\ Len(snapshots[v]) = v
       /\ \A i \in 1 .. v : snapshots[v][i] \in Requests
  /\ \A d \in Readers : reader[d].at \in {"arrive", "check", "ok", "conflict"}
  /\ dead \subseteq Mortal

(* One history: the snapshots have no gap, and each continues the one      *)
(* before it by a single transition, made by a client who had seen that    *)
(* version and allowed by its status.  Two approvals, or an approval and a *)
(* rejection, of one version can never both be recorded.                   *)
HistoryLinear ==
  \A v \in Versions \ {0} : snapshots[v] # None =>
    /\ snapshots[v - 1] # None
    /\ snapshots[v - 1] = Front(snapshots[v])
    /\ ask[Last(snapshots[v])].expected = v - 1
    /\ Allowed(StatusAfter(snapshots[v - 1]), ask[Last(snapshots[v])].action)

(* The files a snapshot names are on disk and stay there: a recovery never *)
(* takes a committed PDF or drawing spec for the debris of a lost one.     *)
SnapshotFilesExist == \A v \in Versions : Named(v) \subseteq files

(* The history is intact: one line, and all of its files.                  *)
HistoryIntact == HistoryLinear /\ SnapshotFilesExist

(* A client who was told "ok" finds its transition in the history, and one *)
(* who was told of a conflict, a busy version or an invalid action does    *)
(* not.  (An "error" may stand for a transition that was committed.)       *)
AnswerMatchesHistory ==
  \A r \in Requests :
    LET entered == r \in ToSet(snapshots[Latest]) IN
    /\ answer[r] = "ok" => entered
    /\ answer[r] \in {"conflict", "busy", "invalid"} => ~entered

(* Whoever reads without a lock, while transitions, recoveries and crashes *)
(* go on, is never told that the review is damaged.                        *)
ReadersNeverConflict == \A d \in Readers : reader[d].at # "conflict"

(* Only a crash, or a disk that refuses, leaves a claim in the way of      *)
(* another request: every transition that ends, however it ends, gives its *)
(* claim back before it lets go of the locks.                              *)
BusyOnlyAfterCrash ==
  [][\A r \in Requests :
       (answer'[r] = "busy" /\ answer[r] # "busy") =>
         home[claim[Target(r)].by] \in dead \cup Hindered]_answer

(* Every request of a process that stays alive is answered: neither a      *)
(* crash in any other process, at any step, nor a claim it left keeps the  *)
(* locks from being handed on.                                             *)
EveryRequestAnswered ==
  \A r \in Requests : home[r] \notin Mortal => <>(pc[r] = "answered")

(* A request that finds an expired claim of an uncommitted version gets    *)
(* past it: the version is claimed by this request, unless its process     *)
(* dies or the disk refuses.                                               *)
RecoverySucceeds ==
  \A r \in Requests :
    (pc[r] = "claim" /\ claim[Target(r)].over) ~>
      (pc[r] # "claim" /\ answer[r] # "busy")
      \/ home[r] \in dead

(* The review, as the abstract ledger: a transition takes effect at the    *)
(* instant its snapshot appears, and at no other.                          *)
Ledger == INSTANCE ReviewLedger WITH ledger <- snapshots[Latest]

ImplementsLedger == Ledger!Spec

=============================================================================
