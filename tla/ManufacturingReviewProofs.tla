--------------------- MODULE ManufacturingReviewProofs ---------------------
(***************************************************************************)
(* Proofs about the review of a manufacturing drawing, for any number of   *)
(* requests, readers and processes, whichever of them may die and whether  *)
(* the disk may refuse or not.                                             *)
(*                                                                         *)
(* The argument: a live request past the file lock holds it, so from the   *)
(* version it read to the snapshot it writes the review stands still; and  *)
(* what a recovery removes is named by no snapshot, because its version    *)
(* has none.                                                               *)
(***************************************************************************)
EXTENDS ManufacturingReview, SequenceTheorems, TLAPS

Alive(r) == home[r] \notin dead

Writing == {"write_pdf", "write_spec", "write_snapshot"}
Trying  == {"claim", "transition"} \cup Writing
Closing == {"release", "unlock", "answered"}
Locked  == {"read", "release", "unlock"} \cup Trying

Entered(r) == r \in ToSet(snapshots[Latest])

FileNames == Versions \X {"pdf", "spec"} \X Requests

ClaimTable == [Versions -> [by: Requests \cup {None}, over: BOOLEAN]]
Progress   == [at: {"arrive", "check", "ok", "conflict"}, check: SUBSET FileNames]

Types ==
  /\ ask \in [Requests -> Asks] /\ home \in [Requests -> Processes]
  /\ pc \in [Requests -> Labels]
  /\ base \in [Requests -> Versions]
  /\ answer \in [Requests ->
       {"none", "ok", "conflict", "busy", "invalid", "error"}]
  /\ threadLock \in [Processes -> Requests \cup {None}]
  /\ fileLock \in Requests \cup {None}
  /\ claim \in ClaimTable
  /\ files \subseteq FileNames
  /\ snapshots \in [Versions -> Seq(Requests) \cup {None}]
  /\ reader \in [Readers -> Progress]
  /\ dead \subseteq Mortal

(* The snapshots, and the length of each.                                  *)
History ==
  /\ snapshots[0] = <<>>
  /\ \A v \in Versions : snapshots[v] # None => Len(snapshots[v]) = v
  /\ HistoryLinear

(* A live request past the file lock holds it.                             *)
Exclusive(r) == (Alive(r) /\ pc[r] \in Locked) => fileLock = r

(* Between its reading and its commit the version it read is the latest.   *)
Steadfast(r) ==
  (Alive(r) /\ pc[r] \in Trying) =>
    /\ base[r] = Latest
    /\ base[r] < LastVersion
    /\ ask[r].expected = base[r]

(* It writes only a transition that is allowed, and in this order.         *)
Prepared(r) ==
  (Alive(r) /\ pc[r] \in Writing) =>
    /\ Permitted(r)
    /\ pc[r] # "write_pdf" => <<Target(r), "pdf", r>> \in files
    /\ pc[r] = "write_snapshot" => <<Target(r), "spec", r>> \in files

(* A request that is in the history knows, or met an error since; one that *)
(* was told so is in it.                                                   *)
Told(r) ==
  /\ Entered(r) => pc[r] \in Closing /\ answer[r] \in {"ok", "error"}
  /\ answer[r] = "ok" => Entered(r)

RequestOK(r) == Exclusive(r) /\ Steadfast(r) /\ Prepared(r) /\ Told(r)

(* A reader has only files to check that a snapshot names.                 *)
ReaderOK(d) ==
  /\ reader[d].at # "conflict"
  /\ \A f \in reader[d].check : \E v \in Versions : f \in Named(v)

(* Where the disk accepts every write, the claim of a live request is the  *)
(* one of the transition it is in.                                         *)
ClaimOK(v) ==
  /\ claim[v].by = None => claim[v] = NoClaim
  /\ (claim[v].by # None /\ Alive(claim[v].by)
        /\ home[claim[v].by] \notin Hindered) =>
       /\ pc[claim[v].by] \in {"transition", "release"} \cup Writing
       /\ v = Target(claim[v].by)

ReviewInv ==
  /\ Types
  /\ History
  /\ SnapshotFilesExist
  /\ \A r \in Requests : RequestOK(r)
  /\ \A d \in Readers : ReaderOK(d)
  /\ \A v \in Versions : ClaimOK(v)

----------------------------------------------------------------------------
(* One more event at the end of a sequence.                                *)
LEMMA Appended ==
  ASSUME NEW s \in Seq(Requests), NEW r \in Requests
  PROVE  /\ Append(s, r) \in Seq(Requests)
         /\ Append(s, r) # None
         /\ Len(Append(s, r)) = Len(s) + 1
         /\ Last(Append(s, r)) = r
         /\ Front(Append(s, r)) = s
         /\ ToSet(Append(s, r)) = ToSet(s) \cup {r}
  <1>. DEFINE t == Append(s, r)
  <1>1. /\ t \in Seq(Requests) /\ Len(t) = Len(s) + 1 /\ Len(s) \in Nat
        /\ \A i \in 1 .. Len(s) : t[i] = s[i]
        /\ t[Len(s) + 1] = r
    BY AppendProperties, LenProperties
  <1>2. t # None
    BY <1>1, NoneAssumption
  <1>3. Last(t) = r
    BY <1>1 DEF Last
  <1>4. Front(t) = s
    <2>1. /\ Front(t) \in Seq(Requests)
          /\ Len(Front(t)) = Len(s)
          /\ \A i \in 1 .. Len(s) : Front(t)[i] = t[i]
      <3>1. \A i \in 1 .. Len(s) : t[i] \in Requests
        BY <1>1, ElementOfSeq
      <3>2. Front(t) = SubSeq(t, 1, Len(s))
        BY <1>1 DEF Front
      <3>3. 1 \in Int /\ Len(s) \in Int
        BY <1>1
      <3>. HIDE DEF t
      <3>4. /\ SubSeq(t, 1, Len(s)) \in Seq(Requests)
            /\ Len(SubSeq(t, 1, Len(s))) =
                 IF 1 <= Len(s) THEN Len(s) - 1 + 1 ELSE 0
            /\ \A i \in 1 .. Len(s) - 1 + 1 : SubSeq(t, 1, Len(s))[i] = t[1 + i - 1]
        BY <3>1, <3>3, SubSeqProperties
      <3>. QED
        BY <1>1, <3>2, <3>4
    <2>. QED
      BY <1>1, <2>1, SeqEqual
  <1>5. ToSet(t) = ToSet(s) \cup {r}
    <2>1. DOMAIN t = 1 .. Len(s) + 1 /\ DOMAIN s = 1 .. Len(s)
      BY <1>1, LenProperties
    <2>. QED
      BY <1>1, <2>1 DEF ToSet
  <1>. QED
    BY <1>1, <1>2, <1>3, <1>4, <1>5

(* The latest version is one, and there is none after it.                  *)
LEMMA LatestVersion ==
  ASSUME History
  PROVE  /\ Latest \in Versions
         /\ snapshots[Latest] # None
         /\ \A u \in Versions : snapshots[u] # None => u <= Latest
  <1>. DEFINE IsLatest(v) == /\ snapshots[v] # None
                             /\ \A u \in Versions : snapshots[u] # None => u <= v
  <1>1. snapshots[0] # None
    <2>1. <<>> \in Seq(Requests)
      BY EmptySeq
    <2>. QED
      BY <2>1, NoneAssumption DEF History
  <1>2. \E v \in Versions : IsLatest(v)
    BY <1>1 DEF Versions, LastVersion
  <1>. QED
    BY <1>2 DEF Latest

LEMMA LatestIs ==
  ASSUME History, NEW v \in Versions, snapshots[v] # None,
         \A u \in Versions : snapshots[u] # None => u <= v
  PROVE  Latest = v
  BY LatestVersion DEF Versions, LastVersion

(* There is no gap: every version up to the latest is there.               *)
LEMMA NoGap ==
  ASSUME History, Types
  PROVE  /\ \A v \in Versions : snapshots[v] # None <=> v <= Latest
         /\ snapshots[Latest] \in Seq(Requests)
         /\ Len(snapshots[Latest]) = Latest
  <1>1. \A v \in Versions \ {0} : snapshots[v] # None => snapshots[v - 1] # None
    BY DEF History, HistoryLinear
  <1>2. \A v \in Versions : snapshots[v] # None <=> v <= Latest
    BY <1>1, LatestVersion DEF Versions, LastVersion
  <1>. QED
    BY <1>2, LatestVersion DEF Types, History

----------------------------------------------------------------------------
(* Types.                                                                  *)
LEMMA TargetType ==
  ASSUME ReviewInv, NEW r \in Requests, Alive(r), pc[r] \in Trying
  PROVE  Target(r) \in Versions
  BY DEF ReviewInv, RequestOK, Steadfast, Target, Types, Versions, LastVersion

LEMMA CommitTypes ==
  ASSUME ReviewInv, NEW r \in Requests, Alive(r), pc[r] \in Trying
  PROVE  Committed(r) \in [Versions -> Seq(Requests) \cup {None}]
  <1>1. base[r] = Latest /\ Types /\ History
    BY DEF ReviewInv, RequestOK, Steadfast
  <1>2. Append(snapshots[base[r]], r) \in Seq(Requests)
    BY <1>1, NoGap, Appended
  <1>. QED
    BY <1>1, <1>2 DEF Committed, Types

LEMMA ClaimTypes ==
  ASSUME claim \in ClaimTable, NEW r \in Requests, NEW v,
         \/ claim' = claim
         \/ claim' = [claim EXCEPT ![v] = NoClaim]
         \/ claim' = [claim EXCEPT ![v] = [by |-> r, over |-> FALSE]]
  PROVE  claim' \in ClaimTable
  <1>1. CASE claim' = claim
    BY <1>1
  <1>2. CASE claim' = [claim EXCEPT ![v] = NoClaim]
    BY <1>2 DEF NoClaim, ClaimTable
  <1>3. CASE claim' = [claim EXCEPT ![v] = [by |-> r, over |-> FALSE]]
    BY <1>3 DEF ClaimTable
  <1>. QED
    BY <1>1, <1>2, <1>3

LEMMA TypesKept ==
  ASSUME ReviewInv, Next
  PROVE  Types'
  <1>0. Types
    BY DEF ReviewInv
  <1>. USE DEF Types, Labels, Goto, Answer, locks, disk, others
  <1>1. ASSUME NEW r \in Requests, LockThread(r) \/ LockFile(r) \/ Unlock(r)
        PROVE  Types'
    <2>1. CASE LockThread(r)
      BY <1>0, <2>1 DEF LockThread
    <2>2. CASE LockFile(r)
      BY <1>0, <2>2 DEF LockFile
    <2>3. CASE Unlock(r)
      BY <1>0, <2>3 DEF Unlock
    <2>. QED
      BY <1>1, <2>1, <2>2, <2>3
  <1>2. ASSUME NEW r \in Requests, ReadCurrent(r) PROVE Types'
    BY <1>0, <1>2, LatestVersion DEF ReadCurrent, ReviewInv
  <1>3. ASSUME NEW r \in Requests,
               CreateClaim(r) \/ FindClaimHeld(r) \/ FindClaimOver(r)
        PROVE  Types'
    <2>1. CASE CreateClaim(r)
      <3>1. claim \in ClaimTable
            /\ claim' = [claim EXCEPT ![Target(r)] = [by |-> r, over |-> FALSE]]
        BY <1>0, <2>1 DEF CreateClaim
      <3>2. claim' \in ClaimTable
        BY <3>1, ClaimTypes
      <3>. QED
        BY <1>0, <2>1, <3>2 DEF CreateClaim
    <2>2. CASE FindClaimHeld(r)
      BY <1>0, <2>2 DEF FindClaimHeld
    <2>3. CASE FindClaimOver(r)
      <3>1. claim' \in ClaimTable
        <4>1. /\ claim \in ClaimTable
              /\ \/ claim' = claim
                 \/ claim' = [claim EXCEPT ![Target(r)] = NoClaim]
          BY <1>0, <2>3 DEF FindClaimOver
        <4>. QED
          BY <4>1, ClaimTypes
      <3>. QED
        BY <1>0, <2>3, <3>1 DEF FindClaimOver
    <2>. QED
      BY <1>3, <2>1, <2>2, <2>3
  <1>4. ASSUME NEW r \in Requests, Transition(r) \/ Refuse(r) PROVE Types'
    BY <1>0, <1>4 DEF Transition, Refuse
  <1>5. ASSUME NEW r \in Requests, Alive(r), WritePdf(r) \/ WriteSpec(r)
        PROVE  Types'
    <2>1. Target(r) \in Versions
      BY <1>5, TargetType DEF WritePdf, WriteSpec, Write, Trying, Writing
    <2>2. files' \subseteq FileNames
      BY <1>0, <1>5, <2>1 DEF WritePdf, WriteSpec, Write, FileNames
    <2>. QED
      BY <1>0, <1>5, <2>2 DEF WritePdf, WriteSpec, Write
  <1>6. ASSUME NEW r \in Requests, Alive(r), WriteSnapshot(r) PROVE Types'
    BY <1>0, <1>6, CommitTypes DEF WriteSnapshot, Trying, Writing
  <1>7. ASSUME NEW r \in Requests, Alive(r), WriteFails(r) PROVE Types'
    <2>1. pc[r] \in Trying
      BY <1>7 DEF WriteFails, Trying, Writing
    <2>2. Target(r) \in Versions
      BY <1>7, <2>1, TargetType
    <2>3. files' \subseteq FileNames
      BY <1>0, <1>7, <2>2 DEF WriteFails, FileNames
    <2>4. snapshots' \in [Versions -> Seq(Requests) \cup {None}]
      BY <1>0, <1>7, <2>1, CommitTypes DEF WriteFails
    <2>5. claim' \in ClaimTable
      <3>1. /\ claim \in ClaimTable
            /\ \/ claim' = claim
               \/ claim' =
                    [claim EXCEPT ![Target(r)] = [by |-> r, over |-> FALSE]]
        BY <1>0, <1>7 DEF WriteFails
      <3>. QED
        BY <3>1, ClaimTypes
    <2>. QED
      BY <1>0, <1>7, <2>3, <2>4, <2>5 DEF WriteFails
  <1>8. ASSUME NEW r \in Requests, Release(r) PROVE Types'
    <2>1. claim' \in ClaimTable
      <3>1. /\ claim \in ClaimTable
            /\ \/ claim' = claim
               \/ claim' = [claim EXCEPT ![Target(r)] = NoClaim]
        BY <1>0, <1>8 DEF Release, Released
      <3>. QED
        BY <3>1, ClaimTypes
    <2>. QED
      BY <1>0, <1>8, <2>1 DEF Release
  <1>9. ASSUME NEW v \in Versions, LeaseOver(v) PROVE Types'
    BY <1>0, <1>9 DEF LeaseOver, ClaimTable
  <1>10. ASSUME NEW p \in Processes, Die(p) PROVE Types'
    BY <1>0, <1>10 DEF Die
  <1>11. ASSUME NEW d \in Readers, List(d) PROVE Types'
    <2>1. UNION {Named(v) : v \in 1 .. Latest} \subseteq FileNames
      <3>1. \A v \in 1 .. Latest : v \in Versions
        BY LatestVersion DEF ReviewInv, Versions, LastVersion
      <3>2. \A v \in Versions : Named(v) \subseteq files
        BY DEF ReviewInv, SnapshotFilesExist
      <3>. QED
        BY <1>0, <3>1, <3>2
    <2>2. reader' \in [Readers -> Progress]
      BY <1>0, <1>11, <2>1 DEF List, Progress
    <2>. QED
      BY <1>0, <1>11, <2>2 DEF List
  <1>12. ASSUME NEW d \in Readers, CheckFile(d) PROVE Types'
    <2>1. ASSUME NEW f, reader' = [reader EXCEPT ![d].check = @ \ {f}]
          PROVE  reader' \in [Readers -> Progress]
      BY <1>0, <2>1 DEF Progress
    <2>2. ASSUME NEW at \in {"ok", "conflict"},
                 reader' = [reader EXCEPT ![d].at = at]
          PROVE  reader' \in [Readers -> Progress]
      BY <1>0, <2>2 DEF Progress
    <2>3. reader' \in [Readers -> Progress]
      BY <1>12, <2>1, <2>2 DEF CheckFile
    <2>. QED
      BY <1>0, <1>12, <2>3 DEF CheckFile
  <1>. QED
    BY <1>1, <1>2, <1>3, <1>4, <1>5, <1>6, <1>7, <1>8, <1>9, <1>10, <1>11,
       <1>12
    DEF Next, Serve, Alive

----------------------------------------------------------------------------
(* A step that commits nothing.                                            *)
LEMMA NoCommit ==
  ASSUME UNCHANGED <<ask, snapshots>>
  PROVE  /\ Latest' = Latest
         /\ \A v : Named(v)' = Named(v)
         /\ \A r : Entered(r)' = Entered(r)
         /\ History => History'
  BY DEF Latest, Named, Entered, History, HistoryLinear, Allowed, StatusAfter

(* Past the file lock there is room for one.                               *)
LEMMA OnlyHolder ==
  ASSUME ReviewInv, NEW r \in Requests, NEW q \in Requests \ {r},
         fileLock \in {r, None}, Alive(q)
  PROVE  pc[q] \notin Locked
  BY NoneAssumption DEF ReviewInv, RequestOK, Exclusive

(* What a request that does not move keeps.                                *)
LEMMA Bystander ==
  ASSUME ReviewInv, NEW q \in Requests,
         UNCHANGED <<ask, home, snapshots>>, dead \subseteq dead',
         pc'[q] = pc[q], base'[q] = base[q], answer'[q] = answer[q],
         (Alive(q)' /\ pc[q] \in Locked) =>
           (fileLock' = fileLock /\ files \subseteq files')
  PROVE  RequestOK(q)'
  <1>0. RequestOK(q)
    BY DEF ReviewInv
  <1>1. Alive(q)' => Alive(q)
    BY DEF Alive
  <1>2. Exclusive(q)'
    BY <1>0, <1>1 DEF RequestOK, Exclusive
  <1>3. Steadfast(q)'
    BY <1>0, <1>1, NoCommit DEF RequestOK, Steadfast
  <1>4. Prepared(q)'
    BY <1>0, <1>1
    DEF RequestOK, Prepared, Permitted, Target, StatusAfter, Allowed, Locked,
        Trying, Writing
  <1>5. Told(q)'
    BY <1>0, NoCommit DEF RequestOK, Told
  <1>. QED
    BY <1>2, <1>3, <1>4, <1>5 DEF RequestOK

(* One step of one live request, but for the commit.                       *)
LEMMA OneRequest ==
  ASSUME ReviewInv, Types', NEW r \in Requests, Alive(r),
         UNCHANGED <<ask, home, reader, dead, snapshots>>,
         \A q \in Requests \ {r} :
           pc'[q] = pc[q] /\ base'[q] = base[q] /\ answer'[q] = answer[q],
         fileLock \in {r, None} \/ UNCHANGED <<fileLock, files>>,
         SnapshotFilesExist',
         RequestOK(r)',
         \A v \in Versions : ClaimOK(v)'
  PROVE  ReviewInv'
  <1>1. History'
    BY NoCommit DEF ReviewInv
  <1>2. \A q \in Requests : RequestOK(q)'
    BY OnlyHolder, Bystander DEF Alive
  <1>3. \A d \in Readers : ReaderOK(d)'
    BY NoCommit DEF ReviewInv, ReaderOK
  <1>. QED
    BY <1>1, <1>2, <1>3 DEF ReviewInv

(* The claims, when none is made or given back.                            *)
LEMMA ClaimsStay ==
  ASSUME ReviewInv, NEW r \in Requests, UNCHANGED <<claim, home, dead>>,
         \A q \in Requests \ {r} : pc'[q] = pc[q] /\ base'[q] = base[q],
         \/ home[r] \in Hindered
         \/ pc[r] \notin {"transition", "release"} \cup Writing
         \/ /\ pc'[r] \in {"transition", "release"} \cup Writing
            /\ base'[r] = base[r]
  PROVE  \A v \in Versions : ClaimOK(v)'
  BY DEF ReviewInv, Types, ClaimTable, ClaimOK, Alive, Target

(* A step of one request that touches neither the files nor the claims.    *)
LEMMA QuietStep ==
  ASSUME ReviewInv, Types', NEW r \in Requests, Alive(r),
         UNCHANGED <<ask, home, reader, dead, files, snapshots, claim>>,
         \A q \in Requests \ {r} :
           pc'[q] = pc[q] /\ base'[q] = base[q] /\ answer'[q] = answer[q],
         fileLock \in {r, None} \/ UNCHANGED fileLock,
         \/ home[r] \in Hindered
         \/ pc[r] \notin {"transition", "release"} \cup Writing
         \/ /\ pc'[r] \in {"transition", "release"} \cup Writing
            /\ base'[r] = base[r],
         RequestOK(r)'
  PROVE  ReviewInv'
  <1>1. SnapshotFilesExist'
    BY NoCommit DEF ReviewInv, SnapshotFilesExist
  <1>2. \A v \in Versions : ClaimOK(v)'
    BY ClaimsStay
  <1>. QED
    BY <1>1, <1>2, OneRequest

----------------------------------------------------------------------------
(* The steps of a request, one after the other.  Facts is what each proof  *)
(* needs of the invariant.                                                 *)
Facts(r) == /\ pc[r] \in Labels
              /\ RequestOK(r) /\ History /\ Types
              /\ SnapshotFilesExist

LEMMA AtWork ==
  ASSUME ReviewInv, NEW r \in Requests
  PROVE  Facts(r)
  BY DEF ReviewInv, Facts, Types

LEMMA LocksInv ==
  ASSUME ReviewInv, Types', NEW r \in Requests, Alive(r),
         LockThread(r) \/ LockFile(r) \/ Unlock(r)
  PROVE  ReviewInv'
  <1>0. Facts(r)
    BY AtWork
  <1>. USE DEF Goto, locks, disk, others
  <1>1. UNCHANGED <<ask, home, reader, dead, files, snapshots, claim, base,
                    answer>>
    BY DEF LockThread, LockFile, Unlock
  <1>2. \A q \in Requests \ {r} : pc'[q] = pc[q]
    BY <1>0 DEF LockThread, LockFile, Unlock, Facts, Types
  <1>3. /\ pc[r] \in {"arrive", "lock_file", "unlock"}
        /\ pc'[r] \in {"lock_file", "read", "answered"}
        /\ pc'[r] = "read" => fileLock' = r
        /\ pc[r] = "unlock" => pc'[r] = "answered"
    BY <1>0 DEF LockThread, LockFile, Unlock, Facts, Types
  <1>4. fileLock \in {r, None} \/ UNCHANGED fileLock
    BY <1>0 DEF LockThread, LockFile, FileLockFree, Unlock, Facts, RequestOK,
            Exclusive, Locked
  <1>5. RequestOK(r)'
    <2>1. Exclusive(r)' /\ Steadfast(r)' /\ Prepared(r)'
      BY <1>3 DEF Exclusive, Steadfast, Prepared, Locked, Trying, Writing
    <2>2. Told(r)'
      BY <1>0, <1>1, <1>3, NoCommit DEF Facts, RequestOK, Told, Closing
    <2>. QED
      BY <2>1, <2>2 DEF RequestOK
  <1>6. pc[r] \notin {"transition", "release"} \cup Writing
    BY <1>3 DEF Writing
  <1>. QED
    BY <1>1, <1>2, <1>4, <1>5, <1>6, QuietStep

LEMMA ReadInv ==
  ASSUME ReviewInv, Types', NEW r \in Requests, Alive(r), ReadCurrent(r)
  PROVE  ReviewInv'
  <1>0. Facts(r) /\ fileLock = r /\ ~Entered(r)
    <2>1. Facts(r) /\ pc[r] = "read"
      BY AtWork DEF ReadCurrent
    <2>. QED
      BY <2>1
      DEF Facts, RequestOK, Exclusive, Told, Locked, Closing
  <1>. USE DEF Goto, Answer, locks, disk, others
  <1>1. UNCHANGED <<ask, home, reader, dead, files, snapshots, claim, fileLock>>
    BY DEF ReadCurrent
  <1>2. /\ \A q \in Requests \ {r} :
             pc'[q] = pc[q] /\ base'[q] = base[q] /\ answer'[q] = answer[q]
        /\ base'[r] = Latest
        /\ \/ pc'[r] = "unlock" /\ answer'[r] = "conflict"
           \/ /\ pc'[r] = "claim" /\ answer'[r] = answer[r]
              /\ ~Conflicts(r, Latest)
    BY <1>0 DEF ReadCurrent, Facts, Types
  <1>3. ASSUME ~Conflicts(r, Latest)
        PROVE  ask[r].expected = Latest /\ Latest < LastVersion
    <2>1. ask[r].expected = Latest
      BY <1>3 DEF Conflicts
    <2>2. Latest # LastVersion
      <3>. SUFFICES ASSUME Latest = 2 PROVE FALSE
        BY DEF LastVersion
      <3>1. /\ snapshots[2] # None /\ 2 \in Versions \ {0} /\ 1 \in Versions \ {0}
        BY <1>0, LatestVersion DEF Facts, Versions, LastVersion
      <3>2. ASSUME NEW v \in Versions \ {0}, snapshots[v] # None
            PROVE  /\ snapshots[v - 1] # None
                   /\ Allowed(StatusAfter(snapshots[v - 1]),
                              ask[Last(snapshots[v])].action)
        BY <1>0, <3>2 DEF Facts, History, HistoryLinear
      <3>3. /\ snapshots[1] # None
            /\ Allowed(StatusAfter(snapshots[1]), ask[Last(snapshots[2])].action)
        <4>1. 2 - 1 = 1
          OBVIOUS
        <4>. QED
          BY <3>1, <3>2, <4>1
      <3>4. /\ snapshots[1] # <<>> /\ snapshots[2] # <<>>
        <4>1. Len(snapshots[1]) = 1 /\ Len(snapshots[2]) = 2
          BY <1>0, <3>1, <3>3 DEF Facts, History
        <4>2. Len(<<>>) = 0
          OBVIOUS
        <4>3. Len(snapshots[1]) # Len(<<>>) /\ Len(snapshots[2]) # Len(<<>>)
          BY <4>1, <4>2
        <4>. QED
          BY ONLY <4>3, Zenon
      <3>5. Allowed(StatusAfter(snapshots[0]), ask[Last(snapshots[1])].action)
        <4>1. 1 - 1 = 0
          OBVIOUS
        <4>. QED
          BY <3>1, <3>2, <3>3, <4>1
      <3>6. ask[Last(snapshots[1])].action = "submit"
        BY <1>0, <3>5 DEF Allowed, StatusAfter, Facts, History
      <3>7. StatusAfter(snapshots[1]) = "in_review"
        BY <3>4, <3>6 DEF StatusAfter
      <3>8. ask[Last(snapshots[2])].action \in {"approve", "reject"}
        BY <3>3, <3>7 DEF Allowed
      <3>9. StatusAfter(snapshots[2]) \in {"approved", "rejected"}
        BY <3>4, <3>8 DEF StatusAfter
      <3>. QED
        BY <1>3, <3>9 DEF Conflicts
    <2>. QED
      BY <1>0, <2>1, <2>2, LatestVersion DEF Facts, Versions, LastVersion
  <1>4. RequestOK(r)'
    <2>1. Exclusive(r)'
      BY <1>0, <1>1 DEF Exclusive
    <2>2. Steadfast(r)'
      BY <1>1, <1>2, <1>3, NoCommit DEF Steadfast, Trying, Writing
    <2>3. Prepared(r)'
      BY <1>2 DEF Prepared, Writing
    <2>4. Told(r)'
      BY <1>0, <1>1, <1>2, NoCommit DEF Told, Facts, RequestOK
    <2>. QED
      BY <2>1, <2>2, <2>3, <2>4 DEF RequestOK
  <1>5. pc[r] \notin {"transition", "release"} \cup Writing
    BY DEF ReadCurrent, Writing
  <1>. QED
    BY <1>0, <1>1, <1>2, <1>4, <1>5, QuietStep

(* The claim is there: the request gives up; or it is over.                *)
LEMMA FindClaimInv ==
  ASSUME ReviewInv, Types', NEW r \in Requests, Alive(r),
         FindClaimHeld(r) \/ FindClaimOver(r)
  PROVE  ReviewInv'
  <1>0. Facts(r) /\ fileLock = r /\ ~Entered(r) /\ pc[r] = "claim"
    <2>1. Facts(r) /\ pc[r] = "claim"
      BY AtWork DEF FindClaimHeld, FindClaimOver
    <2>. QED
      BY <2>1
      DEF Facts, RequestOK, Exclusive, Told, Locked, Closing, Trying
  <1>. USE DEF Goto, Answer, locks, disk, others
  <1>1. CASE FindClaimHeld(r)
    <2>1. UNCHANGED <<ask, home, reader, dead, files, snapshots, claim,
                      fileLock, base>>
      BY <1>1 DEF FindClaimHeld
    <2>2. /\ \A q \in Requests \ {r} :
               pc'[q] = pc[q] /\ answer'[q] = answer[q]
          /\ pc'[r] = "unlock" /\ answer'[r] = "busy"
      BY <1>0, <1>1 DEF FindClaimHeld, Facts, Types
    <2>3. RequestOK(r)'
      BY <1>0, <2>1, <2>2, NoCommit
      DEF RequestOK, Exclusive, Steadfast, Prepared, Told, Trying, Writing
    <2>4. pc[r] \notin {"transition", "release"} \cup Writing
      BY <1>0 DEF Writing
    <2>. QED
      BY <1>0, <2>1, <2>2, <2>3, <2>4, QuietStep
  <1>2. CASE FindClaimOver(r)
    <2>1. UNCHANGED <<ask, home, reader, dead, snapshots, fileLock, base, pc,
                      answer>>
      BY <1>2 DEF FindClaimOver
    <2>2. SnapshotFilesExist'
      <3>1. \A f \in files : f \notin files' => f[1] = Target(r)
        BY <1>2 DEF FindClaimOver, Debris
      <3>2. \A v \in Versions : \A f \in Named(v) :
              f[1] = v /\ snapshots[v] # None
        BY DEF Named
      <3>3. snapshots[Target(r)] = None
        BY <1>2 DEF FindClaimOver
      <3>. QED
        BY <1>0, <2>1, <3>1, <3>2, <3>3, NoCommit
        DEF Facts, SnapshotFilesExist
    <2>3. RequestOK(r)'
      BY <1>0, <2>1, NoCommit
      DEF Facts, RequestOK, Exclusive, Steadfast, Prepared, Told, Alive,
          Writing
    <2>4. \A v \in Versions : ClaimOK(v)'
      <3>. SUFFICES ASSUME NEW v \in Versions PROVE ClaimOK(v)'
        OBVIOUS
      <3>1. claim'[v] = claim[v] \/ claim'[v] = NoClaim
        BY <1>0, <1>2 DEF FindClaimOver, Facts, Types, ClaimTable
      <3>2. ClaimOK(v)
        BY DEF ReviewInv
      <3>. QED
        BY <2>1, <3>1, <3>2 DEF ClaimOK, NoClaim, Alive, Target
    <2>. QED
      BY <1>0, <2>1, <2>2, <2>3, <2>4, OneRequest
  <1>. QED
    BY <1>1, <1>2

LEMMA CreateClaimInv ==
  ASSUME ReviewInv, Types', NEW r \in Requests, Alive(r), CreateClaim(r)
  PROVE  ReviewInv'
  <1>0. Facts(r) /\ fileLock = r /\ ~Entered(r) /\ pc[r] = "claim"
    <2>1. Facts(r) /\ pc[r] = "claim"
      BY AtWork DEF CreateClaim
    <2>. QED
      BY <2>1
      DEF Facts, RequestOK, Exclusive, Told, Locked, Closing, Trying
  <1>. USE DEF Goto, locks, disk, others
  <1>1. UNCHANGED <<ask, home, reader, dead, files, snapshots, fileLock, base,
                    answer>>
    BY DEF CreateClaim
  <1>2. /\ \A q \in Requests \ {r} : pc'[q] = pc[q]
        /\ pc'[r] = "transition"
    BY <1>0 DEF CreateClaim, Facts, Types
  <1>3. RequestOK(r)'
    BY <1>0, <1>1, <1>2, NoCommit
    DEF Facts, RequestOK, Exclusive, Steadfast, Prepared, Told, Trying,
        Writing, Alive
  <1>4. \A v \in Versions : ClaimOK(v)'
    <2>. SUFFICES ASSUME NEW v \in Versions PROVE ClaimOK(v)'
      OBVIOUS
    <2>1. claim[v] = claim[v] /\ ClaimOK(v)
      BY DEF ReviewInv
    <2>2. CASE v = Target(r)
      <3>1. claim'[v] = [by |-> r, over |-> FALSE]
        BY <1>0, <2>2 DEF CreateClaim, Facts, Types, ClaimTable
      <3>. QED
        BY <1>1, <1>2, <2>2, <3>1, NoneAssumption DEF ClaimOK, Target
    <2>3. CASE v # Target(r)
      <3>1. claim'[v] = claim[v]
        BY <1>0, <2>3 DEF CreateClaim, Facts, Types, ClaimTable
      <3>2. claim[v].by # r \/ home[r] \in Hindered
        BY <1>0, <2>1, NoneAssumption DEF ClaimOK, Writing
      <3>3. claim[v].by \in Requests \cup {None}
        BY <1>0 DEF Facts, Types, ClaimTable
      <3>. QED
        BY <1>1, <1>2, <2>1, <3>1, <3>2, <3>3 DEF ClaimOK, Alive, Target
    <2>. QED
      BY <2>2, <2>3
  <1>5. SnapshotFilesExist'
    BY <1>0, <1>1, NoCommit DEF Facts, SnapshotFilesExist
  <1>. QED
    BY <1>0, <1>1, <1>2, <1>3, <1>4, <1>5, OneRequest

(* The table is asked, and the record is accepted or refused.              *)
LEMMA TransitionInv ==
  ASSUME ReviewInv, Types', NEW r \in Requests, Alive(r),
         Transition(r) \/ Refuse(r)
  PROVE  ReviewInv'
  <1>0. Facts(r) /\ fileLock = r /\ ~Entered(r) /\ pc[r] = "transition"
    <2>1. Facts(r) /\ pc[r] = "transition"
      BY AtWork DEF Transition, Refuse
    <2>. QED
      BY <2>1
      DEF Facts, RequestOK, Exclusive, Told, Locked, Closing, Trying
  <1>. USE DEF Goto, Answer, locks, disk, others
  <1>1. UNCHANGED <<ask, home, reader, dead, files, snapshots, claim,
                    fileLock, base>>
    BY DEF Transition, Refuse
  <1>2. /\ \A q \in Requests \ {r} :
             pc'[q] = pc[q] /\ answer'[q] = answer[q]
        /\ \/ /\ pc'[r] = "write_pdf" /\ answer'[r] = answer[r]
              /\ Permitted(r)
           \/ pc'[r] = "release" /\ answer'[r] = "invalid"
    BY <1>0 DEF Transition, Refuse, Facts, Types
  <1>3. RequestOK(r)'
    <2>1. Exclusive(r)' /\ Steadfast(r)'
      BY <1>0, <1>1, <1>2, NoCommit
      DEF Facts, RequestOK, Exclusive, Steadfast, Trying, Writing, Alive
    <2>2. Prepared(r)'
      BY <1>1, <1>2
      DEF Prepared, Permitted, Allowed, StatusAfter, Writing
    <2>3. Told(r)'
      BY <1>0, <1>1, <1>2, NoCommit DEF Facts, RequestOK, Told
    <2>. QED
      BY <2>1, <2>2, <2>3 DEF RequestOK
  <1>4. pc'[r] \in {"transition", "release"} \cup Writing /\ base'[r] = base[r]
    BY <1>1, <1>2 DEF Writing
  <1>. QED
    BY <1>0, <1>1, <1>2, <1>3, <1>4, QuietStep

(* A file of the new version is written, or the disk refuses it.           *)
LEMMA WriteInv ==
  ASSUME ReviewInv, Types', NEW r \in Requests, Alive(r),
         UNCHANGED <<ask, home, reader, dead, snapshots, claim, fileLock,
                     base>>,
         pc[r] \in Writing, NEW next \in {"write_spec", "write_snapshot",
                                         "release"},
         pc' = [pc EXCEPT ![r] = next],
         \/ answer' = answer /\ next # "release"
         \/ answer' = [answer EXCEPT ![r] = "error"] /\ next = "release",
         files \subseteq files',
         next = "write_spec" => <<Target(r), "pdf", r>> \in files',
         next = "write_snapshot" => /\ pc[r] = "write_spec"
                                    /\ <<Target(r), "spec", r>> \in files'
  PROVE  ReviewInv'
  <1>0. Facts(r) /\ fileLock = r /\ ~Entered(r)
    <2>1. Facts(r)
      BY AtWork
    <2>. QED
      BY <2>1
      DEF Facts, RequestOK, Exclusive, Told, Locked, Closing, Trying, Writing
  <1>1. /\ \A q \in Requests \ {r} :
             pc'[q] = pc[q] /\ base'[q] = base[q] /\ answer'[q] = answer[q]
        /\ pc'[r] = next
        /\ \/ answer'[r] = answer[r] /\ next # "release"
           \/ answer'[r] = "error" /\ next = "release"
    BY <1>0 DEF Facts, Types
  <1>2. SnapshotFilesExist'
    BY <1>0, NoCommit DEF Facts, SnapshotFilesExist
  <1>3. RequestOK(r)'
    <2>1. Exclusive(r)' /\ Steadfast(r)'
      BY <1>0, <1>1, NoCommit
      DEF Facts, RequestOK, Exclusive, Steadfast, Trying, Writing, Alive
    <2>2. Prepared(r)'
      BY <1>0, <1>1
      DEF Facts, RequestOK, Prepared, Permitted, Allowed, StatusAfter, Writing,
          Target
    <2>3. Told(r)'
      BY <1>0, <1>1, NoCommit DEF Facts, RequestOK, Told
    <2>. QED
      BY <2>1, <2>2, <2>3 DEF RequestOK
  <1>4. \A v \in Versions : ClaimOK(v)'
    <2>1. pc'[r] \in {"transition", "release"} \cup Writing
      BY <1>1 DEF Writing
    <2>. QED
      BY <1>1, <2>1, ClaimsStay
  <1>. QED
    BY <1>0, <1>1, <1>2, <1>3, <1>4, OneRequest

(* The commit: the snapshot appears, and with it one event.                *)
LEMMA CommitEffect ==
  ASSUME ReviewInv, NEW r \in Requests, Alive(r),
         pc[r] = "write_snapshot", snapshots' = Committed(r)
  PROVE  /\ ask[r].expected = Latest /\ Permitted(r) /\ base[r] = Latest
         /\ Target(r) = Latest + 1 /\ Target(r) \in Versions \ {0}
         /\ Target(r) - 1 = Latest /\ Latest \in Versions
         /\ snapshots[Latest] \in Seq(Requests) /\ snapshots[Latest] # None
         /\ Len(snapshots[Latest]) = Latest
         /\ \A u \in Versions : snapshots[u] # None <=> u <= Latest
         /\ snapshots'[Target(r)] = Append(snapshots[Latest], r)
         /\ \A u \in Versions \ {Target(r)} : snapshots'[u] = snapshots[u]
         /\ Latest' = Target(r)
  <1>. DEFINE v == Target(r)
              S == snapshots[Latest]
  <1>0. /\ Facts(r)
        /\ base[r] = Latest /\ ask[r].expected = Latest /\ Permitted(r)
    <2>1. Facts(r)
      BY AtWork
    <2>. QED
      BY <2>1
      DEF Facts, RequestOK, Steadfast, Prepared, Trying, Writing
  <1>1. /\ v = Latest + 1 /\ v \in Versions \ {0} /\ v - 1 = Latest
        /\ Latest \in Versions
        /\ S \in Seq(Requests) /\ S # None /\ Len(S) = Latest
        /\ \A u \in Versions : snapshots[u] # None <=> u <= Latest
    <2>1. Latest \in Versions /\ Latest < LastVersion
      BY <1>0, LatestVersion
      DEF Facts, RequestOK, Steadfast, Trying, Writing
    <2>2. v = Latest + 1
      BY <1>0 DEF Target
    <2>3. v \in Versions \ {0} /\ v - 1 = Latest
      BY <2>1, <2>2 DEF Versions, LastVersion
    <2>. QED
      BY <1>0, <2>1, <2>2, <2>3, LatestVersion, NoGap DEF Facts
  <1>2. /\ snapshots'[v] = Append(S, r)
        /\ \A u \in Versions \ {v} : snapshots'[u] = snapshots[u]
    BY <1>0, <1>1 DEF Committed, Facts, Types
  <1>3. snapshots'[v] # None
    BY <1>1, <1>2, Appended
  <1>4. Latest' = v
    <2>. HIDE DEF v, S
    <2>1. \A u \in Versions : snapshots'[u] # None => u <= v
      BY <1>1, <1>2 DEF Versions, LastVersion
    <2>2. Latest' \in Versions
          /\ snapshots'[Latest'] # None
          /\ \A u \in Versions : snapshots'[u] # None => u <= Latest'
      <3>1. \E u \in Versions : /\ snapshots'[u] # None
                               /\ \A w \in Versions :
                                    snapshots'[w] # None => w <= u
        BY <1>1, <1>3, <2>1
      <3>. QED
        BY <3>1 DEF Latest
    <2>3. v <= Latest' /\ Latest' <= v
      BY <1>1, <1>3, <2>1, <2>2
    <2>4. v \in Int /\ Latest' \in Int
      BY <1>1, <2>2 DEF Versions, LastVersion
    <2>. QED
      BY ONLY <2>3, <2>4
  <1>. QED
    BY <1>0, <1>1, <1>2, <1>4

LEMMA CommitInv ==
  ASSUME ReviewInv, Types', NEW r \in Requests, Alive(r),
         pc[r] = "write_snapshot", snapshots[Target(r)] = None,
         snapshots' = Committed(r),
         UNCHANGED <<ask, home, reader, dead, files, claim, fileLock, base>>,
         pc' = [pc EXCEPT ![r] = "release"],
         NEW text \in {"ok", "error"}, answer' = [answer EXCEPT ![r] = text]
  PROVE  ReviewInv'
  <1>. DEFINE v == Target(r)
              S == snapshots[Latest]
  <1>0. /\ Facts(r) /\ fileLock = r
        /\ base[r] = Latest /\ ask[r].expected = Latest /\ Permitted(r)
        /\ <<v, "pdf", r>> \in files /\ <<v, "spec", r>> \in files
    <2>1. Facts(r)
      BY AtWork
    <2>. QED
      BY <2>1
      DEF Facts, RequestOK, Exclusive, Steadfast, Prepared, Locked, Trying,
          Writing
  <1>1. /\ v = Latest + 1 /\ v \in Versions \ {0} /\ v - 1 = Latest
        /\ Latest \in Versions
        /\ S \in Seq(Requests) /\ S # None /\ Len(S) = Latest
        /\ \A u \in Versions : snapshots[u] # None <=> u <= Latest
    BY CommitEffect
  <1>2. /\ snapshots'[v] = Append(S, r)
        /\ \A u \in Versions \ {v} : snapshots'[u] = snapshots[u]
    BY CommitEffect
  <1>3. /\ snapshots'[v] # None /\ Len(snapshots'[v]) = v
        /\ Last(snapshots'[v]) = r /\ Front(snapshots'[v]) = S
        /\ ToSet(snapshots'[v]) = ToSet(S) \cup {r}
    BY <1>1, <1>2, Appended
  <1>4. \A q \in Requests \ {r} :
          /\ pc'[q] = pc[q] /\ answer'[q] = answer[q]
          /\ Alive(q) => pc[q] \notin Locked
    BY <1>0, OnlyHolder DEF Facts, Types
  <1>5. pc'[r] = "release" /\ answer'[r] = text
    BY <1>0 DEF Facts, Types
  <1>. HIDE DEF v, S
  <1>6. \A u \in Versions : Named(u) \subseteq Named(u)'
    <2>1. Named(v) = {}
      BY <1>1 DEF Named, v
    <2>. QED
      BY <1>2, <2>1 DEF Named
  <1>7. History'
    <2>1. snapshots'[0] = <<>>
      BY <1>0, <1>1, <1>2 DEF Facts, History, Versions, LastVersion
    <2>2. \A u \in Versions : snapshots'[u] # None => Len(snapshots'[u]) = u
      BY <1>0, <1>2, <1>3 DEF Facts, History
    <2>3. ASSUME NEW u \in Versions \ {0}, snapshots'[u] # None
          PROVE  /\ snapshots'[u - 1] # None
                 /\ snapshots'[u - 1] = Front(snapshots'[u])
                 /\ ask[Last(snapshots'[u])].expected = u - 1
                 /\ Allowed(StatusAfter(snapshots'[u - 1]),
                            ask[Last(snapshots'[u])].action)
      <3>1. CASE u = v
        <4>1. snapshots'[v - 1] = S
          BY <1>1, <1>2 DEF S
        <4>. QED
          BY <1>0, <1>1, <1>3, <3>1, <4>1 DEF Permitted, S
      <3>2. CASE u # v
        <4>1. snapshots'[u] = snapshots[u] /\ snapshots[u] # None
          BY <1>2, <2>3, <3>2
        <4>2. u <= Latest /\ u - 1 \in Versions /\ u - 1 # v
          BY <1>1, <4>1 DEF Versions, LastVersion
        <4>3. snapshots'[u - 1] = snapshots[u - 1]
          BY <1>2, <4>2
        <4>. QED
          BY <1>0, <4>1, <4>3 DEF Facts, History, HistoryLinear
      <3>. QED
        BY <3>1, <3>2
    <2>4. HistoryLinear'
      BY <2>3 DEF HistoryLinear, Allowed, StatusAfter
    <2>. QED
      BY <2>1, <2>2, <2>4 DEF History
  <1>8. Latest' = v
    BY CommitEffect DEF v
  <1>9. \A q : Entered(q)' <=> Entered(q) \/ q = r
    BY <1>3, <1>8 DEF Entered, S
  <1>10. SnapshotFilesExist'
    <2>1. ASSUME NEW u \in Versions PROVE Named(u)' \subseteq files
      <3>1. CASE u = v
        BY <1>0, <1>3, <3>1 DEF Named
      <3>2. CASE u # v
        BY <1>0, <1>2, <3>2 DEF Named, Facts, SnapshotFilesExist
      <3>. QED
        BY <3>1, <3>2
    <2>. QED
      BY <2>1 DEF SnapshotFilesExist
  <1>11. \A q \in Requests : RequestOK(q)'
    <2>1. ASSUME NEW q \in Requests \ {r} PROVE RequestOK(q)'
      <3>1. Alive(q)' => pc'[q] \notin Locked
        BY <1>4 DEF Alive
      <3>2. Exclusive(q)' /\ Steadfast(q)' /\ Prepared(q)'
        BY <3>1 DEF Exclusive, Steadfast, Prepared, Locked, Trying
      <3>3. Told(q)'
        BY <1>4, <1>9 DEF ReviewInv, RequestOK, Told
      <3>. QED
        BY <3>2, <3>3 DEF RequestOK
    <2>2. RequestOK(r)'
      BY <1>0, <1>5, <1>9
      DEF RequestOK, Exclusive, Steadfast, Prepared, Told, Trying, Writing,
          Closing
    <2>. QED
      BY <2>1, <2>2
  <1>12. \A d \in Readers : ReaderOK(d)'
    BY <1>6 DEF ReviewInv, ReaderOK
  <1>13. \A u \in Versions : ClaimOK(u)'
    BY <1>4, <1>5, ClaimsStay
  <1>. QED
    BY <1>7, <1>10, <1>11, <1>12, <1>13 DEF ReviewInv

(* What is left of a refused write: a claim, a file, a snapshot or nothing. *)
LEMMA WriteFailsInv ==
  ASSUME ReviewInv, Types', NEW r \in Requests, Alive(r), WriteFails(r)
  PROVE  ReviewInv'
  <1>. USE DEF Goto, Answer, locks, disk, others
  <1>0. Facts(r) /\ pc[r] \in Trying /\ pc[r] # "transition"
    BY AtWork DEF WriteFails, Trying, Writing
  <1>1. CASE pc[r] \in {"write_pdf", "write_spec"}
    <2>1. UNCHANGED <<ask, home, reader, dead, snapshots, claim, fileLock,
                      base>>
      BY <1>1 DEF WriteFails
    <2>2. /\ pc[r] \in Writing
          /\ pc' = [pc EXCEPT ![r] = "release"]
          /\ answer' = [answer EXCEPT ![r] = "error"]
          /\ files \subseteq files'
      BY <1>1 DEF WriteFails, Writing
    <2>. QED
      BY <2>1, <2>2, WriteInv
  <1>2. CASE pc[r] = "write_snapshot"
    <2>1. UNCHANGED <<ask, home, reader, dead, files, claim, fileLock, base>>
      BY <1>2 DEF WriteFails
    <2>2. /\ pc' = [pc EXCEPT ![r] = "release"]
          /\ answer' = [answer EXCEPT ![r] = "error"]
          /\ \/ UNCHANGED snapshots
             \/ /\ snapshots[Target(r)] = None
                /\ snapshots' = Committed(r)
      BY <1>2 DEF WriteFails
    <2>3. CASE UNCHANGED snapshots
      BY <1>2, <2>1, <2>2, <2>3, WriteInv DEF Writing
    <2>4. CASE snapshots[Target(r)] = None /\ snapshots' = Committed(r)
      BY <1>2, <2>1, <2>2, <2>4, CommitInv
    <2>. QED
      BY <2>2, <2>3, <2>4
  <1>3. CASE pc[r] = "claim"
    <2>1. /\ UNCHANGED <<ask, home, reader, dead, files, snapshots, fileLock,
                         base>>
          /\ home[r] \in Hindered
      BY <1>3 DEF WriteFails
    <2>2. /\ \A q \in Requests \ {r} :
               pc'[q] = pc[q] /\ answer'[q] = answer[q]
          /\ pc'[r] = "unlock" /\ answer'[r] = "error"
      BY <1>0, <1>3 DEF WriteFails, Facts, Types
    <2>3. fileLock = r /\ ~Entered(r)
      BY <1>0, <1>3 DEF Facts, RequestOK, Exclusive, Told, Locked, Closing
    <2>4. RequestOK(r)'
      BY <2>1, <2>2, <2>3, NoCommit
      DEF RequestOK, Exclusive, Steadfast, Prepared, Told, Trying, Writing
    <2>5. \A v \in Versions : ClaimOK(v)'
      <3>. SUFFICES ASSUME NEW v \in Versions PROVE ClaimOK(v)'
        OBVIOUS
      <3>1. claim'[v] = claim[v] \/ claim'[v] = [by |-> r, over |-> FALSE]
        BY <1>0, <1>3 DEF WriteFails, Facts, Types, ClaimTable
      <3>2. ClaimOK(v) /\ claim[v].by \in Requests \cup {None}
        BY <1>0 DEF ReviewInv, Facts, Types, ClaimTable
      <3>3. CASE claim'[v] = [by |-> r, over |-> FALSE]
        BY <2>1, <3>3, NoneAssumption DEF ClaimOK
      <3>4. CASE claim'[v] = claim[v]
        BY <2>1, <2>2, <3>2, <3>4 DEF ClaimOK, Alive, Target, Writing
      <3>. QED
        BY <3>1, <3>3, <3>4
    <2>6. SnapshotFilesExist'
      BY <1>0, <2>1, NoCommit DEF Facts, SnapshotFilesExist
    <2>. QED
      BY <2>1, <2>2, <2>3, <2>4, <2>5, <2>6, OneRequest
  <1>. QED
    BY <1>0, <1>1, <1>2, <1>3 DEF Trying, Writing

(* The claim is given back, or stays where the disk refuses.               *)
LEMMA ReleaseInv ==
  ASSUME ReviewInv, Types', NEW r \in Requests, Alive(r), Release(r)
  PROVE  ReviewInv'
  <1>. USE DEF Goto, Answer, locks, disk, others
  <1>0. Facts(r) /\ fileLock = r /\ pc[r] = "release"
    BY AtWork DEF Release, Facts, RequestOK, Exclusive, Locked
  <1>1. UNCHANGED <<ask, home, reader, dead, files, snapshots, fileLock, base>>
    BY DEF Release
  <1>2. /\ \A q \in Requests \ {r} :
             pc'[q] = pc[q] /\ answer'[q] = answer[q]
        /\ pc'[r] = "unlock" /\ answer'[r] \in {answer[r], "error"}
    BY <1>0 DEF Release, Facts, Types
  <1>3. RequestOK(r)'
    BY <1>0, <1>1, <1>2, NoCommit
    DEF Facts, RequestOK, Exclusive, Steadfast, Prepared, Told, Trying,
        Writing, Closing
  <1>4. \A v \in Versions : ClaimOK(v)'
    <2>. SUFFICES ASSUME NEW v \in Versions PROVE ClaimOK(v)'
      OBVIOUS
    <2>1. \/ claim'[v] = claim[v] /\ (home[r] \in Hindered \/ claim[v].by # r)
          \/ claim'[v] = claim[v] /\ v # Target(r)
          \/ claim'[v] = NoClaim
      BY <1>0 DEF Release, Released, Facts, Types, ClaimTable
    <2>2. ClaimOK(v)
      BY DEF ReviewInv
    <2>3. claim[v].by \in Requests \cup {None}
      BY <1>0 DEF Facts, Types, ClaimTable
    <2>4. CASE claim'[v] = NoClaim
      BY <2>4 DEF ClaimOK, NoClaim
    <2>5. CASE claim'[v] = claim[v] /\ (home[r] \in Hindered \/ claim[v].by # r)
      BY <1>1, <1>2, <2>2, <2>3, <2>5 DEF ClaimOK, Alive, Target
    <2>6. CASE claim'[v] = claim[v] /\ v # Target(r)
      <3>1. home[r] \in Hindered \/ claim[v].by # r
        BY <2>2, <2>6, NoneAssumption DEF ClaimOK
      <3>. QED
        BY <2>5, <2>6, <3>1
    <2>. QED
      BY <2>1, <2>4, <2>5, <2>6
  <1>5. SnapshotFilesExist'
    BY <1>0, <1>1, NoCommit DEF Facts, SnapshotFilesExist
  <1>. QED
    BY <1>0, <1>1, <1>2, <1>3, <1>4, <1>5, OneRequest

(* The steps of requests.                                                  *)
LEMMA ServeInv ==
  ASSUME ReviewInv, Types', NEW r \in Requests, Serve(r)
  PROVE  ReviewInv'
  <1>. USE DEF Goto, Answer, locks, disk, others
  <1>0. Alive(r)
    BY DEF Serve, Alive
  <1>1. CASE WritePdf(r) \/ WriteSpec(r)
    <2>1. UNCHANGED <<ask, home, reader, dead, snapshots, claim, fileLock,
                      base, answer>>
      BY <1>1 DEF WritePdf, WriteSpec, Write
    <2>2. CASE WritePdf(r)
      BY <1>0, <2>1, <2>2, WriteInv DEF WritePdf, Write, Writing
    <2>3. CASE WriteSpec(r)
      BY <1>0, <2>1, <2>3, WriteInv DEF WriteSpec, Write, Writing
    <2>. QED
      BY <1>1, <2>2, <2>3
  <1>2. CASE WriteSnapshot(r)
    <2>1. UNCHANGED <<ask, home, reader, dead, files, claim, fileLock, base>>
      BY <1>2 DEF WriteSnapshot
    <2>2. /\ pc[r] = "write_snapshot"
          /\ pc' = [pc EXCEPT ![r] = "release"]
      BY <1>2 DEF WriteSnapshot
    <2>3. CASE snapshots[Target(r)] = None
      <3>1. snapshots' = Committed(r) /\ answer' = [answer EXCEPT ![r] = "ok"]
        BY <1>2, <2>3 DEF WriteSnapshot
      <3>. QED
        BY <1>0, <2>1, <2>2, <2>3, <3>1, CommitInv
    <2>4. CASE snapshots[Target(r)] # None
      <3>1. UNCHANGED snapshots /\ answer' = [answer EXCEPT ![r] = "error"]
        BY <1>2, <2>4 DEF WriteSnapshot
      <3>. QED
        BY <1>0, <2>1, <2>2, <3>1, WriteInv DEF Writing
    <2>. QED
      BY <2>3, <2>4
  <1>3. CASE LockThread(r) \/ LockFile(r) \/ Unlock(r)
    BY <1>0, <1>3, LocksInv
  <1>4. CASE ReadCurrent(r)
    BY <1>0, <1>4, ReadInv
  <1>5. CASE CreateClaim(r)
    BY <1>0, <1>5, CreateClaimInv
  <1>6. CASE FindClaimHeld(r) \/ FindClaimOver(r)
    BY <1>0, <1>6, FindClaimInv
  <1>7. CASE Transition(r) \/ Refuse(r)
    BY <1>0, <1>7, TransitionInv
  <1>8. CASE WriteFails(r)
    BY <1>0, <1>8, WriteFailsInv
  <1>9. CASE Release(r)
    BY <1>0, <1>9, ReleaseInv
  <1>. HIDE DEF Goto, Answer, locks, disk, others
  <1>. QED
    BY <1>1, <1>2, <1>3, <1>4, <1>5, <1>6, <1>7, <1>8, <1>9 DEF Serve

----------------------------------------------------------------------------
(* The steps that belong to no request.                                    *)
LEMMA NobodyMoves ==
  ASSUME ReviewInv, Types',
         UNCHANGED <<ask, home, pc, base, answer, files, snapshots>>,
         dead \subseteq dead',
         \A q \in Requests : Alive(q)' /\ pc[q] \in Locked => fileLock' = fileLock,
         \A d \in Readers : ReaderOK(d)',
         \A v \in Versions : ClaimOK(v)'
  PROVE  ReviewInv'
  <1>1. History' /\ SnapshotFilesExist'
    BY NoCommit DEF ReviewInv, SnapshotFilesExist
  <1>2. \A q \in Requests : RequestOK(q)'
    BY Bystander
  <1>. QED
    BY <1>1, <1>2 DEF ReviewInv

LEMMA LeaseOverInv ==
  ASSUME ReviewInv, Types', NEW v \in Versions, LeaseOver(v)
  PROVE  ReviewInv'
  <1>. USE DEF locks, disk, others
  <1>1. UNCHANGED <<ask, home, pc, base, answer, files, snapshots, dead,
                    fileLock, reader>>
    BY DEF LeaseOver
  <1>2. ASSUME NEW u \in Versions PROVE ClaimOK(u)'
    <2>1. ClaimOK(u) /\ claim \in ClaimTable
      BY DEF ReviewInv, Types
    <2>2. claim'[u] = claim[u] \/ (claim'[u].by = claim[u].by /\ claim[u].by # None)
      BY <2>1 DEF LeaseOver, ClaimTable
    <2>. QED
      BY <1>1, <2>1, <2>2 DEF ClaimOK, NoClaim, Alive, Target
  <1>3. \A d \in Readers : ReaderOK(d)'
    BY <1>1, NoCommit DEF ReviewInv, ReaderOK
  <1>. QED
    BY <1>1, <1>2, <1>3, NobodyMoves

LEMMA DieInv ==
  ASSUME ReviewInv, Types', NEW p \in Processes, Die(p)
  PROVE  ReviewInv'
  <1>. USE DEF locks, disk, others
  <1>1. /\ UNCHANGED <<ask, home, pc, base, answer, files, snapshots, reader,
                       claim>>
        /\ dead' = dead \cup {p}
    BY DEF Die
  <1>2. ASSUME NEW q \in Requests, Alive(q)', pc[q] \in Locked
        PROVE  fileLock' = fileLock
    <2>1. Alive(q) /\ home[q] # p
      BY <1>1, <1>2 DEF Alive
    <2>2. fileLock = q
      BY <1>2, <2>1 DEF ReviewInv, RequestOK, Exclusive
    <2>. QED
      BY <2>1, <2>2 DEF Die
  <1>3. \A d \in Readers : ReaderOK(d)'
    BY <1>1, NoCommit DEF ReviewInv, ReaderOK
  <1>4. \A v \in Versions : ClaimOK(v)'
    BY <1>1 DEF ReviewInv, ClaimOK, Alive, Target
  <1>. QED
    BY <1>1, <1>2, <1>3, <1>4, NobodyMoves

LEMMA ReadersInv ==
  ASSUME ReviewInv, Types', NEW d \in Readers, List(d) \/ CheckFile(d)
  PROVE  ReviewInv'
  <1>. USE DEF locks, disk
  <1>1. UNCHANGED <<ask, home, pc, base, answer, files, snapshots, dead,
                    fileLock, claim>>
    BY DEF List, CheckFile
  <1>2. ReaderOK(d) /\ reader \in [Readers -> Progress] /\ History
    BY DEF ReviewInv, Types
  <1>3. \A e \in Readers \ {d} : reader'[e] = reader[e]
    BY <1>2 DEF List, CheckFile
  <1>4. /\ reader'[d].at # "conflict"
        /\ \A f \in reader'[d].check : \E v \in Versions : f \in Named(v)
    <2>1. CASE List(d)
      <3>1. reader'[d] =
              [at |-> "check", check |-> UNION {Named(v) : v \in 1 .. Latest}]
        BY <1>2, <2>1 DEF List
      <3>2. 1 .. Latest \subseteq Versions
        BY <1>2, LatestVersion DEF Versions, LastVersion
      <3>. QED
        BY <3>1, <3>2
    <2>2. CASE CheckFile(d)
      <3>1. \A f \in reader[d].check : f \in files
        BY <1>2 DEF ReviewInv, SnapshotFilesExist, ReaderOK
      <3>2. \/ \E f \in reader[d].check :
                 reader' = [reader EXCEPT ![d].check = @ \ {f}]
            \/ reader' = [reader EXCEPT ![d].at = "ok"]
        BY <2>2, <3>1 DEF CheckFile
      <3>3. CASE reader' = [reader EXCEPT ![d].at = "ok"]
        BY <1>2, <3>3 DEF Progress, ReaderOK
      <3>4. ASSUME NEW f \in reader[d].check,
                   reader' = [reader EXCEPT ![d].check = @ \ {f}]
            PROVE  /\ reader'[d].at = reader[d].at
                   /\ reader'[d].check \subseteq reader[d].check
        BY <1>2, <3>4 DEF Progress
      <3>. QED
        BY <1>2, <3>2, <3>3, <3>4 DEF ReaderOK
    <2>. QED
      BY <2>1, <2>2
  <1>5. \A e \in Readers : ReaderOK(e)'
    BY <1>1, <1>3, <1>4, NoCommit DEF ReviewInv, ReaderOK
  <1>6. \A v \in Versions : ClaimOK(v)'
    BY <1>1 DEF ReviewInv, ClaimOK, Alive, Target
  <1>. QED
    BY <1>1, <1>5, <1>6, NobodyMoves

LEMMA StutterInv ==
  ASSUME ReviewInv, UNCHANGED vars
  PROVE  ReviewInv'
  <1>. USE DEF vars
  <1>1. Types'
    BY DEF ReviewInv, Types
  <1>2. \A d \in Readers : ReaderOK(d)'
    BY NoCommit DEF ReviewInv, ReaderOK
  <1>3. \A v \in Versions : ClaimOK(v)'
    BY DEF ReviewInv, ClaimOK, Alive, Target
  <1>. QED
    BY <1>1, <1>2, <1>3, NobodyMoves

LEMMA InitInv ==
  ASSUME Init
  PROVE  ReviewInv
  <1>. USE DEF Init
  <1>1. <<>> \in Seq(Requests) /\ <<>> # None /\ Len(<<>>) = 0
    BY EmptySeq, NoneAssumption
  <1>2. snapshots \in [Versions -> Seq(Requests) \cup {None}]
    BY <1>1
  <1>3. claim \in ClaimTable
    BY DEF ClaimTable, NoClaim
  <1>4. reader \in [Readers -> Progress]
    BY DEF Progress
  <1>5. Types
    BY <1>2, <1>3, <1>4 DEF Types, Labels, Versions, LastVersion
  <1>6. /\ 0 \in Versions /\ snapshots[0] = <<>>
        /\ \A v \in Versions \ {0} : snapshots[v] = None
    BY DEF Versions, LastVersion
  <1>7. History
    BY <1>1, <1>6 DEF History, HistoryLinear
  <1>8. Latest = 0 /\ ~(\E r : Entered(r))
    <2>1. Latest = 0
      BY <1>1, <1>6, <1>7, LatestIs DEF Versions, LastVersion
    <2>2. ToSet(<<>>) = {}
      BY <1>1 DEF ToSet
    <2>. QED
      BY <1>6, <2>1, <2>2 DEF Entered
  <1>9. SnapshotFilesExist
    BY <1>6 DEF SnapshotFilesExist, Named
  <1>10. \A r \in Requests : RequestOK(r)
    BY <1>8
    DEF RequestOK, Exclusive, Steadfast, Prepared, Told, Locked, Trying,
        Writing
  <1>11. \A d \in Readers : ReaderOK(d)
    BY DEF ReaderOK
  <1>12. \A v \in Versions : ClaimOK(v)
    BY DEF ClaimOK, NoClaim
  <1>. QED
    BY <1>5, <1>7, <1>9, <1>10, <1>11, <1>12 DEF ReviewInv

LEMMA NextInv ==
  ASSUME ReviewInv, [Next]_vars
  PROVE  ReviewInv'
  <1>1. CASE Next
    BY <1>1, TypesKept, ServeInv, ReadersInv, LeaseOverInv, DieInv DEF Next
  <1>2. CASE UNCHANGED vars
    BY <1>2, StutterInv
  <1>. QED
    BY <1>1, <1>2

----------------------------------------------------------------------------
(* The invariant holds, whoever dies and whatever the disk refuses.        *)
THEOREM ReviewInvariant == Spec => []ReviewInv
  <1>1. Init => ReviewInv
    BY InitInv
  <1>2. ReviewInv /\ [Next]_vars => ReviewInv'
    BY NextInv
  <1>. QED
    BY <1>1, <1>2, PTL DEF Spec

(* Every variable keeps its type; a snapshot has one event per version.    *)
THEOREM ReviewTypes == Spec => []TypeOK
  <1>1. ReviewInv => TypeOK
    <2>. SUFFICES ASSUME ReviewInv PROVE TypeOK
      OBVIOUS
    <2>1. Types /\ History
      BY DEF ReviewInv
    <2>2. ASSUME NEW v \in Versions, snapshots[v] # None
          PROVE  /\ Len(snapshots[v]) = v
                 /\ \A i \in 1 .. v : snapshots[v][i] \in Requests
      <3>1. snapshots[v] \in Seq(Requests) /\ Len(snapshots[v]) = v
        BY <2>1, <2>2 DEF Types, History
      <3>. QED
        BY <3>1, ElementOfSeq
    <2>. QED
      BY <2>1, <2>2
      DEF TypeOK, Types, ClaimTable, FileNames, Progress
  <1>. QED
    BY <1>1, ReviewInvariant, PTL

(* The history is one line of permitted transitions, each made by a client *)
(* who had seen the version before it, and no file of it is ever missing:  *)
(* transition_manufacturing_review, its two locks, its claims and its      *)
(* recovery together.                                                      *)
THEOREM HistoryStaysIntact == Spec => []HistoryIntact
  <1>1. ReviewInv => HistoryIntact
    BY DEF ReviewInv, History, HistoryIntact
  <1>. QED
    BY <1>1, ReviewInvariant, PTL

(* What a client is told agrees with the history, in every state after.    *)
THEOREM AnswersHold == Spec => []AnswerMatchesHistory
  <1>1. ReviewInv => AnswerMatchesHistory
    BY DEF ReviewInv, RequestOK, Told, Entered, AnswerMatchesHistory
  <1>. QED
    BY <1>1, ReviewInvariant, PTL

(* A reader without a lock never finds the review damaged.                 *)
THEOREM ReadersAreSafe == Spec => []ReadersNeverConflict
  <1>1. ReviewInv => ReadersNeverConflict
    BY DEF ReviewInv, ReaderOK, ReadersNeverConflict
  <1>. QED
    BY <1>1, ReviewInvariant, PTL

(* The claim that makes a request give up is one of a process that died, or *)
(* to which the disk may refuse its removal: the finally block of the      *)
(* transition leaves no other.                                             *)
THEOREM BusyMeansCrash == Spec => BusyOnlyAfterCrash
  <1>1. ASSUME ReviewInv, [Next]_vars, NEW r \in Requests,
               answer'[r] = "busy", answer[r] # "busy"
        PROVE  home[claim[Target(r)].by] \in dead \cup Hindered
    <2>. USE DEF Goto, Answer, locks, disk, others
    <2>1. FindClaimHeld(r) /\ Alive(r)
      <3>0. answer' # answer /\ Facts(r)
        BY <1>1, AtWork
      <3>1. PICK q \in Requests : Serve(q)
        BY <1>1, <3>0
        DEF Next, vars, List, CheckFile, LeaseOver, Die
      <3>2. \/ FindClaimHeld(q)
            \/ answer' = answer
            \/ \E text \in {"ok", "conflict", "invalid", "error"} :
                 answer' = [answer EXCEPT ![q] = text]
        BY <3>1
        DEF Serve, LockThread, LockFile, Unlock, ReadCurrent, CreateClaim,
            FindClaimOver, Transition, Refuse, WritePdf, WriteSpec, Write,
            WriteSnapshot, WriteFails, Release
      <3>3. FindClaimHeld(q)
        BY <1>1, <3>0, <3>2 DEF Facts, Types
      <3>4. q = r
        BY <1>1, <3>0, <3>3 DEF FindClaimHeld, Facts, Types
      <3>. QED
        BY <3>1, <3>3, <3>4 DEF Serve, Alive
    <2>2. /\ Facts(r) /\ pc[r] = "claim" /\ claim[Target(r)] # NoClaim
          /\ fileLock = r
      BY <1>1, <2>1, AtWork
      DEF FindClaimHeld, Facts, RequestOK, Exclusive, Locked, Trying
    <2>3. Target(r) \in Versions
      BY <1>1, <2>1, <2>2, TargetType DEF Trying
    <2>. DEFINE q == claim[Target(r)].by
    <2>4. ClaimOK(Target(r)) /\ q \in Requests \cup {None}
      BY <1>1, <2>2, <2>3 DEF ReviewInv, Facts, Types, ClaimTable
    <2>5. q \in Requests
      BY <2>2, <2>4 DEF ClaimOK
    <2>6. CASE Alive(q) /\ home[q] \notin Hindered
      <3>1. pc[q] \in {"transition", "release"} \cup Writing
        BY <1>1, <2>4, <2>5, <2>6, NoneAssumption DEF ClaimOK
      <3>2. q # r
        BY <2>2, <3>1 DEF Writing
      <3>. QED
        BY <1>1, <2>2, <2>5, <2>6, <3>1, <3>2, OnlyHolder
        DEF Locked, Trying
    <2>. QED
      BY <2>6 DEF Alive
  <1>2. ReviewInv /\ [Next]_vars =>
          [\A r \in Requests :
             (answer'[r] = "busy" /\ answer[r] # "busy") =>
               home[claim[Target(r)].by] \in dead \cup Hindered]_answer
    BY <1>1
  <1>. QED
    BY <1>2, ReviewInvariant, PTL DEF Spec, BusyOnlyAfterCrash

----------------------------------------------------------------------------
(* A snapshot appears only by the commit of a live request.                *)
LEMMA OnlyCommits ==
  ASSUME ReviewInv, Next, snapshots' # snapshots
  PROVE  \E r \in Requests : /\ Alive(r) /\ pc[r] = "write_snapshot"
                             /\ snapshots' = Committed(r)
  <1>. USE DEF Goto, Answer, locks, disk, others
  <1>1. PICK r \in Requests : Serve(r)
    BY DEF Next, List, CheckFile, LeaseOver, Die
  <1>2. WriteSnapshot(r) \/ WriteFails(r)
    BY <1>1
    DEF Serve, LockThread, LockFile, Unlock, ReadCurrent, CreateClaim,
        FindClaimHeld, FindClaimOver, Transition, Refuse, WritePdf, WriteSpec,
        Write, Release
  <1>3. pc[r] = "write_snapshot" /\ snapshots' = Committed(r)
    BY <1>2 DEF WriteSnapshot, WriteFails
  <1>. QED
    BY <1>1, <1>3 DEF Serve, Alive

(* The review is the ledger: the snapshot's appearance is one entry, and   *)
(* nothing else the code does, nor a crash, moves the ledger at all.       *)
THEOREM ReviewIsLedger == Spec => ImplementsLedger
  <1>1. Init => Ledger!Init
    <2>. SUFFICES ASSUME Init PROVE Ledger!Init
      OBVIOUS
    <2>1. History /\ snapshots[0] = <<>> /\ snapshots[0] # None
      <3>1. ReviewInv
        BY InitInv
      <3>2. <<>> # None
        BY EmptySeq, NoneAssumption
      <3>. QED
        BY <3>1, <3>2 DEF ReviewInv, History
    <2>2. 0 \in Versions /\ \A u \in Versions : snapshots[u] # None => u <= 0
      BY DEF Init, Versions, LastVersion
    <2>3. Latest = 0
      BY <2>1, <2>2, LatestIs
    <2>. QED
      BY <2>1, <2>3 DEF Init, Ledger!Init
  <1>2. ReviewInv /\ [Next]_vars => [Ledger!Next]_<<ask, snapshots[Latest]>>
    <2>. SUFFICES ASSUME ReviewInv, [Next]_vars
                  PROVE  [Ledger!Next]_<<ask, snapshots[Latest]>>
      OBVIOUS
    <2>1. UNCHANGED ask
      BY DEF Next, Serve, LockThread, LockFile, Unlock, ReadCurrent,
             CreateClaim, FindClaimHeld, FindClaimOver, Transition, Refuse,
             WritePdf, WriteSpec, Write, WriteSnapshot, WriteFails, Release,
             LeaseOver, List, CheckFile, Die, vars, others
    <2>2. CASE UNCHANGED snapshots
      <3>1. Latest' = Latest
        BY <2>1, <2>2, NoCommit
      <3>. QED
        BY <2>1, <2>2, <3>1
    <2>3. CASE snapshots' # snapshots
      <3>1. Next
        BY <2>3 DEF vars
      <3>2. PICK r \in Requests : /\ Alive(r) /\ pc[r] = "write_snapshot"
                                  /\ snapshots' = Committed(r)
        BY <2>3, <3>1, OnlyCommits
      <3>3. /\ ask[r].expected = Latest /\ Permitted(r) /\ base[r] = Latest
            /\ snapshots[Latest] \in Seq(Requests)
            /\ Len(snapshots[Latest]) = Latest
            /\ (snapshots[Latest])' = Append(snapshots[Latest], r)
        BY <3>2, CommitEffect
      <3>4. Ledger!StatusAfter(snapshots[Latest]) = StatusAfter(snapshots[Latest])
        BY DEF Ledger!StatusAfter, StatusAfter, Last
      <3>5. Ledger!Enter(r)
        BY <2>1, <3>3, <3>4
        DEF Ledger!Enter, Permitted, Allowed, Ledger!Allowed
      <3>. QED
        BY <3>5 DEF Ledger!Next
    <2>. QED
      BY <2>2, <2>3
  <1>. QED
    BY <1>1, <1>2, ReviewInvariant, PTL DEF Spec, ImplementsLedger, Ledger!Spec

=============================================================================
