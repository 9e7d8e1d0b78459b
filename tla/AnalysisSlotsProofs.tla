------------------------ MODULE AnalysisSlotsProofs ------------------------
(***************************************************************************)
(* Proofs about the slots of the analyses, for any set of requests, finite *)
(* or not, and any number of slots of each kind.                           *)
(*                                                                         *)
(* The argument is an account: a request holds a slot of JobService from   *)
(* its admission to the end of its thread, every step that starts or ends  *)
(* such a stay moves the counter by one, and no other step touches either. *)
(***************************************************************************)
EXTENDS AnalysisSlots, FiniteSetTheorems, TLAPS

Places  == {"new", "body", "admission", "read", "await", "over"}
Threads == {"none", "queued", "running", "result", "error"} \cup Stopped

Answers == {"none", "too large", "refused", "timed out", "signed analysis"}

Types ==
  /\ ask \in [Requests -> [kind: Kinds, size: Sizes]]
  /\ pc \in [Requests -> Places]
  /\ free \in [Kinds -> Nat]
  /\ thread \in [Requests -> Threads]
  /\ answer \in [Requests -> Answers]

InSlot(r) ==
  pc[r] = "read" \/ thread[r] \in {"queued", "running"} \cup Stopped

(* A thread is there only for a request whose file has been read.          *)
ThreadLater(r) == thread[r] # "none" => pc[r] \in {"await", "over"}

Account(k) ==
  /\ IsFiniteSet(Reserved(k))
  /\ free[k] + Cardinality(Reserved(k)) = Slots[k]

SlotsInv ==
  /\ Types
  /\ \A r \in Requests : ThreadLater(r)
  /\ \A k \in Kinds : Account(k)

----------------------------------------------------------------------------
(* The account                                                             *)

LEMMA SlotsAreNumbers == \A k \in Kinds : Slots[k] \in Nat \ {0}
  BY SlotsAssumption DEF Slots, Kinds

LEMMA KindType ==
  ASSUME Types, NEW r \in Requests
  PROVE  Kind(r) \in Kinds
  BY DEF Types, Kind

(* Nobody enters or leaves a slot.                                         *)
LEMMA Untouched ==
  ASSUME SlotsInv, UNCHANGED <<ask, free>>,
         \A q \in Requests : InSlot(q)' <=> InSlot(q)
  PROVE  \A k \in Kinds : Account(k)'
  <1>. SUFFICES ASSUME NEW k \in Kinds PROVE Account(k)'
    OBVIOUS
  <1>1. Reserved(k)' = Reserved(k)
    BY DEF Reserved, InSlot, Kind
  <1>. QED
    BY <1>1 DEF SlotsInv, Account

(* Admission: a slot is taken.                                             *)
LEMMA Taken ==
  ASSUME SlotsInv, NEW r \in Requests, UNCHANGED ask,
         free[Kind(r)] > 0, free' = Acquire(free, r),
         ~InSlot(r), InSlot(r)',
         \A q \in Requests \ {r} : InSlot(q)' <=> InSlot(q)
  PROVE  /\ free' \in [Kinds -> Nat]
         /\ \A k \in Kinds : Account(k)'
  <1>0. Types /\ Kind(r) \in Kinds
    BY KindType DEF SlotsInv
  <1>1. free' \in [Kinds -> Nat]
    BY <1>0 DEF Types, Acquire
  <1>2. ASSUME NEW k \in Kinds PROVE Account(k)'
    <2>0. Account(k) /\ Slots[k] \in Nat /\ free[k] \in Nat
      BY <1>0, SlotsAreNumbers DEF SlotsInv, Types
    <2>1. CASE k = Kind(r)
      <3>1. Reserved(k)' = Reserved(k) \cup {r} /\ r \notin Reserved(k)
        BY <2>1 DEF Reserved, InSlot, Kind
      <3>2. /\ IsFiniteSet(Reserved(k)')
            /\ Cardinality(Reserved(k)') = Cardinality(Reserved(k)) + 1
            /\ Cardinality(Reserved(k)) \in Nat
        BY <2>0, <3>1, FS_AddElement, FS_CardinalityType DEF Account
      <3>3. free'[k] = free[k] - 1
        BY <1>0, <2>1 DEF Acquire, Types
      <3>. QED
        BY <2>0, <3>2, <3>3 DEF Account, Slots
    <2>2. CASE k # Kind(r)
      <3>1. Reserved(k)' = Reserved(k)
        BY <2>2 DEF Reserved, InSlot, Kind
      <3>2. free'[k] = free[k]
        BY <1>0, <2>2 DEF Acquire, Types
      <3>. QED
        BY <2>0, <3>1, <3>2 DEF Account
    <2>. QED
      BY <2>1, <2>2
  <1>. QED
    BY <1>1, <1>2

(* A slot is given back.                                                   *)
LEMMA GivenBack ==
  ASSUME SlotsInv, NEW r \in Requests, UNCHANGED ask,
         free' = Release(free, r),
         InSlot(r), ~InSlot(r)',
         \A q \in Requests \ {r} : InSlot(q)' <=> InSlot(q)
  PROVE  /\ free' \in [Kinds -> Nat]
         /\ \A k \in Kinds : Account(k)'
  <1>0. Types /\ Kind(r) \in Kinds
    BY KindType DEF SlotsInv
  <1>1. free' \in [Kinds -> Nat]
    BY <1>0 DEF Types, Release
  <1>2. ASSUME NEW k \in Kinds PROVE Account(k)'
    <2>0. Account(k) /\ Slots[k] \in Nat /\ free[k] \in Nat
      BY <1>0, SlotsAreNumbers DEF SlotsInv, Types
    <2>1. CASE k = Kind(r)
      <3>1. Reserved(k)' = Reserved(k) \ {r} /\ r \in Reserved(k)
        BY <2>1 DEF Reserved, InSlot, Kind
      <3>2. /\ IsFiniteSet(Reserved(k)')
            /\ Cardinality(Reserved(k)') = Cardinality(Reserved(k)) - 1
            /\ Cardinality(Reserved(k)) \in Nat
        BY <2>0, <3>1, FS_RemoveElement, FS_CardinalityType DEF Account
      <3>3. free'[k] = free[k] + 1
        BY <1>0, <2>1 DEF Release, Types
      <3>. QED
        BY <2>0, <3>2, <3>3 DEF Account, Slots
    <2>2. CASE k # Kind(r)
      <3>1. Reserved(k)' = Reserved(k)
        BY <2>2 DEF Reserved, InSlot, Kind
      <3>2. free'[k] = free[k]
        BY <1>0, <2>2 DEF Release, Types
      <3>. QED
        BY <2>0, <3>1, <3>2 DEF Account
    <2>. QED
      BY <2>1, <2>2
  <1>. QED
    BY <1>1, <1>2

----------------------------------------------------------------------------
(* The steps                                                               *)

(* Steps before and beside the slots of JobService.                        *)
LEMMA OutsideInv ==
  ASSUME SlotsInv, NEW r \in Requests,
         \/ RefuseDeclared(r) \/ Enter(r) \/ ReceiveBody(r)
         \/ Submit(r) \/ Start(r) \/ Analyse(r) \/ ImageReply(r)
         \/ ImageTimeout(r)
  PROVE  SlotsInv'
  <1>. USE DEF At, Reply
  <1>0. Types /\ ThreadLater(r)
    BY DEF SlotsInv
  <1>1. UNCHANGED <<ask, free>>
    BY DEF RefuseDeclared, Enter, ReceiveBody, Submit, Start, Analyse,
           ImageReply, ImageTimeout, AfterTimeout
  <1>2. \A q \in Requests \ {r} : pc'[q] = pc[q] /\ thread'[q] = thread[q]
    BY <1>0
    DEF RefuseDeclared, Enter, ReceiveBody, Submit, Start, Analyse,
        ImageReply, ImageTimeout, Types
  <1>3. /\ pc'[r] \in Places /\ thread'[r] \in Threads
        /\ ThreadLater(r)' /\ (InSlot(r)' <=> InSlot(r))
    <2>1. CASE RefuseDeclared(r) \/ Enter(r) \/ ReceiveBody(r)
      BY <1>0, <2>1
      DEF RefuseDeclared, Enter, ReceiveBody, Types, Places, ThreadLater,
          InSlot, Stopped
    <2>2. CASE Submit(r) \/ Start(r) \/ Analyse(r)
      BY <1>0, <2>2
      DEF Submit, Start, Analyse, Types, Places, Threads, ThreadLater, InSlot,
          Stopped
    <2>3. CASE ImageReply(r) \/ ImageTimeout(r)
      BY <1>0, <2>3
      DEF ImageReply, ImageTimeout, Timed, Types, Places, ThreadLater, InSlot,
          Stopped
    <2>. QED
      BY <2>1, <2>2, <2>3
  <1>4. /\ \A q \in Requests : InSlot(q)' <=> InSlot(q)
        /\ \A q \in Requests : ThreadLater(q)'
    BY <1>2, <1>3 DEF SlotsInv, InSlot, ThreadLater
  <1>5. Types'
    <2>1. pc' \in [Requests -> Places]
      BY <1>0, <1>3
      DEF RefuseDeclared, Enter, ReceiveBody, Submit, Start, Analyse,
          ImageReply, ImageTimeout, Types
    <2>2. thread' \in [Requests -> Threads]
      BY <1>0, <1>3
      DEF RefuseDeclared, Enter, ReceiveBody, Submit, Start, Analyse,
          ImageReply, ImageTimeout, Types
    <2>3. answer' \in [Requests -> Answers]
      BY <1>0
      DEF RefuseDeclared, Enter, ReceiveBody, Submit, Start, Analyse,
          ImageReply, ImageTimeout, Types, Answers, Text
    <2>. QED
      BY <1>0, <1>1, <2>1, <2>2, <2>3 DEF Types
  <1>. QED
    BY <1>1, <1>4, <1>5, Untouched DEF SlotsInv

LEMMA AdmitInv ==
  ASSUME SlotsInv, NEW r \in Requests, Admit(r)
  PROVE  SlotsInv'
  <1>. USE DEF At
  <1>0. Types /\ ThreadLater(r)
    BY DEF SlotsInv
  <1>1. /\ UNCHANGED <<ask, thread, answer>>
        /\ free[Kind(r)] > 0 /\ free' = Acquire(free, r)
        /\ \A q \in Requests \ {r} : pc'[q] = pc[q]
        /\ pc[r] = "admission" /\ pc'[r] = "read"
        /\ pc' \in [Requests -> Places]
    BY <1>0 DEF Admit, Types, Places
  <1>2. ~InSlot(r) /\ InSlot(r)' /\ ThreadLater(r)'
    BY <1>0, <1>1 DEF InSlot, ThreadLater, Stopped
  <1>3. \A q \in Requests \ {r} : (InSlot(q)' <=> InSlot(q)) /\ ThreadLater(q)'
    BY <1>1 DEF SlotsInv, InSlot, ThreadLater
  <1>4. free' \in [Kinds -> Nat] /\ \A k \in Kinds : Account(k)'
    BY <1>1, <1>2, <1>3, Taken
  <1>. QED
    BY <1>0, <1>1, <1>2, <1>3, <1>4 DEF SlotsInv, Types

(* The three ends of a stay: refused, called back, or over with its child. *)
LEMMA EndInv ==
  ASSUME SlotsInv, NEW r \in Requests,
         RefuseUpload(r) \/ ImageDone(r) \/ DxfDone(r)
  PROVE  SlotsInv'
  <1>. USE DEF Reply
  <1>0. Types /\ ThreadLater(r)
    BY DEF SlotsInv
  <1>1. UNCHANGED ask /\ free' = Release(free, r)
    BY DEF RefuseUpload, AfterRefusal, ImageDone, DxfDone
  <1>2. \A q \in Requests \ {r} : pc'[q] = pc[q] /\ thread'[q] = thread[q]
    BY <1>0 DEF RefuseUpload, ImageDone, DxfDone, Types
  <1>3. /\ pc' \in [Requests -> Places] /\ thread' \in [Requests -> Threads]
        /\ answer' \in [Requests -> Answers]
    BY <1>0
    DEF RefuseUpload, ImageDone, DxfDone, Types, Places, Threads, Answers, Text
  <1>4. InSlot(r) /\ ~InSlot(r)' /\ ThreadLater(r)'
    <2>1. CASE RefuseUpload(r)
      BY <1>0, <2>1 DEF RefuseUpload, Types, InSlot, ThreadLater, Stopped
    <2>2. CASE ImageDone(r)
      BY <1>0, <2>2 DEF ImageDone, Types, InSlot, ThreadLater, Stopped
    <2>3. CASE DxfDone(r)
      BY <1>0, <2>3 DEF DxfDone, Types, InSlot, ThreadLater, Stopped
    <2>. QED
      BY <2>1, <2>2, <2>3
  <1>5. \A q \in Requests \ {r} : (InSlot(q)' <=> InSlot(q)) /\ ThreadLater(q)'
    BY <1>2 DEF SlotsInv, InSlot, ThreadLater
  <1>6. free' \in [Kinds -> Nat] /\ \A k \in Kinds : Account(k)'
    BY <1>1, <1>4, <1>5, GivenBack
  <1>. QED
    BY <1>0, <1>1, <1>3, <1>4, <1>5, <1>6 DEF SlotsInv, Types

----------------------------------------------------------------------------
(* The account is kept by every step, the time-outs and crashes included.  *)
THEOREM SlotsInvariant == Spec => []SlotsInv
  <1>1. Init => SlotsInv
    <2>. SUFFICES ASSUME Init PROVE SlotsInv
      OBVIOUS
    <2>. USE DEF Init
    <2>1. Types
      BY SlotsAreNumbers DEF Types, Places, Threads, Answers, Slots, Kinds
    <2>2. \A r \in Requests : ThreadLater(r)
      BY DEF ThreadLater
    <2>3. ASSUME NEW k \in Kinds PROVE Account(k)
      <3>1. Reserved(k) = {}
        BY DEF Reserved, Stopped
      <3>. QED
        BY <3>1, SlotsAreNumbers, FS_EmptySet DEF Account
    <2>. QED
      BY <2>1, <2>2, <2>3 DEF SlotsInv
  <1>2. SlotsInv /\ [Next]_vars => SlotsInv'
    <2>. SUFFICES ASSUME SlotsInv, [Next]_vars PROVE SlotsInv'
      OBVIOUS
    <2>1. CASE Next
      BY <2>1, OutsideInv, AdmitInv, EndInv DEF Next, Loop
    <2>2. CASE UNCHANGED vars
      <3>1. \A k \in Kinds : Account(k)'
        BY <2>2, Untouched DEF vars, InSlot
      <3>. QED
        BY <2>2, <3>1 DEF SlotsInv, Types, ThreadLater, vars
    <2>. QED
      BY <2>1, <2>2
  <1>. QED
    BY <1>1, <1>2, PTL DEF Spec

(* No slot of JobService is lost and none given back twice, whatever was   *)
(* refused, crashed, hung or timed out.                                    *)
THEOREM SlotsAccounted == Spec => []SlotsConserved
  <1>1. SlotsInv => SlotsConserved
    BY DEF SlotsInv, Account, SlotsConserved
  <1>. QED
    BY <1>1, SlotsInvariant, PTL

(* An image that was admitted finds a thread of the pool free: the slots   *)
(* let no more images in than the pool has threads, those nobody waits for *)
(* any more included.                                                      *)
THEOREM ThreadsSuffice == Spec => []NeverBehindAbandoned
  <1>1. SlotsInv => NeverBehindAbandoned
    <2>. SUFFICES ASSUME SlotsInv, NEW r \in Requests,
                         Kind(r) = "image", thread[r] = "queued"
                  PROVE  Cardinality(Running("image")) < ImageSlots
      BY DEF NeverBehindAbandoned
    <2>. DEFINE R == Reserved("image")
                B == Running("image")
    <2>1. /\ "image" \in Kinds /\ free["image"] \in Nat
          /\ IsFiniteSet(R) /\ free["image"] + Cardinality(R) = ImageSlots
      BY DEF SlotsInv, Account, Types, Kinds, Slots
    <2>2. /\ IsFiniteSet(R \ {r})
          /\ Cardinality(R \ {r}) = Cardinality(R) - 1
          /\ Cardinality(R) \in Nat
      <3>1. r \in R
        BY DEF Reserved
      <3>. QED
        BY <2>1, <3>1, FS_RemoveElement, FS_CardinalityType
    <2>3. IsFiniteSet(B) /\ Cardinality(B) <= Cardinality(R \ {r})
      <3>1. B \subseteq R \ {r}
        BY DEF Running, Reserved
      <3>. QED
        BY <2>2, <3>1, FS_Subset
    <2>4. Cardinality(B) \in Nat
      BY <2>3, FS_CardinalityType
    <2>. QED
      BY <2>1, <2>2, <2>3, <2>4, SlotsAssumption
  <1>. QED
    BY <1>1, SlotsInvariant, PTL

=============================================================================
