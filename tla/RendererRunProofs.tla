------------------------- MODULE RendererRunProofs -------------------------
(***************************************************************************)
(* Proofs about the renderer's watch over its kernels, for any calls, any  *)
(* number of slots, and a cancel check that may raise or not.              *)
(*                                                                         *)
(* The argument follows one call: what its thread knows of its child at    *)
(* each statement stays true whatever the child, the user and the clock do *)
(* before the next one, since a process that has ended stays so and only   *)
(* a leader that runs starts descendants.                                  *)
(***************************************************************************)
EXTENDS RendererRun, FiniteSetTheorems, TLAPS

Before   == {"waiting", "start", "spawn"}
Watching == {"poll", "ask", "limits"}

Gone == {"exited", "killed"}

(* What is so at each statement, whatever happens around it.               *)
Stage(c) ==
  /\ pc[c] \in Before =>
       leader[c] = "none" /\ kids[c] = "none" /\ ended[c] = "not"
  /\ pc[c] \in Watching => leader[c] \in {"running", "exited"} /\ ended[c] = "not"
  /\ pc[c] = "collect" => leader[c] = "exited" /\ ended[c] = "exit"
  /\ pc[c] = "kill" =>
       leader[c] \in {"running", "exited"} /\ ended[c] \in {"cancel", "limit"}

(* What is so once the thread has let go of its child.                     *)
LetGo(c) ==
  pc[c] \in {"cleanup", "over"} =>
    \/ ended[c] = "raise"
    \/ leader[c] = "exited"
    \/ leader[c] \in {"none", "killed"} /\ kids[c] # "running"

(* What the outcome says, from when it is set.                             *)
Truthful(c) ==
  /\ outcome[c] = "ok" => leader[c] = "exited" /\ ended[c] = "exit"
  /\ outcome[c] = "cancelled" => c \in cancelled

CallOK(c) == Stage(c) /\ LetGo(c) /\ Truthful(c)

SlotsKept == IsFiniteSet(Holding) /\ Cardinality(Holding) <= Slots

RunInv ==
  /\ TypeOK
  /\ \A c \in Renders : CallOK(c)
  /\ SlotsKept

----------------------------------------------------------------------------
(* Slots and bystanders                                                    *)

(* A step by which nobody starts to hold a slot.                           *)
LEMMA NoneTaken ==
  ASSUME SlotsKept, Holding' \subseteq Holding
  PROVE  SlotsKept'
  <1>1. /\ IsFiniteSet(Holding') /\ Cardinality(Holding') <= Cardinality(Holding)
        /\ Cardinality(Holding) \in Nat /\ Cardinality(Holding') \in Nat
    BY FS_Subset, FS_CardinalityType DEF SlotsKept
  <1>. QED
    BY <1>1, SlotAssumption DEF SlotsKept

(* A call that nothing happened to but, perhaps, its cancellation.         *)
LEMMA Bystander ==
  ASSUME NEW d \in Renders, CallOK(d), cancelled \subseteq cancelled',
         pc'[d] = pc[d], ended'[d] = ended[d], outcome'[d] = outcome[d],
         leader'[d] = leader[d], kids'[d] = kids[d]
  PROVE  CallOK(d)'
  BY DEF CallOK, Stage, LetGo, Truthful

----------------------------------------------------------------------------
(* The steps of a call's thread                                            *)

LEMMA TakeSlotInv ==
  ASSUME RunInv, NEW c \in Renders, TakeSlot(c)
  PROVE  RunInv'
  <1>. USE DEF Goto, processes, requests
  <1>0. TypeOK /\ CallOK(c) /\ SlotsKept
    BY DEF RunInv
  <1>1. TypeOK'
    BY <1>0 DEF TakeSlot, TypeOK
  <1>2. \A d \in Renders : CallOK(d)'
    <2>1. CallOK(c)'
      BY <1>0
      DEF TakeSlot, TypeOK, CallOK, Stage, LetGo, Truthful, Before, Watching
    <2>2. ASSUME NEW d \in Renders \ {c} PROVE CallOK(d)'
      <3>1. pc'[d] = pc[d]
        BY <1>0 DEF TakeSlot, TypeOK
      <3>. QED
        BY <3>1, Bystander DEF RunInv, TakeSlot
    <2>. QED
      BY <2>1, <2>2
  <1>3. SlotsKept'
    <2>1. Holding' = Holding \cup {c} /\ c \notin Holding
      BY <1>0 DEF TakeSlot, Holding, TypeOK
    <2>2. /\ IsFiniteSet(Holding')
          /\ Cardinality(Holding') = Cardinality(Holding) + 1
          /\ Cardinality(Holding) \in Nat
      BY <1>0, <2>1, FS_AddElement, FS_CardinalityType DEF SlotsKept
    <2>3. Cardinality(Holding) < Slots
      BY DEF TakeSlot, SlotFree
    <2>. QED
      BY <2>2, <2>3, SlotAssumption DEF SlotsKept
  <1>. QED
    BY <1>1, <1>2, <1>3 DEF RunInv

LEMMA WatchInv ==
  ASSUME RunInv, NEW c \in Renders, Watch(c)
  PROVE  RunInv'
  <1>. USE DEF Goto, EndWatch, Result, processes, requests
  <1>0. TypeOK /\ CallOK(c) /\ SlotsKept
    BY DEF RunInv
  <1>1. UNCHANGED <<role, cancelled, passed>>
    BY DEF Watch, CheckBefore, Spawn, Poll, Ask, Limits, Kill, Collect, Cleanup,
           Asked
  <1>2. /\ pc[c] \notin {"waiting", "over"}
        /\ \A d \in Renders \ {c} :
             /\ pc'[d] = pc[d] /\ ended'[d] = ended[d] /\ outcome'[d] = outcome[d]
             /\ leader'[d] = leader[d] /\ kids'[d] = kids[d]
    <2>. USE <1>0 DEF TypeOK
    <2>1. CASE CheckBefore(c) \/ Spawn(c)
      BY <2>1 DEF CheckBefore, Spawn, Asked
    <2>2. CASE Poll(c) \/ Ask(c) \/ Limits(c)
      BY <2>2 DEF Poll, Ask, Limits, Asked
    <2>3. CASE Kill(c) \/ Collect(c) \/ Cleanup(c)
      BY <2>3 DEF Kill, Collect, Cleanup
    <2>. QED
      BY <2>1, <2>2, <2>3 DEF Watch
  <1>3. TypeOK' /\ CallOK(c)'
    <2>. USE <1>0
         DEF TypeOK, CallOK, Stage, LetGo, Truthful, Before, Watching
    <2>1. CASE CheckBefore(c)
      BY <2>1 DEF CheckBefore, Asked
    <2>2. CASE Spawn(c)
      BY <2>2 DEF Spawn
    <2>3. CASE Poll(c)
      BY <2>3 DEF Poll
    <2>4. CASE Ask(c)
      BY <2>4 DEF Ask, Asked
    <2>5. CASE Limits(c)
      BY <2>5 DEF Limits
    <2>6. CASE Kill(c)
      BY <2>6 DEF Kill, Dead
    <2>7. CASE Collect(c)
      BY <2>7 DEF Collect
    <2>8. CASE Cleanup(c)
      BY <2>8 DEF Cleanup
    <2>. QED
      BY <2>1, <2>2, <2>3, <2>4, <2>5, <2>6, <2>7, <2>8 DEF Watch
  <1>4. \A d \in Renders : CallOK(d)'
    BY <1>1, <1>2, <1>3, Bystander DEF RunInv
  <1>5. SlotsKept'
    <2>1. Holding' \subseteq Holding
      BY <1>2 DEF Holding
    <2>. QED
      BY <1>0, <2>1, NoneTaken
  <1>. QED
    BY <1>3, <1>4, <1>5 DEF RunInv

(* The kernel, its descendants, the user and time.                         *)
LEMMA EnvironmentInv ==
  ASSUME RunInv, NEW c \in Renders, Environment(c)
  PROVE  RunInv'
  <1>. USE DEF processes, requests
  <1>0. TypeOK /\ CallOK(c) /\ SlotsKept
    BY DEF RunInv
  <1>1. UNCHANGED <<pc, ended, outcome, role>> /\ cancelled \subseteq cancelled'
    BY DEF Environment, Fork, LeaderExits, KidsExit, UserCancels, TimePasses,
           Floods
  <1>2. \A d \in Renders \ {c} : leader'[d] = leader[d] /\ kids'[d] = kids[d]
    BY <1>0
    DEF Environment, Fork, LeaderExits, KidsExit, UserCancels, TimePasses,
        Floods, TypeOK
  <1>3. TypeOK' /\ CallOK(c)'
    <2>. USE <1>0
         DEF TypeOK, CallOK, Stage, LetGo, Truthful, Before, Watching
    <2>1. CASE Fork(c)
      BY <2>1 DEF Fork
    <2>2. CASE LeaderExits(c)
      BY <2>2 DEF LeaderExits
    <2>3. CASE KidsExit(c)
      BY <2>3 DEF KidsExit
    <2>4. CASE UserCancels(c)
      BY <2>4 DEF UserCancels
    <2>5. CASE TimePasses(c)
      BY <2>5 DEF TimePasses
    <2>6. CASE Floods(c)
      BY <2>6 DEF Floods
    <2>. QED
      BY <2>1, <2>2, <2>3, <2>4, <2>5, <2>6 DEF Environment
  <1>4. \A d \in Renders : CallOK(d)'
    BY <1>1, <1>2, <1>3, Bystander DEF RunInv
  <1>5. SlotsKept'
    <2>1. Holding' \subseteq Holding
      BY <1>1 DEF Holding
    <2>. QED
      BY <1>0, <2>1, NoneTaken
  <1>. QED
    BY <1>3, <1>4, <1>5 DEF RunInv

----------------------------------------------------------------------------
(* What every thread knows of its child stays true.                        *)
THEOREM RunInvariant == Spec => []RunInv
  <1>1. Init => RunInv
    <2>. SUFFICES ASSUME Init PROVE RunInv
      OBVIOUS
    <2>1. TypeOK
      BY DEF Init, TypeOK
    <2>2. \A c \in Renders : CallOK(c)
      BY DEF Init, CallOK, Stage, LetGo, Truthful, Watching
    <2>3. SlotsKept
      <3>1. Holding = {}
        BY DEF Init, Holding
      <3>. QED
        BY <3>1, FS_EmptySet, SlotAssumption DEF SlotsKept
    <2>. QED
      BY <2>1, <2>2, <2>3 DEF RunInv
  <1>2. RunInv /\ [Next]_vars => RunInv'
    <2>. SUFFICES ASSUME RunInv, [Next]_vars PROVE RunInv'
      OBVIOUS
    <2>1. CASE Next
      BY <2>1, TakeSlotInv, WatchInv, EnvironmentInv DEF Next
    <2>2. CASE UNCHANGED vars
      BY <2>2
      DEF vars, RunInv, TypeOK, CallOK, Stage, LetGo, Truthful, SlotsKept,
          Holding
    <2>. QED
      BY <2>1, <2>2
  <1>. QED
    BY <1>1, <1>2, PTL DEF Spec

(* A call knows how it ends exactly when it no longer watches its child.   *)
THEOREM RunTypes == Spec => []TypeOK
  <1>1. RunInv => TypeOK
    BY DEF RunInv
  <1>. QED
    BY <1>1, RunInvariant, PTL

(* The render slots bound the kernels that run, those that the exception   *)
(* of a cancel check let go set aside: a slot is given back only after the *)
(* kernel it was taken for has ended.                                      *)
THEOREM KernelsAreBounded == Spec => []KernelsBounded
  <1>1. RunInv => KernelsBounded
    <2>. SUFFICES ASSUME RunInv PROVE KernelsBounded
      OBVIOUS
    <2>1. Watched \subseteq Holding
      BY DEF RunInv, CallOK, Stage, LetGo, Watched, Holding, Before
    <2>2. /\ Cardinality(Watched) <= Cardinality(Holding)
          /\ Cardinality(Watched) \in Nat /\ Cardinality(Holding) \in Nat
      BY <2>1, FS_Subset, FS_CardinalityType DEF RunInv, SlotsKept
    <2>. QED
      BY <2>2, SlotAssumption DEF RunInv, SlotsKept, KernelsBounded
  <1>. QED
    BY <1>1, RunInvariant, PTL

(* A process that outlives its call has one of two reasons; the end of the *)
(* whole group by _terminate_process_tree leaves no third.                 *)
THEOREM SurvivorsAreExplained == Spec => []SurvivorsExplained
  <1>1. RunInv => SurvivorsExplained
    BY DEF RunInv, CallOK, LetGo, SurvivorsExplained, Alive
  <1>. QED
    BY <1>1, RunInvariant, PTL

(* No result of a killed child, no cancellation nobody asked for.          *)
THEOREM ResultsHold == Spec => []ResultsAreReal
  <1>1. RunInv => ResultsAreReal
    BY DEF RunInv, CallOK, Truthful, ResultsAreReal
  <1>. QED
    BY <1>1, RunInvariant, PTL

=============================================================================
