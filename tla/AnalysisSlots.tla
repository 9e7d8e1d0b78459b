--------------------------- MODULE AnalysisSlots ---------------------------
(***************************************************************************)
(* Admission of image and DXF analyses in one server process: the slots of *)
(* RequestBodyLimitMiddleware around those of JobService, an analysis with *)
(* a time limit, and what runs it: a thread of _image_executor, which      *)
(* nothing can stop, or a child process, which is killed in time.          *)
(***************************************************************************)
EXTENDS Naturals, FiniteSets

CONSTANTS
  Requests,
  ImageSlots,  \* image_analysis_concurrency
  DxfSlots     \* dxf_analysis_concurrency

ASSUME SlotsAssumption == ImageSlots \in Nat \ {0} /\ DxfSlots \in Nat \ {0}

VARIABLES
  ask,     \* what each request sends
  pc,      \* where its handler is
  door,    \* free slots of the middleware, one semaphore per path
  free,    \* free slots of JobService
  thread,  \* the thread or child process that analyses it
  answer   \* what the client got

vars == <<ask, pc, door, free, thread, answer>>

Kinds == {"image", "dxf"}
Slots == [k \in Kinds |-> IF k = "image" THEN ImageSlots ELSE DxfSlots]

(* How much is sent: "declared" and "chunked" bodies exceed the limit of   *)
(* the body, and say so in content-length or not; a "large" one only that  *)
(* of the file, since a body may be 131072 bytes longer than its file.     *)
Sizes == {"declared", "chunked", "large", "fits"}

Kind(r) == ask[r].kind

Init ==
  /\ ask \in [Requests -> [kind: Kinds, size: Sizes]]
  /\ pc = [r \in Requests |-> "new"]
  /\ door = Slots /\ free = Slots
  /\ thread = [r \in Requests |-> "none"]
  /\ answer = [r \in Requests |-> "none"]

At(r, from, to) == pc[r] = from /\ pc' = [pc EXCEPT ![r] = to]
Acquire(slots, r) == [slots EXCEPT ![Kind(r)] = @ - 1]
Release(slots, r) == [slots EXCEPT ![Kind(r)] = @ + 1]

(* The handler is over: the middleware gives its slot back.                *)
Reply(r, text) ==
  /\ pc' = [pc EXCEPT ![r] = "over"]
  /\ answer' = [answer EXCEPT ![r] = text]
  /\ door' = Release(door, r)

----------------------------------------------------------------------------
(* RequestBodyLimitMiddleware.__call__                                     *)

RefuseDeclared(r) ==
  /\ ask[r].size = "declared"
  /\ At(r, "new", "over")
  /\ answer' = [answer EXCEPT ![r] = "too large"]
  /\ UNCHANGED <<ask, door, free, thread>>

Enter(r) ==
  /\ ask[r].size # "declared"
  /\ door[Kind(r)] > 0
  /\ At(r, "new", "body")
  /\ door' = Acquire(door, r)
  /\ UNCHANGED <<ask, free, thread, answer>>

(* limited_receive counts; the form is parsed before the route is called.  *)
ReceiveBody(r) ==
  /\ IF ask[r].size = "chunked"
     THEN pc[r] = "body" /\ Reply(r, "too large")
     ELSE At(r, "body", "admission") /\ UNCHANGED <<door, answer>>
  /\ UNCHANGED <<ask, free, thread>>

----------------------------------------------------------------------------
(* analyze_upload and analyze_dxf_upload                                   *)

Admit(r) ==
  /\ free[Kind(r)] > 0
  /\ At(r, "admission", "read")
  /\ free' = Acquire(free, r)
  /\ UNCHANGED <<ask, door, thread, answer>>

(* Planted fault: the refusal of a large file keeps the slot.              *)
BugAfterRefusal(r) == free

AfterRefusal(r) == Release(free, r)

(* upload.read fails, or returned too much; DXF options may be unknown.    *)
RefuseUpload(r) ==
  /\ pc[r] = "read"
  /\ Reply(r, "refused")
  /\ free' = AfterRefusal(r)
  /\ UNCHANGED <<ask, thread>>

(* run_in_executor, or to_thread for the thread that waits for the child.  *)
Submit(r) ==
  /\ ask[r].size = "fits"
  /\ At(r, "read", "await")
  /\ thread' = [thread EXCEPT ![r] = "queued"]
  /\ UNCHANGED <<ask, door, free, answer>>

Running(k) == {r \in Requests : Kind(r) = k /\ thread[r] = "running"}

(* The pool of images has as many threads as there are slots.              *)
Start(r) ==
  /\ thread[r] = "queued"
  /\ Kind(r) = "image" => Cardinality(Running("image")) < ImageSlots
  /\ thread' = [thread EXCEPT ![r] = "running"]
  /\ UNCHANGED <<ask, pc, door, free, answer>>

(* The analysis returns or raises; the child crashes, or is killed by      *)
(* subprocess.run because it takes too long.                               *)
Analyse(r) ==
  /\ thread[r] = "running"
  /\ \E end \in {"returned", "raised"} : thread' = [thread EXCEPT ![r] = end]
  /\ UNCHANGED <<ask, pc, door, free, answer>>

Stopped == {"returned", "raised"}

Text(r) == IF thread[r] \in {"returned", "result"} THEN "signed analysis" ELSE "refused"

(* The event loop learns of the end of an image's thread: the callback of  *)
(* the future releases the slot, whether or not the handler still waits.   *)
ImageDone(r) ==
  /\ Kind(r) = "image" /\ thread[r] \in Stopped
  /\ thread' = [thread EXCEPT ![r] = IF @ = "returned" THEN "result" ELSE "error"]
  /\ free' = Release(free, r)
  /\ UNCHANGED <<ask, pc, door, answer>>

ImageReply(r) ==
  /\ Kind(r) = "image" /\ pc[r] = "await" /\ thread[r] \in {"result", "error"}
  /\ Reply(r, Text(r))
  /\ UNCHANGED <<ask, free, thread>>

(* Planted fault: the time limit gives the slot back, as does the callback. *)
BugAfterTimeout(r) == Release(free, r)

AfterTimeout(r) == free

(* Planted fault: an analysis that runs is awaited for as long as it takes. *)
BugTimed(r) == Kind(r) = "image" /\ pc[r] = "await" /\ thread[r] # "running"

Timed(r) == Kind(r) = "image" /\ pc[r] = "await"

(* wait_for gives up; the shielded future goes on.                         *)
ImageTimeout(r) ==
  /\ Timed(r)
  /\ Reply(r, "timed out")
  /\ free' = AfterTimeout(r)
  /\ UNCHANGED <<ask, thread>>

DxfDone(r) ==
  /\ Kind(r) = "dxf" /\ pc[r] = "await" /\ thread[r] \in Stopped
  /\ Reply(r, Text(r))
  /\ thread' = [thread EXCEPT ![r] = "none"]
  /\ free' = Release(free, r)
  /\ UNCHANGED ask

----------------------------------------------------------------------------
Loop(r) ==
  \/ RefuseDeclared(r) \/ Enter(r) \/ ReceiveBody(r) \/ Admit(r)
  \/ RefuseUpload(r) \/ Submit(r) \/ Start(r)
  \/ ImageDone(r) \/ ImageReply(r) \/ ImageTimeout(r) \/ DxfDone(r)

Next == \E r \in Requests : Loop(r) \/ Analyse(r)

Spec == Init /\ [][Next]_vars

(* The event loop and the clock run and semaphores serve their waiters; a  *)
(* child is killed in time, but the analysis of an image may never end.    *)
FairSpec ==
  /\ Spec
  /\ \A r \in Requests : WF_vars(Loop(r)) /\ WF_vars(Kind(r) = "dxf" /\ Analyse(r))

----------------------------------------------------------------------------
(* Properties                                                              *)

(* Those a slot of JobService is reserved for: being read, or an analysis  *)
(* the event loop has not seen the end of, whether or not anybody waits.   *)
Reserved(k) ==
  {r \in Requests : Kind(r) = k /\
     (pc[r] = "read" \/ thread[r] \in {"queued", "running"} \cup Stopped)}

(* Every slot is free or reserved, whatever was refused, crashed or timed  *)
(* out: none is lost, and none is given back twice.                        *)
SlotsConserved ==
  \A k \in Kinds : free[k] + Cardinality(Reserved(k)) = Slots[k]

(* An admitted image never waits for a thread of the pool behind one whose *)
(* client got its time-out long ago: its own time limit measures its own   *)
(* analysis.                                                               *)
NeverBehindAbandoned ==
  \A r \in Requests : (Kind(r) = "image" /\ thread[r] = "queued") =>
    Cardinality(Running("image")) < ImageSlots

(* Every DXF request is answered.  An image that was admitted is answered  *)
(* even if its analysis never ends; one that waits for a slot is, unless   *)
(* such analyses keep the slots for ever.                                  *)
EveryoneAnswered ==
  \A r \in Requests :
    /\ pc[r] \in {"read", "await"} ~> pc[r] = "over"
    /\ \/ pc[r] = "new" ~> pc[r] = "over"
       \/ Kind(r) = "image" /\ []<>(Running("image") # {})

=============================================================================
