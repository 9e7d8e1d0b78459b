------------------------------ MODULE WebPage ------------------------------
(***************************************************************************)
(* app/static/app.js: one browser page that submits CAD jobs, monitors a   *)
(* queued one, shows manifests, analyses a file into a feature tree and    *)
(* moves a drawing through its review.                                     *)
(*                                                                         *)
(* Every await is a record in calls.  The server handles the calls and the *)
(* answers reach the page in any order, while the user goes on clicking.   *)
(***************************************************************************)
EXTENDS Naturals, FiniteSets

CONSTANTS
  Jobs,       \* jobs the server may create
  Drawn,      \* those whose manifest has a drawing-spec.json
  Files,      \* files to analyse; image and DXF inputs behave alike
  None,
  MaxClicks,  \* bound on what the user does
  MaxCalls    \* bound on calls in flight

ASSUME WebAssumption ==
  /\ Drawn \subseteq Jobs
  /\ None \notin Jobs \cup Files
  /\ MaxClicks \in Nat /\ MaxCalls \in Nat

VARIABLES
  server,   \* status of each job, "absent" before it is created
  version,  \* version of the review of each job: 0 draft, 1 in review, 2 decided
  page,     \* the variables and disabled buttons of the page
  calls,    \* what the page awaits
  clicks    \* number of things the user did

vars == <<server, version, page, calls, clicks>>

InProgress == {"queued", "running"}
Ended      == {"completed", "failed", "cancelled"}
Submit     == {"generate", "regenerate"}   \* generateBtn, regenerateBtn
NoReview   == [job |-> None, version |-> 0]

(* A page whose saved queue id is q; monitorQueue follows at once.         *)
Loaded(q) ==
  [tracked  |-> q,         \* activeQueueJobId, and its copy in localStorage
   resume   |-> FALSE,     \* resumeJobBtn is visible
   off      |-> {"tree"},  \* disabled buttons
   shown    |-> None,      \* activeManifestJobId
   review   |-> NoReview,  \* activeManufacturingReview
   chosen   |-> None,      \* file in the input
   analysis |-> None]      \* file of the active analysis and its tree

Call(kind, on, button) ==
  [kind |-> kind, on |-> on, button |-> button,
   live |-> TRUE,           \* its version is still the current one
   expect |-> 0,            \* expected_version
   answer |-> "none", got |-> None, number |-> 0]

(* Drawings may be there from earlier, in any state of their review.  The   *)
(* saved id may be one this server does not know.                          *)
Init ==
  /\ clicks = 0
  /\ \/ /\ page = Loaded(None) /\ calls = {}
        /\ \E old \in SUBSET Drawn :
             /\ server = [j \in Jobs |-> IF j \in old THEN "completed" ELSE "absent"]
             /\ version \in {v \in [Jobs -> 0 .. 2] : \A j \in Jobs \ old : v[j] = 0}
     \/ \E q \in Jobs :
          /\ server = [j \in Jobs |-> IF j = q THEN "missing" ELSE "absent"]
          /\ version = [j \in Jobs |-> 0]
          /\ page = [Loaded(q) EXCEPT !.off = @ \cup Submit]
          /\ calls = {Call("poll", q, "none")}

----------------------------------------------------------------------------
(* What the functions of the page do to its variables                      *)

(* setActiveQueue                                                          *)
Track(q, p) ==
  [p EXCEPT !.tracked = q,
            !.resume = @ /\ q # None,
            !.off = IF q = None THEN @ \ Submit ELSE @ \cup Submit]

(* clearFeatureTreeState, which also ends the validity of a pending answer *)
ClearTree(p) ==
  [p EXCEPT !.analysis = None, !.off = (@ \ {"analyze"}) \cup {"tree"}]

(* showManifest; the review of a drawing is replaced when it has arrived   *)
ShowManifest(j, p) ==
  [p EXCEPT !.shown = j,
            !.analysis = None,
            !.off = @ \cup {"tree"},
            !.review = IF j \in Drawn THEN @ ELSE NoReview]

ReviewCalls(j) == IF j \in Drawn THEN {Call("review", j, "none")} ELSE {}

(* Planted fault: the resume button stays hidden.                          *)
BugConnectionError(answer, p) == IF answer = "missing" THEN Track(None, p) ELSE p

(* showQueueConnectionError                                                *)
ConnectionError(answer, p) ==
  IF answer = "missing" THEN Track(None, p) ELSE [p EXCEPT !.resume = TRUE]

(* Planted fault: the button is enabled whatever is tracked.               *)
BugFinally(button, p) == [p EXCEPT !.off = @ \ {button}]

(* The finally clause of a click handler                                   *)
Finally(button, p) ==
  IF button \in Submit /\ p.tracked # None THEN p
  ELSE [p EXCEPT !.off = @ \ {button}]

Monitoring == {"poll", "manifest", "pause"}

(* ++queuePollVersion, ++analysisRequestVersion                            *)
Outdated(kinds, others) ==
  {IF c.kind \in kinds THEN [c EXCEPT !.live = FALSE] ELSE c : c \in others}

(* monitorQueue, up to its first await                                     *)
Monitor(q, button, p, others) ==
  /\ page' = [Track(q, p) EXCEPT !.resume = FALSE]
  /\ calls' = Outdated(Monitoring, others) \cup {Call("poll", q, button)}

----------------------------------------------------------------------------
(* The user                                                                *)

Click == clicks < MaxClicks /\ clicks' = clicks + 1

Send(c) == Cardinality(calls) < MaxCalls /\ calls' = calls \cup {c}

(* Generate and regenerate, at once or through the queue.                  *)
ClickSubmit(button) ==
  /\ Click
  /\ button \notin page.off
  /\ \E kind \in {"enqueue", "create"} : Send(Call(kind, None, button))
  /\ page' = [page EXCEPT !.off = @ \cup {button}]
  /\ UNCHANGED <<server, version>>

ClickManufacturing ==   \* no button is disabled
  /\ Click
  /\ Send(Call("create", None, "none"))
  /\ UNCHANGED <<server, version, page>>

ClickCancel ==
  /\ Click
  /\ page.tracked # None /\ "cancel" \notin page.off
  /\ Send(Call("cancel", page.tracked, "cancel"))
  /\ page' = [page EXCEPT !.off = @ \cup {"cancel"}]
  /\ UNCHANGED <<server, version>>

(* The resume button, or a changed token, starts a second monitor.         *)
ClickResume ==
  /\ Click
  /\ page.tracked # None
  /\ Cardinality(calls) < MaxCalls
  /\ Monitor(page.tracked, "none", page, calls)
  /\ UNCHANGED <<server, version>>

ChooseFile(f) ==
  /\ Click
  /\ f # page.chosen
  /\ page' = [ClearTree(page) EXCEPT !.chosen = f]
  /\ calls' = Outdated({"analysis"}, calls)
  /\ UNCHANGED <<server, version>>

ClickAnalyze ==
  /\ Click
  /\ page.chosen # None /\ "analyze" \notin page.off
  /\ Cardinality(calls) < MaxCalls
  /\ page' = [ClearTree(page) EXCEPT !.off = @ \cup {"analyze"}]
  /\ calls' = Outdated({"analysis"}, calls) \cup
                {Call("analysis", page.chosen, "analyze")}
  /\ UNCHANGED <<server, version>>

ClickTree ==
  /\ Click
  /\ page.analysis # None /\ "tree" \notin page.off
  /\ Send(Call("create", None, "tree"))
  /\ page' = [page EXCEPT !.off = @ \cup {"tree"}]
  /\ UNCHANGED <<server, version>>

ClickJob(j) ==          \* a manifest from the list of jobs
  /\ Click
  /\ server[j] = "completed"
  /\ Send(Call("open", j, "none"))
  /\ UNCHANGED <<server, version, page>>

(* submit, approve or reject, whichever the displayed review allows        *)
ClickReview ==
  /\ Click
  /\ page.shown # None /\ page.review.job # None /\ page.review.version < 2
  /\ Send([Call("transition", page.shown, "none")
             EXCEPT !.expect = page.review.version])
  /\ UNCHANGED <<server, version, page>>

(* The page is opened again: all its awaits are gone.                      *)
Reload ==
  /\ Click
  /\ IF page.tracked = None
     THEN page' = Loaded(None) /\ calls' = {}
     ELSE Monitor(page.tracked, "none", Loaded(page.tracked), {})
  /\ UNCHANGED <<server, version>>

----------------------------------------------------------------------------
(* The server                                                              *)

Answer(c, fields) == calls' = (calls \ {c}) \cup {fields}

Transitionable(c) == c.on \in Drawn /\ c.expect = version[c.on]

(* What the server may do with a call, and what it answers.                *)
Effect(c) ==
  \/ /\ c.kind \in {"enqueue", "create"}
     /\ \E j \in Jobs :
          /\ server[j] = "absent"
          /\ server' = [server EXCEPT ![j] =
                          IF c.kind = "enqueue" THEN "queued" ELSE "completed"]
          /\ Answer(c, [c EXCEPT !.answer = "ok", !.got = j])
     /\ UNCHANGED version
  \/ /\ c.kind = "cancel"
     /\ server' = [server EXCEPT ![c.on] = IF @ = "queued" THEN "cancelled" ELSE @]
     /\ Answer(c, [c EXCEPT !.answer = server'[c.on]])
     /\ UNCHANGED version
  \/ /\ c.kind = "poll"
     /\ Answer(c, [c EXCEPT !.answer = server[c.on]])
     /\ UNCHANGED <<server, version>>
  \/ /\ c.kind \in {"manifest", "open", "analysis"}
     /\ Answer(c, [c EXCEPT !.answer = "ok"])
     /\ UNCHANGED <<server, version>>
  \/ /\ c.kind = "review"
     /\ Answer(c, [c EXCEPT !.answer = "ok", !.number = version[c.on]])
     /\ UNCHANGED <<server, version>>
  \/ /\ c.kind = "transition"
     /\ Transitionable(c)
     /\ version' = [version EXCEPT ![c.on] = @ + 1]
     /\ Answer(c, [c EXCEPT !.answer = "ok", !.number = version[c.on] + 1])
     /\ UNCHANGED server

Serve(c) ==
  /\ c \in calls /\ c.answer = "none" /\ c.kind # "pause"
  /\ Effect(c)
  /\ UNCHANGED <<page, clicks>>

(* The request is refused, or the connection fails.                        *)
Fails(c) ==
  /\ c \in calls /\ c.answer = "none" /\ c.kind # "pause"
  /\ Answer(c, [c EXCEPT !.answer = "error"])
  /\ UNCHANGED <<server, version, page, clicks>>

(* The connection fails after the request took effect.                     *)
AnswerLost(c) ==
  /\ c \in calls /\ c.answer \notin {"none", "error"}
  /\ c.kind \in {"enqueue", "create", "cancel", "transition"}
  /\ Answer(c, [c EXCEPT !.answer = "error", !.got = None, !.number = 0])
  /\ UNCHANGED <<server, version, page, clicks>>

WorkerStep(j) ==
  /\ server[j] \in InProgress
  /\ server' = [server EXCEPT ![j] = IF @ = "queued" THEN "running" ELSE "completed"]
  /\ UNCHANGED <<version, page, calls, clicks>>

JobFails(j) ==
  /\ server[j] = "running"
  /\ \E status \in {"failed", "cancelled"} :
       server' = [server EXCEPT ![j] = status]
  /\ UNCHANGED <<version, page, calls, clicks>>

----------------------------------------------------------------------------
(* The answers: what the page does after each await                        *)

Quiet == UNCHANGED <<server, version, clicks>>
Done(c) == calls' = calls \ {c}
Continue(c, kind) == calls' = (calls \ {c}) \cup
  {[c EXCEPT !.kind = kind, !.answer = "none"]}

AfterEnqueue(c) ==
  /\ c.kind = "enqueue"
  /\ \/ /\ c.answer = "ok"
        /\ Monitor(c.got, c.button, page, calls \ {c})
     \/ /\ c.answer = "error"
        /\ page' = Finally(c.button, page)
        /\ Done(c)

AfterCreate(c) ==
  /\ c.kind = "create"
  /\ \/ /\ c.answer = "ok"
        /\ page' = Finally(c.button, ShowManifest(c.got, page))
        /\ calls' = (calls \ {c}) \cup ReviewCalls(c.got)
     \/ /\ c.answer = "error"
        /\ page' = Finally(c.button, page)
        /\ Done(c)
 

(* An error is shown even by a monitor that is no longer the current one.  *)
MonitorFails(c) ==
  /\ c.kind \in {"poll", "manifest"} /\ c.answer \in {"error", "missing"}
  /\ page' = Finally(c.button, ConnectionError(c.answer, page))
  /\ Done(c)

(* Planted fault: the versions are not compared after the await.           *)
BugCurrent(c) == TRUE

Current(c) == c.live

MonitorStale(c) ==
  /\ c.kind \in {"poll", "manifest"} /\ c.answer \notin {"none", "error", "missing"}
  /\ ~Current(c)
  /\ page' = Finally(c.button, page)
  /\ Done(c)

BugNoResult == {"failed"}   \* planted fault: cancelled jobs are polled on

(* Statuses at which a monitor stops without a manifest                    *)
NoResult == {"failed", "cancelled"}

AfterPoll(c) ==
  /\ c.kind = "poll" /\ Current(c)
  /\ \/ /\ c.answer \notin {"none", "error", "missing", "completed"} \cup NoResult
        /\ Continue(c, "pause") /\ UNCHANGED page
     \/ /\ c.answer = "completed"
        /\ Continue(c, "manifest") /\ UNCHANGED page
     \/ /\ c.answer \in NoResult
        /\ page' = Finally(c.button, Track(None, page))
        /\ Done(c)

AfterManifest(c) ==
  /\ c.kind = "manifest" /\ c.answer = "ok" /\ Current(c)
  /\ page' = Finally(c.button, Track(None, ShowManifest(c.on, page)))
  /\ calls' = (calls \ {c}) \cup ReviewCalls(c.on)

(* 600 ms later: the condition of the loop                                 *)
AfterPause(c) ==
  /\ c.kind = "pause"
  /\ IF page.tracked = c.on /\ c.live
     THEN Continue(c, "poll") /\ UNCHANGED page
     ELSE Done(c) /\ page' = Finally(c.button, page)
 

AfterCancel(c) ==
  /\ c.kind = "cancel" /\ c.answer # "none"
  /\ page' = Finally("cancel",
       CASE c.answer \in {"error", "missing"} -> ConnectionError(c.answer, page)
         [] c.answer = "cancelled" -> Track(None, page)
         [] OTHER                  -> page)
  /\ Done(c)

AfterAnalysis(c) ==
  /\ c.kind = "analysis" /\ c.answer # "none"
  /\ \/ ~Current(c) /\ UNCHANGED page
     \/ /\ Current(c) /\ c.answer = "ok"
        /\ \E convertible \in BOOLEAN :
             page' = [page EXCEPT !.analysis = c.on,
                        !.off = (@ \ {"analyze", "tree"}) \cup
                                  (IF convertible THEN {} ELSE {"tree"})]
     \/ Current(c) /\ c.answer = "error" /\ page' = ClearTree(page)
  /\ Done(c)

AfterOpen(c) ==
  /\ c.kind = "open" /\ c.answer # "none"
  /\ IF c.answer = "ok"
     THEN /\ page' = ShowManifest(c.on, page)
          /\ calls' = (calls \ {c}) \cup ReviewCalls(c.on)
     ELSE Done(c) /\ UNCHANGED page
 

(* The review is shown whatever manifest the page shows by now.            *)
AfterReview(c) ==
  /\ c.kind \in {"review", "transition"} /\ c.answer # "none"
  /\ page' = IF c.answer = "ok"
             THEN [page EXCEPT !.review = [job |-> c.on, version |-> c.number]]
             ELSE page
  /\ Done(c)

Deliver(c) ==
  /\ c \in calls
  /\ Quiet
  /\ \/ AfterEnqueue(c) \/ AfterCreate(c)
     \/ MonitorFails(c) \/ MonitorStale(c)
     \/ AfterPoll(c) \/ AfterManifest(c) \/ AfterPause(c)
     \/ AfterCancel(c) \/ AfterAnalysis(c) \/ AfterOpen(c) \/ AfterReview(c)

----------------------------------------------------------------------------
User ==
  \/ \E b \in Submit : ClickSubmit(b)
  \/ ClickManufacturing \/ ClickCancel \/ ClickResume
  \/ \E f \in Files : ChooseFile(f)
  \/ ClickAnalyze \/ ClickTree
  \/ \E j \in Jobs : ClickJob(j)
  \/ ClickReview \/ Reload

Next ==
  \/ User
  \/ \E c \in calls : Serve(c) \/ Fails(c) \/ AnswerLost(c) \/ Deliver(c)
  \/ \E j \in Jobs : WorkerStep(j) \/ JobFails(j)

Spec == Init /\ [][Next]_vars

(* The server handles what it gets, answers arrive, and workers work.      *)
Answered == \E c \in calls : Serve(c) \/ Deliver(c)

FairSpec ==
  /\ Spec
  /\ WF_vars(Answered)
  /\ \A j \in Jobs : WF_vars(WorkerStep(j))

----------------------------------------------------------------------------
(* Properties                                                              *)

(* The variables have their types.                                         *)
TypeOK ==
  /\ server \in [Jobs -> InProgress \cup Ended \cup {"absent", "missing"}]
  /\ version \in [Jobs -> 0 .. 2]
  /\ page \in [tracked: Jobs \cup {None}, resume: BOOLEAN,
               off: SUBSET (Submit \cup {"cancel", "analyze", "tree", "none"}),
               shown: Jobs \cup {None},
               review: [job: Jobs \cup {None}, version: 0 .. 2],
               chosen: Files \cup {None}, analysis: Files \cup {None}]
  /\ clicks \in 0 .. MaxClicks

(* A tracked job is never abandoned silently: its current monitor awaits   *)
(* something, or the user is offered to resume.                            *)
NeverOrphaned ==
  page.tracked # None =>
    \/ page.resume
    \/ \E c \in calls : c.kind \in Monitoring /\ c.live /\ c.on = page.tracked

(* While a job is tracked no other one can be submitted, although late     *)
(* answers and superseded monitors enable buttons in their finally clauses. *)
SubmitBlocked == page.tracked # None => Submit \subseteq page.off

(* A job that is tracked is attended to, and is the only one.              *)
TrackedJobAttended == NeverOrphaned /\ SubmitBlocked

(* The feature tree on display is that of the file in the input, even when *)
(* the user chose another file while the answer was on its way.            *)
AnalysisIsOfChosenFile == page.analysis # None => page.analysis = page.chosen

(* The answer to c ends the tracking of q although it is about another     *)
(* job: a late answer to a cancel, or the 404 of a superseded monitor,     *)
(* which is thrown before the versions are compared.                       *)
Misled(c, q) ==
  /\ c.on # q
  /\ \/ c.kind = "cancel" /\ c.answer \in {"cancelled", "missing"}
     \/ c.kind \in {"poll", "manifest"} /\ c.answer = "missing" /\ ~c.live

(* The page stops tracking a job only when that job has ended or is not    *)
(* known to the server, whatever crosses its monitors; but for two answers *)
(* about another job that arrive late and mislead it.                      *)
TrackingEndsForAReason ==
  [][(page.tracked # None /\ page'.tracked = None) =>
       \/ server[page.tracked] \in Ended \cup {"missing"}
       \/ \E c \in calls \ calls' : Misled(c, page.tracked)]_page

(* The page keeps the id of a job in progress, and goes on polling it: it  *)
(* drops a job only when that has ended or is not known to the server.     *)
JobStaysTracked ==
  [][(page.tracked # None /\ page'.tracked = None) =>
       server[page.tracked] \in Ended \cup {"missing"}]_page

(* Tracking of a job ends, or the user is offered to resume, if the server *)
(* answers and the workers work.                                           *)
TrackedJobEnds ==
  \A q \in Jobs : page.tracked = q ~> (page.tracked # q \/ page.resume)

=============================================================================
