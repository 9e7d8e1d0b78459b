--------------------------- MODULE WebPageProofs ---------------------------
(***************************************************************************)
(* Proofs about the page, for any jobs and files, any number of clicks and *)
(* of calls in flight, and every order of answers.                         *)
(*                                                                         *)
(* The argument: what an await brings is judged by what it was for.  A     *)
(* monitor that is still current follows the job that is tracked, or none  *)
(* is any more; an analysis that is still current is of the file in the    *)
(* input; and a status that ends a job stays true while its answer is on   *)
(* its way.  Where an answer does something to another job than the one it *)
(* is about, the properties say so (Misled).                               *)
(***************************************************************************)
EXTENDS WebPage, TLAPS

Statuses == InProgress \cup Ended \cup {"absent", "missing"}

Buttons == Submit \cup {"cancel", "analyze", "tree", "none"}

Kinds == {"enqueue", "create", "cancel", "poll", "manifest", "pause", "open",
          "analysis", "review", "transition"}

Reviews == [job: Jobs \cup {None}, version: 0 .. 2]

Pages ==
  [tracked: Jobs \cup {None}, resume: BOOLEAN, off: SUBSET Buttons,
   shown: Jobs \cup {None}, review: Reviews,
   chosen: Files \cup {None}, analysis: Files \cup {None}]

Calls ==
  [kind: Kinds, on: Jobs \cup Files \cup {None}, button: Buttons,
   live: BOOLEAN, expect: 0 .. 2, answer: Statuses \cup {"none", "ok", "error"},
   got: Jobs \cup {None}, number: 0 .. 2]

(* What holds of a page by itself.                                         *)
PageOK(p) ==
  /\ p \in Pages
  /\ p.tracked # None => Submit \subseteq p.off
  /\ p.analysis # None => p.analysis = p.chosen

(* What holds of a call by itself: what it is on, and what it brought.     *)
CallOK(c) ==
  /\ c \in Calls
  /\ c.kind \in {"cancel", "poll", "manifest", "pause", "open", "review",
                 "transition"} => c.on \in Jobs
  /\ c.kind = "analysis" => c.on \in Files
  /\ c.kind = "transition" => c.expect < 2
  /\ c.kind \in {"enqueue", "create"} /\ c.answer = "ok" => c.got \in Jobs

(* What a job, or a job the server does not know, stays for ever.          *)
Lasting == Ended \cup {"missing"}

(* What an answer tells of a job that does not change any more is true.    *)
Truthful(c) ==
  /\ c.kind = "manifest" => server[c.on] \in Ended
  /\ c.kind \in {"poll", "cancel"} /\ c.answer \in Lasting =>
       server[c.on] = c.answer

Attends(c) == c.kind \in Monitoring /\ c.live

(* What is current is about what the page is about.                        *)
Following(c) ==
  /\ Attends(c) => page.tracked \in {c.on, None}
  /\ c.kind = "analysis" /\ c.live => c.on = page.chosen

PageInv ==
  /\ server \in [Jobs -> Statuses] /\ version \in [Jobs -> 0 .. 2]
  /\ clicks \in 0 .. MaxClicks
  /\ PageOK(page)
  /\ \A c \in calls : CallOK(c) /\ Truthful(c) /\ Following(c)
  /\ NeverOrphaned

----------------------------------------------------------------------------
(* What the functions of the page do                                       *)

LEMMA NoneIsNothing == None \notin Jobs /\ None \notin Files /\ Drawn \subseteq Jobs
  BY WebAssumption

LEMMA TrackOK ==
  ASSUME NEW p, PageOK(p), NEW q \in Jobs \cup {None}
  PROVE  /\ PageOK(Track(q, p))
         /\ Track(q, p).tracked = q /\ Track(q, p).chosen = p.chosen
  BY DEF PageOK, Pages, Track, Buttons

LEMMA ClearTreeOK ==
  ASSUME NEW p, PageOK(p)
  PROVE  /\ PageOK(ClearTree(p))
         /\ ClearTree(p).tracked = p.tracked /\ ClearTree(p).chosen = p.chosen
         /\ ClearTree(p).resume = p.resume /\ ClearTree(p).analysis = None
  BY DEF PageOK, Pages, ClearTree, Buttons, Submit

LEMMA ShowManifestOK ==
  ASSUME NEW p, PageOK(p), NEW j \in Jobs
  PROVE  /\ PageOK(ShowManifest(j, p))
         /\ ShowManifest(j, p).tracked = p.tracked
         /\ ShowManifest(j, p).chosen = p.chosen
         /\ ShowManifest(j, p).resume = p.resume
  <1>1. (IF j \in Drawn THEN p.review ELSE NoReview) \in Reviews
    BY DEF PageOK, Pages, NoReview, Reviews
  <1>. QED
    BY <1>1 DEF PageOK, Pages, ShowManifest, Buttons

LEMMA ConnectionErrorOK ==
  ASSUME NEW p, PageOK(p), NEW answer
  PROVE  /\ PageOK(ConnectionError(answer, p))
         /\ ConnectionError(answer, p).chosen = p.chosen
         /\ \/ answer = "missing" /\ ConnectionError(answer, p).tracked = None
            \/ /\ ConnectionError(answer, p).tracked = p.tracked
               /\ ConnectionError(answer, p).resume = TRUE
  <1>1. CASE answer = "missing"
    BY <1>1, TrackOK DEF ConnectionError
  <1>2. CASE answer # "missing"
    BY <1>2 DEF ConnectionError, PageOK, Pages
  <1>. QED
    BY <1>1, <1>2

LEMMA FinallyOK ==
  ASSUME NEW p, PageOK(p), NEW button
  PROVE  /\ PageOK(Finally(button, p))
         /\ Finally(button, p).tracked = p.tracked
         /\ Finally(button, p).chosen = p.chosen
         /\ Finally(button, p).resume = p.resume
  BY DEF PageOK, Pages, Finally

LEMMA LoadedOK ==
  ASSUME NEW q \in Jobs \cup {None}
  PROVE  /\ Loaded(q) \in Pages
         /\ Loaded(q).tracked = q /\ Loaded(q).off = {"tree"}
         /\ Loaded(q).chosen = None /\ Loaded(q).analysis = None
         /\ Loaded(q).resume = FALSE
  BY DEF Loaded, Pages, Reviews, NoReview, Buttons

(* A call as it is made.                                                   *)
Proper(kind, on) ==
  \/ kind \in {"enqueue", "create"} /\ on = None
  \/ kind \in {"cancel", "poll", "open", "review"} /\ on \in Jobs
  \/ kind = "analysis" /\ on \in Files

LEMMA NewCall ==
  ASSUME NEW kind, NEW on, NEW button, NEW c,
         c = Call(kind, on, button), button \in Buttons, Proper(kind, on)
  PROVE  CallOK(c) /\ Truthful(c)
  <1>1. /\ c.kind = kind /\ c.on = on /\ c.button = button /\ c.live = TRUE
        /\ c.answer = "none" /\ c.expect = 0
    BY DEF Call
  <1>2. kind \in Kinds /\ on \in Jobs \cup Files \cup {None}
    BY DEF Kinds, Proper
  <1>3. c \in Calls
    BY <1>2 DEF Call, Calls
  <1>4. CallOK(c)
    BY <1>1, <1>3 DEF CallOK, Proper
  <1>5. Truthful(c)
    BY <1>1 DEF Truthful, Lasting, Ended, Proper
  <1>. QED
    BY <1>4, <1>5

(* A current answer, or one that no longer counts.                         *)
LEMMA OutdatedOK ==
  ASSUME NEW kinds, NEW others, \A c \in others : CallOK(c) /\ Truthful(c)
  PROVE  \A d \in Outdated(kinds, others) :
           /\ CallOK(d) /\ Truthful(d)
           /\ d.live => d \in others /\ d.kind \notin kinds
  <1>. SUFFICES ASSUME NEW c \in others,
                       NEW d, d = IF c.kind \in kinds
                                  THEN [c EXCEPT !.live = FALSE] ELSE c
                PROVE  /\ CallOK(d) /\ Truthful(d)
                       /\ d.live => d \in others /\ d.kind \notin kinds
    BY DEF Outdated
  <1>1. CASE c.kind \notin kinds
    BY <1>1
  <1>2. CASE c.kind \in kinds
    <2>1. /\ d \in Calls /\ d.live = FALSE
          /\ d.kind = c.kind /\ d.on = c.on /\ d.expect = c.expect
          /\ d.answer = c.answer /\ d.got = c.got
      BY <1>2 DEF CallOK, Calls
    <2>. QED
      BY <2>1 DEF CallOK, Truthful
  <1>. QED
    BY <1>1, <1>2

----------------------------------------------------------------------------
(* Steps                                                                   *)

(* A step of the page, by a click or an answer: calls come and go, and the *)
(* job that is tracked is still attended to.                               *)
LEMMA PageStep ==
  ASSUME PageInv, UNCHANGED <<server, version>>, clicks' \in 0 .. MaxClicks,
         PageOK(page'),
         \A d \in calls' : CallOK(d) /\ Truthful(d) /\ Following(d)',
         \/ page'.tracked = None
         \/ page'.resume
         \/ \E d \in calls' : Attends(d) /\ d.on = page'.tracked
  PROVE  PageInv'
  <1>1. \A d \in calls' : Truthful(d)'
    BY DEF Truthful
  <1>2. NeverOrphaned'
    BY DEF NeverOrphaned, Attends
  <1>. QED
    BY <1>1, <1>2 DEF PageInv, PageOK

(* An answer to c is used: the page is about the same job and file as      *)
(* before, or about no job, and new calls may follow.                      *)
LEMMA AnswerUsed ==
  ASSUME PageInv, UNCHANGED <<server, version, clicks>>, NEW c \in calls, NEW N,
         calls' \subseteq (calls \ {c}) \cup N,
         calls \ {c} \subseteq calls', N \subseteq calls',
         PageOK(page'), page'.chosen = page.chosen,
         page'.tracked \in {page.tracked, None},
         \A d \in N : CallOK(d) /\ Truthful(d) /\ Following(d)',
         \/ page'.tracked = None \/ page'.resume
         \/ \E d \in N : Attends(d) /\ d.on = page'.tracked
         \/ page'.resume = page.resume
            /\ ~(Attends(c) /\ c.on = page.tracked)
  PROVE  PageInv'
  <1>1. \A d \in calls : CallOK(d) /\ Truthful(d) /\ Following(d)
    BY DEF PageInv
  <1>2. ASSUME NEW d \in calls' PROVE CallOK(d) /\ Truthful(d) /\ Following(d)'
    <2>1. CASE d \in N
      BY <2>1
    <2>2. CASE d \notin N
      <3>1. CallOK(d) /\ Truthful(d) /\ Following(d)
        BY <1>1, <1>2, <2>2
      <3>. QED
        BY <3>1 DEF Following
    <2>. QED
      BY <2>1, <2>2
  <1>3. \/ page'.tracked = None
        \/ page'.resume
        \/ \E d \in calls' : Attends(d) /\ d.on = page'.tracked
    <2>. SUFFICES ASSUME page'.tracked # None,
                         page'.resume = page.resume, ~page.resume,
                         ~(Attends(c) /\ c.on = page.tracked)
                  PROVE  \E d \in calls' : Attends(d) /\ d.on = page'.tracked
      OBVIOUS
    <2>1. page'.tracked = page.tracked
      OBVIOUS
    <2>2. PICK d \in calls : Attends(d) /\ d.on = page.tracked
      BY <2>1 DEF PageInv, NeverOrphaned, Attends
    <2>3. d \in calls'
      BY <2>2
    <2>. QED
      BY <2>1, <2>2, <2>3
  <1>4. clicks' \in 0 .. MaxClicks
    BY DEF PageInv
  <1>. QED
    BY <1>2, <1>3, <1>4, PageStep

(* monitorQueue: what was monitored before is not any more.                *)
LEMMA MonitorInv ==
  ASSUME PageInv, UNCHANGED <<server, version>>, clicks' \in 0 .. MaxClicks,
         NEW q \in Jobs, NEW button \in Buttons, NEW p, PageOK(p),
         NEW others, others \subseteq calls,
         p.chosen = page.chosen \/ others = {},
         Monitor(q, button, p, others)
  PROVE  PageInv'
  <1>. DEFINE poll == Call("poll", q, button)
  <1>1. /\ page' = [Track(q, p) EXCEPT !.resume = FALSE]
        /\ calls' = Outdated(Monitoring, others) \cup {poll}
    BY DEF Monitor
  <1>2. PageOK(page') /\ page'.tracked = q /\ page'.chosen = p.chosen
    <2>1. PageOK(Track(q, p)) /\ Track(q, p).tracked = q
          /\ Track(q, p).chosen = p.chosen
      BY TrackOK
    <2>. DEFINE t == Track(q, p)
    <2>. HIDE DEF t
    <2>2. PageOK(t) /\ t.tracked = q /\ t.chosen = p.chosen
      BY <2>1 DEF t
    <2>3. page' = [t EXCEPT !.resume = FALSE]
      BY <1>1 DEF t
    <2>. QED
      BY <2>2, <2>3 DEF PageOK, Pages
  <1>3. /\ CallOK(poll) /\ Truthful(poll) /\ poll.kind = "poll"
        /\ poll.on = q /\ poll.live = TRUE
    <2>1. Proper("poll", q)
      BY DEF Proper
    <2>2. CallOK(poll) /\ Truthful(poll)
      BY <2>1, NewCall
    <2>. QED
      BY <2>2 DEF Call
  <1>. HIDE DEF poll
  <1>4. Following(poll)' /\ Attends(poll)
    BY <1>2, <1>3 DEF Following, Attends, Monitoring
  <1>5. ASSUME NEW d \in Outdated(Monitoring, others)
        PROVE  CallOK(d) /\ Truthful(d) /\ Following(d)'
    <2>0. \A c \in others : CallOK(c) /\ Truthful(c) /\ Following(c)
      BY DEF PageInv
    <2>1. /\ CallOK(d) /\ Truthful(d)
          /\ d.live => d \in others /\ d.kind \notin Monitoring
      BY <1>5, <2>0, OutdatedOK
    <2>2. Following(d)'
      BY <1>2, <2>0, <2>1 DEF Following, Attends
    <2>. QED
      BY <2>1, <2>2
  <1>. QED
    BY <1>1, <1>2, <1>3, <1>4, <1>5, PageStep

----------------------------------------------------------------------------
(* The user                                                                *)

LEMMA Clicked ==
  ASSUME PageInv, Click
  PROVE  clicks' \in 0 .. MaxClicks
  BY WebAssumption DEF PageInv, Click

(* A call that is neither a monitor's nor an analysis is sent.             *)
LEMMA SentInv ==
  ASSUME PageInv, UNCHANGED <<server, version>>, clicks' \in 0 .. MaxClicks,
         NEW c, calls' = calls \cup {c}, CallOK(c), Truthful(c),
         c.kind \notin Monitoring \cup {"analysis"},
         PageOK(page'), page'.tracked = page.tracked,
         page'.chosen = page.chosen, page'.resume = page.resume
  PROVE  PageInv'
  <1>1. \A d \in calls : CallOK(d) /\ Truthful(d) /\ Following(d)
    BY DEF PageInv
  <1>2. ASSUME NEW d \in calls'
        PROVE  CallOK(d) /\ Truthful(d) /\ Following(d)'
    BY <1>1, <1>2 DEF Following, Attends
  <1>3. page.tracked # None /\ ~page.resume =>
          \E d \in calls : Attends(d) /\ d.on = page.tracked
    BY DEF PageInv, NeverOrphaned, Attends
  <1>. QED
    BY <1>2, <1>3, PageStep

(* The file or its analysis is another one: pending analyses are outdated. *)
LEMMA ResetInv ==
  ASSUME PageInv, UNCHANGED <<server, version>>, clicks' \in 0 .. MaxClicks,
         NEW N, calls' = Outdated({"analysis"}, calls) \cup N,
         \A d \in N : CallOK(d) /\ Truthful(d) /\ Following(d)',
         PageOK(page'), page'.tracked = page.tracked,
         page'.resume = page.resume
  PROVE  PageInv'
  <1>1. \A d \in calls : CallOK(d) /\ Truthful(d) /\ Following(d)
    BY DEF PageInv
  <1>2. ASSUME NEW d \in Outdated({"analysis"}, calls)
        PROVE  CallOK(d) /\ Truthful(d) /\ Following(d)'
    <2>1. /\ CallOK(d) /\ Truthful(d)
          /\ d.live => d \in calls /\ d.kind # "analysis"
      BY <1>1, <1>2, OutdatedOK
    <2>. QED
      BY <1>1, <2>1 DEF Following, Attends
  <1>3. page.tracked # None /\ ~page.resume =>
          \E d \in calls : Attends(d) /\ d.on = page.tracked
    BY DEF PageInv, NeverOrphaned, Attends
  <1>4. \A d \in calls : Attends(d) => d \in calls'
    BY DEF Outdated, Attends, Monitoring
  <1>. QED
    BY <1>2, <1>3, <1>4, PageStep

LEMMA DisabledOK ==
  ASSUME PageInv, NEW button \in Buttons,
         page' = [page EXCEPT !.off = @ \cup {button}]
  PROVE  /\ PageOK(page') /\ page'.tracked = page.tracked
         /\ page'.chosen = page.chosen /\ page'.resume = page.resume
  BY DEF PageInv, PageOK, Pages

LEMMA ClickSubmitInv ==
  ASSUME PageInv, NEW button \in Submit, ClickSubmit(button)
  PROVE  PageInv'
  <1>0. PICK kind \in {"enqueue", "create"} :
          calls' = calls \cup {Call(kind, None, button)}
    BY DEF ClickSubmit, Send
  <1>1. PICK c : c = Call(kind, None, button) /\ calls' = calls \cup {c}
    BY <1>0
  <1>2. button \in Buttons /\ Proper(kind, None)
    BY DEF Buttons, Proper
  <1>3. CallOK(c) /\ Truthful(c) /\ c.kind = kind
    <2>1. CallOK(c) /\ Truthful(c)
      BY <1>1, <1>2, NewCall
    <2>. QED
      BY <1>1, <2>1 DEF Call
  <1>4. /\ clicks' \in 0 .. MaxClicks /\ UNCHANGED <<server, version>>
        /\ page' = [page EXCEPT !.off = @ \cup {button}]
    BY Clicked DEF ClickSubmit
  <1>. QED
    BY <1>1, <1>2, <1>3, <1>4, DisabledOK, SentInv DEF Monitoring

LEMMA ClickManufacturingInv ==
  ASSUME PageInv, ClickManufacturing
  PROVE  PageInv'
  <1>1. PICK c : c = Call("create", None, "none") /\ calls' = calls \cup {c}
    BY DEF ClickManufacturing, Send
  <1>2. "none" \in Buttons /\ Proper("create", None)
    BY DEF Buttons, Proper
  <1>3. CallOK(c) /\ Truthful(c) /\ c.kind = "create"
    <2>1. CallOK(c) /\ Truthful(c)
      BY <1>1, <1>2, NewCall
    <2>. QED
      BY <1>1, <2>1 DEF Call
  <1>4. /\ UNCHANGED <<server, version, page>> /\ PageOK(page')
        /\ clicks' \in 0 .. MaxClicks
    BY Clicked DEF ClickManufacturing, PageInv
  <1>. QED
    BY <1>1, <1>3, <1>4, SentInv DEF Monitoring

LEMMA ClickCancelInv ==
  ASSUME PageInv, ClickCancel
  PROVE  PageInv'
  <1>0. PICK on \in Jobs : calls' = calls \cup {Call("cancel", on, "cancel")}
    BY DEF PageInv, PageOK, Pages, ClickCancel, Send
  <1>1. PICK c : c = Call("cancel", on, "cancel") /\ calls' = calls \cup {c}
    BY <1>0
  <1>2. "cancel" \in Buttons /\ Proper("cancel", on)
    BY DEF Buttons, Proper
  <1>3. CallOK(c) /\ Truthful(c) /\ c.kind = "cancel"
    <2>1. CallOK(c) /\ Truthful(c)
      BY <1>1, <1>2, NewCall
    <2>. QED
      BY <1>1, <2>1 DEF Call
  <1>4. /\ UNCHANGED <<server, version>> /\ clicks' \in 0 .. MaxClicks
        /\ page' = [page EXCEPT !.off = @ \cup {"cancel"}]
    BY Clicked DEF ClickCancel
  <1>. QED
    BY <1>1, <1>2, <1>3, <1>4, DisabledOK, SentInv DEF Monitoring

LEMMA ClickResumeInv ==
  ASSUME PageInv, ClickResume
  PROVE  PageInv'
  <1>1. /\ page.tracked \in Jobs /\ "none" \in Buttons /\ PageOK(page)
        /\ Monitor(page.tracked, "none", page, calls)
        /\ UNCHANGED <<server, version>> /\ clicks' \in 0 .. MaxClicks
    BY Clicked DEF PageInv, PageOK, Pages, ClickResume, Buttons
  <1>. QED
    BY <1>1, MonitorInv

LEMMA ChooseFileInv ==
  ASSUME PageInv, NEW f \in Files, ChooseFile(f)
  PROVE  PageInv'
  <1>. DEFINE t == ClearTree(page)
  <1>1. /\ PageOK(t) /\ t.tracked = page.tracked /\ t.resume = page.resume
        /\ t.analysis = None
    BY ClearTreeOK DEF PageInv
  <1>2. page' = [t EXCEPT !.chosen = f]
    BY DEF ChooseFile
  <1>. HIDE DEF t
  <1>3. /\ PageOK(page') /\ page'.tracked = page.tracked
        /\ page'.resume = page.resume
    BY <1>1, <1>2 DEF PageOK, Pages
  <1>4. /\ UNCHANGED <<server, version>> /\ clicks' \in 0 .. MaxClicks
        /\ calls' = Outdated({"analysis"}, calls)
    BY Clicked DEF ChooseFile
  <1>5. PICK N : N = {}
    OBVIOUS
  <1>6. /\ calls' = Outdated({"analysis"}, calls) \cup N
        /\ \A d \in N : CallOK(d) /\ Truthful(d) /\ Following(d)'
    BY <1>4, <1>5
  <1>. QED
    BY <1>3, <1>4, <1>6, ResetInv

LEMMA ClickAnalyzeInv ==
  ASSUME PageInv, ClickAnalyze
  PROVE  PageInv'
  <1>. DEFINE t == ClearTree(page)
  <1>0. PICK on \in Files : on = page.chosen
    BY DEF PageInv, PageOK, Pages, ClickAnalyze
  <1>1. /\ PageOK(t) /\ t.tracked = page.tracked /\ t.resume = page.resume
        /\ t.chosen = page.chosen
    BY ClearTreeOK DEF PageInv
  <1>2. PICK c : /\ c = Call("analysis", on, "analyze")
                 /\ calls' = Outdated({"analysis"}, calls) \cup {c}
    BY <1>0 DEF ClickAnalyze
  <1>3. CallOK(c) /\ Truthful(c) /\ c.kind = "analysis" /\ c.on = on
    <2>1. "analyze" \in Buttons /\ Proper("analysis", on)
      BY DEF Buttons, Proper
    <2>2. CallOK(c) /\ Truthful(c)
      BY <1>2, <2>1, NewCall
    <2>. QED
      BY <1>2, <2>2 DEF Call
  <1>4. /\ page' = [t EXCEPT !.off = @ \cup {"analyze"}]
        /\ UNCHANGED <<server, version>> /\ clicks' \in 0 .. MaxClicks
    BY Clicked DEF ClickAnalyze
  <1>. HIDE DEF t
  <1>5. /\ PageOK(page') /\ page'.tracked = page.tracked
        /\ page'.resume = page.resume /\ page'.chosen = page.chosen
    BY <1>1, <1>4 DEF PageOK, Pages, Buttons
  <1>6. Following(c)'
    BY <1>0, <1>3, <1>5 DEF Following, Attends, Monitoring
  <1>7. PICK N : N = {c}
    OBVIOUS
  <1>8. /\ calls' = Outdated({"analysis"}, calls) \cup N
        /\ \A d \in N : CallOK(d) /\ Truthful(d) /\ Following(d)'
    BY <1>2, <1>3, <1>6, <1>7
  <1>. QED
    BY <1>4, <1>5, <1>8, ResetInv

LEMMA ClickTreeInv ==
  ASSUME PageInv, ClickTree
  PROVE  PageInv'
  <1>1. PICK c : c = Call("create", None, "tree") /\ calls' = calls \cup {c}
    BY DEF ClickTree, Send
  <1>2. "tree" \in Buttons /\ Proper("create", None)
    BY DEF Buttons, Proper
  <1>3. CallOK(c) /\ Truthful(c) /\ c.kind = "create"
    <2>1. CallOK(c) /\ Truthful(c)
      BY <1>1, <1>2, NewCall
    <2>. QED
      BY <1>1, <2>1 DEF Call
  <1>4. /\ UNCHANGED <<server, version>> /\ clicks' \in 0 .. MaxClicks
        /\ page' = [page EXCEPT !.off = @ \cup {"tree"}]
    BY Clicked DEF ClickTree
  <1>. QED
    BY <1>1, <1>2, <1>3, <1>4, DisabledOK, SentInv DEF Monitoring

LEMMA ClickJobInv ==
  ASSUME PageInv, NEW j \in Jobs, ClickJob(j)
  PROVE  PageInv'
  <1>1. PICK c : c = Call("open", j, "none") /\ calls' = calls \cup {c}
    BY DEF ClickJob, Send
  <1>2. "none" \in Buttons /\ Proper("open", j)
    BY DEF Buttons, Proper
  <1>3. CallOK(c) /\ Truthful(c) /\ c.kind = "open"
    <2>1. CallOK(c) /\ Truthful(c)
      BY <1>1, <1>2, NewCall
    <2>. QED
      BY <1>1, <2>1 DEF Call
  <1>4. /\ UNCHANGED <<server, version, page>> /\ PageOK(page')
        /\ clicks' \in 0 .. MaxClicks
    BY Clicked DEF ClickJob, PageInv
  <1>. QED
    BY <1>1, <1>3, <1>4, SentInv DEF Monitoring

LEMMA ClickReviewInv ==
  ASSUME PageInv, ClickReview
  PROVE  PageInv'
  <1>0. PICK on \in Jobs, n \in 0 .. 2 :
          /\ n < 2
          /\ calls' = calls \cup
                        {[Call("transition", on, "none") EXCEPT !.expect = n]}
    BY DEF PageInv, PageOK, Pages, Reviews, ClickReview, Send
  <1>1. PICK c : /\ n < 2
                 /\ c = [Call("transition", on, "none") EXCEPT !.expect = n]
                 /\ calls' = calls \cup {c}
    BY <1>0
  <1>2. /\ c.kind = "transition" /\ c.on = on /\ c.expect = n
        /\ c.answer = "none"
    BY <1>1 DEF Call
  <1>3. c \in Calls
    <2>1. c = [kind |-> "transition", on |-> on, button |-> "none",
               live |-> TRUE, expect |-> n, answer |-> "none", got |-> None,
               number |-> 0]
      BY <1>1 DEF Call
    <2>2. "transition" \in Kinds /\ "none" \in Buttons
      BY DEF Kinds, Buttons
    <2>. QED
      BY <2>1, <2>2 DEF Calls
  <1>4. CallOK(c) /\ Truthful(c)
    BY <1>1, <1>2, <1>3 DEF CallOK, Truthful
  <1>5. /\ UNCHANGED <<server, version, page>> /\ PageOK(page')
        /\ clicks' \in 0 .. MaxClicks
    BY Clicked DEF ClickReview, PageInv
  <1>. QED
    BY <1>1, <1>2, <1>4, <1>5, SentInv DEF Monitoring

LEMMA ReloadInv ==
  ASSUME PageInv, Reload
  PROVE  PageInv'
  <1>0. UNCHANGED <<server, version>> /\ clicks' \in 0 .. MaxClicks
    BY Clicked DEF Reload
  <1>1. CASE page.tracked = None /\ page' = Loaded(None) /\ calls' = {}
    <2>1. PageOK(page') /\ page'.tracked = None
      BY <1>1, LoadedOK DEF PageOK
    <2>. QED
      BY <1>0, <1>1, <2>1, PageStep
  <1>2. CASE page.tracked # None
             /\ Monitor(page.tracked, "none", Loaded(page.tracked), {})
    <2>1. page.tracked \in Jobs /\ "none" \in Buttons
      BY <1>2 DEF PageInv, PageOK, Pages, Buttons
    <2>. DEFINE q == page.tracked
                p == [Loaded(q) EXCEPT !.off = @ \cup Submit]
    <2>2. page' = [Track(q, p) EXCEPT !.resume = FALSE]
      <3>1. page' = [Track(q, Loaded(q)) EXCEPT !.resume = FALSE]
        BY <1>2 DEF Monitor
      <3>2. Track(q, Loaded(q)) = Track(q, p)
        BY <1>2 DEF Track, Loaded
      <3>. QED
        BY <3>1, <3>2
    <2>3. PageOK(p)
      <3>. DEFINE l == Loaded(q)
      <3>1. /\ l \in Pages /\ l.off = {"tree"} /\ l.analysis = None
        BY <2>1, LoadedOK
      <3>. HIDE DEF l
      <3>. QED
        BY <3>1 DEF PageOK, Pages, Buttons, l
    <2>4. Monitor(q, "none", p, {})
      BY <1>2, <2>2 DEF Monitor
    <2>. HIDE DEF p, q
    <2>5. q \in Jobs
      BY <2>1 DEF q
    <2>. QED
      BY <1>0, <2>1, <2>3, <2>4, <2>5, MonitorInv
  <1>. QED
    BY <1>1, <1>2 DEF Reload

----------------------------------------------------------------------------
(* The server                                                              *)

(* Nothing that ended goes on, and nothing unknown turns up.               *)
EndsStay == \A j \in Jobs : server[j] \in Lasting => server'[j] = server[j]

(* Whatever the server answers, and whatever becomes of the answer.        *)
LEMMA ServedInv ==
  ASSUME PageInv, NEW c \in calls, NEW d,
         CallOK(d), d.kind = c.kind, d.on = c.on, d.live = c.live,
         c.kind \in {"poll", "cancel"} /\ d.answer \in Lasting =>
           server'[c.on] = d.answer,
         calls' = (calls \ {c}) \cup {d}, UNCHANGED <<page, clicks>>,
         server' \in [Jobs -> Statuses], version' \in [Jobs -> 0 .. 2],
         EndsStay
  PROVE  PageInv'
  <1>1. \A e \in calls : CallOK(e) /\ Truthful(e) /\ Following(e)
    BY DEF PageInv
  <1>2. ASSUME NEW e \in calls' PROVE CallOK(e) /\ Truthful(e)' /\ Following(e)'
    <2>1. CASE e = d
      <3>1. Following(e)'
        BY <1>1, <2>1 DEF Following, Attends
      <3>2. c.kind = "manifest" => c.on \in Jobs /\ server[c.on] \in Ended
        BY <1>1 DEF CallOK, Truthful
      <3>3. Truthful(e)'
        BY <2>1, <3>2 DEF Truthful, EndsStay, Lasting
      <3>. QED
        BY <2>1, <3>1, <3>3
    <2>2. CASE e # d
      <3>1. CallOK(e) /\ Truthful(e) /\ Following(e)
        BY <1>1, <1>2, <2>2
      <3>2. e.kind \in {"manifest", "poll", "cancel"} => e.on \in Jobs
        BY <3>1 DEF CallOK
      <3>. QED
        BY <3>1, <3>2 DEF Following, Truthful, EndsStay, Lasting
    <2>. QED
      BY <2>1, <2>2
  <1>3. NeverOrphaned'
    <2>. SUFFICES ASSUME page.tracked # None, ~page.resume
                  PROVE  \E e \in calls' : Attends(e) /\ e.on = page.tracked
      BY DEF NeverOrphaned, Attends
    <2>1. PICK e \in calls : Attends(e) /\ e.on = page.tracked
      BY DEF PageInv, NeverOrphaned, Attends
    <2>2. CASE e = c
      BY <2>1, <2>2 DEF Attends
    <2>3. CASE e # c
      BY <2>1, <2>3
    <2>. QED
      BY <2>2, <2>3
  <1>. QED
    BY <1>2, <1>3 DEF PageInv, PageOK

(* An answer changes nothing but what it is.                               *)
LEMMA AnswerOK ==
  ASSUME NEW c, CallOK(c), NEW answer \in Statuses \cup {"none", "ok", "error"},
         NEW got \in Jobs \cup {None}, NEW number \in 0 .. 2, NEW d,
         d = [c EXCEPT !.answer = answer, !.got = got, !.number = number],
         c.kind \in {"enqueue", "create"} /\ answer = "ok" => got \in Jobs
  PROVE  CallOK(d)
  <1>1. /\ d.kind = c.kind /\ d.on = c.on /\ d.expect = c.expect
        /\ d.answer = answer /\ d.got = got /\ d \in Calls
    BY DEF CallOK, Calls
  <1>. QED
    BY <1>1 DEF CallOK

LEMMA ServeInv ==
  ASSUME PageInv, NEW c \in calls, Serve(c)
  PROVE  PageInv'
  <1>0. /\ CallOK(c) /\ Truthful(c) /\ UNCHANGED <<page, clicks>>
        /\ c \in Calls /\ c.got \in Jobs \cup {None} /\ c.number \in 0 .. 2
        /\ c.answer = "none"
        /\ server \in [Jobs -> Statuses] /\ version \in [Jobs -> 0 .. 2]
    BY DEF PageInv, Serve, CallOK, Calls
  <1>1. ASSUME NEW answer, NEW got, NEW number,
               answer \in Statuses \cup {"none", "ok", "error"},
               got \in Jobs \cup {None}, number \in 0 .. 2,
               c.kind \in {"enqueue", "create"} /\ answer = "ok" => got \in Jobs,
               c.kind \in {"poll", "cancel"} /\ answer \in Lasting =>
                 server'[c.on] = answer,
               Answer(c, [c EXCEPT !.answer = answer, !.got = got,
                                   !.number = number]),
               server' \in [Jobs -> Statuses], version' \in [Jobs -> 0 .. 2],
               EndsStay
        PROVE  PageInv'
    <2>1. PICK d : d = [c EXCEPT !.answer = answer, !.got = got,
                                 !.number = number]
      OBVIOUS
    <2>2. CallOK(d)
      BY <1>0, <1>1, <2>1, AnswerOK
    <2>3. /\ d.kind = c.kind /\ d.on = c.on /\ d.live = c.live
          /\ d.answer = answer
      BY <1>0, <2>1 DEF Calls
    <2>4. calls' = (calls \ {c}) \cup {d}
      BY <1>1, <2>1 DEF Answer
    <2>. QED
      BY <1>0, <1>1, <2>2, <2>3, <2>4, ServedInv
  <1>2. CASE /\ c.kind \in {"enqueue", "create"}
             /\ \E j \in Jobs :
                  /\ server[j] = "absent"
                  /\ server' = [server EXCEPT ![j] =
                                  IF c.kind = "enqueue" THEN "queued"
                                  ELSE "completed"]
                  /\ Answer(c, [c EXCEPT !.answer = "ok", !.got = j])
             /\ UNCHANGED version
    <2>1. PICK j \in Jobs :
            /\ server[j] = "absent"
            /\ \E s \in {"queued", "completed"} : server' = [server EXCEPT ![j] = s]
            /\ Answer(c, [c EXCEPT !.answer = "ok", !.got = j])
      BY <1>2
    <2>2. [c EXCEPT !.answer = "ok", !.got = j]
            = [c EXCEPT !.answer = "ok", !.got = j, !.number = c.number]
      BY <1>0 DEF Calls
    <2>3. server' \in [Jobs -> Statuses] /\ EndsStay
      BY <1>0, <2>1 DEF Statuses, InProgress, Ended, EndsStay, Lasting
    <2>4. Answer(c, [c EXCEPT !.answer = "ok", !.got = j, !.number = c.number])
      BY <2>1, <2>2
    <2>. QED
      BY <1>0, <1>1, <1>2, <2>3, <2>4
  <1>3. CASE /\ c.kind = "cancel"
             /\ server' = [server EXCEPT ![c.on] =
                             IF @ = "queued" THEN "cancelled" ELSE @]
             /\ Answer(c, [c EXCEPT !.answer = server'[c.on]])
             /\ UNCHANGED version
    <2>1. c.on \in Jobs
      BY <1>0, <1>3 DEF CallOK
    <2>2. /\ server' \in [Jobs -> Statuses] /\ EndsStay
          /\ server'[c.on] \in Statuses
      BY <1>0, <1>3, <2>1 DEF Statuses, Ended, EndsStay, Lasting
    <2>3. PICK answer \in Statuses :
            /\ answer = server'[c.on]
            /\ Answer(c, [c EXCEPT !.answer = answer])
      BY <1>3, <2>2
    <2>4. [c EXCEPT !.answer = answer]
            = [c EXCEPT !.answer = answer, !.got = c.got, !.number = c.number]
      BY <1>0 DEF Calls
    <2>5. Answer(c, [c EXCEPT !.answer = answer, !.got = c.got,
                              !.number = c.number])
      BY <2>3, <2>4
    <2>. QED
      BY <1>0, <1>1, <1>3, <2>2, <2>3, <2>5
  <1>4. CASE /\ c.kind = "poll"
             /\ Answer(c, [c EXCEPT !.answer = server[c.on]])
             /\ UNCHANGED <<server, version>>
    <2>1. c.on \in Jobs /\ server[c.on] \in Statuses /\ EndsStay
      BY <1>0, <1>4 DEF CallOK, EndsStay
    <2>2. [c EXCEPT !.answer = server[c.on]]
            = [c EXCEPT !.answer = server[c.on], !.got = c.got,
                        !.number = c.number]
      BY <1>0 DEF Calls
    <2>3. Answer(c, [c EXCEPT !.answer = server[c.on], !.got = c.got,
                              !.number = c.number])
      BY <1>4, <2>2
    <2>. QED
      BY <1>0, <1>1, <1>4, <2>1, <2>3
  <1>5. CASE /\ c.kind \in {"manifest", "open", "analysis"}
             /\ Answer(c, [c EXCEPT !.answer = "ok"])
             /\ UNCHANGED <<server, version>>
    <2>1. [c EXCEPT !.answer = "ok"]
            = [c EXCEPT !.answer = "ok", !.got = c.got, !.number = c.number]
      BY <1>0 DEF Calls
    <2>2. Answer(c, [c EXCEPT !.answer = "ok", !.got = c.got,
                              !.number = c.number])
      BY <1>5, <2>1
    <2>. QED
      BY <1>0, <1>1, <1>5, <2>2 DEF EndsStay
  <1>6. CASE /\ c.kind = "review"
             /\ Answer(c, [c EXCEPT !.answer = "ok", !.number = version[c.on]])
             /\ UNCHANGED <<server, version>>
    <2>1. c.on \in Jobs /\ version[c.on] \in 0 .. 2
      BY <1>0, <1>6 DEF CallOK
    <2>2. [c EXCEPT !.answer = "ok", !.number = version[c.on]]
            = [c EXCEPT !.answer = "ok", !.got = c.got,
                        !.number = version[c.on]]
      BY <1>0 DEF Calls
    <2>3. Answer(c, [c EXCEPT !.answer = "ok", !.got = c.got,
                              !.number = version[c.on]])
      BY <1>6, <2>2
    <2>. QED
      BY <1>0, <1>1, <1>6, <2>1, <2>3 DEF EndsStay
  <1>7. CASE /\ c.kind = "transition"
             /\ Transitionable(c)
             /\ version' = [version EXCEPT ![c.on] = @ + 1]
             /\ Answer(c, [c EXCEPT !.answer = "ok",
                                    !.number = version[c.on] + 1])
             /\ UNCHANGED server
    <2>1. /\ c.on \in Jobs /\ c.expect < 2 /\ c.expect = version[c.on]
          /\ c.expect \in 0 .. 2
      BY <1>0, <1>7 DEF CallOK, Calls, Transitionable
    <2>. DEFINE n == version[c.on] + 1
    <2>2. n \in 0 .. 2 /\ version' \in [Jobs -> 0 .. 2] /\ EndsStay
      BY <1>0, <1>7, <2>1 DEF EndsStay
    <2>3. [c EXCEPT !.answer = "ok", !.number = n]
            = [c EXCEPT !.answer = "ok", !.got = c.got, !.number = n]
      BY <1>0 DEF Calls
    <2>4. Answer(c, [c EXCEPT !.answer = "ok", !.got = c.got, !.number = n])
      BY <1>7, <2>3
    <2>. HIDE DEF n
    <2>. QED
      BY <1>0, <1>1, <1>7, <2>2, <2>4
  <1>. QED
    BY <1>2, <1>3, <1>4, <1>5, <1>6, <1>7 DEF Serve, Effect

LEMMA FailsInv ==
  ASSUME PageInv, NEW c \in calls, Fails(c)
  PROVE  PageInv'
  <1>0. CallOK(c) /\ c \in Calls
    BY DEF PageInv, CallOK
  <1>1. PICK got \in Jobs \cup {None}, number \in 0 .. 2 :
          got = c.got /\ number = c.number
    BY <1>0 DEF Calls
  <1>2. PICK d : d = [c EXCEPT !.answer = "error", !.got = got, !.number = number]
    OBVIOUS
  <1>3. CallOK(d)
    <2>1. /\ "error" \in Statuses \cup {"none", "ok", "error"}
          /\ "error" # "ok"
      OBVIOUS
    <2>2. d = [c EXCEPT !.answer = "error", !.got = got, !.number = number]
      BY <1>2
    <2>. QED
      BY <1>0, <2>1, <2>2, AnswerOK
  <1>4. /\ d = [c EXCEPT !.answer = "error"]
        /\ d.kind = c.kind /\ d.on = c.on /\ d.live = c.live
        /\ d.answer = "error"
    BY <1>0, <1>1, <1>2 DEF Calls
  <1>5. /\ calls' = (calls \ {c}) \cup {d}
        /\ UNCHANGED <<server, version, page, clicks>>
    BY <1>4 DEF Fails, Answer
  <1>6. /\ server' \in [Jobs -> Statuses] /\ version' \in [Jobs -> 0 .. 2]
        /\ EndsStay /\ "error" \notin Lasting
    BY <1>5 DEF PageInv, EndsStay, Ended, Lasting
  <1>. QED
    BY <1>3, <1>4, <1>5, <1>6, ServedInv

LEMMA AnswerLostInv ==
  ASSUME PageInv, NEW c \in calls, AnswerLost(c)
  PROVE  PageInv'
  <1>1. PICK d : d = [c EXCEPT !.answer = "error", !.got = None, !.number = 0]
    OBVIOUS
  <1>2. CallOK(c) /\ c \in Calls
    BY DEF PageInv, CallOK
  <1>3. CallOK(d)
    <2>1. /\ "error" \in Statuses \cup {"none", "ok", "error"}
          /\ None \in Jobs \cup {None} /\ 0 \in 0 .. 2 /\ "error" # "ok"
      OBVIOUS
    <2>. QED
      BY <1>1, <1>2, <2>1, AnswerOK
  <1>4. /\ d.kind = c.kind /\ d.on = c.on /\ d.live = c.live
        /\ d.answer = "error"
    BY <1>1, <1>2 DEF Calls
  <1>5. /\ calls' = (calls \ {c}) \cup {d}
        /\ UNCHANGED <<server, version, page, clicks>>
    BY <1>1 DEF AnswerLost, Answer
  <1>6. /\ server' \in [Jobs -> Statuses] /\ version' \in [Jobs -> 0 .. 2]
        /\ EndsStay /\ "error" \notin Lasting
    BY <1>5 DEF PageInv, EndsStay, Ended, Lasting
  <1>. QED
    BY <1>3, <1>4, <1>5, <1>6, ServedInv

(* A worker takes a job on, or ends one.                                   *)
LEMMA WorkInv ==
  ASSUME PageInv, NEW j \in Jobs, WorkerStep(j) \/ JobFails(j)
  PROVE  PageInv'
  <1>1. PICK s \in {"running", "completed", "failed", "cancelled"} :
          server' = [server EXCEPT ![j] = s]
    BY DEF WorkerStep, JobFails, PageInv
  <1>2. /\ server[j] \in InProgress /\ server \in [Jobs -> Statuses]
        /\ UNCHANGED <<version, page, calls, clicks>>
    BY DEF WorkerStep, JobFails, PageInv, InProgress
  <1>3. server' \in [Jobs -> Statuses] /\ EndsStay
    BY <1>1, <1>2 DEF Statuses, InProgress, Ended, EndsStay, Lasting
  <1>4. ASSUME NEW c \in calls PROVE CallOK(c) /\ Truthful(c)' /\ Following(c)'
    <2>1. CallOK(c) /\ Truthful(c) /\ Following(c)
      BY DEF PageInv
    <2>2. c.kind \in {"manifest", "poll", "cancel"} => c.on \in Jobs
      BY <2>1 DEF CallOK
    <2>. QED
      BY <1>2, <1>3, <2>1, <2>2 DEF Truthful, Following, EndsStay, Lasting
  <1>5. NeverOrphaned'
    BY <1>2 DEF PageInv, NeverOrphaned
  <1>. QED
    BY <1>2, <1>3, <1>4, <1>5 DEF PageInv, PageOK

----------------------------------------------------------------------------
(* The answers                                                             *)

(* What has to be shown of a page after an answer to c.                    *)
After(c) ==
  /\ PageOK(page') /\ page'.chosen = page.chosen
  /\ page'.tracked \in {page.tracked, None}
  /\ \/ page'.tracked = None
     \/ page'.resume
     \/ page'.resume = page.resume /\ ~(Attends(c) /\ c.on = page.tracked)

LEMMA DoneInv ==
  ASSUME PageInv, Quiet, NEW c \in calls, After(c), Done(c)
  PROVE  PageInv'
  <1>1. PICK N : N = {}
    OBVIOUS
  <1>2. /\ calls' \subseteq (calls \ {c}) \cup N
        /\ calls \ {c} \subseteq calls' /\ N \subseteq calls'
        /\ \A d \in N : CallOK(d) /\ Truthful(d) /\ Following(d)'
    BY <1>1 DEF Done
  <1>. QED
    BY <1>2, AnswerUsed DEF After, Quiet

LEMMA ReviewedInv ==
  ASSUME PageInv, Quiet, NEW c \in calls, NEW j \in Jobs, After(c),
         calls' = (calls \ {c}) \cup ReviewCalls(j)
  PROVE  PageInv'
  <1>1. PICK N : N = ReviewCalls(j)
    OBVIOUS
  <1>2. ASSUME NEW d \in N PROVE CallOK(d) /\ Truthful(d) /\ Following(d)'
    <2>1. d = Call("review", j, "none")
      BY <1>1, <1>2 DEF ReviewCalls
    <2>2. "none" \in Buttons /\ Proper("review", j)
      BY DEF Buttons, Proper
    <2>3. CallOK(d) /\ Truthful(d)
      BY <2>1, <2>2, NewCall
    <2>4. d.kind = "review"
      BY <2>1 DEF Call
    <2>. QED
      BY <2>3, <2>4 DEF Following, Attends, Monitoring
  <1>3. /\ calls' \subseteq (calls \ {c}) \cup N
        /\ calls \ {c} \subseteq calls' /\ N \subseteq calls'
    BY <1>1
  <1>. QED
    BY <1>2, <1>3, AnswerUsed DEF After, Quiet

(* A monitor goes on with its next await.                                  *)
LEMMA ContinueInv ==
  ASSUME PageInv, Quiet, NEW c \in calls, NEW kind \in Monitoring,
         Attends(c), Continue(c, kind), UNCHANGED page,
         kind = "manifest" => server[c.on] \in Ended
  PROVE  PageInv'
  <1>1. PICK d : d = [c EXCEPT !.kind = kind, !.answer = "none"]
    OBVIOUS
  <1>2. CallOK(c) /\ Following(c) /\ c \in Calls /\ PageOK(page)
    BY DEF PageInv, CallOK
  <1>3. /\ d.kind = kind /\ d.on = c.on /\ d.live = c.live
        /\ d.answer = "none" /\ d \in Calls
    BY <1>1, <1>2 DEF Calls, Monitoring, Kinds
  <1>4. CallOK(d) /\ Truthful(d)
    BY <1>2, <1>3 DEF CallOK, Truthful, Monitoring, Attends, Ended, Lasting
  <1>5. Attends(d) /\ Following(d)'
    BY <1>2, <1>3 DEF Following, Attends, Monitoring
  <1>6. PICK N : N = {d}
    OBVIOUS
  <1>7. /\ calls' = (calls \ {c}) \cup N
        /\ \A e \in N : CallOK(e) /\ Truthful(e) /\ Following(e)'
    BY <1>1, <1>4, <1>5, <1>6 DEF Continue
  <1>8. \/ \E e \in N : Attends(e) /\ e.on = page'.tracked
        \/ page'.resume = page.resume
           /\ ~(Attends(c) /\ c.on = page.tracked)
    BY <1>3, <1>5, <1>6
  <1>9. /\ calls' \subseteq (calls \ {c}) \cup N
        /\ calls \ {c} \subseteq calls' /\ N \subseteq calls'
    BY <1>7
  <1>. QED
    BY <1>2, <1>7, <1>8, <1>9, AnswerUsed DEF Quiet

(* Pages that a handler leaves behind it.                                  *)
LEMMA FinallyAfter ==
  ASSUME NEW c, NEW button, NEW p, PageOK(p), page' = Finally(button, p),
         p.chosen = page.chosen, p.tracked \in {page.tracked, None},
         \/ p.tracked = None
         \/ p.resume
         \/ p.resume = page.resume /\ ~(Attends(c) /\ c.on = page.tracked)
  PROVE  After(c)
  <1>1. /\ PageOK(page') /\ page'.tracked = p.tracked
        /\ page'.chosen = p.chosen /\ page'.resume = p.resume
    BY FinallyOK
  <1>. QED
    BY <1>1 DEF After

LEMMA TrackNone ==
  ASSUME NEW p, PageOK(p)
  PROVE  /\ PageOK(Track(None, p)) /\ Track(None, p).tracked = None
         /\ Track(None, p).chosen = p.chosen
  BY TrackOK

LEMMA EnqueueInv ==
  ASSUME PageInv, Quiet, NEW c \in calls, AfterEnqueue(c)
  PROVE  PageInv'
  <1>0. /\ CallOK(c) /\ c.button \in Buttons /\ PageOK(page)
        /\ c.kind = "enqueue" /\ ~Attends(c)
        /\ UNCHANGED <<server, version>> /\ clicks' \in 0 .. MaxClicks
    BY DEF PageInv, CallOK, Calls, AfterEnqueue, Attends, Monitoring, Quiet
  <1>1. CASE c.answer = "ok" /\ Monitor(c.got, c.button, page, calls \ {c})
    <2>1. PICK q \in Jobs, button \in Buttons, others \in SUBSET calls :
            Monitor(q, button, page, others)
      BY <1>0, <1>1 DEF CallOK
    <2>. QED
      BY <1>0, <2>1, MonitorInv
  <1>2. CASE page' = Finally(c.button, page) /\ Done(c)
    BY <1>0, <1>2, FinallyAfter, DoneInv
  <1>. QED
    BY <1>1, <1>2 DEF AfterEnqueue

LEMMA CreateInv ==
  ASSUME PageInv, Quiet, NEW c \in calls, AfterCreate(c)
  PROVE  PageInv'
  <1>0. CallOK(c) /\ PageOK(page) /\ c.kind = "create" /\ ~Attends(c)
    BY DEF PageInv, AfterCreate, Attends, Monitoring
  <1>1. CASE /\ c.answer = "ok"
             /\ page' = Finally(c.button, ShowManifest(c.got, page))
             /\ calls' = (calls \ {c}) \cup ReviewCalls(c.got)
    <2>1. PICK j \in Jobs : j = c.got
      BY <1>0, <1>1 DEF CallOK
    <2>2. PICK p : p = ShowManifest(j, page)
      OBVIOUS
    <2>3. /\ PageOK(p) /\ p.tracked = page.tracked
          /\ p.chosen = page.chosen /\ p.resume = page.resume
      BY <1>0, <2>2, ShowManifestOK
    <2>4. After(c)
      BY <1>0, <1>1, <2>1, <2>2, <2>3, FinallyAfter
    <2>. QED
      BY <1>1, <2>1, <2>4, ReviewedInv
  <1>2. CASE page' = Finally(c.button, page) /\ Done(c)
    BY <1>0, <1>2, FinallyAfter, DoneInv
  <1>. QED
    BY <1>1, <1>2 DEF AfterCreate

LEMMA MonitorFailsInv ==
  ASSUME PageInv, Quiet, NEW c \in calls, MonitorFails(c)
  PROVE  PageInv'
  <1>1. PICK p : p = ConnectionError(c.answer, page)
    OBVIOUS
  <1>2. PageOK(page) /\ page' = Finally(c.button, p) /\ Done(c)
    BY <1>1 DEF PageInv, MonitorFails
  <1>3. /\ PageOK(p) /\ p.chosen = page.chosen
        /\ p.tracked = None \/ (p.tracked = page.tracked /\ p.resume = TRUE)
    BY <1>1, <1>2, ConnectionErrorOK
  <1>4. After(c)
    BY <1>2, <1>3, FinallyAfter
  <1>. QED
    BY <1>2, <1>4, DoneInv

LEMMA MonitorStaleInv ==
  ASSUME PageInv, Quiet, NEW c \in calls, MonitorStale(c)
  PROVE  PageInv'
  <1>1. /\ PageOK(page) /\ page' = Finally(c.button, page) /\ Done(c)
        /\ ~Attends(c)
    BY DEF PageInv, MonitorStale, Current, Attends
  <1>2. After(c)
    BY <1>1, FinallyAfter
  <1>. QED
    BY <1>1, <1>2, DoneInv

LEMMA PollInv ==
  ASSUME PageInv, Quiet, NEW c \in calls, AfterPoll(c)
  PROVE  PageInv'
  <1>0. /\ Attends(c) /\ PageOK(page) /\ CallOK(c) /\ Truthful(c)
        /\ c.kind = "poll"
    BY DEF PageInv, AfterPoll, Current, Attends, Monitoring
  <1>1. CASE Continue(c, "pause") /\ UNCHANGED page
    BY <1>0, <1>1, ContinueInv DEF Monitoring
  <1>2. CASE c.answer = "completed" /\ Continue(c, "manifest") /\ UNCHANGED page
    <2>1. server[c.on] \in Ended
      BY <1>0, <1>2 DEF Truthful, Ended, Lasting
    <2>. QED
      BY <1>0, <1>2, <2>1, ContinueInv DEF Monitoring
  <1>3. CASE page' = Finally(c.button, Track(None, page)) /\ Done(c)
    <2>1. PICK p : p = Track(None, page)
      OBVIOUS
    <2>2. PageOK(p) /\ p.tracked = None /\ p.chosen = page.chosen
      BY <1>0, <2>1, TrackNone
    <2>3. After(c)
      BY <1>3, <2>1, <2>2, FinallyAfter
    <2>. QED
      BY <1>3, <2>3, DoneInv
  <1>. QED
    BY <1>1, <1>2, <1>3 DEF AfterPoll

LEMMA ManifestInv ==
  ASSUME PageInv, Quiet, NEW c \in calls, AfterManifest(c)
  PROVE  PageInv'
  <1>1. PageOK(page) /\ c.on \in Jobs
    BY DEF PageInv, CallOK, AfterManifest
  <1>0. PICK j \in Jobs : j = c.on
    BY <1>1
  <1>2. PICK p, q : p = ShowManifest(j, page) /\ q = Track(None, p)
    OBVIOUS
  <1>3. PageOK(p) /\ p.chosen = page.chosen
    BY <1>1, <1>2, ShowManifestOK
  <1>4. PageOK(q) /\ q.tracked = None /\ q.chosen = p.chosen
    BY <1>2, <1>3, TrackNone
  <1>5. /\ page' = Finally(c.button, q)
        /\ calls' = (calls \ {c}) \cup ReviewCalls(j)
    BY <1>0, <1>2 DEF AfterManifest
  <1>6. After(c)
    BY <1>3, <1>4, <1>5, FinallyAfter
  <1>. QED
    BY <1>5, <1>6, ReviewedInv

LEMMA PauseInv ==
  ASSUME PageInv, Quiet, NEW c \in calls, AfterPause(c)
  PROVE  PageInv'
  <1>0. c.kind = "pause" /\ PageOK(page)
    BY DEF PageInv, AfterPause
  <1>1. CASE page.tracked = c.on /\ c.live
    <2>1. Attends(c) /\ Continue(c, "poll") /\ UNCHANGED page
      BY <1>0, <1>1 DEF AfterPause, Attends, Monitoring
    <2>. QED
      BY <2>1, ContinueInv DEF Monitoring
  <1>2. CASE ~(page.tracked = c.on /\ c.live)
    <2>1. /\ Done(c) /\ page' = Finally(c.button, page)
          /\ ~(Attends(c) /\ c.on = page.tracked)
      BY <1>2 DEF AfterPause, Attends
    <2>2. After(c)
      BY <1>0, <2>1, FinallyAfter
    <2>. QED
      BY <2>1, <2>2, DoneInv
  <1>. QED
    BY <1>1, <1>2

LEMMA CancelInv ==
  ASSUME PageInv, Quiet, NEW c \in calls, AfterCancel(c)
  PROVE  PageInv'
  <1>0. PageOK(page) /\ ~Attends(c) /\ Done(c)
    BY DEF PageInv, AfterCancel, Attends, Monitoring
  <1>1. PICK p :
          /\ page' = Finally("cancel", p)
          /\ \/ p = ConnectionError(c.answer, page)
             \/ p = Track(None, page)
             \/ p = page
    BY DEF AfterCancel
  <1>2. /\ PageOK(p) /\ p.chosen = page.chosen
        /\ \/ p.tracked = None
           \/ p.tracked = page.tracked /\ p.resume
           \/ p.tracked = page.tracked /\ p.resume = page.resume
    <2>1. CASE p = ConnectionError(c.answer, page)
      BY <1>0, <2>1, ConnectionErrorOK
    <2>2. CASE p = Track(None, page)
      BY <1>0, <2>2, TrackNone
    <2>3. CASE p = page
      BY <1>0, <2>3
    <2>. QED
      BY <1>1, <2>1, <2>2, <2>3
  <1>3. After(c)
    BY <1>0, <1>1, <1>2, FinallyAfter
  <1>. QED
    BY <1>0, <1>3, DoneInv

LEMMA AnalysisInv ==
  ASSUME PageInv, Quiet, NEW c \in calls, AfterAnalysis(c)
  PROVE  PageInv'
  <1>0. /\ PageOK(page) /\ CallOK(c) /\ Following(c) /\ ~Attends(c)
        /\ Done(c) /\ c.kind = "analysis"
    BY DEF PageInv, AfterAnalysis, Attends, Monitoring
  <1>1. CASE UNCHANGED page
    BY <1>0, <1>1, DoneInv DEF After
  <1>2. ASSUME Current(c), NEW convertible \in BOOLEAN,
               page' = [page EXCEPT !.analysis = c.on,
                          !.off = (@ \ {"analyze", "tree"}) \cup
                                    (IF convertible THEN {} ELSE {"tree"})]
        PROVE  PageInv'
    <2>1. c.on = page.chosen /\ c.on \in Files
      BY <1>0, <1>2 DEF Following, CallOK, Current
    <2>2. PICK off : off = (page.off \ {"analyze", "tree"}) \cup
                             (IF convertible THEN {} ELSE {"tree"})
      OBVIOUS
    <2>3. /\ off \in SUBSET Buttons
          /\ Submit \subseteq page.off => Submit \subseteq off
      BY <1>0, <2>2 DEF PageOK, Pages, Buttons, Submit
    <2>4. page' = [page EXCEPT !.analysis = c.on, !.off = off]
      BY <1>2, <2>2
    <2>5. After(c)
      BY <1>0, <2>1, <2>3, <2>4 DEF After, PageOK, Pages
    <2>. QED
      BY <1>0, <2>5, DoneInv
  <1>3. CASE page' = ClearTree(page)
    BY <1>0, <1>3, ClearTreeOK, DoneInv DEF After
  <1>. QED
    BY <1>1, <1>2, <1>3 DEF AfterAnalysis

LEMMA OpenInv ==
  ASSUME PageInv, Quiet, NEW c \in calls, AfterOpen(c)
  PROVE  PageInv'
  <1>0. PageOK(page) /\ CallOK(c) /\ ~Attends(c) /\ c.on \in Jobs
    BY DEF PageInv, CallOK, AfterOpen, Attends, Monitoring
  <1>1. CASE c.answer = "ok"
    <2>1. PICK j \in Jobs : /\ page' = ShowManifest(j, page)
                            /\ calls' = (calls \ {c}) \cup ReviewCalls(j)
      BY <1>0, <1>1 DEF AfterOpen
    <2>2. After(c)
      BY <1>0, <2>1, ShowManifestOK DEF After
    <2>. QED
      BY <2>1, <2>2, ReviewedInv
  <1>2. CASE c.answer # "ok"
    <2>1. Done(c) /\ After(c)
      BY <1>0, <1>2 DEF AfterOpen, After
    <2>. QED
      BY <2>1, DoneInv
  <1>. QED
    BY <1>1, <1>2

LEMMA ReviewInv ==
  ASSUME PageInv, Quiet, NEW c \in calls, AfterReview(c)
  PROVE  PageInv'
  <1>0. /\ PageOK(page) /\ CallOK(c) /\ ~Attends(c) /\ c.on \in Jobs
        /\ c.number \in 0 .. 2 /\ Done(c)
    BY DEF PageInv, CallOK, Calls, AfterReview, Attends, Monitoring
  <1>1. PICK r \in Reviews :
          page' = page \/ page' = [page EXCEPT !.review = r]
    <2>1. [job |-> c.on, version |-> c.number] \in Reviews
      BY <1>0 DEF Reviews
    <2>. QED
      BY <2>1 DEF AfterReview
  <1>2. After(c)
    BY <1>0, <1>1 DEF After, PageOK, Pages
  <1>. QED
    BY <1>0, <1>2, DoneInv

LEMMA DeliverInv ==
  ASSUME PageInv, NEW c \in calls, Deliver(c)
  PROVE  PageInv'
  <1>1. Quiet
    BY DEF Deliver
  <1>2. CASE AfterEnqueue(c)
    BY <1>1, <1>2, EnqueueInv
  <1>3. CASE AfterCreate(c)
    BY <1>1, <1>3, CreateInv
  <1>4. CASE MonitorFails(c)
    BY <1>1, <1>4, MonitorFailsInv
  <1>5. CASE MonitorStale(c)
    BY <1>1, <1>5, MonitorStaleInv
  <1>6. CASE AfterPoll(c)
    BY <1>1, <1>6, PollInv
  <1>7. CASE AfterManifest(c)
    BY <1>1, <1>7, ManifestInv
  <1>8. CASE AfterPause(c)
    BY <1>1, <1>8, PauseInv
  <1>9. CASE AfterCancel(c)
    BY <1>1, <1>9, CancelInv
  <1>10. CASE AfterAnalysis(c)
    BY <1>1, <1>10, AnalysisInv
  <1>11. CASE AfterOpen(c)
    BY <1>1, <1>11, OpenInv
  <1>12. CASE AfterReview(c)
    BY <1>1, <1>12, ReviewInv
  <1>. QED
    BY <1>2, <1>3, <1>4, <1>5, <1>6, <1>7, <1>8, <1>9, <1>10, <1>11, <1>12
    DEF Deliver

LEMMA UserInv ==
  ASSUME PageInv, User
  PROVE  PageInv'
  <1>1. CASE \E b \in Submit : ClickSubmit(b)
    BY <1>1, ClickSubmitInv
  <1>2. CASE ClickManufacturing
    BY <1>2, ClickManufacturingInv
  <1>3. CASE ClickCancel
    BY <1>3, ClickCancelInv
  <1>4. CASE ClickResume
    BY <1>4, ClickResumeInv
  <1>5. CASE \E f \in Files : ChooseFile(f)
    BY <1>5, ChooseFileInv
  <1>6. CASE ClickAnalyze
    BY <1>6, ClickAnalyzeInv
  <1>7. CASE ClickTree
    BY <1>7, ClickTreeInv
  <1>8. CASE \E j \in Jobs : ClickJob(j)
    BY <1>8, ClickJobInv
  <1>9. CASE ClickReview
    BY <1>9, ClickReviewInv
  <1>10. CASE Reload
    BY <1>10, ReloadInv
  <1>. QED
    BY <1>1, <1>2, <1>3, <1>4, <1>5, <1>6, <1>7, <1>8, <1>9, <1>10 DEF User

LEMMA PageStart ==
  ASSUME Init
  PROVE  PageInv
  <1>0. clicks \in 0 .. MaxClicks
    BY WebAssumption DEF Init
  <1>1. CASE /\ page = Loaded(None) /\ calls = {}
             /\ \E old \in SUBSET Drawn :
                  /\ server = [j \in Jobs |-> IF j \in old THEN "completed"
                                              ELSE "absent"]
                  /\ version \in {v \in [Jobs -> 0 .. 2] :
                                    \A j \in Jobs \ old : v[j] = 0}
    <2>1. PageOK(page) /\ page.tracked = None
      BY <1>1, LoadedOK DEF PageOK
    <2>2. server \in [Jobs -> Statuses] /\ version \in [Jobs -> 0 .. 2]
      BY <1>1 DEF Statuses, Ended
    <2>. QED
      BY <1>0, <1>1, <2>1, <2>2 DEF PageInv, NeverOrphaned
  <1>2. ASSUME NEW q \in Jobs,
               server = [j \in Jobs |-> IF j = q THEN "missing" ELSE "absent"],
               version = [j \in Jobs |-> 0],
               page = [Loaded(q) EXCEPT !.off = @ \cup Submit],
               calls = {Call("poll", q, "none")}
        PROVE  PageInv
    <2>1. PICK l : l = Loaded(q)
      OBVIOUS
    <2>2. /\ l \in Pages /\ l.tracked = q /\ l.off = {"tree"}
          /\ l.analysis = None
      BY <2>1, LoadedOK
    <2>3. page = [l EXCEPT !.off = @ \cup Submit]
      BY <1>2, <2>1
    <2>4. PageOK(page) /\ page.tracked = q
      BY <2>2, <2>3 DEF PageOK, Pages, Buttons
    <2>5. PICK c : c = Call("poll", q, "none")
      OBVIOUS
    <2>6. CallOK(c) /\ Truthful(c)
      <3>1. "none" \in Buttons /\ Proper("poll", q)
        BY DEF Buttons, Proper
      <3>. QED
        BY <2>5, <3>1, NewCall
    <2>7. c.kind = "poll" /\ c.on = q /\ c.live = TRUE /\ calls = {c}
      BY <1>2, <2>5 DEF Call
    <2>8. Following(c) /\ NeverOrphaned
      BY <2>4, <2>7 DEF Following, Attends, Monitoring, NeverOrphaned
    <2>9. server \in [Jobs -> Statuses] /\ version \in [Jobs -> 0 .. 2]
      BY <1>2 DEF Statuses
    <2>. QED
      BY <1>0, <2>4, <2>6, <2>7, <2>8, <2>9 DEF PageInv
  <1>. QED
    BY <1>1, <1>2 DEF Init

LEMMA PageNext ==
  ASSUME PageInv, [Next]_vars
  PROVE  PageInv'
  <1>1. CASE User
    BY <1>1, UserInv
  <1>2. CASE \E c \in calls : Serve(c)
    BY <1>2, ServeInv
  <1>3. CASE \E c \in calls : Fails(c)
    BY <1>3, FailsInv
  <1>4. CASE \E c \in calls : AnswerLost(c)
    BY <1>4, AnswerLostInv
  <1>5. CASE \E c \in calls : Deliver(c)
    BY <1>5, DeliverInv
  <1>6. CASE \E j \in Jobs : WorkerStep(j) \/ JobFails(j)
    BY <1>6, WorkInv
  <1>7. CASE UNCHANGED vars
    <2>1. UNCHANGED <<server, version, page, calls, clicks>>
      BY <1>7 DEF vars
    <2>2. \A c \in calls : CallOK(c) /\ Truthful(c)' /\ Following(c)'
      BY <2>1 DEF PageInv, Truthful, Following
    <2>3. NeverOrphaned'
      BY <2>1 DEF PageInv, NeverOrphaned
    <2>. QED
      BY <2>1, <2>2, <2>3 DEF PageInv, PageOK
  <1>. QED
    BY <1>1, <1>2, <1>3, <1>4, <1>5, <1>6, <1>7 DEF Next

----------------------------------------------------------------------------
(* The theorems                                                            *)

(* Whatever the order of clicks and answers, the page, its awaits and the  *)
(* server agree on what each is about (app.js).                            *)
THEOREM PageInvariant == Spec => []PageInv
  <1>1. Init => PageInv
    BY PageStart
  <1>2. PageInv /\ [Next]_vars => PageInv'
    BY PageNext
  <1>. QED
    BY <1>1, <1>2, PTL DEF Spec

(* The state of the page has its type.                                     *)
THEOREM PageTypes == Spec => []TypeOK
  <1>1. PageInv => TypeOK
    BY DEF PageInv, PageOK, Pages, Reviews, Buttons, Statuses, TypeOK
  <1>. QED
    BY <1>1, PageInvariant, PTL

(* A job that is tracked is attended to by the current monitor or offered  *)
(* to the user for resumption, and no other can be submitted meanwhile     *)
(* (monitorQueue, setActiveQueue and the finally clauses of app.js).       *)
THEOREM TrackedJobsAreAttended == Spec => []TrackedJobAttended
  <1>1. PageInv => TrackedJobAttended
    BY DEF PageInv, PageOK, TrackedJobAttended, SubmitBlocked
  <1>. QED
    BY <1>1, PageInvariant, PTL

(* The feature tree on display is that of the file in the input            *)
(* (clearFeatureTreeState and analysisRequestVersion of app.js).           *)
THEOREM AnalysesMatch == Spec => []AnalysisIsOfChosenFile
  <1>1. PageInv => AnalysisIsOfChosenFile
    BY DEF PageInv, PageOK, AnalysisIsOfChosenFile
  <1>. QED
    BY <1>1, PageInvariant, PTL

(* How the tracking of a job may end.                                      *)
Ends ==
  (page.tracked # None /\ page'.tracked = None) =>
    \/ server[page.tracked] \in Lasting
    \/ \E c \in calls \ calls' : Misled(c, page.tracked)

LEMMA StillTracked ==
  ASSUME NEW p, PageOK(p), NEW button, page' = Finally(button, p)
  PROVE  page'.tracked = p.tracked
  BY FinallyOK

LEMMA DeliverEnds ==
  ASSUME PageInv, NEW c \in calls, Deliver(c)
  PROVE  Ends
  <1>. SUFFICES ASSUME page.tracked # None, page'.tracked = None
                PROVE  \/ server[page.tracked] \in Lasting
                       \/ \E d \in calls \ calls' : Misled(d, page.tracked)
    BY DEF Ends
  <1>0. PageOK(page) /\ CallOK(c) /\ Truthful(c) /\ Following(c)
    BY DEF PageInv
  <1>1. CASE AfterEnqueue(c)
    <2>1. CASE c.answer = "ok" /\ Monitor(c.got, c.button, page, calls \ {c})
      <3>1. PICK q \in Jobs : q = c.got
        BY <1>0, <1>1, <2>1 DEF CallOK, AfterEnqueue
      <3>2. PICK t : t = Track(q, page)
        OBVIOUS
      <3>3. t \in Pages /\ t.tracked = q
        BY <1>0, <3>2, TrackOK DEF PageOK
      <3>4. page' = [t EXCEPT !.resume = FALSE]
        BY <2>1, <3>1, <3>2 DEF Monitor
      <3>5. page'.tracked = q
        BY <3>3, <3>4 DEF Pages
      <3>. QED
        BY <3>5, NoneIsNothing
    <2>2. CASE page' = Finally(c.button, page)
      BY <1>0, <2>2, StillTracked
    <2>. QED
      BY <1>1, <2>1, <2>2 DEF AfterEnqueue
  <1>2. CASE AfterCreate(c)
    <2>1. CASE c.answer = "ok" /\ page' = Finally(c.button, ShowManifest(c.got, page))
      <3>0. PICK j \in Jobs : j = c.got
        BY <1>0, <1>2, <2>1 DEF CallOK, AfterCreate
      <3>1. PICK p : p = ShowManifest(j, page)
        OBVIOUS
      <3>2. PageOK(p) /\ p.tracked = page.tracked
        BY <1>0, <3>1, ShowManifestOK
      <3>. QED
        BY <2>1, <3>0, <3>1, <3>2, StillTracked
    <2>2. CASE page' = Finally(c.button, page)
      BY <1>0, <2>2, StillTracked
    <2>. QED
      BY <1>2, <2>1, <2>2 DEF AfterCreate
  <1>3. CASE MonitorFails(c)
    <2>1. PICK p : p = ConnectionError(c.answer, page)
      OBVIOUS
    <2>2. page' = Finally(c.button, p) /\ Done(c)
      BY <1>3, <2>1 DEF MonitorFails
    <2>3. PageOK(p) /\ (c.answer = "missing" \/ p.tracked = page.tracked)
      BY <1>0, <2>1, ConnectionErrorOK
    <2>4. c.answer = "missing" /\ c.kind \in {"poll", "manifest"}
      BY <1>3, <2>2, <2>3, StillTracked DEF MonitorFails
    <2>5. CASE c.on = page.tracked
      BY <1>0, <2>4, <2>5 DEF Truthful, Lasting
    <2>6. CASE c.on # page.tracked
      <3>1. ~c.live
        BY <1>0, <2>4, <2>6 DEF Following, Attends, Monitoring, CallOK, Calls
      <3>2. Misled(c, page.tracked)
        BY <2>4, <2>6, <3>1 DEF Misled
      <3>. QED
        BY <2>2, <3>2 DEF Done
    <2>. QED
      BY <2>5, <2>6
  <1>4. CASE MonitorStale(c)
    BY <1>0, <1>4, StillTracked DEF MonitorStale
  <1>5. CASE AfterPoll(c)
    <2>1. c.on = page.tracked
      BY <1>0, <1>5 DEF AfterPoll, Current, Following, Attends, Monitoring
    <2>2. c.answer \in NoResult
      BY <1>5 DEF AfterPoll
    <2>. QED
      BY <1>0, <1>5, <2>1, <2>2
      DEF AfterPoll, Truthful, NoResult, Ended, Lasting
  <1>6. CASE AfterManifest(c)
    <2>1. c.on = page.tracked
      BY <1>0, <1>6 DEF AfterManifest, Current, Following, Attends, Monitoring
    <2>. QED
      BY <1>0, <1>6, <2>1 DEF AfterManifest, Truthful, Lasting
  <1>7. CASE AfterPause(c)
    BY <1>0, <1>7, StillTracked DEF AfterPause
  <1>8. CASE AfterCancel(c)
    <2>1. CASE c.answer \in {"cancelled", "missing"}
      <3>1. CASE c.on = page.tracked
        BY <1>0, <1>8, <2>1, <3>1 DEF AfterCancel, Truthful, Lasting, Ended
      <3>2. CASE c.on # page.tracked
        <4>1. Misled(c, page.tracked)
          BY <1>8, <2>1, <3>2 DEF AfterCancel, Misled
        <4>. QED
          BY <1>8, <4>1 DEF AfterCancel, Done
      <3>. QED
        BY <3>1, <3>2
    <2>2. CASE c.answer \notin {"cancelled", "missing"}
      <3>1. PICK p : /\ p = ConnectionError(c.answer, page) \/ p = page
                     /\ page' = Finally("cancel", p)
        BY <1>8, <2>2 DEF AfterCancel
      <3>2. CASE p = ConnectionError(c.answer, page)
        <4>1. c.answer # "missing"
          BY <2>2
        <4>2. PageOK(p) /\ p.tracked = page.tracked
          BY <1>0, <3>2, <4>1, ConnectionErrorOK
        <4>. QED
          BY <3>1, <4>2, StillTracked
      <3>3. CASE p = page
        BY <1>0, <3>1, <3>3, StillTracked
      <3>. QED
        BY <3>1, <3>2, <3>3
    <2>. QED
      BY <2>1, <2>2
  <1>9. CASE AfterAnalysis(c)
    <2>1. CASE page' = ClearTree(page)
      BY <1>0, <2>1, ClearTreeOK
    <2>2. CASE page' # ClearTree(page)
      BY <1>0, <1>9, <2>2 DEF AfterAnalysis, PageOK, Pages
    <2>. QED
      BY <2>1, <2>2
  <1>10. CASE AfterOpen(c)
    <2>1. CASE c.answer = "ok"
      <3>1. c.on \in Jobs /\ page' = ShowManifest(c.on, page)
        BY <1>0, <1>10, <2>1 DEF AfterOpen, CallOK
      <3>. QED
        BY <1>0, <3>1, ShowManifestOK
    <2>2. CASE c.answer # "ok"
      BY <1>10, <2>2 DEF AfterOpen
    <2>. QED
      BY <2>1, <2>2
  <1>11. CASE AfterReview(c)
    BY <1>0, <1>11 DEF AfterReview, PageOK, Pages
  <1>. QED
    BY <1>1, <1>2, <1>3, <1>4, <1>5, <1>6, <1>7, <1>8, <1>9, <1>10, <1>11
    DEF Deliver

LEMMA UserEnds ==
  ASSUME PageInv, User
  PROVE  page.tracked # None => page'.tracked # None
  <1>0. PageOK(page) /\ page \in Pages
    BY DEF PageInv, PageOK
  <1>. SUFFICES ASSUME page.tracked # None PROVE page'.tracked = page.tracked
    OBVIOUS
  <1>1. CASE \E f \in Files : ChooseFile(f)
    <2>1. PICK t, f : /\ t = ClearTree(page)
                      /\ page' = [t EXCEPT !.chosen = f]
      BY <1>1 DEF ChooseFile
    <2>2. PageOK(t) /\ t.tracked = page.tracked
      BY <1>0, <2>1, ClearTreeOK
    <2>. QED
      BY <2>1, <2>2 DEF PageOK, Pages
  <1>2. CASE ClickAnalyze
    <2>1. PICK t : /\ t = ClearTree(page)
                   /\ page' = [t EXCEPT !.off = @ \cup {"analyze"}]
      BY <1>2 DEF ClickAnalyze
    <2>2. PageOK(t) /\ t.tracked = page.tracked
      BY <1>0, <2>1, ClearTreeOK
    <2>. QED
      BY <2>1, <2>2 DEF PageOK, Pages
  <1>3. CASE ClickResume \/ Reload
    <2>1. page' = [Track(page.tracked, page) EXCEPT !.resume = FALSE]
          \/ page' = [Track(page.tracked, Loaded(page.tracked)) EXCEPT !.resume = FALSE]
      BY <1>3 DEF ClickResume, Reload, Monitor
    <2>. QED
      BY <1>0, <2>1 DEF Pages, Track, Loaded
  <1>4. CASE \/ \E b \in Submit : ClickSubmit(b)
             \/ ClickManufacturing \/ ClickCancel \/ ClickTree
             \/ \E j \in Jobs : ClickJob(j)
             \/ ClickReview
    BY <1>0, <1>4 DEF Pages, ClickSubmit, ClickManufacturing, ClickCancel,
                      ClickTree, ClickJob, ClickReview
  <1>. QED
    BY <1>1, <1>2, <1>3, <1>4 DEF User

(* The page stops tracking a job only when that has ended or is not known  *)
(* to the server, or when it is misled by a late answer about another job: *)
(* that to a cancel, or the 404 of a monitor that was superseded           *)
(* (monitorQueue, showQueueConnectionError and the cancel handler of       *)
(* app.js).  No other answer, to whatever it came, drops a job in progress. *)
THEOREM TrackingEndsRightly == Spec => TrackingEndsForAReason
  <1>1. PageInv /\ [Next]_vars =>
          [(page.tracked # None /\ page'.tracked = None) =>
             \/ server[page.tracked] \in Ended \cup {"missing"}
             \/ \E c \in calls \ calls' : Misled(c, page.tracked)]_page
    <2>. SUFFICES ASSUME PageInv, Next PROVE Ends \/ UNCHANGED page
      BY DEF Ends, Lasting, vars
    <2>1. CASE User
      BY <2>1, UserEnds DEF Ends
    <2>2. CASE \E c \in calls : Deliver(c)
      BY <2>2, DeliverEnds
    <2>3. CASE \/ \E c \in calls : Serve(c) \/ Fails(c) \/ AnswerLost(c)
               \/ \E j \in Jobs : WorkerStep(j) \/ JobFails(j)
      BY <2>3 DEF Serve, Fails, AnswerLost, WorkerStep, JobFails
    <2>. QED
      BY <2>1, <2>2, <2>3 DEF Next
  <1>. QED
    BY <1>1, PageInvariant, PTL DEF Spec, TrackingEndsForAReason

=============================================================================
