---------------------------- MODULE JobPipeline ----------------------------
(***************************************************************************)
(* One job from the choice of a CAD backend to its manifest: the registry  *)
(* of app/services/backends.py, _materialize of job_service.py and render  *)
(* of renderer.py.  The three layers decide on fallbacks separately: the   *)
(* registry by what the document and the runtimes allow, the renderer by   *)
(* what is installed when it starts and by what fails, the pipeline by     *)
(* what the renderer says.                                                 *)
(*                                                                         *)
(* Only the formats a kernel renders matter here; svg behaves as dxf does, *)
(* and solidworks as fusion360.                                            *)
(***************************************************************************)
EXTENDS Naturals, Sequences, SequencesExt

CONSTANT MayVanish   \* runtimes that may go away while a job is under way

Local   == {"cadquery", "build123d", "openscad"}   \* local_process
Host    == {"fusion360"}                           \* host_application
Ids     == Local \cup Host \cup {"freecad"}
Formats == {"step", "stl", "dxf"}

ASSUME VanishAssumption == MayVanish \subseteq Local

(* server_render_formats, and what the renderer supports.                  *)
Renders == [b \in Local |->
  CASE b = "cadquery"  -> Formats
    [] b = "build123d" -> {"step", "stl"}
    [] b = "openscad"  -> {"stl"}]

Jobs == [asked: Ids \cup {"auto", "source_only"},       \* request's backend
         configured: {"auto", "openscad"},              \* render_backend
         formats: SUBSET Formats, render: BOOLEAN,
         lossy: BOOLEAN,                  \* has fillets or chamfers
         valid: BOOLEAN,                  \* passes the design validator
         fallback: BOOLEAN]               \* allow_source_fallback

(* ocp_runtime_conflicted: a host with both exact kernels has neither.     *)
Hosts == {h \in SUBSET Local : ~({"cadquery", "build123d"} \subseteq h)}

VARIABLES
  job,        \* the request and the settings
  installed,  \* the runtimes on this host
  pc,         \* how far the job is
  selection,  \* BackendSelection: effective backend and its chain
  sources,    \* backends whose source file was compiled
  kernel,     \* the backend the renderer is at
  tried,      \* the renderer's fallback_chain
  todo,       \* formats staged and not yet promoted
  outputs,    \* <<format, backend>> of each kernel file in the job directory
  status,     \* status of the manifest
  used,       \* renderer_used
  chain       \* fallback_chain of the manifest

vars == <<job, installed, pc, selection, sources, kernel, tried, todo,
          outputs, status, used, chain>>

NoSelection == [effective |-> "none", chain |-> <<>>]

Init ==
  /\ job \in Jobs
  /\ installed \in Hosts
  /\ pc = "select"
  /\ selection = NoSelection
  /\ sources = {} /\ kernel = "none" /\ tried = <<>> /\ todo = {}
  /\ outputs = {} /\ status = "none" /\ used = "not-run" /\ chain = <<>>

----------------------------------------------------------------------------
(* BackendRegistry.select: the set of selections it may return, empty when *)
(* it raises a ValueError.                                                 *)

Requested ==
  IF job.asked = "auto" /\ job.configured # "auto"
  THEN job.configured ELSE job.asked

(* The only error diagnostic: OpenSCAD applies no fillets and chamfers.    *)
Blocked(b) == b = "openscad" /\ job.lossy

Usable(b) == b \in installed /\ ~Blocked(b)

Selected(effective, names) == [effective |-> effective, chain |-> names]

(* Planted fault: a fallback nobody allowed.                               *)
BugOrRefuse(choice) == {choice}

OrRefuse(choice) == IF job.fallback THEN {choice} ELSE {}

(* Exact kernels that can accompany a host adapter with a neutral STEP.    *)
Bridge == SelectInSeq(<<"cadquery", "build123d">>, Usable)

SelectNamed(b) ==
  LET sourceOnly == Selected("source_only", <<b, "source_only">>) IN
  CASE Blocked(b) -> OrRefuse(sourceOnly)
    [] ~Blocked(b) /\ ~job.render -> {sourceOnly}
    [] ~Blocked(b) /\ job.render /\ b \in Host /\ Bridge # 0 ->
         LET k == <<"cadquery", "build123d">>[Bridge] IN {Selected(k, <<b, k>>)}
    [] ~Blocked(b) /\ job.render /\ b \notin Host /\ b \in installed ->
         {Selected(b, <<b>>)}
    [] OTHER -> OrRefuse(sourceOnly)

SelectAuto ==
  LET order == <<"cadquery", "openscad">>
      first == SelectInSeq(order, Usable)
  IN  IF first # 0 THEN {Selected(order[first], SubSeq(order, 1, first))}
      ELSE OrRefuse(Selected("source_only", Append(order, "source_only")))

Selections ==
  IF Requested \notin {"auto", "source_only"} THEN SelectNamed(Requested)
  ELSE IF Requested = "source_only" \/ ~job.render
       THEN {Selected("source_only", <<"source_only">>)}
       ELSE SelectAuto

Select ==
  /\ pc = "select"
  /\ selection' \in Selections
  /\ pc' = "compile"
  /\ UNCHANGED <<job, installed, sources, kernel, tried, todo, outputs,
                 status, used, chain>>

(* The job ends without a manifest: refused, cancelled before it began, or *)
(* an exception _materialize does not catch.                               *)
Abort(where) ==
  /\ pc = where
  /\ pc' = "aborted"
  /\ UNCHANGED <<job, installed, selection, sources, kernel, tried, todo,
                 outputs, status, used, chain>>

RefuseJob == Selections = {} /\ Abort("select")

----------------------------------------------------------------------------
(* _materialize, up to the renderer                                        *)

(* Planted fault: the OpenSCAD compiler drops what it cannot express.      *)
BugCompiles(b) == TRUE

Compiles(b) == ~(b = "openscad" /\ job.lossy)

(* compile_sources skips a backend whose compiler raises; OpenSCAD's does  *)
(* for a document with fillets or chamfers, others may for their reasons.  *)
CompileSources ==
  /\ pc = "compile"
  /\ sources' \in SUBSET {b \in Local : Compiles(b)}
  /\ IF ~job.valid
     THEN /\ status' = "failed" /\ used' = "validation-blocked"
          /\ pc' = "report"
     ELSE IF job.render
     THEN pc' = "start" /\ UNCHANGED <<status, used>>
     ELSE pc' = "report" /\ status' = "source_only" /\ UNCHANGED used
  /\ UNCHANGED <<job, installed, selection, kernel, tried, todo, outputs, chain>>

(* Planted fault: the desktop adapter's input is not asked for.            *)
BugRenderFormats == job.formats

(* Host adapters get a STEP beside their script.                           *)
RenderFormats ==
  IF Requested \in Host /\ selection.effective \in {"cadquery", "build123d"}
  THEN job.formats \cup {"step"} ELSE job.formats

----------------------------------------------------------------------------
(* Renderer.render                                                         *)

(* A RuntimeError: the manifest is written, with status failed.            *)
Failed ==
  /\ status' = "failed" /\ used' = "failed"
  /\ pc' = "report"
  /\ UNCHANGED <<job, installed, selection, sources, kernel, tried, todo,
                 outputs, chain>>

Cancelled ==
  /\ pc \in {"start", "run"}
  /\ status' = "cancelled" /\ used' = "cancelled"
  /\ pc' = "report"
  /\ UNCHANGED <<job, installed, selection, sources, kernel, tried, todo,
                 outputs, chain>>

(* _choose_backend: empty when it raises.                                  *)
Chosen(b) ==
  CASE b = "source_only" \/ b \in installed -> {b}
    [] b = "cadquery" /\ b \notin installed /\ "openscad" \in installed ->
         OrRefuse("openscad")
    [] OTHER -> OrRefuse("source_only")

Start ==
  /\ pc = "start"
  /\ \/ Chosen(selection.effective) = {} /\ Failed
     \/ \E b \in Chosen(selection.effective) :
          /\ kernel' = b
          /\ tried' = <<b>>
          /\ pc' = "kernel"
          /\ UNCHANGED <<job, installed, selection, sources, todo, outputs,
                         status, used, chain>>

(* Planted fault: the chains are joined without a look at where they meet. *)
BugMerge(selected, runtime) == selected \o runtime

(* The renderer returns; the pipeline merges the two fallback chains, name *)
(* by name of the second one.                                              *)
Merging(selected, runtime) ==
  LET merged[i \in 0 .. Len(runtime)] ==
        IF i = 0 THEN selected
        ELSE IF Last(merged[i - 1]) = runtime[i] THEN merged[i - 1]
        ELSE Append(merged[i - 1], runtime[i])
  IN  merged

Merge(selected, runtime) == Merging(selected, runtime)[Len(runtime)]

Returned(by, result, names) ==
  /\ used' = by
  /\ status' = result
  /\ tried' = names
  /\ chain' = Merge(selection.chain, names)
  /\ pc' = "report"
  /\ UNCHANGED <<job, installed, selection, sources, kernel, outputs>>

WithSourceOnly == IF Last(tried) = "source_only" THEN tried
                  ELSE Append(tried, "source_only")

Renderable == IF kernel \in Local THEN RenderFormats \cap Renders[kernel] ELSE {}

(* No kernel left, or none of the formats is one this kernel renders.      *)
NothingToRun ==
  /\ pc = "kernel"
  /\ Renderable = {}
  /\ \/ kernel = "source_only"
        /\ Returned("source_only", "source_only", WithSourceOnly)
        /\ UNCHANGED todo
     \/ /\ kernel \in Local /\ RenderFormats = {}
        /\ Returned(kernel, "completed", tried) /\ UNCHANGED todo
     \/ /\ kernel \in Local /\ RenderFormats # {} /\ job.fallback
        /\ Returned("source_only", "source_only", WithSourceOnly)
        /\ UNCHANGED todo
     \/ kernel \in Local /\ RenderFormats # {} /\ ~job.fallback /\ Failed

Launch ==
  /\ pc = "kernel"
  /\ Renderable # {}
  /\ pc' = "run"
  /\ UNCHANGED <<job, installed, selection, sources, kernel, tried, todo,
                 outputs, status, used, chain>>

(* The child exits with zero and every output passes its checks.  Without  *)
(* its source file, or without its runtime, it cannot; a runtime that goes *)
(* away under a child that succeeds all the same may as well go after it.  *)
RunSucceeds ==
  /\ pc = "run"
  /\ kernel \in sources \cap installed
  /\ todo' = Renderable
  /\ pc' = "promote"
  /\ UNCHANGED <<job, installed, selection, sources, kernel, tried, outputs,
                 status, used, chain>>

(* Any RuntimeError of _run, of the checks or of a missing executable.     *)
NextKernel ==
  IF /\ kernel = "cadquery" /\ "openscad" \in installed
     /\ RenderFormats = {"stl"}
  THEN "openscad" ELSE "source_only"

RunFails ==
  /\ pc = "run"
  /\ \/ ~job.fallback /\ Failed
     \/ /\ job.fallback
        /\ kernel' = NextKernel
        /\ tried' = Append(tried, NextKernel)
        /\ pc' = "kernel"
        /\ UNCHANGED <<job, installed, selection, sources, todo, outputs,
                       status, used, chain>>

(* Planted fault: the render counts as done with the first output.         *)
BugPromoted(rest) == TRUE

Promoted(rest) == rest = {}

(* _promote_outputs: all checks came first; now file by file.              *)
Promote ==
  /\ pc = "promote"
  /\ \E f \in todo :
       /\ outputs' = outputs \cup {<<f, kernel>>}
       /\ todo' = todo \ {f}
       /\ IF Promoted(todo \ {f})
          THEN /\ used' = kernel /\ status' = "completed"
               /\ chain' = Merge(selection.chain, tried)
               /\ pc' = "report"
          ELSE UNCHANGED <<used, status, chain, pc>>
  /\ UNCHANGED <<job, installed, selection, sources, kernel, tried>>

----------------------------------------------------------------------------
(* The manifest                                                            *)

BackendUsed == IF used \in Ids THEN used ELSE "source_only"

(* format_results of one requested format.                                 *)
FormatResult(f) ==
  CASE \E b \in Local : <<f, b>> \in outputs -> "produced"
    [] ~(\E b \in Local : <<f, b>> \in outputs) /\ status # "completed" -> status
    [] OTHER -> "unavailable"

(* Without a result of the renderer the selection's chain stands.          *)
Report ==
  /\ pc = "report"
  /\ chain' = IF chain = <<>> THEN selection.chain ELSE chain
  /\ pc' = "reported"
  /\ UNCHANGED <<job, installed, selection, sources, kernel, tried, todo,
                 outputs, status, used>>

(* A write the disk refuses, at any stage but before the directory exists. *)
DiskError == \E where \in {"compile", "run", "promote", "report"} : Abort(where)

CancelEarly == Abort("select")

Vanish(b) ==
  /\ b \in MayVanish \cap installed
  /\ installed' = installed \ {b}
  /\ UNCHANGED <<job, pc, selection, sources, kernel, tried, todo, outputs,
                 status, used, chain>>

Next ==
  \/ Select \/ RefuseJob \/ CancelEarly
  \/ CompileSources \/ Start \/ NothingToRun \/ Launch
  \/ RunSucceeds \/ RunFails \/ Cancelled \/ Promote
  \/ Report \/ DiskError
  \/ \E b \in Local : Vanish(b)

Spec == Init /\ [][Next]_vars

----------------------------------------------------------------------------
(* Properties                                                              *)

Names == Ids \cup {"source_only"}

(* The variables have their types; once a job is to be reported nothing is *)
(* left to promote, and it has a status.                                   *)
TypeOK ==
  /\ job \in Jobs /\ installed \subseteq Local
  /\ pc \in {"select", "compile", "start", "kernel", "run", "promote",
             "report", "reported", "aborted"}
  /\ selection.effective \in Local \cup {"source_only", "none"}
  /\ sources \subseteq Local /\ todo \subseteq Formats
  /\ kernel \in Local \cup {"source_only", "none"}
  /\ ToSet(tried) \cup ToSet(chain) \cup ToSet(selection.chain) \subseteq Names
  /\ outputs \subseteq Formats \X Local
  /\ status \in {"none", "source_only", "completed", "failed", "cancelled"}
  /\ used \in Names \cup {"not-run", "failed", "cancelled", "validation-blocked"}
  /\ pc \in {"report", "reported"} => todo = {} /\ status # "none"

(* A document with fillets or chamfers never gets geometry from OpenSCAD,  *)
(* which would leave them out: not by name, not by auto, and not when the  *)
(* renderer falls back on it after CadQuery failed or went away, where     *)
(* nothing but the missing source file stands in the way.                  *)
NoLossyOutput == job.lossy => \A f \in Formats : <<f, "openscad">> \notin outputs

(* What a manifest says of the outputs is so: a completed job has every    *)
(* format its renderer supports, all made by that renderer, and calls only *)
(* the others unavailable; any other job has no output of a kernel at all, *)
(* whatever was tried and failed before.                                   *)
WholeOrNothing ==
  pc = "reported" =>
    /\ status # "completed" => outputs = {}
    /\ status = "completed" =>
         /\ used \in Local
         /\ outputs = (RenderFormats \cap Renders[used]) \X {used}
         /\ \A f \in job.formats :
              FormatResult(f) = "unavailable" <=> f \notin Renders[used]

(* With allow_source_fallback off, neither the registry nor the renderer   *)
(* puts another result in the place of the backend that was selected.      *)
FallbackOnlyIfAllowed ==
  /\ pc = "reported" /\ ~job.fallback /\ job.render /\ Requested # "source_only"
  => /\ status # "source_only"
     /\ status = "completed" => used = selection.effective

(* The fallback chain of a manifest ends with the backend it names as used *)
(* and takes no backend twice in a row, although two layers wrote it; and  *)
(* there is no fallback in it that was not allowed.                        *)
ChainTellsTheTruth ==
  /\ FallbackOnlyIfAllowed
  /\ pc = "reported" =>
       /\ \A i \in 1 .. Len(chain) - 1 : chain[i] # chain[i + 1]
       /\ status \in {"completed", "source_only"} => Last(chain) = BackendUsed

(* A completed job for a desktop adapter contains the STEP file it imports, *)
(* whether or not the request asked for one: failing kernels cannot replace *)
(* it with something else.  Only a runtime that went away can (the renderer *)
(* then falls back on OpenSCAD by itself, which makes no STEP).            *)
NeutralStep ==
  pc = "reported" /\ Requested \in Host /\ status = "completed"
    => \/ \E b \in Local : <<"step", b>> \in outputs
       \/ selection.effective \notin installed

=============================================================================
