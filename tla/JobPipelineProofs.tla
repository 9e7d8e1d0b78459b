-------------------------- MODULE JobPipelineProofs --------------------------
(***************************************************************************)
(* Proofs about one job's way from the choice of a backend to its          *)
(* manifest, for every request, every host, and any set of runtimes that   *)
(* may go away on the way.                                                 *)
(*                                                                         *)
(* The argument: what a layer decides stands in what it hands on (the      *)
(* selection, the renderer's kernel with its chain, the outputs promoted   *)
(* so far), so each later layer's decision is judged against these alone;  *)
(* and a runtime that goes away takes possibilities, never facts.          *)
(***************************************************************************)
EXTENDS JobPipeline, SequenceTheorems, WellFoundedInduction, TLAPS

----------------------------------------------------------------------------
(* Induction over the numbers, of a set rather than a predicate.           *)
LEMMA SetInduction ==
  ASSUME NEW S, 0 \in S, \A n \in Nat : n \in S => n + 1 \in S
  PROVE  Nat \subseteq S
  <1>. DEFINE T == Nat \ S
              R == OpToRel(<, Nat)
  <1>1. SUFFICES ASSUME T # {} PROVE FALSE
    OBVIOUS
  <1>2. IsWellFoundedOn(R, Nat)
    BY NatLessThanWellFounded
  <1>. HIDE DEF R
  <1>3. T \subseteq Nat
    OBVIOUS
  <1>. HIDE DEF T
  <1>4. PICK x \in T : \A y \in T : ~(<<y, x>> \in R)
    BY <1>1, <1>2, <1>3, WFMin
  <1>5. x \in Nat \ {0} /\ x - 1 \in Nat /\ x - 1 + 1 = x
    BY <1>3 DEF T
  <1>6. <<x - 1, x>> \in R
    BY <1>5 DEF R, OpToRel
  <1>7. x - 1 \in S
    BY <1>4, <1>5, <1>6 DEF T
  <1>. QED
    BY <1>5, <1>7 DEF T

----------------------------------------------------------------------------
(* Chains of fallbacks                                                     *)

NoRepeats(s) == \A i \in 1 .. Len(s) - 1 : s[i] # s[i + 1]

(* A chain of names, none twice in a row, and where it ends.               *)
ChainTo(s, end) ==
  s \in Seq(Names) /\ Len(s) >= 1 /\ NoRepeats(s) /\ Last(s) = end

LEMMA ChainOfOne ==
  ASSUME NEW a \in Names
  PROVE  ChainTo(<<a>>, a)
  BY DEF ChainTo, NoRepeats, Last

LEMMA ChainOfTwo ==
  ASSUME NEW a \in Names, NEW b \in Names, a # b
  PROVE  ChainTo(<<a, b>>, b)
  BY DEF ChainTo, NoRepeats, Last

LEMMA LongerChain ==
  ASSUME NEW s, NEW end, ChainTo(s, end), NEW b \in Names, b # end
  PROVE  ChainTo(Append(s, b), b)
  <1>1. /\ Append(s, b) \in Seq(Names) /\ Len(Append(s, b)) = Len(s) + 1
        /\ \A i \in 1 .. Len(s) : Append(s, b)[i] = s[i]
        /\ Append(s, b)[Len(s) + 1] = b
        /\ Len(s) \in Nat
    BY AppendProperties, LenProperties DEF ChainTo
  <1>. DEFINE t == Append(s, b)
  <1>. HIDE DEF t
  <1>2. NoRepeats(t)
    <2>. SUFFICES ASSUME NEW i \in 1 .. Len(s) PROVE t[i] # t[i + 1]
      BY <1>1 DEF NoRepeats, t
    <2>1. CASE i = Len(s)
      BY <1>1, <2>1 DEF ChainTo, Last, t
    <2>2. CASE i # Len(s)
      <3>1. i \in 1 .. Len(s) - 1 /\ i + 1 \in 1 .. Len(s)
        BY <1>1, <2>2
      <3>2. t[i] = s[i] /\ t[i + 1] = s[i + 1]
        BY <1>1, <3>1 DEF t
      <3>. QED
        BY <3>1, <3>2 DEF ChainTo, NoRepeats
    <2>. QED
      BY <2>1, <2>2
  <1>. QED
    BY <1>1, <1>2 DEF ChainTo, Last, t

(* The loop of _merge_fallback_chains does what its statements say.        *)
LEMMA MergingSteps ==
  ASSUME NEW selected, NEW runtime, Len(runtime) \in Nat
  PROVE  Merging(selected, runtime) =
           [i \in 0 .. Len(runtime) |->
              IF i = 0 THEN selected
              ELSE IF Last(Merging(selected, runtime)[i - 1]) = runtime[i]
              THEN Merging(selected, runtime)[i - 1]
              ELSE Append(Merging(selected, runtime)[i - 1], runtime[i])]
  <1>. DEFINE Step(before, name) ==
                IF Last(before) = name THEN before ELSE Append(before, name)
              Loop(f, n) ==
                f = [i \in 0 .. n |->
                       IF i = 0 THEN selected ELSE Step(f[i - 1], runtime[i])]
              S == {n \in Nat : \E f : Loop(f, n)}
  <1>. HIDE DEF Step
  <1>1. 0 \in S
    <2>. DEFINE f == [i \in 0 .. 0 |-> selected]
    <2>1. Loop(f, 0)
      OBVIOUS
    <2>. QED
      BY <2>1
  <1>2. ASSUME NEW n \in Nat, n \in S PROVE n + 1 \in S
    <2>1. PICK f : Loop(f, n)
      BY <1>2
    <2>. DEFINE g == [i \in 0 .. n + 1 |->
                        IF i <= n THEN f[i] ELSE Step(f[n], runtime[n + 1])]
    <2>2. \A i \in 0 .. n + 1 :
            g[i] = IF i = 0 THEN selected ELSE Step(g[i - 1], runtime[i])
      <3>. SUFFICES ASSUME NEW i \in 0 .. n + 1
                    PROVE  g[i] = IF i = 0 THEN selected
                                  ELSE Step(g[i - 1], runtime[i])
        OBVIOUS
      <3>1. CASE i = 0
        BY <2>1, <3>1
      <3>2. CASE i \in 1 .. n
        <4>1. g[i] = f[i] /\ g[i - 1] = f[i - 1]
          BY <3>2
        <4>2. f[i] = Step(f[i - 1], runtime[i])
          BY <2>1, <3>2
        <4>. QED
          BY <3>2, <4>1, <4>2
      <3>3. CASE i = n + 1
        <4>1. g[i] = Step(f[n], runtime[n + 1]) /\ g[i - 1] = f[n]
          BY <3>3
        <4>. QED
          BY <3>3, <4>1
      <3>. QED
        BY <3>1, <3>2, <3>3
    <2>3. Loop(g, n + 1)
      <3>. HIDE DEF g
      <3>1. g = [i \in 0 .. n + 1 |-> g[i]]
        BY DEF g
      <3>. QED
        BY <2>2, <3>1
    <2>. HIDE DEF g, Loop
    <2>. QED
      BY <2>3
  <1>3. Nat \subseteq S
    <2>. HIDE DEF S
    <2>. QED
      BY <1>1, <1>2, SetInduction
  <1>4. \E f : Loop(f, Len(runtime))
    BY <1>3
  <1>5. Merging(selected, runtime) = CHOOSE f : Loop(f, Len(runtime))
    BY DEF Merging, Step
  <1>6. Loop(Merging(selected, runtime), Len(runtime))
    <2>. HIDE DEF Loop
    <2>. QED
      BY <1>4, <1>5
  <1>. QED
    BY <1>6 DEF Step

(* The merged chain is a chain, and ends where the second one ends.        *)
LEMMA MergeChains ==
  ASSUME NEW selected, NEW end, ChainTo(selected, end),
         NEW runtime \in Seq(Names), Len(runtime) >= 1
  PROVE  ChainTo(Merge(selected, runtime), Last(runtime))
  <1>. DEFINE n == Len(runtime)
              f == Merging(selected, runtime)
              S == {i \in Nat : i \in 1 .. n => ChainTo(f[i], runtime[i])}
  <1>1. n \in Nat /\ \A i \in 1 .. n : runtime[i] \in Names
    BY LenProperties, ElementOfSeq
  <1>2. /\ f[0] = selected
        /\ \A i \in 1 .. n : f[i] = IF Last(f[i - 1]) = runtime[i] THEN f[i - 1]
                                    ELSE Append(f[i - 1], runtime[i])
    <2>. HIDE DEF f
    <2>1. f = [i \in 0 .. n |->
                 IF i = 0 THEN selected
                 ELSE IF Last(f[i - 1]) = runtime[i] THEN f[i - 1]
                 ELSE Append(f[i - 1], runtime[i])]
      BY <1>1, MergingSteps DEF f
    <2>. HIDE DEF n
    <2>2. \A i \in 0 .. n :
            f[i] = IF i = 0 THEN selected
                   ELSE IF Last(f[i - 1]) = runtime[i] THEN f[i - 1]
                   ELSE Append(f[i - 1], runtime[i])
      BY <2>1, Zenon
    <2>3. 0 \in 0 .. n /\ \A i \in 1 .. n : i \in 0 .. n /\ i # 0
      BY <1>1
    <2>. QED
      BY <2>2, <2>3, Zenon
  <1>. HIDE DEF f, n
  <1>3. ASSUME NEW i \in 1 .. n, NEW last, ChainTo(f[i - 1], last)
        PROVE  ChainTo(f[i], runtime[i])
    <2>1. runtime[i] \in Names /\ Last(f[i - 1]) = last
      BY <1>1, <1>3 DEF ChainTo
    <2>2. CASE last = runtime[i]
      BY <1>2, <1>3, <2>1, <2>2
    <2>3. CASE last # runtime[i]
      BY <1>2, <1>3, <2>1, <2>3, LongerChain
    <2>. QED
      BY <2>2, <2>3
  <1>4. 0 \in S
    OBVIOUS
  <1>5. ASSUME NEW i \in Nat, i \in S PROVE i + 1 \in S
    <2>. SUFFICES ASSUME i + 1 \in 1 .. n PROVE ChainTo(f[i + 1], runtime[i + 1])
      OBVIOUS
    <2>0. i + 1 - 1 = i
      OBVIOUS
    <2>1. CASE i = 0
      BY <1>2, <1>3, <2>0, <2>1
    <2>2. CASE i # 0
      <3>1. ChainTo(f[i], runtime[i])
        BY <1>1, <1>5, <2>2
      <3>. QED
        BY <1>3, <2>0, <3>1
    <2>. QED
      BY <2>1, <2>2
  <1>6. Nat \subseteq S
    <2>. HIDE DEF S
    <2>. QED
      BY <1>4, <1>5, SetInduction
  <1>7. n \in 1 .. n /\ n \in S
    BY <1>1, <1>6 DEF n
  <1>. QED
    BY <1>7 DEF Merge, Last, f, n

----------------------------------------------------------------------------
(* The invariant                                                           *)

Exact == {"cadquery", "build123d"}

(* A backend was asked for, and nothing else may take its place.           *)
Strict == ~job.fallback /\ job.render /\ Requested # "source_only"

Types ==
  /\ job \in Jobs /\ installed \subseteq Local
  /\ pc \in {"select", "compile", "start", "kernel", "run", "promote",
             "report", "reported", "aborted"}
  /\ selection.effective \in Local \cup {"source_only", "none"}
  /\ selection.chain \in Seq(Names)
  /\ sources \subseteq Local /\ todo \subseteq Formats
  /\ kernel \in Local \cup {"source_only", "none"}
  /\ tried \in Seq(Names) /\ chain \in Seq(Names)
  /\ outputs \subseteq Formats \X Local
  /\ status \in {"none", "source_only", "completed", "failed", "cancelled"}
  /\ used \in Names \cup {"not-run", "failed", "cancelled", "validation-blocked"}

(* What BackendRegistry.select hands on.                                   *)
Sound(s) ==
  /\ s.effective \in Local \cup {"source_only"}
  /\ ChainTo(s.chain, s.effective)
  /\ ~job.render => s.effective = "source_only"
  /\ Requested \in Host => s.effective \in Exact \cup {"source_only"}
  /\ Strict => s.effective # "source_only"

(* Nothing is there before the renderer's outputs are promoted.            *)
Nothing ==
  outputs = {} /\ status = "none" /\ used = "not-run" /\ chain = <<>> /\ todo = {}

(* Where a kernel came from.                                               *)
Rightful(b) ==
  /\ Strict => b = selection.effective
  /\ Requested \in Host =>
       b \in {selection.effective, "source_only"}
       \/ selection.effective \notin installed

AtKernel ==
  /\ job.render
  /\ kernel \in Local \cup {"source_only"}
  /\ ChainTo(tried, kernel)
  /\ Rightful(kernel)

(* The outputs of the kernel that are there already.                       *)
Promoting ==
  /\ kernel \in sources /\ todo # {} /\ todo \subseteq Renderable
  /\ outputs = (Renderable \ todo) \X {kernel}
  /\ status = "none" /\ used = "not-run" /\ chain = <<>>

(* What the manifest will say of a completed job, or of one that has only  *)
(* its sources.                                                            *)
Completed ==
  /\ used \in Local /\ Rightful(used) /\ ChainTo(chain, used)
  /\ outputs = (RenderFormats \cap Renders[used]) \X {used}

SourcesOnly ==
  /\ ~Strict /\ BackendUsed = "source_only"
  /\ \/ chain = <<>> /\ ~job.render
     \/ ChainTo(chain, "source_only")

Reporting ==
  /\ todo = {} /\ status # "none"
  /\ status = "completed" => Completed
  /\ status = "source_only" => SourcesOnly
  /\ status # "completed" => outputs = {}
  /\ status \in {"failed", "cancelled"} =>
       chain = <<>> \/ \E end \in Names : ChainTo(chain, end)
  /\ pc = "reported" => chain # <<>>

(* No output without its source file.                                      *)
FromSources ==
  /\ job.lossy => "openscad" \notin sources
  /\ \A f \in Formats, b \in Local : <<f, b>> \in outputs => b \in sources

PipelineInv ==
  /\ Types
  /\ pc \notin {"select", "aborted"} => Sound(selection)
  /\ pc \in {"select", "compile", "start", "kernel", "run"} => Nothing
  /\ pc \in {"start", "kernel", "run", "promote"} => job.render
  /\ pc \in {"kernel", "run", "promote"} => AtKernel
  /\ pc = "run" => Renderable # {}
  /\ pc = "promote" => Promoting
  /\ pc \in {"report", "reported"} => Reporting
  /\ FromSources

----------------------------------------------------------------------------
(* BackendRegistry.select                                                  *)

LEMMA FirstUsable ==
  ASSUME NEW a, NEW b, NEW x, x = SelectInSeq(<<a, b>>, Usable)
  PROVE  x \in {0, 1, 2} /\ (x = 1 => Usable(a)) /\ (x = 2 => Usable(b))
  <1>. DEFINE I == {i \in 1 .. Len(<<a, b>>) : Usable(<<a, b>>[i])}
  <1>1. I \subseteq {1, 2} /\ (1 \in I => Usable(a)) /\ (2 \in I => Usable(b))
    OBVIOUS
  <1>2. I # {} => Min(I) \in I
    <2>. SUFFICES ASSUME I # {} PROVE \E i \in I : \A j \in I : i <= j
      BY DEF Min
    <2>1. CASE 1 \in I
      BY <1>1, <2>1
    <2>2. CASE 1 \notin I
      BY <1>1, <2>2
    <2>. QED
      BY <2>1, <2>2
  <1>3. x = IF I # {} THEN Min(I) ELSE 0
    BY DEF SelectInSeq
  <1>. HIDE DEF I
  <1>4. x \in {0, 1, 2} /\ (x = 1 => 1 \in I) /\ (x = 2 => 2 \in I)
    <2>1. CASE I = {}
      <3>1. x = 0
        BY <1>3, <2>1
      <3>. QED
        BY <3>1
    <2>2. CASE I # {}
      <3>1. x \in I
        BY <1>2, <1>3, <2>2
      <3>. QED
        BY <1>1, <3>1
    <2>. QED
      BY <2>1, <2>2
  <1>. QED
    BY <1>1, <1>4, Zenon

LEMMA NamesOf ==
  /\ Local \subseteq Names /\ Ids \subseteq Names /\ "source_only" \in Names
  /\ "source_only" \notin Ids /\ Host \subseteq Ids /\ Host \cap Local = {}
  /\ Exact \subseteq Local /\ "openscad" \notin Exact
  BY DEF Names, Ids, Local, Host, Exact

LEMMA RequestType ==
  ASSUME Types
  PROVE  /\ Requested \in Ids \cup {"auto", "source_only"}
         /\ job.render \in BOOLEAN /\ job.fallback \in BOOLEAN
         /\ job.formats \subseteq Formats
  BY DEF Types, Jobs, Requested, Ids, Local

(* Of a named backend.                                                     *)
LEMMA NamedSound ==
  ASSUME Types, Requested \in Ids, NEW s \in SelectNamed(Requested)
  PROVE  Sound(s)
  <1>. DEFINE b == Requested
              sourceOnly == Selected("source_only", <<b, "source_only">>)
              k == <<"cadquery", "build123d">>[Bridge]
  <1>1. ChainTo(<<b, "source_only">>, "source_only")
    BY NamesOf, ChainOfTwo
  <1>2. \/ s = sourceOnly /\ ~Strict
        \/ /\ job.render /\ b \in Host /\ Bridge # 0
           /\ s = Selected(k, <<b, k>>)
        \/ /\ job.render /\ b \notin Host /\ b \in installed
           /\ s = Selected(b, <<b>>)
    BY RequestType DEF SelectNamed, OrRefuse, Strict
  <1>3. CASE s = sourceOnly /\ ~Strict
    BY <1>1, <1>3 DEF Sound, Selected
  <1>4. CASE job.render /\ b \in Host /\ Bridge # 0 /\ s = Selected(k, <<b, k>>)
    <2>0. Bridge \in {0, 1, 2}
      BY FirstUsable DEF Bridge
    <2>1. k \in Exact
      BY <1>4, <2>0 DEF Exact
    <2>2. ChainTo(<<b, k>>, k)
      <3>. HIDE DEF k
      <3>. QED
        BY <1>4, <2>1, NamesOf, ChainOfTwo
    <2>3. k \in Local /\ k # "source_only"
      BY <2>1 DEF Exact, Local
    <2>. HIDE DEF k
    <2>. QED
      BY <1>4, <2>1, <2>2, <2>3 DEF Sound, Selected
  <1>5. CASE job.render /\ b \notin Host /\ b \in installed
             /\ s = Selected(b, <<b>>)
    <2>1. b \in Local /\ b # "source_only" /\ ChainTo(<<b>>, b)
      BY <1>5, NamesOf, ChainOfOne DEF Types
    <2>. QED
      BY <1>5, <2>1 DEF Sound, Selected
  <1>. QED
    BY <1>2, <1>3, <1>4, <1>5

(* Of whatever the settings prefer.                                        *)
LEMMA AutoSound ==
  ASSUME Types, Requested = "auto", job.render, NEW s \in SelectAuto
  PROVE  Sound(s)
  <1>. DEFINE order == <<"cadquery", "openscad">>
              first == SelectInSeq(order, Usable)
  <1>1. Requested \notin Host
    BY DEF Host
  <1>2. first \in {0, 1, 2}
    BY FirstUsable
  <1>3. CASE first = 1
    <2>1. s = Selected("cadquery", SubSeq(order, 1, 1))
      BY <1>3 DEF SelectAuto
    <2>2. SubSeq(order, 1, 1) = <<"cadquery">>
      <3>1. order \in Seq(Names) /\ <<"cadquery">> \in Seq(Names)
        BY DEF Names, Ids, Local
      <3>2. /\ SubSeq(order, 1, 1) \in Seq(Names)
            /\ Len(SubSeq(order, 1, 1)) = 1
            /\ SubSeq(order, 1, 1)[1] = "cadquery"
        BY <3>1, SubSeqProperties
      <3>3. Len(<<"cadquery">>) = 1 /\ <<"cadquery">>[1] = "cadquery"
        OBVIOUS
      <3>. DEFINE t == SubSeq(order, 1, 1)
                  u == <<"cadquery">>
      <3>4. /\ t \in Seq(Names) /\ u \in Seq(Names) /\ Len(t) = Len(u)
            /\ \A i \in 1 .. Len(t) : t[i] = u[i]
        BY <3>1, <3>2, <3>3
      <3>. HIDE DEF order, t, u
      <3>. QED
        BY <3>4, SeqEqual DEF t, u
    <2>3. ChainTo(<<"cadquery">>, "cadquery")
      BY ChainOfOne DEF Names, Ids, Local
    <2>. QED
      BY <1>1, <2>1, <2>2, <2>3 DEF Sound, Selected, Local
  <1>4. CASE first = 2
    <2>1. s = Selected("openscad", SubSeq(order, 1, 2))
      BY <1>4 DEF SelectAuto
    <2>2. SubSeq(order, 1, 2) = order
      <3>1. order \in Seq(Names) /\ Len(order) = 2
        BY DEF Names, Ids, Local
      <3>. QED
        BY <3>1, SubSeqFull
    <2>3. ChainTo(order, "openscad")
      BY ChainOfTwo DEF Names, Ids, Local
    <2>. QED
      BY <1>1, <2>1, <2>2, <2>3 DEF Sound, Selected, Local
  <1>5. CASE first = 0
    <2>1. /\ s = Selected("source_only", Append(order, "source_only"))
          /\ job.fallback
      BY <1>5 DEF SelectAuto, OrRefuse
    <2>2. ChainTo(Append(order, "source_only"), "source_only")
      BY ChainOfTwo, LongerChain DEF Names, Ids, Local
    <2>. QED
      BY <1>1, <2>1, <2>2 DEF Sound, Selected, Strict
  <1>. QED
    BY <1>2, <1>3, <1>4, <1>5

LEMMA SelectionsSound ==
  ASSUME Types, NEW s \in Selections
  PROVE  Sound(s)
  <1>1. CASE Requested \in Ids
    <2>1. s \in SelectNamed(Requested)
      BY <1>1 DEF Selections, Ids, Local, Host
    <2>. QED
      BY <1>1, <2>1, NamedSound
  <1>2. CASE Requested = "source_only" \/ (Requested = "auto" /\ ~job.render)
    <2>1. s = Selected("source_only", <<"source_only">>)
      BY <1>2 DEF Selections
    <2>2. ChainTo(<<"source_only">>, "source_only")
      BY NamesOf, ChainOfOne
    <2>. QED
      BY <1>2, <2>1, <2>2 DEF Sound, Selected, Strict, Host
  <1>3. CASE Requested = "auto" /\ job.render
    <2>1. s \in SelectAuto
      BY <1>3 DEF Selections
    <2>. QED
      BY <1>3, <2>1, AutoSound
  <1>4. \/ Requested \in Ids
        \/ Requested = "source_only" \/ (Requested = "auto" /\ ~job.render)
        \/ Requested = "auto" /\ job.render
    BY RequestType
  <1>. QED
    BY <1>1, <1>2, <1>3, <1>4, Zenon

----------------------------------------------------------------------------
(* The steps                                                               *)

LEMMA SameJob ==
  ASSUME UNCHANGED job
  PROVE  /\ Requested' = Requested
         /\ Strict' <=> Strict
         /\ \A s : Sound(s)' <=> Sound(s)
  BY DEF Requested, Strict, Sound

(* After the selection: what stays as long as it does and no runtime goes. *)
LEMMA SameSelection ==
  ASSUME UNCHANGED <<job, selection, installed>>
  PROVE  /\ Requested' = Requested /\ (Strict' <=> Strict)
         /\ Sound(selection)' <=> Sound(selection)
         /\ RenderFormats' = RenderFormats
         /\ \A b : Rightful(b)' <=> Rightful(b)
  BY DEF Requested, Strict, Sound, RenderFormats, Rightful

LEMMA AbortInv ==
  ASSUME PipelineInv, NEW where, Abort(where)
  PROVE  PipelineInv'
  BY DEF PipelineInv, Abort, Types, FromSources

LEMMA SelectInv ==
  ASSUME PipelineInv, Select
  PROVE  PipelineInv'
  <1>1. /\ Types /\ pc = "select" /\ Nothing /\ FromSources
        /\ pc' = "compile" /\ selection' \in Selections
        /\ UNCHANGED <<job, installed, sources, kernel, tried, todo, outputs,
                       status, used, chain>>
    BY DEF PipelineInv, Select
  <1>2. Sound(selection') /\ Sound(selection)'
    <2>1. Sound(selection')
      BY <1>1, SelectionsSound
    <2>. QED
      BY <1>1, <2>1, SameJob DEF Sound
  <1>3. Types'
    BY <1>1, <1>2, NamesOf DEF Types, Sound, ChainTo
  <1>4. Nothing' /\ FromSources'
    BY <1>1 DEF Nothing, FromSources
  <1>. QED
    BY <1>1, <1>2, <1>3, <1>4 DEF PipelineInv

LEMMA CompileInv ==
  ASSUME PipelineInv, CompileSources
  PROVE  PipelineInv'
  <1>1. /\ Types /\ pc = "compile" /\ Nothing /\ Sound(selection)
        /\ UNCHANGED <<job, installed, selection, kernel, tried, todo, outputs,
                       chain>>
        /\ sources' \subseteq {b \in Local : Compiles(b)}
        /\ \/ /\ status' = "failed" /\ used' = "validation-blocked"
              /\ pc' = "report"
           \/ job.render /\ pc' = "start" /\ UNCHANGED <<status, used>>
           \/ /\ ~job.render /\ pc' = "report" /\ status' = "source_only"
              /\ used' = used
    BY RequestType DEF PipelineInv, CompileSources
  <1>2. Types'
    BY <1>1, NamesOf DEF Types, Nothing
  <1>3. Sound(selection)'
    BY <1>1, SameSelection
  <1>4. FromSources'
    BY <1>1 DEF FromSources, Nothing, Compiles
  <1>5. pc' = "start" => Nothing' /\ job'.render
    BY <1>1 DEF Nothing
  <1>6. pc' = "report" => Reporting'
    BY <1>1 DEF Reporting, Nothing, SourcesOnly, BackendUsed, Strict, Ids, Local,
               Host
  <1>. QED
    BY <1>1, <1>2, <1>3, <1>4, <1>5, <1>6 DEF PipelineInv

(* A failure or a cancellation before anything was promoted.               *)
LEMMA EndedEarly ==
  ASSUME PipelineInv, pc \in {"start", "kernel", "run"},
         NEW text \in {"failed", "cancelled"}, status' = text, used' = text,
         pc' = "report",
         UNCHANGED <<job, installed, selection, sources, kernel, tried, todo,
                     outputs, chain>>
  PROVE  PipelineInv'
  <1>1. Types /\ Nothing /\ Sound(selection) /\ FromSources
    BY DEF PipelineInv
  <1>2. Types'
    BY <1>1 DEF Types
  <1>3. Sound(selection)'
    BY <1>1, SameSelection
  <1>4. Reporting'
    BY <1>1 DEF Reporting, Nothing
  <1>5. FromSources'
    BY <1>1 DEF FromSources
  <1>. QED
    BY <1>2, <1>3, <1>4, <1>5 DEF PipelineInv

LEMMA StartInv ==
  ASSUME PipelineInv, Start
  PROVE  PipelineInv'
  <1>1. CASE Failed
    BY <1>1, EndedEarly DEF Start, Failed
  <1>2. ASSUME NEW b \in Chosen(selection.effective),
               kernel' = b, tried' = <<b>>, pc' = "kernel",
               UNCHANGED <<job, installed, selection, sources, todo, outputs,
                           status, used, chain>>
        PROVE  PipelineInv'
    <2>1. Types /\ Nothing /\ Sound(selection) /\ FromSources /\ job.render
      BY DEF PipelineInv, Start
    <2>2. /\ b \in Local \cup {"source_only"}
          /\ Strict => b = selection.effective
          /\ b = selection.effective \/ b = "source_only"
             \/ selection.effective \notin installed
      BY <1>2, <2>1 DEF Chosen, OrRefuse, Strict, Types, Local
    <2>3. AtKernel'
      <3>1. ChainTo(<<b>>, b)
        BY <2>2, NamesOf, ChainOfOne
      <3>2. Rightful(b)'
        BY <1>2, <2>2, SameSelection DEF Rightful
      <3>. QED
        BY <1>2, <2>1, <2>2, <3>1, <3>2 DEF AtKernel, Rightful
    <2>4. Types'
      BY <1>2, <2>1, <2>2, <2>3 DEF Types, AtKernel, ChainTo
    <2>5. Nothing' /\ FromSources' /\ Sound(selection)'
      BY <1>2, <2>1, SameSelection DEF Nothing, FromSources
    <2>. QED
      BY <1>2, <2>1, <2>3, <2>4, <2>5 DEF PipelineInv
  <1>. QED
    BY <1>1, <1>2 DEF Start

(* The renderer returns with nothing promoted.                             *)
LEMMA ReturnedInv ==
  ASSUME PipelineInv, pc = "kernel", NEW by, NEW result, NEW names,
         Returned(by, result, names), UNCHANGED todo,
         \/ /\ kernel \in Local /\ RenderFormats = {}
            /\ by = kernel /\ result = "completed" /\ names = tried
         \/ /\ by = "source_only" /\ result = "source_only"
            /\ names = WithSourceOnly /\ ~Strict
  PROVE  PipelineInv'
  <1>. DEFINE merged == Merge(selection.chain, names)
  <1>1. /\ Types /\ Nothing /\ Sound(selection) /\ FromSources /\ AtKernel
    BY DEF PipelineInv
  <1>2. /\ used' = by /\ status' = result /\ tried' = names
        /\ chain' = merged /\ pc' = "report"
        /\ UNCHANGED <<job, installed, selection, sources, kernel, outputs>>
    BY DEF Returned
  <1>3. ChainTo(names, by)
    <2>1. CASE names = tried /\ by = kernel
      BY <1>1, <2>1 DEF AtKernel
    <2>2. CASE names = WithSourceOnly /\ by = "source_only"
      <3>1. CASE Last(tried) = "source_only"
        BY <1>1, <2>2, <3>1 DEF AtKernel, WithSourceOnly, ChainTo
      <3>2. CASE Last(tried) # "source_only"
        <4>1. kernel # "source_only" /\ ChainTo(tried, kernel)
          BY <1>1, <3>2 DEF AtKernel, ChainTo
        <4>2. ChainTo(Append(tried, "source_only"), "source_only")
          BY <4>1, NamesOf, LongerChain
        <4>. QED
          BY <2>2, <3>2, <4>2 DEF WithSourceOnly
      <3>. QED
        BY <3>1, <3>2
    <2>. QED
      BY <2>1, <2>2
  <1>4. ChainTo(merged, by)
    <2>1. ChainTo(selection.chain, selection.effective)
      BY <1>1 DEF Sound
    <2>2. names \in Seq(Names) /\ Len(names) >= 1 /\ Last(names) = by
      BY <1>3 DEF ChainTo
    <2>. QED
      BY <2>1, <2>2, MergeChains
  <1>. HIDE DEF merged
  <1>5. Types'
    BY <1>1, <1>2, <1>3, <1>4, NamesOf DEF Types, ChainTo
  <1>6. Sound(selection)' /\ FromSources'
    BY <1>1, <1>2, SameSelection DEF FromSources
  <1>7. Reporting'
    <2>1. CASE by = kernel /\ kernel \in Local /\ RenderFormats = {}
               /\ result = "completed"
      <3>1. Rightful(used)' /\ RenderFormats' = {}
        BY <1>1, <1>2, <2>1, SameSelection DEF AtKernel, Rightful
      <3>2. outputs' = (RenderFormats \cap Renders[used])' \X {used'}
        BY <1>1, <1>2, <3>1 DEF Nothing
      <3>3. Completed'
        BY <1>2, <1>4, <2>1, <3>1, <3>2 DEF Completed
      <3>. QED
        BY <1>1, <1>2, <2>1, <3>3 DEF Reporting, Nothing
    <2>2. CASE by = "source_only" /\ result = "source_only" /\ ~Strict
      <3>1. SourcesOnly'
        BY <1>2, <1>4, <2>2, SameSelection, NamesOf
        DEF SourcesOnly, BackendUsed
      <3>. QED
        BY <1>1, <1>2, <2>2, <3>1 DEF Reporting, Nothing
    <2>. QED
      BY <2>1, <2>2
  <1>. QED
    BY <1>2, <1>5, <1>6, <1>7 DEF PipelineInv

LEMMA NothingToRunInv ==
  ASSUME PipelineInv, NothingToRun
  PROVE  PipelineInv'
  <1>0. pc = "kernel" /\ AtKernel /\ Sound(selection) /\ Types
    BY DEF PipelineInv, NothingToRun
  <1>1. CASE Failed
    BY <1>0, <1>1, EndedEarly DEF Failed
  <1>2. CASE kernel = "source_only" /\ UNCHANGED todo
             /\ Returned("source_only", "source_only", WithSourceOnly)
    <2>1. ~Strict
      BY <1>0, <1>2 DEF AtKernel, Rightful, Sound
    <2>. QED
      BY <1>0, <1>2, <2>1, ReturnedInv
  <1>3. CASE kernel \in Local /\ RenderFormats = {} /\ UNCHANGED todo
             /\ Returned(kernel, "completed", tried)
    BY <1>0, <1>3, ReturnedInv
  <1>4. CASE job.fallback /\ UNCHANGED todo
             /\ Returned("source_only", "source_only", WithSourceOnly)
    BY <1>0, <1>4, ReturnedInv DEF Strict
  <1>. QED
    BY <1>1, <1>2, <1>3, <1>4 DEF NothingToRun

LEMMA LaunchInv ==
  ASSUME PipelineInv, Launch
  PROVE  PipelineInv'
  <1>1. /\ Types /\ Nothing /\ Sound(selection) /\ FromSources /\ AtKernel
        /\ pc' = "run" /\ Renderable # {}
        /\ UNCHANGED <<job, installed, selection, sources, kernel, tried, todo,
                       outputs, status, used, chain>>
    BY DEF PipelineInv, Launch
  <1>2. Types' /\ Nothing' /\ FromSources' /\ job'.render
    BY <1>1 DEF Types, Nothing, FromSources, AtKernel
  <1>3. Sound(selection)' /\ AtKernel' /\ (Renderable # {})'
    BY <1>1, SameSelection DEF AtKernel, Rightful, Renderable
  <1>. QED
    BY <1>1, <1>2, <1>3 DEF PipelineInv

LEMMA RunSucceedsInv ==
  ASSUME PipelineInv, RunSucceeds
  PROVE  PipelineInv'
  <1>1. /\ Types /\ Nothing /\ Sound(selection) /\ FromSources /\ AtKernel
        /\ Renderable # {} /\ kernel \in sources
        /\ pc' = "promote" /\ todo' = Renderable
        /\ UNCHANGED <<job, installed, selection, sources, kernel, tried,
                       outputs, status, used, chain>>
    BY DEF PipelineInv, RunSucceeds
  <1>2. Renderable' = Renderable /\ Renderable \subseteq Formats
    <2>1. RenderFormats' = RenderFormats /\ RenderFormats \subseteq Formats
      BY <1>1, SameSelection, RequestType DEF RenderFormats, Formats
    <2>. QED
      BY <1>1, <2>1 DEF Renderable
  <1>3. Types' /\ FromSources' /\ job'.render
    BY <1>1, <1>2 DEF Types, FromSources, AtKernel
  <1>4. Sound(selection)' /\ AtKernel'
    BY <1>1, SameSelection DEF AtKernel, Rightful
  <1>5. Promoting'
    <2>1. (Renderable' \ todo') \X {kernel'} = {}
      BY <1>1, <1>2
    <2>. QED
      BY <1>1, <1>2, <2>1 DEF Promoting, Nothing
  <1>. QED
    BY <1>1, <1>3, <1>4, <1>5 DEF PipelineInv

(* Where the renderer may go after a failure.                              *)
LEMMA RunFailsInv ==
  ASSUME PipelineInv, RunFails
  PROVE  PipelineInv'
  <1>0. /\ Types /\ Nothing /\ Sound(selection) /\ FromSources /\ AtKernel
        /\ Renderable # {} /\ pc = "run"
    BY DEF PipelineInv, RunFails
  <1>1. CASE Failed
    BY <1>0, <1>1, EndedEarly DEF Failed
  <1>2. CASE /\ job.fallback
             /\ kernel' = NextKernel /\ tried' = Append(tried, NextKernel)
             /\ pc' = "kernel"
             /\ UNCHANGED <<job, installed, selection, sources, todo, outputs,
                            status, used, chain>>
    <2>. DEFINE b == NextKernel
    <2>1. kernel \in Local /\ kernel # "source_only"
      BY <1>0 DEF Renderable, Local
    <2>2. /\ b \in {"openscad", "source_only"} /\ b # kernel
          /\ b = "openscad" => kernel = "cadquery" /\ RenderFormats = {"stl"}
      BY <2>1 DEF NextKernel
    <2>3. b \in Local \cup {"source_only"} /\ b \in Names
      BY <2>2, NamesOf DEF Local
    <2>4. ~Strict /\ (Requested \in Host =>
                        b = "source_only" \/ selection.effective \notin installed)
      <3>. SUFFICES ASSUME Requested \in Host, b = "openscad",
                           selection.effective \in installed
                    PROVE  FALSE
        BY <1>2, <2>2 DEF Strict
      <3>1. kernel = "cadquery" /\ RenderFormats = {"stl"}
        BY <2>2
      <3>2. selection.effective = "cadquery"
        BY <1>0, <3>1 DEF AtKernel, Rightful
      <3>. QED
        BY <3>1, <3>2 DEF RenderFormats
    <2>5. ChainTo(Append(tried, b), b)
      <3>. HIDE DEF b
      <3>. QED
        BY <1>0, <2>2, <2>3, LongerChain DEF AtKernel
    <2>. HIDE DEF b
    <2>6. kernel' = b /\ tried' = Append(tried, b)
      BY <1>2 DEF b
    <2>7. AtKernel'
      <3>1. /\ ~Strict' /\ job'.render
            /\ Requested' \in Host => \/ kernel' = "source_only"
                                     \/ selection'.effective \notin installed'
        BY <1>0, <1>2, <2>4, <2>6, SameSelection DEF AtKernel
      <3>. QED
        BY <2>3, <2>5, <2>6, <3>1 DEF AtKernel, Rightful
    <2>8. Types'
      BY <1>0, <1>2, <2>3, <2>5, <2>6 DEF Types, ChainTo
    <2>9. Nothing' /\ FromSources' /\ Sound(selection)' /\ job'.render
      BY <1>0, <1>2, SameSelection DEF Nothing, FromSources, AtKernel
    <2>. QED
      BY <1>2, <2>7, <2>8, <2>9 DEF PipelineInv
  <1>. QED
    BY <1>1, <1>2 DEF RunFails

LEMMA CancelledInv ==
  ASSUME PipelineInv, Cancelled
  PROVE  PipelineInv'
  BY EndedEarly DEF Cancelled

LEMMA PromoteInv ==
  ASSUME PipelineInv, Promote
  PROVE  PipelineInv'
  <1>0. /\ Types /\ Sound(selection) /\ FromSources /\ AtKernel /\ Promoting
        /\ pc = "promote" /\ kernel \in Local
        /\ UNCHANGED <<job, installed, selection, sources, kernel, tried>>
    BY DEF PipelineInv, Promote, Promoting, Types
  <1>1. PICK f \in todo :
          /\ outputs' = outputs \cup {<<f, kernel>>}
          /\ todo' = todo \ {f}
          /\ \/ /\ todo' = {} /\ used' = kernel /\ status' = "completed"
                /\ chain' = Merge(selection.chain, tried) /\ pc' = "report"
             \/ todo' # {} /\ UNCHANGED <<used, status, chain, pc>>
    BY DEF Promote, Promoted
  <1>2. /\ Renderable' = Renderable /\ RenderFormats' = RenderFormats
        /\ Renderable = RenderFormats \cap Renders[kernel]
    BY <1>0, SameSelection DEF Renderable
  <1>3. outputs' = (Renderable \ todo') \X {kernel}
    <2>1. /\ f \in Renderable /\ todo \subseteq Renderable
          /\ outputs = (Renderable \ todo) \X {kernel}
      BY <1>0, <1>1 DEF Promoting
    <2>2. Renderable \ todo' = (Renderable \ todo) \cup {f}
      BY <1>1, <2>1
    <2>. QED
      BY <1>1, <2>1, <2>2
  <1>4. ChainTo(Merge(selection.chain, tried), kernel)
    <2>1. /\ ChainTo(selection.chain, selection.effective)
          /\ tried \in Seq(Names) /\ Len(tried) >= 1 /\ Last(tried) = kernel
      BY <1>0 DEF Sound, AtKernel, ChainTo
    <2>. QED
      BY <2>1, MergeChains
  <1>5. f \in Formats /\ f \in todo /\ todo' \subseteq Formats
    BY <1>0, <1>1 DEF Types
  <1>6. Types'
    <2>1. outputs' \subseteq Formats \X Local /\ kernel \in Names
      BY <1>0, <1>1, <1>5, NamesOf DEF Types
    <2>2. chain' \in Seq(Names)
      BY <1>0, <1>1, <1>4 DEF Types, ChainTo
    <2>. QED
      BY <1>0, <1>1, <1>5, <2>1, <2>2 DEF Types
  <1>7. Sound(selection)' /\ AtKernel' /\ job'.render
    BY <1>0, SameSelection DEF AtKernel, Rightful
  <1>8. FromSources'
    BY <1>0, <1>1 DEF FromSources, Promoting
  <1>9. CASE todo' = {} /\ used' = kernel /\ status' = "completed"
             /\ chain' = Merge(selection.chain, tried) /\ pc' = "report"
    <2>1. outputs' = (RenderFormats' \cap Renders[used']) \X {used'}
      BY <1>2, <1>3, <1>9
    <2>2. Rightful(used)'
      BY <1>0, <1>9, SameSelection DEF AtKernel, Rightful
    <2>3. Reporting'
      BY <1>0, <1>4, <1>9, <2>1, <2>2 DEF Reporting, Completed
    <2>. QED
      BY <1>6, <1>7, <1>8, <1>9, <2>3 DEF PipelineInv
  <1>10. CASE todo' # {} /\ UNCHANGED <<used, status, chain, pc>>
    <2>1. Promoting'
      <3>1. todo' \subseteq Renderable'
        BY <1>0, <1>1, <1>2 DEF Promoting
      <3>2. outputs' = (Renderable' \ todo') \X {kernel'}
        BY <1>0, <1>2, <1>3
      <3>. QED
        BY <1>0, <1>10, <3>1, <3>2 DEF Promoting
    <2>. QED
      BY <1>0, <1>6, <1>7, <1>8, <1>10, <2>1 DEF PipelineInv
  <1>. QED
    BY <1>1, <1>9, <1>10

LEMMA ReportInv ==
  ASSUME PipelineInv, Report
  PROVE  PipelineInv'
  <1>0. /\ Types /\ Sound(selection) /\ FromSources /\ Reporting
        /\ pc' = "reported"
        /\ UNCHANGED <<job, installed, selection, sources, kernel, tried, todo,
                       outputs, status, used>>
    BY DEF PipelineInv, Report
  <1>1. \/ chain = <<>> /\ chain' = selection.chain
        \/ chain # <<>> /\ chain' = chain
    BY DEF Report
  <1>2. /\ ChainTo(selection.chain, selection.effective)
        /\ selection.effective \in Names
    BY <1>0, NamesOf DEF Sound
  <1>3. \A s, end : ChainTo(s, end) => s # <<>>
    BY DEF ChainTo
  <1>4. Types' /\ FromSources' /\ Sound(selection)'
    <2>1. chain' \in Seq(Names)
      BY <1>0, <1>1 DEF Types
    <2>. QED
      BY <1>0, <2>1, SameSelection DEF Types, FromSources
  <1>5. chain' # <<>>
    BY <1>1, <1>2, <1>3
  <1>6. status = "completed" => Completed'
    <2>. SUFFICES ASSUME status = "completed" PROVE Completed'
      OBVIOUS
    <2>1. Completed /\ chain' = chain
      BY <1>0, <1>1, <1>3 DEF Reporting, Completed
    <2>. QED
      BY <1>0, <2>1, SameSelection DEF Completed, Rightful
  <1>7. status = "source_only" => SourcesOnly'
    <2>. SUFFICES ASSUME status = "source_only" PROVE SourcesOnly'
      OBVIOUS
    <2>1. SourcesOnly /\ BackendUsed' = BackendUsed /\ (Strict' <=> Strict)
      BY <1>0, SameSelection DEF Reporting, BackendUsed
    <2>2. ChainTo(chain', "source_only")
      <3>1. CASE chain = <<>> /\ ~job.render
        BY <1>0, <1>1, <1>2, <3>1 DEF Sound
      <3>2. CASE ChainTo(chain, "source_only")
        BY <1>1, <1>3, <3>2
      <3>. QED
        BY <2>1, <3>1, <3>2 DEF SourcesOnly
    <2>. QED
      BY <2>1, <2>2 DEF SourcesOnly
  <1>8. status \in {"failed", "cancelled"} =>
          \E end \in Names : ChainTo(chain', end)
    BY <1>0, <1>1, <1>2 DEF Reporting
  <1>9. Reporting'
    BY <1>0, <1>5, <1>6, <1>7, <1>8 DEF Reporting
  <1>. QED
    BY <1>0, <1>4, <1>9 DEF PipelineInv

(* A runtime that goes away takes nothing from what was established.       *)
LEMMA VanishInv ==
  ASSUME PipelineInv, NEW b \in Local, Vanish(b)
  PROVE  PipelineInv'
  <1>1. /\ installed' \subseteq installed
        /\ UNCHANGED <<job, pc, selection, sources, kernel, tried, todo,
                       outputs, status, used, chain>>
    BY DEF Vanish
  <1>2. /\ Requested' = Requested /\ (Strict' <=> Strict)
        /\ (Sound(selection)' <=> Sound(selection))
        /\ RenderFormats' = RenderFormats /\ Renderable' = Renderable
    BY <1>1 DEF Requested, Strict, Sound, RenderFormats, Renderable
  <1>3. /\ Rightful(kernel) => Rightful(kernel)'
        /\ Rightful(used) => Rightful(used)'
    BY <1>1, <1>2 DEF Rightful
  <1>4. Types => Types'
    BY <1>1 DEF Types
  <1>5. Nothing => Nothing'
    BY <1>1 DEF Nothing
  <1>6. AtKernel => AtKernel'
    BY <1>1, <1>3 DEF AtKernel
  <1>7. Promoting => Promoting'
    BY <1>1, <1>2 DEF Promoting
  <1>8. Reporting => Reporting'
    <2>1. Completed => Completed'
      BY <1>1, <1>2, <1>3 DEF Completed
    <2>2. SourcesOnly => SourcesOnly'
      BY <1>1, <1>2 DEF SourcesOnly, BackendUsed
    <2>. QED
      BY <1>1, <2>1, <2>2 DEF Reporting
  <1>9. FromSources => FromSources'
    BY <1>1 DEF FromSources
  <1>. QED
    BY <1>1, <1>2, <1>4, <1>5, <1>6, <1>7, <1>8, <1>9 DEF PipelineInv

LEMMA IdleInv ==
  ASSUME PipelineInv, UNCHANGED vars
  PROVE  PipelineInv'
  <1>1. UNCHANGED <<job, installed, pc, selection, sources, kernel, tried,
                    todo, outputs, status, used, chain>>
    BY DEF vars
  <1>2. /\ (Sound(selection)' <=> Sound(selection)) /\ (Strict' <=> Strict)
        /\ RenderFormats' = RenderFormats /\ Renderable' = Renderable
        /\ \A b : Rightful(b)' <=> Rightful(b)
    BY <1>1, SameSelection DEF Renderable
  <1>3. /\ Types' <=> Types
        /\ Nothing' <=> Nothing
        /\ FromSources' <=> FromSources
    BY <1>1 DEF Types, Nothing, FromSources
  <1>4. /\ AtKernel' <=> AtKernel
        /\ Promoting' <=> Promoting
    BY <1>1, <1>2 DEF AtKernel, Promoting, Rightful
  <1>5. Reporting' <=> Reporting
    <2>1. /\ Completed' <=> Completed
          /\ SourcesOnly' <=> SourcesOnly
      BY <1>1, <1>2 DEF Completed, SourcesOnly, BackendUsed, Rightful
    <2>. QED
      BY <1>1, <2>1 DEF Reporting
  <1>. QED
    BY <1>1, <1>2, <1>3, <1>4, <1>5 DEF PipelineInv

LEMMA PipelineStart ==
  ASSUME Init
  PROVE  PipelineInv
  <1>1. Types
    BY EmptySeq DEF Init, Types, Hosts, NoSelection, Names
  <1>. QED
    BY <1>1 DEF Init, PipelineInv, Nothing, FromSources

LEMMA PipelineStep ==
  ASSUME PipelineInv, [Next]_vars
  PROVE  PipelineInv'
  <1>1. CASE UNCHANGED vars
    BY <1>1, IdleInv
  <1>2. CASE Select
    BY <1>2, SelectInv
  <1>3. CASE RefuseJob \/ CancelEarly \/ DiskError
    BY <1>3, AbortInv DEF RefuseJob, CancelEarly, DiskError
  <1>4. CASE CompileSources
    BY <1>4, CompileInv
  <1>5. CASE Start
    BY <1>5, StartInv
  <1>6. CASE NothingToRun
    BY <1>6, NothingToRunInv
  <1>7. CASE Launch
    BY <1>7, LaunchInv
  <1>8. CASE RunSucceeds
    BY <1>8, RunSucceedsInv
  <1>9. CASE RunFails
    BY <1>9, RunFailsInv
  <1>10. CASE Cancelled
    BY <1>10, CancelledInv
  <1>11. CASE Promote
    BY <1>11, PromoteInv
  <1>12. CASE Report
    BY <1>12, ReportInv
  <1>13. CASE \E b \in Local : Vanish(b)
    BY <1>13, VanishInv
  <1>. QED
    BY <1>1, <1>2, <1>3, <1>4, <1>5, <1>6, <1>7, <1>8, <1>9, <1>10, <1>11,
       <1>12, <1>13 DEF Next

----------------------------------------------------------------------------
(* The theorems                                                            *)

(* What the three layers have decided so far stands at every step of a job *)
(* (BackendRegistry.select, _materialize and render).                      *)
THEOREM PipelineInvariant == Spec => []PipelineInv
  <1>1. Init => PipelineInv
    BY PipelineStart
  <1>2. PipelineInv /\ [Next]_vars => PipelineInv'
    BY PipelineStep
  <1>. QED
    BY <1>1, <1>2, PTL DEF Spec

(* The state of a job has its type, and once it is to be reported nothing  *)
(* is left to promote and it has a status (_materialize).                  *)
THEOREM PipelineTypes == Spec => []TypeOK
  <1>1. PipelineInv => TypeOK
    <2>. SUFFICES ASSUME PipelineInv PROVE TypeOK
      OBVIOUS
    <2>1. \A s \in Seq(Names) : ToSet(s) \subseteq Names
      <3>. SUFFICES ASSUME NEW s \in Seq(Names), NEW i \in DOMAIN s
                    PROVE  s[i] \in Names
        BY DEF ToSet
      <3>. QED
        OBVIOUS
    <2>2. Types /\ (pc \in {"report", "reported"} => Reporting)
      BY DEF PipelineInv
    <2>3. ToSet(tried) \cup ToSet(chain) \cup ToSet(selection.chain)
            \subseteq Names
      BY <2>1, <2>2 DEF Types
    <2>. QED
      BY <2>2, <2>3 DEF TypeOK, Types, Reporting
  <1>. QED
    BY <1>1, PipelineInvariant, PTL

(* No document with fillets or chamfers gets geometry from OpenSCAD, on    *)
(* whatever path: no output of it is without its source file, and the      *)
(* compiler of openscad.py makes none for such a document.                 *)
THEOREM NothingLossy == Spec => []NoLossyOutput
  <1>1. PipelineInv => NoLossyOutput
    BY DEF PipelineInv, FromSources, NoLossyOutput, Local
  <1>. QED
    BY <1>1, PipelineInvariant, PTL

(* A manifest's outputs and format_results are those of one kernel, whole, *)
(* or there are none (_promote_outputs and _materialize).                  *)
THEOREM OutputsAreWhole == Spec => []WholeOrNothing
  <1>1. PipelineInv => WholeOrNothing
    <2>. SUFFICES ASSUME PipelineInv, pc = "reported"
                  PROVE  /\ status # "completed" => outputs = {}
                         /\ status = "completed" =>
                              /\ used \in Local
                              /\ outputs = (RenderFormats \cap Renders[used])
                                             \X {used}
                              /\ \A f \in job.formats :
                                   FormatResult(f) = "unavailable"
                                     <=> f \notin Renders[used]
      BY DEF WholeOrNothing
    <2>1. Reporting /\ Types
      BY DEF PipelineInv
    <2>2. ASSUME status = "completed", NEW f \in job.formats
          PROVE  FormatResult(f) = "unavailable" <=> f \notin Renders[used]
      <3>1. Completed /\ f \in RenderFormats
        BY <2>1, <2>2 DEF Reporting, RenderFormats
      <3>2. (\E b \in Local : <<f, b>> \in outputs) <=> f \in Renders[used]
        BY <3>1 DEF Completed
      <3>3. FormatResult(f) = IF \E b \in Local : <<f, b>> \in outputs
                              THEN "produced" ELSE "unavailable"
        BY <2>2 DEF FormatResult
      <3>. QED
        BY <3>2, <3>3
    <2>. QED
      BY <2>1, <2>2 DEF Reporting, Completed
  <1>. QED
    BY <1>1, PipelineInvariant, PTL

(* The chain of a manifest takes no backend twice in a row, ends where the *)
(* manifest says, and holds no fallback that was not allowed, although the *)
(* registry and the renderer each wrote a part (_merge_fallback_chains).   *)
THEOREM ChainsAreTrue == Spec => []ChainTellsTheTruth
  <1>1. PipelineInv => FallbackOnlyIfAllowed
    <2>. SUFFICES ASSUME PipelineInv, pc = "reported", Strict
                  PROVE  /\ status # "source_only"
                         /\ status = "completed" => used = selection.effective
      BY DEF FallbackOnlyIfAllowed, Strict
    <2>1. Reporting
      BY DEF PipelineInv
    <2>. QED
      BY <2>1 DEF Reporting, SourcesOnly, Completed, Rightful
  <1>2. ASSUME PipelineInv, pc = "reported"
        PROVE  /\ \A i \in 1 .. Len(chain) - 1 : chain[i] # chain[i + 1]
               /\ status \in {"completed", "source_only"} =>
                    Last(chain) = BackendUsed
    <2>1. Reporting /\ Types
      BY <1>2 DEF PipelineInv
    <2>2. CASE status = "completed"
      <3>1. ChainTo(chain, used) /\ used \in Ids
        BY <2>1, <2>2 DEF Reporting, Completed, Ids
      <3>. QED
        BY <2>2, <3>1 DEF ChainTo, NoRepeats, BackendUsed
    <2>3. CASE status = "source_only"
      <3>1. ChainTo(chain, "source_only") /\ BackendUsed = "source_only"
        BY <1>2, <2>1, <2>3 DEF Reporting, SourcesOnly
      <3>. QED
        BY <2>3, <3>1 DEF ChainTo, NoRepeats
    <2>4. CASE status \in {"failed", "cancelled"}
      <3>1. \E end \in Names : ChainTo(chain, end)
        BY <1>2, <2>1, <2>4 DEF Reporting
      <3>. QED
        BY <2>4, <3>1 DEF ChainTo, NoRepeats
    <2>. QED
      BY <2>1, <2>2, <2>3, <2>4 DEF Types, Reporting
  <1>3. PipelineInv => ChainTellsTheTruth
    BY <1>1, <1>2 DEF ChainTellsTheTruth
  <1>. QED
    BY <1>3, PipelineInvariant, PTL

(* A completed job for a desktop adapter has its neutral STEP file, unless *)
(* the runtime that was chosen to make it went away (_materialize and      *)
(* render: the formats to render, and the fallback on OpenSCAD).           *)
THEOREM StepFilesAreThere == Spec => []NeutralStep
  <1>1. PipelineInv => NeutralStep
    <2>. SUFFICES ASSUME PipelineInv, pc = "reported", Requested \in Host,
                         status = "completed",
                         selection.effective \in installed
                  PROVE  \E b \in Local : <<"step", b>> \in outputs
      BY DEF NeutralStep
    <2>1. Completed /\ Sound(selection)
      BY DEF PipelineInv, Reporting
    <2>2. used = selection.effective /\ used \in Exact
      <3>1. used \in Local /\ "source_only" \notin Local
        BY <2>1 DEF Completed, Local
      <3>. QED
        BY <2>1, <3>1 DEF Completed, Rightful, Sound
    <2>3. "step" \in RenderFormats
      BY <2>2 DEF RenderFormats, Exact
    <2>4. "step" \in Renders[used]
      BY <2>2 DEF Renders, Exact, Local, Formats
    <2>. QED
      BY <2>1, <2>3, <2>4 DEF Completed
  <1>. QED
    BY <1>1, PipelineInvariant, PTL

=============================================================================
