------------------------------ MODULE Planning ------------------------------
(***************************************************************************)
(* From a prompt to a document: JobService.plan, the choice of a planner   *)
(* (PlannerFactory), the calls of a language model and what happens when   *)
(* they fail (OpenAICompatiblePlanner), and the planner that follows rules *)
(* (Intent).  The document is judged and goes back to the user, who posts  *)
(* it; from there on it is a document like any other (DxfAnalysis).        *)
(***************************************************************************)
EXTENDS DxfAnalysis, Intent

CONSTANTS
  Prompts,       \* what the rules recognise in a prompt (words of Intent)
  Answers,       \* what a language model may answer (intents)
  MaxRetries     \* llm_max_retries

Intents == Answers \cup {RuleIntent(words) : words \in Prompts}

ASSUME PlansAssumption ==
  /\ MaxRetries \in Nat
  /\ \A i \in Intents : IsIntent(i) /\ OnLattice(i)

Asks == [effective: {"auto", "rule", "agent", "llm"},   \* requested, or planner_mode
         standard: BOOLEAN,     \* does the prompt name a NEMA17
         configured: BOOLEAN,   \* llm_is_configured
         fallback: BOOLEAN]     \* llm_fallback_to_rule

VARIABLES
  ask,       \* the request and the settings
  calls,     \* of the language model that failed
  answer,    \* how the last call ended
  intent,    \* what the document was made from
  planner    \* planner_used

plan == <<ask, calls, answer, intent, planner>>

NoAsk == [effective |-> "none"]
NoIntent == [groups |-> <<>>]

NoPlan ==
  /\ ask = NoAsk /\ calls = 0 /\ answer = "none"
  /\ intent = NoIntent /\ planner = "none"

PlanInit ==
  /\ drawing = NoDrawing /\ Begin
  /\ pc = "plan" /\ document = NoDocument
  /\ ask \in Asks
  /\ calls = 0 /\ answer = "none" /\ intent = NoIntent /\ planner = "none"

upload == <<drawing, input, loop, holes, tree, confirmed>>

AsksLlm == ask.effective = "llm" \/ (ask.effective = "auto" /\ ask.configured)

AsksAgent == ask.effective \in {"auto", "agent"} /\ ask.standard

(* The bracket the standard planner makes is left out: its holes are not   *)
(* on the lattice.                                                         *)
PlanByAgent ==
  /\ pc = "plan" /\ AsksAgent
  /\ pc' = "standard" /\ planner' = "standard-agent"
  /\ UNCHANGED <<upload, document, errors, ask, calls, answer, intent>>

PlannerError == pc' = "refused" /\ errors' = {"planner"}

(* The standard planner finds no standard; nothing takes its place.        *)
AgentFails ==
  /\ pc = "plan" /\ ask.effective = "agent" /\ ~ask.standard
  /\ PlannerError
  /\ UNCHANGED <<upload, document, plan>>

AskRules ==
  /\ pc = "plan" /\ ~AsksAgent /\ ~AsksLlm /\ ask.effective # "agent"
  /\ pc' = "rule" /\ planner' = "rule"
  /\ UNCHANGED <<upload, document, errors, ask, calls, answer, intent>>

(* The factory catches a PlannerError of the language model's planner.     *)
LlmFails ==
  IF ask.fallback THEN pc' = "rule" /\ planner' = "rule-fallback" /\ UNCHANGED errors
                  ELSE PlannerError /\ UNCHANGED planner

NotConfigured ==
  /\ pc = "plan" /\ ask.effective = "llm" /\ ~ask.configured
  /\ LlmFails
  /\ UNCHANGED <<upload, document, ask, calls, answer, intent>>

AskLlm ==
  /\ pc = "plan" /\ ~AsksAgent /\ AsksLlm /\ ask.configured
  /\ pc' = "call"
  /\ UNCHANGED <<upload, document, errors, plan>>

(* The plan is judged before it is returned.                               *)
Made(i, by) ==
  /\ pc' = "planned"
  /\ intent' = i /\ planner' = by
  /\ document' = IntentDocument(i)
  /\ errors' = Errors(IntentDocument(i))

Answered ==
  /\ pc = "call"
  /\ \E i \in Answers : FitsSchema(IntentDocument(i)) /\ Made(i, "llm")
  /\ answer' = "good"
  /\ UNCHANGED <<upload, ask, calls>>

TriesLeft(failed) == failed <= MaxRetries

(* No connection, no time, no JSON, or an answer outside the schema of an  *)
(* intent or of the document it is for.                                    *)
CallFails ==
  /\ pc = "call"
  /\ calls' = calls + 1
  /\ IF TriesLeft(calls + 1) THEN UNCHANGED <<pc, errors, planner>> ELSE LlmFails
  /\ answer' = "failed"
  /\ UNCHANGED <<upload, document, ask, intent>>

(* A refusal, or a message without text: nobody tries again.               *)
Declined ==
  /\ pc = "call"
  /\ answer' = "declined"
  /\ LlmFails
  /\ UNCHANGED <<upload, document, ask, calls, intent>>

(* No choice at all, or one without a message: an IndexError or an         *)
(* AttributeError, for which there is neither a retry nor a fallback.      *)
Unforeseen ==
  /\ pc = "call"
  /\ answer' = "unforeseen"
  /\ PlannerError
  /\ UNCHANGED <<upload, document, ask, calls, intent, planner>>

PlanByRules ==
  /\ pc = "rule"
  /\ \E words \in Prompts :
       LET i == RuleIntent(words) IN
       IF FitsSchema(IntentDocument(i)) THEN Made(i, planner)
       ELSE /\ pc' = "refused" /\ errors' = {"schema"}
            /\ UNCHANGED <<document, intent, planner>>
  /\ UNCHANGED <<upload, ask, calls, answer>>

(* The user sends the document back, or the job goes on with it.           *)
UsePlan ==
  /\ pc = "planned"
  /\ pc' = "validate" /\ errors' = {}
  /\ ask' = NoAsk /\ calls' = 0 /\ answer' = "none"
  /\ intent' = NoIntent /\ planner' = "none"
  /\ UNCHANGED <<upload, document>>

PlanNext ==
  \/ PlanByAgent \/ AgentFails \/ AskRules \/ NotConfigured \/ AskLlm
  \/ Answered \/ CallFails \/ Declined \/ Unforeseen \/ PlanByRules \/ UsePlan

----------------------------------------------------------------------------
(* Properties                                                              *)

(* Nobody's work but that of the planner that was asked for is returned,   *)
(* unless it is the language model's, fallback is allowed, and the model   *)
(* was given every try.                                                    *)
PlannerAsAsked ==
  CASE planner = "rule" -> ~AsksLlm /\ ~AsksAgent /\ ask.effective # "agent"
    [] planner = "llm" -> AsksLlm
    [] planner = "rule-fallback" ->
         /\ AsksLlm /\ ask.fallback
         /\ ask.configured => answer = "declined" \/ calls = MaxRetries + 1

HolesAsked(g) ==
  CASE g.layout = "four_corners" -> Lesser(g.count, 4)
    [] g.layout = "explicit" /\ g.positions # <<>> -> Lesser(g.count, Len(g.positions))
    [] OTHER -> g.count

(* Holes before those of the n-th group.                                   *)
HolesBefore(n) ==
  Cardinality(UNION {{m} \X (1 .. HolesAsked(intent.groups[m])) : m \in 1 .. n - 1})

TooDeepHole == {"blind_depth_exceeds_material", "counterbore_depth_exceeds_material"}

(* Nothing the planner invents for a hole is what the validator refuses:   *)
(* not its depth, and in a part with flat faces not its position, as long  *)
(* as the hole is no larger than the margin.                               *)
InventionsFit ==
  LET base == document.base
      margin(axis) == SafeMargin(base, axis, Margin(intent.params))
  IN \A n \in DOMAIN intent.groups :
       LET g == intent.groups[n] IN
       \A i \in 1 .. HolesAsked(g) :
         LET h == document.holes[HolesBefore(n) + i] IN
         /\ g.depth = 0 => DepthErrors(base, h) \cap TooDeepHole = {}
         /\ /\ g.layout \in {"center", "line_x", "four_corners"}
            /\ base.kind \in {"plate", "enclosure", "l_bracket"}
            /\ EffectiveDiameter(h) <= 2 * margin(h.axis)
            => BoundaryErrors(base, h) = {}

(* A plan is by the right planner, has all the holes that were asked for,  *)
(* and no invention of its own is wrong; and there is no plan only if none *)
(* was possible: with a fallback, a language model that fails never stands *)
(* in the way, except by an answer of a shape nobody thought of.           *)
PlansAreSound ==
  /\ pc = "planned" =>
       /\ PlannerAsAsked
       /\ Len(document.holes) = HolesBefore(Len(intent.groups) + 1)
       /\ InventionsFit
  /\ pc = "refused" /\ errors = {"planner"} =>
       ask.effective = "agent" \/ ~ask.fallback \/ answer = "unforeseen"

=============================================================================
