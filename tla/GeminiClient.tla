----------------------------- MODULE GeminiClient -----------------------------
(***************************************************************************)
(* The calls of src/backend/app/services/llm.py: analyses, earnings        *)
(* summaries and answers.  A model turns a call down when its pool is      *)
(* spent (429) or when it is overloaded (503); the call goes once to its   *)
(* fallback.  Malformed structured output is asked for again; only an      *)
(* answer has a deadline, one for both models.  llm_guards.llm_errors      *)
(* turns what is raised into a status.                                     *)
(***************************************************************************)
EXTENDS Naturals

CONSTANTS
    Prompts,     \* calls under way
    Flash,       \* settings.gemini_model
    Others,      \* other models a setting may name
    Unset        \* ""

VARIABLES
    qaModel,     \* settings.gemini_qa_model
    spare,       \* settings.gemini_fallback_model
    kind,        \* kind[c]: "analysis", "earnings" or "answer"
    askedOf,     \* askedOf[c]: the model c is out to, or Unset
    round,       \* round[c]: the attempt at well-formed output
    refusedBy,   \* refusedBy[c]: the models that turned c down in this attempt
    status       \* status[c]: "idle", "open" or the HTTP status of its end

geminiVars == <<qaModel, spare, kind, askedOf, round, refusedBy, status>>
settings == <<qaModel, spare>>

GeminiInit ==
    /\ qaModel \in {Unset, Flash} \cup Others
    /\ spare \in {Unset, Flash} \cup Others
    /\ kind = [c \in Prompts |-> "analysis"]
    /\ askedOf = [c \in Prompts |-> Unset]
    /\ round = [c \in Prompts |-> 1]
    /\ refusedBy = [c \in Prompts |-> {}]
    /\ status = [c \in Prompts |-> "idle"]

\* Mutant: sharing the analysis model leaves answers without a fallback.
QaModelsNoSpare ==
    <<IF qaModel # Unset THEN qaModel ELSE Flash, Flash>>

\* _qa_models: primary and fallback of the answers.
QaModels ==
    LET primary == IF qaModel # Unset THEN qaModel ELSE Flash
    IN  <<primary, IF primary = Flash THEN spare ELSE Flash>>

Models(c) == IF kind[c] = "answer" THEN QaModels ELSE <<Flash, spare>>

\* A call asks its primary model.
Prompt(c, k) ==
    /\ status[c] # "open"
    /\ status' = [status EXCEPT ![c] = "open"]
    /\ kind' = [kind EXCEPT ![c] = k]
    /\ askedOf' = [askedOf EXCEPT ![c] = IF k = "answer" THEN QaModels[1] ELSE Flash]
    /\ round' = [round EXCEPT ![c] = 1]
    /\ refusedBy' = [refusedBy EXCEPT ![c] = {}]
    /\ UNCHANGED settings

EndPrompt(c, code) ==
    /\ status[c] = "open"
    /\ status' = [status EXCEPT ![c] = code]
    /\ askedOf' = [askedOf EXCEPT ![c] = Unset]
    /\ UNCHANGED <<settings, kind, round>>

\* A usable reply, or an error of Gemini's other than 429 and 503: no fallback
\* is asked after it.
Replied(c) ==
    /\ \E code \in {"200", "502"} : EndPrompt(c, code)
    /\ UNCHANGED refusedBy

\* Output that does not fit the schema is asked for once more, from the primary
\* model on; an empty answer is an error at once.
Malformed(c) ==
    IF kind[c] = "answer" \/ round[c] = 2
    THEN EndPrompt(c, "502") /\ UNCHANGED refusedBy
    ELSE /\ status[c] = "open"
         /\ round' = [round EXCEPT ![c] = 2]
         /\ askedOf' = [askedOf EXCEPT ![c] = Models(c)[1]]
         /\ refusedBy' = [refusedBy EXCEPT ![c] = {}]
         /\ UNCHANGED <<settings, kind, status>>

\* LLMQuotaError, a 429, or LLMOverloadedError, a 503, which is one of its
\* kind: the fallback is asked, if there is another model to ask, and without
\* one the answer is "at capacity" for both.
TurnedDown(c) ==
    LET fallback == Models(c)[2]
    IN  /\ refusedBy' = [refusedBy EXCEPT ![c] = @ \cup {askedOf[c]}]
        /\ IF askedOf[c] = Models(c)[1] /\ fallback \notin {Unset, askedOf[c]}
           THEN /\ status[c] = "open"
                /\ askedOf' = [askedOf EXCEPT ![c] = fallback]
                /\ UNCHANGED <<settings, kind, round, status>>
           ELSE EndPrompt(c, "503")

\* Mutant: the deadline is over the primary model only.
DeadlineOfPrimary(c) ==
    /\ kind[c] = "answer" /\ askedOf[c] = Models(c)[1]
    /\ EndPrompt(c, "504")
    /\ UNCHANGED refusedBy

\* asyncio.timeout in _generate_answer.
Deadline(c) ==
    /\ kind[c] = "answer"
    /\ EndPrompt(c, "504")
    /\ UNCHANGED refusedBy

GeminiNext ==
    \E c \in Prompts :
        \/ \E k \in {"analysis", "earnings", "answer"} : Prompt(c, k)
        \/ Replied(c) \/ Malformed(c) \/ TurnedDown(c) \/ Deadline(c)

\* Gemini may never reply; a deadline passes.
GeminiFairness == \A c \in Prompts : WF_geminiVars(Deadline(c))

GeminiSpec == GeminiInit /\ [][GeminiNext]_geminiVars /\ GeminiFairness

(***************************************************************************)
(* Properties                                                              *)
(***************************************************************************)

\* The models a call may use: the analysis model for all, and the Q&A model
\* for answers; the fallback where nothing else is left.
MayUse(c) ==
    (IF kind[c] = "answer" /\ qaModel \notin {Unset, Flash} THEN {qaModel, Flash}
     ELSE {Flash, spare}) \ {Unset}

\* "At capacity" is said only when every model the call may use was asked since
\* the last output and turned it down, its pool spent or the model overloaded:
\* no caller is sent away while a model configured for the call was not asked,
\* whichever of the two settings name one model.
RefusedForCause ==
    \A c \in Prompts : status[c] = "503" => MayUse(c) \subseteq refusedBy[c]

\* A question is answered or fails, also if Gemini never replies, with whichever
\* of the two models it is out.
AnswersEnd ==
    \A c \in Prompts :
        status[c] = "open" /\ kind[c] = "answer" ~> ~(status[c] = "open" /\ kind[c] = "answer")
=============================================================================
