----------------------------- MODULE ClientsProofs ----------------------------
(***************************************************************************)
(* Theorems about the components that wait for another party: the EDGAR    *)
(* client and its refinement of EdgarCall, the Gemini client for any       *)
(* settings of the models, a run of the extraction eval and its pacer over *)
(* any golden set, and the data hooks of the site under any answers.       *)
(***************************************************************************)
EXTENDS EdgarClient, GeminiClient, ExtractionRun, DataHooks, FiniteSetTheorems,
        SequenceTheorems, WellFoundedInduction, TLAPS

(***************************************************************************)
(* EdgarClient                                                             *)
(***************************************************************************)

\* The calls whose request is out, each with a slot.
OutCalls == {c \in Calls : callAt[c] = "out"}

ClientTypes ==
    /\ callAt \in [Calls -> Open \cup Finished \cup {"idle"}]
    /\ attempt \in [Calls -> 1 .. Attempts]
    /\ sends \in [Calls -> Nat]
    /\ freeSlots \in Nat

\* A call has been sent once per attempt, the one it waits to make excepted.
SentPerAttempt ==
    \A c \in Calls :
        /\ callAt[c] = "waiting" => sends[c] = attempt[c] - 1
        /\ callAt[c] \in {"out", "sleeping"} => sends[c] = attempt[c]
        /\ callAt[c] = "sleeping" => attempt[c] < Attempts

\* The slots in use are those of finitely many calls.
ClientInv ==
    /\ ClientTypes
    /\ SentPerAttempt
    /\ IsFiniteSet(OutCalls)
    /\ NoSlotLeaks

LEMMA ClientInvInit == ClientInit => ClientInv
<1> SUFFICES ASSUME ClientInit PROVE ClientInv  OBVIOUS
<1>1. ClientTypes /\ SentPerAttempt
  BY ClientAssumption DEF ClientInit, ClientTypes, SentPerAttempt
<1>2. OutCalls = {}
  BY DEF ClientInit, OutCalls
<1>3. QED
  BY <1>1, <1>2, FS_EmptySet, ClientAssumption DEF ClientInit, ClientInv, NoSlotLeaks, OutCalls

\* One more request is out, or one less.
LEMMA OneMoreOut ==
  ASSUME ClientInv, NEW c \in Calls, c \notin OutCalls,
         OutCalls' = OutCalls \cup {c}, freeSlots' = freeSlots - 1
  PROVE  IsFiniteSet(OutCalls)' /\ NoSlotLeaks'
<1>1. /\ freeSlots \in Nat /\ IsFiniteSet(OutCalls)
      /\ freeSlots + Cardinality(OutCalls) = Slots
  BY DEF ClientInv, ClientTypes, NoSlotLeaks, OutCalls
<1>2. IsFiniteSet(OutCalls') /\ Cardinality(OutCalls') = Cardinality(OutCalls) + 1
  BY <1>1, FS_AddElement
<1>3. freeSlots' + Cardinality(OutCalls') = Slots
  BY <1>1, <1>2, FS_CardinalityType, ClientAssumption
<1>4. QED  BY <1>2, <1>3 DEF NoSlotLeaks, OutCalls

LEMMA OneLessOut ==
  ASSUME ClientInv, NEW c \in Calls, c \in OutCalls,
         OutCalls' = OutCalls \ {c}, freeSlots' = freeSlots + 1
  PROVE  IsFiniteSet(OutCalls)' /\ NoSlotLeaks'
<1>1. /\ freeSlots \in Nat /\ IsFiniteSet(OutCalls)
      /\ freeSlots + Cardinality(OutCalls) = Slots
  BY DEF ClientInv, ClientTypes, NoSlotLeaks, OutCalls
<1>2. IsFiniteSet(OutCalls') /\ Cardinality(OutCalls') = Cardinality(OutCalls) - 1
  BY <1>1, FS_RemoveElement
<1>3. freeSlots' + Cardinality(OutCalls') = Slots
  BY <1>1, <1>2, FS_CardinalityType, ClientAssumption
<1>4. QED  BY <1>2, <1>3 DEF NoSlotLeaks, OutCalls

\* Or the same ones are.
LEMMA SameOut ==
  ASSUME ClientInv, OutCalls' = OutCalls, freeSlots' = freeSlots
  PROVE  IsFiniteSet(OutCalls)' /\ NoSlotLeaks'
BY DEF ClientInv, NoSlotLeaks, OutCalls

LEMMA ClientInvNext == ClientInv /\ [ClientNext]_clientVars => ClientInv'
<1> SUFFICES ASSUME ClientInv, [ClientNext]_clientVars PROVE ClientInv'  OBVIOUS
<1> USE ClientAssumption
<1>1. ASSUME NEW c \in Calls, StartCall(c) PROVE ClientInv'
  <2>1. ClientTypes' /\ SentPerAttempt'
    BY <1>1 DEF StartCall, ClientInv, ClientTypes, SentPerAttempt, Open
  <2>2. OutCalls' = OutCalls /\ freeSlots' = freeSlots
    BY <1>1 DEF StartCall, OutCalls, ClientInv, ClientTypes, Open
  <2>3. QED  BY <2>1, <2>2, SameOut DEF ClientInv
<1>2. ASSUME NEW c \in Calls, Acquire(c) PROVE ClientInv'
  <2>1. ClientTypes' /\ SentPerAttempt'
    BY <1>2 DEF Acquire, ClientInv, ClientTypes, SentPerAttempt, Open
  <2>2. c \notin OutCalls /\ OutCalls' = OutCalls \cup {c} /\ freeSlots' = freeSlots - 1
    BY <1>2 DEF Acquire, OutCalls, ClientInv, ClientTypes
  <2>3. QED  BY <2>1, <2>2, OneMoreOut DEF ClientInv
<1>3. ASSUME NEW c \in Calls, NEW next, Release(c, next),
             \/ next \in Finished
             \/ next = "sleeping" /\ ~ LastAttempt(c)
      PROVE  ClientInv'
  <2>1. ClientTypes' /\ SentPerAttempt'
    BY <1>3 DEF Release, LastAttempt, ClientInv, ClientTypes, SentPerAttempt, Open, Finished
  <2>2. c \in OutCalls /\ OutCalls' = OutCalls \ {c} /\ freeSlots' = freeSlots + 1
    BY <1>3 DEF Release, OutCalls, ClientInv, ClientTypes, Finished
  <2>3. QED  BY <2>1, <2>2, OneLessOut DEF ClientInv
<1>4. ASSUME NEW c \in Calls, Answered(c) PROVE ClientInv'
  BY <1>3, <1>4 DEF Answered, Finished
<1>5. ASSUME NEW c \in Calls, Refused(c) PROVE ClientInv'
  BY <1>3, <1>5 DEF Refused, Finished
<1>6. ASSUME NEW c \in Calls, Wake(c) PROVE ClientInv'
  <2>1. ClientTypes' /\ SentPerAttempt'
    BY <1>6 DEF Wake, ClientInv, ClientTypes, SentPerAttempt, Open
  <2>2. OutCalls' = OutCalls /\ freeSlots' = freeSlots
    BY <1>6 DEF Wake, OutCalls, ClientInv, ClientTypes
  <2>3. QED  BY <2>1, <2>2, SameOut DEF ClientInv
<1>7. ASSUME NEW c \in Calls, Abandon(c) PROVE ClientInv'
  <2>1. ClientTypes' /\ SentPerAttempt'
    BY <1>7 DEF Abandon, ClientInv, ClientTypes, SentPerAttempt, Finished
  <2>2. CASE callAt[c] = "out"
    <3>1. c \in OutCalls /\ OutCalls' = OutCalls \ {c} /\ freeSlots' = freeSlots + 1
      BY <1>7, <2>2 DEF Abandon, OutCalls, ClientInv, ClientTypes
    <3>2. QED  BY <2>1, <3>1, OneLessOut DEF ClientInv
  <2>3. CASE callAt[c] # "out"
    <3>1. OutCalls' = OutCalls /\ freeSlots' = freeSlots
      BY <1>7, <2>3 DEF Abandon, OutCalls, ClientInv, ClientTypes
    <3>2. QED  BY <2>1, <3>1, SameOut DEF ClientInv
  <2>4. QED  BY <2>2, <2>3
<1>8. CASE UNCHANGED clientVars
  <2>1. ClientTypes' /\ SentPerAttempt' /\ OutCalls' = OutCalls /\ freeSlots' = freeSlots
    BY <1>8 DEF clientVars, ClientInv, ClientTypes, SentPerAttempt, OutCalls
  <2>2. QED  BY <2>1, SameOut DEF ClientInv
<1>9. QED
  BY <1>1, <1>2, <1>4, <1>5, <1>6, <1>7, <1>8 DEF ClientNext

\* No slot of the semaphore is lost: the free ones and the calls that are out
\* always add up to edgar.py's four, whatever answers, refusals, retries and
\* cancellations the calls meet, for any number of calls, slots and attempts.
THEOREM SlotsNeverLeak == ClientSpec => []NoSlotLeaks
<1>1. ClientInv => NoSlotLeaks
  BY DEF ClientInv
<1>2. QED  BY ClientInvInit, ClientInvNext, <1>1, PTL DEF ClientSpec
\* Calls that have not begun promise nothing.
LEMMA PromiseInit == ClientInit => Promise!CallInit
BY DEF ClientInit, Promise!CallInit, Open

\* Acquire is a send of EdgarCall, the end of a call an end of it, and a retry
\* between the two no step of it at all.
LEMMA PromiseStep ==
  ClientInv /\ [ClientNext]_clientVars => [Promise!CallNext]_(Promise!callVars)
<1> DEFINE at == [c \in Calls |-> IF callAt[c] \in Open THEN "open" ELSE callAt[c]]
<1> SUFFICES ASSUME ClientInv, [ClientNext]_clientVars
             PROVE  Promise!CallNext \/ UNCHANGED <<at, sends>>
  BY DEF Promise!callVars
<1> USE ClientAssumption DEF ClientInv, ClientTypes, SentPerAttempt, Open, Finished
<1>1. ASSUME NEW c \in Calls, StartCall(c) PROVE Promise!Begin(c)
  BY <1>1 DEF StartCall, Promise!Begin, Promise!Ended
<1>2. ASSUME NEW c \in Calls, Acquire(c) PROVE Promise!Send(c)
  BY <1>2 DEF Acquire, Promise!Send
<1>3. ASSUME NEW c \in Calls, NEW next \in Finished, Release(c, next) PROVE Promise!End(c)
  <2>1. at[c] = "open" /\ sends[c] > 0 /\ UNCHANGED sends /\ next \in Promise!Ended
    BY <1>3 DEF Release, Promise!Ended
  <2>2. at' = [at EXCEPT ![c] = next]
    BY <1>3 DEF Release
  <2>3. QED  BY <2>1, <2>2 DEF Promise!End
<1>4. ASSUME NEW c \in Calls, Answered(c) PROVE Promise!End(c)
  BY <1>3, <1>4 DEF Answered
<1>5. ASSUME NEW c \in Calls, Refused(c) PROVE Promise!End(c) \/ UNCHANGED <<at, sends>>
  <2>1. CASE LastAttempt(c)
    BY <1>3, <1>5, <2>1 DEF Refused
  <2>2. CASE ~ LastAttempt(c)
    BY <1>5, <2>2 DEF Refused, Release
  <2>3. QED  BY <2>1, <2>2
<1>6. ASSUME NEW c \in Calls, Wake(c) PROVE UNCHANGED <<at, sends>>
  BY <1>6 DEF Wake
<1>7. ASSUME NEW c \in Calls, Abandon(c) PROVE Promise!End(c)
  BY <1>7 DEF Abandon, Promise!End, Promise!Ended
<1>8. CASE UNCHANGED clientVars
  BY <1>8 DEF clientVars
<1>9. QED
  BY <1>1, <1>2, <1>4, <1>5, <1>6, <1>7, <1>8 DEF ClientNext, Promise!CallNext

\* The client does what EdgarCall promises its callers: a call is sent at most
\* Attempts times from when it begins, none ends with an answer before it was
\* sent, and none that has ended is sent again, whatever the throttle does.
THEOREM PromiseKeptByEachStep ==
    ClientSpec => Promise!CallInit /\ [][Promise!CallNext]_(Promise!callVars)
<1>1. QED
  BY ClientInvInit, ClientInvNext, PromiseInit, PromiseStep, PTL DEF ClientSpec

(***************************************************************************)
(* GeminiClient                                                            *)
(***************************************************************************)

\* A call that is out is out to its primary model, or to a fallback that is
\* another model, and then the primary has turned it down.
OutToOneOfTwo ==
    \A c \in Prompts : status[c] = "open" =>
        \/ askedOf[c] = Models(c)[1]
        \/ askedOf[c] = Models(c)[2] /\ Models(c)[1] \in refusedBy[c]

PromptInv ==
    /\ DOMAIN status = Prompts /\ DOMAIN askedOf = Prompts
    /\ DOMAIN kind = Prompts /\ DOMAIN refusedBy = Prompts
    /\ OutToOneOfTwo
    /\ RefusedForCause

LEMMA PromptInit == GeminiInit => PromptInv
BY DEF GeminiInit, PromptInv, OutToOneOfTwo, RefusedForCause

\* The two models of a call are all it may use.
LEMMA ModelsAreAll ==
  ASSUME NEW c \in Prompts
  PROVE  /\ MayUse(c) \subseteq {Models(c)[1], Models(c)[2]}
         /\ Unset \notin MayUse(c)
<1>1. CASE kind[c] = "answer"
  BY <1>1 DEF MayUse, Models, QaModels
<1>2. CASE kind[c] # "answer"
  BY <1>2 DEF MayUse, Models
<1>3. QED  BY <1>1, <1>2

\* Only the call that moves is affected.
LEMMA OthersKept ==
  ASSUME PromptInv, NEW c \in Prompts, UNCHANGED settings,
         DOMAIN status' = Prompts, DOMAIN askedOf' = Prompts,
         DOMAIN kind' = Prompts, DOMAIN refusedBy' = Prompts,
         \A d \in Prompts \ {c} : /\ status'[d] = status[d] /\ askedOf'[d] = askedOf[d]
                                  /\ kind'[d] = kind[d] /\ refusedBy'[d] = refusedBy[d],
         status'[c] = "open" => \/ askedOf'[c] = Models(c)'[1]
                                \/ askedOf'[c] = Models(c)'[2] /\ Models(c)'[1] \in refusedBy'[c],
         status'[c] = "503" => MayUse(c)' \subseteq refusedBy'[c]
  PROVE  PromptInv'
<1>1. \A d \in Prompts \ {c} : Models(d)' = Models(d) /\ MayUse(d)' = MayUse(d)
  BY DEF settings, Models, QaModels, MayUse
<1>2. OutToOneOfTwo'
  BY <1>1 DEF PromptInv, OutToOneOfTwo
<1>3. RefusedForCause'
  BY <1>1 DEF PromptInv, RefusedForCause
<1>4. QED  BY <1>2, <1>3 DEF PromptInv

LEMMA PromptNext == PromptInv /\ [GeminiNext]_geminiVars => PromptInv'
<1> SUFFICES ASSUME PromptInv, [GeminiNext]_geminiVars PROVE PromptInv'  OBVIOUS
<1>0. /\ DOMAIN status = Prompts /\ DOMAIN askedOf = Prompts
      /\ DOMAIN kind = Prompts /\ DOMAIN refusedBy = Prompts
  BY DEF PromptInv
<1>1. ASSUME NEW c \in Prompts, NEW k \in {"analysis", "earnings", "answer"}, Prompt(c, k)
      PROVE  PromptInv'
  <2>1. status'[c] = "open" /\ kind'[c] = k /\ UNCHANGED settings
    BY <1>0, <1>1 DEF Prompt
  <2>2. askedOf'[c] = Models(c)'[1]
    BY <1>0, <1>1, <2>1 DEF Prompt, Models, QaModels, settings
  <2>3. QED  BY <1>0, <1>1, <2>1, <2>2, OthersKept DEF Prompt
\* A call that ends with anything but 503 claims nothing.
<1>2. ASSUME NEW c \in Prompts, NEW code \in {"200", "502", "504"}, EndPrompt(c, code),
             UNCHANGED refusedBy
      PROVE  PromptInv'
  <2>1. status'[c] = code
    BY <1>0, <1>2 DEF EndPrompt
  <2>2. QED  BY <1>0, <1>2, <2>1, OthersKept DEF EndPrompt
<1>3. ASSUME NEW c \in Prompts, Replied(c) \/ Deadline(c) PROVE PromptInv'
  BY <1>2, <1>3 DEF Replied, Deadline
<1>4. ASSUME NEW c \in Prompts, Malformed(c) PROVE PromptInv'
  <2>1. CASE kind[c] = "answer" \/ round[c] = 2
    BY <1>2, <1>4, <2>1 DEF Malformed
  <2>2. CASE ~(kind[c] = "answer" \/ round[c] = 2)
    <3>1. UNCHANGED <<settings, kind, status>> /\ status[c] = "open"
      BY <1>4, <2>2 DEF Malformed
    <3>2. Models(c)' = Models(c)
      BY <3>1 DEF Models, QaModels, settings
    <3>3. askedOf'[c] = Models(c)[1]
      BY <1>0, <1>4, <2>2 DEF Malformed
    <3>4. QED  BY <1>0, <1>4, <2>2, <3>1, <3>2, <3>3, OthersKept DEF Malformed
  <2>3. QED  BY <2>1, <2>2
<1>5. ASSUME NEW c \in Prompts, TurnedDown(c) PROVE PromptInv'
  <2> DEFINE fallback == Models(c)[2]
  <2>1. UNCHANGED settings /\ UNCHANGED kind /\ status[c] = "open"
    BY <1>5 DEF TurnedDown, EndPrompt
  <2>2. Models(c)' = Models(c) /\ MayUse(c)' = MayUse(c)
    BY <2>1 DEF Models, QaModels, MayUse, settings
  <2>3. refusedBy'[c] = refusedBy[c] \cup {askedOf[c]}
    BY <1>0, <1>5 DEF TurnedDown
  <2>4. \/ askedOf[c] = Models(c)[1]
        \/ askedOf[c] = Models(c)[2] /\ Models(c)[1] \in refusedBy[c]
    BY <2>1 DEF PromptInv, OutToOneOfTwo
  <2>5. CASE askedOf[c] = Models(c)[1] /\ fallback \notin {Unset, askedOf[c]}
    <3>1. status' = status /\ askedOf'[c] = fallback
      BY <1>0, <1>5, <2>5 DEF TurnedDown
    <3>2. Models(c)[1] \in refusedBy'[c]
      BY <2>3, <2>5
    <3>3. QED  BY <1>0, <1>5, <2>1, <2>2, <2>5, <3>1, <3>2, OthersKept DEF TurnedDown
  \* Whoever was asked last completes the set.
  <2>6. CASE ~(askedOf[c] = Models(c)[1] /\ fallback \notin {Unset, askedOf[c]})
    <3>1. EndPrompt(c, "503")
      BY <1>5, <2>6 DEF TurnedDown
    <3>2. MayUse(c) \subseteq refusedBy'[c]
      BY <2>3, <2>4, <2>6, ModelsAreAll
    <3>3. status'[c] = "503"
      BY <1>0, <3>1 DEF EndPrompt
    <3>4. QED  BY <1>0, <1>5, <2>1, <2>2, <3>1, <3>2, <3>3, OthersKept DEF TurnedDown, EndPrompt
  <2>7. QED  BY <2>5, <2>6
<1>6. CASE UNCHANGED geminiVars
  BY <1>6 DEF geminiVars, PromptInv, OutToOneOfTwo, RefusedForCause, Models, QaModels, MayUse
<1>7. QED  BY <1>1, <1>3, <1>4, <1>5, <1>6 DEF GeminiNext

\* No call of llm.py is answered "at capacity" before every model configured for
\* it was asked in this attempt and answered 429 or 503.
THEOREM CapacityRefusedForCause == GeminiSpec => []RefusedForCause
<1>1. PromptInv => RefusedForCause
  BY DEF PromptInv
<1>2. QED  BY <1>1, PromptInit, PromptNext, PTL DEF GeminiSpec

(***************************************************************************)
(* ExtractionRun                                                           *)
(***************************************************************************)

RunTypeOK ==
    /\ records \in [Entry -> Outcome]
    /\ position \in Nat \ {0} /\ unreached \subseteq Entry
    /\ reusable \subseteq Entry
    /\ runAt \in {"idle", "next", "pacing", "sent", "sleeping", "writing"}
    /\ runAt \in {"pacing", "sent", "sleeping"} => position \in Entry

\* Until the walk stops, what is behind the entry it is at is recorded, and the
\* entry and what is ahead of it are not.
Walked ==
    runAt # "writing" => \A i \in Entry : records[i] = "none" <=> i >= position

RunInv == RunTypeOK /\ Walked /\ EntriesAccounted

LEMMA EntriesAreNumbered ==
  /\ Entry \subseteq Nat \ {0}
  /\ \A i \in Entry : \A p \in (Nat \ {0}) \ Entry : i < p
<1>1. Len(Tokens) \in Nat /\ Entry = 1..Len(Tokens)
  BY RunAssumption DEF Entry
<1>2. QED  BY <1>1

LEMMA RunBegins == RunInit => RunInv
<1> SUFFICES ASSUME RunInit PROVE RunInv  OBVIOUS
<1>1. \A i \in Entry : i >= 1
  BY EntriesAreNumbered
<1>2. QED
  BY <1>1 DEF RunInit, RunInv, RunTypeOK, Walked, EntriesAccounted, NothingYet, Outcome

\* The walk waits at its entry.
LEMMA WaitingKeeps ==
  ASSUME RunInv, UNCHANGED <<records, position, unreached>>, runAt # "writing",
         reusable' \subseteq Entry,
         runAt' \in {"idle", "next", "pacing", "sent", "sleeping"},
         runAt' \in {"pacing", "sent", "sleeping"} => position \in Entry
  PROVE  RunInv'
BY DEF RunInv, RunTypeOK, Walked, EntriesAccounted

\* The walk records its entry and goes on.
LEMMA RecordedKeeps ==
  ASSUME RunInv, NEW outcome \in {"ok", "error"}, Recorded(outcome), UNCHANGED <<reusable, unreached>>,
         runAt # "writing", position \in Entry
  PROVE  RunInv'
<1>1. /\ records' = [records EXCEPT ![position] = outcome]
      /\ position' = position + 1 /\ runAt' = "next"
  BY DEF Recorded
<1>2. RunTypeOK'
  BY <1>1, EntriesAreNumbered DEF RunInv, RunTypeOK, Outcome
<1>3. Walked'
  <2> SUFFICES ASSUME NEW i \in Entry PROVE records'[i] = "none" <=> i >= position'
    BY DEF Walked
  <2>1. i \in Nat /\ position \in Nat
    BY EntriesAreNumbered
  <2>2. records[i] = "none" <=> i >= position
    BY DEF RunInv, Walked
  <2>3. records'[i] = IF i = position THEN outcome ELSE records[i]
    BY <1>1 DEF RunInv, RunTypeOK
  <2>4. i >= position' <=> i >= position /\ i # position
    BY <1>1, <2>1
  <2>5. QED  BY <2>2, <2>3, <2>4
<1>4. QED  BY <1>1, <1>2, <1>3 DEF RunInv, EntriesAccounted

\* The walk stops and names what it has not attempted.
LEMMA StoppedKeeps ==
  ASSUME RunInv, NEW missed \in SUBSET Entry, Stop(missed), UNCHANGED <<reusable, position>>,
         records' \in [Entry -> Outcome],
         \A i \in Entry : records'[i] = "none" <=> i \in missed
  PROVE  RunInv'
BY DEF Stop, RunInv, RunTypeOK, Walked, EntriesAccounted

LEMMA OverKeeps ==
  ASSUME RunInv, Over
  PROVE  RunInv'
<1>1. \A i \in Entry : i >= 1
  BY EntriesAreNumbered
<1>2. QED
  BY <1>1 DEF Over, RunInv, RunTypeOK, Walked, EntriesAccounted, NothingYet, Outcome

LEMMA OverloadedKeeps ==
  ASSUME RunInv, Overloaded
  PROVE  RunInv'
<1>0. /\ runAt = "sent" /\ position \in Entry
      /\ reusable' = reusable /\ reusable \subseteq Entry
  BY DEF Overloaded, RunInv, RunTypeOK
<1>1. CASE Retry
  BY <1>0, <1>1, WaitingKeeps DEF Retry
<1>2. CASE Recorded("error") /\ UNCHANGED unreached
  BY <1>0, <1>2, RecordedKeeps
<1>3. CASE /\ records' = [records EXCEPT ![position] = "error"]
           /\ Stop(MissedAfter)
           /\ UNCHANGED <<position, tried>>
  <2>1. MissedAfter \subseteq Entry /\ records' \in [Entry -> Outcome]
    BY <1>3 DEF MissedAfter, RunInv, RunTypeOK, Outcome
  <2>2. ASSUME NEW i \in Entry PROVE records'[i] = "none" <=> i \in MissedAfter
    <3>1. i \in Nat /\ position \in Nat
      BY <1>0, EntriesAreNumbered
    <3>2. records[i] = "none" <=> i >= position
      BY <1>0 DEF RunInv, Walked
    <3>3. records'[i] = IF i = position THEN "error" ELSE records[i]
      BY <1>3 DEF RunInv, RunTypeOK
    <3>4. i > position <=> i >= position /\ i # position
      BY <3>1
    <3>5. QED  BY <3>2, <3>3, <3>4 DEF MissedAfter
  <2>3. QED  BY <1>0, <1>3, <2>1, <2>2, StoppedKeeps
<1>4. QED  BY <1>1, <1>2, <1>3 DEF Overloaded

LEMMA WalkKeeps ==
  ASSUME RunInv, WalkStep
  PROVE  RunInv'
<1>0. RunTypeOK
  BY DEF RunInv
<1>1. CASE ReuseEntry \/ Extracted \/ Failed
  <2>1. CASE ReuseEntry
    <3>1. position \in Entry
      BY <1>0, <2>1 DEF ReuseEntry, RunTypeOK
    <3>2. QED  BY <2>1, <3>1, RecordedKeeps DEF ReuseEntry
  <2>2. CASE Extracted \/ Failed
    BY <1>0, <2>2, RecordedKeeps DEF Extracted, Failed, RunTypeOK
  <2>3. QED  BY <1>1, <2>1, <2>2
<1>2. CASE FetchEntry
  <2>1. runAt = "next" /\ position \in Entry
    BY <1>2 DEF FetchEntry
  <2>2. CASE Recorded("error")
    BY <1>2, <2>1, <2>2, RecordedKeeps DEF FetchEntry
  <2>3. CASE ~Recorded("error")
    BY <1>0, <1>2, <2>1, <2>3, WaitingKeeps DEF FetchEntry, RunTypeOK
  <2>4. QED  BY <2>2, <2>3
<1>3. CASE Pace \/ WakeUp \/ Dropped
  BY <1>0, <1>3, WaitingKeeps DEF Pace, WakeUp, Dropped, Retry, RunTypeOK
<1>4. CASE QuotaSpent
  <2> DEFINE missed == {i \in Entry : i >= position}
  <2>1. /\ Stop(missed) /\ UNCHANGED <<position, reusable>>
        /\ records' \in [Entry -> Outcome]
        /\ \A i \in Entry : records'[i] = "none" <=> i \in missed
    BY <1>0, <1>4 DEF QuotaSpent, RunInv, Walked, RunTypeOK
  <2>2. QED  BY <2>1, StoppedKeeps
<1>5. CASE WalkEnds
  <2>1. Stop({}) /\ UNCHANGED <<position, records>> /\ position \notin Entry
    BY <1>5 DEF WalkEnds
  <2>2. \A i \in Entry : records[i] = "none" <=> i >= position
    BY <1>5 DEF WalkEnds, RunInv, Walked
  <2>3. \A i \in Entry : records'[i] = "none" <=> i \in {}
    BY <1>0, <2>1, <2>2, EntriesAreNumbered DEF RunTypeOK
  <2>4. QED  BY <1>0, <1>5, <2>1, <2>3, StoppedKeeps DEF RunTypeOK, WalkEnds
<1>6. CASE WriteArtifact
  BY <1>6, OverKeeps DEF WriteArtifact
<1>7. QED
  BY <1>1, <1>2, <1>3, <1>4, <1>5, <1>6, OverloadedKeeps DEF WalkStep

LEMMA RunGoesOn == RunInv /\ [RunNext]_runVars => RunInv'
<1> SUFFICES ASSUME RunInv, [RunNext]_runVars PROVE RunInv'  OBVIOUS
<1>1. CASE StartRun
  BY <1>1, WaitingKeeps DEF StartRun
<1>2. CASE Interrupted
  BY <1>2, OverKeeps DEF Interrupted
<1>3. CASE TimePasses \/ UNCHANGED runVars
  BY <1>3 DEF TimePasses, runVars, RunInv, RunTypeOK, Walked, EntriesAccounted
<1>4. QED  BY <1>1, <1>2, <1>3, WalkKeeps DEF RunNext

\* Whatever stops a run of the extraction eval, a golden entry is in the artifact
\* it writes or named as not attempted, and never both, for a golden set of any
\* length and any limits of the retries.
THEOREM NothingLeftOut == RunSpec => []EntriesAccounted
<1>1. RunInv => EntriesAccounted
  BY DEF RunInv
<1>2. QED  BY <1>1, RunBegins, RunGoesOn, PTL DEF RunSpec

-----------------------------------------------------------------------------
(* The window.  A request is admitted before it is counted, and what it was *)
(* admitted beside only leaves the window while it is out.                  *)

Spending == [age : Nat, tokens : Nat]

Admitted == runAt = "sent" => Admits(Tokens[position])

PacerInv == spent \in Seq(Spending) /\ Admitted /\ WindowKept

\* The front of the window is found: what is in it is a last part of what was sent.
LEMMA WindowIsSuffix ==
  ASSUME NEW s \in Seq(Spending)
  PROVE  \E n \in 0..Len(s) : Purged(s) = SubSeq(s, n + 1, Len(s))
<1> DEFINE Front(n) == /\ \A i \in 1..n : s[i].age >= Window
                       /\ n < Len(s) => s[n + 1].age < Window
           S == {n \in 0..Len(s) : n < Len(s) => s[n + 1].age < Window}
<1>1. S \subseteq Nat /\ Len(s) \in S
  OBVIOUS
<1>2. PICK n \in S : \A m \in S : ~(<<m, n>> \in OpToRel(<, Nat))
  BY <1>1, NatLessThanWellFounded, WFMin
<1>3. \A m \in S : ~(m < n)
  BY <1>1, <1>2 DEF OpToRel
<1>4. ASSUME NEW i \in 1..n PROVE s[i].age >= Window
  <2>1. i - 1 \in 0..Len(s) /\ i - 1 < n /\ i - 1 < Len(s) /\ (i - 1) + 1 = i
    BY <1>1
  <2>2. i - 1 \notin S
    BY <1>3, <2>1
  <2>3. s[i].age \in Nat
    <3>1. i \in 1..Len(s)
      BY <2>1
    <3>2. s[i] \in Spending
      BY <3>1
    <3>3. QED  BY <3>2 DEF Spending
  <2>4. QED  BY <2>1, <2>2, <2>3, PacerAssumption
<1>5. n \in 0..Len(s) /\ Front(n)
  BY <1>4
<1> DEFINE gone == CHOOSE m \in 0..Len(s) : Front(m)
<1>6. Purged(s) = SubSeq(s, gone + 1, Len(s))
  BY DEF Purged
<1> HIDE DEF Front
<1>7. gone \in 0..Len(s)
  BY <1>5
<1>8. QED  BY <1>6, <1>7

LEMMA SuffixIs ==
  ASSUME NEW s \in Seq(Spending), NEW n \in 0..Len(s), NEW t, t = SubSeq(s, n + 1, Len(s))
  PROVE  /\ t \in Seq(Spending) /\ Len(t) = Len(s) - n
         /\ \A i \in 1..Len(t) : t[i] = s[n + i]
<1>1. Len(s) \in Nat /\ n \in Nat /\ n <= Len(s)
  OBVIOUS
<1>2. \A i \in n + 1 .. Len(s) : s[i] \in Spending
  BY <1>1
<1>3. /\ t \in Seq(Spending)
      /\ Len(t) = IF n + 1 <= Len(s) THEN Len(s) - (n + 1) + 1 ELSE 0
      /\ \A i \in 1 .. Len(s) - (n + 1) + 1 : t[i] = s[(n + 1) + i - 1]
  BY <1>1, <1>2, SubSeqProperties
<1>4. Len(t) = Len(s) - n
  BY <1>1, <1>3
<1>5. ASSUME NEW i \in 1..Len(t) PROVE t[i] = s[n + i]
  BY <1>1, <1>3, <1>4
<1>6. QED  BY <1>3, <1>4, <1>5

\* The tokens of a sequence can be counted.
LEMMA TokensAreFinite ==
  ASSUME NEW s \in Seq(Spending)
  PROVE  IsFiniteSet(TokensOf(s)) /\ Cardinality(TokensOf(s)) \in Nat
<1> DEFINE D == DOMAIN s
           Of(i) == {i} \X (1..s[i].tokens)
           f == [i \in D |-> Of(i)]
           T == {Of(i) : i \in D}
<1>1. IsFiniteSet(D)
  <2>1. D = 1..Len(s) /\ Len(s) \in Nat
    OBVIOUS
  <2>2. QED  BY <2>1, FS_Interval
<1>2. \A i \in D : IsFiniteSet(Of(i))
  <2> SUFFICES ASSUME NEW i \in D PROVE IsFiniteSet(Of(i))
    OBVIOUS
  <2>1. s[i] \in Spending
    OBVIOUS
  <2>2. s[i].tokens \in Nat
    BY <2>1 DEF Spending
  <2> DEFINE k == s[i].tokens
  <2>3. IsFiniteSet({i})
    BY FS_Singleton
  <2>4. 1 \in Int /\ k \in Int
    BY <2>2
  <2>5. IsFiniteSet(1..k)
    <3> HIDE DEF k
    <3>1. QED  BY <2>4, FS_Interval
  <2>6. QED  BY <2>3, <2>5, FS_Product
<1>3. TokensOf(s) = UNION T
  BY DEF TokensOf
<1> HIDE DEF Of, D
<1>4. f \in Surjection(D, T)
  BY DEF Surjection
<1>5. IsFiniteSet(T)
  BY <1>1, <1>4, FS_Surjection
<1>6. \A t \in T : IsFiniteSet(t)
  BY <1>2
<1> HIDE DEF T
<1>7. IsFiniteSet(UNION T)
  BY <1>5, <1>6, FS_UNION
<1>8. QED  BY <1>3, <1>7, FS_CardinalityType

LEMMA TokenIs ==
  ASSUME NEW s, NEW u
  PROVE  u \in TokensOf(s) <=>
            u = <<u[1], u[2]>> /\ u[1] \in DOMAIN s /\ u[2] \in 1..s[u[1]].tokens
BY DEF TokensOf

\* A last part of a sequence has no more tokens than the whole.
LEMMA SuffixHasLess ==
  ASSUME NEW s \in Seq(Spending), NEW n \in 0..Len(s), NEW t, t = SubSeq(s, n + 1, Len(s))
  PROVE  Cardinality(TokensOf(t)) <= Cardinality(TokensOf(s))
<1> DEFINE A == TokensOf(t)
           B == TokensOf(s)
           f == [u \in A |-> <<n + u[1], u[2]>>]
<1>0. /\ t \in Seq(Spending) /\ Len(t) = Len(s) - n
      /\ \A i \in 1..Len(t) : t[i] = s[n + i]
  BY SuffixIs
<1>1. ASSUME NEW u \in A PROVE <<n + u[1], u[2]>> \in B /\ u[1] \in Nat /\ u = <<u[1], u[2]>>
  <2> DEFINE v == <<n + u[1], u[2]>>
  <2>1. u = <<u[1], u[2]>> /\ u[1] \in DOMAIN t /\ u[2] \in 1..t[u[1]].tokens
    BY TokenIs
  <2>2. u[1] \in 1..Len(t) /\ Len(t) \in Nat /\ n \in Nat /\ Len(s) \in Nat
    BY <1>0, <2>1
  <2>3. n + u[1] \in DOMAIN s /\ u[2] \in 1..s[n + u[1]].tokens
    BY <1>0, <2>1, <2>2
  <2>4. v = <<v[1], v[2]>> /\ v[1] = n + u[1] /\ v[2] = u[2]
    OBVIOUS
  <2> HIDE DEF v
  <2>5. v \in B
    BY <2>3, <2>4, TokenIs
  <2>6. QED  BY <2>1, <2>2, <2>5 DEF v
<1>2. f \in [A -> B]
  BY <1>1
<1>3. ASSUME NEW u \in A, NEW v \in A, f[u] = f[v] PROVE u = v
  <2>1. n + u[1] = n + v[1] /\ u[2] = v[2]
    <3>1. <<n + u[1], u[2]>> = <<n + v[1], v[2]>>
      BY <1>3
    <3>2. QED  BY <3>1
  <2>2. u[1] = v[1]
    <3>1. n \in Nat
      OBVIOUS
    <3> HIDE DEF A, B, f
    <3>2. u[1] \in Nat /\ v[1] \in Nat
      BY <1>1
    <3>3. QED  BY <2>1, <3>1, <3>2
  <2>3. QED  BY <1>1, <2>1, <2>2
<1>4. f \in Injection(A, B)
  <2>1. DOMAIN f = A
    OBVIOUS
  <2> HIDE DEF f
  <2>2. QED  BY <1>2, <1>3, <2>1 DEF Injection, IsInjective
<1> HIDE DEF f, A, B
<1>5. IsFiniteSet(B)
  BY TokensAreFinite DEF B
<1>6. QED  BY <1>4, <1>5, FS_Injection DEF A, B

LEMMA PurgedHasLess ==
  ASSUME NEW s \in Seq(Spending)
  PROVE  /\ Purged(s) \in Seq(Spending) /\ Len(Purged(s)) <= Len(s)
         /\ Cardinality(TokensOf(Purged(s))) <= Cardinality(TokensOf(s))
         /\ Cardinality(TokensOf(Purged(s))) \in Nat
<1>1. PICK n \in 0..Len(s) : Purged(s) = SubSeq(s, n + 1, Len(s))
  BY WindowIsSuffix
<1> DEFINE t == Purged(s)
<1>2. t = SubSeq(s, n + 1, Len(s))
  BY <1>1
<1> HIDE DEF t
<1>3. t \in Seq(Spending) /\ Len(t) = Len(s) - n
  BY <1>2, SuffixIs
<1>4. Cardinality(TokensOf(t)) <= Cardinality(TokensOf(s))
  BY <1>2, SuffixHasLess
<1>5. Cardinality(TokensOf(t)) \in Nat
  BY <1>3, TokensAreFinite
<1>6. Len(t) <= Len(s)
  BY <1>3
<1>7. QED  BY <1>3, <1>4, <1>5, <1>6 DEF t

\* No request, no tokens.
LEMMA NoTokens ==
  ASSUME NEW s \in Seq(Spending), Len(s) = 0
  PROVE  Cardinality(TokensOf(s)) = 0
<1>1. DOMAIN s = {}
  OBVIOUS
<1>2. TokensOf(s) = {}
  BY <1>1 DEF TokensOf
<1>3. QED  BY <1>2, FS_EmptySet

\* One more request adds its tokens.
LEMMA CountAdds ==
  ASSUME NEW s \in Seq(Spending), NEW e \in Spending
  PROVE  /\ Append(s, e) \in Seq(Spending) /\ Len(Append(s, e)) = Len(s) + 1
         /\ Cardinality(TokensOf(Append(s, e))) = Cardinality(TokensOf(s)) + e.tokens
<1> DEFINE t == Append(s, e)
           k == Len(s) + 1
           new == {k} \X (1..e.tokens)
<1>1. /\ t \in Seq(Spending) /\ Len(t) = k /\ t[k] = e /\ k \in Nat
      /\ \A i \in 1..Len(s) : t[i] = s[i]
  OBVIOUS
<1>2. DOMAIN t = 1..k /\ DOMAIN s = 1..Len(s) /\ Len(s) \in Nat
  BY <1>1
<1> HIDE DEF t
<1>3. DOMAIN t = DOMAIN s \cup {k} /\ k \notin DOMAIN s
  BY <1>2
<1>4. \A i \in DOMAIN s : t[i] = s[i]
  BY <1>1, <1>2
<1> HIDE DEF k
<1>5. TokensOf(t) = TokensOf(s) \cup new
  <2>1. {{i} \X (1..t[i].tokens) : i \in DOMAIN t}
           = {{i} \X (1..s[i].tokens) : i \in DOMAIN s} \cup {new}
    <3>1. \A i \in DOMAIN s : {i} \X (1..t[i].tokens) = {i} \X (1..s[i].tokens)
      BY <1>4
    <3>2. {k} \X (1..t[k].tokens) = new
      BY <1>1 DEF k
    <3>3. QED  BY <1>3, <3>1, <3>2
  <2>2. QED  BY <2>1 DEF TokensOf
<1>6. TokensOf(s) \cap new = {}
  <2>1. \A u \in TokensOf(s) : u[1] \in DOMAIN s
    BY TokenIs
  <2>2. \A u \in new : u[1] = k
    OBVIOUS
  <2>3. QED  BY <1>3, <2>1, <2>2
<1>7. IsFiniteSet(new) /\ Cardinality(new) = e.tokens
  <2> DEFINE m == e.tokens
  <2>1. m \in Nat /\ 1 \in Int /\ m \in Int
    BY DEF Spending
  <2> HIDE DEF m
  <2>2. IsFiniteSet(1..m) /\ Cardinality(1..m) = IF 1 > m THEN 0 ELSE m - 1 + 1
    BY <2>1, FS_Interval
  <2>3. Cardinality(1..m) = m
    BY <2>1, <2>2
  <2>4. IsFiniteSet({k}) /\ Cardinality({k}) = 1
    BY FS_Singleton
  <2>5. IsFiniteSet({k} \X (1..m)) /\ Cardinality({k} \X (1..m)) = Cardinality({k}) * Cardinality(1..m)
    BY <2>2, <2>4, FS_Product
  <2>6. Cardinality({k} \X (1..m)) = m
    BY <2>1, <2>3, <2>4, <2>5
  <2>7. QED  BY <2>5, <2>6 DEF m
<1> HIDE DEF new
<1>8. IsFiniteSet(TokensOf(s)) /\ Cardinality(TokensOf(s)) \in Nat /\ Cardinality({}) = 0
  BY TokensAreFinite, FS_EmptySet
<1>9. Cardinality(TokensOf(s) \cup new)
         = Cardinality(TokensOf(s)) + Cardinality(new) - Cardinality(TokensOf(s) \cap new)
  BY <1>7, <1>8, FS_Union
<1>10. e.tokens \in Nat
  BY DEF Spending
<1>11. Cardinality(TokensOf(t)) = Cardinality(TokensOf(s)) + e.tokens
  <2>1. Cardinality(TokensOf(s) \cup new) = Cardinality(TokensOf(s)) + e.tokens - 0
    BY <1>6, <1>7, <1>8, <1>9
  <2> DEFINE m == e.tokens
             j == Cardinality(TokensOf(s))
  <2>2. m \in Nat /\ j \in Nat
    BY <1>8, <1>10
  <2> HIDE DEF m, j
  <2>3. j + m - 0 = j + m
    BY <2>2
  <2>4. QED  BY <1>5, <2>1, <2>3 DEF m, j
<1>12. QED  BY <1>1, <1>11 DEF t, k

\* A request that was admitted is counted.
LEMMA CountKeeps ==
  ASSUME spent \in Seq(Spending), NEW tokens \in Nat, Admits(tokens), Count(tokens)
  PROVE  spent' \in Seq(Spending) /\ WindowKept'
<1> DEFINE w == InWindow
           e == [age |-> 0, tokens |-> tokens]
           t == Append(w, e)
           n == Cardinality(TokensOf(Purged(t)))
<1>0. spent' = t
  BY DEF Count
<1>1. /\ w \in Seq(Spending) /\ Used \in Nat /\ Used = Cardinality(TokensOf(w))
      /\ w = << >> \/ Used + tokens <= Budget
  BY PurgedHasLess DEF InWindow, Used, Admits
<1>2. e \in Spending /\ e.tokens = tokens
  BY DEF Spending
<1> HIDE DEF w, e
<1>3. t \in Seq(Spending) /\ Len(t) = Len(w) + 1 /\ Cardinality(TokensOf(t)) = Used + tokens
  BY <1>1, <1>2, CountAdds
<1> HIDE DEF t
<1>4. /\ Purged(t) \in Seq(Spending) /\ Len(Purged(t)) <= Len(t)
      /\ n <= Cardinality(TokensOf(t)) /\ n \in Nat
  BY <1>3, PurgedHasLess
<1>5. n <= Budget \/ Len(Purged(t)) = 1
  <2>1. CASE Used + tokens <= Budget
    BY <1>1, <1>3, <1>4, <2>1, PacerAssumption
  <2>2. CASE w = << >>
    <3>1. Len(Purged(t)) \in {0, 1}
      <4>1. Len(w) = 0
        BY <2>2
      <4>2. Len(Purged(t)) \in Nat
        BY <1>4
      <4>3. QED  BY <1>3, <1>4, <4>1, <4>2
    <3>2. Len(Purged(t)) = 0 => n = 0
      BY <1>4, NoTokens
    <3>3. QED  BY <3>1, <3>2, PacerAssumption
  <2>3. QED  BY <1>1, <2>1, <2>2
<1> HIDE DEF n
<1>6. WindowKept'
  BY <1>0, <1>5 DEF WindowKept, Used, InWindow, n
<1>7. QED  BY <1>0, <1>3, <1>6

\* As time passes, requests only leave the window.
LEMMA AgeKeeps ==
  ASSUME spent \in Seq(Spending), WindowKept, Age
  PROVE  /\ spent' \in Seq(Spending) /\ WindowKept'
         /\ \A tokens \in Nat : Admits(tokens) => Admits(tokens)'
<1> DEFINE w == InWindow
           t == [i \in DOMAIN w |-> [w[i] EXCEPT !.age = @ + 1]]
           n == Cardinality(TokensOf(Purged(t)))
<1>0. spent' = t /\ w # << >>
  BY DEF Age
<1>1. /\ w \in Seq(Spending) /\ Used \in Nat /\ Used = Cardinality(TokensOf(w))
      /\ Used <= Budget \/ Len(w) = 1
  BY PurgedHasLess DEF InWindow, Used, WindowKept
<1>2. \A i \in DOMAIN w : t[i] \in Spending /\ t[i].tokens = w[i].tokens
  <2> SUFFICES ASSUME NEW i \in DOMAIN w PROVE t[i] \in Spending /\ t[i].tokens = w[i].tokens
    OBVIOUS
  <2>1. w[i] \in Spending
    BY <1>1
  <2>2. t[i] = [w[i] EXCEPT !.age = @ + 1]
    OBVIOUS
  <2> HIDE DEF t
  <2>3. QED  BY <2>1, <2>2 DEF Spending
<1>3. t \in Seq(Spending) /\ Len(t) = Len(w) /\ DOMAIN t = DOMAIN w
  <2> HIDE DEF w
  <2>1. DOMAIN t = 1..Len(w) /\ Len(w) \in Nat
    BY <1>1
  <2>2. QED  BY <1>1, <1>2, <2>1
<1> HIDE DEF w, t
<1>4. TokensOf(t) = TokensOf(w)
  <2>1. {{i} \X (1..t[i].tokens) : i \in DOMAIN t} = {{i} \X (1..w[i].tokens) : i \in DOMAIN w}
    BY <1>2, <1>3
  <2>2. QED  BY <2>1 DEF TokensOf
<1>5. /\ Purged(t) \in Seq(Spending) /\ Len(Purged(t)) <= Len(t) /\ Len(Purged(t)) \in Nat
      /\ n <= Used /\ n \in Nat
  BY <1>1, <1>3, <1>4, PurgedHasLess
<1>6. n <= Budget \/ Len(Purged(t)) = 1
  <2>1. CASE Used <= Budget
    BY <1>1, <1>5, <2>1, PacerAssumption
  <2>2. CASE Len(w) = 1
    <3>1. Len(Purged(t)) = 0 => n = 0
      BY <1>5, NoTokens
    <3>2. Len(Purged(t)) \in {0, 1}
      BY <1>3, <1>5, <2>2
    <3>3. QED  BY <3>1, <3>2, PacerAssumption
  <2>3. QED  BY <1>1, <2>1, <2>2
<1>7. Used' = n /\ WindowKept'
  <2> HIDE DEF n
  <2>1. QED  BY <1>0, <1>6 DEF WindowKept, Used, InWindow, n
<1>8. ASSUME NEW tokens \in Nat, Admits(tokens) PROVE Admits(tokens)'
  <2>1. Used + tokens <= Budget
    BY <1>0, <1>8 DEF Admits, w
  <2>2. Used' + tokens <= Budget
    BY <1>1, <1>5, <1>7, <2>1, PacerAssumption
  <2>3. QED  BY <2>2 DEF Admits
<1>9. QED  BY <1>0, <1>3, <1>7, <1>8

LEMMA EmptyWindow == Cardinality(TokensOf(Purged(<< >>))) <= Budget
<1> DEFINE s == << >>
           n == Cardinality(TokensOf(Purged(s)))
<1>1. s \in Seq(Spending) /\ Len(s) = 0
  OBVIOUS
<1> HIDE DEF s
<1>2. n <= Cardinality(TokensOf(s)) /\ n \in Nat /\ Cardinality(TokensOf(s)) = 0
  BY <1>1, PurgedHasLess, NoTokens
<1>3. n <= Budget
  BY <1>2, PacerAssumption
<1>4. QED  BY <1>3 DEF s

LEMMA PacerBegins == RunInit => PacerInv
<1> SUFFICES ASSUME RunInit PROVE PacerInv  OBVIOUS
<1>1. spent = << >> /\ spent \in Seq(Spending) /\ runAt = "idle"
  BY DEF RunInit, PacerInit
<1>2. WindowKept
  BY <1>1, EmptyWindow DEF WindowKept, Used, InWindow
<1>3. QED  BY <1>1, <1>2 DEF PacerInv, Admitted

\* What the step of a run does to the pacer.
LEMMA PacerGoesOn == RunTypeOK /\ PacerInv /\ [RunNext]_runVars => PacerInv'
<1> SUFFICES ASSUME RunTypeOK, PacerInv, [RunNext]_runVars PROVE PacerInv'
  OBVIOUS
<1>0. spent \in Seq(Spending) /\ Admitted /\ WindowKept
  BY DEF PacerInv
<1>1. /\ UNCHANGED spent => InWindow' = InWindow /\ Used' = Used /\ WindowKept'
      /\ \A tokens : UNCHANGED spent /\ Admits(tokens) => Admits(tokens)'
  BY <1>0 DEF InWindow, Used, WindowKept, Admits
<1>2. runAt \in {"pacing", "sent", "sleeping"} => Tokens[position] \in Nat
  BY RunAssumption DEF RunTypeOK, Entry
<1>3. ASSUME UNCHANGED spent, runAt' # "sent" PROVE PacerInv'
  BY <1>0, <1>1, <1>3 DEF PacerInv, Admitted
<1>4. ASSUME UNCHANGED <<spent, runAt, position>> PROVE PacerInv'
  BY <1>0, <1>1, <1>4 DEF PacerInv, Admitted
<1>5. CASE StartRun \/ ReuseEntry \/ FetchEntry \/ WakeUp \/ WalkEnds \/ Failed \/ Dropped \/ QuotaSpent
  BY <1>3, <1>5
     DEF StartRun, ReuseEntry, FetchEntry, WakeUp, WalkEnds, Failed, Dropped, QuotaSpent,
         Recorded, Stop, Retry
<1>6. CASE Pace
  <2>1. UNCHANGED <<spent, position>> /\ Admits(Tokens[position])
    BY <1>6 DEF Pace
  <2>2. Admits(Tokens[position])'
    BY <1>1, <2>1 DEF Admits
  <2>3. QED  BY <1>0, <1>1, <2>1, <2>2 DEF PacerInv, Admitted
<1>7. CASE Extracted \/ Overloaded
  <2>1. runAt = "sent" /\ Count(Tokens[position]) /\ runAt' # "sent"
    BY <1>7 DEF Extracted, Overloaded, Recorded, Stop, Retry
  <2>2. spent' \in Seq(Spending) /\ WindowKept'
    BY <1>0, <1>2, <2>1, CountKeeps DEF Admitted
  <2>3. QED  BY <2>1, <2>2 DEF PacerInv, Admitted
<1>8. CASE WriteArtifact \/ Interrupted
  <2>1. spent' = << >> /\ runAt' = "idle"
    BY <1>8 DEF WriteArtifact, Interrupted, Over
  <2>2. WindowKept'
    BY <2>1, EmptyWindow DEF WindowKept, Used, InWindow
  <2>3. spent' \in Seq(Spending)
    BY <2>1
  <2>4. QED  BY <2>1, <2>2, <2>3 DEF PacerInv, Admitted
<1>9. CASE TimePasses
  <2>1. Age /\ UNCHANGED <<runAt, position>>
    BY <1>9 DEF TimePasses
  <2>2. /\ spent' \in Seq(Spending) /\ WindowKept'
        /\ \A tokens \in Nat : Admits(tokens) => Admits(tokens)'
    BY <1>0, <2>1, AgeKeeps
  <2>3. Admitted'
    <3>1. CASE runAt = "sent"
      <4>1. Admits(Tokens[position]) /\ Tokens[position] \in Nat
        BY <1>0, <1>2, <3>1 DEF Admitted
      <4>2. Admits(Tokens[position])'
        BY <2>1, <2>2, <4>1 DEF Admits
      <4>3. QED  BY <4>2 DEF Admitted
    <3>2. CASE runAt # "sent"
      BY <2>1, <3>2 DEF Admitted
    <3>3. QED  BY <3>1, <3>2
  <2>4. QED  BY <2>2, <2>3 DEF PacerInv
<1>10. CASE UNCHANGED runVars
  BY <1>4, <1>10 DEF runVars
<1>11. QED
  BY <1>5, <1>6, <1>7, <1>8, <1>9, <1>10 DEF RunNext, WalkStep

\* The meter that Gemini keeps of a minute is not overrun (TokenPacer), whatever a
\* run of the eval costs, retries and waits out: a request was admitted beside
\* what still counted, and until it is counted that can only become less.
THEOREM WindowIsKept == RunSpec => []WindowKept
<1>1. RunInv => RunTypeOK
  BY DEF RunInv
<1>2. PacerInv => WindowKept
  BY DEF PacerInv
<1>3. QED  BY <1>1, <1>2, RunBegins, RunGoesOn, PacerBegins, PacerGoesOn, PTL DEF RunSpec

(***************************************************************************)
(* DataHooks                                                               *)
(***************************************************************************)

Parameter == Forms \cup Keys \cup Queries \cup {Empty}
SentRequest == [id : Nat, of : Parameter]
Outcomes == {"unasked", "out", "ok", "failed"}

FilingsTypeOK ==
    filings \in [cik : BOOLEAN, form : Forms, requestId : Nat,
                 status : {"loading", "ready", "error"}, shown : Parameter]

SectionTypeOK ==
    section \in [key : Parameter, run : Nat,
                 status : {"loading", "ready", "error"}, shown : Parameter]

SearchTypeOK ==
    search \in [query : Parameter, timer : Parameter, asked : Nat, results : Parameter]

RequestsTypeOK ==
    pending \in [Hook -> SUBSET SentRequest] /\ newest \in [Hook -> Outcomes]

\* Of the requests of a hook that are out, the one with the hook's own number is
\* for what the hook is about now, and it is out as long as the newest is.
Numbered(h, count, of) ==
    /\ \A r \in pending[h] : r.id <= count /\ (r.id = count => r.of = of)
    /\ newest[h] = "out" <=> \E r \in pending[h] : r.id = count

\* What a hook shows once its newest request was answered.
Shows(h, state, shown, of) ==
    /\ newest[h] = "ok" => state = "ready" /\ shown = of
    /\ newest[h] = "failed" => state = "error"

FilingsOK ==
    /\ Numbered("filings", filings.requestId, filings.form)
    /\ Shows("filings", filings.status, filings.shown, filings.form)
    /\ ~filings.cik => newest["filings"] = "unasked" /\ pending["filings"] = {}

SectionOK ==
    /\ Numbered("section", section.run, section.key)
    /\ Shows("section", section.status, section.shown, section.key)

\* The cache of the watchlist holds no lookup that is known to have failed.
WatchOK ==
    /\ lookups \in Seq({"out", "whole", "half", "failed"})
    /\ watched \in 0..Len(lookups)
    /\ watched # 0 => lookups[watched] \in {"out", "whole"}

HooksTypeOK == FilingsTypeOK /\ SectionTypeOK /\ SearchTypeOK /\ RequestsTypeOK

HooksInv == HooksTypeOK /\ FilingsOK /\ SectionOK /\ WatchOK

LEMMA HooksBegin == HooksInit => HooksInv
<1> SUFFICES ASSUME HooksInit PROVE HooksInv  OBVIOUS
<1>1. (CHOOSE f \in Forms : TRUE) \in Forms
  BY HooksAssumption
<1>2. HooksTypeOK
  BY <1>1
     DEF HooksInit, HooksTypeOK, FilingsTypeOK, SectionTypeOK, SearchTypeOK, RequestsTypeOK,
         Parameter, AtFirst, Outcomes
<1>3. FilingsOK /\ SectionOK
  BY DEF HooksInit, FilingsOK, SectionOK, Numbered, Shows, AtFirst, Hook
<1>4. WatchOK
  BY DEF HooksInit, WatchOK
<1>5. QED  BY <1>2, <1>3, <1>4 DEF HooksInv

\* A hook that sends numbers its request anew: it is then the only one out with
\* the hook's number, and the requests of the other hooks are not touched.
LEMMA SentIsNewest ==
  ASSUME RequestsTypeOK, NEW h \in Hook, NEW count \in Nat, NEW of \in Parameter,
         \A r \in pending[h] : r.id <= count,
         Send(h, count + 1, of)
  PROVE  /\ RequestsTypeOK'
         /\ \A r \in pending'[h] : r.id <= count + 1 /\ (r.id = count + 1 => r.of = of)
         /\ newest'[h] = "out" /\ \E r \in pending'[h] : r.id = count + 1
         /\ \A g \in Hook \ {h} : pending'[g] = pending[g] /\ newest'[g] = newest[g]
<1> DEFINE new == [id |-> count + 1, of |-> of]
<1>1. new \in SentRequest /\ new.id = count + 1 /\ new.of = of
  BY DEF SentRequest
<1>2. /\ pending' = [pending EXCEPT ![h] = pending[h] \cup {new}]
      /\ newest' = [newest EXCEPT ![h] = "out"]
  BY DEF Send
<1> HIDE DEF new
<1>3. RequestsTypeOK'
  BY <1>1, <1>2 DEF RequestsTypeOK, Outcomes
<1>4. pending'[h] = pending[h] \cup {new} /\ newest'[h] = "out"
  BY <1>2 DEF RequestsTypeOK
<1>5. ASSUME NEW r \in pending'[h]
      PROVE  r.id <= count + 1 /\ (r.id = count + 1 => r.of = of)
  <2>1. CASE r = new
    BY <1>1, <2>1
  <2>2. CASE r # new
    <3>1. r \in pending[h] /\ r.id \in Nat /\ r.id <= count
      BY <1>4, <2>2 DEF RequestsTypeOK, SentRequest
    <3>2. QED  BY <3>1
  <2>3. QED  BY <2>1, <2>2
<1>6. \E r \in pending'[h] : r.id = count + 1
  BY <1>1, <1>4
<1>7. \A g \in Hook \ {h} : pending'[g] = pending[g] /\ newest'[g] = newest[g]
  BY <1>2 DEF RequestsTypeOK
<1>8. QED  BY <1>3, <1>4, <1>5, <1>6, <1>7

\* An answer that arrives is the newest's exactly if it has the hook's number.
LEMMA ArrivalIsTold ==
  ASSUME RequestsTypeOK, NEW h \in Hook, NEW count \in Nat, NEW of,
         NEW r \in pending[h], NEW ok \in {"ok", "failed"},
         Numbered(h, count, of), Arrives(h, r, ok)
  PROVE  /\ RequestsTypeOK'
         /\ \A s \in pending'[h] : s.id <= count /\ (s.id = count => s.of = of)
         /\ newest'[h] = "out" <=> \E s \in pending'[h] : s.id = count
         /\ r.id = count => newest'[h] = ok /\ r.of = of
         /\ r.id # count => newest'[h] = newest[h]
         /\ \A g \in Hook \ {h} : pending'[g] = pending[g] /\ newest'[g] = newest[g]
<1>1. /\ pending' = [pending EXCEPT ![h] = pending[h] \ {r}]
      /\ newest' = IF \A s \in pending[h] : s.id <= r.id
                   THEN [newest EXCEPT ![h] = IF newest[h] = "out" THEN ok ELSE newest[h]]
                   ELSE newest
  BY DEF Arrives
<1>2. RequestsTypeOK'
  <2>1. pending' \in [Hook -> SUBSET SentRequest]
    BY <1>1 DEF RequestsTypeOK
  <2>2. newest' \in [Hook -> Outcomes]
    BY <1>1 DEF RequestsTypeOK, Outcomes
  <2>3. QED  BY <2>1, <2>2 DEF RequestsTypeOK
<1>3. pending'[h] = pending[h] \ {r}
  BY <1>1 DEF RequestsTypeOK
<1>4. \A g \in Hook \ {h} : pending'[g] = pending[g] /\ newest'[g] = newest[g]
  BY <1>1 DEF RequestsTypeOK
<1>5. \A s \in pending[h] : s \in SentRequest /\ s.id \in Nat /\ s.id <= count /\ (s.id = count => s.of = of)
  BY DEF RequestsTypeOK, SentRequest, Numbered
<1>6. CASE r.id = count
  <2>1. newest[h] = "out" /\ \A s \in pending[h] : s.id <= r.id
    BY <1>5, <1>6 DEF Numbered
  <2>2. newest'[h] = ok
    BY <1>1, <2>1 DEF RequestsTypeOK
  <2>3. \A s \in pending'[h] : s.id # count
    <3>1. ASSUME NEW s \in pending[h], s.id = count PROVE s = r
      <4>1. s.of = r.of /\ s.id = r.id
        BY <1>5, <1>6, <3>1
      <4>2. s \in SentRequest /\ r \in SentRequest
        BY <1>5
      <4>3. QED  BY <4>1, <4>2 DEF SentRequest
    <3>2. QED  BY <1>3, <3>1
  <2>4. /\ \A s \in pending'[h] : s.id <= count /\ (s.id = count => s.of = of)
        /\ newest'[h] = "out" <=> \E s \in pending'[h] : s.id = count
    BY <1>3, <1>5, <2>2, <2>3 DEF Numbered
  <2>5. QED  BY <1>2, <1>4, <1>5, <1>6, <2>2, <2>4
<1>7. CASE r.id # count
  <2>1. newest'[h] = newest[h]
    <3>1. CASE newest[h] = "out"
      <4>1. PICK s \in pending[h] : s.id = count
        BY <3>1 DEF Numbered
      <4>2. ~(s.id <= r.id)
        BY <1>5, <1>7, <4>1
      <4>3. QED  BY <1>1, <4>2
    <3>2. CASE newest[h] # "out"
      BY <1>1, <3>2 DEF RequestsTypeOK
    <3>3. QED  BY <3>1, <3>2
  <2>2. /\ \A s \in pending'[h] : s.id <= count /\ (s.id = count => s.of = of)
        /\ newest'[h] = "out" <=> \E s \in pending'[h] : s.id = count
    BY <1>3, <1>5, <1>7, <2>1 DEF Numbered
  <2>3. QED  BY <1>2, <1>4, <1>7, <2>1, <2>2
<1>8. QED  BY <1>6, <1>7

\* A hook that is not touched stays as it was.
LEMMA OtherHooks ==
  ASSUME HooksInv, NEW h \in Hook, pending'[h] = pending[h], newest'[h] = newest[h]
  PROVE  /\ h = "filings" /\ UNCHANGED filings => FilingsOK'
         /\ h = "section" /\ UNCHANGED section => SectionOK'
BY DEF HooksInv, FilingsOK, SectionOK, Numbered, Shows

\* useFilings asks anew, of a changed filter or of the same.
LEMMA LoadKeeps ==
  ASSUME HooksInv, NEW next \in [cik : BOOLEAN, form : Forms, requestId : Nat,
                                 status : {"loading", "ready", "error"}, shown : Parameter],
         next.requestId = filings.requestId, ~next.cik => ~filings.cik, Load(next),
         UNCHANGED <<section, watchVars, search>>
  PROVE  HooksInv'
<1> DEFINE id == filings.requestId
<1>0. HooksTypeOK /\ id \in Nat /\ FilingsOK /\ SectionOK
  BY DEF HooksInv, HooksTypeOK, FilingsTypeOK
<1>1. "filings" \in Hook /\ "section" \in Hook \ {"filings"}
  BY DEF Hook
<1>2. CASE next.cik
  <2>1. filings' = [next EXCEPT !.requestId = next.requestId + 1]
        /\ Send("filings", id + 1, next.form)
    BY <1>2 DEF Load
  <2>2. filings'.requestId = id + 1 /\ filings'.form = next.form /\ filings'.cik
        /\ FilingsTypeOK'
    BY <1>0, <1>2, <2>1 DEF FilingsTypeOK
  <2>3. \A r \in pending["filings"] : r.id <= id
    BY <1>0 DEF FilingsOK, Numbered
  <2>4. next.form \in Parameter
    BY DEF Parameter
  <2> HIDE DEF id
  <2>5. /\ RequestsTypeOK'
        /\ \A r \in pending'["filings"] : r.id <= id + 1 /\ (r.id = id + 1 => r.of = next.form)
        /\ newest'["filings"] = "out" /\ \E r \in pending'["filings"] : r.id = id + 1
        /\ pending'["section"] = pending["section"] /\ newest'["section"] = newest["section"]
    BY <1>0, <1>1, <2>1, <2>3, <2>4, SentIsNewest DEF HooksTypeOK
  <2>6. FilingsOK'
    BY <2>2, <2>5 DEF FilingsOK, Numbered, Shows
  <2>7. SectionOK'
    BY <1>1, <2>5, OtherHooks
  <2>8. QED
    BY <1>0, <2>2, <2>5, <2>6, <2>7
       DEF HooksInv, HooksTypeOK, SectionTypeOK, SearchTypeOK, WatchOK, watchVars
<1>3. CASE ~next.cik
  <2>1. filings' = next /\ UNCHANGED <<pending, newest>>
    BY <1>3 DEF Load
  <2>2. newest["filings"] = "unasked" /\ pending["filings"] = {}
    BY <1>0, <1>3 DEF FilingsOK
  <2>3. FilingsOK'
    BY <2>1, <2>2 DEF FilingsOK, Numbered, Shows
  <2>4. FilingsTypeOK' /\ RequestsTypeOK'
    BY <1>0, <2>1 DEF HooksTypeOK, FilingsTypeOK, RequestsTypeOK
  <2>5. SectionOK'
    BY <1>1, <2>1, OtherHooks
  <2>6. QED
    BY <1>0, <2>3, <2>4, <2>5
       DEF HooksInv, HooksTypeOK, SectionTypeOK, SearchTypeOK, WatchOK, watchVars
<1>4. QED  BY <1>2, <1>3

\* Only an answer to the newest request changes what useFilings shows.
LEMMA FilingsArriveKeeps ==
  ASSUME HooksInv, NEW r \in pending["filings"], NEW ok \in {"ok", "failed"},
         FilingsArrive(r, ok), UNCHANGED <<section, watchVars, search>>
  PROVE  HooksInv'
<1> DEFINE id == filings.requestId
<1>0. /\ HooksTypeOK /\ FilingsOK /\ id \in Nat /\ RequestsTypeOK
      /\ Numbered("filings", id, filings.form)
  BY DEF HooksInv, HooksTypeOK, FilingsTypeOK, FilingsOK
<1>1. "filings" \in Hook /\ "section" \in Hook \ {"filings"}
  BY DEF Hook
<1>2. /\ RequestsTypeOK'
      /\ \A q \in pending'["filings"] : q.id <= id /\ (q.id = id => q.of = filings.form)
      /\ newest'["filings"] = "out" <=> \E q \in pending'["filings"] : q.id = id
      /\ r.id = id => newest'["filings"] = ok /\ r.of = filings.form
      /\ r.id # id => newest'["filings"] = newest["filings"]
      /\ pending'["section"] = pending["section"] /\ newest'["section"] = newest["section"]
  <2> DEFINE form == filings.form
  <2>1. Arrives("filings", r, ok) /\ Numbered("filings", id, form)
    BY <1>0 DEF FilingsArrive
  <2> HIDE DEF id, form
  <2>2. QED  BY <1>0, <1>1, <2>1, ArrivalIsTold DEF form
<1>3. /\ filings' = IF r.id # id THEN filings
                    ELSE IF ok = "failed" THEN [filings EXCEPT !.status = "error"]
                    ELSE [filings EXCEPT !.status = "ready", !.shown = r.of]
      /\ filings \in [cik : BOOLEAN, form : Forms, requestId : Nat,
                      status : {"loading", "ready", "error"}, shown : Parameter]
      /\ r \in SentRequest /\ filings.cik
  BY <1>0, <1>1
     DEF FilingsArrive, HooksTypeOK, FilingsTypeOK, RequestsTypeOK, FilingsOK
<1>4. FilingsTypeOK' /\ filings'.requestId = id /\ filings'.form = filings.form /\ filings'.cik
  BY <1>3 DEF FilingsTypeOK, SentRequest
<1>5. Numbered("filings", filings.requestId, filings.form)'
  BY <1>2, <1>4 DEF Numbered
<1>6. Shows("filings", filings.status, filings.shown, filings.form)'
  <2>1. CASE r.id # id
    BY <1>0, <1>2, <1>3, <2>1 DEF FilingsOK, Shows
  <2>2. CASE r.id = id
    BY <1>2, <1>3, <2>2 DEF Shows
  <2>3. QED  BY <2>1, <2>2
<1>7. SectionOK'
  BY <1>1, <1>2, OtherHooks
<1>8. QED
  BY <1>0, <1>2, <1>4, <1>5, <1>6, <1>7
     DEF HooksInv, HooksTypeOK, SectionTypeOK, SearchTypeOK, FilingsOK, WatchOK, watchVars

\* useSection asks anew, for another key or for the same.
LEMMA SectionRunKeeps ==
  ASSUME HooksInv, NEW next \in [key : Parameter, run : Nat,
                                 status : {"loading", "ready", "error"}, shown : Parameter],
         next.run = section.run, Run(next),
         UNCHANGED <<filings, watchVars, search>>
  PROVE  HooksInv'
<1> DEFINE id == section.run
<1>0. HooksTypeOK /\ id \in Nat /\ FilingsOK /\ SectionOK
  BY DEF HooksInv, HooksTypeOK, SectionTypeOK
<1>1. "section" \in Hook /\ "filings" \in Hook \ {"section"}
  BY DEF Hook
<1>2. section' = [next EXCEPT !.run = next.run + 1] /\ Send("section", id + 1, next.key)
  BY DEF Run
<1>3. section'.run = id + 1 /\ section'.key = next.key /\ SectionTypeOK'
  BY <1>0, <1>2 DEF SectionTypeOK
<1>4. \A r \in pending["section"] : r.id <= id
  BY <1>0 DEF SectionOK, Numbered
<1>5. next.key \in Parameter
  OBVIOUS
<1> HIDE DEF id
<1>6. /\ RequestsTypeOK'
      /\ \A r \in pending'["section"] : r.id <= id + 1 /\ (r.id = id + 1 => r.of = next.key)
      /\ newest'["section"] = "out" /\ \E r \in pending'["section"] : r.id = id + 1
      /\ pending'["filings"] = pending["filings"] /\ newest'["filings"] = newest["filings"]
  BY <1>0, <1>1, <1>2, <1>4, <1>5, SentIsNewest DEF HooksTypeOK
<1>7. SectionOK'
  BY <1>3, <1>6 DEF SectionOK, Numbered, Shows
<1>8. FilingsOK'
  BY <1>1, <1>6, OtherHooks
<1>9. QED
  BY <1>0, <1>3, <1>6, <1>7, <1>8
     DEF HooksInv, HooksTypeOK, FilingsTypeOK, SearchTypeOK, WatchOK, watchVars

\* An answer to a run that was cancelled changes nothing that useSection shows.
LEMMA SectionArriveKeeps ==
  ASSUME HooksInv, NEW r \in pending["section"], NEW ok \in {"ok", "failed"},
         SectionArrives(r, ok), UNCHANGED <<filings, watchVars, search>>
  PROVE  HooksInv'
<1> DEFINE id == section.run
<1>0. /\ HooksTypeOK /\ SectionOK /\ id \in Nat /\ RequestsTypeOK
      /\ Numbered("section", id, section.key)
  BY DEF HooksInv, HooksTypeOK, SectionTypeOK, SectionOK
<1>1. "section" \in Hook /\ "filings" \in Hook \ {"section"}
  BY DEF Hook
<1>2. /\ RequestsTypeOK'
      /\ \A q \in pending'["section"] : q.id <= id /\ (q.id = id => q.of = section.key)
      /\ newest'["section"] = "out" <=> \E q \in pending'["section"] : q.id = id
      /\ r.id = id => newest'["section"] = ok /\ r.of = section.key
      /\ r.id # id => newest'["section"] = newest["section"]
      /\ pending'["filings"] = pending["filings"] /\ newest'["filings"] = newest["filings"]
  <2> HIDE DEF id
  <2> QED  BY <1>0, <1>1, ArrivalIsTold DEF SectionArrives
<1>3. /\ section' = IF r.id # id THEN section
                    ELSE IF ok = "failed" THEN [section EXCEPT !.status = "error", !.shown = Empty]
                    ELSE [section EXCEPT !.status = "ready", !.shown = r.of]
      /\ section \in [key : Parameter, run : Nat,
                      status : {"loading", "ready", "error"}, shown : Parameter]
      /\ r \in SentRequest /\ Empty \in Parameter
  BY <1>0, <1>1 DEF SectionArrives, HooksTypeOK, SectionTypeOK, RequestsTypeOK, Parameter
<1>4. SectionTypeOK' /\ section'.run = id /\ section'.key = section.key
  BY <1>3 DEF SectionTypeOK, SentRequest
<1>5. Numbered("section", section.run, section.key)'
  BY <1>2, <1>4 DEF Numbered
<1>6. Shows("section", section.status, section.shown, section.key)'
  <2>1. CASE r.id # id
    BY <1>0, <1>2, <1>3, <2>1 DEF SectionOK, Shows
  <2>2. CASE r.id = id
    BY <1>2, <1>3, <2>2 DEF Shows
  <2>3. QED  BY <2>1, <2>2
<1>7. FilingsOK'
  BY <1>1, <1>2, OtherHooks
<1>8. QED
  BY <1>0, <1>2, <1>4, <1>5, <1>6, <1>7
     DEF HooksInv, HooksTypeOK, FilingsTypeOK, SearchTypeOK, SectionOK, WatchOK, watchVars

LEMMA FilingsStepKeeps ==
  ASSUME HooksInv, FilingsStep, UNCHANGED <<section, watchVars, search>>
  PROVE  HooksInv'
<1>0. filings \in [cik : BOOLEAN, form : Forms, requestId : Nat,
                   status : {"loading", "ready", "error"}, shown : Parameter]
  BY DEF HooksInv, HooksTypeOK, FilingsTypeOK
<1>1. CASE CompanyResolved
  BY <1>0, <1>1, LoadKeeps DEF CompanyResolved
<1>2. CASE RetryFilings
  BY <1>0, <1>2, LoadKeeps DEF RetryFilings
<1>3. ASSUME NEW f \in Forms, SelectFilter(f) PROVE HooksInv'
  BY <1>0, <1>3, LoadKeeps DEF SelectFilter
<1>4. QED  BY <1>1, <1>2, <1>3, FilingsArriveKeeps DEF FilingsStep

LEMMA SectionStepKeeps ==
  ASSUME HooksInv, SectionStep, UNCHANGED <<filings, watchVars, search>>
  PROVE  HooksInv'
<1>0. section \in [key : Parameter, run : Nat,
                   status : {"loading", "ready", "error"}, shown : Parameter]
  BY DEF HooksInv, HooksTypeOK, SectionTypeOK
<1>1. CASE RetrySection
  BY <1>0, <1>1, SectionRunKeeps DEF RetrySection
<1>2. ASSUME NEW k \in Keys, KeyChanges(k) PROVE HooksInv'
  BY <1>0, <1>2, SectionRunKeeps DEF KeyChanges, Parameter
<1>3. QED  BY <1>1, <1>2, SectionArriveKeeps DEF SectionStep

\* A lookup that fails takes what is cached with it, its own or a later one.
LEMMA WatchStepKeeps ==
  ASSUME HooksInv, WatchStep, UNCHANGED <<filings, section, search, requests>>
  PROVE  HooksInv'
<1>0. WatchOK
  BY DEF HooksInv
<1>1. CASE LoadWatchStatus
  <2>1. lookups' = Append(lookups, "out") /\ watched' = Len(lookups) + 1
    BY <1>1 DEF LoadWatchStatus
  <2>2. WatchOK'
    BY <1>0, <2>1 DEF WatchOK
  <2>3. QED
    BY <2>2
       DEF HooksInv, HooksTypeOK, FilingsTypeOK, SectionTypeOK, SearchTypeOK, RequestsTypeOK,
           FilingsOK, SectionOK, Numbered, Shows, requests
<1>2. ASSUME NEW i \in DOMAIN lookups, NEW outcome \in {"whole", "half", "failed"},
             LookupEnds(i, outcome)
      PROVE  HooksInv'
  <2>1. /\ lookups' = [lookups EXCEPT ![i] = outcome]
        /\ watched' = IF outcome # "whole" THEN 0 ELSE watched
    BY <1>2 DEF LookupEnds
  <2>2. lookups' \in Seq({"out", "whole", "half", "failed"}) /\ Len(lookups') = Len(lookups)
    BY <1>0, <2>1 DEF WatchOK
  <2>3. watched' # 0 => lookups'[watched'] \in {"out", "whole"}
    BY <1>0, <2>1 DEF WatchOK
  <2>4. watched' \in 0..Len(lookups')
    BY <1>0, <2>1, <2>2 DEF WatchOK
  <2>5. QED
    BY <2>2, <2>3, <2>4
       DEF HooksInv, HooksTypeOK, FilingsTypeOK, SectionTypeOK, SearchTypeOK, RequestsTypeOK,
           FilingsOK, SectionOK, Numbered, Shows, requests, WatchOK
<1>3. CASE WatchExpires
  BY <1>0, <1>3
     DEF WatchExpires, HooksInv, HooksTypeOK, FilingsTypeOK, SectionTypeOK, SearchTypeOK,
         RequestsTypeOK, FilingsOK, SectionOK, Numbered, Shows, requests, WatchOK
<1>4. QED  BY <1>1, <1>2, <1>3 DEF WatchStep

LEMMA SearchStepKeeps ==
  ASSUME HooksInv, SearchStep, UNCHANGED <<filings, section, watchVars>>
  PROVE  HooksInv'
<1>0. /\ search \in [query : Parameter, timer : Parameter, asked : Nat, results : Parameter]
      /\ RequestsTypeOK /\ Empty \in Parameter /\ Queries \subseteq Parameter
      /\ "search" \in Hook
      /\ "filings" \in Hook \ {"search"} /\ "section" \in Hook \ {"search"}
  BY DEF HooksInv, HooksTypeOK, SearchTypeOK, Parameter, Hook
<1> DEFINE Rest ==
             /\ SearchTypeOK' /\ RequestsTypeOK'
             /\ \A h \in {"filings", "section"} : pending'[h] = pending[h] /\ newest'[h] = newest[h]
<1>1. ASSUME Rest PROVE HooksInv'
  <2>1. FilingsOK' /\ SectionOK'
    BY <1>0, <1>1, OtherHooks
  <2>2. QED
    BY <1>1, <2>1
       DEF HooksInv, HooksTypeOK, FilingsTypeOK, SectionTypeOK, WatchOK, watchVars
<1>2. ASSUME Select PROVE Rest
  BY <1>0, <1>2 DEF Select, SearchTypeOK, RequestsTypeOK, requests
<1>3. ASSUME NEW q \in Queries \cup {Empty}, Type(q) PROVE Rest
  BY <1>0, <1>3 DEF Type, SearchTypeOK, RequestsTypeOK, requests
<1>4. ASSUME Debounced PROVE Rest
  <2>1. SearchTypeOK'
    <3>1. search' = [search EXCEPT !.timer = Empty, !.asked = @ + 1]
      BY <1>4 DEF Debounced
    <3>2. search.asked + 1 \in Nat
      BY <1>0
    <3> DEFINE next == search.asked + 1
    <3>3. search' = [search EXCEPT !.timer = Empty, !.asked = next] /\ next \in Nat
      BY <3>1, <3>2
    <3> HIDE DEF next
    <3>4. QED  BY <1>0, <3>3 DEF SearchTypeOK
  <2>2. /\ pending' = [pending EXCEPT !["search"] =
                          @ \cup {[id |-> search.asked + 1, of |-> search.timer]}]
        /\ newest' = [newest EXCEPT !["search"] = "out"]
        /\ [id |-> search.asked + 1, of |-> search.timer] \in SentRequest
    BY <1>0, <1>4 DEF Debounced, Send, SentRequest
  <2>3. RequestsTypeOK'
    BY <1>0, <2>2 DEF RequestsTypeOK, Outcomes
  <2>4. QED  BY <1>0, <2>1, <2>2, <2>3 DEF RequestsTypeOK
<1>5. ASSUME NEW r \in pending["search"], NEW ok \in {"ok", "failed"}, ResultsArrive(r, ok)
      PROVE  Rest
  <2>1. r \in SentRequest
    BY <1>0 DEF RequestsTypeOK
  <2>2. SearchTypeOK'
    BY <1>0, <1>5, <2>1 DEF ResultsArrive, SearchTypeOK, SentRequest
  <2>3. /\ pending' = [pending EXCEPT !["search"] = @ \ {r}]
        /\ newest' = newest \/ newest' = [newest EXCEPT !["search"] = IF @ = "out" THEN ok ELSE @]
    BY <1>5 DEF ResultsArrive, Arrives
  <2>4. RequestsTypeOK'
    BY <1>0, <2>3 DEF RequestsTypeOK, Outcomes
  <2>5. QED  BY <1>0, <2>2, <2>3, <2>4 DEF RequestsTypeOK
<1> HIDE DEF Rest
<1>6. QED  BY <1>1, <1>2, <1>3, <1>4, <1>5 DEF SearchStep

LEMMA HooksGoOn == HooksInv /\ [HooksNext]_hookVars => HooksInv'
<1> SUFFICES ASSUME HooksInv, [HooksNext]_hookVars PROVE HooksInv'  OBVIOUS
<1>1. CASE UNCHANGED hookVars
  BY <1>1
     DEF hookVars, HooksInv, HooksTypeOK, FilingsTypeOK, SectionTypeOK, SearchTypeOK,
         RequestsTypeOK, FilingsOK, SectionOK, Numbered, Shows, WatchOK
<1>2. QED
  BY <1>1, FilingsStepKeeps, SectionStepKeeps, WatchStepKeeps, SearchStepKeeps
     DEF HooksNext

\* Only the newest request writes what a hook shows, and a lookup that is known
\* to have failed is handed to nobody, in whatever order the answers to any
\* number of filters, keys, retries and lookups arrive.
THEOREM NewestAnswerWins == HooksSpec => []NewestAnswerStays
<1>1. HooksInv => NewestAnswerStays
  BY DEF HooksInv, FilingsOK, SectionOK, Shows, WatchOK, NewestAnswerStays
<1>2. QED  BY <1>1, HooksBegin, HooksGoOn, PTL DEF HooksSpec
=============================================================================
