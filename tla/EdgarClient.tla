----------------------------- MODULE EdgarClient -----------------------------
(***************************************************************************)
(* The EDGAR client of src/backend/app/services/edgar.py: every request of *)
(* the process passes _get_with_retry, which holds one of four slots while *)
(* a request is out, lets go of it while it waits to retry, and sends a    *)
(* call at most three times.  A caller that stops waiting (a cancelled     *)
(* request, the total timeout of a peer scan) cancels its call wherever it *)
(* is.                                                                     *)
(***************************************************************************)
EXTENDS Naturals, FiniteSets

CONSTANTS
    Calls,        \* calls that may be under way at once
    Slots,        \* edgar.py's semaphore: 4
    Attempts      \* _RETRY_ATTEMPTS: 3

ASSUME ClientAssumption == Slots \in Nat \ {0} /\ Attempts \in Nat \ {0}

VARIABLES
    callAt,       \* callAt[c]: where call c is
    attempt,      \* attempt[c]: the attempt c is at, from 1
    freeSlots,    \* the semaphore's value
    sends         \* sends[c]: requests sent for c since it began

clientVars == <<callAt, attempt, freeSlots, sends>>

Open == {"waiting", "out", "sleeping"}
Finished == {"ok", "absent", "failed", "abandoned"}

ClientInit ==
    /\ callAt = [c \in Calls |-> "idle"]
    /\ attempt = [c \in Calls |-> 1]
    /\ freeSlots = Slots
    /\ sends = [c \in Calls |-> 0]

\* _get_with_retry is entered.
StartCall(c) ==
    /\ callAt[c] \notin Open
    /\ callAt' = [callAt EXCEPT ![c] = "waiting"]
    /\ attempt' = [attempt EXCEPT ![c] = 1]
    /\ sends' = [sends EXCEPT ![c] = 0]
    /\ UNCHANGED freeSlots

\* async with _semaphore: the request goes out.
Acquire(c) ==
    /\ callAt[c] = "waiting"
    /\ freeSlots > 0
    /\ freeSlots' = freeSlots - 1
    /\ callAt' = [callAt EXCEPT ![c] = "out"]
    /\ sends' = [sends EXCEPT ![c] = @ + 1]
    /\ UNCHANGED attempt

\* A request ends and its slot is free again, whatever became of it.
Release(c, next) ==
    /\ callAt[c] = "out"
    /\ freeSlots' = freeSlots + 1
    /\ callAt' = [callAt EXCEPT ![c] = next]
    /\ UNCHANGED <<attempt, sends>>

\* A response that is not retried: 200, or a status raise_for_status raises.
Answered(c) ==
    \E end \in {"ok", "absent", "failed"} : Release(c, end)

LastAttempt(c) == attempt[c] = Attempts

\* 403, 429 or 5xx, or no response: slept on, unless it was the last attempt.
Refused(c) == Release(c, IF LastAttempt(c) THEN "failed" ELSE "sleeping")

Wake(c) ==
    /\ callAt[c] = "sleeping"
    /\ callAt' = [callAt EXCEPT ![c] = "waiting"]
    /\ attempt' = [attempt EXCEPT ![c] = @ + 1]
    /\ UNCHANGED <<freeSlots, sends>>

\* Mutant: a cancelled request keeps its slot.
AbandonKeepsSlot(c) ==
    /\ callAt[c] \in Open
    /\ callAt' = [callAt EXCEPT ![c] = "abandoned"]
    /\ UNCHANGED <<attempt, freeSlots, sends>>

\* Mutant: letting go of the slot is not tied to holding it.
AbandonFreesSlot(c) ==
    /\ callAt[c] \in Open
    /\ callAt' = [callAt EXCEPT ![c] = "abandoned"]
    /\ freeSlots' = freeSlots + 1
    /\ UNCHANGED <<attempt, sends>>

\* The task awaiting the call is cancelled; async with lets go of the slot.
Abandon(c) ==
    /\ callAt[c] \in Open
    /\ callAt' = [callAt EXCEPT ![c] = "abandoned"]
    /\ freeSlots' = IF callAt[c] = "out" THEN freeSlots + 1 ELSE freeSlots
    /\ UNCHANGED <<attempt, sends>>

ClientNext ==
    \E c \in Calls :
        \/ StartCall(c) \/ Acquire(c) \/ Answered(c) \/ Refused(c)
        \/ Wake(c) \/ Abandon(c)

\* Each request has a timeout, each sleep ends, and asyncio's semaphore wakes
\* its waiters in order, so that a waiter is not passed over for ever.
ClientFairness ==
    \A c \in Calls :
        /\ WF_clientVars(Answered(c) \/ Refused(c))
        /\ WF_clientVars(Wake(c))
        /\ SF_clientVars(Acquire(c))

ClientSpec == ClientInit /\ [][ClientNext]_clientVars /\ ClientFairness

(***************************************************************************)
(* Properties                                                              *)
(***************************************************************************)

\* No slot is lost or made up: the slots in hand are exactly the requests
\* that are out, also when a retry, a failure or a cancellation ended one.
NoSlotLeaks ==
    freeSlots + Cardinality({c \in Calls : callAt[c] = "out"}) = Slots

Promise == INSTANCE EdgarCall WITH
    stage <- [c \in Calls |-> IF callAt[c] \in Open THEN "open" ELSE callAt[c]],
    sent <- sends

\* The client keeps the promise its callers rely on: at most Attempts requests
\* for a call, an end for every call, and no end without a request.
KeepsPromise == Promise!CallSpec
=============================================================================
