------------------------------ MODULE EdgarCall ------------------------------
(***************************************************************************)
(* What services/edgar.py promises the modules that fetch from SEC EDGAR:  *)
(* a call is answered, refused or abandoned by its caller, it is sent at   *)
(* most Attempts times, and it does not stay open for ever.  EdgarClient   *)
(* implements this with a throttle and a retry; EdgarReads and Frames are  *)
(* written against it.                                                     *)
(***************************************************************************)
EXTENDS Naturals

CONSTANTS
    Calls,     \* the calls a process may have under way at once
    Attempts   \* how often one call may be sent

VARIABLES
    stage,     \* stage[c]: where call c is
    sent       \* sent[c]: how often c was sent since it began

Ended == {"ok", "absent", "failed", "abandoned"}

CallInit ==
    /\ stage = [c \in Calls |-> "idle"]
    /\ sent = [c \in Calls |-> 0]

Begin(c) ==
    /\ stage[c] \in Ended \cup {"idle"}
    /\ stage' = [stage EXCEPT ![c] = "open"]
    /\ sent' = [sent EXCEPT ![c] = 0]

Send(c) ==
    /\ stage[c] = "open"
    /\ sent[c] < Attempts
    /\ sent' = [sent EXCEPT ![c] = @ + 1]
    /\ UNCHANGED stage

\* An answer needs a request; a caller may abandon a call at any time.
End(c) ==
    /\ stage[c] = "open"
    /\ \E e \in Ended :
          /\ sent[c] > 0 \/ e = "abandoned"
          /\ stage' = [stage EXCEPT ![c] = e]
    /\ UNCHANGED sent

callVars == <<stage, sent>>

CallNext == \E c \in Calls : Begin(c) \/ Send(c) \/ End(c)

CallSpec ==
    /\ CallInit /\ [][CallNext]_callVars
    /\ \A c \in Calls : WF_callVars(Send(c) \/ End(c))
=============================================================================
