------------------------------ MODULE TokenPacer ------------------------------
(***************************************************************************)
(* embeddings.TokenPacer: the tokens one caller sends to Gemini in a       *)
(* rolling window.  A request waits for room before it is sent and is      *)
(* counted when it has been served, so each entry carries its age.         *)
(***************************************************************************)
EXTENDS Naturals, Sequences, FiniteSets

CONSTANTS
    Budget,    \* tokens that fit one window
    Window     \* how long a request counts

ASSUME PacerAssumption == Budget \in Nat /\ Window \in Nat

VARIABLE spent   \* TokenPacer._spent, oldest first: [age, tokens]

PacerInit == spent = << >>

\* _used: requests that have left the window are purged from the front.
Purged(requests) ==
    LET gone == CHOOSE n \in 0..Len(requests) :
                    /\ \A i \in 1..n : requests[i].age >= Window
                    /\ n < Len(requests) => requests[n + 1].age < Window
    IN  SubSeq(requests, gone + 1, Len(requests))
InWindow == Purged(spent)

\* The tokens of requests, one by one, so that their number is the sum.
TokensOf(requests) == UNION {{i} \X (1..requests[i].tokens) : i \in DOMAIN requests}
Used == Cardinality(TokensOf(InWindow))

\* Mutant: the empty window is no exception.
AdmitsOnlyFitting(tokens) == Used + tokens <= Budget

\* Mutant: what the request itself costs is left out.
AdmitsUntilFull(tokens) == Used < Budget

\* acquire: an empty window admits whatever the request costs.
Admits(tokens) == InWindow = << >> \/ Used + tokens <= Budget

Count(tokens) == spent' = Append(InWindow, [age |-> 0, tokens |-> tokens])

\* Time passes.
Age ==
    /\ InWindow # << >>
    /\ spent' = [i \in DOMAIN InWindow |-> [InWindow[i] EXCEPT !.age = @ + 1]]

\* The meter the server keeps is never overrun, but by a single request that is
\* itself larger than the window.
WindowKept == Used <= Budget \/ Len(InWindow) = 1
=============================================================================
