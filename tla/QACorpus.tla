------------------------------- MODULE QACorpus -------------------------------
(***************************************************************************)
(* The corpora of the Q&A eval and the runs that answer over them          *)
(* (evals/eval_qa.py): build-corpus, run and annotate, one command at a    *)
(* time, any of which the quota may stop and an interrupt may kill.  Only  *)
(* the app's own chunk size is followed; it changes between two commands.  *)
(***************************************************************************)
EXTENDS Naturals, Sequences, FiniteSets

CONSTANTS
    Filings,    \* filings the questions search
    Asked,      \* Asked[i]: the filings question i searches, in golden order
    WithAnswer, \* the questions whose answer is in their filings
    Total,      \* Total[v]: chunks that a filing is cut into by the v-th chunking
    Batch,      \* most chunks of one embedding request
    NoFile

ASSUME CorpusAssumption ==
    Asked \in Seq(SUBSET Filings) /\ Total \in Seq(Nat) \ {<<>>} /\ Batch \in Nat

Chunkings == DOMAIN Total

\* A chunk by its filing, its stored position and the chunking that cut it: what
\* its content is a function of.
Chunk(f, pos, cut) == [filing |-> f, pos |-> pos, cut |-> cut]

VARIABLES
    chunking,   \* the chunking of the code as it is
    corpora,    \* corpora[f]: the saved corpus, its label, total and chunks
    command,    \* what is running: "idle", "build" or "run"
    todo,       \* filings that the build has still to look at
    building,   \* the filing in hand, or NoFile
    done,       \* its chunks embedded so far, the build's own copy
    refresh,    \* --refresh was given
    records,    \* records of the running eval
    artifact    \* the saved run: its label and its records

corpusVars == <<chunking, corpora, command, todo, building, done, refresh, records, artifact>>

CorpusInit ==
    /\ chunking = 1
    /\ corpora = [f \in Filings |-> NoFile]
    /\ command = "idle" /\ todo = {} /\ building = NoFile /\ done = <<>> /\ refresh = FALSE
    /\ records = <<>>
    /\ artifact = NoFile

\* FilingCorpus.complete
Complete(c) == Len(c.chunks) >= c.total

\* load_corpus does not raise
Loads(f, label) ==
    /\ corpora[f] # NoFile
    /\ Complete(corpora[f]) /\ corpora[f].label = label /\ label = chunking

\* numbered: the next n chunks of f, after the first base.
Numbered(f, base, n) == [i \in 1..n |-> Chunk(f, base + i, chunking)]

Stop ==
    /\ command' = "idle" /\ todo' = {} /\ building' = NoFile /\ done' = <<>> /\ refresh' = FALSE
    /\ records' = <<>>

Save(chunks) ==
    corpora' = [corpora EXCEPT ![building] =
                   [label |-> chunking, total |-> Total[chunking], chunks |-> chunks]]

StartBuild ==
    /\ command = "idle"
    /\ command' = "build" /\ todo' = Filings
    /\ refresh' \in BOOLEAN
    /\ UNCHANGED <<chunking, corpora, building, done, records, artifact>>

\* The next filing: one that is complete is skipped, one that is not is resumed.
OpenFiling(f) ==
    LET kept == corpora[f] # NoFile /\ ~refresh
    IN  /\ command = "build" /\ building = NoFile /\ f \in todo
        /\ todo' = todo \ {f}
        /\ IF kept /\ Complete(corpora[f])
           THEN UNCHANGED <<building, done>>
           ELSE /\ building' = f
                /\ done' = IF kept THEN corpora[f].chunks ELSE <<>>
        /\ UNCHANGED <<chunking, corpora, command, refresh, records, artifact>>

\* A batch of what remains, as long as its tokens allow: embedded and saved, or
\* refused, which saves and stops.
EmbedBatch(n) ==
    LET more == done \o Numbered(building, Len(done), n)
    IN  /\ building # NoFile /\ Len(more) <= Total[chunking]
        /\ \/ /\ done' = more
              /\ Save(more)
              /\ UNCHANGED <<command, todo, building, refresh, records>>
           \/ Save(done) /\ Stop
        /\ UNCHANGED <<chunking, artifact>>

\* Nothing remains; what was resumed past the end is not saved again.
CloseFiling ==
    /\ building # NoFile /\ Len(done) >= Total[chunking]
    /\ building' = NoFile /\ done' = <<>>
    /\ UNCHANGED <<chunking, corpora, command, todo, refresh, records, artifact>>

EndBuild == command = "build" /\ building = NoFile /\ todo = {} /\ Stop
            /\ UNCHANGED <<chunking, corpora, artifact>>

\* run: every corpus loads, or nothing is asked.
StartRun ==
    /\ command = "idle"
    /\ \A f \in Filings : Loads(f, chunking)
    /\ command' = "run"
    /\ UNCHANGED <<chunking, corpora, todo, building, done, refresh, records, artifact>>

\* What a question retrieves: chunks of each filing it searches.
Retrievals(i) ==
    {{corpora[f].chunks[at[f]] : f \in Asked[i]} :
        at \in {a \in [Asked[i] -> 1..Total[chunking]] :
                   \A f \in Asked[i] : a[f] <= Len(corpora[f].chunks)}}

\* The next question: answered, with its similarities unless they were refused;
\* an error of its own; or a refusal of the quota, which also ends the run.
AskNext ==
    LET i == Len(records) + 1
        Recorded(end, seen, sims) ==
            records' = Append(records, [question |-> i, end |-> end, seen |-> seen, sims |-> sims])
    IN  /\ command = "run" /\ i <= Len(Asked)
        /\ records # <<>> => records[i - 1].end # "quota"
        /\ \/ \E seen \in Retrievals(i) : \E sims \in {seen, {}} : Recorded("answered", seen, sims)
           \/ \E end \in {"error", "quota"} : Recorded(end, {}, {})
        /\ UNCHANGED <<chunking, corpora, command, todo, building, done, refresh, artifact>>

\* The artifact is written once, when the questions or the quota have run out.
EndRun ==
    /\ command = "run" /\ records # <<>>
    /\ Len(records) = Len(Asked) \/ records[Len(records)].end = "quota"
    /\ artifact' = [label |-> chunking, records |-> records]
    /\ Stop
    /\ UNCHANGED <<chunking, corpora>>

\* Mutant: the vectors are taken by position, whatever the text there is now.
VectorByPosition(c) ==
    {d \in {corpora[c.filing].chunks[k] : k \in 1..Len(corpora[c.filing].chunks)} : d.pos = c.pos}

\* _chunk_vectors: the stored chunk that a record's chunk is, if it still is.
VectorOf(c) ==
    {d \in {corpora[c.filing].chunks[k] : k \in 1..Len(corpora[c.filing].chunks)} :
        d.pos = c.pos /\ d = c}

\* annotate, of the answers to answerable questions before the one that is
\* refused.  A chunk that no longer matches, or a corpus that does not load,
\* raises and nothing is written.
Annotate(upto) ==
    LET due == {i \in (1..upto) \cap WithAnswer : artifact.records[i].end = "answered"}
    IN  /\ command = "idle" /\ artifact # NoFile /\ upto <= Len(artifact.records)
        /\ \A i \in due : \A c \in artifact.records[i].seen :
              Loads(c.filing, artifact.label) /\ VectorOf(c) # {}
        /\ artifact' = [artifact EXCEPT !.records =
              [i \in DOMAIN @ |->
                  IF i \in due
                  THEN [@[i] EXCEPT !.sims = UNION {VectorOf(c) : c \in artifact.records[i].seen}]
                  ELSE @[i]]]
        /\ UNCHANGED <<chunking, corpora, command, todo, building, done, refresh, records>>

\* The command is interrupted; what it saved stays.
Interrupt == command # "idle" /\ Stop /\ UNCHANGED <<chunking, corpora, artifact>>

\* CHUNK_SIZE is changed between two commands.
Rechunk ==
    /\ command = "idle" /\ chunking + 1 \in Chunkings
    /\ chunking' = chunking + 1
    /\ UNCHANGED <<corpora, command, todo, building, done, refresh, records, artifact>>

CorpusNext ==
    \/ StartBuild \/ (\E f \in Filings : OpenFiling(f)) \/ (\E n \in 1..Batch : EmbedBatch(n)) \/ CloseFiling \/ EndBuild
    \/ StartRun \/ AskNext \/ EndRun
    \/ \E upto \in 1..Len(Asked) : Annotate(upto)
    \/ Interrupt \/ Rechunk

CorpusSpec == CorpusInit /\ [][CorpusNext]_corpusVars

(***************************************************************************)
(* Properties                                                              *)
(***************************************************************************)

\* However builds, runs and annotations were stopped, resumed and refreshed, and
\* the chunking changed between them: a corpus holds the positions of its filing
\* in order, each once; and the similarities a saved answer is scored with are
\* those of the very chunks the model was shown.
ScoredAsSeen ==
    /\ \A f \in Filings : corpora[f] # NoFile =>
          \A k \in 1..Len(corpora[f].chunks) : corpora[f].chunks[k].pos = k
    /\ artifact # NoFile =>
          \A i \in 1..Len(artifact.records) :
              artifact.records[i].sims \in {{}, artifact.records[i].seen}

\* "a corpus built under a different CHUNK_SIZE is caught rather than silently
\* scored" (FilingCorpus): what an answer was shown is of the chunking it is
\* labelled with.
ScoredAsLabelled ==
    artifact # NoFile =>
        \A i \in 1..Len(artifact.records) :
            \A c \in artifact.records[i].seen : c.cut = artifact.label
=============================================================================
