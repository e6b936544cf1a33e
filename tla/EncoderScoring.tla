--------------------------- MODULE EncoderScoring ---------------------------
(***************************************************************************)
(* What a gate does with the release the loader installed: it builds a     *)
(* scorer from the config.json and the graph of the cache entry            *)
(* (scoring/encoder.py) and scores its pairs, batch by batch.  The loader, *)
(* the prep script and the disk go on as in ModelLoader.                   *)
(*                                                                         *)
(* A head is what its columns mean, which only its training knows; what    *)
(* the code has are labels.  A probability is known by the meaning of the  *)
(* column it was read from, a text pair by the number of its tokens.       *)
(***************************************************************************)
EXTENDS ModelLoader, FiniteSetsExt, SequencesExt

CONSTANTS
  Artifacts,      \* the artifacts name@version may be
  Works,          \* what a gate may ask: which scores, and of which pairs
  MaxSeqTokens,
  BatchSize

ASSUME ScoringAssumption ==
  /\ MaxSeqTokens \in Nat \ {0} /\ BatchSize \in Nat \ {0}
  /\ {"config", "graph"} \subseteq Files
  /\ None \notin Nat
  /\ \A a \in Artifacts :
       /\ a.order \in Seq(STRING)
       /\ \A c \in Contents : a.labels[c] \in Seq(STRING) /\ a.head[c] \in Seq(STRING)
  /\ \A w \in Works : w.pairs \in Seq(Nat)

VARIABLES
  artifact,  \* its task, the order the roster declares, its labels and heads by their bytes
  scorer,    \* None, or the scorer of this process
  work,      \* what it was asked
  scores     \* the scores so far

scoring == <<artifact, scorer, work, scores>>
servingVars == <<vars, scoring>>

-----------------------------------------------------------------------------
(* Labels.                                                                 *)

Classes == {"entailment", "neutral", "contradiction"}

\* A spelling is one of a class by its prefix.
Spellings ==
  [entailment |-> {"entailment", "entailment_strong", "SUPPORTS"},
   neutral |-> {"neutral", "NOT ENOUGH INFO", "NEI"},
   contradiction |-> {"contradiction", "REFUTES", "not_entailment"}]

Columns(labels, class) == {c \in DOMAIN labels : labels[c] \in Spellings[class]}

\* Mutant: only the two classes that a missing one would invert are asked for.
InterpretableWithoutNeutral(labels) ==
  /\ \A class \in Classes : Cardinality(Columns(labels, class)) <= 1
  /\ Columns(labels, "entailment") # {} /\ Columns(labels, "contradiction") # {}

\* Every class at most once, the two that matter named, and the third if
\* there is a column for it.
Interpretable(labels) ==
  /\ \A class \in Classes : Cardinality(Columns(labels, class)) <= 1
  /\ Columns(labels, "entailment") # {} /\ Columns(labels, "contradiction") # {}
  /\ Len(labels) >= 3 => Columns(labels, "neutral") # {}

LabelMap(labels) ==
  [class \in Classes |-> IF Columns(labels, class) = {} THEN None
                         ELSE CHOOSE c \in Columns(labels, class) : TRUE]

\* What the roster declares for the name goes before config.json.
LabelsOf(a, config) == IF a.order # <<>> THEN a.order ELSE a.labels[config]

IdToLabel == LabelsOf(artifact, target["config"])

-----------------------------------------------------------------------------
(* The scorer.                                                             *)

NoMap == [class \in Classes |-> None]

BuildScorer ==
  /\ pc = "ready"
  /\ scorer = None
  /\ artifact.task = "NLI_3WAY" => Interpretable(IdToLabel)
  /\ scorer' = [map |-> IF artifact.task = "NLI_3WAY" THEN LabelMap(IdToLabel) ELSE NoMap]
  /\ work' \in Works
  /\ UNCHANGED <<vars, artifact, scores>>

\* ScorerError has the code of a failed fetch.
ScorerRefused ==
  /\ pc = "ready"
  /\ scorer = None
  /\ artifact.task = "NLI_3WAY" /\ ~Interpretable(IdToLabel)
  /\ pc' = "failed"
  /\ UNCHANGED <<pin, bucket, target, manifest, staging, staged, scoring>>

Meanings == artifact.head[target["graph"]]

\* A grounding head is one logit, an NLI head, or has support in its last column.
SupportColumn ==
  IF Len(Meanings) = 1 THEN 1
  ELSE IF scorer.map.entailment # None THEN scorer.map.entailment
  ELSE Len(Meanings)

\* The columns the scores are read from; None stands for the constant 0.
ReadFrom == IF work.asks = "NLI_3WAY" THEN scorer.map ELSE [support |-> SupportColumn]

\* The head has the columns, and for NLI there is a label map at all.
Readable ==
  /\ work.asks = "NLI_3WAY" => scorer.map # NoMap
  /\ \A class \in DOMAIN ReadFrom : ReadFrom[class] \in {None} \union DOMAIN Meanings

Batch == SubSeq(work.pairs, Len(scores) + 1, Min({Len(scores) + BatchSize, Len(work.pairs)}))

\* The tokenizer cuts at the limit and pads a batch to its longest.
Ids(batch) == Max({Min({batch[k], MaxSeqTokens}) : k \in DOMAIN batch})

\* Mutant: only what is longer than the limit was cut, but nothing is any more.
ReportedTruncatedBeyond(batch) == Ids(batch) > MaxSeqTokens

ReportedTruncated(batch) == Ids(batch) >= MaxSeqTokens

Asked == scorer # None /\ Len(scores) < Len(work.pairs)

ScoreBatch ==
  /\ pc = "ready" /\ Asked
  /\ Readable
  /\ scores' = scores \o
       [k \in DOMAIN Batch |->
          [pair |-> Len(scores) + k,
           reads |-> [class \in DOMAIN ReadFrom |->
                        IF ReadFrom[class] = None THEN None ELSE Meanings[ReadFrom[class]]],
           truncated |-> ReportedTruncated(Batch)]]
  /\ UNCHANGED <<vars, artifact, scorer, work>>

ScoringRaises ==
  /\ pc = "ready" /\ Asked
  /\ ~Readable
  /\ pc' = "failed"
  /\ UNCHANGED <<pin, bucket, target, manifest, staging, staged, scoring>>

\* All of ModelLoader but a new process.
LoaderStep == (Mirror \/ Loading \/ Kill \/ Damage) /\ UNCHANGED scoring

NewProcess ==
  /\ Restart
  /\ scorer' = None
  /\ work' = None
  /\ scores' = <<>>
  /\ UNCHANGED artifact

ServingInit ==
  /\ Init
  /\ artifact \in Artifacts
  /\ scorer = None
  /\ work = None
  /\ scores = <<>>

ServingNext ==
  \/ LoaderStep
  \/ NewProcess
  \/ BuildScorer \/ ScorerRefused \/ ScoreBatch \/ ScoringRaises

\* The loader's fairness; nothing is asked of the scoring.
ServingSpec ==
  ServingInit /\ [][ServingNext]_servingVars /\ WF_vars(Loading) /\ WF_vars(Restart)

-----------------------------------------------------------------------------
(* Properties.                                                             *)

(* What the code has to take on trust: the labels a release is read with   *)
(* name the columns of its head, or the last one is support.               *)
Truthful(a) ==
  \A r \in Releases :
    LET labels == LabelsOf(a, Weights[r]["config"])
        head == a.head[Weights[r]["graph"]]
    IN  IF a.task = "NLI_3WAY"
          THEN Interpretable(labels) =>
                 /\ Len(head) = Len(labels)
                 /\ \A class \in Classes : \A c \in Columns(labels, class) : head[c] = class
                 /\ "neutral" \in ToSet(head) => Len(head) >= 3
          ELSE head # <<>> /\ head[Len(head)] = "supported"

Meant(class, meaning) ==
  CASE class = "support" -> meaning \in {"supported", "entailment"}
    [] class = "neutral" -> meaning = IF "neutral" \in ToSet(Meanings) THEN "neutral" ELSE None
    [] OTHER -> meaning = class

(***************************************************************************)
(* Every probability is read from the column that means what its name      *)
(* says: whatever labels the release has, whatever was mirrored, damaged   *)
(* or cached before, entailment and contradiction are never exchanged; a   *)
(* head that cannot be understood gives no scores (encoder.py:10-18).      *)
(***************************************************************************)
ScoresMeanWhatTheySay ==
  \A k \in DOMAIN scores :
    \A class \in DOMAIN scores[k].reads : Meant(class, scores[k].reads[class])

(***************************************************************************)
(* The scores are those of the pairs, in their order over all batches, and *)
(* one whose text was cut says so (encoder.py:20-22, "Truncation is        *)
(* reported, not swallowed").                                              *)
(***************************************************************************)
CutPairsReported ==
  \A k \in DOMAIN scores :
    /\ k \in DOMAIN work.pairs /\ scores[k].pair = k
    /\ work.pairs[k] > MaxSeqTokens => scores[k].truncated
=============================================================================
