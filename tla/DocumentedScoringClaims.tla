---------------------- MODULE DocumentedScoringClaims ----------------------
(***************************************************************************)
(* What the repository says of the encoder's scores, and what the code     *)
(* does not keep.  TLC refutes each property of this module.               *)
(***************************************************************************)
EXTENDS MCModelLoader

\* Releases that name their classes, in an order the roster's entry does not have.
MCRenamed == {Nli(ContraFirst, Mnli, Fever, Mnli, ContraFirst)}

(***************************************************************************)
(* A pair is reported truncated only if its own text came to the limit     *)
(* (encoder.py:20-22: "a pair whose evidence was cut off has not really    *)
(* been judged").  The number of ids is taken after the batch was padded   *)
(* to its longest pair (encoder.py:203 and 296), so one long pair marks    *)
(* its whole batch, and the worker and the replay, with other batches,     *)
(* mark other pairs.                                                       *)
(***************************************************************************)
OnlyCutPairsReported ==
  \A k \in DOMAIN scores : scores[k].truncated => work.pairs[k] >= MaxSeqTokens

(***************************************************************************)
(* Where config.json names the classes, the scores are read as it says     *)
(* (encoder.py:10, "Label mapping is resolved from config.json").  The     *)
(* order the roster declares goes first, and it is kept by the name of an  *)
(* artifact, not by its version (encoder.py:310-322): a later version with *)
(* labels of its own is read in the order of the earlier one.              *)
(***************************************************************************)
ConfigHasTheWord ==
  scorer # None /\ artifact.task = "NLI_3WAY" =>
    LET labels == artifact.labels[target["config"]]
    IN  Interpretable(labels) => scorer.map = LabelMap(labels)
=============================================================================
