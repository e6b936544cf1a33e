-------------------------------- MODULE GoBar --------------------------------
(***************************************************************************)
(* What the bake-off makes of a corpus' outcomes: the metrics of           *)
(* replay/metrics.py, the GO bar, the grid search and the choice of the    *)
(* roster to adopt.  An outcome is what the replay did with a pair, beside *)
(* the label the ensemble gave it; outcomes are a sequence, as the corpus  *)
(* is.  A float that is a quotient of counts is the pair of its counts,    *)
(* and a bar is in percent.                                                *)
(***************************************************************************)
EXTENDS Integers, Sequences, FiniteSets, FiniteSetsExt

CONSTANTS
  None,
  Scale,    \* a probability is a number of Scale
  Bins      \* how many the calibration error sorts the confidences into

ASSUME GoBarAssumption == Scale \in Nat \ {0} /\ Bins \in Nat \ {0} /\ None \notin Int

-----------------------------------------------------------------------------
(* Quotients.                                                              *)

\* a / b if b else 0.0
Ratio(a, b) == IF b = 0 THEN [num |-> 0, den |-> 1] ELSE [num |-> a, den |-> b]

Exceeds(r, s) == r.num * s.den > s.num * r.den
AtLeast(r, percent) == r.num * 100 >= percent * r.den
AtMost(r, percent) == r.num * 100 <= percent * r.den

-----------------------------------------------------------------------------
(* The metrics.                                                            *)

DecidedVerdicts == {"NEUTRAL", "REPEATS", "CORROBORATES"}

Decided(o) == o.disposition = "DECIDED"
Agrees(o) == o.verdict = o.ensemble

\* The positions of the outcomes that pass a test.
Those(outcomes, Test(_)) == {i \in DOMAIN outcomes : Test(outcomes[i])}
Count(outcomes, Test(_)) == Cardinality(Those(outcomes, Test))

PerVerdictScores(outcomes) ==
  [v \in DecidedVerdicts |->
     [hits |-> Count(outcomes, LAMBDA o : o.verdict = v /\ Agrees(o)),
      predicted |-> Count(outcomes, LAMBDA o : o.verdict = v),
      actual |-> Count(outcomes, LAMBDA o : o.ensemble = v)]]

\* Coverage is over the whole corpus.
NeutralSummary(outcomes) ==
  LET neutral == PerVerdictScores(outcomes)["NEUTRAL"]
  IN  [coverage |-> Ratio(neutral.predicted, Len(outcomes)),
       precision |-> Ratio(neutral.hits, neutral.predicted)]

GoldenContradiction(o) == o.golden /\ o.ensemble = "CONTRADICTS"

\* Preserved is not decided, whoever it is left to.
ContradictsRecall(outcomes) ==
  LET golden == Count(outcomes, GoldenContradiction)
      preserved == Count(outcomes, LAMBDA o : GoldenContradiction(o) /\ ~Decided(o))
  IN  [golden |-> golden, recall |-> Ratio(preserved, golden)]

Volumes(outcomes) ==
  LET Share(test(_)) == Ratio(Count(outcomes, test), Len(outcomes))
      InFunnel(o) == o.disposition \in {"DECIDED", "ESCALATE_G4", "ROUTE_HUMAN"}
  IN  [decided |-> Share(Decided),
       g4 |-> Share(LAMBDA o : o.disposition = "ESCALATE_G4"),
       human |-> Share(LAMBDA o : o.disposition = "ROUTE_HUMAN"),
       undecided |-> Share(LAMBDA o : ~InFunnel(o))]

Scored(o) == o.confidence # None /\ o.verdict # None

\* Mutant: every bin is open above.
InBinOpen(bin, o) ==
  /\ bin * Scale <= o.confidence * Bins
  /\ o.confidence * Bins < (bin + 1) * Scale

\* The last bin is closed, the others are open above.
InBin(bin, o) ==
  \/ bin * Scale <= o.confidence * Bins /\ o.confidence * Bins < (bin + 1) * Scale
  \/ bin = Bins - 1 /\ o.confidence = Scale

Distance(a, b) == IF a >= b THEN a - b ELSE b - a

\* Per bin |accuracy - mean confidence|, weighted by the bin's share: the
\* members cancel, and the error is this over samples * Scale.
CalibrationError(outcomes) ==
  LET scored == Those(outcomes, Scored)
      confidences == [i \in scored |-> outcomes[i].confidence]
      Members(bin) == {i \in scored : InBin(bin, outcomes[i])}
      Hits(bin) == Cardinality({i \in Members(bin) : Agrees(outcomes[i])})
      gaps == [bin \in 0..Bins - 1 |->
                 Distance(Hits(bin) * Scale, SumFunctionOnSet(confidences, Members(bin)))]
  IN  Ratio(SumFunction(gaps), Cardinality(scored) * Scale)

-----------------------------------------------------------------------------
(* The bar.                                                                *)

\* GoBar: the criteria of the LLD, in percent.
Bar == [neutralPrecision |-> 95, neutralCoverage |-> 60, contradictsRecall |-> 95, g4Share |-> 5]

\* A criterion with nothing to measure neither passes nor fails.
Measurable(outcomes) ==
  {"neutralPrecision", "neutralCoverage", "g4Share"}
    \union (IF ContradictsRecall(outcomes).golden > 0 THEN {"contradictsRecall"} ELSE {})

Met(outcomes, bar) ==
  [neutralPrecision |-> AtLeast(NeutralSummary(outcomes).precision, bar.neutralPrecision),
   neutralCoverage |-> AtLeast(NeutralSummary(outcomes).coverage, bar.neutralCoverage),
   contradictsRecall |-> AtLeast(ContradictsRecall(outcomes).recall, bar.contradictsRecall),
   g4Share |-> AtMost(Volumes(outcomes).g4, bar.g4Share)]

\* evaluate_go_bar
ClearsBar(outcomes, bar) == \A c \in Measurable(outcomes) : Met(outcomes, bar)[c]

-----------------------------------------------------------------------------
(* The choice, of a cell in the grid and of a roster in the table alike:   *)
(* the passing ones with the most coverage, then those with the least G4.  *)
(* A candidate has its outcomes and whether they pass.                     *)

\* The sort key: coverage, then less G4.
BetterThan(c, d) ==
  LET cCoverage == NeutralSummary(c.outcomes).coverage
      dCoverage == NeutralSummary(d.outcomes).coverage
  IN  \/ Exceeds(cCoverage, dCoverage)
      \/ /\ ~Exceeds(dCoverage, cCoverage)
         /\ Exceeds(Volumes(d.outcomes).g4, Volumes(c.outcomes).g4)

\* Mutant: the best of all, whether it passes or not.
BestOfAll(candidates) ==
  {c \in candidates : ~\E d \in candidates : BetterThan(d, c)}

\* best_cell, best_passing; of several Python takes the first.
Best(candidates) ==
  {c \in candidates : c.passed /\ ~\E d \in candidates : d.passed /\ BetterThan(d, c)}
=============================================================================
