--------------------------- MODULE MCReplayCascade ---------------------------
(***************************************************************************)
(* Instances of ReplayCascade, and what the README says of the replay.     *)
(* The probabilities of an answer add up to four; an answer is sure or     *)
(* unsure, and its contradiction is at the hatch, above it, at the neutral *)
(* consensus, or at the bar of a contradiction.                            *)
(***************************************************************************)
EXTENDS ReplayCascade

Answer(e, n, c, t) == [entailment |-> e, neutral |-> n, contradiction |-> c, truncated |-> t]

\* Neutral, the same, a weak, a middling and a strong contradiction, undecided.
MCNli == {Answer(0, 4, 0, FALSE), Answer(4, 0, 0, FALSE), Answer(0, 3, 1, FALSE),
          Answer(0, 2, 2, FALSE), Answer(1, 0, 3, TRUE), Answer(2, 2, 0, FALSE)}
MCGrounding == {[support |-> 3, truncated |-> FALSE], [support |-> 4, truncated |-> TRUE]}

NoExcerptOrFirst == {{}, {"A"}}
AnyExcerpt == {{"A", "B"}}

\* README.md:105-107, the pure decision functions are "what lets the replay
\* bake-off measure the production gates rather than a re-implementation of
\* them".  The corpus has one snippet where G2 has two excerpts.
ReplayMeasuresProduction == ReplayMatches
=============================================================================
