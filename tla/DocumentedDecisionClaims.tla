---------------------- MODULE DocumentedDecisionClaims -----------------------
(***************************************************************************)
(* What the repository says of the decision on a pair and the code does    *)
(* not do.  Each definition quotes its sentence; TLC refutes each one.     *)
(***************************************************************************)
EXTENDS GateDecisions

Answer(e, n, c, t) == [entailment |-> e, neutral |-> n, contradiction |-> c, truncated |-> t]

\* Neutral, a weak contradiction, truncated or not, and a strong one.
MCNli == {Answer(0, 4, 0, FALSE), Answer(0, 3, 1, FALSE), Answer(0, 3, 1, TRUE),
          Answer(1, 0, 3, TRUE)}

MCGrounding == {[support |-> 3, truncated |-> FALSE], [support |-> 4, truncated |-> FALSE]}

\* gatekeeper/gates/decisions.py:85-86, "Once set, the pair may never be
\* neutral-discarded downstream", and tests/test_gate_decisions.py:97: a pair G1
\* flagged is not settled as NEUTRAL.  G3 does, when both families are below the
\* neutral consensus, which is above the escape hatch.
FlaggedNeverNeutral ==
  at = "settled" /\ DecideG1(g1).flag => edge.relation # "NEUTRAL"

\* gatekeeper/gates/decisions.py:282, "truncated = g1.truncated or g3.truncated":
\* a decision of the cross-check, and its row, say so when either family judged a
\* truncated text.  What G3 reads back of the first family never says so.
TruncationReachesG3 ==
  g3 # None => edge.truncated = (Truncated(g1.bare) \/ Truncated(g3))
=============================================================================
