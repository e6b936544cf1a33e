---------------------------- MODULE MCPairCascade ----------------------------
(***************************************************************************)
(* Instances of PairCascade for TLC.                                       *)
(***************************************************************************)
EXTENDS PairCascade, TLC

\* The encoders' answers.  What a gate the pair never reaches would have said
\* is fixed, except where a lost flag would let it speak.
Neutral      == [g1 |-> "NEUTRAL",  g2 |-> "FORWARD",      g3 |-> "ESCALATE"]
Grounded     == [g1 |-> "FORWARD",  g2 |-> "CORROBORATES", g3 |-> "ESCALATE"]
Unrelated    == [g1 |-> "FORWARD",  g2 |-> "FORWARD",      g3 |-> "NEUTRAL"]
Contradictory == [g1 |-> "FLAG",    g2 |-> "CORROBORATES", g3 |-> "HUMAN"]
Disputed     == [g1 |-> "ESCALATE", g2 |-> "FORWARD",      g3 |-> "ESCALATE"]
\* The families disagree at the cross-check: over a flag, and over nothing.
Doubtful     == [g1 |-> "FLAG",     g2 |-> "CORROBORATES", g3 |-> "ESCALATE"]
Divided      == [g1 |-> "FORWARD",  g2 |-> "FORWARD",      g3 |-> "ESCALATE"]

MCAllScores  == {Neutral, Grounded, Unrelated, Contradictory, Disputed, Doubtful, Divided}
MCProgressScores == MCAllScores \ {Doubtful, Divided}
MCFewScores  == {Neutral, Contradictory, Disputed}
MCTailScores == {Disputed}
MCFlagScores == {Contradictory, Unrelated}

MCFaults(crash, stall, error) == [crash |-> crash, stall |-> stall, error |-> error]
MCNoFault == MCFaults(0, 0, 0)
MCCrash   == MCFaults(1, 0, 0)
MCCrashes == MCFaults(1, 0, 1)
MCError   == MCFaults(0, 0, 1)
MCStall   == MCFaults(0, 1, 0)
MCStallCrash == MCFaults(1, 1, 0)

MCSymmetry == Permutations(Owner)
=============================================================================
