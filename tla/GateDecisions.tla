---------------------------- MODULE GateDecisions ----------------------------
(***************************************************************************)
(* What the encoder gates decide about one pair: decide_g1, decide_g2 and  *)
(* decide_g3 as operators, and the way of a pair through them, with the    *)
(* two places its data crosses: the queue row (the flag) and the verdict   *)
(* row (the first family's scores, which G3 reads back).                   *)
(*                                                                         *)
(* Scores are numbers on a scale of the instance's choosing; only their    *)
(* order with the thresholds matters to a decision.                        *)
(***************************************************************************)
EXTENDS Integers

CONSTANTS
  Nli,               \* the answers an NLI encoder may give for one direction
  Grounding,         \* the answers the grounding encoder may give for one text
  None,              \* Python's None
  NeutralMin, RepeatMin, ContraEscape,   \* configSnapshot.g1
  SupportMin,                            \* configSnapshot.g2
  ContraMin, NeutralConsensus            \* configSnapshot.g3

ASSUME ScoresAssumption ==
  /\ Nli \subseteq [entailment: Int, neutral: Int, contradiction: Int, truncated: BOOLEAN]
  /\ Grounding \subseteq [support: Int, truncated: BOOLEAN]
  /\ None \notin [forward: Nli, backward: Nli]
  /\ None \notin Int
  /\ None \notin {"NEUTRAL", "REPEATS", "CORROBORATES", "CONTRADICTS"}

ASSUME ThresholdsAssumption ==
  {NeutralMin, RepeatMin, ContraEscape, SupportMin, ContraMin, NeutralConsensus} \subseteq Int

\* The order the proposed values have (0.02, 0.10 and 0.85).
ASSUME OrderAssumption == ContraEscape < ContraMin /\ NeutralConsensus <= ContraMin

VARIABLES
  at,         \* the gate the pair is at, or where it went
  flag,       \* contradictionFlag of its queue row
  g1, g3,     \* what the two NLI families said of it
  g2,         \* what the grounding encoder said of it
  decision,   \* the last decision
  edge        \* its verdict row, in GATEKEEPER mode

vars == <<at, flag, g1, g2, g3, decision, edge>>

-----------------------------------------------------------------------------
(* The decision functions.                                                 *)

Both == [forward: Nli, backward: Nli]
G1Scores == [bare: Both, contexted: Both \union {None}]
G2Scores == [forward: Grounding, backward: Grounding, grounded: Grounding \union {None}]

MaxOf(a, b) == IF a >= b THEN a ELSE b
MinOf(a, b) == IF a <= b THEN a ELSE b

MaxContradiction(s) == MaxOf(s.forward.contradiction, s.backward.contradiction)
Truncated(s) == s.forward.truncated \/ s.backward.truncated

Decision(disposition, verdict, reason, flagged, confidence, truncated) ==
  [disposition |-> disposition, verdict |-> verdict, reason |-> reason,
   flag |-> flagged, confidence |-> confidence, truncated |-> truncated]

Forward(flagged, truncated) == Decision("FORWARD", None, None, flagged, None, truncated)

BareOutcome(s) ==
  IF s.forward.neutral >= NeutralMin /\ s.backward.neutral >= NeutralMin THEN "NEUTRAL"
  ELSE IF s.forward.entailment >= RepeatMin /\ s.backward.entailment >= RepeatMin
    THEN "REPEATS"
  ELSE None

\* decide_g1: the escape hatch comes first.
DecideG1(s) ==
  LET bare == BareOutcome(s.bare)
      truncated == Truncated(s.bare)
  IN  IF MaxContradiction(s.bare) > ContraEscape THEN Forward(TRUE, truncated)
      ELSE IF s.contexted # None /\ bare # BareOutcome(s.contexted)
        THEN Decision("ESCALATE_G4", None, "CONTEXT_DISAGREEMENT", FALSE, None, truncated)
      ELSE IF bare # None THEN Decision("DECIDED", bare, None, FALSE, None, truncated)
      ELSE Forward(FALSE, truncated)

\* Mutant: only the forward direction is looked at, besides the evidence.
BestSupportForwardOnly(s) ==
  IF s.grounded = None THEN s.forward.support ELSE MaxOf(s.forward.support, s.grounded.support)

BestSupport(s) ==
  LET best == MaxOf(s.forward.support, s.backward.support)
  IN  IF s.grounded = None THEN best ELSE MaxOf(best, s.grounded.support)

AnyTruncated(s) == Truncated(s) \/ (s.grounded # None /\ s.grounded.truncated)

\* decide_g2, but for Decision.direction, which nothing reads.
DecideG2(s) ==
  IF BestSupport(s) >= SupportMin
    THEN Decision("DECIDED", "CORROBORATES", None, FALSE, BestSupport(s), AnyTruncated(s))
    ELSE Forward(FALSE, AnyTruncated(s))

LeansNeutral(n) == n.neutral >= n.entailment /\ n.neutral >= n.contradiction

\* Mutant: one convinced family is enough.
DecideG3EitherFamily(a, b) ==
  LET familyA == MaxContradiction(a)
      familyB == MaxContradiction(b)
  IN  IF familyA >= ContraMin \/ familyB >= ContraMin
        THEN Decision("ROUTE_HUMAN", None, "CONTRADICTION_SIGNAL", TRUE,
                      MinOf(familyA, familyB), Truncated(a) \/ Truncated(b))
      ELSE Decision("ESCALATE_G4", None, "STAGE_DISAGREEMENT", FALSE, None,
                    Truncated(a) \/ Truncated(b))

\* decide_g3 on the two families' scores.
DecideG3(a, b) ==
  LET familyA == MaxContradiction(a)
      familyB == MaxContradiction(b)
      truncated == Truncated(a) \/ Truncated(b)
      lean == \A n \in {a.forward, a.backward, b.forward, b.backward} : LeansNeutral(n)
  IN  IF familyA >= ContraMin /\ familyB >= ContraMin
        THEN Decision("ROUTE_HUMAN", None, "CONTRADICTION_SIGNAL", TRUE,
                      MinOf(familyA, familyB), truncated)
      ELSE IF familyA < NeutralConsensus /\ familyB < NeutralConsensus /\ lean
        THEN Decision("DECIDED", "NEUTRAL", None, FALSE, None, truncated)
      ELSE Decision("ESCALATE_G4", None, "STAGE_DISAGREEMENT", FALSE, None, truncated)

-----------------------------------------------------------------------------
(* The way of a pair.                                                      *)

NoEdge == [relation |-> None, reason |-> None, confidence |-> None,
           truncated |-> FALSE, stored |-> None]

\* stageScores.g1, read back: the six probabilities and nothing more.
Stored(s) == [forward  |-> [s.forward EXCEPT !.truncated = FALSE],
              backward |-> [s.backward EXCEPT !.truncated = FALSE]]

Relation(d) == IF d.disposition = "ROUTE_HUMAN" THEN "CONTRADICTS" ELSE d.verdict

Where(d, next) == IF d.disposition = "DECIDED" THEN "settled"
                  ELSE IF d.disposition = "ROUTE_HUMAN" THEN "human"
                  ELSE IF d.disposition = "ESCALATE_G4" THEN "G4"
                  ELSE next

\* The merge into the verdict row: None leaves the field alone.
Kept(new, old) == IF new = None THEN old ELSE new

Recorded(d, stored) ==
  edge' = [relation |-> Kept(Relation(d), edge.relation),
           reason |-> Kept(d.reason, edge.reason),
           confidence |-> Kept(d.confidence, edge.confidence),
           truncated |-> d.truncated, stored |-> stored]

JudgeG1 ==
  /\ at = "G1"
  /\ g1' \in G1Scores
  /\ decision' = DecideG1(g1')
  /\ at' = Where(decision', "G2")
  /\ flag' = decision'.flag
  /\ Recorded(decision', Stored(g1'.bare))
  /\ UNCHANGED <<g2, g3>>

\* A flagged pair passes G2 untouched.
PassThrough ==
  /\ at = "G2"
  /\ flag
  /\ at' = "G3"
  /\ UNCHANGED <<flag, g1, g2, g3, decision, edge>>

\* Mutant: G2 judges every pair.
JudgeG2Flagged ==
  /\ at = "G2"
  /\ g2' \in G2Scores
  /\ decision' = DecideG2(g2')
  /\ at' = Where(decision', "G3")
  /\ Recorded(decision', edge.stored)
  /\ UNCHANGED <<flag, g1, g3>>

JudgeG2 ==
  /\ at = "G2"
  /\ ~flag
  /\ g2' \in G2Scores
  /\ decision' = DecideG2(g2')
  /\ at' = Where(decision', "G3")
  /\ Recorded(decision', edge.stored)
  /\ UNCHANGED <<flag, g1, g3>>

\* The cross-check reads the first family off the verdict row.
JudgeG3 ==
  /\ at = "G3"
  /\ g3' \in Both
  /\ decision' = DecideG3(edge.stored, g3')
  /\ at' = Where(decision', "G4")
  /\ flag' = (flag \/ at' = "human")
  /\ Recorded(decision', edge.stored)
  /\ UNCHANGED <<g1, g2>>

Init ==
  /\ at = "G1"
  /\ flag = FALSE
  /\ g1 = None
  /\ g2 = None
  /\ g3 = None
  /\ decision = None
  /\ edge = NoEdge

Next == JudgeG1 \/ PassThrough \/ JudgeG2 \/ JudgeG3

Spec == Init /\ [][Next]_vars

-----------------------------------------------------------------------------
(* Properties.                                                             *)

(***************************************************************************)
(* A human gets a pair from the cross-check only when both families are    *)
(* sure, and then G1 had flagged it; the verdict row carries the candidate *)
(* the human queue lifts, at the confidence of the weaker family           *)
(* (decide_g3, g3._edge_relation).                                         *)
(***************************************************************************)
HumanSawTwoFamilies ==
  at = "human" =>
    /\ DecideG1(g1).flag
    /\ \A family \in {g1.bare, g3} : MaxContradiction(family) >= ContraMin
    /\ \A family \in {g1.bare, g3} : edge.confidence <= MaxContradiction(family)
    /\ edge.relation = "CONTRADICTS"

(***************************************************************************)
(* No encoder settles a pair in which the first family is sure of a        *)
(* contradiction, whatever G2 or the second family would say of it         *)
(* (decisions.py: a pair with a contradiction signal must reach G3).       *)
(***************************************************************************)
StrongSignalNeverSettled ==
  at = "settled" => MaxContradiction(g1.bare) < ContraMin

\* The pair the other way round.
Turned(s) == [forward |-> s.backward, backward |-> s.forward]
TurnedG1(s) == [bare |-> Turned(s.bare),
                contexted |-> IF s.contexted = None THEN None ELSE Turned(s.contexted)]
TurnedG2(s) == [s EXCEPT !.forward = s.backward, !.backward = s.forward]

(***************************************************************************)
(* A pair is unordered: turned round, it gets the same decisions           *)
(* (worker/queue.py pair_key: one row whichever way the edge pointed).     *)
(***************************************************************************)
DirectionBlind ==
  /\ at # "G1" => DecideG1(TurnedG1(g1)) = DecideG1(g1)
  /\ g2 # None => DecideG2(TurnedG2(g2)) = DecideG2(g2)
  /\ g3 # None => DecideG3(Turned(edge.stored), Turned(g3)) = DecideG3(edge.stored, g3)
=============================================================================
