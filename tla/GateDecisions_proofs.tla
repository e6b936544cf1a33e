------------------------ MODULE GateDecisions_proofs -------------------------
(***************************************************************************)
(* Proofs about GateDecisions: for every set of answers and every          *)
(* thresholds in the order of the proposed ones, a human sees only pairs   *)
(* of which both families are sure, no encoder settles a pair of which the *)
(* first family is sure that it contradicts, and the decisions do not      *)
(* depend on which way round the pair is.  And about ReplayCascade: with   *)
(* one excerpt or none, the replay of a pair is what the worker does.      *)
(***************************************************************************)
EXTENDS ReplayCascade, TLAPS

\* The larger of two contradictions, whichever way round the pair is.
LEMMA ContradictionOfBoth ==
  ASSUME NEW s \in Both
  PROVE  /\ MaxContradiction(s) \in Int
         /\ MaxContradiction(s) >= s.forward.contradiction
         /\ MaxContradiction(s) >= s.backward.contradiction
         /\ MaxContradiction(Turned(s)) = MaxContradiction(s)
<1>1. s.forward.contradiction \in Int /\ s.backward.contradiction \in Int
  BY ScoresAssumption DEF Both
<1> QED
  BY <1>1 DEF MaxContradiction, MaxOf, Turned

\* What G3 reads back of the first family is what G1 wrote, but for truncation.
LEMMA StoredScores ==
  ASSUME NEW s \in Both
  PROVE  /\ MaxContradiction(Stored(s)) = MaxContradiction(s)
         /\ Stored(Turned(s)) = Turned(Stored(s))
<1>1. s.forward \in [entailment: Int, neutral: Int, contradiction: Int, truncated: BOOLEAN]
      /\ s.backward \in [entailment: Int, neutral: Int, contradiction: Int, truncated: BOOLEAN]
  BY ScoresAssumption DEF Both
<1>2. /\ Stored(s).forward.contradiction = s.forward.contradiction
      /\ Stored(s).backward.contradiction = s.backward.contradiction
  BY <1>1 DEF Stored
<1> QED
  BY <1>2 DEF MaxContradiction, Stored, Turned

\* decide_g1 flags exactly what is above the hatch, and forwards what it flags.
LEMMA G1Decides ==
  ASSUME NEW s \in G1Scores
  PROVE  /\ MaxContradiction(s.bare) > ContraEscape =>
              DecideG1(s).flag = TRUE /\ DecideG1(s).disposition = "FORWARD"
         /\ ~(MaxContradiction(s.bare) > ContraEscape) =>
              /\ DecideG1(s).flag = FALSE
              /\ DecideG1(s).disposition \in {"FORWARD", "ESCALATE_G4", "DECIDED"}
<1>1. CASE MaxContradiction(s.bare) > ContraEscape
  <2>1. DecideG1(s) = Forward(TRUE, Truncated(s.bare))
    BY <1>1 DEF DecideG1
  <2> QED
    BY <1>1, <2>1 DEF Forward, Decision
<1>2. CASE ~(MaxContradiction(s.bare) > ContraEscape)
  <2> DEFINE bare == BareOutcome(s.bare)
  <2>1. \/ DecideG1(s) = Decision("ESCALATE_G4", None, "CONTEXT_DISAGREEMENT", FALSE, None,
                                 Truncated(s.bare))
        \/ DecideG1(s) = Decision("DECIDED", bare, None, FALSE, None, Truncated(s.bare))
        \/ DecideG1(s) = Forward(FALSE, Truncated(s.bare))
    BY <1>2, Zenon DEF DecideG1
  <2> QED
    BY <1>2, <2>1 DEF Forward, Decision
<1> QED
  BY <1>1, <1>2

\* decide_g3 sends a pair to a human only if both families are sure, and
\* settles it only if the first family is below the consensus.
LEMMA G3Decides ==
  ASSUME NEW a, NEW b,
         MaxContradiction(a) \in Int, MaxContradiction(b) \in Int
  PROVE  LET d == DecideG3(a, b) IN
         /\ d.disposition \in {"ROUTE_HUMAN", "DECIDED", "ESCALATE_G4"}
         /\ d.disposition = "ROUTE_HUMAN" =>
              /\ MaxContradiction(a) >= ContraMin
              /\ MaxContradiction(b) >= ContraMin
              /\ d.confidence \in Int
              /\ d.confidence <= MaxContradiction(a)
              /\ d.confidence <= MaxContradiction(b)
         /\ d.disposition = "DECIDED" => MaxContradiction(a) < NeutralConsensus
<1> DEFINE fa == MaxContradiction(a)
<1> DEFINE fb == MaxContradiction(b)
<1>1. CASE fa >= ContraMin /\ fb >= ContraMin
  <2>1. MinOf(fa, fb) \in Int /\ MinOf(fa, fb) <= fa /\ MinOf(fa, fb) <= fb
    BY DEF MinOf
  <2>2. DecideG3(a, b).disposition = "ROUTE_HUMAN" /\ DecideG3(a, b).confidence = MinOf(fa, fb)
    BY <1>1 DEF DecideG3, Decision
  <2> QED
    BY <1>1, <2>1, <2>2
<1>2. CASE ~(fa >= ContraMin /\ fb >= ContraMin)
  BY <1>2 DEF DecideG3, Decision
<1> QED
  BY <1>1, <1>2

\* Turning a pair round turns no decision.
LEMMA TurnedOutcomes ==
  ASSUME NEW s \in Both
  PROVE  /\ BareOutcome(Turned(s)) = BareOutcome(s)
         /\ Truncated(Turned(s)) = Truncated(s)
<1>1. Turned(s).forward = s.backward /\ Turned(s).backward = s.forward
  BY DEF Turned
<1>2. BareOutcome(Turned(s)) = BareOutcome(s)
  BY <1>1 DEF BareOutcome
<1>3. Truncated(Turned(s)) = Truncated(s)
  BY <1>1 DEF Truncated
<1> QED
  BY <1>2, <1>3

LEMMA TurnedG1Decides ==
  ASSUME NEW s \in G1Scores
  PROVE  DecideG1(TurnedG1(s)) = DecideG1(s)
<1> DEFINE t == TurnedG1(s)
<1>1. s.bare \in Both /\ (s.contexted # None => s.contexted \in Both)
  BY DEF G1Scores
<1>2. t.bare = Turned(s.bare)
  BY DEF TurnedG1
<1>3. t.contexted = IF s.contexted = None THEN None ELSE Turned(s.contexted)
  BY DEF TurnedG1
<1>4. (t.contexted # None /\ BareOutcome(t.bare) # BareOutcome(t.contexted))
        <=> (s.contexted # None /\ BareOutcome(s.bare) # BareOutcome(s.contexted))
  <2>1. CASE s.contexted = None
    BY <2>1, <1>3
  <2>2. CASE s.contexted # None
    <3>1. Turned(s.contexted) # None
      BY <1>1, <2>2, ScoresAssumption DEF Turned, Both
    <3> QED
      BY <3>1, <2>2, <1>1, <1>2, <1>3, TurnedOutcomes
  <2> QED
    BY <2>1, <2>2
<1>5. /\ MaxContradiction(t.bare) = MaxContradiction(s.bare)
      /\ BareOutcome(t.bare) = BareOutcome(s.bare)
      /\ Truncated(t.bare) = Truncated(s.bare)
  BY <1>1, <1>2, TurnedOutcomes, ContradictionOfBoth
<1> QED
  BY <1>4, <1>5, Zenon DEF DecideG1

LEMMA TurnedG2Decides ==
  ASSUME NEW s \in G2Scores
  PROVE  DecideG2(TurnedG2(s)) = DecideG2(s)
<1> DEFINE t == TurnedG2(s)
<1>1. t.forward = s.backward /\ t.backward = s.forward /\ t.grounded = s.grounded
  BY DEF TurnedG2, G2Scores
<1>2. /\ s.forward.support \in Int /\ s.backward.support \in Int
      /\ s.grounded # None => s.grounded.support \in Int
  BY ScoresAssumption DEF G2Scores
<1> HIDE DEF t
<1>3. BestSupport(t) = BestSupport(s)
  BY <1>1, <1>2 DEF BestSupport, MaxOf
<1>4. AnyTruncated(t) = AnyTruncated(s)
  BY <1>1 DEF AnyTruncated, Truncated
<1> QED
  BY <1>3, <1>4, Zenon DEF DecideG2, t

LEMMA TurnedG3Decides ==
  ASSUME NEW a, NEW b,
         MaxContradiction(Turned(a)) = MaxContradiction(a),
         MaxContradiction(Turned(b)) = MaxContradiction(b),
         Truncated(Turned(a)) = Truncated(a),
         Truncated(Turned(b)) = Truncated(b)
  PROVE  DecideG3(Turned(a), Turned(b)) = DecideG3(a, b)
<1>1. {Turned(a).forward, Turned(a).backward, Turned(b).forward, Turned(b).backward}
        = {a.forward, a.backward, b.forward, b.backward}
  BY DEF Turned
<1> QED
  BY <1>1, Zenon DEF DecideG3

-----------------------------------------------------------------------------
(* The invariant: what the pair's queue row and verdict row say of what    *)
(* the encoders saw.                                                       *)

DecisionInv ==
  /\ at \in {"G1", "G2", "G3", "G4", "human", "settled"}
  /\ flag \in BOOLEAN
  /\ at = "G1" => g1 = None /\ g3 = None
  /\ g2 # None => g2 \in G2Scores
  /\ at # "G1" => g1 \in G1Scores /\ edge.stored = Stored(g1.bare)
  /\ at \in {"G2", "G3"} => flag = DecideG1(g1).flag
  /\ g3 # None => g3 \in Both
  /\ HumanSawTwoFamilies
  /\ StrongSignalNeverSettled

LEMMA DecisionInit == Init => DecisionInv
  BY DEF Init, DecisionInv, HumanSawTwoFamilies, StrongSignalNeverSettled

\* One step for each action; only a decision of G3 reaches a human, and what G1
\* or G2 settles was not flagged.
LEMMA DecisionStep == DecisionInv /\ [Next]_vars => DecisionInv'
<1> SUFFICES ASSUME DecisionInv, [Next]_vars
             PROVE  DecisionInv'
  OBVIOUS
<1> USE DEF DecisionInv
<1>1. CASE JudgeG1
  <2>1. g1' \in G1Scores /\ g1'.bare \in Both
    BY <1>1 DEF JudgeG1, G1Scores
  <2>2. g3' = None /\ g2' = g2 /\ edge'.stored = Stored(g1'.bare)
    BY <1>1 DEF JudgeG1, Recorded
  <2>3. at' = Where(DecideG1(g1'), "G2") /\ flag' = DecideG1(g1').flag
    BY <1>1 DEF JudgeG1
  <2>4. CASE MaxContradiction(g1'.bare) > ContraEscape
    <3>1. at' = "G2" /\ flag' = TRUE
      BY <2>1, <2>3, <2>4, G1Decides DEF Where
    <3> QED
      BY <2>1, <2>2, <2>3, <3>1 DEF HumanSawTwoFamilies, StrongSignalNeverSettled
  <2>5. CASE ~(MaxContradiction(g1'.bare) > ContraEscape)
    <3>1. at' \in {"G2", "G4", "settled"} /\ flag' = FALSE
      BY <2>1, <2>3, <2>5, G1Decides DEF Where
    <3>2. MaxContradiction(g1'.bare) < ContraMin
      BY <2>1, <2>5, ContradictionOfBoth, OrderAssumption, ThresholdsAssumption
    <3> QED
      BY <2>1, <2>2, <2>3, <3>1, <3>2 DEF HumanSawTwoFamilies, StrongSignalNeverSettled
  <2> QED
    BY <2>4, <2>5
<1>2. CASE PassThrough
  BY <1>2 DEF PassThrough, HumanSawTwoFamilies, StrongSignalNeverSettled
<1>3. CASE JudgeG2
  <2>1. g2' \in G2Scores /\ decision' = DecideG2(g2')
    BY <1>3 DEF JudgeG2
  <2>2. at' \in {"settled", "G3"}
    BY <2>1, <1>3 DEF JudgeG2, DecideG2, Forward, Decision, Where
  <2>3. edge'.stored = edge.stored
    BY <1>3 DEF JudgeG2, Recorded
  <2>4. MaxContradiction(g1.bare) < ContraMin
    <3>1. g1 \in G1Scores /\ DecideG1(g1).flag = FALSE /\ g1.bare \in Both
      BY <1>3 DEF JudgeG2, G1Scores
    <3>2. ~(MaxContradiction(g1.bare) > ContraEscape)
      BY <3>1, G1Decides
    <3> QED
      BY <3>1, <3>2, ContradictionOfBoth, OrderAssumption, ThresholdsAssumption
  <2> QED
    BY <1>3, <2>1, <2>2, <2>3, <2>4 DEF JudgeG2, HumanSawTwoFamilies, StrongSignalNeverSettled
<1>4. CASE JudgeG3
  <2> DEFINE d == DecideG3(edge.stored, g3')
  <2>1. /\ g1 \in G1Scores /\ g1.bare \in Both /\ g1' = g1 /\ g2' = g2
        /\ g3' \in Both
        /\ edge.stored = Stored(g1.bare)
    BY <1>4 DEF JudgeG3, G1Scores
  <2>2. /\ MaxContradiction(edge.stored) = MaxContradiction(g1.bare)
        /\ MaxContradiction(g1.bare) \in Int
        /\ MaxContradiction(g3') \in Int
    BY <2>1, StoredScores, ContradictionOfBoth
  <2>3. /\ d.disposition \in {"ROUTE_HUMAN", "DECIDED", "ESCALATE_G4"}
        /\ d.disposition = "ROUTE_HUMAN" =>
              /\ MaxContradiction(g1.bare) >= ContraMin
              /\ MaxContradiction(g3') >= ContraMin
              /\ d.confidence \in Int
              /\ d.confidence <= MaxContradiction(g1.bare)
              /\ d.confidence <= MaxContradiction(g3')
        /\ d.disposition = "DECIDED" => MaxContradiction(g1.bare) < NeutralConsensus
    BY <2>2, G3Decides
  <2>4. /\ at' = Where(d, "G4")
        /\ flag' = (flag \/ at' = "human")
        /\ edge'.stored = edge.stored
        /\ edge'.relation = Kept(Relation(d), edge.relation)
        /\ edge'.confidence = Kept(d.confidence, edge.confidence)
    BY <1>4 DEF JudgeG3, Recorded
  <2>5. CASE d.disposition = "ROUTE_HUMAN"
    <3>1. at' = "human"
      BY <2>4, <2>5 DEF Where
    <3>2. edge'.relation = "CONTRADICTS"
      BY <2>4, <2>5, ScoresAssumption DEF Kept, Relation
    <3>3. edge'.confidence = d.confidence
      BY <2>3, <2>4, <2>5, ScoresAssumption DEF Kept
    <3>4. DecideG1(g1).flag
      <4>1. MaxContradiction(g1.bare) > ContraEscape
        BY <2>2, <2>3, <2>5, OrderAssumption, ThresholdsAssumption
      <4>2. DecideG1(g1).flag = TRUE
        BY <2>1, <4>1, G1Decides
      <4> QED
        BY <4>2, Zenon
    <3> QED
      BY <2>1, <2>3, <2>4, <2>5, <3>1, <3>2, <3>3, <3>4
      DEF HumanSawTwoFamilies, StrongSignalNeverSettled
  <2>6. CASE d.disposition = "DECIDED"
    <3>1. at' = "settled"
      BY <2>4, <2>6 DEF Where
    <3>2. MaxContradiction(g1.bare) < ContraMin
      BY <2>2, <2>3, <2>6, OrderAssumption, ThresholdsAssumption
    <3> QED
      BY <1>4, <2>1, <2>4, <3>1, <3>2 DEF JudgeG3, HumanSawTwoFamilies, StrongSignalNeverSettled
  <2>7. CASE d.disposition = "ESCALATE_G4"
    <3>1. at' = "G4"
      BY <2>4, <2>7 DEF Where
    <3> QED
      BY <1>4, <2>1, <2>4, <3>1 DEF JudgeG3, HumanSawTwoFamilies, StrongSignalNeverSettled
  <2> QED
    BY <2>3, <2>5, <2>6, <2>7
<1>5. CASE UNCHANGED vars
  BY <1>5 DEF vars, HumanSawTwoFamilies, StrongSignalNeverSettled
<1> QED
  BY <1>1, <1>2, <1>3, <1>4, <1>5 DEF Next

LEMMA DecisionsCorrect == Spec => []DecisionInv
<1>1. Init => DecisionInv
  BY DecisionInit
<1>2. DecisionInv /\ [Next]_vars => DecisionInv'
  BY DecisionStep
<1> QED
  BY <1>1, <1>2, PTL DEF Spec

(***************************************************************************)
(* For every set of answers and every thresholds in the proposed order: a  *)
(* pair reaches a human from the cross-check only when both families are   *)
(* sure of a contradiction, as a candidate, at the weaker confidence, and  *)
(* with the flag of G1 (decide_g3).                                        *)
(***************************************************************************)
THEOREM HumanConfirmsAgreement == Spec => []HumanSawTwoFamilies
<1>1. DecisionInv => HumanSawTwoFamilies
  BY DEF DecisionInv
<1> QED
  BY <1>1, DecisionsCorrect, PTL

(***************************************************************************)
(* For every set of answers and every thresholds in the proposed order: no *)
(* encoder settles a pair of which the first family is sure that it        *)
(* contradicts (the escape hatch of decide_g1).                            *)
(***************************************************************************)
THEOREM StrongSignalEscapes == Spec => []StrongSignalNeverSettled
<1>1. DecisionInv => StrongSignalNeverSettled
  BY DEF DecisionInv
<1> QED
  BY <1>1, DecisionsCorrect, PTL

(***************************************************************************)
(* For every set of answers and every thresholds: a pair turned round gets *)
(* the same decisions (pair_key makes pairs unordered).                    *)
(***************************************************************************)
THEOREM DecisionsDirectionBlind == Spec => []DirectionBlind
<1>1. DecisionInv => DirectionBlind
  <2> SUFFICES ASSUME DecisionInv
               PROVE  DirectionBlind
    OBVIOUS
  <2> USE DEF DecisionInv
  <2>1. at # "G1" => DecideG1(TurnedG1(g1)) = DecideG1(g1)
    BY TurnedG1Decides
  <2>2. g2 # None => DecideG2(TurnedG2(g2)) = DecideG2(g2)
    BY TurnedG2Decides
  <2>3. ASSUME g3 # None
        PROVE  DecideG3(Turned(edge.stored), Turned(g3)) = DecideG3(edge.stored, g3)
    <3>1. g3 \in Both /\ g1.bare \in Both /\ edge.stored = Stored(g1.bare)
      BY <2>3 DEF G1Scores
    <3>2. /\ MaxContradiction(Turned(g3)) = MaxContradiction(g3)
          /\ Truncated(Turned(g3)) = Truncated(g3)
      BY <3>1, ContradictionOfBoth, TurnedOutcomes
    <3>3. Turned(g1.bare) \in Both
      BY <3>1 DEF Turned, Both
    <3>4. /\ MaxContradiction(Turned(edge.stored)) = MaxContradiction(edge.stored)
          /\ Truncated(Turned(edge.stored)) = Truncated(edge.stored)
      <4>1. Turned(edge.stored) = Stored(Turned(g1.bare))
        BY <3>1, StoredScores
      <4>2. /\ MaxContradiction(Stored(Turned(g1.bare))) = MaxContradiction(Turned(g1.bare))
            /\ MaxContradiction(Stored(g1.bare)) = MaxContradiction(g1.bare)
            /\ MaxContradiction(Turned(g1.bare)) = MaxContradiction(g1.bare)
        BY <3>1, <3>3, StoredScores, ContradictionOfBoth
      <4>3. Truncated(Turned(edge.stored)) = Truncated(edge.stored)
        BY <3>1 DEF Truncated, Turned
      <4> QED
        BY <3>1, <4>1, <4>2, <4>3
    <3> QED
      BY <3>2, <3>4, TurnedG3Decides
  <2> QED
    BY <2>1, <2>2, <2>3 DEF DirectionBlind
<1> QED
  BY <1>1, DecisionsCorrect, PTL

-----------------------------------------------------------------------------
(* The replay.                                                             *)

\* The worker of the comparison takes the steps of the cascade.
THEOREM ReplayedCascade == ReplaySpec => Spec
<1>1. ReplayInit => Init
  BY DEF ReplayInit
<1>2. [WorkerStep]_replayVars => [Next]_vars
  BY DEF WorkerStep, Next, replayVars, vars
<1> QED
  BY <1>1, <1>2, PTL DEF ReplaySpec, Spec

\* Without an excerpt for the second claim, both judge the grounding alike:
\* which direction is called forward does not matter.
LEMMA SameGrounding ==
  ASSUME heard \in Answers, heard.evidence.B = None
  PROVE  DecideG2(WorkerG2) = DecideG2(ReplayG2(heard))
<1>1. /\ heard.forward.support \in Int /\ heard.backward.support \in Int
      /\ heard.evidence.A # None => heard.evidence.A.support \in Int
  BY ScoresAssumption DEF Answers, Evidence
<1>2. Stronger(heard.evidence) = heard.evidence.A
  BY DEF Stronger
<1>3. BestSupport(WorkerG2) = BestSupport(ReplayG2(heard))
  BY <1>1, <1>2 DEF BestSupport, WorkerG2, ReplayG2, MaxOf
<1>4. AnyTruncated(WorkerG2) = AnyTruncated(ReplayG2(heard))
  BY <1>2 DEF AnyTruncated, Truncated, WorkerG2, ReplayG2
<1> QED
  BY <1>3, <1>4, Zenon DEF DecideG2

\* What G3 reads back decides as what G1 saw, but for truncation.
LEMMA SameCrossCheck ==
  ASSUME NEW a \in Both, NEW b \in Both
  PROVE  LET d == DecideG3(Stored(a), b)  e == DecideG3(a, b) IN
         /\ d.disposition = e.disposition /\ d.verdict = e.verdict
         /\ d.confidence = e.confidence /\ d.flag = e.flag
         /\ IF d.disposition = "ROUTE_HUMAN" THEN d.flag = TRUE ELSE d.flag = FALSE
         /\ d.disposition \in {"ROUTE_HUMAN", "DECIDED", "ESCALATE_G4"}
<1> DEFINE lean(s) == \A n \in {s.forward, s.backward, b.forward, b.backward} : LeansNeutral(n)
<1>1. MaxContradiction(Stored(a)) = MaxContradiction(a)
  BY StoredScores
<1>2. lean(Stored(a)) <=> lean(a)
  <2>1. /\ a.forward \in [entailment: Int, neutral: Int, contradiction: Int, truncated: BOOLEAN]
        /\ a.backward \in [entailment: Int, neutral: Int, contradiction: Int, truncated: BOOLEAN]
    BY ScoresAssumption DEF Both
  <2>2. /\ LeansNeutral(Stored(a).forward) <=> LeansNeutral(a.forward)
        /\ LeansNeutral(Stored(a).backward) <=> LeansNeutral(a.backward)
    BY <2>1 DEF Stored, LeansNeutral
  <2> QED
    BY <2>2
<1> DEFINE mb == MaxContradiction(b)
           Decides(m, calm, t) ==
             IF m >= ContraMin /\ mb >= ContraMin
               THEN Decision("ROUTE_HUMAN", None, "CONTRADICTION_SIGNAL", TRUE, MinOf(m, mb), t)
             ELSE IF m < NeutralConsensus /\ mb < NeutralConsensus /\ calm
               THEN Decision("DECIDED", "NEUTRAL", None, FALSE, None, t)
             ELSE Decision("ESCALATE_G4", None, "STAGE_DISAGREEMENT", FALSE, None, t)
<1>3. ASSUME NEW s
      PROVE  DecideG3(s, b) = Decides(MaxContradiction(s), lean(s), Truncated(s) \/ Truncated(b))
  BY Zenon DEF DecideG3
<1>4. \E t : DecideG3(a, b) = Decides(MaxContradiction(a), lean(a), t)
  BY <1>3
<1>5. \E t : DecideG3(Stored(a), b) = Decides(MaxContradiction(a), lean(a), t)
  <2>1. lean(Stored(a)) = lean(a)
    BY <1>2
  <2> HIDE DEF lean, Decides
  <2> QED
    BY <1>1, <1>3, <2>1
<1>6. PICK t : DecideG3(a, b) = Decides(MaxContradiction(a), lean(a), t)
  BY <1>4
<1>7. PICK u : DecideG3(Stored(a), b) = Decides(MaxContradiction(a), lean(a), u)
  BY <1>5
<1> HIDE DEF lean, mb
<1> DEFINE d == DecideG3(Stored(a), b)
           e == DecideG3(a, b)
<1> DEFINE weaker == MinOf(MaxContradiction(a), mb)
           sure == MaxContradiction(a) >= ContraMin /\ mb >= ContraMin
           calm == MaxContradiction(a) < NeutralConsensus /\ mb < NeutralConsensus /\ lean(a)
<1>8. ASSUME sure
      PROVE  /\ e = Decision("ROUTE_HUMAN", None, "CONTRADICTION_SIGNAL", TRUE, weaker, t)
             /\ d = Decision("ROUTE_HUMAN", None, "CONTRADICTION_SIGNAL", TRUE, weaker, u)
  BY <1>6, <1>7, <1>8
<1>9. ASSUME ~sure, calm
      PROVE  /\ e = Decision("DECIDED", "NEUTRAL", None, FALSE, None, t)
             /\ d = Decision("DECIDED", "NEUTRAL", None, FALSE, None, u)
  BY <1>6, <1>7, <1>9
<1>10. ASSUME ~sure, ~calm
       PROVE  /\ e = Decision("ESCALATE_G4", None, "STAGE_DISAGREEMENT", FALSE, None, t)
              /\ d = Decision("ESCALATE_G4", None, "STAGE_DISAGREEMENT", FALSE, None, u)
  BY <1>6, <1>7, <1>10
<1> HIDE DEF d, e, weaker, sure, calm
<1>11. ASSUME sure
       PROVE  /\ d.disposition = e.disposition /\ d.verdict = e.verdict
              /\ d.confidence = e.confidence /\ d.flag = e.flag
              /\ d.disposition = "ROUTE_HUMAN" /\ d.flag = TRUE
  <2>1. /\ e.disposition = "ROUTE_HUMAN" /\ e.verdict = None /\ e.flag = TRUE /\ e.confidence = weaker
    <3>1. e.disposition = "ROUTE_HUMAN"
      BY <1>8, <1>11 DEF Decision
    <3>2. e.verdict = None
      BY <1>8, <1>11 DEF Decision
    <3>3. e.flag = TRUE
      BY <1>8, <1>11 DEF Decision
    <3>4. e.confidence = weaker
      BY <1>8, <1>11 DEF Decision
    <3> QED
      BY <3>1, <3>2, <3>3, <3>4, Zenon
  <2>2. /\ d.disposition = "ROUTE_HUMAN" /\ d.verdict = None /\ d.flag = TRUE /\ d.confidence = weaker
    <3>1. d.disposition = "ROUTE_HUMAN"
      BY <1>8, <1>11 DEF Decision
    <3>2. d.verdict = None
      BY <1>8, <1>11 DEF Decision
    <3>3. d.flag = TRUE
      BY <1>8, <1>11 DEF Decision
    <3>4. d.confidence = weaker
      BY <1>8, <1>11 DEF Decision
    <3> QED
      BY <3>1, <3>2, <3>3, <3>4, Zenon
  <2> QED
    BY <2>1, <2>2, Zenon
<1>12. ASSUME ~sure, calm
       PROVE  /\ d.disposition = e.disposition /\ d.verdict = e.verdict
              /\ d.confidence = e.confidence /\ d.flag = e.flag
              /\ d.disposition = "DECIDED" /\ d.flag = FALSE
  <2>1. /\ e.disposition = "DECIDED" /\ e.verdict = "NEUTRAL" /\ e.flag = FALSE /\ e.confidence = None
    <3>1. e.disposition = "DECIDED"
      BY <1>9, <1>12 DEF Decision
    <3>2. e.verdict = "NEUTRAL"
      BY <1>9, <1>12 DEF Decision
    <3>3. e.flag = FALSE
      BY <1>9, <1>12 DEF Decision
    <3>4. e.confidence = None
      BY <1>9, <1>12 DEF Decision
    <3> QED
      BY <3>1, <3>2, <3>3, <3>4, Zenon
  <2>2. /\ d.disposition = "DECIDED" /\ d.verdict = "NEUTRAL" /\ d.flag = FALSE /\ d.confidence = None
    <3>1. d.disposition = "DECIDED"
      BY <1>9, <1>12 DEF Decision
    <3>2. d.verdict = "NEUTRAL"
      BY <1>9, <1>12 DEF Decision
    <3>3. d.flag = FALSE
      BY <1>9, <1>12 DEF Decision
    <3>4. d.confidence = None
      BY <1>9, <1>12 DEF Decision
    <3> QED
      BY <3>1, <3>2, <3>3, <3>4, Zenon
  <2> QED
    BY <2>1, <2>2, Zenon
<1>13. ASSUME ~sure, ~calm
       PROVE  /\ d.disposition = e.disposition /\ d.verdict = e.verdict
              /\ d.confidence = e.confidence /\ d.flag = e.flag
              /\ d.disposition = "ESCALATE_G4" /\ d.flag = FALSE
  <2>1. /\ e.disposition = "ESCALATE_G4" /\ e.verdict = None /\ e.flag = FALSE /\ e.confidence = None
    <3>1. e.disposition = "ESCALATE_G4"
      BY <1>10, <1>13 DEF Decision
    <3>2. e.verdict = None
      BY <1>10, <1>13 DEF Decision
    <3>3. e.flag = FALSE
      BY <1>10, <1>13 DEF Decision
    <3>4. e.confidence = None
      BY <1>10, <1>13 DEF Decision
    <3> QED
      BY <3>1, <3>2, <3>3, <3>4, Zenon
  <2>2. /\ d.disposition = "ESCALATE_G4" /\ d.verdict = None /\ d.flag = FALSE /\ d.confidence = None
    <3>1. d.disposition = "ESCALATE_G4"
      BY <1>10, <1>13 DEF Decision
    <3>2. d.verdict = None
      BY <1>10, <1>13 DEF Decision
    <3>3. d.flag = FALSE
      BY <1>10, <1>13 DEF Decision
    <3>4. d.confidence = None
      BY <1>10, <1>13 DEF Decision
    <3> QED
      BY <3>1, <3>2, <3>3, <3>4, Zenon
  <2> QED
    BY <2>1, <2>2, Zenon
<1>14. /\ d.disposition = e.disposition /\ d.verdict = e.verdict
       /\ d.confidence = e.confidence /\ d.flag = e.flag
       /\ IF d.disposition = "ROUTE_HUMAN" THEN d.flag = TRUE ELSE d.flag = FALSE
       /\ d.disposition \in {"ROUTE_HUMAN", "DECIDED", "ESCALATE_G4"}
  BY <1>11, <1>12, <1>13
<1> QED
  BY <1>14 DEF d, e

\* G1 never corroborates.
LEMMA G1Verdict ==
  ASSUME NEW s
  PROVE  DecideG1(s).verdict # "CORROBORATES"
<1>1. DecideG1(s).verdict \in {None, BareOutcome(s.bare)}
  BY DEF DecideG1, Forward, Decision
<1>2. BareOutcome(s.bare) \in {None, "NEUTRAL", "REPEATS"}
  BY DEF BareOutcome
<1> QED
  BY <1>1, <1>2, ScoresAssumption

\* G2 corroborates what it settles, and forwards the rest.
LEMMA G2Decides ==
  ASSUME NEW s
  PROVE  LET d == DecideG2(s) IN
         \/ d.disposition = "DECIDED" /\ d.verdict = "CORROBORATES" /\ d.flag = FALSE
         \/ d.disposition = "FORWARD"
<1>1. CASE BestSupport(s) >= SupportMin
  BY <1>1 DEF DecideG2, Decision
<1>2. CASE ~(BestSupport(s) >= SupportMin)
  BY <1>2 DEF DecideG2, Forward, Decision
<1> QED
  BY <1>1, <1>2

(***************************************************************************)
(* What the worker has asked of the models so far, and where it got to:    *)
(* the row carries what the first family said, and a pair that is still on *)
(* its way is one the gates before forwarded.                              *)
(***************************************************************************)
Asked ==
  /\ heard \in Answers
  /\ at \in {"G1", "G2", "G3", "G4", "human", "settled"}
  /\ at \in {"G1", "G2", "G3"} => g3 = None
  /\ at \in {"G2", "G3"} =>
       /\ edge.stored = Stored(heard.g1.bare)
       /\ DecideG1(heard.g1).disposition = "FORWARD"
       /\ flag = DecideG1(heard.g1).flag
  /\ at = "G3" /\ ~flag => DecideG2(WorkerG2).disposition = "FORWARD"

Matches == heard.evidence.B = None => ReplayMatches

ReplayInv == Asked /\ Matches

LEMMA ReplayInvInit == ReplayInit => ReplayInv
  BY DEF ReplayInit, Init, ReplayInv, Asked, Matches, ReplayMatches

LEMMA ReplayInvStep == ReplayInv /\ [WorkerStep]_replayVars => ReplayInv'
<1> SUFFICES ASSUME ReplayInv, [WorkerStep]_replayVars
             PROVE  Asked' /\ Matches'
  BY DEF ReplayInv
<1> DEFINE first == DecideG1(heard.g1)
           second == DecideG2(ReplayG2(heard))
           third == DecideG3(heard.g1.bare, heard.g3)
<1>1. heard \in Answers /\ heard.g1 \in G1Scores /\ heard.g1.bare \in Both /\ heard.g3 \in Both
  BY DEF ReplayInv, Asked, Answers, G1Scores
<1>2. /\ first.flag \in BOOLEAN
      /\ first.disposition \in {"FORWARD", "ESCALATE_G4", "DECIDED"}
      /\ first.disposition # "FORWARD" => first.flag = FALSE
  BY <1>1, G1Decides
<1>3. heard.g3 # None
  BY <1>1, ScoresAssumption DEF Both
<1>4. ASSUME g1' = heard.g1, JudgeG1, UNCHANGED heard
      PROVE  Asked' /\ Matches'
  <2>1. decision' = first /\ at' = Where(first, "G2") /\ flag' = first.flag /\ g3' = None
        /\ at' \in {"G2", "G4", "settled"}
    BY <1>2, <1>4 DEF JudgeG1, ReplayInv, Asked, Where
  <2>2. at' = "G2" <=> first.disposition = "FORWARD"
    BY <1>2, <2>1 DEF Where
  <2>3. edge'.stored = Stored(heard.g1.bare)
    BY <1>4 DEF JudgeG1, Recorded
  <2>4. Asked'
    BY <1>1, <1>4, <2>1, <2>2, <2>3 DEF Asked
  <2>5. ASSUME at' # "G2"
        PROVE  RunCascade(heard) = Outcome(decision', Gate', flag')
    <3>1. first.disposition # "FORWARD" /\ flag' = FALSE
      BY <1>2, <2>1, <2>2, <2>5
    <3>2. Gate' = "G1"
      BY <2>1, G1Verdict DEF Gate
    <3>3. RunCascade(heard) = Outcome(first, "G1", FALSE)
      BY <3>1 DEF RunCascade
    <3> QED
      BY <2>1, <3>1, <3>2, <3>3
  <2> QED
    BY <1>4, <2>4, <2>5 DEF Matches, ReplayMatches
<1>5. ASSUME PassThrough, UNCHANGED heard
      PROVE  Asked' /\ Matches'
  BY <1>5 DEF PassThrough, ReplayInv, Asked, Matches, ReplayMatches
<1>6. ASSUME g2' = WorkerG2, JudgeG2, UNCHANGED heard
      PROVE  Asked' /\ Matches'
  <2>0. decision' = DecideG2(WorkerG2)
    BY <1>6 DEF JudgeG2
  <2>1. /\ first.disposition = "FORWARD" /\ flag = FALSE /\ flag' = FALSE /\ first.flag = FALSE
        /\ g3' = None /\ edge'.stored = edge.stored /\ edge.stored = Stored(heard.g1.bare)
    BY <1>2, <1>6 DEF JudgeG2, ReplayInv, Asked, Recorded
  <2>2. WorkerG2' = WorkerG2
    BY <1>6 DEF WorkerG2
  <2>3. at' = Where(decision', "G3")
    BY <1>6 DEF JudgeG2
  <2>4. CASE decision'.disposition = "FORWARD"
    <3>1. at' = "G3"
      BY <2>3, <2>4 DEF Where
    <3>2. Matches'
      BY <3>1 DEF Matches, ReplayMatches
    <3>3. Asked'
      BY <1>1, <1>6, <2>0, <2>1, <2>2, <2>4, <3>1 DEF Asked
    <3> QED
      BY <3>2, <3>3
  <2>5. ASSUME decision'.disposition # "FORWARD"
        PROVE  Asked' /\ Matches'
    <3>1. decision'.disposition = "DECIDED" /\ decision'.verdict = "CORROBORATES"
      BY <2>0, <2>5, G2Decides
    <3>2. at' = "settled"
      BY <2>3, <3>1 DEF Where
    <3>3. Asked'
      BY <1>1, <1>6, <3>2 DEF Asked
    <3>4. Gate' = "G2"
      BY <2>1, <3>1 DEF Gate
    <3>5. ASSUME heard.evidence.B = None
          PROVE  RunCascade(heard) = Outcome(decision', Gate', flag')
      <4>1. second = decision'
        BY <1>1, <2>0, <3>5, SameGrounding
      <4>2. RunCascade(heard) = Outcome(second, "G2", FALSE)
        BY <2>1, <2>5, <4>1 DEF RunCascade
      <4> QED
        BY <2>1, <3>4, <4>1, <4>2
    <3> QED
      BY <1>6, <3>3, <3>5 DEF Matches, ReplayMatches
  <2> QED
    BY <2>4, <2>5
<1>7. ASSUME g3' = heard.g3, JudgeG3, UNCHANGED heard
      PROVE  Asked' /\ Matches'
  <2>1. /\ at = "G3" /\ decision' = DecideG3(Stored(heard.g1.bare), heard.g3)
        /\ at' = Where(decision', "G4") /\ flag' = (flag \/ at' = "human")
        /\ flag = first.flag /\ first.disposition = "FORWARD"
    BY <1>7 DEF JudgeG3, ReplayInv, Asked
  <2>2. /\ decision'.disposition = third.disposition /\ decision'.verdict = third.verdict
        /\ decision'.confidence = third.confidence /\ decision'.flag = third.flag
        /\ IF decision'.disposition = "ROUTE_HUMAN" THEN decision'.flag = TRUE
                                                    ELSE decision'.flag = FALSE
        /\ decision'.disposition \in {"ROUTE_HUMAN", "DECIDED", "ESCALATE_G4"}
    BY <1>1, <2>1, SameCrossCheck
  <2>3. at' \in {"human", "settled", "G4"} /\ (at' = "human" <=> decision'.flag = TRUE)
    BY <2>1, <2>2 DEF Where
  <2>4. Asked'
    BY <1>1, <1>7, <2>3 DEF Asked
  <2>5. Gate' = "G3"
    BY <1>3, <1>7 DEF Gate
  <2>6. ASSUME heard.evidence.B = None
        PROVE  RunCascade(heard) = Outcome(decision', "G3", flag')
    <3>1. ~first.flag => second.disposition = "FORWARD"
      BY <1>1, <2>1, <2>6, SameGrounding DEF ReplayInv, Asked
    <3>2. RunCascade(heard) = Outcome(third, "G3", first.flag)
      BY <2>1, <3>1 DEF RunCascade
    <3>3. (third.flag \/ first.flag) = (decision'.flag \/ flag')
      BY <1>2, <2>1, <2>2, <2>3
    <3> QED
      BY <2>2, <3>2, <3>3 DEF Outcome
  <2> QED
    BY <1>7, <2>4, <2>5, <2>6 DEF Matches, ReplayMatches
<1>8. CASE UNCHANGED replayVars
  BY <1>8 DEF replayVars, vars, ReplayInv, Asked, Matches, ReplayMatches, Gate, WorkerG2
<1> QED
  BY <1>4, <1>5, <1>6, <1>7, <1>8 DEF WorkerStep

(***************************************************************************)
(* For every set of answers and every thresholds in the proposed order: of *)
(* a pair that has no excerpt for its second claim, the replay reports the *)
(* gate, the disposition, the verdict, the confidence and the flag that    *)
(* the worker gave it (bakeoff.py run_cascade); with an excerpt for both,  *)
(* TLC finds the worker grounding what the corpus cannot.                  *)
(***************************************************************************)
THEOREM ReplayIsFaithful == ReplaySpec => [](heard.evidence.B = None => ReplayMatches)
<1>1. ReplayInv => (heard.evidence.B = None => ReplayMatches)
  BY DEF ReplayInv, Matches
<1> QED
  BY <1>1, ReplayInvInit, ReplayInvStep, PTL DEF ReplaySpec

=============================================================================
