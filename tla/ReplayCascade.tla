---------------------------- MODULE ReplayCascade ----------------------------
(***************************************************************************)
(* The bake-off's replay of a pair beside the worker's judgement of it:    *)
(* the models answer the same way in both, the worker asks them gate by    *)
(* gate and lets the pair and its scores travel through the queue and the  *)
(* verdict row, the replay has every answer at hand and calls the same     *)
(* decision functions one after the other.                                 *)
(***************************************************************************)
EXTENDS GateDecisions

CONSTANT Excerpts   \* which claims of a pair may have a source excerpt: sets of "A", "B"

ASSUME ExcerptsAssumption == Excerpts \subseteq SUBSET {"A", "B"}

VARIABLE heard      \* what the models say of this pair and its excerpts

replayVars == <<vars, heard>>

\* Support of claim B by A's excerpt, and of claim A by B's, where there is one.
Evidence(excerpts) ==
  {e \in [A : Grounding \union {None}, B : Grounding \union {None}] :
     \A c \in {"A", "B"} : e[c] # None <=> c \in excerpts}

Answers == [g1 : G1Scores, forward : Grounding, backward : Grounding,
            evidence : UNION {Evidence(x) : x \in Excerpts}, g3 : Both]

-----------------------------------------------------------------------------
(* The worker.                                                             *)

\* gates/g2.py: the stronger of the two orientations there are, of two alike the
\* one that has claim A in hand.
Stronger(e) == IF e.A = None THEN e.B
               ELSE IF e.B = None THEN e.A
               ELSE IF e.A.support > e.B.support THEN e.A ELSE e.B

WorkerG2 == [forward |-> heard.backward, backward |-> heard.forward,
             grounded |-> Stronger(heard.evidence)]

WorkerStep ==
  /\ \/ g1' = heard.g1 /\ JudgeG1
     \/ PassThrough
     \/ g2' = WorkerG2 /\ JudgeG2
     \/ g3' = heard.g3 /\ JudgeG3
  /\ UNCHANGED heard

-----------------------------------------------------------------------------
(* The replay.                                                             *)

Outcome(d, gate, flagged) ==
  [disposition |-> d.disposition, verdict |-> d.verdict, gate |-> gate,
   confidence |-> d.confidence, flag |-> d.flag \/ flagged]

\* The corpus has one snippet for a pair, and scores claim B against it.
ReplayG2(a) == [forward |-> a.forward, backward |-> a.backward, grounded |-> a.evidence.A]

\* Mutant: a flagged pair does not skip G2.
RunCascadeEveryGate(a) ==
  LET first == DecideG1(a.g1)
      second == DecideG2(ReplayG2(a))
      third == DecideG3(a.g1.bare, a.g3)
  IN  IF first.disposition # "FORWARD" THEN Outcome(first, "G1", FALSE)
      ELSE IF second.disposition # "FORWARD" THEN Outcome(second, "G2", FALSE)
      ELSE Outcome(third, "G3", first.flag)

RunCascade(a) ==
  LET first == DecideG1(a.g1)
      second == DecideG2(ReplayG2(a))
      third == DecideG3(a.g1.bare, a.g3)
  IN  IF first.disposition # "FORWARD" THEN Outcome(first, "G1", FALSE)
      ELSE IF ~first.flag /\ second.disposition # "FORWARD" THEN Outcome(second, "G2", FALSE)
      ELSE Outcome(third, "G3", first.flag)

-----------------------------------------------------------------------------

ReplayInit == Init /\ heard \in Answers

ReplaySpec == ReplayInit /\ [][WorkerStep]_replayVars

\* Where the worker's judgement of the pair ended, read off what it wrote.
Gate == IF g3 # None THEN "G3" ELSE IF decision.verdict = "CORROBORATES" THEN "G2" ELSE "G1"

(***************************************************************************)
(* The replay of a pair reports what the cascade does with it: the gate,   *)
(* the disposition, the verdict, its confidence and the flag               *)
(* (README.md:105-107, bakeoff.py run_cascade).                            *)
(***************************************************************************)
ReplayMatches ==
  at \in {"settled", "human", "G4"} =>
    RunCascade(heard) = Outcome(decision, Gate, flag)

=============================================================================
