---------------------------- MODULE MCModelLoader ----------------------------
(***************************************************************************)
(* Two releases of an artifact of two files that differ in both, and a     *)
(* gate that scores with what is installed.  The artifact is one of those  *)
(* the roster's entries show: labels in two vocabularies and two orders,   *)
(* labels that say nothing with and without an order declared for them,    *)
(* two-way NLI heads, grounding heads of both shapes, and labels that do   *)
(* not name every class.                                                   *)
(***************************************************************************)
EXTENDS EncoderScoring

MCFileOrder == <<"config", "graph">>
MCContents == {"old", "new"}
MCWeights == [old |-> [config |-> "old", graph |-> "old"],
              new |-> [config |-> "new", graph |-> "new"]]

Nli(order, old, new, oldHead, newHead) ==
  [task |-> "NLI_3WAY", order |-> order,
   labels |-> [old |-> old, new |-> new], head |-> [old |-> oldHead, new |-> newHead]]

Mnli == <<"entailment", "neutral", "contradiction">>
ContraFirst == <<"contradiction", "entailment", "neutral">>
Fever == <<"REFUTES", "SUPPORTS", "NOT ENOUGH INFO">>
Blank == <<"LABEL_0", "LABEL_1", "LABEL_2">>
TwoWay == <<"entailment", "not_entailment">>
TwoWayHead == <<"entailment", "contradiction">>

MCArtifacts ==
  {Nli(<<>>, Mnli, Fever, Mnli, ContraFirst),
   Nli(ContraFirst, Blank, Blank, ContraFirst, ContraFirst),
   Nli(<<>>, Blank, TwoWay, Mnli, TwoWayHead),
   Nli(<<>>, <<"entailment", "LABEL_1", "contradiction">>,
             <<"entailment", "entailment_strong", "contradiction">>, Mnli, Mnli),
   [task |-> "GROUNDING", order |-> <<>>, labels |-> [c \in MCContents |-> <<>>],
    head |-> [old |-> <<"supported">>, new |-> <<"unsupported", "supported">>]]}

ASSUME TruthfulArtifacts == \A a \in MCArtifacts : Truthful(a)

\* Of three tokens at most two are kept.
MCWorks == {[asks |-> "NLI_3WAY", pairs |-> <<1, 3, 1>>], [asks |-> "NLI_3WAY", pairs |-> <<3, 1, 2, 1, 3>>],
            [asks |-> "GROUNDING", pairs |-> <<1, 1, 3>>]}
=============================================================================
