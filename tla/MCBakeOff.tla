------------------------------ MODULE MCBakeOff ------------------------------
(***************************************************************************)
(* Two rosters that share two of three artifacts, corpora of two pairs or  *)
(* three, and a grid over two thresholds that gate each other.             *)
(***************************************************************************)
EXTENDS BakeOff

MCRosters == <<[g1 |-> "a", g2 |-> "s", g3 |-> "b"], [g1 |-> "b", g2 |-> "s", g3 |-> "b"]>>

\* The proposed thresholds on a scale of four, as the cascade's instances have them.
MCBase == [neutralMin |-> 4, repeatMin |-> 3, contraEscape |-> 0, supportMin |-> 4,
           contraMin |-> 3, neutralConsensus |-> 2]
NoGrid == <<>>
MCGrid == [neutralMin |-> {3, 4}, contraEscape |-> {0, 1}]
MCNoGrid == {NoGrid}
MCGrids == {NoGrid, MCGrid}

Nli(e, n, c) ==
  LET one == [entailment |-> e, neutral |-> n, contradiction |-> c, truncated |-> FALSE]
  IN  [bare |-> [forward |-> one, backward |-> one], contexted |-> None]

Support(s) == [support |-> s, truncated |-> FALSE]

\* Claims that are apart, near and against each other; near ones divide the models,
\* and the quantized release of "a" sees a contradiction in them.
MCSays(p, release, text) ==
  IF p.task = "grounding"
    THEN [forward |-> Support(3), backward |-> Support(IF text = "near" THEN 4 ELSE 2),
          grounded |-> None]
  ELSE IF text = "apart" THEN Nli(0, 4, 0)
  ELSE IF text = "against" THEN Nli(1, 0, 3)
  ELSE IF p.ref = "b" THEN Nli(0, 3, 1)
  ELSE IF release = "fp32" THEN Nli(1, 3, 0)
  ELSE Nli(1, 1, 2)

\* Only "a" is ever mirrored with another precision.
MCReleases == [ref \in {"a", "b", "s"} |-> IF ref = "a" THEN {"fp32", "int8"} ELSE {"fp32"}]

Document(id, method, text, graph, ensemble, golden) ==
  [id |-> id, method |-> method, text |-> text, graph |-> graph,
   ensemble |-> ensemble, golden |-> golden]

\* A row of the gatekeeper's own, and one whose text only the graph has.
FirstSource == <<Document("p1", "ENSEMBLE", "apart", None, "NEUTRAL", FALSE),
                 Document("p2", "GK_G1", "apart", None, "NEUTRAL", FALSE),
                 Document("p3", "ENSEMBLE", "against", None, "CONTRADICTS", TRUE),
                 Document("p4", "RULE", None, "near", "NEUTRAL", FALSE)>>
\* The same pairs in another order, one called otherwise.
SecondSource == <<Document("p4", "RULE", "near", None, "CORROBORATES", FALSE),
                  Document("p1", "ENSEMBLE", "apart", None, "NEUTRAL", FALSE),
                  Document("p3", "ENSEMBLE", "apart", None, "NEUTRAL", FALSE)>>
\* The first pairs, exported again with other texts.
ThirdSource == <<Document("p1", "ENSEMBLE", "near", None, "NEUTRAL", FALSE),
                 Document("p3", "ENSEMBLE", "against", None, "CONTRADICTS", TRUE)>>

MCSources == {FirstSource, SecondSource}
MCRetold == {FirstSource, ThirdSource}

NoLimit == {0}
AnyLimit == {0, 1}
=============================================================================
