----------------------------- MODULE MCTailCalls -----------------------------
(***************************************************************************)
(* A batch of three pairs, two calls left under the cap, and an answer of  *)
(* every shape the parser tells apart.                                     *)
(***************************************************************************)
EXTENDS TailCalls

Row(relation, confidence) == [relation |-> relation, confidence |-> confidence]
Reply(shape, items) == [shape |-> shape, items |-> items]

MCPairs == <<"p1", "p2", "p3">>
MCVerdicts == {"NEUTRAL", "REPEATS", "CORROBORATES", "CONTRADICTS"}

MCAnswers ==
  {Reply("blank", <<>>), Reply("prose", <<>>), Reply("scalar", <<>>), Reply("array", <<>>),
   Reply("array", <<Row("REPEATS", 1)>>), Reply("object", <<Row("CONTRADICTS", 3)>>),
   Reply("array", <<None, Row("NEUTRAL", None)>>), Reply("array", <<Row(None, 1)>>),
   Reply("array", <<Row("UNRELATED", 1)>>), Reply("object", <<Row("REPEATS", Huge)>>)}

MCTwoRows == {Reply("array", <<Row("NEUTRAL", 1), Row("CONTRADICTS", 2)>>)}
MCNaN == {Reply("object", <<Row("NEUTRAL", NaN)>>), Reply("object", <<Row("NEUTRAL", -1)>>)}
=============================================================================
