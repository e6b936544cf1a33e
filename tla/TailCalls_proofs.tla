--------------------------- MODULE TailCalls_proofs ---------------------------
(***************************************************************************)
(* Proofs about TailCalls, for any batch, answers, cap and number of       *)
(* retries.                                                                *)
(*                                                                         *)
(* The loop takes the pairs in their order: those behind it are judged,    *)
(* those ahead of it have not been asked about, and between two attempts   *)
(* the last reply for the pair in hand was a lost or a throttled one.  The *)
(* calls are counted against what the loop has spent, where a pair whose   *)
(* call is not concluded, and may never be, is ahead of the count by one.  *)
(***************************************************************************)
EXTENDS TailCalls, FiniteSetTheorems, TLAPS

-----------------------------------------------------------------------------
(* The inductive invariant.                                                *)

Called == {p \in Members : requests[p] > 0}

TypeInv ==
  /\ pc \in {"claimed", "refused", "pair", "raised", "write", "done"}
  /\ next \in Nat \ {0} /\ attempt \in Nat /\ spent \in Nat
  /\ pc = "claimed" => next = 1
  /\ pc \in {"pair", "raised"} => next <= Len(Pairs)
  /\ pc = "write" => next > Len(Pairs)
  /\ requests \in [Members -> Nat]
  /\ DOMAIN said = Members /\ DOMAIN outcome = Members

\* The pair in hand was called and is not concluded.
InHand == attempt > 0 \/ pc = "raised"

AheadUntouched ==
  \A k \in 1..Len(Pairs) :
    k > next \/ (k = next /\ ~InHand) => requests[Pairs[k]] = 0 /\ said[Pairs[k]] = None

CalledInHand ==
  InHand =>
    /\ pc \in {"pair", "raised"} /\ ~CapReached /\ requests[ThisPair] > 0
    /\ pc = "pair" => said[ThisPair] \in Retryable

\* A pair is settled by an answer that names its verdict, or rejected.
Judged(p) ==
  \/ /\ outcome[p].tier = "llm" /\ outcome[p].relation \in Verdicts
     /\ said[p] \notin Failures \union {None}
     /\ Names(said[p], outcome[p].relation)
  \/ outcome[p] \in {Rejected("LLM_ERROR"), Rejected("CAP_EXCEEDED")}

BehindJudged == \A k \in 1..Len(Pairs) : k < next => Judged(Pairs[k])

Unwritten == pc # "done" => \A p \in Members : edges[p] = NoEdge /\ rows[p] = "G4"

SpentForCalls ==
  /\ spent >= PriorLlmPairs
  /\ MaxLlmPairs # 0 => spent <= MaxOf(MaxLlmPairs, PriorLlmPairs)
  /\ Cardinality(Called) <= spent - PriorLlmPairs + IF InHand THEN 1 ELSE 0

TailInv ==
  /\ TypeInv /\ AheadUntouched /\ CalledInHand /\ BehindJudged /\ Unwritten /\ SpentForCalls
  /\ NeverAGuess

-----------------------------------------------------------------------------
(* Operators.                                                              *)

LEMMA PairFacts ==
  /\ Len(Pairs) \in Nat \ {0}
  /\ \A k \in 1..Len(Pairs) : Pairs[k] \in Members
  /\ \A p \in Members : \E k \in 1..Len(Pairs) : p = Pairs[k]
BY TailAssumption DEF Members

LEMMA MembersFinite == IsFiniteSet(Members)
<1>1. IsFiniteSet(1..Len(Pairs))
  BY FS_Interval, PairFacts
<1>2. Pairs \in [1..Len(Pairs) -> Members]
  BY TailAssumption
<1>3. Pairs \in Surjection(1..Len(Pairs), Members)
  BY <1>2, PairFacts DEF Surjection
<1>4. QED
  BY <1>1, <1>3, FS_Surjection

\* What is read off an answer is a verdict the answer names.
LEMMA ParseNames ==
  ASSUME NEW answer, Parse(answer) # None
  PROVE  Parse(answer).relation \in Verdicts /\ Names(answer, Parse(answer).relation)
<1> DEFINE k == CHOOSE j \in FirstObject(answer.items) : TRUE
           first == answer.items[k]
<1>1. Readable(answer) /\ first.relation \in Verdicts
  BY DEF Parse, FirstOf
<1>2. k \in FirstObject(answer.items)
  BY <1>1 DEF Readable
<1>3. Parse(answer) = [relation |-> first.relation, confidence |-> Confidence(first.confidence)]
  BY <1>1 DEF Parse, FirstOf
<1>4. k \in DOMAIN answer.items /\ first # None
  BY <1>2 DEF FirstObject
<1>5. Names(answer, first.relation)
  BY <1>4 DEF Names
<1>6. QED
  BY <1>1, <1>3, <1>5

LEMMA DryRunNames ==
  LET v == Parse(DryRunAnswer) IN v.relation \in Verdicts /\ Names(DryRunAnswer, v.relation)
<1> DEFINE item == [relation |-> "NEUTRAL", confidence |-> One \div 2]
           k == CHOOSE j \in FirstObject(DryRunAnswer.items) : TRUE
<1>1. /\ DryRunAnswer.items = <<item>> /\ DryRunAnswer.shape = "array" /\ item # None
      /\ "NEUTRAL" \in Verdicts
  BY TailAssumption DEF DryRunAnswer
<1>2. FirstObject(DryRunAnswer.items) = {1}
  BY <1>1 DEF FirstObject
<1>3. k = 1
  BY <1>2
<1>4. DryRunAnswer.items[k] = item /\ Readable(DryRunAnswer)
  BY <1>1, <1>2, <1>3 DEF Readable
<1>5. Parse(DryRunAnswer) = [relation |-> "NEUTRAL", confidence |-> Confidence(item.confidence)]
  BY <1>1, <1>4 DEF Parse, FirstOf
<1>6. Names(DryRunAnswer, "NEUTRAL")
  BY <1>1 DEF Names
<1>7. QED
  BY <1>1, <1>5, <1>6

\* One pair more is called, or none.
LEMMA CalledMore ==
  ASSUME TypeInv, NEW p \in Members, requests' = [requests EXCEPT ![p] = @ + 1]
  PROVE  /\ Cardinality(Called) \in Nat
         /\ Cardinality(Called)' = Cardinality(Called) + IF requests[p] > 0 THEN 0 ELSE 1
<1>1. IsFiniteSet(Called) /\ Cardinality(Called) \in Nat
  BY MembersFinite, FS_Subset, FS_CardinalityType DEF Called
<1>2. Called' = Called \union {p}
  BY DEF TypeInv, Called
<1>3. p \in Called <=> requests[p] > 0
  BY DEF Called
<1>4. Cardinality(Called \union {p})
        = IF p \in Called THEN Cardinality(Called) ELSE Cardinality(Called) + 1
  BY <1>1, FS_AddElement
<1>5. requests[p] > 0 => Cardinality(Called)' = Cardinality(Called) + 0
  BY <1>1, <1>2, <1>3, <1>4
<1>6. ~(requests[p] > 0) => Cardinality(Called)' = Cardinality(Called) + 1
  BY <1>1, <1>2, <1>3, <1>4
<1>7. QED
  BY <1>1, <1>5, <1>6

-----------------------------------------------------------------------------
(* The steps.                                                              *)

LEMMA TailInit == Init => TailInv
<1> SUFFICES ASSUME Init PROVE TailInv
  OBVIOUS
<1>1. Called = {}
  BY DEF Init, Called
<1>2. SpentForCalls
  BY <1>1, FS_EmptySet, TailAssumption DEF InHand, Init, SpentForCalls, MaxOf
<1>3. NeverAGuess
  BY DEF Init, NeverAGuess, NoEdge
<1>4. TypeInv
  BY PairFacts, TailAssumption DEF Init, TypeInv
<1>5. AheadUntouched
  BY PairFacts DEF InHand, Init, AheadUntouched
<1>6. CalledInHand /\ BehindJudged /\ Unwritten
  BY DEF InHand, Init, CalledInHand, BehindJudged, Unwritten
<1>7. QED
  BY <1>2, <1>3, <1>4, <1>5, <1>6 DEF TailInv

\* A pair is concluded: the others keep what was judged of them.
LEMMA ConcludeStep ==
  ASSUME TypeInv, AheadUntouched, BehindJudged, pc = "pair",
         NEW result, Concluded(result),
         \A p \in Members \ {ThisPair} : said'[p] = said[p] /\ requests'[p] = requests[p],
         requests' \in [Members -> Nat], DOMAIN said' = Members, spent' \in Nat,
         \/ /\ result.tier = "llm" /\ result.relation \in Verdicts
            /\ said'[ThisPair] \notin Failures \union {None}
            /\ Names(said'[ThisPair], result.relation)
         \/ result \in {Rejected("LLM_ERROR"), Rejected("CAP_EXCEEDED")}
  PROVE  (TypeInv /\ AheadUntouched /\ CalledInHand /\ BehindJudged)' /\ pc' # "done"
<1>1. ThisPair \in Members /\ next \in 1..Len(Pairs)
  BY PairFacts DEF TypeInv, ThisPair
<1>2. \A k \in 1..Len(Pairs) : k # next => Pairs[k] # ThisPair /\ Pairs[k] \in Members
  BY <1>1, TailAssumption, PairFacts DEF ThisPair
<1>3. TypeInv'
  <2>1. next' = next + 1 /\ attempt' = 0 /\ pc' = IF next = Len(Pairs) THEN "write" ELSE "pair"
    BY DEF Concluded
  <2>2. DOMAIN outcome' = Members
    BY DEF Concluded, TypeInv
  <2>3. QED
    BY <1>1, <2>1, <2>2, PairFacts DEF TypeInv
<1>4. AheadUntouched'
  BY <1>1, <1>2 DEF InHand, Concluded, TypeInv, AheadUntouched
<1>5. ASSUME NEW k \in 1..Len(Pairs), k < next' PROVE Judged(Pairs[k])'
  <2>1. CASE k = next
    <3>1. Pairs[k] = ThisPair /\ outcome'[ThisPair] = result
      BY <1>1, <2>1 DEF Concluded, TypeInv, ThisPair
    <3>2. outcome'[Pairs[k]] = result /\ said'[Pairs[k]] = said'[ThisPair]
      BY <3>1
    <3>3. QED
      BY <3>2 DEF Judged
  <2>2. CASE k # next
    <3>1. k < next
      <4>1. next' = next + 1
        BY DEF Concluded
      <4>2. QED
        BY <1>1, <1>5, <2>2, <4>1, PairFacts
    <3>2. Judged(Pairs[k])
      BY <3>1 DEF BehindJudged
    <3>3. Pairs[k] \in Members \ {ThisPair}
      BY <1>2, <2>2
    <3>4. outcome'[Pairs[k]] = outcome[Pairs[k]] /\ said'[Pairs[k]] = said[Pairs[k]]
      BY <3>3 DEF Concluded, TypeInv
    <3>5. QED
      BY <3>2, <3>4 DEF Judged
  <2>3. QED
    BY <2>1, <2>2
<1>6. BehindJudged'
  BY <1>5 DEF BehindJudged
<1>7. CalledInHand' /\ pc' # "done"
  BY DEF InHand, Concluded, CalledInHand
<1>8. QED
  BY <1>3, <1>4, <1>6, <1>7

\* Nothing is written before the end.
LEMMA UnwrittenIsNoGuess == ASSUME Unwritten, pc # "done" PROVE NeverAGuess
BY DEF Unwritten, NeverAGuess, NoEdge

LEMMA OpenDoorStep == ASSUME TailInv, OpenDoor PROVE TailInv'
<1> USE DEF TailInv
<1>1. /\ pc = "claimed" /\ pc' \in {"refused", "pair"} /\ next = 1 /\ attempt = 0
      /\ UNCHANGED <<next, attempt, spent, said, requests, outcome, edges, rows>>
  BY DEF InHand, OpenDoor, money, TypeInv, CalledInHand
<1>2. TypeInv'
  BY <1>1, PairFacts DEF TypeInv
<1>3. (AheadUntouched /\ CalledInHand /\ BehindJudged /\ Unwritten)'
  BY <1>1 DEF InHand, AheadUntouched, CalledInHand, BehindJudged, Judged, Unwritten
<1>4. SpentForCalls' /\ NeverAGuess'
  BY <1>1 DEF InHand, SpentForCalls, Called, NeverAGuess
<1>5. QED
  BY <1>2, <1>3, <1>4

LEMMA RecordShadowStep == ASSUME TailInv, RecordShadow PROVE TailInv'
<1> USE DEF TailInv
<1>1. /\ pc = "claimed" /\ pc' = "done" /\ attempt = 0
      /\ UNCHANGED <<next, attempt, spent, said, requests, outcome>>
      /\ edges' = [p \in Members |-> [edges[p] EXCEPT !.shadow = "WOULD_ESCALATE_LLM"]]
      /\ rows' = [p \in Members |-> "llm"]
  BY DEF InHand, RecordShadow, money, TypeInv, CalledInHand
<1>2. (TypeInv /\ AheadUntouched /\ CalledInHand /\ BehindJudged /\ Unwritten)'
  BY <1>1 DEF InHand, TypeInv, AheadUntouched, CalledInHand, BehindJudged, Judged, Unwritten
<1>3. SpentForCalls'
  BY <1>1 DEF InHand, SpentForCalls, Called
<1>4. NeverAGuess'
  BY <1>1 DEF Unwritten, NoEdge, NeverAGuess
<1>5. QED
  BY <1>2, <1>3, <1>4

LEMMA OverCapStep == ASSUME TailInv, OverCap PROVE TailInv'
<1> USE DEF TailInv
<1>1. /\ pc = "pair" /\ ~InHand /\ ~InHand'
      /\ Concluded(Rejected("CAP_EXCEEDED"))
      /\ UNCHANGED <<spent, said, requests, edges, rows>>
  BY DEF InHand, OverCap, Concluded, money, TypeInv, CalledInHand
<1>2. (TypeInv /\ AheadUntouched /\ CalledInHand /\ BehindJudged)' /\ pc' # "done"
  BY <1>1, ConcludeStep DEF TypeInv
<1>3. Unwritten'
  BY <1>1 DEF Unwritten
<1>4. SpentForCalls'
  BY <1>1 DEF SpentForCalls, Called
<1>5. NeverAGuess'
  BY <1>1, <1>2, UnwrittenIsNoGuess DEF NeverAGuess
<1>6. QED
  BY <1>2, <1>3, <1>4, <1>5

\* What a charge leaves of the budget.
LEMMA ChargedStep ==
  ASSUME TypeInv, SpentForCalls, ~CapReached, Charged, ~InHand',
         Cardinality(Called)' \in Nat, Cardinality(Called) \in Nat,
         Cardinality(Called)' <= Cardinality(Called) + IF InHand THEN 0 ELSE 1
  PROVE  SpentForCalls'
BY TailAssumption DEF InHand, TypeInv, SpentForCalls, CapReached, Charged, MaxOf

LEMMA PostStep == ASSUME TailInv, Post PROVE TailInv'
<1> USE DEF TailInv
<1>1. PICK reply \in Failures \union Answers :
        LET raised == reply \in Answers /\ Overflows(reply)
            verdict == IF reply \in Answers /\ ~raised THEN Parse(reply) ELSE None
        IN  /\ said' = [said EXCEPT ![ThisPair] = reply]
            /\ IF TryAgain(reply)
                 THEN /\ attempt' = attempt + 1
                      /\ UNCHANGED <<pc, next, spent, outcome>>
               ELSE IF raised
                 THEN /\ pc' = "raised"
                      /\ UNCHANGED <<next, attempt, spent, outcome>>
               ELSE /\ Concluded(IF verdict = None THEN Rejected("LLM_ERROR")
                                 ELSE Settled(verdict))
                    /\ Charged
  BY DEF Post
<1>2. /\ pc = "pair" /\ ~CapReached
      /\ requests' = [requests EXCEPT ![ThisPair] = @ + 1]
      /\ UNCHANGED <<edges, rows>>
  BY DEF Post
<1>3. ThisPair \in Members /\ next \in 1..Len(Pairs)
  BY <1>2, PairFacts DEF TypeInv, ThisPair
<1>4. /\ requests' \in [Members -> Nat] /\ DOMAIN said' = Members /\ said'[ThisPair] = reply
      /\ \A p \in Members \ {ThisPair} : said'[p] = said[p] /\ requests'[p] = requests[p]
  BY <1>1, <1>2, <1>3 DEF TypeInv
<1>5. attempt > 0 => requests[ThisPair] > 0
  BY <1>3 DEF InHand, CalledInHand, TypeInv
<1>6. /\ Cardinality(Called) \in Nat
      /\ Cardinality(Called)' = Cardinality(Called) + IF requests[ThisPair] > 0 THEN 0 ELSE 1
  BY <1>2, <1>3, CalledMore
<1> DEFINE raised == reply \in Answers /\ Overflows(reply)
\* The pair stays in hand: it is tried again, or the execution ends.
<1>7. CASE TryAgain(reply) \/ raised
  <2>1. /\ UNCHANGED <<next, spent, outcome>> /\ attempt' \in Nat
        /\ pc' \in {"pair", "raised"} /\ InHand'
        /\ pc' = "pair" => reply \in Retryable
    <3>1. CASE TryAgain(reply)
      BY <1>1, <1>2, <3>1 DEF TryAgain, TypeInv, InHand
    <3>2. CASE ~TryAgain(reply)
      BY <1>1, <1>2, <1>7, <3>2 DEF TypeInv, InHand
    <3>3. QED
      BY <3>1, <3>2
  <2>2. TypeInv'
    BY <1>2, <1>4, <2>1 DEF TypeInv
  <2>3. \A k \in 1..Len(Pairs) : k # next => Pairs[k] \in Members \ {ThisPair}
    BY <1>3, TailAssumption, PairFacts DEF ThisPair
  <2>4. AheadUntouched' /\ BehindJudged'
    <3>1. ASSUME NEW k \in 1..Len(Pairs), k > next
          PROVE  (requests[Pairs[k]] = 0 /\ said[Pairs[k]] = None)'
      BY <1>3, <1>4, <2>3, <3>1 DEF AheadUntouched
    <3>2. ASSUME NEW k \in 1..Len(Pairs), k < next PROVE Judged(Pairs[k])'
      BY <1>3, <1>4, <2>1, <2>3, <3>2 DEF BehindJudged, Judged
    <3>3. QED
      BY <2>1, <3>1, <3>2 DEF AheadUntouched, BehindJudged
  <2>5. CalledInHand'
    <3>1. requests'[ThisPair] > 0
      BY <1>2, <1>3 DEF TypeInv
    <3>2. ThisPair' = ThisPair /\ (CapReached' <=> CapReached)
      BY <2>1 DEF ThisPair, CapReached
    <3>3. QED
      BY <1>2, <1>4, <2>1, <3>1, <3>2 DEF CalledInHand
  <2>6. Unwritten' /\ NeverAGuess'
    BY <1>2, <2>1, UnwrittenIsNoGuess DEF Unwritten, NeverAGuess, NoEdge
  <2>7. SpentForCalls'
    BY <1>2, <1>5, <1>6, <2>1, TailAssumption DEF SpentForCalls, InHand, TypeInv
  <2>8. QED
    BY <2>2, <2>4, <2>5, <2>6, <2>7
<1>8. CASE ~(TryAgain(reply) \/ raised)
  <2> DEFINE verdict == IF reply \in Answers /\ ~raised THEN Parse(reply) ELSE None
             result == IF verdict = None THEN Rejected("LLM_ERROR") ELSE Settled(verdict)
  <2>1. Charged /\ Concluded(result) /\ ~InHand'
    BY <1>1, <1>8 DEF Concluded, InHand
  <2>2. \/ /\ result.tier = "llm" /\ result.relation \in Verdicts
           /\ said'[ThisPair] \notin Failures \union {None}
           /\ Names(said'[ThisPair], result.relation)
        \/ result \in {Rejected("LLM_ERROR"), Rejected("CAP_EXCEEDED")}
    <3>1. CASE verdict = None
      BY <3>1
    <3>2. CASE verdict # None
      <4>1. reply \in Answers /\ verdict = Parse(reply)
        BY <3>2
      <4>2. reply \notin Failures \union {None}
        BY <4>1, TailAssumption
      <4>3. result = Settled(Parse(reply)) /\ Parse(reply) # None
        BY <3>2, <4>1
      <4>4. QED
        BY <1>4, <4>2, <4>3, ParseNames DEF Settled
    <3>3. QED
      BY <3>1, <3>2
  <2>3. spent' \in Nat
    BY <2>1 DEF Charged, TypeInv
  <2>4. (TypeInv /\ AheadUntouched /\ CalledInHand /\ BehindJudged)' /\ pc' # "done"
    BY <1>2, <1>4, <2>1, <2>2, <2>3, ConcludeStep
  <2>5. Unwritten' /\ NeverAGuess'
    BY <1>2, <2>4, UnwrittenIsNoGuess DEF Unwritten, NeverAGuess, NoEdge
  <2>6. SpentForCalls'
    <3>1. Cardinality(Called)' <= Cardinality(Called) + IF InHand THEN 0 ELSE 1
      BY <1>2, <1>5, <1>6 DEF InHand, TypeInv
    <3>2. Cardinality(Called)' \in Nat
      BY <1>6
    <3>3. QED
      BY <1>2, <1>6, <2>1, <3>1, <3>2, ChargedStep
  <2>7. QED
    BY <2>4, <2>5, <2>6
<1>9. QED
  BY <1>7, <1>8

LEMMA DryRunStep == ASSUME TailInv, DryRun PROVE TailInv'
<1> USE DEF TailInv
<1> DEFINE v == Parse(DryRunAnswer)
<1>1. /\ pc = "pair" /\ ~CapReached /\ Charged /\ ~InHand'
      /\ said' = [said EXCEPT ![ThisPair] = DryRunAnswer]
      /\ Concluded(Settled(v))
      /\ UNCHANGED <<requests, edges, rows>>
  BY DEF DryRun, Concluded, InHand, money
<1>2. ThisPair \in Members
  BY <1>1, PairFacts DEF TypeInv, ThisPair
<1>3. /\ DOMAIN said' = Members /\ said'[ThisPair] = DryRunAnswer
      /\ \A p \in Members \ {ThisPair} : said'[p] = said[p]
  BY <1>1, <1>2 DEF TypeInv
<1>4. DryRunAnswer \notin Failures \union {None}
  BY TailAssumption DEF DryRunAnswer, Failures, Retryable, NoBody
<1>5. /\ Settled(v).tier = "llm" /\ Settled(v).relation \in Verdicts
      /\ Names(DryRunAnswer, Settled(v).relation)
  BY DryRunNames DEF Settled
<1>6. spent' \in Nat
  BY <1>1 DEF Charged, TypeInv
<1>7. requests' \in [Members -> Nat] /\ \A p \in Members : requests'[p] = requests[p]
  BY <1>1 DEF TypeInv
<1>8. (TypeInv /\ AheadUntouched /\ CalledInHand /\ BehindJudged)' /\ pc' # "done"
  BY <1>1, <1>3, <1>4, <1>5, <1>6, <1>7, ConcludeStep
<1>9. Unwritten' /\ NeverAGuess'
  BY <1>1, <1>8, UnwrittenIsNoGuess DEF Unwritten, NeverAGuess, NoEdge
<1>10. SpentForCalls'
  <2>1. Called' = Called /\ Cardinality(Called) \in Nat
    BY <1>1, MembersFinite, FS_Subset, FS_CardinalityType DEF Called
  <2>2. QED
    BY <1>1, <2>1, ChargedStep
<1>11. QED
  BY <1>8, <1>9, <1>10

LEMMA WriteStep == ASSUME TailInv, Write PROVE TailInv'
<1> USE DEF TailInv
<1>1. /\ pc = "write" /\ pc' = "done" /\ attempt = 0
      /\ UNCHANGED <<next, attempt, spent, said, requests, outcome>>
      /\ edges' = [p \in Members |-> Written(p)]
      /\ rows' = [p \in Members |-> outcome[p].tier]
  BY DEF InHand, Write, money, TypeInv, CalledInHand
<1>2. (TypeInv /\ AheadUntouched /\ CalledInHand /\ BehindJudged /\ Unwritten)'
  BY <1>1 DEF InHand, TypeInv, AheadUntouched, CalledInHand, BehindJudged, Judged, Unwritten
<1>3. SpentForCalls'
  BY <1>1 DEF InHand, SpentForCalls, Called
<1>4. ASSUME NEW p \in Members
      PROVE  /\ edges'[p].relation # None =>
                  /\ said[p] \notin Failures \union {None}
                  /\ edges'[p].relation \in Verdicts /\ Names(said[p], edges'[p].relation)
             /\ rows'[p] = "human" => edges'[p].relation = None /\ edges'[p].reason # None
  <2>1. Judged(p)
    BY <1>1, PairFacts DEF TypeInv, BehindJudged
  <2>2. edges[p] = NoEdge
    BY <1>1 DEF Unwritten
  <2>3. /\ edges'[p].relation = (IF outcome[p].relation = None THEN None ELSE outcome[p].relation)
        /\ edges'[p].reason = (IF outcome[p].reason = None THEN None ELSE outcome[p].reason)
        /\ rows'[p] = outcome[p].tier
    <3>1. edges'[p] = Written(p) /\ rows'[p] = outcome[p].tier
      BY <1>1
    <3>2. DOMAIN edges[p] = {"relation", "confidence", "reason", "shadow"}
      BY <2>2 DEF NoEdge
    <3>3. edges[p].relation = None /\ edges[p].reason = None
      BY <2>2 DEF NoEdge
    <3>4. QED
      BY <3>1, <3>2, <3>3 DEF Written
  <2>4. CASE outcome[p].tier = "llm" /\ ~(outcome[p] \in {Rejected("LLM_ERROR"), Rejected("CAP_EXCEEDED")})
    BY <2>1, <2>3, <2>4 DEF Judged
  <2>5. CASE outcome[p] \in {Rejected("LLM_ERROR"), Rejected("CAP_EXCEEDED")}
    <3>1. /\ outcome[p].tier = "human" /\ outcome[p].relation = None
          /\ outcome[p].reason \in {"LLM_ERROR", "CAP_EXCEEDED"}
      BY <2>5 DEF Rejected
    <3>2. outcome[p].reason # None
      BY <3>1, TailAssumption
    <3>3. QED
      BY <2>3, <3>1, <3>2
  <2>6. QED
    BY <2>1, <2>4, <2>5 DEF Judged
<1>5. NeverAGuess'
  BY <1>1, <1>4 DEF NeverAGuess
<1>6. QED
  BY <1>2, <1>3, <1>5

LEMMA TailStep == ASSUME TailInv, [Next]_vars PROVE TailInv'
<1>1. CASE UNCHANGED vars
  BY <1>1 DEF InHand, vars, batch, money, TailInv, TypeInv, AheadUntouched, CalledInHand, BehindJudged,
              Judged, Unwritten, SpentForCalls, Called, NeverAGuess, ThisPair, CapReached
<1>2. QED
  BY <1>1, OpenDoorStep, RecordShadowStep, OverCapStep, PostStep, DryRunStep, WriteStep DEF Next

\* The inductive invariant of the batch.
THEOREM TailCorrect == Spec => []TailInv
<1>1. QED
  BY TailInit, TailStep, PTL DEF Spec

-----------------------------------------------------------------------------
(* The properties.                                                         *)

\* A pair is settled by an answer that names its verdict, and by nothing else;
\* a pair that goes to a human has no verdict and has its reason.
THEOREM NeverAGuessCorrect == Spec => []NeverAGuess
<1>1. TailInv => NeverAGuess
  BY DEF TailInv
<1>2. QED
  BY <1>1, TailCorrect, PTL

\* The pairs one execution calls, whether their calls succeed or not, and those
\* the queue says the tail had settled before it stay within the cap together.
THEOREM CalledWithinCapCorrect == Spec => []CalledWithinCap
<1>1. ASSUME TailInv, MaxLlmPairs # 0
      PROVE  Cardinality(Called) <= MaxOf(MaxLlmPairs - PriorLlmPairs, 0)
  <2>1. IsFiniteSet(Called) /\ Cardinality(Called) \in Nat
    BY MembersFinite, FS_Subset, FS_CardinalityType DEF Called
  <2>2. QED
    BY <1>1, <2>1, TailAssumption
    DEF InHand, TailInv, TypeInv, CalledInHand, SpentForCalls, CapReached, MaxOf
<1>2. TailInv => CalledWithinCap
  BY <1>1 DEF CalledWithinCap, Called
<1>3. QED
  BY <1>2, TailCorrect, PTL

\* Only after a lost or a throttled request is another one sent for its pair.
THEOREM AnsweredOnceCorrect == Spec => AnsweredOnce
<1> DEFINE Asked == \A p \in Members :
                      requests'[p] # requests[p] => said[p] \in Retryable \union {None}
<1>1. ASSUME TailInv, [Next]_vars PROVE [Asked]_vars
  <2>1. CASE Post
    <3>1. /\ ThisPair = Pairs[next] /\ next \in 1..Len(Pairs) /\ attempt \in Nat
          /\ requests' = [requests EXCEPT ![ThisPair] = @ + 1]
          /\ requests \in [Members -> Nat]
      BY <1>1, <2>1, PairFacts DEF TailInv, TypeInv, Post, ThisPair
    <3>2. said[ThisPair] \in Retryable \union {None}
      <4>1. CASE InHand
        BY <1>1, <2>1, <4>1 DEF TailInv, CalledInHand, Post
      <4>2. CASE ~InHand
        BY <1>1, <3>1, <4>2 DEF TailInv, AheadUntouched
      <4>3. QED
        BY <4>1, <4>2
    <3>3. QED
      BY <3>1, <3>2
  <2>2. CASE UNCHANGED requests
    BY <2>2
  <2>3. QED
    BY <1>1, <2>1, <2>2 DEF Next, money, OpenDoor, RecordShadow, OverCap, DryRun, Write
<1>2. QED
  BY <1>1, TailCorrect, PTL DEF Spec, AnsweredOnce
=============================================================================
