------------------------------ MODULE TailCalls ------------------------------
(***************************************************************************)
(* One batch of the escalation tail (run_g4) from the judge mode of its    *)
(* run to what is written of every pair: the door to the model, its        *)
(* retries, what it answers and how the answer is read.                    *)
(*                                                                         *)
(* PairCascade has the same batch between its crashes and leases and keeps *)
(* of a call only whether it settled its pair; here nothing crashes and a  *)
(* call is taken apart.                                                    *)
(***************************************************************************)
EXTENDS Integers, Sequences, FiniteSets

CONSTANTS
  Pairs,          \* the batch, a sequence
  Answers,        \* what a 200 may carry: a shape, and the items of its JSON,
                  \* None where an item is not an object
  Verdicts,       \* the members of Verdict
  MaxLlmPairs,    \* configSnapshot.g4; 0 is no cap
  PriorLlmPairs,  \* pairs the queue says the tail has settled (count_decided_by)
  RetryAttempts,  \* _RETRY_ATTEMPTS
  One,            \* the confidence 1.0 on this instance's scale
  DefaultMode,    \* gatekeeper.judge-mode-default
  NaN,            \* a confidence json.loads reads and that no comparison orders
  Huge,           \* a confidence that is an integer past the range of a float
  None

Modes == {"LLM", "SHADOW", "GATEKEEPER"}
Members == {Pairs[k] : k \in 1..Len(Pairs)}

\* Replies without a body to read: no connection, 429 or 5xx, another status.
NoBody(shape) == [shape |-> shape, items |-> <<>>]
Retryable == {NoBody("transport"), NoBody("throttled")}
Failures == Retryable \union {NoBody("fatal")}

\* The canned answer of DryRunVertexClient, confidence one half.
DryRunAnswer == [shape |-> "array", items |-> <<[relation |-> "NEUTRAL", confidence |-> One \div 2]>>]

ASSUME TailAssumption ==
  /\ Pairs \in Seq(Members) /\ Pairs # <<>>
  /\ \A j, k \in 1..Len(Pairs) : Pairs[j] = Pairs[k] => j = k
  /\ MaxLlmPairs \in Nat /\ PriorLlmPairs \in Nat
  /\ RetryAttempts \in Nat \ {0} /\ One \in Nat \ {0}
  /\ DefaultMode \in Modes /\ "NEUTRAL" \in Verdicts
  /\ Answers \cap Failures = {}
  /\ None \notin Answers \union {DryRunAnswer, DryRunAnswer.items[1]}
  /\ None \notin {"LLM_ERROR", "CAP_EXCEEDED"}
  /\ Huge \notin Int \union {NaN, None}

VARIABLES
  params,     \* judgeMode in the paramsSnapshot of the stage-3 run
  liveCalls,  \* gatekeeper.gates.g4.live-calls
  mode,       \* the run's judge mode
  pc, door, next, attempt, spent,   \* the batch loop
  said,       \* pair -> the last reply for it
  requests,   \* pair -> HTTP requests sent
  billed, counted,   \* answers the model charged for, and those in llmSpendUsd
  outcome,    \* pair -> what the batch decided, not yet written
  edges, rows \* pair -> its verdict row, and where its queue row is

batch == <<pc, door, next, attempt, spent>>
money == <<requests, billed, counted>>
vars == <<params, liveCalls, mode, batch, said, money, outcome, edges, rows>>

-----------------------------------------------------------------------------
(* The mode of the run and the door of the process.                        *)

\* Whatever keeps the judgeMode from being read counts as no judgeMode.
ResolveJudgeMode(found) == IF found \in Modes THEN found ELSE DefaultMode

ClientFor == IF liveCalls THEN "live" ELSE "dry-run"

-----------------------------------------------------------------------------
(* Reading an answer.                                                      *)

MaxOf(a, b) == IF a >= b THEN a ELSE b
MinOf(a, b) == IF a <= b THEN a ELSE b

\* min(max(c, 0.0), 1.0) keeps a NaN: every comparison with it is false.
Confidence(c) == IF c = None THEN 0
                 ELSE IF c = NaN THEN NaN
                 ELSE MinOf(MaxOf(c, 0), One)

\* Where the first of the items that are objects is, if any is.
FirstObject(items) ==
  {k \in DOMAIN items : items[k] # None /\ \A j \in 1..(k - 1) : items[j] = None}

Readable(answer) == answer.shape \in {"array", "object"} /\ FirstObject(answer.items) # {}

FirstOf(answer) == answer.items[CHOOSE k \in FirstObject(answer.items) : TRUE]

\* Mutant: an answer that names no verdict is read as NEUTRAL.
ParseLeniently(answer) ==
  LET first == FirstOf(answer)
  IN  IF ~Readable(answer) THEN None
      ELSE [relation |-> IF first.relation \in Verdicts THEN first.relation ELSE "NEUTRAL",
            confidence |-> Confidence(first.confidence)]

\* The verdict of an answer, or None where parse_g4_response raises a ValueError.
Parse(answer) ==
  LET first == FirstOf(answer)
  IN  IF ~Readable(answer) THEN None
      ELSE IF first.relation \notin Verdicts THEN None
      ELSE [relation |-> first.relation, confidence |-> Confidence(first.confidence)]

\* Where it raises an OverflowError instead: float() of the confidence of a verdict.
Overflows(answer) ==
  Readable(answer) /\ FirstOf(answer).relation \in Verdicts /\ FirstOf(answer).confidence = Huge

-----------------------------------------------------------------------------
(* The batch.                                                              *)

NoEdge == [relation |-> None, confidence |-> None, reason |-> None, shadow |-> None]

Settled(v) == [tier |-> "llm", relation |-> v.relation, confidence |-> v.confidence,
               reason |-> None]
Rejected(reason) == [tier |-> "human", relation |-> None, confidence |-> None,
                     reason |-> reason]

ThisPair == Pairs[next]
CapReached == MaxLlmPairs # 0 /\ spent >= MaxLlmPairs

\* The pair is dealt with; the loop goes on with the next one.
Concluded(result) ==
  /\ outcome' = [outcome EXCEPT ![ThisPair] = result]
  /\ next' = next + 1
  /\ attempt' = 0
  /\ pc' = IF next = Len(Pairs) THEN "write" ELSE "pair"

\* Mutant: a call that failed is not spent.
ChargedIfSettled == spent' = spent + IF outcome'[ThisPair].tier = "llm" THEN 1 ELSE 0

Charged == spent' = spent + 1

\* SHADOW records what the tail would have done, and calls nothing.
RecordShadow ==
  /\ pc = "claimed"
  /\ mode = "SHADOW"
  /\ edges' = [p \in Members |-> [edges[p] EXCEPT !.shadow = "WOULD_ESCALATE_LLM"]]
  /\ rows' = [p \in Members |-> "llm"]
  /\ pc' = "done"
  /\ UNCHANGED <<params, liveCalls, mode, door, next, attempt, spent, said, money, outcome>>

Refused == mode = "GATEKEEPER" /\ ClientFor = "dry-run"

OpenDoor ==
  /\ pc = "claimed"
  /\ mode # "SHADOW"
  /\ door' = ClientFor
  /\ pc' = IF Refused THEN "refused" ELSE "pair"
  /\ UNCHANGED <<params, liveCalls, mode, next, attempt, spent, said, money, outcome, edges, rows>>

OverCap ==
  /\ pc = "pair"
  /\ CapReached
  /\ Concluded(Rejected("CAP_EXCEEDED"))
  /\ UNCHANGED <<params, liveCalls, mode, door, spent, said, money, edges, rows>>

\* A backoff follows every attempt but the last.
MayRetry == attempt < RetryAttempts - 1

\* Mutant: an answer without text is tried again as if it were a 503.
TryAgainUnlessRead(reply) == (reply \in Retryable \/ reply.shape = "blank") /\ MayRetry

TryAgain(reply) == reply \in Retryable /\ MayRetry

\* One request of the live door, and what its reply makes of the pair.  What is
\* raised past the pair ends the execution.
Post ==
  /\ pc = "pair" /\ door = "live" /\ ~CapReached
  /\ \E reply \in Failures \union Answers :
       LET raised == reply \in Answers /\ Overflows(reply)
           verdict == IF reply \in Answers /\ ~raised THEN Parse(reply) ELSE None
       IN  /\ said' = [said EXCEPT ![ThisPair] = reply]
           /\ billed' = billed + IF reply \in Answers THEN 1 ELSE 0
           /\ counted' = counted + IF verdict # None THEN 1 ELSE 0
           /\ IF TryAgain(reply)
                THEN /\ attempt' = attempt + 1
                     /\ UNCHANGED <<pc, next, spent, outcome>>
              ELSE IF raised
                THEN /\ pc' = "raised"
                     /\ UNCHANGED <<next, attempt, spent, outcome>>
              ELSE /\ Concluded(IF verdict = None THEN Rejected("LLM_ERROR")
                                ELSE Settled(verdict))
                   /\ Charged
  /\ requests' = [requests EXCEPT ![ThisPair] = @ + 1]
  /\ UNCHANGED <<params, liveCalls, mode, door, edges, rows>>

\* The double answers without a request, and costs nothing.
DryRun ==
  /\ pc = "pair" /\ door = "dry-run" /\ ~CapReached
  /\ said' = [said EXCEPT ![ThisPair] = DryRunAnswer]
  /\ Concluded(Settled(Parse(DryRunAnswer)))
  /\ Charged
  /\ UNCHANGED <<params, liveCalls, mode, door, money, edges, rows>>

\* The document of an outcome: a field with no value is left alone.
Written(p) ==
  LET o == outcome[p]
  IN  [edges[p] EXCEPT !.relation = IF o.relation = None THEN @ ELSE o.relation,
                       !.confidence = IF o.confidence = None THEN @ ELSE o.confidence,
                       !.reason = IF o.reason = None THEN @ ELSE o.reason]

Write ==
  /\ pc = "write"
  /\ edges' = [p \in Members |-> Written(p)]
  /\ rows' = [p \in Members |-> outcome[p].tier]
  /\ pc' = "done"
  /\ UNCHANGED <<params, liveCalls, mode, door, next, attempt, spent, said, money, outcome>>

Init ==
  /\ params \in Modes \union {None}
  /\ liveCalls \in BOOLEAN
  /\ mode = ResolveJudgeMode(params)
  /\ pc = "claimed"
  /\ door = None
  /\ next = 1
  /\ attempt = 0
  /\ spent = PriorLlmPairs
  /\ said = [p \in Members |-> None]
  /\ requests = [p \in Members |-> 0]
  /\ billed = 0
  /\ counted = 0
  /\ outcome = [p \in Members |-> None]
  /\ edges = [p \in Members |-> NoEdge]
  /\ rows = [p \in Members |-> "G4"]

Next == RecordShadow \/ OpenDoor \/ OverCap \/ Post \/ DryRun \/ Write

Spec == Init /\ [][Next]_vars

-----------------------------------------------------------------------------
(* Properties.                                                             *)

(***************************************************************************)
(* A verdict is the model's: a pair is settled only by an answer that has  *)
(* an object naming that verdict, and anything less goes to a human with   *)
(* its reason (prompts.py: "a failure, never a guess").                    *)
(***************************************************************************)
Names(answer, relation) ==
  \E k \in DOMAIN answer.items :
    answer.items[k] # None /\ answer.items[k].relation = relation

NeverAGuess ==
  \A p \in Members :
    /\ edges[p].relation # None =>
         /\ said[p] \notin Failures \union {None}
         /\ edges[p].relation \in Verdicts /\ Names(said[p], edges[p].relation)
    /\ rows[p] = "human" => edges[p].relation = None /\ edges[p].reason # None

(***************************************************************************)
(* A pair whose call was answered is not asked again, and neither is one   *)
(* the model refused: only a lost or a throttled request is repeated.      *)
(***************************************************************************)
AnsweredOnce ==
  [][\A p \in Members :
       requests'[p] # requests[p] => said[p] \in Retryable \union {None}]_vars

(***************************************************************************)
(* The pairs one execution calls, those whose call fails included, and the *)
(* pairs that were settled before it together stay within the cap (g4.py:  *)
(* the ceiling is about spend, not about successes).  Calls of earlier     *)
(* executions that failed, or whose rows were not routed, are not counted  *)
(* by the code, nor here (CallsWithinCap in DocumentedCascadeClaims).      *)
(***************************************************************************)
CalledWithinCap ==
  MaxLlmPairs # 0 =>
    Cardinality({p \in Members : requests[p] > 0}) <= MaxOf(MaxLlmPairs - PriorLlmPairs, 0)
=============================================================================
