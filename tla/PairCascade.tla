----------------------------- MODULE PairCascade -----------------------------
(***************************************************************************)
(* The cascade over the pairs of one stage-3 run: the pair queue           *)
(* (gatekeeper_pairs), the verdict rows (stage3_edges), the four gate      *)
(* runners that move pairs from gate to gate, and FINALIZE.                *)
(*                                                                         *)
(* Both collections are keyed by the stage-3 run, so the workers of every  *)
(* gatekeeper run of that stage-3 run write the same rows: the holder of a *)
(* gate lease, workers that have lost theirs, and workers of a superseded  *)
(* run.  A gate runner is a sequence of separate reads, batch writes and   *)
(* transactions; each is a step here, and a crash or a stall may come      *)
(* between any two.                                                        *)
(*                                                                         *)
(* The run documents appear as far as workers see them: the gate the       *)
(* cascade has reached and its lease.  GatekeeperRuns models how messages  *)
(* and sweeps move them.  What the models answer is abstracted to the      *)
(* outcome the gate's decision function draws from it.                     *)
(***************************************************************************)
EXTENDS Naturals, FiniteSets

CONSTANTS
  NumPairs,        \* pairs of the stage-3 run, in rank order
  NumRuns,         \* bound: FROM_START runs opened, in this order
  Owner,           \* worker identities; one that is not in use stands for a fresh one
  None,            \* Python's None
  BatchSize,       \* gatekeeper.queue.batch-size
  OverFetch,       \* claim_batch reads so many candidates per pair it leases (4)
  MaxLlmPairs,     \* configSnapshot.g4.maxLlmPairs; 0 is no cap
  JudgeModes,      \* the judge modes a run may be created with
  Scores,          \* what the encoders may say of a pair
  MaxAttempts,     \* bound: claims of one gate of one run
  MaxTaskRetries,  \* retries of a worker task by Cloud Run
  MaxFaults        \* bounds: crashes, stalls and gate errors

Gate == 1..4                  \* G1_NEUTRAL .. G4_ESCALATION
Left == 0                     \* QueuedPair.gate is None: the pair left the cascade
Pair == 1..NumPairs
Run == 1..NumRuns

\* The outcome each encoder gate draws for a pair.  Both families must see a
\* contradiction before a human does, so HUMAN implies G1 flagged the pair.
Score == [g1: {"NEUTRAL", "REPEATS", "FORWARD", "FLAG", "ESCALATE"},
          g2: {"CORROBORATES", "FORWARD"},
          g3: {"NEUTRAL", "HUMAN", "ESCALATE"}]

ASSUME SizesAssumption  == /\ NumPairs \in Nat \ {0}
                           /\ NumRuns \in Nat \ {0}
                           /\ BatchSize \in Nat \ {0}
                           /\ OverFetch \in Nat \ {0}
                           /\ MaxLlmPairs \in Nat
                           /\ MaxAttempts \in Nat \ {0}
                           /\ MaxTaskRetries \in Nat
ASSUME OwnerAssumption  == None \notin Owner
ASSUME ModesAssumption  == JudgeModes \subseteq {"GATEKEEPER", "SHADOW"}
ASSUME ScoresAssumption == /\ Scores \subseteq Score
                           /\ \A s \in Scores : s.g3 = "HUMAN" => s.g1 = "FLAG"
ASSUME FaultsAssumption == MaxFaults \in [{"crash", "stall", "error"} -> Nat]

VARIABLES
  score,    \* what the encoders say of each pair
  docs,     \* the run documents, as far as a worker sees them
  rows,     \* the pair queue
  edges,    \* the verdict rows
  worker,   \* the gate executions
  calls,    \* LLM calls made so far for each run
  faults    \* faults injected so far

vars == <<score, docs, rows, edges, worker, calls, faults>>

-----------------------------------------------------------------------------
(* State.                                                                  *)

Method == {"GK_G1_NLI", "GK_G2_GROUNDING", "GK_G3_XCHECK", "GK_G4_LLM"}
GateMethod == <<"GK_G1_NLI", "GK_G2_GROUNDING", "GK_G3_XCHECK", "GK_G4_LLM">>
Verdict == {"NEUTRAL", "REPEATS", "CORROBORATES", "CONTRADICTS"}
Reason == {"CONTEXT_DISAGREEMENT", "CONTRADICTION_SIGNAL", "STAGE_DISAGREEMENT",
           "CAP_EXCEEDED", "LLM_ERROR"}
Tier == {"CASCADE", "LLM_TAIL", "HUMAN"}

ASSUME NoneAssumption == None \notin Method \union Verdict \union Reason

\* gate is the first gate that has not SUCCEEDED; the gates before it have.
Doc == [state: {"ABSENT", "RUNNING", "SUCCEEDED", "FAILED", "SUPERSEDED"},
        gate: 1..5, gateState: {"PENDING", "RUNNING", "FAILED"},
        holder: Owner \union {None}, live: BOOLEAN, attempt: 0..MaxAttempts,
        mode: JudgeModes \union {None}]

AbsentDoc == [state |-> "ABSENT", gate |-> 1, gateState |-> "PENDING",
              holder |-> None, live |-> FALSE, attempt |-> 0, mode |-> None]

Row == [seeded: BOOLEAN, gate: Gate \union {Left}, tier: Tier, flag: BOOLEAN,
        decidedBy: Method \union {None}, run: Run \union {None},
        owner: Owner \union {None}, live: BOOLEAN]

\* What seed writes, and what reset takes a row back to.
HeadOfCascade == [seeded |-> TRUE, gate |-> 1, tier |-> "CASCADE", flag |-> FALSE,
                  decidedBy |-> None, run |-> None, owner |-> None, live |-> FALSE]
Unseeded == [HeadOfCascade EXCEPT !.seeded = FALSE]

\* method is None while there is no row; g1 says whether stageScores.g1 is there.
Edge == [method: Method \union {None}, run: Run \union {None},
         relation: Verdict \union {None}, reason: Reason \union {None}, g1: BOOLEAN]
NoEdge == [method |-> None, run |-> None, relation |-> None, reason |-> None, g1 |-> FALSE]

\* One gate's decision on one pair: what it writes and where the pair goes.
Outcome == [verdict: Verdict \union {None}, reason: Reason \union {None},
            gate: Gate \union {Left}, tier: Tier, decidedBy: Method \union {None}]

Pc == {"idle", "launched", "purge", "reset", "seed", "renew", "lease", "batch",
       "judged", "written", "settle", "finalize", "reconciled", "stranded", "down"}
IdleWorker == [pc |-> "idle", run |-> None, gate |-> 1, retries |-> 0, spent |-> 0,
               batch |-> {}, flagged |-> {}, outcome |-> <<>>]

-----------------------------------------------------------------------------
(* The decisions, as _write_outcomes and _routing record them.             *)

Decided(m, v) == [verdict |-> v, reason |-> None, gate |-> Left, tier |-> "CASCADE",
                  decidedBy |-> m]
Forwarded(g)  == [verdict |-> None, reason |-> None, gate |-> g, tier |-> "CASCADE",
                  decidedBy |-> None]
Escalated(r)  == [verdict |-> None, reason |-> r, gate |-> 4, tier |-> "LLM_TAIL",
                  decidedBy |-> None]
ToHuman(v, r) == [verdict |-> v, reason |-> r, gate |-> Left, tier |-> "HUMAN",
                  decidedBy |-> None]
Tailed(v, m)  == [verdict |-> v, reason |-> None, gate |-> Left, tier |-> "LLM_TAIL",
                  decidedBy |-> m]

G1Outcome == [NEUTRAL  |-> Decided("GK_G1_NLI", "NEUTRAL"),
              REPEATS  |-> Decided("GK_G1_NLI", "REPEATS"),
              FORWARD  |-> Forwarded(2),
              FLAG     |-> Forwarded(2),
              ESCALATE |-> Escalated("CONTEXT_DISAGREEMENT")]
G2Outcome == [CORROBORATES |-> Decided("GK_G2_GROUNDING", "CORROBORATES"),
              FORWARD      |-> Forwarded(3)]
\* Mutant: where the second family sees no contradiction there is none.
G3OutcomeOneFamily == [NEUTRAL  |-> Decided("GK_G3_XCHECK", "NEUTRAL"),
                       HUMAN    |-> ToHuman("CONTRADICTS", "CONTRADICTION_SIGNAL"),
                       ESCALATE |-> Decided("GK_G3_XCHECK", "NEUTRAL")]

G3Outcome == [NEUTRAL  |-> Decided("GK_G3_XCHECK", "NEUTRAL"),
              HUMAN    |-> ToHuman("CONTRADICTS", "CONTRADICTION_SIGNAL"),
              ESCALATE |-> Escalated("STAGE_DISAGREEMENT")]

EncoderOutcome(g, s) == CASE g = 1 -> G1Outcome[s.g1]
                          [] g = 2 -> G2Outcome[s.g2]
                          [] g = 3 -> G3Outcome[s.g3]

\* contradictionFlag after the gate: G1 sets or clears it, G3 sets it for a human.
FlagAfter(g, p, out) == CASE g = 1 -> score[p].g1 = "FLAG"
                          [] g = 3 /\ out.tier = "HUMAN" -> TRUE
                          [] OTHER -> rows[p].flag

-----------------------------------------------------------------------------
(* The run documents.                                                      *)

Fault(kind) == /\ faults[kind] < MaxFaults[kind]
               /\ faults' = [faults EXCEPT ![kind] = @ + 1]

\* An identity nothing in the system remembers: a fresh one.
Fresh(o) == /\ worker[o].pc = "idle"
            /\ \A k \in Run : docs[k].holder # o
            /\ \A p \in Pair : rows[p].owner # o

Launched(o, k, g) == worker' = [worker EXCEPT ![o] =
                       [IdleWorker EXCEPT !.pc = "launched", !.run = k, !.gate = g]]

\* FROM_START: the claim that creates the document also supersedes the open runs.
OpenRun(k, o) ==
  /\ docs[k].state = "ABSENT"
  /\ \A j \in Run : j < k => docs[j].state # "ABSENT"
  /\ Fresh(o)
  /\ \E mode \in JudgeModes :
       docs' = [j \in Run |->
                  IF j = k THEN [state |-> "RUNNING", gate |-> 1, gateState |-> "RUNNING",
                                 holder |-> o, live |-> TRUE, attempt |-> 1, mode |-> mode]
                  ELSE IF docs[j].state = "RUNNING" THEN [docs[j] EXCEPT !.state = "SUPERSEDED"]
                  ELSE docs[j]]
  /\ Launched(o, k, 1)
  /\ UNCHANGED <<score, rows, edges, calls, faults>>

\* Mutant: an expired lease is never taken over.
ClaimGateUnleased(k, o) ==
  LET d == docs[k] IN
  /\ d.state \in {"RUNNING", "FAILED"}
  /\ d.gate \in Gate
  /\ d.gateState # "RUNNING"
  /\ d.attempt < MaxAttempts
  /\ Fresh(o)
  /\ docs' = [docs EXCEPT ![k] = [state |-> "RUNNING", gate |-> d.gate,
                                  gateState |-> "RUNNING", holder |-> o, live |-> TRUE,
                                  attempt |-> d.attempt + 1, mode |-> d.mode]]
  /\ Launched(o, k, d.gate)
  /\ UNCHANGED <<score, rows, edges, calls, faults>>

\* The gate the run has reached is claimed: a chain message for a PENDING gate,
\* a rescue of an expired one, or FROM_GATE for a FAILED or an expired one.
ClaimGate(k, o) ==
  LET d == docs[k] IN
  /\ d.state \in {"RUNNING", "FAILED"}
  /\ d.gate \in Gate
  /\ d.gateState = "RUNNING" => ~d.live
  /\ d.attempt < MaxAttempts
  /\ Fresh(o)
  /\ docs' = [docs EXCEPT ![k] = [state |-> "RUNNING", gate |-> d.gate,
                                  gateState |-> "RUNNING", holder |-> o, live |-> TRUE,
                                  attempt |-> d.attempt + 1, mode |-> d.mode]]
  /\ Launched(o, k, d.gate)
  /\ UNCHANGED <<score, rows, edges, calls, faults>>

Holds(o) == LET d == docs[worker[o].run] IN
  d.gate = worker[o].gate /\ d.gateState = "RUNNING" /\ d.holder = o

Gone(o) == worker[o].pc = "idle"

LeasedBy(o) == {p \in Pair : rows[p].live /\ rows[p].owner = o}

Lapse(S) == rows' = [p \in Pair |-> IF p \in S THEN [rows[p] EXCEPT !.live = FALSE] ELSE rows[p]]

\* The gate lease is renewed before every batch and lasts six times as long as
\* the pair leases, so it lapses when the worker is gone, out of retries, or has
\* stood still, and the worker's pair leases have lapsed by then.
GateLeaseExpires(k) ==
  /\ docs[k].gateState = "RUNNING" /\ docs[k].live
  /\ IF Gone(docs[k].holder) THEN LeasedBy(docs[k].holder) = {} /\ UNCHANGED faults
                             ELSE Fault("stall")
  /\ docs' = [docs EXCEPT ![k].live = FALSE]
  /\ Lapse(LeasedBy(docs[k].holder))
  /\ UNCHANGED <<score, edges, worker, calls>>

\* Pair leases an earlier execution left behind lapse by themselves.
LeftLeasesExpire(o) ==
  LET left == LeasedBy(o) \ worker[o].batch IN
  /\ left # {}
  /\ Lapse(left)
  /\ UNCHANGED <<score, docs, edges, worker, calls, faults>>

\* A worker stands still for longer than the pair leases of its batch.
Stall(o) ==
  /\ LeasedBy(o) \cap worker[o].batch # {}
  /\ Fault("stall")
  /\ Lapse(LeasedBy(o))
  /\ UNCHANGED <<score, docs, edges, worker, calls>>

-----------------------------------------------------------------------------
(* One gate execution.                                                     *)

Goto(o, pc) == worker' = [worker EXCEPT ![o].pc = pc]

\* Exit zero.  The task is not retried.
Exit(o) == worker' = [worker EXCEPT ![o] = IdleWorker]

\* Exit non-zero, or crash: Cloud Run retries the task while it has retries.
Stop(o) == worker' = [worker EXCEPT ![o] =
  IF worker[o].retries < MaxTaskRetries
    THEN [IdleWorker EXCEPT !.pc = "down", !.run = worker[o].run, !.gate = worker[o].gate,
                            !.retries = worker[o].retries]
    ELSE IdleWorker]

TaskRetry(o) ==
  /\ worker[o].pc = "down"
  /\ worker' = [worker EXCEPT ![o].pc = "launched", ![o].retries = @ + 1]
  /\ UNCHANGED <<score, docs, rows, edges, calls, faults>>

Crash(o) ==
  /\ worker[o].pc \notin {"idle", "down"}
  /\ Fault("crash")
  /\ Stop(o)
  /\ UNCHANGED <<score, docs, rows, edges, calls>>

\* What count_decided_by(GK_G4_LLM) finds.
Settled == Cardinality({p \in Pair : rows[p].seeded /\ rows[p].decidedBy = "GK_G4_LLM"})

\* Mutant: the tail's budget restarts with every execution.
LoadRunWithFreshBudget(o) ==
  /\ worker[o].pc = "launched"
  /\ IF ~Holds(o) THEN Stop(o)
     ELSE Goto(o, CASE worker[o].gate > 1 -> "renew"
                    [] worker[o].gate = 1 /\ docs[worker[o].run].attempt <= 1 -> "purge"
                    [] OTHER -> "seed")
  /\ UNCHANGED <<score, docs, rows, edges, calls, faults>>

\* run_gate reads the document and enters the runner: G1 starts with its setup,
\* and only the first attempt purges; G4 reads what the tail has settled.
LoadRun(o) ==
  /\ worker[o].pc = "launched"
  /\ IF ~Holds(o) THEN Stop(o)
     ELSE worker' = [worker EXCEPT
            ![o].pc = CASE worker[o].gate > 1 -> "renew"
                        [] worker[o].gate = 1 /\ docs[worker[o].run].attempt <= 1 -> "purge"
                        [] OTHER -> "seed",
            ![o].spent = IF worker[o].gate = 4 THEN Settled ELSE 0]
  /\ UNCHANGED <<score, docs, rows, edges, calls, faults>>

\* edges.purge: every gatekeeper verdict of the stage-3 run.
Purge(o) ==
  /\ worker[o].pc = "purge"
  /\ edges' = [p \in Pair |-> NoEdge]
  /\ Goto(o, "reset")
  /\ UNCHANGED <<score, docs, rows, calls, faults>>

\* queue.reset: every row there is goes back to the head of the cascade.
Reset(o) ==
  /\ worker[o].pc = "reset"
  /\ rows' = [p \in Pair |-> IF rows[p].seeded THEN HeadOfCascade ELSE rows[p]]
  /\ Goto(o, "seed")
  /\ UNCHANGED <<score, docs, edges, calls, faults>>

\* queue.seed: only the missing rows.
Seed(o) ==
  /\ worker[o].pc = "seed"
  /\ rows' = [p \in Pair |-> IF rows[p].seeded THEN rows[p] ELSE HeadOfCascade]
  /\ Goto(o, "renew")
  /\ UNCHANGED <<score, docs, edges, calls, faults>>

\* The top of the batch loop.  A worker that lost its lease leaves the loop.
Renew(o) ==
  LET k == worker[o].run IN
  /\ worker[o].pc = "renew"
  /\ IF docs[k].state = "RUNNING" /\ Holds(o)
       THEN docs' = [docs EXCEPT ![k].live = TRUE] /\ Goto(o, "lease")
       ELSE UNCHANGED docs /\ Goto(o, "settle")
  /\ UNCHANGED <<score, rows, edges, calls, faults>>

First(n, S) == {p \in S : Cardinality({q \in S : q < p}) < n}

\* The candidates of claim_batch without a live lease: the worker's own
\* earlier leases count as leases too, and so many leased ones hide a free one.
Free(g) == LET atGate == {p \in Pair : rows[p].seeded /\ rows[p].gate = g}
               candidates == First(OverFetch * BatchSize, atGate)
           IN  {p \in candidates : ~rows[p].live}

\* claim_batch: an empty batch ends the loop.
LeaseBatch(o) ==
  LET batch == First(BatchSize, Free(worker[o].gate)) IN
  /\ worker[o].pc = "lease"
  /\ rows' = [p \in Pair |-> IF p \in batch THEN [rows[p] EXCEPT !.owner = o, !.live = TRUE]
                                            ELSE rows[p]]
  /\ worker' = [worker EXCEPT ![o].pc = IF batch = {} THEN "settle" ELSE "batch",
                              ![o].batch = batch,
                              ![o].flagged = {p \in batch : rows[p].flag}]
  /\ UNCHANGED <<score, docs, edges, calls, faults>>

\* Mutant: the route is written whatever has become of the row.
StillOwnedAlways(o, p) == rows[p].seeded

\* The row is at the gate it was leased at and carries this worker's lease,
\* lapsed or not.
StillOwned(o, p) == rows[p].seeded /\ rows[p].gate = worker[o].gate /\ rows[p].owner = o

\* Mutant: routing leaves the lease on the row.
RoutedStillLeased(p, out, o) ==
  [seeded |-> TRUE, gate |-> out.gate, tier |-> out.tier,
   flag |-> FlagAfter(worker[o].gate, p, out),
   decidedBy |-> out.decidedBy, run |-> worker[o].run,
   owner |-> rows[p].owner, live |-> rows[p].live]

\* A routing update clears the lease.
Routed(p, out, o) == [seeded |-> TRUE, gate |-> out.gate, tier |-> out.tier,
                      flag |-> FlagAfter(worker[o].gate, p, out),
                      decidedBy |-> out.decidedBy, run |-> worker[o].run,
                      owner |-> None, live |-> FALSE]

\* G2 moves the flagged pairs of its batch on before it judges the others.
PassThrough(o) ==
  LET rest == worker[o].batch \ worker[o].flagged IN
  /\ worker[o].pc = "batch"
  /\ worker[o].gate = 2
  /\ worker[o].flagged # {}
  /\ rows' = [p \in Pair |-> IF p \in worker[o].flagged /\ StillOwned(o, p)
                               THEN Routed(p, Forwarded(3), o) ELSE rows[p]]
  /\ worker' = [worker EXCEPT ![o].pc = IF rest = {} THEN "renew" ELSE "batch",
                              ![o].batch = rest, ![o].flagged = {}]
  /\ UNCHANGED <<score, docs, edges, calls, faults>>

\* G3 stops when a pair of its batch has no scores of the first family.
FamilyAMissing(o) == worker[o].gate = 3 /\ \E p \in worker[o].batch : ~edges[p].g1

\* Mutant: G2 judges the flagged pairs too.
JudgeEncoderFlagged(o) ==
  /\ worker[o].pc = "batch"
  /\ worker[o].gate < 4
  /\ ~FamilyAMissing(o)
  /\ worker' = [worker EXCEPT ![o].pc = "judged", ![o].flagged = {},
       ![o].outcome = [p \in worker[o].batch |-> EncoderOutcome(worker[o].gate, score[p])]]
  /\ UNCHANGED <<score, docs, rows, edges, calls, faults>>

JudgeEncoder(o) ==
  /\ worker[o].pc = "batch"
  /\ worker[o].gate < 4
  /\ worker[o].gate = 2 => worker[o].flagged = {}
  /\ ~FamilyAMissing(o)
  /\ worker' = [worker EXCEPT ![o].pc = "judged", ![o].flagged = {},
       ![o].outcome = [p \in worker[o].batch |-> EncoderOutcome(worker[o].gate, score[p])]]
  /\ UNCHANGED <<score, docs, rows, edges, calls, faults>>

\* The pairs of the batch the budget still allows a call for.
Callable(o) == IF MaxLlmPairs = 0 THEN worker[o].batch
               ELSE IF worker[o].spent >= MaxLlmPairs THEN {}
               ELSE First(MaxLlmPairs - worker[o].spent, worker[o].batch)

InShadow(o) == docs[worker[o].run].mode = "SHADOW"

\* A call settles its pair or fails; a failed call is spent as well.
JudgeTail(o) ==
  LET called == IF InShadow(o) THEN {} ELSE Callable(o) IN
  /\ worker[o].pc = "batch"
  /\ worker[o].gate = 4
  /\ \E answered \in SUBSET called :
       worker' = [worker EXCEPT ![o].pc = "judged", ![o].flagged = {},
         ![o].spent = @ + Cardinality(called),
         ![o].outcome = [p \in worker[o].batch |->
            CASE InShadow(o)   -> Tailed(None, None)
              [] p \in answered -> Tailed("NEUTRAL", "GK_G4_LLM")
              [] p \in called \ answered -> ToHuman(None, "LLM_ERROR")
              [] OTHER         -> ToHuman(None, "CAP_EXCEEDED")]]
  /\ calls' = [calls EXCEPT ![worker[o].run] = @ + Cardinality(called)]
  /\ UNCHANGED <<score, docs, rows, edges, faults>>

\* Mutant: the mode of the run is ignored.
MergedInFull(e, out, o) ==
  [method |-> GateMethod[worker[o].gate], run |-> worker[o].run,
   relation |-> IF out.verdict = None THEN e.relation ELSE out.verdict,
   reason |-> IF out.reason = None THEN e.reason ELSE out.reason,
   g1 |-> e.g1 \/ worker[o].gate = 1]

\* A merge: a field the gate has no value for keeps the value it had.  In SHADOW
\* mode only the identity, the scores and the shadow map are written.
Merged(e, out, o) ==
  [method |-> GateMethod[worker[o].gate], run |-> worker[o].run,
   relation |-> IF InShadow(o) \/ out.verdict = None THEN e.relation ELSE out.verdict,
   reason |-> IF InShadow(o) \/ out.reason = None THEN e.reason ELSE out.reason,
   g1 |-> e.g1 \/ worker[o].gate = 1]

\* edges.write_all: an upsert nothing guards.
WriteEdges(o) ==
  /\ worker[o].pc = "judged"
  /\ edges' = [p \in Pair |-> IF p \in worker[o].batch
                                THEN Merged(edges[p], worker[o].outcome[p], o) ELSE edges[p]]
  /\ Goto(o, "written")
  /\ UNCHANGED <<score, docs, rows, calls, faults>>

\* Mutant: the queue moves before the verdicts are written.
RouteFirst(o) ==
  /\ worker[o].pc = "judged"
  /\ rows' = [p \in Pair |-> IF p \in worker[o].batch /\ StillOwned(o, p)
                               THEN Routed(p, worker[o].outcome[p], o) ELSE rows[p]]
  /\ worker' = [worker EXCEPT ![o].pc = "renew", ![o].batch = {}, ![o].outcome = <<>>]
  /\ UNCHANGED <<score, docs, edges, calls, faults>>

\* queue.route_all: the rows this worker still owns.
Route(o) ==
  /\ worker[o].pc = "written"
  /\ rows' = [p \in Pair |-> IF p \in worker[o].batch /\ StillOwned(o, p)
                               THEN Routed(p, worker[o].outcome[p], o) ELSE rows[p]]
  /\ worker' = [worker EXCEPT ![o].pc = "renew", ![o].batch = {}, ![o].outcome = <<>>]
  /\ UNCHANGED <<score, docs, edges, calls, faults>>

MaySettle(o) == docs[worker[o].run].state # "SUPERSEDED" /\ Holds(o)

\* The graph, the models or the queue raise a GatekeeperError inside the runner.
FailGate(o) ==
  LET k == worker[o].run IN
  /\ worker[o].pc \in {"purge", "seed", "renew", "batch"}
  /\ \/ worker[o].pc = "batch" /\ FamilyAMissing(o) /\ UNCHANGED faults
     \/ Fault("error")
  /\ docs' = IF MaySettle(o)
               THEN [docs EXCEPT ![k] = [@ EXCEPT !.state = "FAILED", !.gateState = "FAILED",
                                                  !.holder = None, !.live = FALSE]]
               ELSE docs
  /\ Stop(o)
  /\ UNCHANGED <<score, rows, edges, calls>>

\* The gate is committed, and the cascade moves on to the next one.
CommitGate(o) ==
  LET k == worker[o].run IN
  /\ worker[o].pc = "settle"
  /\ MaySettle(o)
  /\ docs' = [docs EXCEPT ![k] = [docs[k] EXCEPT !.gate = @ + 1, !.gateState = "PENDING",
                                                 !.holder = None, !.live = FALSE, !.attempt = 0]]
  /\ IF worker[o].gate = 4 THEN Goto(o, "finalize") ELSE Exit(o)
  /\ UNCHANGED <<score, rows, edges, calls, faults>>

\* The commit was refused: somebody else has the gate, or the run is superseded.
CommitRefused(o) ==
  /\ worker[o].pc = "settle"
  /\ ~MaySettle(o)
  /\ Stop(o)
  /\ UNCHANGED <<score, docs, rows, edges, calls, faults>>

\* Mutant: a pair at a gate is counted, and nothing more.
ReconcilesAnyway == \A p \in Pair : rows[p].seeded => rows[p].tier \in Tier

\* What tally counts: every row has left the cascade, to a human, through the
\* tail, or decided by an encoder gate.
Reconciles ==
  \A p \in Pair : rows[p].seeded =>
    /\ rows[p].gate = Left
    /\ \/ rows[p].tier \in {"HUMAN", "LLM_TAIL"}
       \/ rows[p].decidedBy \in {"GK_G1_NLI", "GK_G2_GROUNDING", "GK_G3_XCHECK"}

\* FINALIZE reads the queue ...
TallyRows(o) ==
  /\ worker[o].pc = "finalize"
  /\ Goto(o, IF Reconciles THEN "reconciled" ELSE "stranded")
  /\ UNCHANGED <<score, docs, rows, edges, calls, faults>>

\* ... and then settles the run, unless it is no longer RUNNING.
Finalize(o) ==
  LET k == worker[o].run
      outcome == IF worker[o].pc = "reconciled" THEN "SUCCEEDED" ELSE "FAILED"
  IN
  /\ worker[o].pc \in {"reconciled", "stranded"}
  /\ docs' = IF docs[k].state = "RUNNING" THEN [docs EXCEPT ![k].state = outcome] ELSE docs
  /\ IF worker[o].pc = "reconciled" THEN Exit(o) ELSE Stop(o)
  /\ UNCHANGED <<score, rows, edges, calls, faults>>

-----------------------------------------------------------------------------

Init ==
  /\ score \in [Pair -> Scores]
  /\ docs = [k \in Run |-> AbsentDoc]
  /\ rows = [p \in Pair |-> Unseeded]
  /\ edges = [p \in Pair |-> NoEdge]
  /\ worker = [o \in Owner |-> IdleWorker]
  /\ calls = [k \in Run |-> 0]
  /\ faults = [kind \in {"crash", "stall", "error"} |-> 0]

RunGate(o) ==
  \/ LoadRun(o) \/ Purge(o) \/ Reset(o) \/ Seed(o) \/ Renew(o) \/ LeaseBatch(o)
  \/ PassThrough(o) \/ JudgeEncoder(o) \/ JudgeTail(o) \/ WriteEdges(o) \/ Route(o)
  \/ FailGate(o) \/ CommitGate(o) \/ CommitRefused(o) \/ TallyRows(o) \/ Finalize(o)

Next ==
  \/ \E k \in Run, o \in Owner : OpenRun(k, o) \/ ClaimGate(k, o)
  \/ \E k \in Run : GateLeaseExpires(k)
  \/ \E o \in Owner : \/ RunGate(o) \/ Crash(o) \/ TaskRetry(o)
                      \/ LeftLeasesExpire(o) \/ Stall(o)

Spec == Init /\ [][Next]_vars

(***************************************************************************)
(* An execution that does not crash runs on and Cloud Run retries a failed *)
(* task; the lease of a worker that is gone lapses; chain messages and     *)
(* sweeps have the gate that was reached claimed.                          *)
(***************************************************************************)
Fairness ==
  /\ \A o \in Owner : WF_vars(RunGate(o)) /\ WF_vars(TaskRetry(o))
  /\ \A k \in Run : WF_vars(GateLeaseExpires(k) /\ Gone(docs[k].holder))
  /\ \A o \in Owner : WF_vars(LeftLeasesExpire(o))
  /\ \A k \in Run : WF_vars(docs[k].state = "RUNNING" /\ \E o \in Owner : ClaimGate(k, o))

FairSpec == Spec /\ Fairness

-----------------------------------------------------------------------------
(* Properties.                                                             *)

(***************************************************************************)
(* Every variable has its type.                                            *)
(***************************************************************************)
WorkerTypeOK(o) ==
  LET w == worker[o] IN
  /\ w.pc \in Pc
  /\ w.run \in Run \union {None}
  /\ w.gate \in Gate
  /\ w.retries \in 0..MaxTaskRetries
  /\ w.spent \in Nat
  /\ w.batch \subseteq Pair
  /\ w.flagged \subseteq w.batch
  /\ \A p \in DOMAIN w.outcome : w.outcome[p] \in Outcome

TypeOK ==
  /\ score \in [Pair -> Scores]
  /\ docs \in [Run -> Doc]
  /\ rows \in [Pair -> Row]
  /\ edges \in [Pair -> Edge]
  /\ \A o \in Owner : WorkerTypeOK(o)
  /\ calls \in [Run -> Nat]
  /\ \A kind \in DOMAIN faults : faults[kind] <= MaxFaults[kind]

(***************************************************************************)
(* The escape hatch: a pair in which G1 sees a contradiction reaches G3    *)
(* with its flag, and G2, which would have corroborated it, neither        *)
(* settles it nor writes a verdict for it (gates/g2.py).                   *)
(***************************************************************************)
EscapeHatch ==
  \A p \in Pair : score[p].g1 = "FLAG" =>
    /\ rows[p].gate \in {2, 3} => rows[p].flag
    /\ rows[p].decidedBy # "GK_G2_GROUNDING"
    /\ edges[p].method # "GK_G2_GROUNDING"

(***************************************************************************)
(* No encoder settles a disputed pair: one whose bare and contexted scores *)
(* disagree skips G2 and G3, and one on which the two families disagree    *)
(* goes on from G3, to the tail or, from there, to a human (g1._routing,   *)
(* g3._routing).                                                           *)
(***************************************************************************)
DisputesReachTheTail ==
  \A p \in Pair :
    LET s == score[p]
        disputed == \/ s.g1 = "ESCALATE"
                    \/ s.g1 = "FLAG" /\ s.g3 = "ESCALATE"
                    \/ s.g1 = "FORWARD" /\ s.g2 = "FORWARD" /\ s.g3 = "ESCALATE"
    IN  disputed => /\ rows[p].decidedBy \in {None, "GK_G4_LLM"}
                    /\ rows[p].gate = Left => rows[p].tier \in {"LLM_TAIL", "HUMAN"}
                    /\ s.g1 = "ESCALATE" => rows[p].gate \notin {2, 3}

\* How far down the cascade a row is: a row that has left it is at its end.
Depth(row) == IF row.gate = Left THEN 5 ELSE row.gate

(***************************************************************************)
(* Routing moves a pair only forward, and what settled a pair is not       *)
(* replaced: whichever workers race, only a reset takes a row back, and it *)
(* takes it all the way (PairQueue.route_all).                             *)
(***************************************************************************)
OnlyResetGoesBack ==
  [][\A p \in Pair :
       \/ rows'[p] = HeadOfCascade
       \/ Depth(rows[p]) < Depth(rows'[p])
       \/ [rows'[p] EXCEPT !.owner = None, !.live = FALSE]
            = [rows[p] EXCEPT !.owner = None, !.live = FALSE]]_vars

\* A run that is not in SHADOW mode took the pair out of the cascade.
SettledInEarnest(row) == row.gate = Left /\ docs[row.run].mode # "SHADOW"

\* An execution of G1 is, or will be when it is retried, in its setup.
SetupAhead == \E o \in Owner : worker[o].gate = 1 /\ worker[o].pc \in {"down", "launched", "purge", "reset"}

\* What the verdict row says of a pair some run settled.
SettledAsRecorded(p) ==
  /\ edges[p].run = rows[p].run
  /\ rows[p].decidedBy # None => /\ edges[p].method = rows[p].decidedBy
                                 /\ edges[p].relation # None
  /\ rows[p].tier = "HUMAN" =>
       CASE edges[p].method = "GK_G3_XCHECK" -> edges[p].relation = "CONTRADICTS"
         [] edges[p].method = "GK_G4_LLM"    -> edges[p].reason \in {"LLM_ERROR", "CAP_EXCEEDED"}
         [] OTHER -> FALSE

(***************************************************************************)
(* The verdict is durable before the queue moves: a row some run settled   *)
(* has its verdict row, from that run and that gate, with the relation and *)
(* the reason the human queue and the merge downstream read, but for the   *)
(* time between G1's purge and its reset (_write_outcomes: persist the     *)
(* verdicts, then move the queue).  A pair that has reached the            *)
(* cross-check has the first-family scores G3 would fail without           *)
(* (g3._read_family_a).                                                    *)
(***************************************************************************)
VerdictDurable ==
  /\ \A p \in Pair : rows[p].gate = 3 => edges[p].g1
  /\ \A p \in Pair : SettledInEarnest(rows[p]) /\ ~SetupAhead => SettledAsRecorded(p)

(***************************************************************************)
(* A run that SUCCEEDED left no pair behind in the cascade: each was       *)
(* judged by a gate, went through the tail or went to a human              *)
(* (worker/finalize.py).                                                   *)
(***************************************************************************)
SucceededIsDrained ==
  \A k \in Run : docs[k].state = "SUCCEEDED" =>
    \A p \in Pair : rows[p].seeded /\ rows[p].gate = Left /\ rows[p].run = k

(***************************************************************************)
(* The tail never settles more pairs than the cap, however often its       *)
(* worker crashes and resumes (count_decided_by).                          *)
(***************************************************************************)
SettledWithinCap == MaxLlmPairs > 0 => Settled <= MaxLlmPairs

(***************************************************************************)
(* In SHADOW mode the cascade calls no LLM and writes no verdict and no    *)
(* reason where the judge of record would read them (edges.to_firestore,   *)
(* g4._record_shadow).                                                     *)
(***************************************************************************)
ShadowSilent ==
  /\ \A k \in Run : docs[k].mode = "SHADOW" => calls[k] = 0
  /\ (\A k \in Run : docs[k].mode # "GATEKEEPER") =>
       \A p \in Pair : edges[p].relation = None /\ edges[p].reason = None

(***************************************************************************)
(* A running cascade gets through its gates, fails or is superseded.       *)
(***************************************************************************)
Progress ==
  \A k \in Run : docs[k].state = "RUNNING" ~> docs[k].state # "RUNNING" \/ docs[k].gate = 5

(***************************************************************************)
(* Undisturbed, a run drains its pairs and SUCCEEDS: no gate leaves a pair *)
(* where the next gate or FINALIZE cannot take it.                         *)
(***************************************************************************)
Undisturbed == \A kind \in DOMAIN faults : faults[kind] = 0

EveryRunSucceeds ==
  []Undisturbed => \A k \in Run : docs[k].state = "RUNNING" ~> docs[k].state = "SUCCEEDED"
=============================================================================
