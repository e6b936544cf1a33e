# Formal models of the gatekeeper

This directory holds TLA+ models of the gatekeeper (`src/gatekeeper/`), the TLC
configurations that check them on small instances, and TLAPS proofs of what can be
shown for every instance. `PROJECT.json` has the details in a form a tool can read:
the lines each definition translates, the runs, the mutants of the code that each
property refuses, the hazards, the findings and the theorems.

To check a run: `tlc -config <name>.cfg <module>`; to check the proofs: `tlapm <module>`.

## 1. The system

The gatekeeper judges the candidate claim pairs of a *stage-3 run*. A publisher
(vishwamitra, not in this repository) sends a Pub/Sub message; a **dispatcher** turns it
into a claim on a run document and launches a Cloud Run job; the job is a **worker** that
executes one *gate* over the pair queue, commits it and publishes the message for the
next. After the fourth gate the same worker runs FINALIZE. A **sweeper** rescues gates
whose worker was lost. State is in Firestore:

| collection | key | written by | modelled as |
|---|---|---|---|
| `gatekeeper_runs` | runRequestId | dispatcher, workers, sweeper | `runState`, `gates` (GatekeeperRuns), `docs` (PairCascade) |
| `gatekeeper_pairs` | stage-3 run and pair | workers | `rows` (PairCascade) |
| `stage3_edges` | the two claims | workers | `edges` (PairCascade, GateDecisions, TailCalls) |
| model bucket, local mirror | artifact and precision | preparation script | `bucket` (ModelLoader), `local`, `bucket` (ArtifactPrep), `mirror` (BakeOff) |
| model cache, score cache, corpus, scratch directory | files | worker, bake-off, export, preparation | `target` (ModelLoader), `cache`, `corpus` (BakeOff), `fp32`, `int8` (ArtifactPrep) |

### Components

| component | state and operations | hard behaviours | what makes it correct | model |
|---|---|---|---|---|
| run store (`runs/store.py`, `runs/model.py`) | run state, gate entries with leases; create and claim, claim, settle, renew, rescue, fail, finalize: one transaction each | all of them race; redelivery, superseding, retriggering | cascade order, leases respected, committed gates final, run outcome | GatekeeperRuns |
| dispatcher (`dispatcher/app.py`, `jobs.py`) | none; claim, then launch | the launch may fail after the claim | one execution per claim | GatekeeperRuns |
| sweeper (`dispatcher/sweep.py`) | a snapshot of the active runs; rescue and publish, republish, fail | the snapshot is stale when it acts; it may die between rescue and publish | a live lease is not taken; bounded rescues; progress | GatekeeperRuns |
| worker (`worker/main.py`, `worker/gates.py`) | its lease; load, run, commit, publish or FINALIZE | crash or stall between any two writes; task retries | commit before publish | GatekeeperRuns, PairCascade |
| pair queue (`worker/queue.py`) | gate, tier, flag, decidedBy, pair lease; seed, reset, claim a batch, route | overlapping workers, resumed batches, stragglers | only a reset takes a pair back; nothing is left behind | PairCascade |
| verdict rows (`worker/edges.py`) | relation, reason, method, scores; merge, purge | written before the queue moves; merges leave old fields | the verdict is durable when the pair has left | PairCascade, GateDecisions, TailCalls |
| gate runners (`gates/g1.py` to `g4.py`) | counters; the batch loop | the lease is checked once a batch | disputes reach the tail, the flag is kept, the cap | PairCascade, TailCalls |
| decisions (`gates/decisions.py`) | pure | thresholds at their boundaries | two families before a human, direction-blind | GateDecisions |
| FINALIZE (`worker/finalize.py`) | reads the queue, settles the run | dies before it, or fails in it | SUCCEEDED means drained | PairCascade, GatekeeperRuns |
| tail model (`clients/vertex.py`, `gates/prompts.py`) | one call per pair with retries; reading the answer | every kind of reply and answer | never a guess, within the cap | TailCalls |
| judge mode (`integration.py`) | resolved once per run | the snapshot may lack it | pinned for the run | TailCalls |
| model loader (`models/loader.py`, `manifest.py`) | cache entry, temp directory; check, download, install | killed at any step, bucket re-mirrored meanwhile | one whole pinned release | ModelLoader |
| encoder scoring (`scoring/encoder.py`) | a scorer per process; label map, batches, truncation | labels in several vocabularies and orders; a new release under the same name | every score is read from the column it means | EncoderScoring |
| artifact preparation (`scripts/prepare_models.py`) | scratch directory, local mirror, bucket; pin, export, quantize, sanity diff, manifest, publish | scratch files of earlier runs; killed and failing at any step | INT8 ships on its own measurement; the manifest goes last; the printed digest is served | ArtifactPrep |
| replay corpus (`replay/corpus.py`, `scripts/export_replay_corpus.py`) | the corpus file; select, hydrate, write, read | killed between two lines | scores are those of its pairs | BakeOff |
| replay (`replay/bakeoff.py`, `scripts/replay_bakeoff.py`) | score cache; score, replay, grid search, report, adopt | corpus and artifacts change between runs; kills | replays what production does; scores match the corpus; the adopted roster is the best that passes | ReplayCascade, BakeOff |
| metrics (`replay/metrics.py`) | pure | empty denominators, edges of bins | the numbers add up; the bar | GoBar |
| hydration, OIDC, contract, config, client wiring, fixtures | stateless or I/O | - | - | see "Not modelled" |

`PROJECT.json` lists every hazard with the line where it bites and the property that covers it.

## 2. Modules

The order is the order of importance; the first two carry most of the weight.

```
RunLifecycle  <--refines--  GatekeeperRuns <- MCGatekeeperRuns, DocumentedRunClaims,
              |                               GatekeeperRuns_proofs
              <--refines--  PairCascade    <- MCPairCascade, DocumentedCascadeClaims,
                                              PairCascade_proofs
GateDecisions <- DocumentedDecisionClaims
   ^-- ReplayCascade (extends it) <- MCReplayCascade, GateDecisions_proofs
TailCalls     <- MCTailCalls, DocumentedTailClaims, TailCalls_proofs
ModelLoader
   ^-- EncoderScoring (extends it) <- MCModelLoader, DocumentedScoringClaims, ModelLoader_proofs
GoBar
   ^-- BakeOff (extends it, instantiates ReplayCascade) <- MCBakeOff, DocumentedBakeOffClaims,
                                                           BakeOff_proofs
ArtifactPrep  <- DocumentedPrepClaims, ArtifactPrep_proofs
```

An `MC...` module gives the constants of an instance. A `Documented...` module states what a
doc, a comment or a test of the repository says of the program and the code does not keep;
TLC ends in a counterexample (section 5).
Definitions introduced by "Mutant:" are what a plausible bug would make of the definition
after them; nothing in the specifications uses them.

### GatekeeperRuns: the life of a run

A Firestore transaction is one action, and whatever happens between two transactions is
an action too. `gates[r][g]` is a gate entry with `state`, `attempt`, `sweepAttempt`, the lease
owner and whether the lease is live. Time is reduced to what the code tests: a lease is live
or it has expired (`LeaseExpires` may happen whenever nobody has renewed it, which includes a
worker that merely stands still), and each sweep chooses which quiet runs are past the grace
period.

| action | code |
|---|---|
| `RequestRun`, `RetriggerFromGate` | the publisher and the operator, from `contracts/payload.py` and the runbook (external) |
| `CreateAndClaim`, `ClaimGate`, `DropMessage` (together `Dispatch`) | `dispatcher/app.py` and `store._create_and_claim`, `_claim_gate`, `_reject_claim`, with the predecessors superseded in the same step |
| `Launch`, `LaunchFails` | `dispatcher/jobs.py` |
| `LoadRun`, `RenewLease`, `CommitGate`, `FailGate`, `SettleRefused`, `PublishNext` | `worker/main.run_gate` step by step, with `store._settle_gate` and `renew_gate_lease` |
| `FinalizeRun`, `FailRun` | `worker/finalize.py` with `store.finalize_run`, `fail_run` |
| `Sweep`; `SkipRescue`, `Rescue`, `GiveUp`, `Republish` | `dispatcher/sweep.py`: a snapshot, then one decision at a time, each against the documents of that moment |
| `Crash`, `SweepCrash`, `LeaseExpires` | a process ends or stands still between two steps |
| `Acknowledge` (in every delivery), `DeadLetter`, `TaskRetry` | Pub/Sub and Cloud Run, from how the repository configures them (external) |

`RunLifecycle` is what a poller of the document is promised, without leases, messages or
workers: gates complete once each and in order, a run fails or succeeds as a whole, opening
a run supersedes its open siblings. `ImplementsLifecycle` maps the documents to it
(`Status`, `Done`); TLC checks that every step is one of its steps or a stutter, and it is proved
(`LifecycleImplemented`).

### PairCascade: the pairs of a stage-3 run

The run documents are reduced to the gate reached and its lease (what a worker sees); what the
models say of a pair is reduced to the outcome a gate draws from it (`Score`). In full detail are
the queue rows, the verdict rows and each worker's way through a gate: the judge mode the run was
opened in decides what it writes (`docs[k].mode`); purge, reset and seed for G1's first attempt;
then renew the lease, lease a batch, judge it, write the verdicts, route the pairs, and again
until a batch comes back empty; then commit. Workers of two runs of one stage-3 run share the
rows, as they do in the code. `SettledWithinCap` and `calls` follow the cap on the paid tail.

GatekeeperRuns and PairCascade meet in the gate lease: PairCascade's `ClaimGate`,
`GateLeaseExpires` and the worker's settlement keep of GatekeeperRuns' claims what its checks on
`docs` need. A claim of a gate whose lease has expired stands for a rescue followed by the
claim of the published message. That its documents keep the life RunLifecycle gives a run is
proved (`CascadeImplementsLifecycle`, section 4).

### GateDecisions and ReplayCascade

`DecideG1`, `DecideG2`, `DecideG3` are the decision functions over scores; actions carry one
pair through them (`g2` keeps what the grounding encoder said, so that `DirectionBlind` speaks of
all three decisions) and through the two places where data crosses between gates, the flag on
the queue row and the first-family scores on the verdict row. ReplayCascade puts the replay
(`replay/bakeoff.py`) beside the worker on the same answers and compares the outcomes.

### TailCalls

TailCalls takes one call of the tail apart: the judge mode, the door (live or dry run), replies
with retries, the shapes of an answer, and what is then written. An answer may also raise what no
handler of the pair catches (`Overflows`); the execution then ends (`pc = "raised"`).
`PriorLlmPairs` is `count_decided_by`: the pairs the tail has settled before, and not the calls it
made for others.

### ModelLoader and EncoderScoring

ModelLoader has the loader, the mirroring script, kills and damage to the cache side by side, one
file at a time. EncoderScoring goes on where the loader ends: from the bytes of the installed
config.json and graph it builds a scorer (`BuildScorer`: `EncoderScorer.__init__` with
`_resolve_label_map`) or refuses to (`ScorerRefused`), and scores pairs batch by batch
(`ScoreBatch`: `_run` with `score_nli` or `score_grounding`). What a column means is known to
nobody in the code; the model has it beside the labels (`head`), so that a score can be compared
with what it should have been read from. The loader's actions are steps of it with the scorer
unchanged (`LoaderStep`), and a new process starts without one (`NewProcess`).

### ArtifactPrep

One artifact and the owner's runs of `prepare_models.py` for it. A file is known by where it comes
from, or is `Torn`. The quantizer may copy the tokenizer beside its graph (`own`), whole or not; INT8
is staged with that one, and with its parent's where there is none.

| action | code |
|---|---|
| `Start`, `Clean`, `ResolveRevision` | `main`, `prepare_one` up to the revision; `rmtree` file by file |
| `ReuseExport`, `ExportGraph`, `ExportTokenizer` | `export_fp32` |
| `ReuseInt8`, `QuantizeInt8`, `QuantizeFails` | `quantize_int8` and the handler around it |
| `SanityDiff`, `SanityRefuses` | `load_sanity_pairs`, `sanity_diff`; a drift is drawn from `Levels` |
| `Stage` | `assemble_precision`, `build_manifest` |
| `MirrorLocally`, `Upload`, `UploadFails` | `mirror_locally`, `upload`, item by item in the order of `relative_payload` |
| `UpstreamMoves`, `QuantizerChanges`, `Kill` | external |

### BakeOff and GoBar

BakeOff has exports that write the corpus line by line (`OpenCorpus`, `BeginLine`, `EndLine`), runs
of `replay_bakeoff.py` over a score cache that outlives them (`Start`; `ReadHit`, `ReadTorn`, `Infer`,
`OpenFile`, `FillFile` for a pass; `Report` for a roster; `Archive`), mirrors of artifacts and kills. A
report replays the corpus through ReplayCascade's `RunCascade`, an instance of it per setting of
the thresholds, for every cell of the grid; GoBar has the metrics over its outcomes, the bar
(`ClearsBar`), and the choice (`Best`) that is made twice, among the cells of a roster and among the
rosters. A metric is kept as the pair of its counts, so nothing is rounded.

## 3. What the passing runs show

| run | instance | checks |
|---|---|---|
| `lifecycle_one_run` | 1 run of 2 gates, 3 claims, 2 concurrent sweepers, 1 rescue, 1 task retry, 2 faults, 1 retrigger | `CascadeOrder`, `SweepBudget`, `LiveLeaseRespected`, `LostLeaseNeverRegained`, `CommittedGateFinal` |
| `lifecycle_two_runs` | 2 runs of one stage-3 run, 1 sweeper, 1 fault, 1 retrigger | `PublishAfterCommit`, `RunOutcome`, `OneLiveRunUnlessRetriggered`, `FailedGateWaitsForOperator`, the refinement |
| `lifecycle_progress` | 1 run, 2 faults, fairness | `CascadeProgress`: a RUNNING run gets its gates done, fails or is superseded |
| `cascade_stragglers` | 2 pairs, 2 runs, 3 workers, batches of 1, 1 stall | `EscapeHatch`, `OnlyResetGoesBack` when superseded and rescued workers overlap |
| `cascade_crash` | 3 pairs of any of 7 kinds, batches of 2 out of at most 2 candidates, 1 crash and 1 gate error, cap 1, in earnest and in SHADOW mode | `VerdictDurable`, `SucceededIsDrained`, `SettledWithinCap`, `DisputesReachTheTail`, `ShadowSilent` |
| `cascade_progress` | 2 pairs of any of 5 kinds, at most a crash and a stall, 3 claims per gate and no task retry, fairness | `Progress`; `EveryRunSucceeds` for behaviours in which nothing goes wrong |
| `replay` | 6 answers of each family in each direction, 2 supports, at most one excerpt | `HumanSawTwoFamilies`, `StrongSignalNeverSettled`, `DirectionBlind` of the decisions; `ReplayMatches` of the replay beside them |
| `model_loader` | 2 releases of 2 files; 5 artifacts that differ in labels, declared order and head; 3 requests of 3 to 5 pairs in batches of 2, fairness | `WholePinnedRelease`, `EntryGivesWayToWhole`, `LoadsInTheEnd`; `ScoresMeanWhatTheySay`, `CutPairsReported` |
| `prep` | 3 runs, 2 revisions, 2 drifts | `Int8EarnedItsPlace`, `ManifestGoesLast`, `PinIsServed` |
| `bakeoff` | 2 rosters sharing passes, with and without `--limit` and `--grid`, 1 export or mirror | `ReportedOverTheCorpus`, `SharedPassPaidOnce`, `AdoptedIsTheBest`, `ReportAddsUp` |
| `tail` | a batch of 3 under a cap of 3 with 1 pair settled before it, every door, reply and shape | `NeverAGuess`, `CalledWithinCap`, `AnsweredOnce` |

### Bounds, and why they are enough

Every bound is a constant in a guard and is named in the module that uses it.

* **Gates.** Two gates in the lifecycle runs give a first gate, a last gate, a predecessor and a
  successor; the rules of `store.py` look no further than one gate back. PairCascade has all four.
  The proofs of section 4 are for any number.
* **Claims** (`Owner`). Each won claim uses a fresh identity, so three allow first claim, rescue
  or retrigger, and the claim of the next gate while both stragglers are alive.
* **Faults.** One fault of each kind and any two together. A third repeats a state the first two
  reach, because the store keeps no memory of faults but `sweepAttempt`, and `MaxSweeps = 1` is
  exhausted by two. The deployed value is 3.
* **Pairs.** Three pairs with batches of two make a full and a partial batch; two with batches of
  one let a straggler hold one pair while its successor has the other. The kinds of
  pairs in `cascade_crash` take every way through the gates: settled or escalated at G1, settled at
  G2, settled, contradicted or escalated at G3 with and without a flag; only a flagged pair that both
  families find neutral at G3 is left to GateDecisions, as it leaves G3 like one that is not flagged.
  `cascade_progress` has five of them, without the two escalated at G3, which go on as those escalated at G1
  do. Pairs do not interact but through the batch and the cap.
* **Scores.** Only the order of a score and a threshold matters to a decision, so the answers are
  points below, on or above a threshold, and not every combination of components is a
  distribution; thresholds keep the order of the proposed values.
* **Candidates.** `OverFetch` is 4 in the code. It is 1 in `cascade_crash`, where the page of candidates
  is then full with a batch, so that pairs behind leased ones are really not seen; 4 elsewhere.
* **Preparation.** Three runs of the script let one leave a torn or partial scratch directory, one
  publish from it, and one publish over that. The proofs of section 4 are for any number.
* **Bake-off.** One change and any number of runs: a run, an export or mirror during or after it,
  and runs that meet what both left in the cache. The grid has two values on each of two axes;
  some cells clear the bar and some do not.
* **Symmetry** permutes `Owner` only, and only in runs without liveness.
* **CHECK_DEADLOCK FALSE** appears where a behaviour really ends: runs settle and the bounds on
  requests and faults are used up.

### Fairness

* GatekeeperRuns: a message in flight is delivered or dead-lettered in the end (Pub/Sub retries); a
  worker that is not down takes its next step; the lease of a holder that is gone expires
  (90 minutes); Cloud Scheduler keeps sweeping until a quiet run is past the grace period.
  Nothing is assumed of the operator or of task retries.
* PairCascade: workers take their steps and Cloud Run retries a failed task (`cascade_progress`
  has no retries to rely on); leases of holders that are gone expire (gate 90 minutes, pair 15);
  the gate reached of a RUNNING run is claimed, which is what GatekeeperRuns' messages and sweeps
  do while sweeps are left.
* ModelLoader, and EncoderScoring over it: a load takes its steps and a failed or killed one is started again;
  nothing is asked of the scoring. `LoadsInTheEnd`
  assumes in its statement that the bucket comes to rest on the pinned release and that kills
  end.

All of it is weak fairness. Faults are bounded and no fairness forces or forbids them.

`CascadeProgress` and `Progress` promise that a run gets its gates done, fails or is superseded,
and not that it is settled: a crash between G4's commit and FINALIZE is not recovered (section
5, `finalize_crash`).

## 4. What is proved

Proved by TLAPS, for every value of the constants that satisfies the named assumptions of the
modules. Every safety property that a passing run checks is the conclusion of a theorem. Eight
theorems carry a hypothesis, which is named with them: `OneLiveRunCorrect`, `CapCorrect`,
`DrainedCorrect`, `DurableCorrect`, `DurableBarOneWindow`, `LatestDrainedCorrect`,
`CapPerWorkerCorrect` and `ScoresMeanCorrect`. "Runs by hand" are those of section 5.

| module | theorems | inductive invariant |
|---|---|---|
| GatekeeperRuns_proofs | `TypeCorrect`, `CascadeInOrder`, `SweepsBounded`, `CommitsFinal`, `LiveLeasesRespected`, `LostLeasesStayLost`, `FailedGatesWait`; `CommitBeforePublish`, `OutcomesAgree`, `OneLiveRunCorrect`; `LifecycleImplemented` | `TypeInv`, `GatesInv`, `PublishInv`, `OutcomeInv`, `OneLiveInv`, each on top of the one before |
| PairCascade_proofs | `TypeCorrect`, `EscapeHatchCorrect`, `DisputesCorrect`, `OnlyResetGoesBackCorrect`, `ShadowSilentCorrect`; `CapCorrect`, `DrainedCorrect`; `DurableCorrect`, `DurableBarOneWindow`; `CascadeImplementsLifecycle`; `LatestDrainedCorrect`; `CapPerWorkerCorrect` | `TypeInv`, `CascadeInv`, `ShadowInv`, `OneRunInv`, `DurableInv`, `SparedInv`, `PollerInv`, `EndInv`, `TokensInv` |
| GateDecisions_proofs | `HumanConfirmsAgreement`, `StrongSignalEscapes`, `DecisionsDirectionBlind`; `ReplayedCascade`, `ReplayIsFaithful` | `DecisionInv`, `ReplayInv` |
| ModelLoader_proofs | `ScoresWithWholeRelease`, `EntryKeptUntilReplaced`; `GateScoresWithWholeRelease`, `GateKeepsEntryUntilReplaced`, `CutPairsReportedCorrect`, `ScoresMeanCorrect` | `LoaderInv`, `ServingInv` |
| ArtifactPrep_proofs | `Int8EarnedCorrect`, `PinCorrect`, `ManifestGoesLastCorrect` | `PrepInv` |
| BakeOff_proofs | `ReportsCorrect`, `PaidOnceCorrect`; `AdoptedCorrect`; `NumbersCorrect` | `BakeOffInv`, `ChoiceInv`, `SourcedInv` |
| TailCalls_proofs | `NeverAGuessCorrect`, `CalledWithinCapCorrect`, `AnsweredOnceCorrect` | `TailInv` |

**GatekeeperRuns_proofs** (`RequestAssumption`, `OwnerAssumption`, `NumGatesAssumption`,
`BoundsAssumption`): any number of runs, gates, owners, sweepers, sweeps and faults. `TypeCorrect`
needs `WorkersBound` beside `TypeOK`: a worker's step indexes the documents by its run and gate,
and only a started worker has them. `CascadeOrder` and `SweepBudget` are then inductive together
with `AbsentRuns` (a run without a document has only fresh gates: opening a run writes fresh gate
entries, which would otherwise undo claimed or committed ones). Rather than one proof per action
and conjunct, lemmas classify the steps once: `GateSteps` (a gate entry is left alone, claimed
with its predecessor done and no live lease, has its lease renewed or lapsed, or is ended by the
holder or after expiry), `WorkerSteps` and `MessageSteps`, `RunStateSteps`. The invariants and the
four action properties follow from that classification.

* `CommitBeforePublish` rests on `WorkersBacked`: a worker works for a gate whose turn has come, and
  one that has committed has a SUCCEEDED gate, which no step takes back (`CommittedStay`).
* `OutcomesAgree` needs that no document is left REQUESTED (`NeverRequested`) and the order of the
  cascade: around a gate that runs or failed, those before are done and those after fresh
  (`OneGateAtATime`), so that a run has one outcome at a time (`RunningGate`).
* `OneLiveRunCorrect` needs `OperatorSilent`: while nothing was retriggered there is no FROM_GATE
  message, and no worker that could publish one. The hypothesis `retriggers = 0` is part of the
  property and not of the theorem; with a retrigger the run by hand `revived_predecessor` refutes it.
* `LifecycleImplemented` is the refinement: `Init` maps to `Lifecycle!Init`, and each action to a
  step of RunLifecycle or a stutter under `Status` and `Done`.

**PairCascade_proofs** (`SizesAssumption`, `OwnerAssumption`, `ModesAssumption`, `ScoresAssumption`,
`FaultsAssumption`, `NoneAssumption`): any pairs, runs, workers, claims, batches and faults.

* With stragglers. `EscapeHatch`, `DisputesReachTheTail` and `OnlyResetGoesBack` hold whatever workers
  overlap, so nothing may be said of who holds a gate. `CascadeInv` says instead what each row says
  of its pair's scores, what each batch in some worker's hands may be routed to, and that a route
  lands only on a row that is still at that worker's gate. `ShadowInv` does the same for the mode of
  the run a worker works for.
* One run, undelayed. `SettledWithinCap` and `SucceededIsDrained` do not hold when a worker stands
  still past its lease, or when a second run of the stage-3 run shares the rows: then two workers
  settle pairs side by side. With two pairs, three claims and batches of one, TLC refutes each of
  them for one run with a stall and for two runs without any fault, and `VerdictDurable` too. The
  theorems are `[](Alone => ...)`, `Alone` being that nothing stalled and only the first run was
  opened, which is what `cascade_crash` bounds; under it `SoleInv` shows that the gate lease is a
  lock, over any number of crashes, gate errors, task retries and rescues. `Budgeted` is the part for
  the cap: what an execution counts as spent covers what is settled and what its batch is about to
  settle, also when it starts from `count_decided_by`.
* One crash. `VerdictDurable` is proved as `[](CrashedOnce => ...)`: `Alone`, and at most one crash.
  With two crashes and one task retry TLC refutes it: the retried G1 purges, dies before its reset
  with no retry left, and the claim that resumes it finds settled rows without verdicts.
  `DurableInv` follows a setup that was repeated (`SetUpOnce`) and says of a batch that was written
  that its rows are still the worker's (`HoldsBatch`). `task_retry_purge` and `straggler_purge`
  (section 5) show the same setup doing other damage outside the hypotheses.
* The crash that matters. `DurableBarOneWindow` does not count crashes: it assumes
  `SetupsSpared`, that none falls on a worker of G1 between its purge and its reset while a pair has
  moved. Then every verdict is on record except while such a setup is under way
  (`RecordedUnlessReset`), and the hypothesis is what keeps that worker from dying there. Under it
  TLC finds `VerdictDurable` to hold with three crashes, an error and a task retry (569172 states);
  without it TLC refutes it.
* A refinement. `CascadeImplementsLifecycle`: the run documents of PairCascade, read as `Status` and
  `Done`, behave as RunLifecycle allows, with stragglers, crashes and any number of runs. What
  a step may do to the documents is classified once (`DocumentSteps`: a run is opened and what runs
  is superseded, a gate is claimed, keeps or loses its lease, fails, is committed, or the run is
  settled). `PollerInv` ties the state of a run to its gate entry (`UnderWay`: a gate is RUNNING only in
  a run that is RUNNING or SUPERSEDED; `AtTheEnd`: whoever finalizes has the last gate behind it) and
  says that an absent run has an untouched document.
* FINALIZE with stragglers. `LatestDrained` is what is left of `SucceededIsDrained` when workers stand
  still and runs overlap: a run that SUCCEEDED, with none newer, left no pair behind. It is proved
  under `ResetsHeld`, that no worker resets the queue after its gate was taken from it; run_g1 does
  not look. Then the only one who resets is at the first claim of G1 of the newest run
  (`FirstClaims`), so behind the last gate of that run nobody does, and what FINALIZE has tallied
  stays (`DrainedAtTheEnd`). TLC agrees with two runs, a stall and an error (2100687 states) and
  refutes `LatestDrained` when the hypothesis is dropped.
* The cap with stragglers. An execution of the tail counts what is settled once, when it starts, and
  whoever runs beside it counts the same pairs, so `SettledWithinCap` fails. `CapPerWorkerCorrect`
  bounds by how much: `Settled` never exceeds `MaxLlmPairs` times the number of workers there
  can be at once (`Owner`, a finite set). The proof gives each worker at the tail the places between
  what it counted when it started and the cap. A call that fails uses up a place, one that answers
  keeps its place until the pair is settled or lost, so that settled pairs and places together never
  exceed the product (`TokensInv`; checked by TLC for two workers, with one run and with two). The
  bound is tight: TLC reaches it with two workers.

**GateDecisions_proofs** (`ScoresAssumption`, `ThresholdsAssumption`, for `HumanConfirmsAgreement` and
`StrongSignalEscapes` also `OrderAssumption`; `ExcerptsAssumption`): any answers and thresholds. The
properties speak of pairs that have left the cascade; the inductive invariant `DecisionInv` ties the
flag and the stored scores of a pair on its way to what the first family said, which is what G3's
decision then uses. `DecisionsDirectionBlind` follows from the symmetry of the maximum over both
directions. `ReplayedCascade` carries these over to the specification TLC runs (`ReplaySpec`).
`ReplayIsFaithful` compares the replay with the worker, gate by gate (`Asked`: what a pair still on
its way has been answered), for pairs without an excerpt for the second claim. With one for each claim
the worker joins the excerpts and the replay does not: `replay_excerpts`, by hand, refutes the
equality.

**ModelLoader_proofs** (`ReleasesAssumption`, `MarkersAssumption`; `ScoringAssumption` for EncoderScoring):
any releases, files and contents; any artifacts, requests and batch sizes. `WholePinnedRelease` is
inductive with `StagedPrefix` (what is staged agrees with the manifest as far as it goes, and is the
release once complete) and `ManifestPinned`. `EntryKeptUntilReplaced` is an action property from the
same invariant. For a gate that goes on to score (`ServingSpec`) the loader's actions are steps with
the scorer unchanged, so `LoaderInv` carries over, and `ServingInv` adds that the scorer still matches
the files in the cache entry and what the scores so far are. `ScoresMeanCorrect` is
`[](Truthful(artifact) => ScoresMeanWhatTheySay)`: labels that name an NLI class name its column, a
head that has neutral has all three, and the last column of a grounding head is support. The code has
no way to check it. TLC evaluates it for the artifacts of the instance (`TruthfulArtifacts`); for
an artifact renamed after the roster was written it fails, and so does the reading
(`ConfigHasTheWord`).

**ArtifactPrep_proofs** (`PrepAssumption`, `Int8Assumption`): any revisions, drifts and number of runs.
Two facts carry it: what is measured is what is in the scratch directory and is whole (`Measured`),
although earlier runs leave files there that are torn or of another revision; and the first `up`
items of the payload are in the mirror being written (`CopiedSoFar`), from which the manifest is put
only over files that are all there. The lemma `CopyStep` says it once for both mirrors.

**BakeOff_proofs** (`BakeOffAssumption`, `GoBarAssumption`, `ExportAssumption`, for `NumbersCorrect`
also `SupportAssumption`): any rosters, grids, bars and corpora. `BakeOffInv`: every pass in hand has the ids of `records`, and what a run has paid for is
in the cache and fits them, but for the file being written. `ExportAssumption` is that what
`SelectSeq` selects of a list is a list, a fact about the recursion inside the library that is beyond
the prover; TLC evaluates it. `AdoptedCorrect` shows that a choice made cell by cell and then roster
by roster is the best of all: over one corpus the sort key of a candidate is two counts
(`SortKey`), so `BetterThan` is a strict order with a best among finitely many (`OneIsBest`), by the
well-foundedness of the naturals. `NumbersCorrect` needs that every text comes from the sources and
every score from a release (`SourcedInv`: the lines of the corpus, what is loaded for a run, what is
filed in the cache; TLC checks it on `bakeoff`): then a replayed pair ends in exactly one of the
places the funnel counts, and a confidence is a probability, which `SupportAssumption` says of what
a release answers. The calibration error is a sum of the library's folds; that a fold over a finite
set is a sum, whatever the order, is proved in that module (`SumExists`, `SumsAgree`) by well-founded
induction on the subsets of a finite set (`SubsetInduction`), and then that a sum over the bins is one over the pairs, each
at most the weight of its bin.

**TailCalls_proofs** (`TailAssumption`): any batch, answers, cap and retries. The pairs behind the loop
are judged by an answer that names the verdict, or rejected; those ahead were not asked; between two
attempts the last reply was a lost or a throttled one. `CalledWithinCap` counts the pairs one
execution calls: `Called` has at most `spent - PriorLlmPairs` members, and one more while a pair is in hand (`InHand`): between two attempts, or when what
was raised ended the execution.

Only model-checked:

* Liveness: `CascadeProgress`, `Progress`, `EveryRunSucceeds`, `LoadsInTheEnd`. It rests on weak
  fairness, whose proof needs ENABLED, which the prover does not support.
* That the bound of `CapPerWorkerCorrect` is reached and that the hypotheses of the theorems that carry
  one cannot be dropped: counterexamples, found by TLC.
* The claims of section 5, which are refuted.

No module uses a RECURSIVE operator.

## 5. Where the code and its texts part

While the models were written, the code was met doing something else than a doc, a comment or a
test of the repository says. A property states the text, and TLC ends in a counterexample.
`finalize_crash` is a run of `PROJECT.json` and a finding; the others are run by hand,
`tlc -config <cfg> <module>`. A configuration that serves several claims has one of them as its
INVARIANT and names the others in its first lines; to check another, put it in its place.

**DocumentedRunClaims**

* `RunSettles` (`finalize_crash.cfg`; gatekeeper/worker/main.py:121). The worker commits G4 and
  then runs FINALIZE. If it dies in between and its task retry finds the lease cleared
  (worker/main.py:60-68 exits), no message and no sweep ever finalizes the run: active_runs still
  returns it, but actionable_gate finds no PENDING gate, and it stays RUNNING for ever.
  gatekeeper/worker/main.py:7-9 says "a crash in the window costs a sweeper rescue rather than a
  double-run"; README.md:129-130 says "A crash in the window costs a sweeper rescue, never a
  double run."
* `FailedRunRevivable` (`finalize_failure.cfg`; gatekeeper/runs/store.py:295). A run that fails in
  FINALIZE has four SUCCEEDED gates, and _reject_claim refuses a FROM_GATE message for a SUCCEEDED
  gate (GATE_TERMINAL), so no retrigger revives it. RUNBOOK.md:54 says of it "retrigger FROM_GATE
  at G4", and gatekeeper/enums.py:72-73 "an operator retrigger (FROM_GATE) revives the run".
* `OneLiveRun` (`revived_predecessor.cfg`; gatekeeper/runs/store.py:272). A FROM_START run
  supersedes REQUESTED and RUNNING predecessors only; a FAILED one can be retriggered FROM_GATE
  afterwards and then two runs of one stage-3 run are RUNNING. gatekeeper/runs/store.py:255-257
  says a FAILED run "is already unreachable because reviving it needs a FROM_GATE message on its
  own runRequestId"; the test at tests/test_run_state_machine.py:212 is named
  test_concurrent_from_start_publishes_leave_one_live_run.

**DocumentedCascadeClaims**

* `NothingLeftBehind` (`stranded_pairs.cfg`; gatekeeper/worker/queue.py:306). claim_batch returns
  an empty batch also when pairs at the gate are leased by a dead worker; the runner then breaks
  its loop and commits the gate over them. gatekeeper/worker/queue.py:24-26 says "A worker that
  dies mid-batch leaves pairs leased but undecided, and the resumed worker re-claims them once the
  short lease lapses"; the test at tests/test_g1_gate.py:425 releases the leases by hand because
  "a real resume waits them out".
* `NoStragglerRegression` (`straggler_purge.cfg`; gatekeeper/gates/g1.py:111). The purge and the
  reset of G1 come before the first renewal of the gate lease and are unguarded, so a worker of G1
  that stalls between its lease check and the purge, and is then rescued or superseded, resets
  rows that later gates have settled. README.md:132-134 says "a straggler can neither strand a
  pair nor regress one a later gate settled".
* `PurgeSparesOwnOutput` (`task_retry_purge.cfg`; gatekeeper/gates/g1.py:111). A task retry of G1
  runs under the same claim, so attempt is still 1 and it purges the output of the execution that
  crashed. gatekeeper/gates/g1.py:106-110 says "`attempt == 1` is exactly FROM_START ... Every
  later G1 execution on this run is a redelivery, a sweeper rescue or an operator FROM_GATE, all
  of which are *resuming* output the purge would destroy".
* `FromStartRejudges` (`stale_verdicts.cfg`; gatekeeper/gates/g1.py:111). If the first claim of a
  FROM_START run dies before the purge, G1 is rescued with attempt 2 and never purges: the rows of
  the previous run survive and are not judged again. RUNBOOK.md:147-148 says "re-runs the whole
  cascade. G1's first act purges this run's GK_* edge rows and resets the queue";
  README.md:341-342 says "begins with a purge of this run's gatekeeper-written verdicts".
* `CallsWithinCap` (`llm_spend.cfg`; gatekeeper/gates/g4.py:141). The spend of earlier attempts is
  the number of rows decided by GK_G4_LLM, which are written only after the calls of a batch;
  failed calls leave no such row. A crash between calls and routing therefore forgets calls
  already paid. gatekeeper/gates/g4.py:9-13 says "The cap is durable, not per-execution";
  gatekeeper/gates/g4.py:334-335 says "A failed call still consumed a call's worth of quota, so it
  counts against the cap"; tests/test_g4_gate.py:287 says "the ceiling is per run, not per
  attempt".
* `LostWorkerWritesNothing` (`lost_worker.cfg`; gatekeeper/gates/g1.py:129). The lease is renewed
  before a batch is claimed and not looked at again before its verdicts are written, so a worker
  that stalls inside a batch and is rescued still writes the verdict rows (only the routing is
  guarded). tests/test_lease_renewal.py:290 says "a worker that has lost its lease writes no
  verdicts and moves no pairs"; README.md:131-132 says "a worker whose lease was swept learns it
  has lost the gate and stops before writing".
* `RejectedCarriesNoVerdict` (`stale_relation.cfg`; gatekeeper/worker/edges.py:295). to_firestore
  leaves relation out when there is no verdict and write_all merges, so a pair that was settled by
  an execution that died before the routing, and is rejected by the next one, keeps the old
  relation beside its escalationReason. gatekeeper/gates/g4.py:406 says "The edge row is written
  even though it carries no verdict", and the test at tests/test_g4_gate.py:281 asserts "relation"
  not in the row.

**DocumentedDecisionClaims**

* `FlaggedNeverNeutral` (`decision_claims.cfg`; gatekeeper/gates/decisions.py:308). decide_g3
  settles a pair NEUTRAL when both families are below neutralConsensus, also when G1 flagged it
  (above contraEscape). gatekeeper/gates/decisions.py:86 says of the flag "Once set, the pair may
  never be neutral-discarded downstream"; tests/test_gate_decisions.py:97 says "a flagged pair may
  NEVER be neutral-discarded".
* `TruncationReachesG3` (`decision_claims.cfg`; gatekeeper/worker/edges.py:171). G3 rebuilds the
  scores of the first family without their truncated bits, so a pair that only G1 read truncated
  is recorded as read in full. gatekeeper/gates/decisions.py:282 says truncated = g1.truncated or
  g3.truncated.

**MCReplayCascade**

* `ReplayMeasuresProduction` (`replay_excerpts.cfg`; gatekeeper/replay/bakeoff.py:421). The worker
  scores each claim against the other claim's excerpt and takes the stronger of the two
  (gates/g2.py:270-306); the corpus has one snippet per pair and the replay scores claim B against
  it. A pair grounded only in the other orientation is decided differently. README.md:105-107 says
  the pure decision rules are "what lets the replay bake-off measure the production gates rather
  than a re-implementation of them".

**DocumentedBakeOffClaims**

* `CrashedRunResumes` (`bakeoff_claims.cfg`; gatekeeper/replay/bakeoff.py:299). The cache file is
  written in place, and a kill in the middle leaves a file on which json.loads raises in every
  later run. gatekeeper/replay/bakeoff.py:273-274 says "a crashed run should never pay for it
  twice".
* `ReportedOverItsTexts` (`bakeoff_claims.cfg`; gatekeeper/replay/bakeoff.py:266). The fingerprint
  of a corpus covers the pair ids only: after an export with other claim texts the cached scores
  of the old texts are reported. gatekeeper/replay/bakeoff.py:303 says "A cache over a different
  corpus (or a --limit subset of it) is worse than none."
* `PrecisionOfItsNumbers` (`bakeoff_claims.cfg`; scripts/replay_bakeoff.py:238). The report states
  the precision of the artifact loaded now, while its scores may come from a cache that the
  artifact's previous release filled. gatekeeper/models/loader.py:79-80 says what a consumer can
  know, "via precision, is which one produced its numbers".
* `GraphWins` (`bakeoff_claims.cfg`; gatekeeper/replay/corpus.py:363). The graph is asked for
  texts only when the row lacks one, so a text that the row has and the graph has otherwise stays.
  gatekeeper/replay/corpus.py:344-345 says "The graph is the authority on claim text (LLD §8
  hydrates from it at run time), so it wins when both exist."

**DocumentedTailClaims**

* `ContradictionsForHumans` (`tail_claims.cfg`; gatekeeper/gates/g4.py:368). The tail settles
  whatever relation the model answers, CONTRADICTS included, without a human. README.md:54-55 says
  "Contradictions are never finalised by the cascade"; gatekeeper/enums.py:117-118 says
  "CONTRADICTS is deliberately not something a gate decides".
* `DoubleNeverAuthoritative` (`tail_claims.cfg`; gatekeeper/gates/g4.py:188). The dry-run double
  is refused in GATEKEEPER mode only, and to_firestore writes the verdict of record in every mode
  but SHADOW; a run published in LLM mode (which resolve_judge_mode lets through) is settled by
  the double. gatekeeper/gates/g4.py:38-40 says the double "is reachable only where fabrication is
  harmless: SHADOW", and :222-223 "The only way this point is reached is with a live door".
* `AuthoritativeOnlyIfPinned` (`tail_claims.cfg`; gatekeeper/integration.py:120). Where the mode
  cannot be read, the default of the configuration is used, and that is GATEKEEPER
  (gatekeeper/config.py:202): the cascade writes verdicts of record for a run that pinned SHADOW
  or LLM. gatekeeper/integration.py:107-109 says "the fallback is a degraded read, not a licence
  to judge in the wrong mode".
* `OneVerdictPerAnswer` (`tail_claims.cfg` with `Answers <- MCTwoRows`;
  gatekeeper/gates/prompts.py:287). An array of several verdict objects is read by its first one.
  gatekeeper/gates/prompts.py:270-272 says "Both shapes are accepted - the one-element array the
  prompt asks for, and a bare object ... Anything else raises."
* `ConfidenceClamped` (`tail_claims.cfg` with `Answers <- MCNaN`;
  gatekeeper/gates/prompts.py:308). json.loads accepts NaN, and min(max(nan, 0.0), 1.0) is nan: it
  is stored as the confidence of a verdict. gatekeeper/gates/prompts.py:306 says "Clamped, not
  rejected: an out-of-range confidence is the model being sloppy about a number".
* `SpendIsBilled` (`tail_claims.cfg`; gatekeeper/gates/g4.py:309). The tokens of an answer that
  cannot be parsed, and of a 200 without text, are dropped with the exception, though they were
  billed. gatekeeper/clients/vertex.py:59-60 says "the bill is computed from Google's count, so
  the spend counter has to be too".
* `FailureCostsItsPair` (`tail_claims.cfg`; gatekeeper/gates/g4.py:311). float() of a JSON integer
  past the range of a float (prompts.py:302) raises an OverflowError, which the handler of the
  pair does not catch: the execution ends, nothing of its batch is written, and the pairs before
  it were paid for. gatekeeper/gates/g4.py:310 says "Per pair, never per gate".

**DocumentedPrepClaims**

* `NewQuantizerDecides` (`prep_claims.cfg`; scripts/prepare_models.py:177). quantize_int8 returns
  when the scratch directory has an INT8 graph, so a run after a better quantizer was installed
  measures and mirrors the old graph, unless --clean downloads everything again.
  scripts/prepare_models.py:22-23 says "Re-running after a better quantizer lands re-decides each
  row without re-downloading anything".
* `RevisionOfItsWeights` (`prep_claims.cfg`; scripts/prepare_models.py:152). export_fp32 reuses
  the export it finds, of whatever revision, and build_manifest records the revision resolved now.
  scripts/prepare_models.py:110-111 says "the manifest is supposed to make a run reproducible".
* `ScoredAgainstItsParent` (`prep_claims.cfg`; scripts/prepare_models.py:385). rmtree removes
  fp32/ and int8/ one by one; killed in between it leaves an INT8 graph beside which the next run
  exports another revision, and the sanity diff compares the two. scripts/prepare_models.py:13-14
  says "every export is scored against its own fp32 parent".
* `ReusesExports` (`prep_claims.cfg`; scripts/prepare_models.py:152). The reuse test asks whether
  model.onnx and tokenizer.json exist, not whether they are whole; a run killed while it writes
  tokenizer.json leaves a half one, which the next run reuses and, if the quantizer fails, mirrors
  without a sanity diff. scripts/prepare_models.py:144 says "an export already sitting in
  ``destination`` is reused".
* `HalfPublishInvisible` (`prep_claims.cfg`; scripts/prepare_models.py:365). A publish over an
  earlier one replaces the files first, so until its manifest goes up the earlier manifest lists
  digests that the files no longer have, and stays so if the publish is cut short.
  scripts/prepare_models.py:325-326 says "a half-finished publish is invisible rather than
  corrupt".

**DocumentedScoringClaims**

* `OnlyCutPairsReported` (`scoring_claims.cfg`; gatekeeper/scoring/encoder.py:296). The tokenizer
  pads a batch to its longest pair, and the length of the padded ids is compared with the limit,
  so one pair at the limit marks its whole batch truncated. gatekeeper/scoring/encoder.py:20-22
  says "Truncation is reported, not swallowed ... a pair whose evidence was cut off has not really
  been judged".
* `ConfigHasTheWord` (`scoring_claims.cfg` with `Artifacts <- MCRenamed`;
  gatekeeper/scoring/encoder.py:206). The order the roster declares goes before config.json, and
  roster_label_order looks it up by name, so a later version of the artifact with labels of its
  own is read in the order of the earlier one. gatekeeper/scoring/encoder.py:10 says "Label
  mapping is resolved from config.json".

## 6. Not modelled

* Softmax, tokenization, quantization and the distances of the sanity diff: numeric code. A score is
  known by the meaning of its column, a drift is drawn from a set.
* `scripts/probe_label_order.py`: a tool that prints how an artifact scores the fixture.
* The coverage curves of `--sweep`, f1 and the rendering of reports: shown, and nothing is decided on them.
* The field map of the corpus export and its `--inspect`.
* `worker/hydrate.py`, `clients/neo4j.py`: reads whose failure is a gate error.
* HTTP, OIDC, payload parsing, config reading, logging, client wiring, fixtures: they change no
  shared state.
* A page of candidates and the transaction that leases them (`claim_batch`) are one step of
  PairCascade, and so are all batches of a purge (edges.py commits 400 documents at a time) and of a
  reset: what another worker does in between is not seen. The purge and the reset themselves are
  two steps, with a crash in between.
* `Decision.direction`: nothing stores it and nothing reads it.
* More than one ONNX graph in a scratch directory, which `onnx_graph_in` refuses: no entry that is
  exported has an encoder and a decoder.
* Counters, totals, durations and error texts of the run document.
* Two stage-3 runs over the same claims, which share verdict rows.
* Contention of a transaction (`FirestoreTxnError`) as an event: it appears as a crash.

## 7. Plan

Done: modules and runs above, in this order: GatekeeperRuns with its refinement, PairCascade,
GateDecisions, ModelLoader, TailCalls, ReplayCascade, BakeOff with GoBar, EncoderScoring,
ArtifactPrep; the proofs of every safety property of their runs (section 4); and what PairCascade
still promises between `Alone` and stragglers: the one window of a crash, the drain of the newest
run, the cap per worker, the life of its run documents.

Next, proofs:

1. PairCascade and GatekeeperRuns gate by gate: both implement RunLifecycle; that a claim or a
   settlement of a PairCascade document is one GatekeeperRuns allows needs a refinement of the gate
   entries with their attempts and holders.
2. `DurableBarOneWindow` with stragglers: which steps of a straggler beside its purge and reset
   cost a verdict.

Next, modelling: the counters of an execution in PairCascade, to state what `llmSpendUsd` means over
several; a second stage-3 run that shares claims.
