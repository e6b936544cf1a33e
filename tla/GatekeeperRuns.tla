--------------------------- MODULE GatekeeperRuns ---------------------------
(***************************************************************************)
(* The run lifecycle of the gatekeeper: the run documents of the           *)
(* gatekeeper_runs collection and everything that races to change them.    *)
(*                                                                         *)
(*   - the dispatcher, which turns a Pub/Sub message into a claim          *)
(*     transaction and, if the claim wins, into one worker execution;      *)
(*   - the workers, one execution per claim: load the run, work through    *)
(*     the gate renewing its lease, settle it, then publish the next gate  *)
(*     or finalize the run;                                                *)
(*   - the sweeper, which works from a snapshot of the active runs;        *)
(*   - Pub/Sub (at least once, unordered, dead-letters), Cloud Run (task   *)
(*     retries) and the operator's console, modelled from their use.       *)
(*                                                                         *)
(* Every Firestore transaction is one atomic step; everything between two  *)
(* transactions is a step of its own, and any of them may be the last one  *)
(* of a crashing process.                                                  *)
(*                                                                         *)
(* Time is abstracted to what the code tests: a lease is live or expired.  *)
(* Whether a quiet run has been quiet for the grace period is a choice of  *)
(* each sweep.                                                             *)
(***************************************************************************)
EXTENDS Naturals, FiniteSets

CONSTANTS
  Request,         \* runRequestIds, the keys of gatekeeper_runs
  Stage3Run,       \* stage3RunIds
  Stage3RunOf,     \* the stage3RunId a request names
  Owner,           \* lease owners: one fresh identity per won claim
  Sweeper,         \* sweeps that may be in progress at the same time
  None,            \* Python's None
  NumGates,        \* length of GATE_ORDER
  MaxSweeps,       \* gatekeeper.sweep.max-attempts
  MaxTaskRetries,  \* retries of a worker task by Cloud Run
  MaxFaults,       \* bound: crashes, stalls, lost and duplicated messages
  MaxRetriggers    \* bound: FROM_GATE retriggers by the operator

ASSUME RequestAssumption   == Stage3RunOf \in [Request -> Stage3Run]
ASSUME OwnerAssumption     == None \notin Owner
ASSUME NumGatesAssumption  == NumGates \in Nat \ {0}
ASSUME BoundsAssumption    == /\ MaxSweeps \in Nat
                              /\ MaxTaskRetries \in Nat
                              /\ MaxFaults \in Nat
                              /\ MaxRetriggers \in Nat

VARIABLES
  runState,    \* GatekeeperRun.state, or ABSENT while no document exists
  gates,       \* GatekeeperRun.gates
  msgs,        \* messages Pub/Sub still owes the dispatcher
  worker,      \* the execution started for each lease owner
  sweeper,     \* what a sweep in progress still has to do
  faults,      \* faults injected so far
  retriggers   \* operator retriggers so far

vars == <<runState, gates, msgs, worker, sweeper, faults, retriggers>>

-----------------------------------------------------------------------------
(* The documents.                                                          *)

Gate == 1..NumGates          \* position in GATE_ORDER
FirstGate == 1
LastGate == NumGates

RunState == {"ABSENT", "REQUESTED", "RUNNING", "SUCCEEDED", "FAILED", "SUPERSEDED"}
ActiveStates == {"REQUESTED", "RUNNING"}
GateState == {"PENDING", "RUNNING", "SUCCEEDED", "FAILED", "SKIPPED"}
TerminalGateStates == {"SUCCEEDED", "SKIPPED"}
RunMode == {"FULL", "FROM_GATE"}

GateEntry == [state: GateState, attempt: Nat, sweepAttempt: Nat,
              leaseOwner: Owner \union {None}, leaseLive: BOOLEAN]

PendingGate == [state |-> "PENDING", attempt |-> 0, sweepAttempt |-> 0,
                leaseOwner |-> None, leaseLive |-> FALSE]

Message == [run: Request, gate: Gate, mode: RunMode]

FullMessage(r, g) == [run |-> r, gate |-> g, mode |-> "FULL"]
FromGateMessage(r, g) == [run |-> r, gate |-> g, mode |-> "FROM_GATE"]

\* A "rescue" or "stalled" decision is taken from the sweep's snapshot; a
\* "rescued" one is a rescue that committed and has still to publish.
Decision == [kind: {"rescue", "rescued", "stalled"}, run: Request, gate: Gate]

\* fresh: identity not used yet.  claimed: the claim won, run_job not called.
\* launched: the execution is scheduled.  working: run_gate is in its runner.
\* committed: commit_gate returned True.  down: crashed or exited non-zero.
\* done: exited zero, or was never launched.
WorkerPc == {"fresh", "claimed", "launched", "working", "committed", "down", "done"}
Worker == [pc: WorkerPc, run: Request \union {None}, gate: Gate \union {0},
           mode: RunMode, retries: 0..MaxTaskRetries]

FreshWorker == [pc |-> "fresh", run |-> None, gate |-> 0, mode |-> "FULL", retries |-> 0]

WithLease(e, live) == [state |-> e.state, attempt |-> e.attempt, sweepAttempt |-> e.sweepAttempt,
                       leaseOwner |-> e.leaseOwner, leaseLive |-> live]

LeaseHeld(e) == e.state = "RUNNING" /\ e.leaseLive

PriorSucceeded(r, g) == g > FirstGate => gates[r][g - 1].state = "SUCCEEDED"

AllGatesSucceeded(r) == \A g \in Gate : gates[r][g].state \in TerminalGateStates

\* Mutant: the first gate, which has no predecessor, is never actionable.
ActionableAfterFirstGate(r, g) ==
  /\ gates[r][g].state = "PENDING"
  /\ g > FirstGate
  /\ PriorSucceeded(r, g)
  /\ \A h \in 1..(g - 1) : gates[r][h].state \notin {"PENDING", "FAILED"}

\* The first PENDING gate whose predecessor succeeded, unless a gate before
\* it FAILED: what a lost chain message would have driven.
Actionable(r, g) ==
  /\ gates[r][g].state = "PENDING"
  /\ PriorSucceeded(r, g)
  /\ \A h \in 1..(g - 1) : gates[r][h].state \notin {"PENDING", "FAILED"}

\* Worker o holds the lease of the gate it was started for.
Holds(o, r, g) == gates[r][g].state = "RUNNING" /\ gates[r][g].leaseOwner = o

-----------------------------------------------------------------------------
(* Faults and message delivery.                                            *)

Fault == faults < MaxFaults /\ faults' = faults + 1
NoFault == UNCHANGED faults

\* The push is acknowledged, or acknowledged in vain and delivered again.
Acknowledge(m) ==
  \/ msgs' = msgs \ {m} /\ NoFault
  \/ msgs' = msgs /\ Fault

\* After five failed deliveries the subscription moves a message to the DLQ.
DeadLetter(m) ==
  /\ m \in msgs
  /\ msgs' = msgs \ {m}
  /\ Fault
  /\ UNCHANGED <<runState, gates, worker, sweeper, retriggers>>

-----------------------------------------------------------------------------
(* The publisher of runs (vishwamitra) and its operator.                   *)

RequestRun(r) ==
  /\ runState[r] = "ABSENT"
  /\ msgs' = msgs \union {FullMessage(r, FirstGate)}
  /\ UNCHANGED <<runState, gates, worker, sweeper, faults, retriggers>>

\* Retriggering is offered on a failed run and on a gate whose lease expired.
RetriggerFromGate(r, g) ==
  /\ retriggers < MaxRetriggers
  /\ \/ runState[r] = "FAILED"
     \/ runState[r] = "RUNNING" /\ gates[r][g].state = "RUNNING" /\ ~gates[r][g].leaseLive
  /\ msgs' = msgs \union {FromGateMessage(r, g)}
  /\ retriggers' = retriggers + 1
  /\ UNCHANGED <<runState, gates, worker, sweeper, faults>>

-----------------------------------------------------------------------------
(* The dispatcher: one delivery is one claim transaction.                  *)

\* A missing document may only be opened by a FULL message for the first gate.
Opens(m) == runState[m.run] = "ABSENT" /\ m.gate = FirstGate /\ m.mode = "FULL"

\* Mutant: a gate that SUCCEEDED is not refused.
ClaimableAgain(m) ==
  LET e == gates[m.run][m.gate] IN
  /\ runState[m.run] \notin {"ABSENT", "SUPERSEDED", "SUCCEEDED"}
  /\ runState[m.run] = "FAILED" => m.mode = "FROM_GATE"
  /\ PriorSucceeded(m.run, m.gate)
  /\ ~LeaseHeld(e)
  /\ IF m.mode = "FROM_GATE" THEN e.state \in {"FAILED", "RUNNING"}
                             ELSE e.state # "FAILED"

\* Mutant: the mode of the message is never looked at.
ClaimableInAnyMode(m) ==
  LET e == gates[m.run][m.gate] IN
  /\ runState[m.run] \notin {"ABSENT", "SUPERSEDED", "SUCCEEDED"}
  /\ PriorSucceeded(m.run, m.gate)
  /\ ~LeaseHeld(e)
  /\ e.state \notin TerminalGateStates

\* _reject_claim returns None.
Claimable(m) ==
  LET e == gates[m.run][m.gate] IN
  /\ runState[m.run] \notin {"ABSENT", "SUPERSEDED", "SUCCEEDED"}
  /\ runState[m.run] = "FAILED" => m.mode = "FROM_GATE"
  /\ PriorSucceeded(m.run, m.gate)
  /\ ~LeaseHeld(e)
  /\ e.state \notin TerminalGateStates
  /\ IF m.mode = "FROM_GATE" THEN e.state \in {"FAILED", "RUNNING"}
                             ELSE e.state # "FAILED"

\* Mutant: only runs that have not started yet are superseded.
PredecessorsNotStarted(r) ==
  {q \in Request \ {r} : Stage3RunOf[q] = Stage3RunOf[r] /\ runState[q] = "REQUESTED"}

Predecessors(r) ==
  {q \in Request \ {r} : Stage3RunOf[q] = Stage3RunOf[r] /\ runState[q] \in ActiveStates}

Leased(e, o) == [state |-> "RUNNING", attempt |-> e.attempt + 1, sweepAttempt |-> e.sweepAttempt,
                 leaseOwner |-> o, leaseLive |-> TRUE]

\* Mutant: the dispatcher signs with its instance name instead of a fresh one.
StartWorkerAsInstance(o, m) ==
  worker' = [worker EXCEPT ![o] = [pc |-> "claimed", run |-> m.run, gate |-> m.gate,
                                   mode |-> m.mode, retries |-> 0]]

\* The claim won: the identity the dispatcher drew for it owns the gate.
StartWorker(o, m) ==
  /\ worker[o].pc = "fresh"
  /\ worker' = [worker EXCEPT ![o] = [pc |-> "claimed", run |-> m.run, gate |-> m.gate,
                                      mode |-> m.mode, retries |-> 0]]

CreateAndClaim(m, o) ==
  /\ m \in msgs
  /\ Opens(m)
  /\ StartWorker(o, m)
  /\ runState' = [q \in Request |->
                    IF q = m.run THEN "RUNNING"
                    ELSE IF q \in Predecessors(m.run) THEN "SUPERSEDED" ELSE runState[q]]
  /\ gates' = [gates EXCEPT ![m.run] =
                 [g \in Gate |-> IF g = FirstGate THEN Leased(PendingGate, o)
                                                  ELSE PendingGate]]
  /\ Acknowledge(m)
  /\ UNCHANGED <<sweeper, retriggers>>

\* Mutant: the claim forgets to move the run back to RUNNING.
ClaimGateKeepingRunState(m, o) ==
  /\ m \in msgs
  /\ Claimable(m)
  /\ StartWorker(o, m)
  /\ gates' = [gates EXCEPT ![m.run][m.gate] = Leased(@, o)]
  /\ Acknowledge(m)
  /\ UNCHANGED <<runState, sweeper, retriggers>>

ClaimGate(m, o) ==
  /\ m \in msgs
  /\ Claimable(m)
  /\ StartWorker(o, m)
  /\ runState' = [runState EXCEPT ![m.run] = "RUNNING"]
  /\ gates' = [gates EXCEPT ![m.run][m.gate] = Leased(@, o)]
  /\ Acknowledge(m)
  /\ UNCHANGED <<sweeper, retriggers>>

\* A duplicate or stale message: acknowledged and dropped.
DropMessage(m) ==
  /\ m \in msgs
  /\ ~Opens(m)
  /\ ~Claimable(m)
  /\ msgs' = msgs \ {m}
  /\ UNCHANGED <<runState, gates, worker, sweeper, faults, retriggers>>

Launch(o) ==
  /\ worker[o].pc = "claimed"
  /\ worker' = [worker EXCEPT ![o].pc = "launched"]
  /\ UNCHANGED <<runState, gates, msgs, sweeper, faults, retriggers>>

\* run_job raises, or the dispatcher dies between the claim and the launch:
\* the gate stays leased and the push is delivered again.
LaunchFails(o) ==
  /\ worker[o].pc = "claimed"
  /\ worker' = [worker EXCEPT ![o].pc = "done"]
  /\ msgs' = msgs \union {[run |-> worker[o].run, gate |-> worker[o].gate,
                             mode |-> worker[o].mode]}
  /\ Fault
  /\ UNCHANGED <<runState, gates, sweeper, retriggers>>

-----------------------------------------------------------------------------
(* The worker: run_gate.                                                   *)

Exit(o, pc) == worker' = [worker EXCEPT ![o].pc = pc]

LoadRun(o) ==
  LET r == worker[o].run
      g == worker[o].gate
  IN
  /\ worker[o].pc = "launched"
  /\ Exit(o, IF gates[r][g].leaseOwner = o THEN "working" ELSE "down")
  /\ UNCHANGED <<runState, gates, msgs, sweeper, faults, retriggers>>

\* renew_gate_lease, called once per batch.  A worker that has lost the lease
\* leaves its batch loop and goes on to commit_gate, which then refuses it.
RenewLease(o) ==
  LET r == worker[o].run
      g == worker[o].gate
  IN
  /\ worker[o].pc = "working"
  /\ runState[r] \in ActiveStates
  /\ Holds(o, r, g)
  /\ gates' = [gates EXCEPT ![r][g] = WithLease(@, TRUE)]
  /\ UNCHANGED <<runState, msgs, worker, sweeper, faults, retriggers>>

\* Mutant: whoever worked on the gate may settle it.
MaySettleAnyOwner(o) == runState[worker[o].run] # "SUPERSEDED"

\* What _settle_gate requires: a run nobody superseded, a lease nobody took.
MaySettle(o) ==
  LET r == worker[o].run
      g == worker[o].gate
  IN runState[r] # "SUPERSEDED" /\ Holds(o, r, g)

Settled(e, state) == [state |-> state, attempt |-> e.attempt, sweepAttempt |-> e.sweepAttempt,
                      leaseOwner |-> None, leaseLive |-> FALSE]

CommitGate(o) ==
  /\ worker[o].pc = "working"
  /\ MaySettle(o)
  /\ gates' = [gates EXCEPT ![worker[o].run][worker[o].gate] = Settled(@, "SUCCEEDED")]
  /\ Exit(o, "committed")
  /\ UNCHANGED <<runState, msgs, sweeper, faults, retriggers>>

\* The runner raised a GatekeeperError: the gate fails and the run with it.
FailGate(o) ==
  /\ worker[o].pc = "working"
  /\ MaySettle(o)
  /\ gates' = [gates EXCEPT ![worker[o].run][worker[o].gate] = Settled(@, "FAILED")]
  /\ runState' = [runState EXCEPT ![worker[o].run] = "FAILED"]
  /\ Exit(o, "down")
  /\ UNCHANGED <<msgs, sweeper, faults, retriggers>>

\* Mutant: run_gate does not look at what commit_gate returned.
SettleRefusedUnnoticed(o) ==
  /\ worker[o].pc = "working"
  /\ ~MaySettle(o)
  /\ Exit(o, "committed")
  /\ UNCHANGED <<runState, gates, msgs, sweeper, faults, retriggers>>

\* commit_gate or fail_gate returned False: the worker must not publish.
SettleRefused(o) ==
  /\ worker[o].pc = "working"
  /\ ~MaySettle(o)
  /\ Exit(o, "down")
  /\ UNCHANGED <<runState, gates, msgs, sweeper, faults, retriggers>>

\* Mutant: the worker of the last gate publishes too.
PublishNextAlways(o) ==
  /\ worker[o].pc = "committed"
  /\ msgs' = msgs \union {FullMessage(worker[o].run, worker[o].gate + 1)}
  /\ Exit(o, "done")
  /\ UNCHANGED <<runState, gates, sweeper, faults, retriggers>>

PublishNext(o) ==
  LET r == worker[o].run
      g == worker[o].gate
  IN
  /\ worker[o].pc = "committed"
  /\ g # LastGate
  /\ msgs' = msgs \union {FullMessage(r, g + 1)}
  /\ Exit(o, "done")
  /\ UNCHANGED <<runState, gates, sweeper, faults, retriggers>>

\* FINALIZE after the last gate, when the queue reconciles: finalize_run.
FinalizeRun(o) ==
  LET r == worker[o].run IN
  /\ worker[o].pc = "committed"
  /\ worker[o].gate = LastGate
  /\ runState' = IF runState[r] = "RUNNING" /\ AllGatesSucceeded(r)
                   THEN [runState EXCEPT ![r] = "SUCCEEDED"]
                   ELSE runState
  /\ Exit(o, "done")
  /\ UNCHANGED <<gates, msgs, sweeper, faults, retriggers>>

\* Mutant: fail_run does not check that the run is RUNNING.
FailRunUnguarded(o) ==
  /\ worker[o].pc = "committed"
  /\ worker[o].gate = LastGate
  /\ runState' = [runState EXCEPT ![worker[o].run] = "FAILED"]
  /\ Exit(o, "down")
  /\ UNCHANGED <<gates, msgs, sweeper, faults, retriggers>>

\* FINALIZE when some pair is stranded: fail_run, which touches no gate.
FailRun(o) ==
  LET r == worker[o].run IN
  /\ worker[o].pc = "committed"
  /\ worker[o].gate = LastGate
  /\ runState' = IF runState[r] = "RUNNING" THEN [runState EXCEPT ![r] = "FAILED"]
                                            ELSE runState
  /\ Exit(o, "down")
  /\ UNCHANGED <<gates, msgs, sweeper, faults, retriggers>>

\* The process dies, or an error no handler names ends it.
Crash(o) ==
  /\ worker[o].pc \in {"launched", "working", "committed"}
  /\ Exit(o, "down")
  /\ Fault
  /\ UNCHANGED <<runState, gates, msgs, sweeper, retriggers>>

\* Cloud Run restarts a failed task with the same environment.
TaskRetry(o) ==
  /\ worker[o].pc = "down"
  /\ worker[o].retries < MaxTaskRetries
  /\ worker' = [worker EXCEPT ![o].pc = "launched", ![o].retries = @ + 1]
  /\ UNCHANGED <<runState, gates, msgs, sweeper, faults, retriggers>>

-----------------------------------------------------------------------------
(* Time.                                                                   *)

Gone(o) == worker[o].pc \in {"down", "done"}

\* A lease lapses for good once nobody renews it.  That of a worker which is
\* still there lapses only if the worker stalls.
LeaseExpires(r, g) ==
  /\ LeaseHeld(gates[r][g])
  /\ gates' = [gates EXCEPT ![r][g] = WithLease(@, FALSE)]
  /\ IF Gone(gates[r][g].leaseOwner) THEN NoFault ELSE Fault
  /\ UNCHANGED <<runState, msgs, worker, sweeper, retriggers>>

-----------------------------------------------------------------------------
(* The sweeper.                                                            *)

Expired(r) == {g \in Gate : gates[r][g].state = "RUNNING" /\ ~gates[r][g].leaseLive}

Quiet(r) == \A g \in Gate : gates[r][g].state # "RUNNING"

\* What one sweep decides from the runs it read; idle are the runs whose last
\* update is older than the grace period.
Decisions(idle) ==
  LET active == {r \in Request : runState[r] \in ActiveStates} IN
  {d \in Decision :
     \/ d.kind = "rescue" /\ d.run \in active /\ d.gate \in Expired(d.run)
     \/ /\ d.kind = "stalled"
        /\ d.run \in active \intersect idle
        /\ Quiet(d.run)
        /\ Actionable(d.run, d.gate)}

Sweep(s, idle) ==
  /\ sweeper[s] = {}
  /\ Decisions(idle) # {}
  /\ sweeper' = [sweeper EXCEPT ![s] = Decisions(idle)]
  /\ UNCHANGED <<runState, gates, msgs, worker, faults, retriggers>>

\* A sweep publishes what it has just rescued before it looks at the rest.
Publishing(s) == \E d \in sweeper[s] : d.kind = "rescued"

Finish(s, d) == sweeper' = [sweeper EXCEPT ![s] = @ \ {d}]

\* Mutant: the transaction trusts the lease the snapshot saw expire.
RescueDueFromSnapshot(r, g) == runState[r] \in ActiveStates /\ gates[r][g].state = "RUNNING"

\* What rescue_gate checks again inside its transaction.
RescueDue(r, g) == runState[r] \in ActiveStates /\ g \in Expired(r)

\* Someone else was faster, or the worker is alive after all.
SkipRescue(s, d) ==
  /\ d.kind = "rescue"
  /\ ~Publishing(s)
  /\ ~RescueDue(d.run, d.gate)
  /\ Finish(s, d)
  /\ UNCHANGED <<runState, gates, msgs, worker, faults, retriggers>>

\* Mutant: one sweep too many.
SweepsExhaustedLate(r, g) == gates[r][g].sweepAttempt > MaxSweeps

SweepsExhausted(r, g) == gates[r][g].sweepAttempt >= MaxSweeps

Rescued(e) == [state |-> "PENDING", attempt |-> e.attempt, sweepAttempt |-> e.sweepAttempt + 1,
               leaseOwner |-> None, leaseLive |-> FALSE]

\* RESCUED: the gate is PENDING again, and the message is still to be sent.
Rescue(s, d) ==
  /\ d.kind = "rescue"
  /\ ~Publishing(s)
  /\ RescueDue(d.run, d.gate)
  /\ ~SweepsExhausted(d.run, d.gate)
  /\ gates' = [gates EXCEPT ![d.run][d.gate] = Rescued(@)]
  /\ sweeper' = [sweeper EXCEPT ![s] = (@ \ {d}) \union {[d EXCEPT !.kind = "rescued"]}]
  /\ UNCHANGED <<runState, msgs, worker, faults, retriggers>>

\* STUCK: the sweeps of this gate are exhausted.
GiveUp(s, d) ==
  /\ d.kind = "rescue"
  /\ ~Publishing(s)
  /\ RescueDue(d.run, d.gate)
  /\ SweepsExhausted(d.run, d.gate)
  /\ gates' = [gates EXCEPT ![d.run][d.gate] = Settled(@, "FAILED")]
  /\ runState' = [runState EXCEPT ![d.run] = "FAILED"]
  /\ Finish(s, d)
  /\ UNCHANGED <<msgs, worker, faults, retriggers>>

Republish(s, d) ==
  /\ d.kind = "rescued" \/ (d.kind = "stalled" /\ ~Publishing(s))
  /\ msgs' = msgs \union {FullMessage(d.run, d.gate)}
  /\ Finish(s, d)
  /\ UNCHANGED <<runState, gates, worker, faults, retriggers>>

SweepCrash(s) ==
  /\ sweeper[s] # {}
  /\ sweeper' = [sweeper EXCEPT ![s] = {}]
  /\ Fault
  /\ UNCHANGED <<runState, gates, msgs, worker, retriggers>>

-----------------------------------------------------------------------------

Init ==
  /\ runState = [r \in Request |-> "ABSENT"]
  /\ gates = [r \in Request |-> [g \in Gate |-> PendingGate]]
  /\ msgs = {}
  /\ worker = [o \in Owner |-> FreshWorker]
  /\ sweeper = [s \in Sweeper |-> {}]
  /\ faults = 0
  /\ retriggers = 0

Dispatch(m) ==
  \/ \E o \in Owner : CreateAndClaim(m, o) \/ ClaimGate(m, o)
  \/ DropMessage(m)

RunWorker(o) ==
  \/ Launch(o) \/ LoadRun(o) \/ CommitGate(o) \/ FailGate(o) \/ SettleRefused(o)
  \/ PublishNext(o) \/ FinalizeRun(o) \/ FailRun(o)

SweepStep(s) ==
  \E d \in sweeper[s] : \/ SkipRescue(s, d) \/ Rescue(s, d) \/ GiveUp(s, d)
                        \/ Republish(s, d)

Next ==
  \/ \E r \in Request : RequestRun(r)
  \/ \E r \in Request, g \in Gate : RetriggerFromGate(r, g) \/ LeaseExpires(r, g)
  \/ \E m \in msgs : Dispatch(m) \/ DeadLetter(m)
  \/ \E o \in Owner : \/ RunWorker(o) \/ RenewLease(o) \/ LaunchFails(o)
                      \/ Crash(o) \/ TaskRetry(o)
  \/ \E s \in Sweeper : \/ \E idle \in SUBSET Request : Sweep(s, idle)
                        \/ SweepStep(s)
                        \/ SweepCrash(s)

Spec == Init /\ [][Next]_vars

(***************************************************************************)
(* What the deployment gives: Pub/Sub delivers what it does not lose, an   *)
(* execution that does not crash runs on, a lease nobody renews expires,   *)
(* and Cloud Scheduler keeps sweeping until a quiet run is past its grace  *)
(* period.  Nothing is assumed of the operator or of task retries.         *)
(***************************************************************************)
Fairness ==
  /\ \A m \in Message : WF_vars(m \in msgs /\ Dispatch(m))
  /\ \A o \in Owner : WF_vars(RunWorker(o))
  /\ \A r \in Request, g \in Gate :
       WF_vars(LeaseExpires(r, g) /\ Gone(gates[r][g].leaseOwner))
  /\ \A s \in Sweeper : WF_vars(Sweep(s, Request)) /\ WF_vars(SweepStep(s))

FairSpec == Spec /\ Fairness

-----------------------------------------------------------------------------
(* Properties.                                                             *)

\* The variables have the types of the documents, messages and processes.
TypeOK ==
  /\ runState \in [Request -> RunState]
  /\ gates \in [Request -> [Gate -> GateEntry]]
  /\ msgs \subseteq Message
  /\ worker \in [Owner -> Worker]
  /\ sweeper \in [Sweeper -> SUBSET Decision]
  /\ faults \in 0..MaxFaults
  /\ retriggers \in 0..MaxRetriggers

\* The cascade runs in order: a gate that was ever claimed, and is not waiting
\* to be claimed again, has only SUCCEEDED gates before it, whatever messages
\* were duplicated, delayed or republished (claim_gate, rescue_gate).
CascadeOrder ==
  \A r \in Request, g \in Gate :
    gates[r][g].state # "PENDING" => \A h \in 1..(g - 1) : gates[r][h].state = "SUCCEEDED"

\* Commit, then publish: a FULL message for a later gate, in flight or still
\* to be published by a sweep, exists only once its predecessor is durable
\* (run_gate in worker/main.py, Sweeper._rescue).
PublishAfterCommit ==
  /\ \A m \in msgs : m.mode = "FULL" => PriorSucceeded(m.run, m.gate)
  /\ \A s \in Sweeper : \A d \in sweeper[s] : PriorSucceeded(d.run, d.gate)

\* The state of a run agrees with its gates: a SUCCEEDED run has no gate left,
\* a RUNNING run has no FAILED gate, and a FAILED run has a FAILED gate and
\* nothing running, or failed in FINALIZE with every gate done.  A gate that
\* failed, by its own error or by the sweeper giving up, can be retriggered: the
\* claim of a FROM_GATE message for it is never refused.
RunOutcome ==
  \A r \in Request :
    /\ runState[r] = "SUCCEEDED" => AllGatesSucceeded(r)
    /\ runState[r] = "RUNNING" => \A g \in Gate : gates[r][g].state # "FAILED"
    /\ runState[r] = "FAILED" =>
         \/ AllGatesSucceeded(r)
         \/ /\ Quiet(r)
            /\ \E g \in Gate : gates[r][g].state = "FAILED"
            /\ \A g \in Gate : gates[r][g].state = "FAILED" => Claimable(FromGateMessage(r, g))

\* As long as the operator retriggers nothing, a stage-3 run has at most one
\* live gatekeeper run (_create_and_claim, _non_terminal_predecessors).
OneLiveRunUnlessRetriggered ==
  retriggers = 0 =>
    \A q, r \in Request :
      /\ Stage3RunOf[q] = Stage3RunOf[r]
      /\ runState[q] \in ActiveStates
      /\ runState[r] \in ActiveStates
      => q = r

\* Rescues are accounted for: a gate is rescued at most MaxSweeps times, never
\* more often than it was claimed, and the claim being executed is not among
\* the rescued ones.
SweepBudget ==
  \A r \in Request, g \in Gate :
    LET e == gates[r][g] IN
    /\ e.sweepAttempt <= MaxSweeps
    /\ e.sweepAttempt <= e.attempt
    /\ e.state = "RUNNING" => e.sweepAttempt < e.attempt

\* A worker that has lost its lease never holds one again, so none of its
\* transactions can ever apply (_settle_gate, renew_gate_lease).
HoldsSome(o) == \E r \in Request, g \in Gate : Holds(o, r, g)
LostLeaseNeverRegained ==
  [][\A o \in Owner : worker[o].pc # "fresh" /\ ~HoldsSome(o) => ~HoldsSome(o)']_vars

\* A live lease is ended only by its holder: neither a duplicate message nor a
\* sweep acting on a stale snapshot takes a gate from a worker that renewed.
LiveLeaseRespected ==
  [][\A r \in Request, g \in Gate :
       LeaseHeld(gates[r][g]) =>
         LET o == gates[r][g].leaseOwner IN Holds(o, r, g)' \/ worker'[o] # worker[o]]_vars

\* A committed gate is final: no straggler, duplicate or sweep undoes it.
CommittedGateFinal ==
  [][\A r \in Request, g \in Gate :
       gates[r][g].state = "SUCCEEDED" => gates'[r][g] = gates[r][g]]_vars

\* A FAILED gate waits for its operator: it moves only once the operator has asked
\* for this very gate with a FROM_GATE message, never by a FULL one or a sweep.  A
\* FROM_GATE message of an earlier failure that is delivered late counts as asking.
FailedGateWaitsForOperator ==
  [][\A r \in Request, g \in Gate :
       gates[r][g].state = "FAILED" /\ gates'[r][g] # gates[r][g]
         => FromGateMessage(r, g) \in msgs]_vars

\* The poller's view of the runs.
Status ==
  [r \in Request |-> CASE runState[r] = "ABSENT" -> "none"
                       [] runState[r] \in ActiveStates -> "open"
                       [] runState[r] = "FAILED" -> "failed"
                       [] runState[r] = "SUCCEEDED" -> "succeeded"
                       [] runState[r] = "SUPERSEDED" -> "superseded"]
Done == [r \in Request |-> {g \in Gate : gates[r][g].state = "SUCCEEDED"}]

Lifecycle == INSTANCE RunLifecycle WITH status <- Status, done <- Done

\* The documents, whatever races on them, implement the promise of a run.
ImplementsLifecycle == Lifecycle!Spec

\* Whatever finitely many crashes, stalls, lost and duplicated messages happen,
\* a running cascade gets all its gates done, or fails, or is superseded.
CascadeProgress ==
  \A r \in Request : runState[r] = "RUNNING" ~> (runState[r] # "RUNNING" \/ AllGatesSucceeded(r))
=============================================================================
