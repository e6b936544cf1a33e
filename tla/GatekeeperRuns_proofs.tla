------------------------ MODULE GatekeeperRuns_proofs ------------------------
(***************************************************************************)
(* Proofs about GatekeeperRuns, for any number of runs, gates, owners,     *)
(* sweeps and faults.                                                      *)
(***************************************************************************)
EXTENDS GatekeeperRuns, TLAPS

\* A worker that was started has been started for some gate of some run.
WorkersBound ==
  \A o \in Owner : worker[o].pc # "fresh" => worker[o].run \in Request /\ worker[o].gate \in Gate

USE DEF FirstGate, LastGate

-----------------------------------------------------------------------------
(* Operators.                                                              *)

LEMMA GateFacts ==
  /\ 1 \in Gate
  /\ \A g \in Gate : g \in Nat /\ g >= 1 /\ g <= NumGates
  /\ \A g \in Gate : g # NumGates => g + 1 \in Gate
  /\ \A g \in Gate : g > 1 => g - 1 \in Gate
BY NumGatesAssumption DEF Gate

LEMMA PendingGateType == PendingGate \in GateEntry
BY DEF PendingGate, GateEntry, GateState

\* Claiming, settling, rescuing and renewing produce entries of the right type.
LEMMA EntryTypes ==
  \A e \in GateEntry :
    /\ \A o \in Owner : Leased(e, o) \in GateEntry
    /\ Settled(e, "SUCCEEDED") \in GateEntry
    /\ Settled(e, "FAILED") \in GateEntry
    /\ Rescued(e) \in GateEntry
    /\ \A live \in BOOLEAN : WithLease(e, live) \in GateEntry
BY DEF GateEntry, GateState, Leased, Settled, Rescued, WithLease

-----------------------------------------------------------------------------
(* The type invariant.                                                     *)

TypeInv == TypeOK /\ WorkersBound

LEMMA TypeInit == Init => TypeInv
BY PendingGateType, BoundsAssumption
   DEF Init, TypeInv, TypeOK, WorkersBound, RunState, FreshWorker, Worker, WorkerPc, RunMode, Decision

LEMMA TypeStep == ASSUME TypeInv, [Next]_vars PROVE TypeInv'
<1> USE BoundsAssumption, GateFacts DEF TypeInv
<1>1. ASSUME NEW r \in Request, RequestRun(r) PROVE TypeInv'
  BY <1>1 DEF RequestRun, TypeOK, WorkersBound, FullMessage, Message, RunMode
<1>2. ASSUME NEW r \in Request, NEW g \in Gate, RetriggerFromGate(r, g) PROVE TypeInv'
  BY <1>2 DEF RetriggerFromGate, TypeOK, WorkersBound, FromGateMessage, Message, RunMode
<1>3. ASSUME NEW r \in Request, NEW g \in Gate, LeaseExpires(r, g) PROVE TypeInv'
  <2>1. gates' \in [Request -> [Gate -> GateEntry]]
    BY <1>3, EntryTypes DEF LeaseExpires, TypeOK
  <2>2. faults' = faults \/ (faults < MaxFaults /\ faults' = faults + 1)
    BY <1>3 DEF LeaseExpires, Fault, NoFault
  <2>3. faults' \in 0..MaxFaults
    BY <2>2 DEF TypeOK
  <2>4. UNCHANGED <<runState, msgs, worker, sweeper, retriggers>>
    BY <1>3 DEF LeaseExpires
  <2>5. QED
    BY <2>1, <2>3, <2>4 DEF TypeOK, WorkersBound
<1>4. ASSUME NEW m \in msgs, NEW o \in Owner, CreateAndClaim(m, o) PROVE TypeInv'
  <2>1. m \in Message
    BY DEF TypeOK
  <2>2. runState' \in [Request -> RunState]
    BY <1>4, <2>1 DEF CreateAndClaim, TypeOK, RunState
  <2>3. gates' \in [Request -> [Gate -> GateEntry]]
    BY <1>4, <2>1, EntryTypes, PendingGateType DEF CreateAndClaim, TypeOK, Message
  <2>4. worker' \in [Owner -> Worker] /\ WorkersBound'
    BY <1>4, <2>1 DEF CreateAndClaim, StartWorker, TypeOK, WorkersBound, Message, Worker, WorkerPc
  <2>5. msgs' \subseteq Message /\ faults' \in 0..MaxFaults
    BY <1>4 DEF CreateAndClaim, Acknowledge, Fault, NoFault, TypeOK
  <2>6. QED
    BY <1>4, <2>2, <2>3, <2>4, <2>5 DEF CreateAndClaim, TypeOK
<1>5. ASSUME NEW m \in msgs, NEW o \in Owner, ClaimGate(m, o) PROVE TypeInv'
  <2>1. m \in Message
    BY DEF TypeOK
  <2>2. runState' \in [Request -> RunState]
    BY <1>5, <2>1 DEF ClaimGate, TypeOK, RunState
  <2>3. gates' \in [Request -> [Gate -> GateEntry]]
    BY <1>5, <2>1, EntryTypes DEF ClaimGate, TypeOK, Message
  <2>4. worker' \in [Owner -> Worker] /\ WorkersBound'
    BY <1>5, <2>1 DEF ClaimGate, StartWorker, TypeOK, WorkersBound, Message, Worker, WorkerPc
  <2>5. msgs' \subseteq Message /\ faults' \in 0..MaxFaults
    BY <1>5 DEF ClaimGate, Acknowledge, Fault, NoFault, TypeOK
  <2>6. QED
    BY <1>5, <2>2, <2>3, <2>4, <2>5 DEF ClaimGate, TypeOK
<1>6. ASSUME NEW m \in msgs, DropMessage(m) PROVE TypeInv'
  BY <1>6 DEF DropMessage, TypeOK, WorkersBound
<1>7. ASSUME NEW m \in msgs, DeadLetter(m) PROVE TypeInv'
  BY <1>7 DEF DeadLetter, TypeOK, WorkersBound, Fault
<1>8. ASSUME NEW o \in Owner, Launch(o) PROVE TypeInv'
  BY <1>8 DEF Launch, TypeOK, WorkersBound, Worker, WorkerPc
<1>9. ASSUME NEW o \in Owner, LaunchFails(o) PROVE TypeInv'
  BY <1>9 DEF LaunchFails, TypeOK, WorkersBound, Worker, WorkerPc, Fault, Message
<1>10. ASSUME NEW o \in Owner, LoadRun(o) PROVE TypeInv'
  BY <1>10 DEF LoadRun, Exit, TypeOK, WorkersBound, Worker, WorkerPc
<1>11. ASSUME NEW o \in Owner, RenewLease(o) PROVE TypeInv'
  BY <1>11, EntryTypes DEF RenewLease, TypeOK, WorkersBound, Worker, WorkerPc
<1>12. ASSUME NEW o \in Owner, CommitGate(o) PROVE TypeInv'
  BY <1>12, EntryTypes DEF CommitGate, MaySettle, Holds, Exit, TypeOK, WorkersBound, Worker, WorkerPc
<1>13. ASSUME NEW o \in Owner, FailGate(o) PROVE TypeInv'
  BY <1>13, EntryTypes DEF FailGate, MaySettle, Holds, Exit, TypeOK, WorkersBound, Worker, WorkerPc, RunState
<1>14. ASSUME NEW o \in Owner, SettleRefused(o) PROVE TypeInv'
  BY <1>14 DEF SettleRefused, Exit, TypeOK, WorkersBound, Worker, WorkerPc
<1>15. ASSUME NEW o \in Owner, PublishNext(o) PROVE TypeInv'
  BY <1>15 DEF PublishNext, Exit, TypeOK, WorkersBound, Worker, WorkerPc, FullMessage, Message, RunMode
<1>16. ASSUME NEW o \in Owner, FinalizeRun(o) PROVE TypeInv'
  BY <1>16 DEF FinalizeRun, Exit, TypeOK, WorkersBound, Worker, WorkerPc, RunState
<1>17. ASSUME NEW o \in Owner, FailRun(o) PROVE TypeInv'
  BY <1>17 DEF FailRun, Exit, TypeOK, WorkersBound, Worker, WorkerPc, RunState
<1>18. ASSUME NEW o \in Owner, Crash(o) PROVE TypeInv'
  BY <1>18 DEF Crash, Exit, TypeOK, WorkersBound, Worker, WorkerPc, Fault
<1>19. ASSUME NEW o \in Owner, TaskRetry(o) PROVE TypeInv'
  BY <1>19 DEF TaskRetry, TypeOK, WorkersBound, Worker, WorkerPc
<1>20. ASSUME NEW s \in Sweeper, NEW idle \in SUBSET Request, Sweep(s, idle) PROVE TypeInv'
  BY <1>20 DEF Sweep, Decisions, TypeOK, WorkersBound
<1>21. ASSUME NEW s \in Sweeper, NEW d \in sweeper[s], SkipRescue(s, d) PROVE TypeInv'
  BY <1>21 DEF SkipRescue, Finish, TypeOK, WorkersBound
<1>22. ASSUME NEW s \in Sweeper, NEW d \in sweeper[s], Rescue(s, d) PROVE TypeInv'
  BY <1>22, EntryTypes DEF Rescue, TypeOK, WorkersBound, Decision
<1>23. ASSUME NEW s \in Sweeper, NEW d \in sweeper[s], GiveUp(s, d) PROVE TypeInv'
  BY <1>23, EntryTypes DEF GiveUp, Finish, TypeOK, WorkersBound, Decision, RunState
<1>24. ASSUME NEW s \in Sweeper, NEW d \in sweeper[s], Republish(s, d) PROVE TypeInv'
  BY <1>24 DEF Republish, Finish, TypeOK, WorkersBound, Decision, FullMessage, Message, RunMode
<1>25. ASSUME NEW s \in Sweeper, SweepCrash(s) PROVE TypeInv'
  BY <1>25 DEF SweepCrash, TypeOK, WorkersBound, Fault
<1>26. CASE UNCHANGED vars
  BY <1>26 DEF vars, TypeOK, WorkersBound
<1>27. QED
  BY <1>1, <1>2, <1>3, <1>4, <1>5, <1>6, <1>7, <1>8, <1>9, <1>10, <1>11, <1>12, <1>13, <1>14,
     <1>15, <1>16, <1>17, <1>18, <1>19, <1>20, <1>21, <1>22, <1>23, <1>24, <1>25, <1>26
  DEF Next, Dispatch, RunWorker, SweepStep

\* The documents, messages and processes keep their types, and every worker
\* that was started works for a gate of a run.
THEOREM TypeCorrect == Spec => []TypeOK
<1>1. TypeInv /\ [Next]_vars => TypeInv'
  BY TypeStep
<1>2. QED
  BY TypeInit, <1>1, PTL DEF Spec, TypeInv

-----------------------------------------------------------------------------
(* How one step changes one gate, and one worker.                          *)

\* No document, no gate entries: what a new document is created with.
AbsentRuns ==
  \A r \in Request : runState[r] = "ABSENT" => gates[r] = [g \in Gate |-> PendingGate]

\* The gate is claimed for a fresh owner; a FAILED one by a FROM_GATE message.
Claimed(r, g) ==
  /\ gates[r][g].state \notin TerminalGateStates
  /\ gates[r][g].state = "FAILED" => FromGateMessage(r, g) \in msgs
  /\ ~LeaseHeld(gates[r][g])
  /\ PriorSucceeded(r, g)
  /\ runState'[r] = "RUNNING"
  /\ \E o \in Owner :
       /\ worker[o].pc = "fresh"
       /\ gates'[r][g] = Leased(gates[r][g], o)
       /\ worker'[o].pc = "claimed" /\ worker'[o].run = r /\ worker'[o].gate = g

\* The lease of a RUNNING gate is renewed or lapses.
LeaseTimed(r, g) ==
  /\ gates[r][g].state = "RUNNING"
  /\ \E live \in BOOLEAN : gates'[r][g] = WithLease(gates[r][g], live)

\* A RUNNING gate is settled by its holder, or taken from an expired lease.
LeaseEnded(r, g) ==
  LET e == gates[r][g] IN
  /\ e.state = "RUNNING"
  /\ worker'[e.leaseOwner] # worker[e.leaseOwner] \/ ~e.leaseLive
  /\ \/ gates'[r][g] \in {Settled(e, "SUCCEEDED"), Settled(e, "FAILED")}
     \/ e.sweepAttempt < MaxSweeps /\ gates'[r][g] = Rescued(e)

GateStep(r, g) ==
  \/ gates'[r][g] = gates[r][g]
  \/ Claimed(r, g)
  \/ LeaseTimed(r, g)
  \/ LeaseEnded(r, g)

LEMMA GateSteps ==
  ASSUME TypeInv, AbsentRuns, [Next]_vars
  PROVE  \A r \in Request, g \in Gate : GateStep(r, g)
<1> DEFINE Goal == \A r \in Request, g \in Gate : GateStep(r, g)
<1>1. ASSUME UNCHANGED gates PROVE Goal
  BY <1>1 DEF GateStep
<1>2. ASSUME NEW r \in Request, NEW g \in Gate, LeaseExpires(r, g) PROVE Goal
  <2>1. LeaseTimed(r, g)
    BY <1>2 DEF LeaseExpires, LeaseTimed, LeaseHeld, TypeInv, TypeOK
  <2>2. \A q \in Request, h \in Gate : q # r \/ h # g => gates'[q][h] = gates[q][h]
    BY <1>2 DEF LeaseExpires, TypeInv, TypeOK
  <2>3. QED
    BY <2>1, <2>2 DEF GateStep
<1>3. ASSUME NEW m \in msgs, NEW o \in Owner, CreateAndClaim(m, o) PROVE Goal
  <2>1. m \in Message /\ m.run \in Request /\ m.gate = 1 /\ 1 \in Gate
    BY <1>3, GateFacts DEF CreateAndClaim, Opens, TypeInv, TypeOK, Message
  <2>2. gates[m.run] = [g \in Gate |-> PendingGate]
    BY <1>3, <2>1 DEF CreateAndClaim, Opens, AbsentRuns
  <2>3. \A q \in Request, h \in Gate : q # m.run \/ h # 1 => gates'[q][h] = gates[q][h]
    BY <1>3, <2>1, <2>2 DEF CreateAndClaim, TypeInv, TypeOK
  <2>4. gates'[m.run][1] = Leased(gates[m.run][1], o)
    BY <1>3, <2>1, <2>2 DEF CreateAndClaim, TypeInv, TypeOK
  <2>5. worker[o].pc = "fresh" /\ worker'[o].pc = "claimed" /\ worker'[o].run = m.run
          /\ worker'[o].gate = 1
    BY <1>3, <2>1 DEF CreateAndClaim, StartWorker, TypeInv, TypeOK
  <2>6. gates[m.run][1].state = "PENDING"
    BY <2>1, <2>2 DEF PendingGate
  <2>7. runState'[m.run] = "RUNNING"
    BY <1>3, <2>1 DEF CreateAndClaim, TypeInv, TypeOK
  <2>8. Claimed(m.run, 1)
    BY <2>4, <2>5, <2>6, <2>7 DEF Claimed, TerminalGateStates, LeaseHeld, PriorSucceeded
  <2>9. QED
    BY <2>3, <2>8 DEF GateStep
<1>4. ASSUME NEW m \in msgs, NEW o \in Owner, ClaimGate(m, o) PROVE Goal
  <2>1. m \in Message /\ m.run \in Request /\ m.gate \in Gate
    BY DEF TypeInv, TypeOK, Message
  <2>2. \A q \in Request, h \in Gate : q # m.run \/ h # m.gate => gates'[q][h] = gates[q][h]
    BY <1>4, <2>1 DEF ClaimGate, TypeInv, TypeOK
  <2>3. gates'[m.run][m.gate] = Leased(gates[m.run][m.gate], o)
    BY <1>4, <2>1 DEF ClaimGate, TypeInv, TypeOK
  <2>4. worker[o].pc = "fresh" /\ worker'[o].pc = "claimed" /\ worker'[o].run = m.run
          /\ worker'[o].gate = m.gate
    BY <1>4, <2>1 DEF ClaimGate, StartWorker, TypeInv, TypeOK
  <2>5. runState'[m.run] = "RUNNING"
    BY <1>4, <2>1 DEF ClaimGate, TypeInv, TypeOK
  <2>6. gates[m.run][m.gate].state = "FAILED" => FromGateMessage(m.run, m.gate) \in msgs
    BY <1>4, <2>1 DEF ClaimGate, Claimable, FromGateMessage, Message
  <2>7. Claimed(m.run, m.gate)
    BY <1>4, <2>3, <2>4, <2>5, <2>6 DEF ClaimGate, Claimable, Claimed
  <2>8. QED
    BY <2>2, <2>7 DEF GateStep
<1>5. ASSUME NEW o \in Owner, RenewLease(o) PROVE Goal
  <2> DEFINE r == worker[o].run
             g == worker[o].gate
  <2>1. r \in Request /\ g \in Gate
    BY <1>5 DEF RenewLease, TypeInv, WorkersBound
  <2>2. LeaseTimed(r, g)
    BY <1>5, <2>1 DEF RenewLease, Holds, LeaseTimed, TypeInv, TypeOK
  <2>3. \A q \in Request, h \in Gate : q # r \/ h # g => gates'[q][h] = gates[q][h]
    BY <1>5, <2>1 DEF RenewLease, TypeInv, TypeOK
  <2>4. QED
    BY <2>1, <2>2, <2>3 DEF GateStep
<1>6. ASSUME NEW o \in Owner, CommitGate(o) \/ FailGate(o) PROVE Goal
  <2> DEFINE r == worker[o].run
             g == worker[o].gate
  <2>1. r \in Request /\ g \in Gate
    BY <1>6 DEF CommitGate, FailGate, TypeInv, WorkersBound
  <2>2. gates[r][g].state = "RUNNING" /\ gates[r][g].leaseOwner = o
    BY <1>6 DEF CommitGate, FailGate, MaySettle, Holds
  <2>3. worker'[o] # worker[o]
    BY <1>6 DEF CommitGate, FailGate, Exit, TypeInv, TypeOK, Worker
  <2>4. gates'[r][g] \in {Settled(gates[r][g], "SUCCEEDED"), Settled(gates[r][g], "FAILED")}
    BY <1>6, <2>1 DEF CommitGate, FailGate, TypeInv, TypeOK
  <2>5. LeaseEnded(r, g)
    BY <2>2, <2>3, <2>4 DEF LeaseEnded
  <2>6. \A q \in Request, h \in Gate : q # r \/ h # g => gates'[q][h] = gates[q][h]
    BY <1>6, <2>1 DEF CommitGate, FailGate, TypeInv, TypeOK
  <2>7. QED
    BY <2>1, <2>5, <2>6 DEF GateStep
<1>7. ASSUME NEW s \in Sweeper, NEW d \in sweeper[s], Rescue(s, d) \/ GiveUp(s, d) PROVE Goal
  <2>1. d.run \in Request /\ d.gate \in Gate
    BY DEF TypeInv, TypeOK, Decision
  <2>2. gates[d.run][d.gate].state = "RUNNING" /\ ~gates[d.run][d.gate].leaseLive
    BY <1>7 DEF Rescue, GiveUp, RescueDue, Expired
  <2>3. \/ gates'[d.run][d.gate] = Settled(gates[d.run][d.gate], "FAILED")
        \/ /\ gates[d.run][d.gate].sweepAttempt < MaxSweeps
           /\ gates'[d.run][d.gate] = Rescued(gates[d.run][d.gate])
    BY <1>7, <2>1, BoundsAssumption
    DEF Rescue, GiveUp, SweepsExhausted, TypeInv, TypeOK, GateEntry
  <2>4. LeaseEnded(d.run, d.gate)
    BY <2>2, <2>3 DEF LeaseEnded
  <2>5. \A q \in Request, h \in Gate : q # d.run \/ h # d.gate => gates'[q][h] = gates[q][h]
    BY <1>7, <2>1 DEF Rescue, GiveUp, TypeInv, TypeOK
  <2>6. QED
    BY <2>4, <2>5 DEF GateStep
<1>8. QED
  BY <1>1, <1>2, <1>3, <1>4, <1>5, <1>6, <1>7
  DEF Next, Dispatch, RunWorker, SweepStep, vars, RequestRun, RetriggerFromGate, DropMessage,
      DeadLetter, Launch, LaunchFails, LoadRun, SettleRefused, PublishNext, FinalizeRun, FailRun,
      Crash, TaskRetry, Sweep, SkipRescue, Republish, SweepCrash

\* A document, once created, is never absent again.
LEMMA RunSteps ==
  ASSUME TypeInv, [Next]_vars
  PROVE  \A r \in Request : runState'[r] = "ABSENT" => runState[r] = "ABSENT"
<1> DEFINE Goal == \A r \in Request : runState'[r] = "ABSENT" => runState[r] = "ABSENT"
<1>1. ASSUME UNCHANGED runState PROVE Goal
  BY <1>1
<1>2. ASSUME NEW m \in msgs, NEW o \in Owner, CreateAndClaim(m, o) PROVE Goal
  BY <1>2 DEF CreateAndClaim, TypeInv, TypeOK
<1>3. ASSUME NEW m \in msgs, NEW o \in Owner, ClaimGate(m, o) PROVE Goal
  BY <1>3 DEF ClaimGate, TypeInv, TypeOK
<1>4. ASSUME NEW o \in Owner, FailGate(o) \/ FinalizeRun(o) \/ FailRun(o) PROVE Goal
  BY <1>4 DEF FailGate, FinalizeRun, FailRun, TypeInv, TypeOK
<1>5. ASSUME NEW s \in Sweeper, NEW d \in sweeper[s], GiveUp(s, d) PROVE Goal
  BY <1>5 DEF GiveUp, TypeInv, TypeOK
<1>6. QED
  BY <1>1, <1>2, <1>3, <1>4, <1>5
  DEF Next, Dispatch, RunWorker, SweepStep, vars, RequestRun, RetriggerFromGate, LeaseExpires,
      DropMessage, DeadLetter, Launch, LaunchFails, LoadRun, RenewLease, CommitGate,
      SettleRefused, PublishNext, Crash, TaskRetry, Sweep, SkipRescue, Rescue, Republish,
      SweepCrash

-----------------------------------------------------------------------------
(* The invariant the gates keep, and what no step may do to them.          *)

GatesInv == TypeInv /\ AbsentRuns /\ CascadeOrder /\ SweepBudget

LEMMA GatesInit == Init => GatesInv
<1> SUFFICES ASSUME Init PROVE GatesInv
  OBVIOUS
<1>1. \A r \in Request, g \in Gate : gates[r][g] = PendingGate
  BY DEF Init
<1>2. AbsentRuns
  BY DEF Init, AbsentRuns
<1>3. CascadeOrder /\ SweepBudget
  BY <1>1, BoundsAssumption DEF CascadeOrder, SweepBudget, PendingGate
<1>4. QED
  BY <1>2, <1>3, TypeInit DEF GatesInv

LEMMA GatesStep == ASSUME GatesInv, [Next]_vars PROVE GatesInv'
<1> USE GateFacts DEF GatesInv
<1>1. TypeInv'
  BY TypeStep
<1>2. \A r \in Request, g \in Gate : GateStep(r, g)
  BY GateSteps
<1>3. ASSUME NEW r \in Request, NEW g \in Gate, gates[r][g].state = "SUCCEEDED"
      PROVE  gates'[r][g] = gates[r][g]
  BY <1>2, <1>3 DEF GateStep, Claimed, LeaseTimed, LeaseEnded, TerminalGateStates
<1>4. AbsentRuns'
  <2> SUFFICES ASSUME NEW r \in Request, runState'[r] = "ABSENT"
               PROVE  gates'[r] = [g \in Gate |-> PendingGate]
    BY DEF AbsentRuns
  <2>1. gates[r] = [g \in Gate |-> PendingGate]
    BY RunSteps DEF AbsentRuns
  <2>2. ASSUME NEW g \in Gate PROVE gates'[r][g] = PendingGate
    <3>1. gates[r][g] = PendingGate /\ gates[r][g].state = "PENDING"
      BY <2>1 DEF PendingGate
    <3>2. gates'[r][g] = gates[r][g]
      BY <1>2, <3>1 DEF GateStep, Claimed, LeaseTimed, LeaseEnded
    <3>3. QED
      BY <3>1, <3>2
  <2>3. QED
    BY <1>1, <2>2 DEF TypeInv, TypeOK
<1>5. CascadeOrder'
  <2> SUFFICES ASSUME NEW r \in Request, NEW g \in Gate, gates'[r][g].state # "PENDING",
                      NEW h \in 1..(g - 1)
               PROVE  gates'[r][h].state = "SUCCEEDED"
    BY DEF CascadeOrder
  <2>1. h \in Gate
    BY NumGatesAssumption DEF Gate
  <2>2. CASE gates[r][g].state # "PENDING"
    BY <1>3, <2>1, <2>2 DEF CascadeOrder
  <2>3. CASE Claimed(r, g)
    <3>1. g - 1 \in Gate /\ gates[r][g - 1].state = "SUCCEEDED"
      BY <2>3 DEF Claimed, PriorSucceeded
    <3>2. gates[r][h].state = "SUCCEEDED"
      BY <3>1 DEF CascadeOrder
    <3>3. QED
      BY <1>3, <2>1, <3>2
  <2>4. QED
    BY <1>2, <2>2, <2>3 DEF GateStep, LeaseTimed, LeaseEnded
<1>6. SweepBudget'
  <2> SUFFICES ASSUME NEW r \in Request, NEW g \in Gate
               PROVE  LET e == gates'[r][g] IN
                      /\ e.sweepAttempt <= MaxSweeps
                      /\ e.sweepAttempt <= e.attempt
                      /\ e.state = "RUNNING" => e.sweepAttempt < e.attempt
    BY DEF SweepBudget
  <2>1. gates[r][g] \in GateEntry
    BY DEF TypeInv, TypeOK
  <2>2. /\ gates[r][g].sweepAttempt <= MaxSweeps
        /\ gates[r][g].sweepAttempt <= gates[r][g].attempt
        /\ gates[r][g].state = "RUNNING" => gates[r][g].sweepAttempt < gates[r][g].attempt
    BY DEF SweepBudget
  <2>3. CASE gates'[r][g] = gates[r][g]
    BY <2>2, <2>3
  <2>4. CASE Claimed(r, g)
    BY <2>1, <2>2, <2>4 DEF Claimed, Leased, GateEntry
  <2>5. CASE LeaseTimed(r, g)
    BY <2>1, <2>2, <2>5 DEF LeaseTimed, WithLease, GateEntry
  <2>6. CASE LeaseEnded(r, g)
    BY <2>1, <2>2, <2>6, BoundsAssumption DEF LeaseEnded, Settled, Rescued, GateEntry
  <2>7. QED
    BY <1>2, <2>3, <2>4, <2>5, <2>6 DEF GateStep
<1>7. QED
  BY <1>1, <1>4, <1>5, <1>6

LEMMA GatesCorrect == Spec => []GatesInv
<1>1. GatesInv /\ [Next]_vars => GatesInv'
  BY GatesStep
<1>2. QED
  BY GatesInit, <1>1, PTL DEF Spec

\* The cascade runs in order, for any number of gates: whatever is duplicated,
\* delayed, republished or rescued, a claimed gate has only SUCCEEDED gates
\* before it.
THEOREM CascadeInOrder == Spec => []CascadeOrder
BY GatesCorrect, PTL DEF GatesInv

\* The sweeper rescues a gate at most MaxSweeps times, and never more often
\* than it was claimed.
THEOREM SweepsBounded == Spec => []SweepBudget
BY GatesCorrect, PTL DEF GatesInv

\* No straggler, duplicate or sweep undoes a committed gate.
THEOREM CommitsFinal == Spec => CommittedGateFinal
<1>1. GatesInv /\ [Next]_vars =>
        [\A r \in Request, g \in Gate :
           gates[r][g].state = "SUCCEEDED" => gates'[r][g] = gates[r][g]]_vars
  BY GateSteps DEF GatesInv, GateStep, Claimed, LeaseTimed, LeaseEnded, TerminalGateStates
<1>2. QED
  BY <1>1, GatesCorrect, PTL DEF Spec, CommittedGateFinal

\* A live lease ends only by a step of its holder.
THEOREM LiveLeasesRespected == Spec => LiveLeaseRespected
<1>1. ASSUME GatesInv, [Next]_vars, NEW r \in Request, NEW g \in Gate, LeaseHeld(gates[r][g]),
             NEW o, o = gates[r][g].leaseOwner, worker'[o] = worker[o]
      PROVE  gates'[r][g].state = "RUNNING" /\ gates'[r][g].leaseOwner = o
  <2>1. GateStep(r, g) /\ ~Claimed(r, g)
    BY <1>1, GateSteps DEF GatesInv, Claimed
  <2>2. CASE LeaseTimed(r, g)
    <3>1. /\ gates'[r][g].leaseOwner = gates[r][g].leaseOwner
          /\ gates'[r][g].state = gates[r][g].state
      BY <2>2 DEF LeaseTimed, WithLease
    <3>2. QED
      BY <1>1, <2>2, <3>1 DEF LeaseTimed
  <2>3. ~LeaseEnded(r, g)
    BY <1>1 DEF LeaseEnded, LeaseHeld
  <2>4. QED
    BY <1>1, <2>1, <2>2, <2>3 DEF GateStep, LeaseHeld
<1>2. GatesInv /\ [Next]_vars =>
        [\A r \in Request, g \in Gate :
           LeaseHeld(gates[r][g]) =>
             LET o == gates[r][g].leaseOwner IN Holds(o, r, g)' \/ worker'[o] # worker[o]]_vars
  BY <1>1 DEF Holds
<1>3. QED
  BY <1>2, GatesCorrect, PTL DEF Spec, LiveLeaseRespected

\* A worker that has lost its lease never holds one again.
THEOREM LostLeasesStayLost == Spec => LostLeaseNeverRegained
<1>1. ASSUME GatesInv, [Next]_vars, NEW o \in Owner, worker[o].pc # "fresh",
             NEW r \in Request, NEW g \in Gate,
             gates'[r][g].state = "RUNNING", gates'[r][g].leaseOwner = o
      PROVE  gates[r][g].state = "RUNNING" /\ gates[r][g].leaseOwner = o
  <2>1. GateStep(r, g)
    BY <1>1, GateSteps DEF GatesInv
  <2>2. CASE Claimed(r, g)
    <3>1. PICK p \in Owner : worker[p].pc = "fresh" /\ gates'[r][g] = Leased(gates[r][g], p)
      BY <2>2 DEF Claimed
    <3>2. gates'[r][g].leaseOwner = p
      BY <3>1 DEF Leased
    <3>3. QED
      BY <1>1, <3>1, <3>2
  <2>3. CASE LeaseTimed(r, g)
    <3>1. gates'[r][g].leaseOwner = gates[r][g].leaseOwner
      BY <2>3 DEF LeaseTimed, WithLease
    <3>2. QED
      BY <1>1, <2>3, <3>1 DEF LeaseTimed
  <2>4. ~LeaseEnded(r, g)
    BY <1>1 DEF LeaseEnded, Settled, Rescued
  <2>5. QED
    BY <1>1, <2>1, <2>2, <2>3, <2>4 DEF GateStep
<1>2. GatesInv /\ [Next]_vars =>
        [\A o \in Owner : worker[o].pc # "fresh" /\ ~HoldsSome(o) => ~HoldsSome(o)']_vars
  BY <1>1 DEF HoldsSome, Holds
<1>3. QED
  BY <1>2, GatesCorrect, PTL DEF Spec, LostLeaseNeverRegained

\* A FAILED gate moves only where a FROM_GATE message for it was published.
THEOREM FailedGatesWait == Spec => FailedGateWaitsForOperator
<1>1. GatesInv /\ [Next]_vars =>
        [\A r \in Request, g \in Gate :
           gates[r][g].state = "FAILED" /\ gates'[r][g] # gates[r][g]
             => FromGateMessage(r, g) \in msgs]_vars
  BY GateSteps DEF GatesInv, GateStep, Claimed, LeaseTimed, LeaseEnded
<1>2. QED
  BY <1>1, GatesCorrect, PTL DEF Spec, FailedGateWaitsForOperator

-----------------------------------------------------------------------------
(* How one step changes one worker, and what is published and decided.     *)

\* A claim wins and draws a fresh identity for the gate of its message.
Started(o) ==
  /\ worker[o].pc = "fresh"
  /\ \E m \in msgs :
       /\ worker'[o] = [pc |-> "claimed", run |-> m.run, gate |-> m.gate,
                        mode |-> m.mode, retries |-> 0]
       /\ PriorSucceeded(m.run, m.gate)

\* A worker goes on, for the same gate of the same run; it only gets past its
\* commit by committing.
Advanced(o) ==
  /\ worker[o].pc # "fresh"
  /\ worker'[o].run = worker[o].run
  /\ worker'[o].gate = worker[o].gate
  /\ worker'[o].mode = worker[o].mode
  /\ worker'[o].pc # "fresh"
  /\ worker'[o].pc = "committed" => gates'[worker[o].run][worker[o].gate].state = "SUCCEEDED"

WorkerStep(o) ==
  \/ worker'[o] = worker[o]
  \/ Started(o)
  \/ Advanced(o)

LEMMA WorkerSteps ==
  ASSUME TypeInv, [Next]_vars
  PROVE  \A o \in Owner : WorkerStep(o)
<1> DEFINE Goal == \A o \in Owner : WorkerStep(o)
<1>1. ASSUME UNCHANGED worker PROVE Goal
  BY <1>1 DEF WorkerStep
<1>2. ASSUME NEW m \in msgs, NEW o \in Owner, CreateAndClaim(m, o) \/ ClaimGate(m, o) PROVE Goal
  <2>1. PriorSucceeded(m.run, m.gate)
    BY <1>2 DEF CreateAndClaim, ClaimGate, Opens, Claimable, PriorSucceeded
  <2>2. /\ worker[o].pc = "fresh"
        /\ worker' = [worker EXCEPT ![o] = [pc |-> "claimed", run |-> m.run, gate |-> m.gate,
                                            mode |-> m.mode, retries |-> 0]]
    BY <1>2 DEF CreateAndClaim, ClaimGate, StartWorker
  <2>3. Started(o)
    BY <2>1, <2>2 DEF Started, TypeInv, TypeOK
  <2>4. \A p \in Owner : p # o => worker'[p] = worker[p]
    BY <2>2 DEF TypeInv, TypeOK
  <2>5. QED
    BY <2>3, <2>4 DEF WorkerStep
<1>3. ASSUME NEW o \in Owner, NEW pc, worker' = [worker EXCEPT ![o].pc = pc],
             worker[o].pc # "fresh", pc # "fresh",
             pc = "committed" => gates'[worker[o].run][worker[o].gate].state = "SUCCEEDED"
      PROVE  Goal
  BY <1>3 DEF WorkerStep, Advanced, TypeInv, TypeOK, Worker
<1>4. ASSUME NEW o \in Owner, CommitGate(o) PROVE Goal
  <2>1. worker[o].run \in Request /\ worker[o].gate \in Gate
    BY <1>4 DEF CommitGate, TypeInv, WorkersBound
  <2>2. gates'[worker[o].run][worker[o].gate].state = "SUCCEEDED"
    BY <1>4, <2>1 DEF CommitGate, Settled, TypeInv, TypeOK
  <2>3. QED
    BY <1>3, <1>4, <2>2 DEF CommitGate, Exit
<1>5. ASSUME NEW o \in Owner, TaskRetry(o) PROVE Goal
  BY <1>5 DEF TaskRetry, WorkerStep, Advanced, TypeInv, TypeOK, Worker
<1>6. ASSUME NEW o \in Owner, Launch(o) \/ LaunchFails(o) PROVE Goal
  BY <1>3, <1>6 DEF Launch, LaunchFails
<1>7. ASSUME NEW o \in Owner, LoadRun(o) PROVE Goal
  BY <1>3, <1>7 DEF LoadRun, Exit
<1>8. ASSUME NEW o \in Owner, FailGate(o) \/ SettleRefused(o) \/ Crash(o) PROVE Goal
  BY <1>3, <1>8 DEF FailGate, SettleRefused, Crash, Exit
<1>9. ASSUME NEW o \in Owner, PublishNext(o) \/ FinalizeRun(o) \/ FailRun(o) PROVE Goal
  BY <1>3, <1>9 DEF PublishNext, FinalizeRun, FailRun, Exit
<1>10. QED
  BY <1>1, <1>2, <1>4, <1>5, <1>6, <1>7, <1>8, <1>9
  DEF Next, Dispatch, RunWorker, SweepStep, vars, RequestRun, RetriggerFromGate, DropMessage,
      DeadLetter, LeaseExpires, RenewLease, Sweep, SkipRescue, Rescue, GiveUp, Republish, SweepCrash

\* Where a new message comes from: the publisher, the operator, a launch that
\* failed, a worker that committed, or a sweep.
Published(m) ==
  \/ \E r \in Request : m = FullMessage(r, FirstGate)
  \/ m.mode = "FROM_GATE" /\ retriggers' > 0
  \/ \E o \in Owner :
       /\ worker[o].pc = "claimed"
       /\ m.run = worker[o].run /\ m.gate = worker[o].gate /\ m.mode = worker[o].mode
  \/ \E o \in Owner :
       /\ worker[o].pc = "committed" /\ worker[o].gate # LastGate
       /\ m = FullMessage(worker[o].run, worker[o].gate + 1)
  \/ \E s \in Sweeper : \E d \in sweeper[s] : m = FullMessage(d.run, d.gate)

LEMMA MessageSteps ==
  ASSUME TypeInv, [Next]_vars
  PROVE  /\ \A m \in msgs' : m \in msgs \/ Published(m)
         /\ retriggers' = 0 => retriggers = 0
<1> DEFINE Goal == /\ \A m \in msgs' : m \in msgs \/ Published(m)
                   /\ retriggers' = 0 => retriggers = 0
<1>1. ASSUME msgs' \subseteq msgs, UNCHANGED retriggers PROVE Goal
  BY <1>1
<1>2. ASSUME NEW r \in Request, RequestRun(r) PROVE Goal
  BY <1>2 DEF RequestRun, Published
<1>3. ASSUME NEW r \in Request, NEW g \in Gate, RetriggerFromGate(r, g) PROVE Goal
  BY <1>3 DEF RetriggerFromGate, Published, FromGateMessage, TypeInv, TypeOK
<1>4. ASSUME NEW m \in msgs, NEW o \in Owner, CreateAndClaim(m, o) \/ ClaimGate(m, o) PROVE Goal
  BY <1>4 DEF CreateAndClaim, ClaimGate, Acknowledge
<1>5. ASSUME NEW o \in Owner, LaunchFails(o) PROVE Goal
  BY <1>5 DEF LaunchFails, Published
<1>6. ASSUME NEW o \in Owner, PublishNext(o) PROVE Goal
  BY <1>6 DEF PublishNext, Published
<1>7. ASSUME NEW s \in Sweeper, NEW d \in sweeper[s], Republish(s, d) PROVE Goal
  BY <1>7 DEF Republish, Published
<1>8. QED
  BY <1>1, <1>2, <1>3, <1>4, <1>5, <1>6, <1>7
  DEF Next, Dispatch, RunWorker, SweepStep, vars, DropMessage, DeadLetter, LeaseExpires, Launch,
      LoadRun, RenewLease, CommitGate, FailGate, SettleRefused, FinalizeRun, FailRun, Crash,
      TaskRetry, Sweep, SkipRescue, Rescue, GiveUp, SweepCrash

\* A sweep has to do what it had to do, or what it has just decided.
LEMMA SweeperSteps ==
  ASSUME TypeInv, [Next]_vars, NEW s \in Sweeper, NEW d \in sweeper'[s]
  PROVE  \/ \E b \in sweeper[s] : b.run = d.run /\ b.gate = d.gate
         \/ d \in Decision /\ d.gate \in Expired(d.run)
         \/ d \in Decision /\ Actionable(d.run, d.gate)
<1> DEFINE Goal == \/ \E b \in sweeper[s] : b.run = d.run /\ b.gate = d.gate
                   \/ d \in Decision /\ d.gate \in Expired(d.run)
                   \/ d \in Decision /\ Actionable(d.run, d.gate)
<1>1. ASSUME UNCHANGED sweeper PROVE Goal
  BY <1>1
<1>2. ASSUME NEW w \in Sweeper, NEW idle \in SUBSET Request, Sweep(w, idle) PROVE Goal
  BY <1>2 DEF Sweep, Decisions, TypeInv, TypeOK
<1>3. ASSUME NEW w \in Sweeper, NEW b \in sweeper[w], Rescue(w, b) PROVE Goal
  <2>1. b \in Decision
    BY DEF TypeInv, TypeOK
  <2>2. CASE s # w
    BY <1>3, <2>2 DEF Rescue, TypeInv, TypeOK
  <2>3. CASE s = w
    <3>1. d \in sweeper[w] \/ d = [b EXCEPT !.kind = "rescued"]
      BY <1>3, <2>3 DEF Rescue, TypeInv, TypeOK
    <3>2. QED
      BY <2>1, <2>3, <3>1 DEF Decision
  <2>4. QED
    BY <2>2, <2>3
<1>4. ASSUME NEW w \in Sweeper, NEW b \in sweeper[w],
             SkipRescue(w, b) \/ GiveUp(w, b) \/ Republish(w, b) PROVE Goal
  BY <1>4 DEF SkipRescue, GiveUp, Republish, Finish, TypeInv, TypeOK
<1>5. ASSUME NEW w \in Sweeper, SweepCrash(w) PROVE Goal
  BY <1>5 DEF SweepCrash, TypeInv, TypeOK
<1>6. QED
  BY <1>1, <1>2, <1>3, <1>4, <1>5
  DEF Next, Dispatch, RunWorker, SweepStep, vars, RequestRun, RetriggerFromGate, LeaseExpires,
      CreateAndClaim, ClaimGate, DropMessage, DeadLetter, Launch, LaunchFails, LoadRun, RenewLease,
      CommitGate, FailGate, SettleRefused, PublishNext, FinalizeRun, FailRun, Crash, TaskRetry

-----------------------------------------------------------------------------
(* Commit, then publish.                                                   *)

LEMMA CommittedStay ==
  ASSUME GatesInv, [Next]_vars, NEW r \in Request, NEW g \in Gate,
         gates[r][g].state = "SUCCEEDED"
  PROVE  gates'[r][g].state = "SUCCEEDED"
BY GateSteps DEF GatesInv, GateStep, Claimed, LeaseTimed, LeaseEnded, TerminalGateStates

LEMMA PriorsStay ==
  ASSUME GatesInv, [Next]_vars, NEW r \in Request, NEW g \in Gate, PriorSucceeded(r, g)
  PROVE  PriorSucceeded(r, g)'
BY CommittedStay, GateFacts DEF PriorSucceeded

\* A worker works for a gate whose turn has come, and one that committed, did.
WorkersBacked ==
  \A o \in Owner : worker[o].pc # "fresh" =>
    /\ PriorSucceeded(worker[o].run, worker[o].gate)
    /\ worker[o].pc = "committed" => gates[worker[o].run][worker[o].gate].state = "SUCCEEDED"

PublishInv == GatesInv /\ WorkersBacked /\ PublishAfterCommit

LEMMA PublishStep == ASSUME PublishInv, [Next]_vars PROVE PublishInv'
<1> USE DEF PublishInv, GatesInv
<1>1. GatesInv'
  BY GatesStep
<1>2. WorkersBacked'
  <2> SUFFICES ASSUME NEW o \in Owner, worker'[o].pc # "fresh"
               PROVE  /\ PriorSucceeded(worker[o].run, worker[o].gate)'
                      /\ worker'[o].pc = "committed" =>
                           gates'[worker'[o].run][worker'[o].gate].state = "SUCCEEDED"
    BY DEF WorkersBacked
  <2>1. WorkerStep(o)
    BY WorkerSteps
  <2>2. worker'[o].run \in Request /\ worker'[o].gate \in Gate
    BY <1>1 DEF TypeInv, WorkersBound
  <2>3. CASE worker'[o] = worker[o]
    BY <2>2, <2>3, CommittedStay, GateFacts DEF WorkersBacked, PriorSucceeded
  <2>4. CASE Started(o)
    BY <2>2, <2>4, CommittedStay, GateFacts DEF Started, PriorSucceeded
  <2>5. CASE Advanced(o)
    BY <2>2, <2>5, CommittedStay, GateFacts DEF Advanced, WorkersBacked, PriorSucceeded
  <2>6. QED
    BY <2>1, <2>3, <2>4, <2>5 DEF WorkerStep
<1>3. ASSUME NEW m \in msgs', m.mode = "FULL" PROVE PriorSucceeded(m.run, m.gate)'
  <2>1. m.run \in Request /\ m.gate \in Gate
    BY <1>1 DEF TypeInv, TypeOK, Message
  <2>2. SUFFICES PriorSucceeded(m.run, m.gate)
    BY <2>1, PriorsStay
  <2>3. CASE m \in msgs
    BY <1>3, <2>3 DEF PublishAfterCommit
  <2>4. ASSUME NEW r \in Request, m = FullMessage(r, FirstGate) PROVE PriorSucceeded(m.run, m.gate)
    BY <2>4 DEF FullMessage, PriorSucceeded
  <2>5. ASSUME NEW o \in Owner, worker[o].pc = "claimed", m.run = worker[o].run,
               m.gate = worker[o].gate
        PROVE  PriorSucceeded(m.run, m.gate)
    BY <2>5 DEF WorkersBacked
  <2>6. ASSUME NEW o \in Owner, worker[o].pc = "committed", worker[o].gate # LastGate,
               m = FullMessage(worker[o].run, worker[o].gate + 1)
        PROVE  PriorSucceeded(m.run, m.gate)
    <3>1. worker[o].gate \in Gate
      BY <2>6 DEF TypeInv, WorkersBound
    <3>2. m.run = worker[o].run /\ m.gate - 1 = worker[o].gate
      BY <2>6, <3>1, GateFacts DEF FullMessage
    <3>3. QED
      BY <2>6, <3>2 DEF WorkersBacked, PriorSucceeded
  <2>7. ASSUME NEW s \in Sweeper, NEW d \in sweeper[s], m = FullMessage(d.run, d.gate)
        PROVE  PriorSucceeded(m.run, m.gate)
    BY <2>7 DEF FullMessage, PublishAfterCommit
  <2>8. QED
    BY <1>3, <2>3, <2>4, <2>5, <2>6, <2>7, MessageSteps DEF Published
<1>4. ASSUME NEW s \in Sweeper, NEW d \in sweeper'[s] PROVE PriorSucceeded(d.run, d.gate)'
  <2>1. d.run \in Request /\ d.gate \in Gate
    BY <1>1 DEF TypeInv, TypeOK, Decision
  <2>2. SUFFICES PriorSucceeded(d.run, d.gate)
    BY <2>1, PriorsStay
  <2>3. ASSUME NEW b \in sweeper[s], b.run = d.run, b.gate = d.gate
        PROVE  PriorSucceeded(d.run, d.gate)
    BY <2>3 DEF PublishAfterCommit
  <2>4. CASE d.gate \in Expired(d.run)
    <3>1. \A h \in 1..(d.gate - 1) : gates[d.run][h].state = "SUCCEEDED"
      BY <2>1, <2>4 DEF Expired, CascadeOrder
    <3>2. QED
      BY <2>1, <3>1, GateFacts DEF PriorSucceeded
  <2>5. CASE Actionable(d.run, d.gate)
    BY <2>5 DEF Actionable
  <2>6. QED
    BY <2>3, <2>4, <2>5, SweeperSteps
<1>5. PublishAfterCommit'
  BY <1>3, <1>4 DEF PublishAfterCommit
<1>6. QED
  BY <1>1, <1>2, <1>5

LEMMA PublishCorrect == Spec => []PublishInv
<1>1. Init => PublishInv
  BY GatesInit DEF Init, PublishInv, WorkersBacked, PublishAfterCommit, FreshWorker
<1>2. PublishInv /\ [Next]_vars => PublishInv'
  BY PublishStep
<1>3. QED
  BY <1>1, <1>2, PTL DEF Spec

\* Commit, then publish: no FULL message for a gate, and no decision to send
\* one, exists before the predecessor of that gate is durably SUCCEEDED.
THEOREM CommitBeforePublish == Spec => []PublishAfterCommit
BY PublishCorrect, PTL DEF PublishInv

-----------------------------------------------------------------------------
(* How one step changes the state of one run.                              *)

\* The document of r is created; the open runs of its stage-3 run are superseded.
Opened(r) ==
  /\ runState[r] = "ABSENT"
  /\ runState' = [q \in Request |-> IF q = r THEN "RUNNING"
                                    ELSE IF q \in Predecessors(r) THEN "SUPERSEDED"
                                    ELSE runState[q]]

\* Of the gates of r, only g changes.
OnlyGate(r, g) == \A h \in Gate : h # g => gates'[r][h] = gates[r][h]

\* A claim leaves or makes a run RUNNING, a failed one by a FROM_GATE message.
ClaimedIn(r) ==
  /\ runState'[r] = "RUNNING"
  /\ runState[r] \in ActiveStates \union {"FAILED"}
  /\ \E g \in Gate :
       /\ Claimed(r, g)
       /\ OnlyGate(r, g)
       /\ runState[r] = "FAILED" =>
            gates[r][g].state \in {"FAILED", "RUNNING"} /\ FromGateMessage(r, g) \in msgs

\* The run fails with a gate, by its worker or by the sweeper.
GateFailed(r) ==
  /\ runState'[r] = "FAILED"
  /\ runState[r] # "SUPERSEDED"
  /\ \E g \in Gate : /\ gates[r][g].state = "RUNNING"
                     /\ gates'[r][g] = Settled(gates[r][g], "FAILED")
                     /\ OnlyGate(r, g)

\* FINALIZE, after the last gate has committed.
Finalized(r) ==
  /\ runState[r] = "RUNNING"
  /\ gates'[r] = gates[r]
  /\ \E o \in Owner : worker[o].pc = "committed" /\ worker[o].run = r /\ worker[o].gate = LastGate
  /\ \/ runState'[r] = "FAILED"
     \/ runState'[r] = "SUCCEEDED" /\ AllGatesSucceeded(r)

\* Nothing happens to the run, and none of its gates fails.
RunStands(r) ==
  /\ runState'[r] = runState[r]
  /\ \A g \in Gate : gates'[r][g].state = "FAILED" => gates[r][g].state = "FAILED"

RunStep(r) ==
  \/ RunStands(r)
  \/ \E q \in Request : Opened(q) /\ gates'[r] = [gates EXCEPT ![q] = gates'[q]][r]
  \/ ClaimedIn(r)
  \/ GateFailed(r)
  \/ Finalized(r)

LEMMA RunStateSteps ==
  ASSUME TypeInv, AbsentRuns, [Next]_vars
  PROVE  \A r \in Request : RunStep(r)
<1> DEFINE Goal == \A r \in Request : RunStep(r)
<1> USE DEF TypeInv
<1>1. ASSUME UNCHANGED <<runState, gates>> PROVE Goal
  BY <1>1 DEF RunStep, RunStands
<1>2. ASSUME NEW r \in Request, NEW g \in Gate, LeaseExpires(r, g) PROVE Goal
  BY <1>2 DEF LeaseExpires, LeaseHeld, WithLease, RunStep, RunStands, TypeOK
<1>3. ASSUME NEW m \in msgs, NEW o \in Owner, CreateAndClaim(m, o) PROVE Goal
  <2>1. m.run \in Request
    BY DEF TypeOK, Message
  <2>2. Opened(m.run)
    BY <1>3 DEF CreateAndClaim, Opens, Opened
  <2>3. \A r \in Request : gates'[r] = [gates EXCEPT ![m.run] = gates'[m.run]][r]
    BY <1>3, <2>1 DEF CreateAndClaim, TypeOK
  <2>4. QED
    BY <2>1, <2>2, <2>3 DEF RunStep
<1>4. ASSUME NEW m \in msgs, NEW o \in Owner, ClaimGate(m, o) PROVE Goal
  <2>1. m \in Message /\ m.run \in Request /\ m.gate \in Gate
    BY DEF TypeOK, Message
  <2>2. \A q \in Request : q # m.run => gates'[q] = gates[q] /\ runState'[q] = runState[q]
    BY <1>4, <2>1 DEF ClaimGate, TypeOK
  <2>3. OnlyGate(m.run, m.gate) /\ runState'[m.run] = "RUNNING"
    BY <1>4, <2>1 DEF ClaimGate, OnlyGate, TypeOK
  <2>4. gates'[m.run][m.gate] = Leased(gates[m.run][m.gate], o)
    BY <1>4, <2>1 DEF ClaimGate, TypeOK
  <2>5. worker[o].pc = "fresh" /\ worker'[o].pc = "claimed" /\ worker'[o].run = m.run
          /\ worker'[o].gate = m.gate
    BY <1>4, <2>1 DEF ClaimGate, StartWorker, TypeOK
  <2>6. m.mode = "FROM_GATE" => m = FromGateMessage(m.run, m.gate)
    BY <2>1 DEF Message, FromGateMessage
  <2>7. Claimed(m.run, m.gate)
    BY <1>4, <2>1, <2>3, <2>4, <2>5, <2>6 DEF ClaimGate, Claimable, Claimed, Message, RunMode
  <2>8. runState[m.run] \in ActiveStates \union {"FAILED"}
    BY <1>4, <2>1 DEF ClaimGate, Claimable, ActiveStates, TypeOK, RunState
  <2>9. runState[m.run] = "FAILED" =>
          /\ gates[m.run][m.gate].state \in {"FAILED", "RUNNING"}
          /\ FromGateMessage(m.run, m.gate) \in msgs
    BY <1>4, <2>6 DEF ClaimGate, Claimable
  <2>10. ClaimedIn(m.run)
    BY <2>1, <2>3, <2>7, <2>8, <2>9 DEF ClaimedIn
  <2>11. QED
    BY <2>2, <2>10 DEF RunStep, RunStands
<1>5. ASSUME NEW o \in Owner, RenewLease(o) PROVE Goal
  <2>1. worker[o].run \in Request /\ worker[o].gate \in Gate
    BY <1>5 DEF RenewLease, WorkersBound
  <2>2. QED
    BY <1>5, <2>1 DEF RenewLease, Holds, WithLease, RunStep, RunStands, TypeOK
<1>6. ASSUME NEW o \in Owner, CommitGate(o) PROVE Goal
  <2>1. worker[o].run \in Request /\ worker[o].gate \in Gate
    BY <1>6 DEF CommitGate, WorkersBound
  <2>2. QED
    BY <1>6, <2>1 DEF CommitGate, Settled, RunStep, RunStands, TypeOK
<1>7. ASSUME NEW o \in Owner, FailGate(o) PROVE Goal
  <2> DEFINE r == worker[o].run
             g == worker[o].gate
  <2>1. r \in Request /\ g \in Gate
    BY <1>7 DEF FailGate, WorkersBound
  <2>2. \A q \in Request : q # r => gates'[q] = gates[q] /\ runState'[q] = runState[q]
    BY <1>7, <2>1 DEF FailGate, TypeOK
  <2>3. /\ runState'[r] = "FAILED" /\ runState[r] # "SUPERSEDED" /\ gates[r][g].state = "RUNNING"
        /\ gates'[r][g] = Settled(gates[r][g], "FAILED") /\ OnlyGate(r, g)
    BY <1>7, <2>1 DEF FailGate, MaySettle, Holds, OnlyGate, TypeOK
  <2>4. GateFailed(r)
    BY <2>1, <2>3 DEF GateFailed
  <2>5. QED
    BY <2>2, <2>4 DEF RunStep, RunStands
<1>8. ASSUME NEW s \in Sweeper, NEW d \in sweeper[s], Rescue(s, d) PROVE Goal
  <2>1. d.run \in Request /\ d.gate \in Gate
    BY DEF TypeOK, Decision
  <2>2. QED
    BY <1>8, <2>1 DEF Rescue, Rescued, RunStep, RunStands, TypeOK
<1>9. ASSUME NEW s \in Sweeper, NEW d \in sweeper[s], GiveUp(s, d) PROVE Goal
  <2>1. d.run \in Request /\ d.gate \in Gate
    BY DEF TypeOK, Decision
  <2>2. \A q \in Request : q # d.run => gates'[q] = gates[q] /\ runState'[q] = runState[q]
    BY <1>9, <2>1 DEF GiveUp, TypeOK
  <2>3. /\ runState'[d.run] = "FAILED" /\ runState[d.run] # "SUPERSEDED"
        /\ gates[d.run][d.gate].state = "RUNNING"
        /\ gates'[d.run][d.gate] = Settled(gates[d.run][d.gate], "FAILED")
        /\ OnlyGate(d.run, d.gate)
    BY <1>9, <2>1 DEF GiveUp, RescueDue, Expired, ActiveStates, OnlyGate, TypeOK
  <2>4. GateFailed(d.run)
    BY <2>1, <2>3 DEF GateFailed
  <2>5. QED
    BY <2>2, <2>4 DEF RunStep, RunStands
<1>10. ASSUME NEW o \in Owner, FinalizeRun(o) \/ FailRun(o) PROVE Goal
  <2>1. worker[o].run \in Request /\ UNCHANGED gates
    BY <1>10 DEF FinalizeRun, FailRun, WorkersBound
  <2>2. \A q \in Request : q # worker[o].run => runState'[q] = runState[q]
    BY <1>10, <2>1 DEF FinalizeRun, FailRun, TypeOK
  <2>3. runState'[worker[o].run] = runState[worker[o].run] \/ Finalized(worker[o].run)
    BY <1>10, <2>1 DEF FinalizeRun, FailRun, Finalized, TypeOK
  <2>4. QED
    BY <2>1, <2>2, <2>3 DEF RunStep, RunStands
<1>11. QED
  BY <1>1, <1>2, <1>3, <1>4, <1>5, <1>6, <1>7, <1>8, <1>9, <1>10
  DEF Next, Dispatch, RunWorker, SweepStep, vars, RequestRun, RetriggerFromGate, DropMessage,
      DeadLetter, Launch, LaunchFails, LoadRun, SettleRefused, PublishNext, Crash, TaskRetry,
      Sweep, SkipRescue, Republish, SweepCrash

-----------------------------------------------------------------------------
(* A run and its gates agree.                                              *)

NeverRequested == \A r \in Request : runState[r] # "REQUESTED"

OutcomeInv == PublishInv /\ NeverRequested /\ RunOutcome

\* The cascade is done when its last gate is.
LEMMA LastGateDone ==
  ASSUME CascadeOrder, NEW r \in Request, gates[r][NumGates].state = "SUCCEEDED"
  PROVE  \A g \in Gate : gates[r][g].state = "SUCCEEDED"
BY NumGatesAssumption DEF CascadeOrder, Gate

\* Around a gate that runs or failed, those before it are done and those after
\* it have not begun.
LEMMA OneGateAtATime ==
  ASSUME CascadeOrder, NEW r \in Request, NEW g \in Gate,
         gates[r][g].state \in {"RUNNING", "FAILED"}
  PROVE  \A h \in Gate : /\ h < g => gates[r][h].state = "SUCCEEDED"
                         /\ h > g => gates[r][h].state = "PENDING"
<1> USE NumGatesAssumption DEF Gate
<1>1. \A h \in Gate : h < g => gates[r][h].state = "SUCCEEDED"
  BY DEF CascadeOrder
<1>2. \A h \in Gate : h > g /\ gates[r][h].state # "PENDING" => gates[r][g].state = "SUCCEEDED"
  BY DEF CascadeOrder
<1>3. QED
  BY <1>1, <1>2

\* Only a run that is RUNNING has a RUNNING gate, unless it was superseded.
LEMMA RunningGate ==
  ASSUME OutcomeInv, NEW r \in Request, NEW g \in Gate, gates[r][g].state = "RUNNING",
         runState[r] # "SUPERSEDED"
  PROVE  runState[r] = "RUNNING"
<1>1. runState[r] # "ABSENT"
  BY DEF OutcomeInv, PublishInv, GatesInv, AbsentRuns, PendingGate
<1>2. runState[r] # "SUCCEEDED" /\ runState[r] # "FAILED"
  BY DEF OutcomeInv, RunOutcome, AllGatesSucceeded, Quiet, TerminalGateStates
<1>3. QED
  BY <1>1, <1>2 DEF OutcomeInv, PublishInv, GatesInv, TypeInv, TypeOK, RunState, NeverRequested

LEMMA OutcomeStep == ASSUME OutcomeInv, [Next]_vars PROVE OutcomeInv'
<1> USE DEF OutcomeInv, PublishInv, GatesInv
<1>1. PublishInv'
  BY PublishStep
<1>2. NeverRequested'
  <2> SUFFICES ASSUME NEW r \in Request PROVE runState'[r] # "REQUESTED"
    BY DEF NeverRequested
  <2>1. RunStep(r)
    BY RunStateSteps
  <2>2. QED
    BY <2>1 DEF RunStep, RunStands, Opened, ClaimedIn, GateFailed, Finalized, NeverRequested
<1>3. ASSUME NEW r \in Request
      PROVE  /\ runState'[r] = "SUCCEEDED" => AllGatesSucceeded(r)'
             /\ runState'[r] = "RUNNING" => \A g \in Gate : gates'[r][g].state # "FAILED"
             /\ runState'[r] = "FAILED" =>
                  \/ AllGatesSucceeded(r)'
                  \/ /\ Quiet(r)'
                     /\ \E g \in Gate : gates'[r][g].state = "FAILED"
                     /\ \A g \in Gate : gates'[r][g].state = "FAILED" =>
                          Claimable(FromGateMessage(r, g))'
  <2> DEFINE Goal == /\ runState'[r] = "SUCCEEDED" => AllGatesSucceeded(r)'
                     /\ runState'[r] = "RUNNING" => \A g \in Gate : gates'[r][g].state # "FAILED"
                     /\ runState'[r] = "FAILED" =>
                          \/ AllGatesSucceeded(r)'
                          \/ /\ Quiet(r)'
                             /\ \E g \in Gate : gates'[r][g].state = "FAILED"
                             /\ \A g \in Gate : gates'[r][g].state = "FAILED" =>
                                  Claimable(FromGateMessage(r, g))'
  <2>1. RunStep(r) /\ \A g \in Gate : GateStep(r, g)
    BY RunStateSteps, GateSteps
  <2>2. CASE RunStands(r)
    <3>1. CASE runState[r] = "SUCCEEDED"
      BY <2>1, <2>2, <3>1
      DEF RunStands, RunOutcome, AllGatesSucceeded, TerminalGateStates, GateStep, Claimed,
          LeaseTimed, LeaseEnded
    <3>2. CASE runState[r] = "RUNNING"
      BY <2>2, <3>2 DEF RunStands, RunOutcome
    <3>3. CASE runState[r] = "FAILED"
      <4>1. \A g \in Gate : gates[r][g].state # "RUNNING"
        BY <3>3 DEF RunOutcome, AllGatesSucceeded, TerminalGateStates, Quiet
      <4>2. \A g \in Gate : gates'[r][g] = gates[r][g]
        BY <2>1, <2>2, <3>3, <4>1 DEF RunStands, GateStep, Claimed, LeaseTimed, LeaseEnded
      <4>3. CASE AllGatesSucceeded(r)
        BY <2>2, <3>3, <4>2, <4>3 DEF RunStands, AllGatesSucceeded
      <4>4. CASE Quiet(r) /\ \E g \in Gate : gates[r][g].state = "FAILED"
        <5>1. Quiet(r)' /\ \E g \in Gate : gates'[r][g].state = "FAILED"
          BY <4>2, <4>4 DEF Quiet
        <5>2. ASSUME NEW g \in Gate, gates'[r][g].state = "FAILED"
              PROVE  Claimable(FromGateMessage(r, g))'
          <6>1. PriorSucceeded(r, g)'
            <7>1. \A h \in 1..(g - 1) : gates'[r][h].state = "SUCCEEDED"
              BY <1>1, <5>2 DEF CascadeOrder
            <7>2. QED
              BY <7>1, GateFacts DEF PriorSucceeded
          <6>2. QED
            BY <2>2, <3>3, <5>2, <6>1
            DEF RunStands, Claimable, FromGateMessage, LeaseHeld, TerminalGateStates
        <5>3. QED
          BY <2>2, <3>3, <5>1, <5>2 DEF RunStands
      <4>5. QED
        BY <3>3, <4>3, <4>4 DEF RunOutcome
    <3>4. CASE runState[r] \notin {"SUCCEEDED", "RUNNING", "FAILED"}
      BY <2>2, <3>4 DEF RunStands
    <3>5. QED
      BY <3>1, <3>2, <3>3, <3>4
  <2>3. ASSUME NEW q \in Request, Opened(q), gates'[r] = [gates EXCEPT ![q] = gates'[q]][r]
        PROVE  Goal
    <3>1. CASE r = q
      <4>1. \A g \in Gate : gates[r][g].state = "PENDING"
        BY <2>3, <3>1 DEF Opened, AbsentRuns, PendingGate
      <4>2. ASSUME NEW g \in Gate PROVE gates'[r][g].state # "FAILED"
        <5>1. gates'[r][g] = gates[r][g] \/ Claimed(r, g)
          BY <2>1, <4>1 DEF GateStep, LeaseTimed, LeaseEnded
        <5>2. Claimed(r, g) => gates'[r][g].state = "RUNNING"
          BY DEF Claimed, Leased
        <5>3. QED
          BY <4>1, <5>1, <5>2
      <4>3. runState'[r] = "RUNNING"
        BY <2>3, <3>1 DEF Opened
      <4>4. QED
        BY <4>2, <4>3
    <3>2. CASE r # q
      <4>1. gates'[r] = gates[r]
        BY <2>3, <3>2 DEF TypeInv, TypeOK
      <4>2. runState'[r] = "SUPERSEDED" \/ runState'[r] = runState[r]
        BY <2>3, <3>2 DEF Opened
      <4>3. CASE runState'[r] = runState[r]
        <5>1. \A g \in Gate : Claimable(FromGateMessage(r, g)) => Claimable(FromGateMessage(r, g))'
          BY <4>1, <4>3 DEF Claimable, FromGateMessage, PriorSucceeded
        <5>2. /\ AllGatesSucceeded(r) => AllGatesSucceeded(r)'
              /\ Quiet(r) => Quiet(r)'
          BY <4>1 DEF AllGatesSucceeded, Quiet
        <5>3. QED
          BY <4>1, <4>3, <5>1, <5>2 DEF RunOutcome
      <4>4. QED
        BY <4>2, <4>3
    <3>3. QED
      BY <3>1, <3>2
  <2>4. CASE ClaimedIn(r)
    <3>1. PICK g \in Gate :
            /\ Claimed(r, g)
            /\ OnlyGate(r, g)
            /\ runState[r] = "FAILED" => gates[r][g].state \in {"FAILED", "RUNNING"}
      BY <2>4 DEF ClaimedIn
    <3>2. gates'[r][g].state = "RUNNING"
      BY <3>1 DEF Claimed, Leased
    <3>3. \A h \in Gate : h # g => gates[r][h].state # "FAILED"
      <4>1. CASE runState[r] = "FAILED"
        BY <3>1, <4>1, OneGateAtATime, GateFacts
      <4>2. CASE runState[r] = "RUNNING"
        BY <4>2 DEF RunOutcome
      <4>3. QED
        BY <2>4, <4>1, <4>2 DEF ClaimedIn, ActiveStates, NeverRequested
    <3>4. QED
      BY <2>4, <3>1, <3>2, <3>3 DEF ClaimedIn, OnlyGate
  <2>5. CASE GateFailed(r)
    <3>1. PICK g \in Gate : /\ gates[r][g].state = "RUNNING"
                            /\ gates'[r][g] = Settled(gates[r][g], "FAILED")
                            /\ OnlyGate(r, g)
      BY <2>5 DEF GateFailed
    <3>2. \A h \in Gate : /\ h < g => gates[r][h].state = "SUCCEEDED"
                          /\ h > g => gates[r][h].state = "PENDING"
      BY <3>1, OneGateAtATime
    <3>3. gates'[r][g].state = "FAILED" /\ ~gates'[r][g].leaseLive
      BY <3>1 DEF Settled
    <3>4. \A h \in Gate : h # g => gates'[r][h].state \in {"SUCCEEDED", "PENDING"}
      BY <3>1, <3>2, GateFacts DEF OnlyGate
    <3>5. PriorSucceeded(r, g)'
      BY <3>1, <3>2, GateFacts DEF OnlyGate, PriorSucceeded
    <3>6. Claimable(FromGateMessage(r, g))'
      BY <2>5, <3>3, <3>5
      DEF GateFailed, Claimable, FromGateMessage, LeaseHeld, TerminalGateStates
    <3>7. QED
      BY <2>5, <3>3, <3>4, <3>6 DEF GateFailed, Quiet
  <2>6. CASE Finalized(r)
    <3>1. \A g \in Gate : gates[r][g].state = "SUCCEEDED"
      BY <2>6, LastGateDone DEF Finalized, WorkersBacked
    <3>2. AllGatesSucceeded(r)'
      BY <2>6, <3>1 DEF Finalized, AllGatesSucceeded, TerminalGateStates
    <3>3. QED
      BY <2>6, <3>2 DEF Finalized
  <2>7. QED
    BY <2>1, <2>2, <2>3, <2>4, <2>5, <2>6 DEF RunStep
<1>4. RunOutcome'
  BY <1>3 DEF RunOutcome
<1>5. QED
  BY <1>1, <1>2, <1>4

LEMMA OutcomeInit == Init => OutcomeInv
<1> SUFFICES ASSUME Init PROVE OutcomeInv
  OBVIOUS
<1>1. PublishInv
  BY GatesInit DEF Init, PublishInv, WorkersBacked, PublishAfterCommit, FreshWorker
<1>2. NeverRequested /\ RunOutcome
  BY DEF Init, NeverRequested, RunOutcome
<1>3. QED
  BY <1>1, <1>2 DEF OutcomeInv

LEMMA OutcomeCorrect == Spec => []OutcomeInv
<1>1. OutcomeInv /\ [Next]_vars => OutcomeInv'
  BY OutcomeStep
<1>2. QED
  BY OutcomeInit, <1>1, PTL DEF Spec

\* The state of a run agrees with its gates, and a gate that failed can always
\* be retriggered.
THEOREM OutcomesAgree == Spec => []RunOutcome
BY OutcomeCorrect, PTL DEF OutcomeInv

-----------------------------------------------------------------------------
(* One live run of a stage-3 run.                                          *)

\* While the operator retriggers nothing, there is no FROM_GATE message, nor a
\* worker that could have one sent again.
OperatorSilent ==
  retriggers = 0 => /\ \A m \in msgs : m.mode = "FULL"
                    /\ \A o \in Owner : worker[o].mode = "FULL"

OneLiveInv == OutcomeInv /\ OperatorSilent /\ OneLiveRunUnlessRetriggered

LEMMA OneLiveStep == ASSUME OneLiveInv, [Next]_vars PROVE OneLiveInv'
<1> USE DEF OneLiveInv, OutcomeInv, PublishInv, GatesInv
<1>1. OutcomeInv'
  BY OutcomeStep
<1>2. OperatorSilent'
  <2> SUFFICES ASSUME retriggers' = 0
               PROVE  /\ \A m \in msgs' : m.mode = "FULL"
                      /\ \A o \in Owner : worker'[o].mode = "FULL"
    BY DEF OperatorSilent
  <2>1. retriggers = 0 /\ \A m \in msgs' : m \in msgs \/ Published(m)
    BY MessageSteps
  <2>2. \A m \in msgs' : m.mode = "FULL"
    BY <2>1 DEF Published, FullMessage, OperatorSilent
  <2>3. ASSUME NEW o \in Owner PROVE worker'[o].mode = "FULL"
    <3>1. WorkerStep(o) /\ worker[o].mode = "FULL" /\ \A m \in msgs : m.mode = "FULL"
      BY <2>1, WorkerSteps DEF OperatorSilent
    <3>2. CASE Started(o)
      <4>1. PICK m \in msgs : worker'[o] = [pc |-> "claimed", run |-> m.run, gate |-> m.gate,
                                            mode |-> m.mode, retries |-> 0]
        BY <3>2 DEF Started
      <4>2. QED
        BY <3>1, <4>1
    <3>3. QED
      BY <3>1, <3>2 DEF WorkerStep, Advanced
  <2>4. QED
    BY <2>2, <2>3
<1>3. OneLiveRunUnlessRetriggered'
  <2> SUFFICES ASSUME retriggers' = 0, NEW q \in Request, NEW r \in Request,
                      Stage3RunOf[q] = Stage3RunOf[r],
                      runState'[q] \in ActiveStates, runState'[r] \in ActiveStates
               PROVE  q = r
    BY DEF OneLiveRunUnlessRetriggered
  <2>1. retriggers = 0
    BY MessageSteps
  <2>2. CASE \E p \in Request : Opened(p)
    <3>1. PICK p \in Request : Opened(p)
      BY <2>2
    <3>2. \A k \in {q, r} : k # p => runState[k] \in ActiveStates /\ k \notin Predecessors(p)
      BY <3>1 DEF Opened, ActiveStates
    <3>3. \A k \in {q, r} : k # p => Stage3RunOf[k] # Stage3RunOf[p]
      BY <3>2 DEF Predecessors
    <3>4. CASE q # p /\ r # p
      BY <2>1, <3>2, <3>4 DEF OneLiveRunUnlessRetriggered
    <3>5. QED
      BY <3>3, <3>4
  <2>3. CASE ~\E p \in Request : Opened(p)
    <3>1. \A k \in {q, r} : runState[k] \in ActiveStates
      <4> SUFFICES ASSUME NEW k \in {q, r} PROVE runState[k] \in ActiveStates
        OBVIOUS
      <4>1. RunStep(k) /\ runState'[k] \in ActiveStates
        BY RunStateSteps
      <4>2. CASE ClaimedIn(k)
        BY <2>1, <4>2 DEF ClaimedIn, FromGateMessage, OperatorSilent
      <4>3. QED
        BY <2>3, <4>1, <4>2 DEF RunStep, RunStands, GateFailed, Finalized, ActiveStates
    <3>2. QED
      BY <2>1, <3>1 DEF OneLiveRunUnlessRetriggered
  <2>4. QED
    BY <2>2, <2>3
<1>4. QED
  BY <1>1, <1>2, <1>3

\* As long as the operator retriggers nothing, a stage-3 run has at most one
\* live gatekeeper run.
THEOREM OneLiveRunCorrect == Spec => []OneLiveRunUnlessRetriggered
<1>1. Init => OperatorSilent /\ OneLiveRunUnlessRetriggered
  BY DEF Init, OperatorSilent, OneLiveRunUnlessRetriggered, FreshWorker, ActiveStates
<1>2. Init => OneLiveInv
  BY <1>1, OutcomeInit DEF OneLiveInv
<1>3. OneLiveInv /\ [Next]_vars => OneLiveInv'
  BY OneLiveStep
<1>4. OneLiveInv => OneLiveRunUnlessRetriggered
  BY DEF OneLiveInv
<1>5. QED
  BY <1>2, <1>3, <1>4, PTL DEF Spec

-----------------------------------------------------------------------------
(* Every step is one of RunLifecycle, or a stutter.                        *)

\* What the poller sees of each state.
LEMMA StatusValues ==
  ASSUME TypeInv, NEW r \in Request
  PROVE  /\ runState[r] = "ABSENT" => Status[r] = "none"
         /\ runState[r] \in ActiveStates => Status[r] = "open"
         /\ runState[r] = "FAILED" => Status[r] = "failed"
         /\ runState[r] = "SUCCEEDED" => Status[r] = "succeeded"
         /\ runState[r] = "SUPERSEDED" => Status[r] = "superseded"
         /\ Status[r] = "open" => runState[r] \in ActiveStates
BY DEF TypeInv, TypeOK, RunState, ActiveStates, Status

LEMMA StatusType ==
  ASSUME TypeInv
  PROVE  Status \in [Request -> {"none", "open", "failed", "succeeded", "superseded"}]
BY DEF TypeInv, TypeOK, RunState, ActiveStates, Status

LEMMA StatusKept == ASSUME UNCHANGED runState PROVE UNCHANGED Status
BY DEF Status

\* While no gate commits, none is added to what is done.
LEMMA DoneKept ==
  ASSUME GatesInv, [Next]_vars,
         \A r \in Request, g \in Gate :
           gates'[r][g].state = "SUCCEEDED" => gates[r][g].state = "SUCCEEDED"
  PROVE  UNCHANGED Done
<1>1. \A r \in Request, g \in Gate :
        gates'[r][g].state = "SUCCEEDED" <=> gates[r][g].state = "SUCCEEDED"
  BY CommittedStay
<1>2. QED
  BY <1>1 DEF Done

\* What is done of a run with a RUNNING gate is the gates before it.
LEMMA DoneBefore ==
  ASSUME CascadeOrder, NEW r \in Request, NEW g \in Gate, gates[r][g].state = "RUNNING"
  PROVE  Done[r] = 1..(g - 1)
<1>1. \A h \in Gate : gates[r][h].state = "SUCCEEDED" <=> h < g
  BY OneGateAtATime, GateFacts
<1>2. QED
  BY <1>1, NumGatesAssumption DEF Done, Gate

LEMMA Refines == ASSUME OutcomeInv, OutcomeInv', [Next]_vars
                 PROVE  [Lifecycle!Next]_Lifecycle!lifecycleVars
<1> DEFINE Goal == [Lifecycle!Next]_Lifecycle!lifecycleVars
<1> USE DEF OutcomeInv, PublishInv, GatesInv
<1>0. /\ Status \in [Request -> {"none", "open", "failed", "succeeded", "superseded"}]
      /\ Status' \in [Request -> {"none", "open", "failed", "succeeded", "superseded"}]
  BY StatusType DEF TypeInv, TypeOK, RunState, ActiveStates, Status
<1>1. ASSUME UNCHANGED Status, UNCHANGED Done PROVE Goal
  BY <1>1 DEF Lifecycle!lifecycleVars
<1>2. ASSUME UNCHANGED <<runState, gates>> PROVE Goal
  <2>1. UNCHANGED Done
    BY <1>2 DEF Done
  <2>2. QED
    BY <1>1, <1>2, <2>1, StatusKept
<1>3. ASSUME NEW r \in Request, NEW g \in Gate, LeaseExpires(r, g) PROVE Goal
  <2>1. UNCHANGED Done
    BY <1>3, DoneKept DEF LeaseExpires, WithLease, TypeInv, TypeOK
  <2>2. QED
    BY <1>1, <1>3, <2>1, StatusKept DEF LeaseExpires
<1>4. ASSUME NEW m \in msgs, NEW o \in Owner, CreateAndClaim(m, o) PROVE Goal
  <2>1. m.run \in Request /\ runState[m.run] = "ABSENT"
    BY <1>4 DEF CreateAndClaim, Opens, TypeInv, TypeOK, Message
  <2>2. runState' = [q \in Request |-> IF q = m.run THEN "RUNNING"
                                       ELSE IF q \in Predecessors(m.run) THEN "SUPERSEDED"
                                       ELSE runState[q]]
    BY <1>4 DEF CreateAndClaim
  <2>3. UNCHANGED Done
    <3>1. \A r \in Request, g \in Gate :
            gates'[r][g].state = "SUCCEEDED" => gates[r][g].state = "SUCCEEDED"
      BY <1>4, <2>1 DEF CreateAndClaim, Leased, PendingGate, TypeInv, TypeOK
    <3>2. QED
      BY <3>1, DoneKept
  <2>4. Status' = [q \in Request |->
                     IF q = m.run THEN "open"
                     ELSE IF Status[q] = "open" /\ Stage3RunOf[q] = Stage3RunOf[m.run]
                            THEN "superseded"
                            ELSE Status[q]]
    <3> DEFINE Opening == [q \in Request |->
                     IF q = m.run THEN "open"
                     ELSE IF Status[q] = "open" /\ Stage3RunOf[q] = Stage3RunOf[m.run]
                            THEN "superseded"
                            ELSE Status[q]]
    <3>1. ASSUME NEW q \in Request PROVE Status'[q] = Opening[q]
      <4>1. CASE q = m.run
        BY <2>1, <2>2, <4>1 DEF Status, ActiveStates
      <4>2. CASE q # m.run /\ runState[q] \in ActiveStates
                  /\ Stage3RunOf[q] = Stage3RunOf[m.run]
        <5>1. runState'[q] = "SUPERSEDED" /\ Status[q] = "open"
          BY <2>2, <4>2, StatusValues DEF Predecessors
        <5>2. Status'[q] = "superseded"
          BY <5>1 DEF Status, ActiveStates
        <5>3. QED
          BY <4>2, <5>1, <5>2
      <4>3. CASE q # m.run /\ ~(runState[q] \in ActiveStates
                                 /\ Stage3RunOf[q] = Stage3RunOf[m.run])
        <5>1. runState'[q] = runState[q]
          BY <2>2, <4>3 DEF Predecessors
        <5>2. Status'[q] = Status[q]
          BY <5>1 DEF Status, ActiveStates, TypeInv, TypeOK, RunState
        <5>3. Status[q] = "open" => runState[q] \in ActiveStates
          BY StatusValues
        <5>4. QED
          BY <4>3, <5>2, <5>3
      <4>4. QED
        BY <4>1, <4>2, <4>3
    <3>2. QED
      BY <1>0, <3>1
  <2>5. Status[m.run] = "none"
    BY <2>1, StatusValues
  <2>6. Lifecycle!Open(m.run)
    BY <2>3, <2>4, <2>5 DEF Lifecycle!Open
  <2>7. QED
    BY <2>1, <2>6 DEF Lifecycle!Next
\* A run whose state alone changes.
<1>5. ASSUME NEW r \in Request, NEW s, runState' = [runState EXCEPT ![r] = s]
      PROVE  Status' = [Status EXCEPT ![r] = Status'[r]]
  <2>1. \A q \in Request : q # r => Status'[q] = Status[q]
    BY <1>5 DEF Status, ActiveStates, TypeInv, TypeOK, RunState
  <2>2. QED
    BY <1>0, <2>1
<1>6. ASSUME NEW r \in Request, runState[r] = "RUNNING",
             runState' = [runState EXCEPT ![r] = "FAILED"], UNCHANGED Done
      PROVE  Goal
  <2>1. Status[r] = "open" /\ Status'[r] = "failed"
    BY <1>6 DEF Status, ActiveStates, TypeInv, TypeOK
  <2>2. Lifecycle!Fail(r)
    BY <1>5, <1>6, <2>1 DEF Lifecycle!Fail
  <2>3. QED
    BY <2>2 DEF Lifecycle!Next
<1>7. ASSUME NEW m \in msgs, NEW o \in Owner, ClaimGate(m, o) PROVE Goal
  <2>1. m.run \in Request /\ m.gate \in Gate
    BY DEF TypeInv, TypeOK, Message
  <2>2. UNCHANGED Done
    BY <1>7, <2>1, DoneKept DEF ClaimGate, Leased, TypeInv, TypeOK
  <2>3. runState' = [runState EXCEPT ![m.run] = "RUNNING"]
    BY <1>7 DEF ClaimGate
  <2>4. runState[m.run] \in {"RUNNING", "FAILED"}
    BY <1>7, <2>1 DEF ClaimGate, Claimable, NeverRequested, TypeInv, TypeOK, RunState
  <2>5. CASE runState[m.run] = "RUNNING"
    <3>1. UNCHANGED runState
      BY <2>3, <2>5 DEF TypeInv, TypeOK
    <3>2. QED
      BY <1>1, <2>2, <3>1, StatusKept
  <2>6. CASE runState[m.run] = "FAILED"
    <3>1. Status[m.run] = "failed" /\ Status'[m.run] = "open"
      BY <2>1, <2>3, <2>6 DEF Status, ActiveStates, TypeInv, TypeOK
    <3>2. m.gate \notin Done[m.run]
      BY <1>7, <2>1 DEF ClaimGate, Claimable, TerminalGateStates, Done
    <3>3. Done[m.run] # 1..NumGates
      BY <2>1, <3>2 DEF Gate
    <3>4. Lifecycle!Revive(m.run)
      BY <1>5, <2>1, <2>2, <2>3, <3>1, <3>3 DEF Lifecycle!Revive
    <3>5. QED
      BY <2>1, <3>4 DEF Lifecycle!Next
  <2>7. QED
    BY <2>4, <2>5, <2>6
<1>8. ASSUME NEW o \in Owner, RenewLease(o) PROVE Goal
  <2>1. worker[o].run \in Request /\ worker[o].gate \in Gate
    BY <1>8 DEF RenewLease, TypeInv, WorkersBound
  <2>2. UNCHANGED Done
    BY <1>8, <2>1, DoneKept DEF RenewLease, WithLease, TypeInv, TypeOK
  <2>3. QED
    BY <1>1, <1>8, <2>2, StatusKept DEF RenewLease
<1>9. ASSUME NEW o \in Owner, CommitGate(o) PROVE Goal
  <2> DEFINE r == worker[o].run
             g == worker[o].gate
  <2>1. r \in Request /\ g \in Gate
    BY <1>9 DEF CommitGate, TypeInv, WorkersBound
  <2>2. gates[r][g].state = "RUNNING" /\ runState[r] # "SUPERSEDED"
    BY <1>9 DEF CommitGate, MaySettle, Holds
  <2>3. Status[r] = "open"
    BY <2>1, <2>2, RunningGate, StatusValues DEF ActiveStates
  <2>4. Done[r] = 1..(g - 1)
    BY <2>1, <2>2, DoneBefore
  <2>5. Done'[r] = 1..g
    <3>1. \A h \in Gate : gates'[r][h].state = "SUCCEEDED" <=> h = g \/ h \in Done[r]
      BY <1>9, <2>1 DEF CommitGate, Settled, Done, TypeInv, TypeOK
    <3>2. \A h \in Gate : h \in Done'[r] <=> h = g \/ h \in 1..(g - 1)
      BY <2>1, <2>4, <3>1 DEF Done
    <3>3. Done'[r] \subseteq Gate
      BY <2>1 DEF Done
    <3>4. \A h : h \in Done'[r] <=> h \in 1..g
      BY <2>1, <3>2, <3>3, NumGatesAssumption DEF Gate
    <3>5. QED
      BY <3>4
  <2>6. \A q \in Request : q # r => Done'[q] = Done[q]
    BY <1>9, <2>1 DEF CommitGate, Done, TypeInv, TypeOK
  <2>7. Done' = [Done EXCEPT ![r] = 1..g]
    BY <2>1, <2>5, <2>6 DEF Done
  <2>8. Lifecycle!Advance(r, g)
    BY <1>9, <2>3, <2>4, <2>7, StatusKept DEF CommitGate, Lifecycle!Advance
  <2>9. QED
    BY <2>1, <2>8 DEF Lifecycle!Next, Gate
<1>10. ASSUME NEW o \in Owner, FailGate(o) PROVE Goal
  <2>1. worker[o].run \in Request /\ worker[o].gate \in Gate
    BY <1>10 DEF FailGate, TypeInv, WorkersBound
  <2>2. runState[worker[o].run] = "RUNNING"
    BY <1>10, <2>1, RunningGate DEF FailGate, MaySettle, Holds
  <2>3. UNCHANGED Done
    BY <1>10, <2>1, DoneKept DEF FailGate, Settled, TypeInv, TypeOK
  <2>4. QED
    BY <1>6, <1>10, <2>1, <2>2, <2>3 DEF FailGate
<1>11. ASSUME NEW s \in Sweeper, NEW d \in sweeper[s], Rescue(s, d) PROVE Goal
  <2>1. d.run \in Request /\ d.gate \in Gate
    BY DEF TypeInv, TypeOK, Decision
  <2>2. UNCHANGED Done
    BY <1>11, <2>1, DoneKept DEF Rescue, Rescued, TypeInv, TypeOK
  <2>3. QED
    BY <1>1, <1>11, <2>2, StatusKept DEF Rescue
<1>12. ASSUME NEW s \in Sweeper, NEW d \in sweeper[s], GiveUp(s, d) PROVE Goal
  <2>1. d.run \in Request /\ d.gate \in Gate
    BY DEF TypeInv, TypeOK, Decision
  <2>2. runState[d.run] = "RUNNING"
    BY <1>12, <2>1, RunningGate DEF GiveUp, RescueDue, Expired, ActiveStates
  <2>3. UNCHANGED Done
    BY <1>12, <2>1, DoneKept DEF GiveUp, Settled, TypeInv, TypeOK
  <2>4. QED
    BY <1>6, <1>12, <2>1, <2>2, <2>3 DEF GiveUp
<1>13. ASSUME NEW o \in Owner, FinalizeRun(o) PROVE Goal
  <2> DEFINE r == worker[o].run
  <2>1. r \in Request /\ gates[r][NumGates].state = "SUCCEEDED"
    BY <1>13 DEF FinalizeRun, TypeInv, WorkersBound, WorkersBacked
  <2>2. UNCHANGED Done
    BY <1>13 DEF FinalizeRun, Done
  <2>3. CASE UNCHANGED runState
    BY <1>1, <2>2, <2>3, StatusKept
  <2>4. CASE runState[r] = "RUNNING" /\ runState' = [runState EXCEPT ![r] = "SUCCEEDED"]
    <3>1. Status[r] = "open" /\ Status'[r] = "succeeded"
      BY <2>1, <2>4 DEF Status, ActiveStates, TypeInv, TypeOK
    <3>2. Done[r] = 1..NumGates
      BY <2>1, LastGateDone DEF Done, Gate
    <3>3. Lifecycle!Succeed(r)
      BY <1>5, <2>1, <2>2, <2>4, <3>1, <3>2 DEF Lifecycle!Succeed
    <3>4. QED
      BY <2>1, <3>3 DEF Lifecycle!Next
  <2>5. QED
    BY <1>13, <2>3, <2>4 DEF FinalizeRun
<1>14. ASSUME NEW o \in Owner, FailRun(o) PROVE Goal
  <2>1. worker[o].run \in Request
    BY <1>14 DEF FailRun, TypeInv, WorkersBound
  <2>2. UNCHANGED Done
    BY <1>14 DEF FailRun, Done
  <2>3. CASE UNCHANGED runState
    BY <1>1, <2>2, <2>3, StatusKept
  <2>4. QED
    BY <1>6, <1>14, <2>1, <2>2, <2>3 DEF FailRun
<1>15. QED
  BY <1>2, <1>3, <1>4, <1>7, <1>8, <1>9, <1>10, <1>11, <1>12, <1>13, <1>14
  DEF Next, Dispatch, RunWorker, SweepStep, vars, RequestRun, RetriggerFromGate, DropMessage,
      DeadLetter, Launch, LaunchFails, LoadRun, SettleRefused, PublishNext, Crash, TaskRetry,
      Sweep, SkipRescue, Republish, SweepCrash

\* The run documents implement RunLifecycle: the gates of a run complete once
\* each and in order, a run fails or succeeds as a whole, and opening a run
\* supersedes those of the same stage-3 run, whatever races on the documents.
THEOREM LifecycleImplemented == Spec => ImplementsLifecycle
<1>1. ASSUME Init PROVE Lifecycle!Init
  <2>1. ASSUME NEW r \in Request PROVE Status[r] = "none" /\ Done[r] = {}
    <3>1. runState[r] = "ABSENT" /\ \A g \in Gate : gates[r][g].state = "PENDING"
      BY <1>1 DEF Init, PendingGate
    <3>2. QED
      BY <3>1 DEF Status, Done, ActiveStates
  <2>2. Status \in [Request -> {"none", "open", "failed", "succeeded", "superseded"}]
    BY <1>1, TypeInit, StatusType
  <2>3. Done = [r \in Request |-> {}]
    BY <2>1 DEF Done
  <2>4. QED
    BY <2>1, <2>2, <2>3 DEF Lifecycle!Init
<1>2. OutcomeInv /\ OutcomeInv' /\ [Next]_vars => [Lifecycle!Next]_Lifecycle!lifecycleVars
  BY Refines
<1>3. QED
  BY <1>1, <1>2, OutcomeCorrect, PTL DEF Spec, ImplementsLifecycle, Lifecycle!Spec
=============================================================================
