------------------------- MODULE DocumentedRunClaims -------------------------
(***************************************************************************)
(* What the repository says of the life of a run and the code does not do. *)
(* Each definition quotes its sentence; TLC refutes each one.              *)
(***************************************************************************)
EXTENDS MCGatekeeperRuns

\* gatekeeper/worker/main.py:7-9, "the gate result is durable before any
\* next-gate message exists, so a crash in the window costs a sweeper rescue":
\* a run that is RUNNING does not stay RUNNING for ever.  A crash between G4's
\* commit and FINALIZE leaves nothing for the sweeper to rescue or republish.
RunSettles ==
  \A r \in Request : runState[r] = "RUNNING" ~> runState[r] # "RUNNING"

\* gatekeeper/enums.py:69-74, FAILED is not terminal, "an operator retrigger
\* (FROM_GATE) revives the run", and RUNBOOK.md:54 for a run that failed in
\* FINALIZE: some FROM_GATE message can be claimed on every FAILED run.
FailedRunRevivable ==
  \A r \in Request :
    runState[r] = "FAILED" => \E g \in Gate : Claimable(FromGateMessage(r, g))

\* tests/test_run_state_machine.py:212, "must never leave two live runs on one
\* stage3RunId", and gatekeeper/runs/store.py:254-257, which leaves a FAILED
\* predecessor alone because it is "already unreachable".
OneLiveRun ==
  \A q, r \in Request :
    /\ Stage3RunOf[q] = Stage3RunOf[r]
    /\ runState[q] \in ActiveStates
    /\ runState[r] \in ActiveStates
    => q = r
=============================================================================
