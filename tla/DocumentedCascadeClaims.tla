----------------------- MODULE DocumentedCascadeClaims -----------------------
(***************************************************************************)
(* What the repository says of the pairs of a run and the code does not    *)
(* do.  Each definition quotes its sentence; TLC refutes each one.         *)
(***************************************************************************)
EXTENDS MCPairCascade

\* gatekeeper/worker/queue.py:23-26, "the resumed worker re-claims them once the
\* short lease lapses": a gate is not committed over pairs that still sit at it.
\* A resumed worker that finds only leased pairs finds an empty batch instead,
\* and commits.
NothingLeftBehind ==
  \A k \in Run, p \in Pair :
    docs[k].state = "RUNNING" /\ rows[p].run \in {k, None} /\ rows[p].seeded
      => rows[p].gate = Left \/ rows[p].gate >= docs[k].gate

\* README.md:133-134, "a straggler can neither strand a pair nor regress one a
\* later gate settled": only the holder of a gate of a live run takes a pair back.
\* The purge and the reset of a first attempt are guarded by neither the lease
\* nor the state of the run.
NoStragglerRegression ==
  [][\A p \in Pair : rows[p].seeded /\ Depth(rows'[p]) < Depth(rows[p]) =>
       \E o \in Owner : worker[o].pc = "reset" /\ worker'[o].pc = "seed" /\ Holds(o)
                         /\ docs[worker[o].run].state = "RUNNING"]_vars

\* gatekeeper/gates/g1.py:106-110, a first attempt "means new run, purge", and
\* every later execution of G1 resumes "output the purge would destroy".  A task
\* Cloud Run retries is still on the first attempt, and purges its own output.
PurgeSparesOwnOutput ==
  [][\A o \in Owner :
       worker[o].pc = "reset" /\ worker'[o].pc = "seed"
         => \A p \in Pair : rows[p].run # worker[o].run]_vars

\* RUNBOOK.md:147-148, a FROM_START "re-runs the whole cascade" and its first act
\* resets the queue: what a run that SUCCEEDED reports was judged by that run.
\* Once its first attempt has failed before the purge, no later one purges.
FromStartRejudges ==
  \A k \in Run : docs[k].state = "SUCCEEDED" => \A p \in Pair : rows[p].run = k

\* gatekeeper/gates/g4.py:9-11, "The cap is durable, not per-execution", and
\* tests/test_g4_gate.py:287, "the ceiling is per run, not per attempt": the
\* calls of a run stay under its cap.  Calls of a batch that was never routed,
\* and calls that failed, are not in the count a resumed gate starts from.
CallsWithinCap ==
  \A k \in Run : MaxLlmPairs > 0 => calls[k] <= MaxLlmPairs

\* tests/test_lease_renewal.py:290, "a worker that has lost its lease writes no
\* verdicts and moves no pairs".  It looks at its lease only between batches.
LostWorkerWritesNothing ==
  [][\A o \in Owner :
       worker[o].pc = "judged" /\ worker'[o].pc = "written" => Holds(o)]_vars

\* gatekeeper/gates/g4.py:406, a rejected pair's row "carries no verdict", and
\* tests/test_g4_gate.py:281.  A second call for a pair whose first answer was
\* written but not routed may fail, and the merge keeps the first answer.
RejectedCarriesNoVerdict ==
  \A p \in Pair :
    rows[p].tier = "HUMAN" /\ edges[p].method = "GK_G4_LLM" => edges[p].relation = None
=============================================================================
