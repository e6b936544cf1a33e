---------------------------- MODULE RunLifecycle ----------------------------
(***************************************************************************)
(* What a gatekeeper run promises to whoever polls its document, without   *)
(* leases, messages, workers or sweeps: the gates of an open run are       *)
(* completed once each and in cascade order; a run fails or succeeds as a  *)
(* whole; a failed run may be revived while it has gates left to do; and   *)
(* opening a run supersedes the open runs of the same stage-3 run.         *)
(***************************************************************************)
EXTENDS Naturals

CONSTANTS Request, Stage3RunOf, NumGates

VARIABLES
  status,   \* what the poller sees
  done      \* the gates completed

lifecycleVars == <<status, done>>

Init ==
  /\ status = [r \in Request |-> "none"]
  /\ done = [r \in Request |-> {}]

\* r opens; the open runs of its stage-3 run are superseded.
Open(r) ==
  /\ status[r] = "none"
  /\ status' = [q \in Request |->
                  IF q = r THEN "open"
                  ELSE IF status[q] = "open" /\ Stage3RunOf[q] = Stage3RunOf[r]
                         THEN "superseded"
                         ELSE status[q]]
  /\ UNCHANGED done

\* The next gate of the cascade completes.
Advance(r, g) ==
  /\ status[r] = "open"
  /\ done[r] = 1..(g - 1)
  /\ done' = [done EXCEPT ![r] = 1..g]
  /\ UNCHANGED status

Fail(r) ==
  /\ status[r] = "open"
  /\ status' = [status EXCEPT ![r] = "failed"]
  /\ UNCHANGED done

Revive(r) ==
  /\ status[r] = "failed"
  /\ done[r] # 1..NumGates
  /\ status' = [status EXCEPT ![r] = "open"]
  /\ UNCHANGED done

Succeed(r) ==
  /\ status[r] = "open"
  /\ done[r] = 1..NumGates
  /\ status' = [status EXCEPT ![r] = "succeeded"]
  /\ UNCHANGED done

Next == \E r \in Request : \/ Open(r) \/ Fail(r) \/ Revive(r) \/ Succeed(r)
                           \/ \E g \in 1..NumGates : Advance(r, g)

Spec == Init /\ [][Next]_lifecycleVars
=============================================================================
