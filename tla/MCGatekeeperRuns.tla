-------------------------- MODULE MCGatekeeperRuns --------------------------
(***************************************************************************)
(* Instances of GatekeeperRuns for TLC.  Lease owners are interchangeable: *)
(* nothing tells one fresh identity from another.                          *)
(***************************************************************************)
EXTENDS GatekeeperRuns, TLC

CONSTANT S1

\* Every request of the instance names the same stage-3 run.
OneStage3Run == [r \in Request |-> S1]

OwnerSymmetry == Permutations(Owner)
=============================================================================
