-------------------------- MODULE PairCascade_proofs --------------------------
(***************************************************************************)
(* Proofs about PairCascade, for any number of pairs, runs, workers,       *)
(* claims, task retries and faults, and any scores.                        *)
(*                                                                         *)
(* What holds whatever stragglers do is proved from what a row and a batch *)
(* say of the scores of their pairs, never from who holds a gate.  What    *)
(* needs the gate lease to be a lock is proved of one run that nothing     *)
(* delays, and names that hypothesis.                                      *)
(*                                                                         *)
(* Last come the bounds on what goes wrong without it: the one window in   *)
(* which a crash costs a verdict, that the run documents never leave the   *)
(* life RunLifecycle gives them, the one step of a straggler that can      *)
(* leave a pair behind, and how far stragglers overrun the tail's budget.  *)
(***************************************************************************)
EXTENDS PairCascade, FiniteSetTheorems, TLAPS

-----------------------------------------------------------------------------
(* The type invariant.                                                     *)

Outcomes == UNION {[S -> Outcome] : S \in SUBSET Pair}
Workers == [pc : Pc, run : Run \union {None}, gate : Gate, retries : 0..MaxTaskRetries,
            spent : Nat, batch : SUBSET Pair, flagged : SUBSET Pair, outcome : Outcomes]
Faults == {"crash", "stall", "error"}

\* A worker that was started has been started for some run, one that waits for
\* its retry has one left, and what was judged are the pairs of the batch.
Sound(w) ==
  /\ w.pc # "idle" => w.run \in Run
  /\ w.pc = "down" => w.retries < MaxTaskRetries
  /\ w.flagged \subseteq w.batch
  /\ w.pc \in {"judged", "written"} => w.flagged = {} /\ DOMAIN w.outcome = w.batch

WorkersInv == worker \in [Owner -> Workers] /\ \A o \in Owner : Sound(worker[o])

TypeInv ==
  /\ score \in [Pair -> Scores]
  /\ docs \in [Run -> Doc]
  /\ rows \in [Pair -> Row]
  /\ edges \in [Pair -> Edge]
  /\ WorkersInv
  /\ calls \in [Run -> Nat]
  /\ faults \in [Faults -> Nat] /\ \A kind \in Faults : faults[kind] <= MaxFaults[kind]

-----------------------------------------------------------------------------
(* Operators.                                                              *)

LEMMA IdleType == IdleWorker \in Workers
<1>1. <<>> \in [{} -> Outcome]
  OBVIOUS
<1>2. <<>> \in Outcomes
  BY <1>1 DEF Outcomes
<1>3. QED
  BY <1>2, SizesAssumption DEF IdleWorker, Workers, Pc, Gate

LEMMA HeadType == HeadOfCascade \in Row /\ Unseeded \in Row
<1>1. HeadOfCascade \in Row
  BY DEF HeadOfCascade, Row, Tier, Gate, Left
<1>2. Unseeded \in Row
  BY <1>1 DEF Unseeded, Row
<1>3. QED
  BY <1>1, <1>2

LEMMA EncoderOutcomeType == \A g \in 1..3, s \in Score : EncoderOutcome(g, s) \in Outcome
BY DEF EncoderOutcome, Score, Outcome, G1Outcome, G2Outcome, G3Outcome, Decided, Forwarded,
       Escalated, ToHuman, Verdict, Reason, Tier, Method, Gate, Left

TailOutcomes == {Tailed(None, None), Tailed("NEUTRAL", "GK_G4_LLM"),
                 ToHuman(None, "LLM_ERROR"), ToHuman(None, "CAP_EXCEEDED")}

LEMMA TailOutcomeType == TailOutcomes \subseteq Outcome
BY DEF TailOutcomes, Tailed, ToHuman, Outcome, Verdict, Reason, Tier, Method, Gate, Left

LEMMA FirstSubset == \A n, S : First(n, S) \subseteq S
BY DEF First

LEMMA RoutedType ==
  ASSUME TypeInv, NEW o \in Owner, worker[o].pc # "idle", NEW p \in Pair, NEW out \in Outcome
  PROVE  Routed(p, out, o) \in Row
<1>1. FlagAfter(worker[o].gate, p, out) \in BOOLEAN
  BY DEF FlagAfter, TypeInv, Row
<1>2. QED
  BY <1>1 DEF Routed, TypeInv, WorkersInv, Sound, Workers, Row, Outcome

LEMMA MergedType ==
  ASSUME TypeInv, NEW o \in Owner, worker[o].pc # "idle", NEW e \in Edge, NEW out \in Outcome
  PROVE  Merged(e, out, o) \in Edge
<1>1. GateMethod[worker[o].gate] \in Method
  BY DEF TypeInv, WorkersInv, Workers, Gate, GateMethod, Method
<1>2. QED
  BY <1>1 DEF Merged, TypeInv, WorkersInv, Sound, Workers, Edge, Outcome

\* What a run's lapsed leases leave of the rows.
LEMMA LapseType == ASSUME rows \in [Pair -> Row], NEW S, Lapse(S) PROVE rows' \in [Pair -> Row]
BY DEF Lapse, Row

LEMMA FaultType ==
  ASSUME TypeInv, NEW kind \in Faults, Fault(kind) \/ UNCHANGED faults
  PROVE  faults' \in [Faults -> Nat] /\ \A k \in Faults : faults'[k] <= MaxFaults[k]
BY FaultsAssumption DEF TypeInv, Fault, Faults

\* A step of one worker.
LEMMA UpdateType ==
  ASSUME WorkersInv, NEW o \in Owner, NEW W \in Workers, Sound(W), worker' = [worker EXCEPT ![o] = W]
  PROVE  WorkersInv'
BY DEF WorkersInv

\* The steps of a worker that touch nothing of it but where it is.
LEMMA GotoType ==
  ASSUME WorkersInv, NEW o \in Owner, worker[o].pc # "idle", NEW pc \in Pc \ {"down", "judged"},
         pc = "written" => worker[o].pc = "judged", Goto(o, pc)
  PROVE  WorkersInv'
<1> DEFINE W == [worker[o] EXCEPT !.pc = pc]
<1>1. worker[o] \in Workers /\ Sound(worker[o])
  BY DEF WorkersInv
<1>2. W \in Workers
  BY <1>1 DEF Workers
<1>3. Sound(W)
  BY <1>1 DEF Sound, Workers
<1>4. worker' = [worker EXCEPT ![o] = W]
  BY DEF Goto
<1> HIDE DEF W
<1>5. QED
  BY <1>2, <1>3, <1>4, UpdateType

LEMMA IdleSound == Sound(IdleWorker)
<1>1. IdleWorker.pc = "idle" /\ IdleWorker.flagged = {}
  BY DEF IdleWorker
<1>2. QED
  BY <1>1 DEF Sound

LEMMA ExitType ==
  ASSUME WorkersInv, NEW o \in Owner, Exit(o) \/ (worker[o].pc # "idle" /\ Stop(o))
  PROVE  WorkersInv'
<1>1. CASE Exit(o)
  BY <1>1, IdleType, IdleSound, UpdateType DEF Exit
<1>2. CASE worker[o].pc # "idle" /\ Stop(o)
  <2> DEFINE W == [IdleWorker EXCEPT !.pc = "down", !.run = worker[o].run, !.gate = worker[o].gate,
                                     !.retries = worker[o].retries]
  <2>1. worker[o] \in Workers /\ worker[o].run \in Run
    BY <1>2 DEF WorkersInv, Sound
  <2>2. IdleWorker.flagged = {}
    BY DEF IdleWorker
  <2>3. /\ W \in Workers /\ W.pc = "down" /\ W.run = worker[o].run /\ W.flagged = {}
        /\ W.retries = worker[o].retries
    BY <2>1, <2>2, IdleType DEF Workers, Pc
  <2>4. worker' = [worker EXCEPT ![o] = IF worker[o].retries < MaxTaskRetries THEN W ELSE IdleWorker]
    BY <1>2 DEF Stop
  <2> HIDE DEF W
  <2>5. worker[o].retries < MaxTaskRetries => Sound(W)
    BY <2>1, <2>3 DEF Sound
  <2>6. QED
    BY <2>3, <2>4, <2>5, IdleType, IdleSound, UpdateType
<1>3. QED
  BY <1>1, <1>2

LEMMA TypeInit == Init => TypeInv
BY IdleType, IdleSound, HeadType, FaultsAssumption, SizesAssumption
   DEF Init, TypeInv, WorkersInv, AbsentDoc, Doc, NoEdge, Edge, Faults

LEMMA CountType == \A S \in SUBSET Pair : Cardinality(S) \in Nat
<1>1. IsFiniteSet(Pair)
  BY FS_Interval, SizesAssumption DEF Pair
<1>2. QED
  BY <1>1, FS_Subset, FS_CardinalityType

\* A worker that was launched.
LEMMA LaunchedType ==
  ASSUME WorkersInv, NEW o \in Owner, NEW k \in Run, NEW g \in Gate, Launched(o, k, g)
  PROVE  WorkersInv'
<1> DEFINE W == [IdleWorker EXCEPT !.pc = "launched", !.run = k, !.gate = g]
<1>1. IdleWorker.flagged = {}
  BY DEF IdleWorker
<1>2. W \in Workers /\ W.pc = "launched" /\ W.run = k /\ W.flagged = {}
  BY <1>1, IdleType DEF Workers, Pc
<1>3. worker' = [worker EXCEPT ![o] = W]
  BY DEF Launched
<1> HIDE DEF W
<1>4. Sound(W)
  BY <1>2 DEF Sound
<1>5. QED
  BY <1>2, <1>3, <1>4, UpdateType

LEMMA ClaimType ==
  ASSUME TypeInv, NEW k \in Run, NEW o \in Owner, OpenRun(k, o) \/ ClaimGate(k, o)
  PROVE  TypeInv'
<1>1. CASE OpenRun(k, o)
  <2>0. PICK mode \in JudgeModes :
           docs' = [j \in Run |->
                      IF j = k THEN [state |-> "RUNNING", gate |-> 1, gateState |-> "RUNNING",
                                     holder |-> o, live |-> TRUE, attempt |-> 1, mode |-> mode]
                      ELSE IF docs[j].state = "RUNNING" THEN [docs[j] EXCEPT !.state = "SUPERSEDED"]
                      ELSE docs[j]]
    BY <1>1 DEF OpenRun
  <2>0a. \A j \in Run : docs[j] \in Doc /\ [docs[j] EXCEPT !.state = "SUPERSEDED"] \in Doc
    BY DEF TypeInv, Doc
  <2>0b. [state |-> "RUNNING", gate |-> 1, gateState |-> "RUNNING",
          holder |-> o, live |-> TRUE, attempt |-> 1, mode |-> mode] \in Doc
    BY SizesAssumption DEF Doc
  <2>1. docs' \in [Run -> Doc]
    BY <2>0, <2>0a, <2>0b
  <2>2. 1 \in Gate /\ Launched(o, k, 1)
    BY <1>1 DEF OpenRun, Gate
  <2>3. QED
    BY <1>1, <2>1, <2>2, LaunchedType DEF OpenRun, TypeInv
<1>2. CASE ClaimGate(k, o)
  <2> DEFINE D == [state |-> "RUNNING", gate |-> docs[k].gate, gateState |-> "RUNNING",
                   holder |-> o, live |-> TRUE, attempt |-> docs[k].attempt + 1,
                   mode |-> docs[k].mode]
  <2>0. docs' = [docs EXCEPT ![k] = D] /\ docs[k].attempt < MaxAttempts
    BY <1>2 DEF ClaimGate
  <2>0a. D \in Doc
    <3>1. docs[k] \in Doc
      BY DEF TypeInv
    <3>2. QED
      BY <2>0, <3>1, SizesAssumption DEF Doc
  <2> HIDE DEF D
  <2>1. docs' \in [Run -> Doc]
    BY <2>0, <2>0a DEF TypeInv
  <2>2. docs[k].gate \in Gate /\ Launched(o, k, docs[k].gate)
    BY <1>2 DEF ClaimGate
  <2>3. QED
    BY <1>2, <2>1, <2>2, LaunchedType DEF ClaimGate, TypeInv
<1>3. QED
  BY <1>1, <1>2

LEMMA LeaseLapseType ==
  ASSUME TypeInv, \/ \E k \in Run : GateLeaseExpires(k)
                  \/ \E o \in Owner : LeftLeasesExpire(o) \/ Stall(o)
  PROVE  TypeInv'
<1>1. ASSUME NEW k \in Run, GateLeaseExpires(k) PROVE TypeInv'
  <2>1. docs' \in [Run -> Doc]
    <3>1. docs' = [docs EXCEPT ![k].live = FALSE]
      BY <1>1 DEF GateLeaseExpires
    <3>2. docs[k] \in Doc
      BY DEF TypeInv
    <3>3. [docs[k] EXCEPT !.live = FALSE] \in Doc
      BY <3>2 DEF Doc
    <3>4. QED
      BY <3>1, <3>3 DEF TypeInv
  <2>2. rows' \in [Pair -> Row]
    BY <1>1, LapseType DEF GateLeaseExpires, TypeInv
  <2>3. faults' \in [Faults -> Nat] /\ \A x \in Faults : faults'[x] <= MaxFaults[x]
    BY <1>1, FaultType DEF GateLeaseExpires, Faults
  <2>4. QED
    BY <1>1, <2>1, <2>2, <2>3 DEF GateLeaseExpires, TypeInv, WorkersInv
<1>2. ASSUME NEW o \in Owner, LeftLeasesExpire(o) PROVE TypeInv'
  <2>1. rows' \in [Pair -> Row]
    BY <1>2, LapseType DEF LeftLeasesExpire, TypeInv
  <2>2. QED
    BY <1>2, <2>1 DEF LeftLeasesExpire, TypeInv, WorkersInv
<1>3. ASSUME NEW o \in Owner, Stall(o) PROVE TypeInv'
  <2>1. rows' \in [Pair -> Row]
    BY <1>3, LapseType DEF Stall, TypeInv
  <2>2. faults' \in [Faults -> Nat] /\ \A x \in Faults : faults'[x] <= MaxFaults[x]
    BY <1>3, FaultType DEF Stall, Faults
  <2>3. QED
    BY <1>3, <2>1, <2>2 DEF Stall, TypeInv, WorkersInv
<1>4. QED
  BY <1>1, <1>2, <1>3

\* The steps before and after the batch loop.
LEMMA SetupType ==
  ASSUME TypeInv, NEW o \in Owner,
         LoadRun(o) \/ Purge(o) \/ Reset(o) \/ Seed(o) \/ Renew(o)
  PROVE  TypeInv'
<1>0. worker[o] \in Workers /\ Sound(worker[o])
  BY DEF TypeInv, WorkersInv
<1>1. CASE LoadRun(o)
  <2>0. worker[o].pc # "idle"
    BY <1>1 DEF LoadRun
  <2>1. CASE Stop(o)
    BY <1>1, <2>0, <2>1, ExitType DEF LoadRun, TypeInv
  <2>2. CASE ~Stop(o)
    <3> DEFINE pc == CASE worker[o].gate > 1 -> "renew"
                       [] worker[o].gate = 1 /\ docs[worker[o].run].attempt <= 1 -> "purge"
                       [] OTHER -> "seed"
               spent == IF worker[o].gate = 4 THEN Settled ELSE 0
               W == [worker[o] EXCEPT !.pc = pc, !.spent = spent]
    <3>1. pc \in {"renew", "purge", "seed"}
      OBVIOUS
    <3>2. spent \in Nat
      BY CountType DEF Settled
    <3>3. worker' = [worker EXCEPT ![o].pc = pc, ![o].spent = spent]
      BY <1>1, <2>2 DEF LoadRun
    <3> HIDE DEF pc, spent
    <3>4. worker' = [worker EXCEPT ![o] = W]
      BY <1>0, <3>3 DEF WorkersInv, TypeInv
    <3>5. W \in Workers /\ Sound(W)
      BY <1>0, <2>0, <3>1, <3>2 DEF Workers, Sound, Pc
    <3> HIDE DEF W
    <3>6. WorkersInv'
      BY <3>4, <3>5, UpdateType DEF TypeInv
    <3>7. QED
      BY <1>1, <3>6 DEF LoadRun, TypeInv
  <2>3. QED
    BY <2>1, <2>2
<1>2. CASE Purge(o)
  <2>1. NoEdge \in Edge
    BY DEF NoEdge, Edge
  <2>2. edges' \in [Pair -> Edge]
    BY <1>2, <2>1 DEF Purge
  <2>3. worker[o].pc # "idle" /\ "reset" \in Pc \ {"down", "judged"} /\ Goto(o, "reset")
    BY <1>2 DEF Purge, Pc
  <2>4. QED
    BY <1>2, <2>2, <2>3, GotoType DEF Purge, TypeInv
<1>3. CASE Reset(o)
  <2>1. rows' \in [Pair -> Row]
    BY <1>3, HeadType DEF Reset, TypeInv
  <2>2. worker[o].pc # "idle" /\ "seed" \in Pc \ {"down", "judged"} /\ Goto(o, "seed")
    BY <1>3 DEF Reset, Pc
  <2>3. QED
    BY <1>3, <2>1, <2>2, GotoType DEF Reset, TypeInv
<1>4. CASE Seed(o)
  <2>1. rows' \in [Pair -> Row]
    BY <1>4, HeadType DEF Seed, TypeInv
  <2>2. worker[o].pc # "idle" /\ "renew" \in Pc \ {"down", "judged"} /\ Goto(o, "renew")
    BY <1>4 DEF Seed, Pc
  <2>3. QED
    BY <1>4, <2>1, <2>2, GotoType DEF Seed, TypeInv
<1>5. CASE Renew(o)
  <2>0. worker[o].run \in Run
    BY <1>0, <1>5 DEF Renew, Sound
  <2>0a. docs' = docs \/ docs' = [docs EXCEPT ![worker[o].run].live = TRUE]
    BY <1>5 DEF Renew
  <2>1. docs' \in [Run -> Doc]
    <3>1. CASE docs' = docs
      BY <3>1 DEF TypeInv
    <3>2. CASE docs' = [docs EXCEPT ![worker[o].run].live = TRUE]
      <4>1. docs[worker[o].run] \in Doc
        BY <2>0 DEF TypeInv
      <4>2. [docs[worker[o].run] EXCEPT !.live = TRUE] \in Doc
        BY <4>1 DEF Doc
      <4>3. QED
        BY <3>2, <4>2 DEF TypeInv
    <3>3. QED
      BY <2>0a, <3>1, <3>2
  <2>2. /\ worker[o].pc # "idle" /\ {"lease", "settle"} \subseteq Pc \ {"down", "judged"}
        /\ Goto(o, "lease") \/ Goto(o, "settle")
    BY <1>5 DEF Renew, Pc
  <2>3. QED
    BY <1>5, <2>1, <2>2, GotoType DEF Renew, TypeInv
<1>6. QED
  BY <1>1, <1>2, <1>3, <1>4, <1>5

LEMMA OutcomesType ==
  ASSUME NEW S \in SUBSET Pair, NEW f, f \in [S -> Outcome]
  PROVE  f \in Outcomes
BY DEF Outcomes

LEMMA LookupType ==
  ASSUME NEW w \in Workers
  PROVE  \A p \in DOMAIN w.outcome : w.outcome[p] \in Outcome
<1>1. PICK S \in SUBSET Pair : w.outcome \in [S -> Outcome]
  BY DEF Workers, Outcomes
<1>2. QED
  BY <1>1

LEMMA EmptyOutcome == <<>> \in Outcomes
<1>1. <<>> \in [{} -> Outcome]
  OBVIOUS
<1>2. QED
  BY <1>1 DEF Outcomes

\* First takes no more than it is asked for: the pairs it takes have different
\* numbers of pairs before them, all below the bound.
LEMMA FirstCount == ASSUME NEW n \in Nat, NEW S \in SUBSET Pair PROVE Cardinality(First(n, S)) <= n
<1> DEFINE F == First(n, S)
           before(p) == {q \in S : q < p}
           f == [p \in F |-> Cardinality(before(p))]
<1>1. F \subseteq S /\ S \subseteq Nat
  BY FirstSubset DEF Pair
<1>2. \A p \in F : f[p] \in 0..(n - 1)
  <2>1. \A p \in F : Cardinality(before(p)) < n
    BY DEF First
  <2>2. \A p \in F : before(p) \in SUBSET Pair
    OBVIOUS
  <2>3. \A p \in F : Cardinality(before(p)) \in Nat
    BY <2>2, CountType
  <2>4. QED
    BY <2>1, <2>3
<1>3. ASSUME NEW p \in F, NEW r \in F, p < r PROVE f[p] # f[r]
  <2>0. p \in Nat /\ r \in Nat /\ p \in S
    BY <1>1
  <2>1. before(p) \subseteq before(r) /\ p \in before(r) /\ p \notin before(p)
    <3>1. ASSUME NEW q \in S, q < p PROVE q < r
      BY <1>1, <1>3, <2>0, <3>1
    <3>2. before(p) \subseteq before(r)
      BY <3>1
    <3>3. p \in before(r) /\ p \notin before(p)
      BY <1>3, <2>0
    <3>4. QED
      BY <3>2, <3>3
  <2>2. IsFiniteSet(before(r))
    <3>1. IsFiniteSet(Pair)
      BY FS_Interval, SizesAssumption DEF Pair
    <3>2. before(r) \in SUBSET Pair
      OBVIOUS
    <3>3. QED
      BY <3>1, <3>2, FS_Subset
  <2> HIDE DEF before
  <2>3. Cardinality(before(r)) # Cardinality(before(p))
    BY <2>1, <2>2, FS_Subset
  <2>4. QED
    BY <2>3
<1>4. f \in Injection(F, 0..(n - 1))
  <2>1. f \in [F -> 0..(n - 1)]
    BY <1>2
  <2>2. ASSUME NEW p \in F, NEW r \in F, f[p] = f[r] PROVE p = r
    <3>1. p \in Nat /\ r \in Nat
      BY <1>1
    <3> HIDE DEF f
    <3>2. ~(p < r) /\ ~(r < p)
      BY <1>3, <2>2
    <3>3. QED
      BY <3>1, <3>2
  <2> HIDE DEF f
  <2>3. QED
    BY <2>1, <2>2 DEF Injection, IsInjective
<1>5. IsFiniteSet(0..(n - 1)) /\ Cardinality(0..(n - 1)) = n
  BY FS_Interval
<1> HIDE DEF f, F
<1>6. Cardinality(F) <= n
  BY <1>4, <1>5, FS_Injection
<1>7. QED
  BY <1>6 DEF F

\* What the tail writes, and how many calls it makes: as many as it has
\* answers, and as its budget allows.
LEMMA JudgeTailEffect ==
  ASSUME TypeInv, NEW o \in Owner, JudgeTail(o)
  PROVE  \E f \in [worker[o].batch -> TailOutcomes], n \in Nat :
           /\ InShadow(o) => n = 0 /\ \A p \in worker[o].batch : f[p] = Tailed(None, None)
           /\ Cardinality({p \in worker[o].batch : f[p].decidedBy = "GK_G4_LLM"}) <= n
           /\ MaxLlmPairs > 0 => n = 0 \/ worker[o].spent + n <= MaxLlmPairs
           /\ worker' = [worker EXCEPT ![o].pc = "judged", ![o].flagged = {},
                                       ![o].spent = @ + n, ![o].outcome = f]
           /\ calls' = [calls EXCEPT ![worker[o].run] = @ + n]
<1> DEFINE called == IF InShadow(o) THEN {} ELSE Callable(o)
           B == worker[o].batch
<1>1. PICK answered \in SUBSET called :
         worker' = [worker EXCEPT ![o].pc = "judged", ![o].flagged = {},
           ![o].spent = @ + Cardinality(called),
           ![o].outcome = [p \in B |->
              CASE InShadow(o)   -> Tailed(None, None)
                [] p \in answered -> Tailed("NEUTRAL", "GK_G4_LLM")
                [] p \in called \ answered -> ToHuman(None, "LLM_ERROR")
                [] OTHER         -> ToHuman(None, "CAP_EXCEEDED")]]
  BY DEF JudgeTail
<1> DEFINE f == [p \in B |-> CASE InShadow(o)   -> Tailed(None, None)
                              [] p \in answered -> Tailed("NEUTRAL", "GK_G4_LLM")
                              [] p \in called \ answered -> ToHuman(None, "LLM_ERROR")
                              [] OTHER         -> ToHuman(None, "CAP_EXCEEDED")]
           n == Cardinality(called)
<1>2. f \in [B -> TailOutcomes]
  BY DEF TailOutcomes
<1>3. called \in SUBSET Pair
  <2>1. B \in SUBSET Pair
    BY DEF TypeInv, WorkersInv, Workers
  <2>2. Callable(o) \subseteq B
    BY FirstSubset DEF Callable
  <2>3. QED
    BY <2>1, <2>2
<1>4. n \in Nat
  BY <1>3, CountType
<1>5. InShadow(o) => n = 0 /\ \A p \in B : f[p] = Tailed(None, None)
  <2>1. InShadow(o) => called = {}
    OBVIOUS
  <2>2. InShadow(o) => n = 0
    BY <2>1, FS_EmptySet
  <2>3. InShadow(o) => \A p \in B : f[p] = Tailed(None, None)
    OBVIOUS
  <2>4. QED
    BY <2>2, <2>3
<1>6. /\ worker' = [worker EXCEPT ![o].pc = "judged", ![o].flagged = {},
                                  ![o].spent = @ + n, ![o].outcome = f]
      /\ calls' = [calls EXCEPT ![worker[o].run] = @ + n]
  BY <1>1 DEF JudgeTail
<1>7. Cardinality({p \in B : f[p].decidedBy = "GK_G4_LLM"}) <= n
  <2>1. {p \in B : f[p].decidedBy = "GK_G4_LLM"} \subseteq called
    BY NoneAssumption DEF Tailed, ToHuman, Method
  <2> HIDE DEF called, f
  <2>2. IsFiniteSet(called)
    <3>1. IsFiniteSet(Pair)
      BY FS_Interval, SizesAssumption DEF Pair
    <3>2. QED
      BY <1>3, <3>1, FS_Subset
  <2>3. QED
    BY <2>1, <2>2, FS_Subset
<1>8. MaxLlmPairs > 0 => n = 0 \/ worker[o].spent + n <= MaxLlmPairs
  <2>1. worker[o].spent \in Nat /\ B \in SUBSET Pair
    BY DEF TypeInv, WorkersInv, Workers
  <2>2. CASE called = {}
    BY <2>2, FS_EmptySet
  <2>3. CASE MaxLlmPairs > 0 /\ called # {}
    <3>1. /\ MaxLlmPairs - worker[o].spent \in Nat
          /\ called = First(MaxLlmPairs - worker[o].spent, B)
      BY <2>1, <2>3, SizesAssumption DEF Callable
    <3>2. n <= MaxLlmPairs - worker[o].spent
      BY <2>1, <3>1, FirstCount
    <3> HIDE DEF n
    <3>3. QED
      BY <1>4, <2>1, <3>2, SizesAssumption
  <2>4. QED
    BY <2>2, <2>3
<1> HIDE DEF f, n, called
<1>9. QED
  BY <1>2, <1>4, <1>5, <1>6, <1>7, <1>8

\* The batch loop.
LEMMA BatchType ==
  ASSUME TypeInv, NEW o \in Owner,
         LeaseBatch(o) \/ PassThrough(o) \/ JudgeEncoder(o) \/ JudgeTail(o)
  PROVE  TypeInv'
<1>0. /\ worker[o] \in Workers /\ Sound(worker[o]) /\ worker \in [Owner -> Workers]
      /\ worker[o].pc # "idle" /\ worker[o].run \in Run
  BY DEF TypeInv, WorkersInv, Sound, LeaseBatch, PassThrough, JudgeEncoder, JudgeTail
<1>1. CASE LeaseBatch(o)
  <2> DEFINE batch == First(BatchSize, Free(worker[o].gate))
             flagged == {p \in batch : rows[p].flag}
             pc == IF batch = {} THEN "settle" ELSE "batch"
  <2>1. batch \in SUBSET Pair
    BY FirstSubset DEF Free
  <2>2. pc \in Pc /\ pc \notin {"idle", "down", "judged", "written"}
    BY DEF Pc
  <2>3. flagged \subseteq batch /\ flagged \in SUBSET Pair
    BY <2>1
  <2>4. worker' = [worker EXCEPT ![o].pc = pc, ![o].batch = batch, ![o].flagged = flagged]
    BY <1>1 DEF LeaseBatch
  <2>5. rows' = [p \in Pair |-> IF p \in batch THEN [rows[p] EXCEPT !.owner = o, !.live = TRUE]
                                               ELSE rows[p]]
    BY <1>1 DEF LeaseBatch
  <2> HIDE DEF batch, flagged, pc
  <2>6. rows' \in [Pair -> Row]
    BY <2>5 DEF TypeInv, Row
  <2> DEFINE W == [worker[o] EXCEPT !.pc = pc, !.batch = batch, !.flagged = flagged]
  <2>7. W \in Workers /\ Sound(W) /\ worker' = [worker EXCEPT ![o] = W]
    BY <1>0, <2>1, <2>2, <2>3, <2>4 DEF Workers, Sound
  <2> HIDE DEF W
  <2>8. WorkersInv'
    BY <2>7, UpdateType DEF TypeInv
  <2>9. QED
    BY <1>1, <2>6, <2>8 DEF LeaseBatch, TypeInv
<1>2. CASE PassThrough(o)
  <2> DEFINE rest == worker[o].batch \ worker[o].flagged
             pc == IF rest = {} THEN "renew" ELSE "batch"
  <2>1. rest \in SUBSET Pair
    BY <1>0 DEF Workers
  <2>2. pc \in Pc /\ pc \notin {"idle", "down", "judged", "written"}
    BY DEF Pc
  <2>3. worker' = [worker EXCEPT ![o].pc = pc, ![o].batch = rest, ![o].flagged = {}]
    BY <1>2 DEF PassThrough
  <2> HIDE DEF rest, pc
  <2>4. Forwarded(3) \in Outcome
    BY DEF Forwarded, Outcome, Tier, Gate, Left
  <2>5. \A p \in Pair : Routed(p, Forwarded(3), o) \in Row
    BY <1>0, <2>4, RoutedType
  <2>6. rows' \in [Pair -> Row]
    BY <1>2, <2>5 DEF PassThrough, TypeInv
  <2> DEFINE W == [worker[o] EXCEPT !.pc = pc, !.batch = rest, !.flagged = {}]
  <2>7. W \in Workers /\ Sound(W) /\ worker' = [worker EXCEPT ![o] = W]
    BY <1>0, <2>1, <2>2, <2>3 DEF Workers, Sound
  <2> HIDE DEF W
  <2>8. WorkersInv'
    BY <2>7, UpdateType DEF TypeInv
  <2>9. QED
    BY <1>2, <2>6, <2>8 DEF PassThrough, TypeInv
<1>3. CASE JudgeEncoder(o)
  <2> DEFINE f == [p \in worker[o].batch |-> EncoderOutcome(worker[o].gate, score[p])]
  <2>1. worker[o].gate \in 1..3
    BY <1>0, <1>3 DEF JudgeEncoder, Workers, Gate
  <2>2. \A p \in worker[o].batch : score[p] \in Score
    BY <1>0, ScoresAssumption DEF TypeInv, Workers
  <2>3. f \in [worker[o].batch -> Outcome]
    BY <2>1, <2>2, EncoderOutcomeType
  <2>4. f \in Outcomes
    BY <1>0, <2>3, OutcomesType DEF Workers
  <2>5. worker' = [worker EXCEPT ![o].pc = "judged", ![o].flagged = {}, ![o].outcome = f]
    BY <1>3 DEF JudgeEncoder
  <2> HIDE DEF f
  <2> DEFINE W == [worker[o] EXCEPT !.pc = "judged", !.flagged = {}, !.outcome = f]
  <2>6. W \in Workers /\ Sound(W) /\ worker' = [worker EXCEPT ![o] = W]
    BY <1>0, <2>3, <2>4, <2>5 DEF Workers, Sound, Pc
  <2> HIDE DEF W
  <2>7. WorkersInv'
    BY <2>6, UpdateType DEF TypeInv
  <2>8. QED
    BY <1>3, <2>7 DEF JudgeEncoder, TypeInv
<1>4. CASE JudgeTail(o)
  <2>1. PICK f \in [worker[o].batch -> TailOutcomes], n \in Nat :
           /\ InShadow(o) => n = 0 /\ \A p \in worker[o].batch : f[p] = Tailed(None, None)
           /\ Cardinality({p \in worker[o].batch : f[p].decidedBy = "GK_G4_LLM"}) <= n
           /\ MaxLlmPairs > 0 => n = 0 \/ worker[o].spent + n <= MaxLlmPairs
           /\ worker' = [worker EXCEPT ![o].pc = "judged", ![o].flagged = {},
                                       ![o].spent = @ + n, ![o].outcome = f]
           /\ calls' = [calls EXCEPT ![worker[o].run] = @ + n]
    BY <1>4, JudgeTailEffect
  <2>2. f \in [worker[o].batch -> Outcome]
    BY TailOutcomeType
  <2>3. f \in Outcomes
    BY <1>0, <2>2, OutcomesType DEF Workers
  <2> DEFINE W == [worker[o] EXCEPT !.pc = "judged", !.flagged = {}, !.spent = @ + n,
                                    !.outcome = f]
  <2>4. /\ "judged" \in Pc /\ worker[o].spent + n \in Nat /\ {} \in SUBSET Pair
        /\ DOMAIN f = worker[o].batch
    BY <1>0, <2>1 DEF Workers, Pc
  <2>5. W \in Workers /\ Sound(W) /\ worker' = [worker EXCEPT ![o] = W]
    BY <1>0, <2>1, <2>3, <2>4 DEF Workers, Sound
  <2> HIDE DEF W
  <2>5a. WorkersInv'
    BY <2>5, UpdateType DEF TypeInv
  <2>6. calls' \in [Run -> Nat]
    BY <1>0, <2>1 DEF TypeInv
  <2>7. QED
    BY <1>4, <2>5a, <2>6 DEF JudgeTail, TypeInv
<1>5. QED
  BY <1>1, <1>2, <1>3, <1>4

\* Writing the verdicts and moving the queue.
LEMMA RecordType ==
  ASSUME TypeInv, NEW o \in Owner, WriteEdges(o) \/ Route(o)
  PROVE  TypeInv'
<1>0. /\ worker[o] \in Workers /\ Sound(worker[o]) /\ worker \in [Owner -> Workers]
      /\ worker[o].pc # "idle" /\ worker[o].flagged = {}
      /\ DOMAIN worker[o].outcome = worker[o].batch
  BY DEF TypeInv, WorkersInv, Sound, WriteEdges, Route
<1>1. \A p \in worker[o].batch : p \in Pair /\ worker[o].outcome[p] \in Outcome
  BY <1>0, LookupType DEF Workers
<1>2. CASE WriteEdges(o)
  <2>1. \A p \in worker[o].batch : Merged(edges[p], worker[o].outcome[p], o) \in Edge
    BY <1>0, <1>1, MergedType DEF TypeInv
  <2>2. edges' \in [Pair -> Edge]
    BY <1>2, <2>1 DEF WriteEdges, TypeInv
  <2>3. "written" \in Pc \ {"down", "judged"} /\ Goto(o, "written")
    BY <1>2 DEF WriteEdges, Pc
  <2>4. QED
    BY <1>0, <1>2, <2>2, <2>3, GotoType DEF WriteEdges, TypeInv
<1>3. CASE Route(o)
  <2>1. \A p \in worker[o].batch : Routed(p, worker[o].outcome[p], o) \in Row
    BY <1>0, <1>1, RoutedType
  <2>2. rows' \in [Pair -> Row]
    BY <1>3, <2>1 DEF Route, TypeInv
  <2>3. worker' = [worker EXCEPT ![o].pc = "renew", ![o].batch = {}, ![o].outcome = <<>>]
    BY <1>3 DEF Route
  <2> DEFINE W == [worker[o] EXCEPT !.pc = "renew", !.batch = {}, !.outcome = <<>>]
  <2>4. W \in Workers /\ Sound(W)
    BY <1>0, EmptyOutcome DEF Workers, Sound, Pc
  <2>4a. worker' = [worker EXCEPT ![o] = W]
    BY <1>0, <2>3
  <2> HIDE DEF W
  <2>5. WorkersInv'
    BY <2>4, <2>4a, UpdateType DEF TypeInv
  <2>6. QED
    BY <1>3, <2>2, <2>5 DEF Route, TypeInv
<1>4. QED
  BY <1>2, <1>3

LEMMA SettleType ==
  ASSUME TypeInv, NEW o \in Owner,
         \/ FailGate(o) \/ CommitGate(o) \/ CommitRefused(o) \/ TallyRows(o) \/ Finalize(o)
         \/ Crash(o) \/ TaskRetry(o)
  PROVE  TypeInv'
<1>0. /\ worker[o] \in Workers /\ Sound(worker[o]) /\ worker \in [Owner -> Workers]
      /\ worker[o].pc # "idle" /\ worker[o].run \in Run
  BY DEF TypeInv, WorkersInv, Sound, FailGate, CommitGate, CommitRefused, TallyRows, Finalize, Crash, TaskRetry
<1>1. CASE FailGate(o)
  <2> DEFINE D == [docs[worker[o].run] EXCEPT !.state = "FAILED", !.gateState = "FAILED",
                                             !.holder = None, !.live = FALSE]
  <2>0. docs' = docs \/ docs' = [docs EXCEPT ![worker[o].run] = D]
    <3>1. CASE MaySettle(o)
      BY <1>0, <1>1, <3>1 DEF FailGate, TypeInv, Doc
    <3>2. CASE ~MaySettle(o)
      BY <1>1, <3>2 DEF FailGate
    <3>3. QED
      BY <3>1, <3>2
  <2>0a. D \in Doc
    <3>1. docs[worker[o].run] \in Doc
      BY <1>0 DEF TypeInv
    <3>2. QED
      BY <3>1 DEF Doc
  <2> HIDE DEF D
  <2>1. docs' \in [Run -> Doc]
    BY <2>0, <2>0a DEF TypeInv
  <2>2. faults' \in [Faults -> Nat] /\ \A x \in Faults : faults'[x] <= MaxFaults[x]
    BY <1>1, FaultType DEF FailGate, Faults
  <2>3. QED
    BY <1>0, <1>1, <2>1, <2>2, ExitType DEF FailGate, TypeInv
<1>2. CASE CommitGate(o)
  <2>0. worker[o].gate = docs[worker[o].run].gate
    BY <1>2 DEF CommitGate, MaySettle, Holds
  <2> DEFINE D == [docs[worker[o].run] EXCEPT !.gate = @ + 1, !.gateState = "PENDING",
                                             !.holder = None, !.live = FALSE, !.attempt = 0]
  <2>0a. docs' = [docs EXCEPT ![worker[o].run] = D]
    BY <1>2 DEF CommitGate
  <2>0b. docs[worker[o].run].gate + 1 \in 1..5 /\ 0 \in 0..MaxAttempts
    BY <1>0, <2>0, SizesAssumption DEF Workers, Gate
  <2>0c. D \in Doc
    <3>1. docs[worker[o].run] \in Doc
      BY <1>0 DEF TypeInv
    <3>2. QED
      BY <2>0b, <3>1 DEF Doc
  <2> HIDE DEF D
  <2>1. docs' \in [Run -> Doc]
    BY <2>0a, <2>0c DEF TypeInv
  <2>2. "finalize" \in Pc \ {"down", "judged"} /\ (Goto(o, "finalize") \/ Exit(o))
    BY <1>2 DEF CommitGate, Pc
  <2>3. QED
    BY <1>0, <1>2, <2>1, <2>2, GotoType, ExitType DEF CommitGate, TypeInv
<1>3. CASE CommitRefused(o)
  BY <1>0, <1>3, ExitType DEF CommitRefused, TypeInv
<1>4. CASE TallyRows(o)
  <2>1. {"reconciled", "stranded"} \subseteq Pc \ {"down", "judged"} /\ (Goto(o, "reconciled") \/ Goto(o, "stranded"))
    BY <1>4 DEF TallyRows, Pc
  <2>2. QED
    BY <1>0, <1>4, <2>1, GotoType DEF TallyRows, TypeInv
<1>5. CASE Finalize(o)
  <2>0. \/ docs' = docs
        \/ \E st \in {"SUCCEEDED", "FAILED"} : docs' = [docs EXCEPT ![worker[o].run].state = st]
    BY <1>5 DEF Finalize
  <2>1. docs' \in [Run -> Doc]
    <3>1. docs[worker[o].run] \in Doc
      BY <1>0 DEF TypeInv
    <3>2. \A st \in {"SUCCEEDED", "FAILED"} : [docs[worker[o].run] EXCEPT !.state = st] \in Doc
      BY <3>1 DEF Doc
    <3>3. QED
      BY <2>0, <3>2 DEF TypeInv
  <2>2. QED
    BY <1>0, <1>5, <2>1, ExitType DEF Finalize, TypeInv
<1>6. CASE Crash(o)
  <2>1. faults' \in [Faults -> Nat] /\ \A x \in Faults : faults'[x] <= MaxFaults[x]
    BY <1>6, FaultType DEF Crash, Faults
  <2>2. QED
    BY <1>0, <1>6, <2>1, ExitType DEF Crash, TypeInv
<1>7. CASE TaskRetry(o)
  <2>1. worker' = [worker EXCEPT ![o].pc = "launched", ![o].retries = @ + 1]
    BY <1>7 DEF TaskRetry
  <2>2. worker[o].retries + 1 \in 0..MaxTaskRetries /\ "launched" \in Pc
    BY <1>0, <1>7, SizesAssumption DEF TaskRetry, Sound, Workers, Pc
  <2> DEFINE W == [worker[o] EXCEPT !.pc = "launched", !.retries = @ + 1]
  <2>3. W \in Workers /\ Sound(W) /\ worker' = [worker EXCEPT ![o] = W]
    BY <1>0, <2>1, <2>2 DEF Workers, Sound
  <2> HIDE DEF W
  <2>4. WorkersInv'
    BY <2>3, UpdateType DEF TypeInv
  <2>5. QED
    BY <1>7, <2>4 DEF TaskRetry, TypeInv
<1>8. QED
  BY <1>1, <1>2, <1>3, <1>4, <1>5, <1>6, <1>7

LEMMA TypeStep == TypeInv /\ [Next]_vars => TypeInv'
<1> SUFFICES ASSUME TypeInv, [Next]_vars PROVE TypeInv'
  OBVIOUS
<1>1. CASE \E k \in Run, o \in Owner : OpenRun(k, o) \/ ClaimGate(k, o)
  BY <1>1, ClaimType
<1>2. CASE \E k \in Run : GateLeaseExpires(k)
  BY <1>2, LeaseLapseType
<1>3. CASE \E o \in Owner : \/ RunGate(o) \/ Crash(o) \/ TaskRetry(o)
                            \/ LeftLeasesExpire(o) \/ Stall(o)
  BY <1>3, SetupType, BatchType, RecordType, SettleType, LeaseLapseType DEF RunGate
<1>4. CASE UNCHANGED vars
  BY <1>4 DEF vars, TypeInv, WorkersInv
<1>5. QED
  BY <1>1, <1>2, <1>3, <1>4 DEF Next

(***************************************************************************)
(* Every variable keeps its type, and an execution never holds what it has *)
(* not leased.                                                             *)
(***************************************************************************)
THEOREM TypeCorrect == Spec => []TypeOK
<1>1. TypeInv => TypeOK
  <2> SUFFICES ASSUME TypeInv PROVE TypeOK
    OBVIOUS
  <2>1. ASSUME NEW o \in Owner PROVE WorkerTypeOK(o)
    <3>1. worker[o] \in Workers /\ Sound(worker[o])
      BY DEF TypeInv, WorkersInv
    <3>2. QED
      BY <3>1, LookupType DEF WorkerTypeOK, Sound, Workers
  <2>2. \A kind \in DOMAIN faults : faults[kind] <= MaxFaults[kind]
    BY DEF TypeInv
  <2>3. QED
    BY <2>1, <2>2 DEF TypeInv, TypeOK
<1>2. QED
  BY TypeInit, TypeStep, <1>1, PTL DEF Spec

-----------------------------------------------------------------------------
(***************************************************************************)
(* Where a pair is tells what its scores were: a row stands at a gate only *)
(* when the gates before it sent it there, and a batch in hand holds such  *)
(* pairs however long its worker stood still and whoever has routed them   *)
(* since.                                                                  *)
(***************************************************************************)
IsDisputed(s) ==
  \/ s.g1 = "ESCALATE"
  \/ s.g1 = "FLAG" /\ s.g3 = "ESCALATE"
  \/ s.g1 = "FORWARD" /\ s.g2 = "FORWARD" /\ s.g3 = "ESCALATE"

\* The scores with which a pair comes to a gate.
OnItsWay(s, g) ==
  /\ g = 2 => s.g1 \in {"FORWARD", "FLAG"}
  /\ g = 3 => s.g1 = "FLAG" \/ (s.g1 = "FORWARD" /\ s.g2 = "FORWARD")
  /\ g = 4 => IsDisputed(s)

\* The ways out of the cascade.
WayOut(s, row) ==
  \/ row.decidedBy = "GK_G1_NLI" /\ s.g1 \in {"NEUTRAL", "REPEATS"}
  \/ row.decidedBy = "GK_G2_GROUNDING" /\ s.g1 = "FORWARD" /\ s.g2 = "CORROBORATES"
  \/ row.decidedBy = "GK_G3_XCHECK" /\ OnItsWay(s, 3) /\ s.g3 = "NEUTRAL"
  \/ row.decidedBy = None /\ row.tier = "HUMAN" /\ OnItsWay(s, 3) /\ s.g3 = "HUMAN"
  \/ row.decidedBy \in {None, "GK_G4_LLM"} /\ row.tier \in {"LLM_TAIL", "HUMAN"} /\ IsDisputed(s)

RowFits(s, row) ==
  /\ row.gate # Left => row.decidedBy = None /\ OnItsWay(s, row.gate)
  /\ row.gate = 2 => (row.flag <=> s.g1 = "FLAG")
  /\ row.gate = 3 /\ s.g1 = "FLAG" => row.flag
  /\ row.gate = Left => WayOut(s, row)

Flags(S) == {p \in S : score[p].g1 = "FLAG"}

\* What the execution is about to write for a pair.
OutcomeFits(g, p, out) ==
  /\ g # 4 => out = EncoderOutcome(g, score[p])
  /\ g = 4 => out \in TailOutcomes

InHand(w) ==
  /\ \A p \in w.batch : OnItsWay(score[p], w.gate)
  /\ w.pc = "batch" /\ w.gate = 2 => w.flagged = Flags(w.batch)
  /\ w.pc \in {"judged", "written"} =>
       /\ \A p \in w.batch : OutcomeFits(w.gate, p, w.outcome[p])
       /\ w.gate = 2 => Flags(w.batch) = {}

CascadeInv ==
  /\ \A p \in Pair : RowFits(score[p], rows[p])
  /\ \A o \in Owner : InHand(worker[o])
  /\ \A p \in Pair : edges[p].method = "GK_G2_GROUNDING" => score[p].g1 # "FLAG"

LEMMA CascadeInit == Init => CascadeInv
<1> SUFFICES ASSUME Init PROVE CascadeInv
  OBVIOUS
<1>1. ASSUME NEW s PROVE RowFits(s, Unseeded)
  <2>1. Unseeded.gate = 1 /\ Unseeded.decidedBy = None
    BY HeadType DEF Unseeded, HeadOfCascade
  <2>2. QED
    BY <2>1 DEF RowFits, OnItsWay, Left
<1>2. IdleWorker.batch = {} /\ IdleWorker.pc = "idle"
  BY DEF IdleWorker
<1>3. InHand(IdleWorker)
  BY <1>2 DEF InHand
<1>4. NoEdge.method # "GK_G2_GROUNDING"
  BY NoneAssumption DEF NoEdge, Method
<1>5. QED
  BY <1>1, <1>3, <1>4 DEF Init, CascadeInv

\* A worker that leaves its batch as it is, or has none any more, and is not
\* about to judge or to write.
Quiet(w, W) == /\ W.pc \notin {"batch", "judged", "written"}
               /\ W.batch = {} \/ (W.gate = w.gate /\ W.batch = w.batch)

LEMMA QuietInHand == ASSUME NEW w, NEW W, InHand(w), Quiet(w, W) PROVE InHand(W)
BY DEF InHand, Quiet

\* The steps that take a batch, judge it, record it and move it on.
Handles(o) == LeaseBatch(o) \/ PassThrough(o) \/ JudgeEncoder(o) \/ JudgeTail(o)
                \/ WriteEdges(o) \/ Route(o)

\* All other steps leave a worker alone or quiet, and the rows as they were,
\* but for their leases, or at the head of the cascade.
LEMMA QuietExit ==
  ASSUME TypeInv, NEW o \in Owner, Exit(o) \/ Stop(o)
  PROVE  \A x \in Owner : worker'[x] = worker[x] \/ Quiet(worker[x], worker'[x])
<1>1. IdleWorker.pc = "idle" /\ IdleWorker.batch = {}
  BY DEF IdleWorker
<1>2. Exit(o) => Quiet(worker[o], worker'[o])
  BY <1>1 DEF Exit, Quiet, TypeInv, WorkersInv
<1>3. ASSUME Stop(o) PROVE Quiet(worker[o], worker'[o])
  <2> DEFINE W == [IdleWorker EXCEPT !.pc = "down", !.run = worker[o].run, !.gate = worker[o].gate,
                                     !.retries = worker[o].retries]
  <2>1. W.pc = "down" /\ W.batch = {}
    BY <1>1, IdleType DEF Workers
  <2>2. worker'[o] = W \/ worker'[o] = IdleWorker
    BY <1>3 DEF Stop, TypeInv, WorkersInv
  <2> HIDE DEF W
  <2>3. QED
    BY <1>1, <2>1, <2>2 DEF Quiet
<1>4. \A x \in Owner : x # o => worker'[x] = worker[x]
  BY DEF Exit, Stop, TypeInv, WorkersInv
<1>5. QED
  BY <1>2, <1>3, <1>4

LEMMA QuietGoto ==
  ASSUME TypeInv, NEW o \in Owner, NEW pc, pc \notin {"batch", "judged", "written"}, Goto(o, pc)
  PROVE  \A x \in Owner : worker'[x] = worker[x] \/ Quiet(worker[x], worker'[x])
<1>1. \A x \in Owner : x # o => worker'[x] = worker[x]
  BY DEF Goto, TypeInv, WorkersInv
<1>2. worker'[o] = [worker[o] EXCEPT !.pc = pc] /\ worker[o] \in Workers
  BY DEF Goto, TypeInv, WorkersInv
<1>3. Quiet(worker[o], worker'[o])
  BY <1>2 DEF Quiet, Workers
<1>4. QED
  BY <1>1, <1>3

LEMMA QuietLaunched ==
  ASSUME TypeInv, NEW o \in Owner, NEW k, NEW g, Launched(o, k, g)
  PROVE  \A x \in Owner : worker'[x] = worker[x] \/ Quiet(worker[x], worker'[x])
<1> DEFINE W == [IdleWorker EXCEPT !.pc = "launched", !.run = k, !.gate = g]
<1>1. IdleWorker.batch = {}
  BY DEF IdleWorker
<1>2. W.pc = "launched" /\ W.batch = {}
  BY <1>1, IdleType DEF Workers
<1>3. worker'[o] = W /\ \A x \in Owner : x # o => worker'[x] = worker[x]
  BY DEF Launched, TypeInv, WorkersInv
<1> HIDE DEF W
<1>4. QED
  BY <1>2, <1>3 DEF Quiet

LEMMA QuietSteps ==
  ASSUME TypeInv, [Next]_vars, \A o \in Owner : ~Handles(o)
  PROVE  \A o \in Owner : worker'[o] = worker[o] \/ Quiet(worker[o], worker'[o])
<1>1. CASE \E k \in Run, o \in Owner : OpenRun(k, o) \/ ClaimGate(k, o)
  BY <1>1, QuietLaunched DEF OpenRun, ClaimGate
<1>3. ASSUME NEW o \in Owner, LoadRun(o)
      PROVE  \A x \in Owner : worker'[x] = worker[x] \/ Quiet(worker[x], worker'[x])
  <2>1. CASE Stop(o)
    BY <2>1, QuietExit
  <2>2. CASE ~Stop(o)
    <3> DEFINE pc == CASE worker[o].gate > 1 -> "renew"
                       [] worker[o].gate = 1 /\ docs[worker[o].run].attempt <= 1 -> "purge"
                       [] OTHER -> "seed"
    <3>1. pc \notin {"batch", "judged", "written"}
      OBVIOUS
    <3>2. worker' = [worker EXCEPT ![o].pc = pc,
                                   ![o].spent = IF worker[o].gate = 4 THEN Settled ELSE 0]
      BY <1>3, <2>2 DEF LoadRun
    <3> HIDE DEF pc
    <3>3. worker[o] \in Workers /\ worker \in [Owner -> Workers]
      BY DEF TypeInv, WorkersInv
    <3>4. /\ worker'[o].pc = pc /\ worker'[o].gate = worker[o].gate
          /\ worker'[o].batch = worker[o].batch
      BY <3>2, <3>3 DEF Workers
    <3>5. \A x \in Owner : x # o => worker'[x] = worker[x]
      BY <3>2, <3>3
    <3>6. QED
      BY <3>1, <3>4, <3>5 DEF Quiet
  <2>3. QED
    BY <2>1, <2>2
<1>4. ASSUME NEW o \in Owner, Purge(o) \/ Reset(o) \/ Seed(o) \/ Renew(o) \/ TallyRows(o)
      PROVE  \A x \in Owner : worker'[x] = worker[x] \/ Quiet(worker[x], worker'[x])
  <2>1. \E pc \in {"reset", "seed", "renew", "lease", "settle", "reconciled", "stranded"} :
           Goto(o, pc)
    BY <1>4 DEF Purge, Reset, Seed, Renew, TallyRows
  <2>2. QED
    BY <2>1, QuietGoto
<1>5. ASSUME NEW o \in Owner, FailGate(o) \/ CommitGate(o) \/ CommitRefused(o) \/ Finalize(o) \/ Crash(o)
      PROVE  \A x \in Owner : worker'[x] = worker[x] \/ Quiet(worker[x], worker'[x])
  <2>1. Exit(o) \/ Stop(o) \/ Goto(o, "finalize")
    BY <1>5 DEF FailGate, CommitGate, CommitRefused, Finalize, Crash
  <2>2. QED
    BY <2>1, QuietExit, QuietGoto
<1>6. ASSUME NEW o \in Owner, TaskRetry(o)
      PROVE  \A x \in Owner : worker'[x] = worker[x] \/ Quiet(worker[x], worker'[x])
  <2>1. worker[o] \in Workers /\ worker \in [Owner -> Workers]
    BY DEF TypeInv, WorkersInv
  <2>2. worker' = [worker EXCEPT ![o].pc = "launched", ![o].retries = @ + 1]
    BY <1>6 DEF TaskRetry
  <2>3. /\ worker'[o].pc = "launched" /\ worker'[o].gate = worker[o].gate
        /\ worker'[o].batch = worker[o].batch
        /\ \A x \in Owner : x # o => worker'[x] = worker[x]
    BY <2>1, <2>2 DEF Workers
  <2>4. QED
    BY <2>3 DEF Quiet
<1>7. CASE \E k \in Run : GateLeaseExpires(k)
  BY <1>7 DEF GateLeaseExpires
<1>8. CASE \E o \in Owner : LeftLeasesExpire(o) \/ Stall(o)
  BY <1>8 DEF LeftLeasesExpire, Stall
<1>9. CASE UNCHANGED vars
  BY <1>9 DEF vars
<1>10. QED
  BY <1>1, <1>3, <1>4, <1>5, <1>6, <1>7, <1>8, <1>9 DEF Next, RunGate, Handles

\* A row whose lease alone has changed.
Leased(row, new) == \/ new = row
                    \/ new = [row EXCEPT !.live = FALSE]
                    \/ \E o \in Owner : new = [row EXCEPT !.owner = o, !.live = TRUE]

\* A row a worker moves on: a flagged pair past G2, or what its gate decided.
Moved(o, p) ==
  /\ StillOwned(o, p)
  /\ p \in worker[o].batch
  /\ \/ /\ worker[o].pc = "batch" /\ worker[o].gate = 2 /\ p \in worker[o].flagged
        /\ rows'[p] = Routed(p, Forwarded(3), o)
     \/ /\ worker[o].pc = "written"
        /\ rows'[p] = Routed(p, worker[o].outcome[p], o)

\* Whatever happens, a row's lease changes, it is taken back to the head of the
\* cascade, or a worker that holds it moves it on.
LEMMA RowSteps ==
  ASSUME TypeInv, [Next]_vars, NEW p \in Pair
  PROVE  \/ Leased(rows[p], rows'[p])
         \/ \E o \in Owner : (Reset(o) \/ Seed(o)) /\ rows'[p] = HeadOfCascade
         \/ \E o \in Owner : (PassThrough(o) \/ Route(o)) /\ Moved(o, p)
<1> USE DEF TypeInv
<1>1. ASSUME NEW S, Lapse(S) PROVE Leased(rows[p], rows'[p])
  BY <1>1 DEF Lapse, Leased
<1>2. CASE \E k \in Run : GateLeaseExpires(k)
  BY <1>1, <1>2 DEF GateLeaseExpires
<1>3. CASE \E o \in Owner : LeftLeasesExpire(o) \/ Stall(o)
  BY <1>1, <1>3 DEF LeftLeasesExpire, Stall
<1>4. CASE \E o \in Owner : Reset(o) \/ Seed(o)
  BY <1>4 DEF Reset, Seed, Leased
<1>5. CASE \E o \in Owner : LeaseBatch(o)
  BY <1>5 DEF LeaseBatch, Leased
<1>6. ASSUME NEW o \in Owner, PassThrough(o)
      PROVE  Moved(o, p) \/ rows'[p] = rows[p]
  <2>1. worker[o].flagged \subseteq worker[o].batch
    BY DEF WorkersInv, Sound
  <2>2. QED
    BY <1>6, <2>1 DEF PassThrough, Moved
<1>7. ASSUME NEW o \in Owner, Route(o)
      PROVE  Moved(o, p) \/ rows'[p] = rows[p]
  BY <1>7 DEF Route, Moved
<1>8. CASE UNCHANGED rows
  BY <1>8 DEF Leased
<1>9. ASSUME NEW o \in Owner,
             \/ LoadRun(o) \/ Purge(o) \/ Renew(o) \/ JudgeEncoder(o) \/ JudgeTail(o)
             \/ WriteEdges(o) \/ FailGate(o) \/ CommitGate(o) \/ CommitRefused(o)
             \/ TallyRows(o) \/ Finalize(o) \/ Crash(o) \/ TaskRetry(o)
      PROVE  UNCHANGED rows
  BY <1>9 DEF LoadRun, Purge, Renew, JudgeEncoder, JudgeTail, WriteEdges, FailGate, CommitGate,
              CommitRefused, TallyRows, Finalize, Crash, TaskRetry
<1>10. CASE \E k \in Run, o \in Owner : OpenRun(k, o) \/ ClaimGate(k, o)
  BY <1>8, <1>10 DEF OpenRun, ClaimGate
<1>11. CASE UNCHANGED vars
  BY <1>8, <1>11 DEF vars
<1>12. QED
  BY <1>2, <1>3, <1>4, <1>5, <1>6, <1>7, <1>8, <1>9, <1>10, <1>11 DEF Next, RunGate, Leased

\* What moves a row on fits the scores of its pair, and moves it down.
LEMMA MovedFits ==
  ASSUME TypeInv, CascadeInv, NEW o \in Owner, NEW p \in Pair, Moved(o, p)
  PROVE  RowFits(score[p], rows'[p]) /\ Depth(rows[p]) < Depth(rows'[p])
<1> DEFINE g == worker[o].gate
           s == score[p]
<1>1. /\ worker[o] \in Workers /\ Sound(worker[o]) /\ InHand(worker[o])
      /\ rows[p] \in Row /\ s \in Score /\ RowFits(s, rows[p])
  BY ScoresAssumption DEF TypeInv, WorkersInv, CascadeInv
<1>2. rows[p].gate = g /\ g \in Gate /\ p \in worker[o].batch /\ OnItsWay(s, g)
  BY <1>1 DEF Moved, StillOwned, Workers, InHand
<1>3. Depth(rows[p]) = g
  BY <1>2 DEF Depth, Gate, Left
<1>4. CASE rows'[p] = Routed(p, Forwarded(3), o) /\ worker[o].pc = "batch" /\ g = 2
           /\ p \in worker[o].flagged
  <2>1. s.g1 = "FLAG" /\ rows[p].flag
    BY <1>1, <1>2, <1>4 DEF InHand, Flags, RowFits
  <2>2. /\ rows'[p].gate = 3 /\ rows'[p].decidedBy = None /\ rows'[p].flag = rows[p].flag
    BY <1>4 DEF Routed, Forwarded, FlagAfter
  <2>3. RowFits(s, rows'[p])
    BY <2>1, <2>2 DEF RowFits, OnItsWay, Left
  <2>4. QED
    BY <1>3, <1>4, <2>2, <2>3 DEF Depth, Left
<1>5. CASE worker[o].pc = "written" /\ rows'[p] = Routed(p, worker[o].outcome[p], o)
  <2> DEFINE out == worker[o].outcome[p]
  <2>1. OutcomeFits(g, p, out) /\ (g = 2 => s.g1 # "FLAG")
    BY <1>1, <1>2, <1>5 DEF InHand, Flags
  <2>2. /\ rows'[p].gate = out.gate /\ rows'[p].tier = out.tier
        /\ rows'[p].decidedBy = out.decidedBy /\ rows'[p].flag = FlagAfter(g, p, out)
    BY <1>5 DEF Routed
  <2> HIDE DEF out
  <2>3. CASE g = 1
    <3>1. out = G1Outcome[s.g1]
      BY <2>1, <2>3 DEF OutcomeFits, EncoderOutcome
    <3>2. rows'[p].flag = (s.g1 = "FLAG")
      BY <2>2, <2>3 DEF FlagAfter
    <3>3. CASE s.g1 \in {"NEUTRAL", "REPEATS"}
      BY <1>3, <2>2, <2>3, <3>1, <3>3 DEF G1Outcome, Decided, RowFits, WayOut, Depth, Left
    <3>4. CASE s.g1 \in {"FORWARD", "FLAG"}
      <4>1. rows'[p].gate = 2 /\ rows'[p].decidedBy = None
        BY <2>2, <3>1, <3>4 DEF G1Outcome, Forwarded
      <4>2. rows'[p].flag <=> s.g1 = "FLAG"
        BY <3>2
      <4>3. RowFits(s, rows'[p])
        BY <3>4, <4>1, <4>2 DEF RowFits, OnItsWay, Left
      <4>4. QED
        BY <1>3, <2>3, <4>1, <4>3 DEF Depth, Left
    <3>5. CASE s.g1 = "ESCALATE"
      BY <1>3, <2>2, <2>3, <3>1, <3>5 DEF G1Outcome, Escalated, RowFits, OnItsWay, IsDisputed, Depth, Left
    <3>6. QED
      BY <1>1, <3>3, <3>4, <3>5 DEF Score
  <2>4. CASE g = 2
    <3>1. out = G2Outcome[s.g2]
      BY <2>1, <2>4 DEF OutcomeFits, EncoderOutcome
    <3>2. s.g1 = "FORWARD"
      BY <1>2, <2>1, <2>4 DEF OnItsWay
    <3>3. CASE s.g2 = "CORROBORATES"
      BY <1>3, <2>2, <2>4, <3>1, <3>2, <3>3 DEF G2Outcome, Decided, RowFits, WayOut, Depth, Left
    <3>4. CASE s.g2 = "FORWARD"
      BY <1>3, <2>2, <2>4, <3>1, <3>2, <3>4 DEF G2Outcome, Forwarded, RowFits, OnItsWay, Depth, Left
    <3>5. QED
      BY <1>1, <3>3, <3>4 DEF Score
  <2>5. CASE g = 3
    <3>1. out = G3Outcome[s.g3]
      BY <2>1, <2>5 DEF OutcomeFits, EncoderOutcome
    <3>2. OnItsWay(s, 3)
      BY <1>2, <2>5
    <3>3. CASE s.g3 = "NEUTRAL"
      BY <1>3, <2>2, <2>5, <3>1, <3>2, <3>3 DEF G3Outcome, Decided, RowFits, WayOut, Depth, Left
    <3>4. CASE s.g3 = "HUMAN"
      BY <1>3, <2>2, <2>5, <3>1, <3>2, <3>4 DEF G3Outcome, ToHuman, RowFits, WayOut, Depth, Left
    <3>5. CASE s.g3 = "ESCALATE"
      BY <1>3, <2>2, <2>5, <3>1, <3>2, <3>5
         DEF G3Outcome, Escalated, RowFits, OnItsWay, IsDisputed, Depth, Left
    <3>6. QED
      BY <1>1, <3>3, <3>4, <3>5 DEF Score
  <2>6. CASE g = 4
    <3>1. out \in TailOutcomes
      BY <2>1, <2>6 DEF OutcomeFits
    <3>2. /\ out.gate = Left /\ out.decidedBy \in {None, "GK_G4_LLM"}
          /\ out.tier \in {"LLM_TAIL", "HUMAN"}
      BY <3>1 DEF TailOutcomes, Tailed, ToHuman
    <3>3. IsDisputed(s)
      BY <1>2, <2>6 DEF OnItsWay
    <3>4. QED
      BY <1>3, <2>2, <2>6, <3>2, <3>3 DEF RowFits, WayOut, Depth, Left
  <2>7. QED
    BY <1>2, <2>3, <2>4, <2>5, <2>6 DEF Gate
<1>6. QED
  BY <1>4, <1>5 DEF Moved

\* The encoders' scores never change.
LEMMA ScoreKept == [Next]_vars => UNCHANGED score
BY DEF Next, vars, RunGate, OpenRun, ClaimGate, GateLeaseExpires, LeftLeasesExpire, Stall, LoadRun,
       Purge, Reset, Seed, Renew, LeaseBatch, PassThrough, JudgeEncoder, JudgeTail, WriteEdges, Route,
       FailGate, CommitGate, CommitRefused, TallyRows, Finalize, Crash, TaskRetry

LEMMA RowsStep ==
  ASSUME TypeInv, CascadeInv, [Next]_vars
  PROVE  \A p \in Pair : RowFits(score[p], rows'[p])
<1> SUFFICES ASSUME NEW p \in Pair PROVE RowFits(score[p], rows'[p])
  OBVIOUS
<1>1. rows[p] \in Row /\ RowFits(score[p], rows[p])
  BY DEF TypeInv, CascadeInv
<1>2. CASE Leased(rows[p], rows'[p])
  <2>1. /\ rows'[p].gate = rows[p].gate /\ rows'[p].tier = rows[p].tier
        /\ rows'[p].flag = rows[p].flag /\ rows'[p].decidedBy = rows[p].decidedBy
    BY <1>1, <1>2 DEF Leased, Row
  <2>2. QED
    BY <1>1, <2>1 DEF RowFits, WayOut
<1>3. CASE rows'[p] = HeadOfCascade
  BY <1>3 DEF HeadOfCascade, RowFits, OnItsWay, Left
<1>4. QED
  BY <1>2, <1>3, RowSteps, MovedFits

LEMMA HandsStep ==
  ASSUME TypeInv, CascadeInv, [Next]_vars, NEW x \in Owner
  PROVE  InHand(worker'[x])
<1>1. CASE \A o \in Owner : ~Handles(o)
  BY <1>1, QuietSteps, QuietInHand DEF CascadeInv
<1>2. ASSUME NEW o \in Owner, Handles(o)
      PROVE  InHand(worker'[x])
  <2>0. /\ worker \in [Owner -> Workers] /\ worker[o] \in Workers /\ Sound(worker[o])
        /\ InHand(worker[o]) /\ InHand(worker[x])
    BY DEF TypeInv, WorkersInv, CascadeInv
  <2>1. CASE LeaseBatch(o)
    <3> DEFINE batch == First(BatchSize, Free(worker[o].gate))
               flagged == {p \in batch : rows[p].flag}
               pc == IF batch = {} THEN "settle" ELSE "batch"
               W == [worker[o] EXCEPT !.pc = pc, !.batch = batch, !.flagged = flagged]
    <3>1. \A p \in batch : p \in Pair /\ rows[p].gate = worker[o].gate
      BY FirstSubset DEF Free
    <3>2. worker[o].gate \in Gate
      BY <2>0 DEF Workers
    <3>3. \A p \in batch : RowFits(score[p], rows[p]) /\ rows[p].gate # Left
      BY <3>1, <3>2 DEF CascadeInv, Gate, Left
    <3>4. \A p \in batch : OnItsWay(score[p], worker[o].gate)
      BY <3>1, <3>3 DEF RowFits
    <3>5. worker[o].gate = 2 => flagged = Flags(batch)
      BY <3>1, <3>3 DEF RowFits, Flags
    <3>6. worker' = [worker EXCEPT ![o].pc = pc, ![o].batch = batch, ![o].flagged = flagged]
      BY <2>1 DEF LeaseBatch
    <3>7. pc \notin {"judged", "written"}
      OBVIOUS
    <3> HIDE DEF batch, flagged, pc
    <3>8. worker'[o] = W /\ (x # o => worker'[x] = worker[x])
      BY <2>0, <3>6
    <3>9. W.pc = pc /\ W.batch = batch /\ W.flagged = flagged /\ W.gate = worker[o].gate
      BY <2>0 DEF Workers
    <3> HIDE DEF W
    <3>10. InHand(W)
      BY <3>4, <3>5, <3>7, <3>9 DEF InHand
    <3>11. QED
      BY <2>0, <3>8, <3>10
  <2>2. CASE PassThrough(o)
    <3> DEFINE rest == worker[o].batch \ worker[o].flagged
               pc == IF rest = {} THEN "renew" ELSE "batch"
               W == [worker[o] EXCEPT !.pc = pc, !.batch = rest, !.flagged = {}]
    <3>1. worker[o].flagged = Flags(worker[o].batch) /\ worker[o].gate = 2
      BY <2>0, <2>2 DEF PassThrough, InHand
    <3>2. \A p \in rest : OnItsWay(score[p], worker[o].gate)
      BY <2>0 DEF InHand
    <3>3. Flags(rest) = {}
      BY <3>1 DEF Flags
    <3>4. worker' = [worker EXCEPT ![o].pc = pc, ![o].batch = rest, ![o].flagged = {}]
      BY <2>2 DEF PassThrough
    <3>5. pc \notin {"judged", "written"}
      OBVIOUS
    <3> HIDE DEF rest, pc
    <3>6. worker'[o] = W /\ (x # o => worker'[x] = worker[x])
      BY <2>0, <3>4
    <3>7. W.pc = pc /\ W.batch = rest /\ W.flagged = {} /\ W.gate = worker[o].gate
      BY <2>0 DEF Workers
    <3> HIDE DEF W
    <3>8. InHand(W)
      BY <3>2, <3>3, <3>5, <3>7 DEF InHand
    <3>9. QED
      BY <2>0, <3>6, <3>8
  <2>3. CASE JudgeEncoder(o)
    <3> DEFINE f == [p \in worker[o].batch |-> EncoderOutcome(worker[o].gate, score[p])]
               W == [worker[o] EXCEPT !.pc = "judged", !.flagged = {}, !.outcome = f]
    <3>1. worker[o].gate # 4 /\ (worker[o].gate = 2 => worker[o].flagged = {})
      BY <2>0, <2>3 DEF JudgeEncoder, Workers, Gate
    <3>2. worker[o].gate = 2 => Flags(worker[o].batch) = {}
      BY <2>0, <2>3, <3>1 DEF JudgeEncoder, InHand
    <3>3. \A p \in worker[o].batch : OutcomeFits(worker[o].gate, p, f[p])
      BY <3>1 DEF OutcomeFits
    <3>4. worker' = [worker EXCEPT ![o].pc = "judged", ![o].flagged = {}, ![o].outcome = f]
      BY <2>3 DEF JudgeEncoder
    <3> HIDE DEF f
    <3>5. worker'[o] = W /\ (x # o => worker'[x] = worker[x])
      BY <2>0, <3>4
    <3>6. /\ W.pc = "judged" /\ W.batch = worker[o].batch /\ W.outcome = f
          /\ W.gate = worker[o].gate
      BY <2>0 DEF Workers
    <3> HIDE DEF W
    <3>7. InHand(W)
      BY <2>0, <3>2, <3>3, <3>6 DEF InHand
    <3>8. QED
      BY <2>0, <3>5, <3>7
  <2>4. CASE JudgeTail(o)
    <3>1. PICK f \in [worker[o].batch -> TailOutcomes], n \in Nat :
             /\ InShadow(o) => n = 0 /\ \A p \in worker[o].batch : f[p] = Tailed(None, None)
             /\ Cardinality({p \in worker[o].batch : f[p].decidedBy = "GK_G4_LLM"}) <= n
             /\ MaxLlmPairs > 0 => n = 0 \/ worker[o].spent + n <= MaxLlmPairs
             /\ worker' = [worker EXCEPT ![o].pc = "judged", ![o].flagged = {},
                                         ![o].spent = @ + n, ![o].outcome = f]
             /\ calls' = [calls EXCEPT ![worker[o].run] = @ + n]
      BY <2>4, JudgeTailEffect
    <3> DEFINE W == [worker[o] EXCEPT !.pc = "judged", !.flagged = {}, !.spent = @ + n, !.outcome = f]
    <3>2. worker[o].gate = 4
      BY <2>4 DEF JudgeTail
    <3>3. worker'[o] = W /\ (x # o => worker'[x] = worker[x])
      BY <2>0, <3>1
    <3>4. /\ W.pc = "judged" /\ W.batch = worker[o].batch /\ W.outcome = f
          /\ W.gate = worker[o].gate
      BY <2>0 DEF Workers
    <3> HIDE DEF W
    <3>5. InHand(W)
      BY <2>0, <3>1, <3>2, <3>4 DEF InHand, OutcomeFits
    <3>6. QED
      BY <2>0, <3>3, <3>5
  <2>5. CASE WriteEdges(o)
    <3>1. worker'[o] = [worker[o] EXCEPT !.pc = "written"] /\ (x # o => worker'[x] = worker[x])
      BY <2>0, <2>5 DEF WriteEdges, Goto
    <3>2. /\ worker'[o].pc = "written" /\ worker'[o].batch = worker[o].batch
          /\ worker'[o].outcome = worker[o].outcome /\ worker'[o].gate = worker[o].gate
          /\ worker[o].pc = "judged"
      BY <2>0, <2>5, <3>1 DEF WriteEdges, Workers
    <3>3. InHand(worker'[o])
      BY <2>0, <3>2 DEF InHand
    <3>4. QED
      BY <2>0, <3>1, <3>3
  <2>6. CASE Route(o)
    <3>1. /\ worker'[o] = [worker[o] EXCEPT !.pc = "renew", !.batch = {}, !.outcome = <<>>]
          /\ x # o => worker'[x] = worker[x]
      BY <2>0, <2>6 DEF Route
    <3>2. worker'[o].pc = "renew" /\ worker'[o].batch = {}
      BY <2>0, <3>1 DEF Workers
    <3>3. QED
      BY <2>0, <3>1, <3>2 DEF InHand
  <2>7. QED
    BY <1>2, <2>1, <2>2, <2>3, <2>4, <2>5, <2>6 DEF Handles
<1>3. QED
  BY <1>1, <1>2

\* A verdict row is purged, or merged with what a worker judged.
LEMMA EdgeSteps ==
  ASSUME TypeInv, [Next]_vars, NEW p \in Pair
  PROVE  \/ edges'[p] = edges[p]
         \/ edges'[p] = NoEdge /\ \E o \in Owner : Purge(o)
         \/ \E o \in Owner : /\ worker[o].pc = "judged" /\ p \in worker[o].batch
                             /\ edges'[p] = Merged(edges[p], worker[o].outcome[p], o)
<1>1. CASE \E o \in Owner : Purge(o)
  BY <1>1 DEF Purge
<1>2. CASE \E o \in Owner : WriteEdges(o)
  BY <1>2 DEF WriteEdges
<1>3. CASE UNCHANGED edges
  BY <1>3
<1>4. ASSUME NEW o \in Owner, RunGate(o) \/ Crash(o) \/ TaskRetry(o) \/ LeftLeasesExpire(o) \/ Stall(o),
             ~Purge(o), ~WriteEdges(o)
      PROVE  UNCHANGED edges
  BY <1>4 DEF RunGate, LeftLeasesExpire, Stall, LoadRun, Reset, Seed, Renew, LeaseBatch, PassThrough,
              JudgeEncoder, JudgeTail, Route, FailGate, CommitGate, CommitRefused, TallyRows,
              Finalize, Crash, TaskRetry
<1>5. ASSUME NEW k \in Run, GateLeaseExpires(k) \/ \E o \in Owner : OpenRun(k, o) \/ ClaimGate(k, o)
      PROVE  UNCHANGED edges
  BY <1>5 DEF GateLeaseExpires, OpenRun, ClaimGate
<1>6. CASE UNCHANGED vars
  BY <1>3, <1>6 DEF vars
<1>7. QED
  BY <1>1, <1>2, <1>3, <1>4, <1>5, <1>6 DEF Next

LEMMA CascadeStep == TypeInv /\ CascadeInv /\ [Next]_vars => CascadeInv'
<1> SUFFICES ASSUME TypeInv, CascadeInv, [Next]_vars PROVE CascadeInv'
  OBVIOUS
<1>0. score' = score
  BY ScoreKept
<1>1. \A p \in Pair : RowFits(score'[p], rows'[p])
  BY <1>0, RowsStep
<1>2. \A o \in Owner : InHand(worker[o])'
  BY <1>0, HandsStep DEF InHand, OutcomeFits, Flags
<1>3. ASSUME NEW p \in Pair, edges'[p].method = "GK_G2_GROUNDING"
      PROVE  score[p].g1 # "FLAG"
  <2>1. CASE edges'[p] = edges[p]
    BY <1>3, <2>1 DEF CascadeInv
  <2>2. CASE edges'[p] = NoEdge
    BY <1>3, <2>2, NoneAssumption DEF NoEdge, Method
  <2>3. ASSUME NEW o \in Owner, worker[o].pc = "judged", p \in worker[o].batch,
               edges'[p] = Merged(edges[p], worker[o].outcome[p], o)
        PROVE  score[p].g1 # "FLAG"
    <3>1. worker[o].gate \in Gate /\ InHand(worker[o])
      BY DEF TypeInv, WorkersInv, Workers, CascadeInv
    <3>2. GateMethod[worker[o].gate] = "GK_G2_GROUNDING"
      BY <1>3, <2>3 DEF Merged
    <3>3. worker[o].gate = 2
      BY <3>1, <3>2 DEF Gate, GateMethod
    <3>4. QED
      BY <2>3, <3>1, <3>3 DEF InHand, Flags
  <2>4. QED
    BY <2>1, <2>2, <2>3, EdgeSteps
<1>4. QED
  BY <1>0, <1>1, <1>2, <1>3 DEF CascadeInv

(***************************************************************************)
(* Every pair is where its scores send it, every batch in hand holds pairs *)
(* that were sent to its gate, and G2 has written for no flagged pair,     *)
(* whichever workers race, stall, crash and come back.                     *)
(***************************************************************************)
THEOREM CascadeCorrect == Spec => [](TypeInv /\ CascadeInv)
<1>1. Init => TypeInv /\ CascadeInv
  BY TypeInit, CascadeInit
<1>2. (TypeInv /\ CascadeInv) /\ [Next]_vars => (TypeInv /\ CascadeInv)'
  BY TypeStep, CascadeStep
<1>3. QED
  BY <1>1, <1>2, PTL DEF Spec

(***************************************************************************)
(* A pair in which G1 sees a contradiction keeps its flag on the way to the*)
(* cross-check and is neither settled nor recorded by G2 (gates/g2.py).    *)
(***************************************************************************)
THEOREM EscapeHatchCorrect == Spec => []EscapeHatch
<1>1. TypeInv /\ CascadeInv => EscapeHatch
  <2> SUFFICES ASSUME TypeInv, CascadeInv, NEW p \in Pair, score[p].g1 = "FLAG"
               PROVE  /\ rows[p].gate \in {2, 3} => rows[p].flag
                      /\ rows[p].decidedBy # "GK_G2_GROUNDING"
                      /\ edges[p].method # "GK_G2_GROUNDING"
    BY DEF EscapeHatch
  <2>1. RowFits(score[p], rows[p])
    BY DEF CascadeInv
  <2>2. rows[p].gate \in {2, 3} => rows[p].flag
    BY <2>1 DEF RowFits
  <2>3. rows[p].decidedBy # "GK_G2_GROUNDING"
    BY <2>1, NoneAssumption DEF RowFits, WayOut, Method
  <2>4. QED
    BY <2>2, <2>3 DEF CascadeInv
<1>2. QED
  BY CascadeCorrect, <1>1, PTL

(***************************************************************************)
(* No encoder settles a disputed pair, for any number of runs and workers  *)
(* over the same queue (g1._routing, g3._routing).                         *)
(***************************************************************************)
THEOREM DisputesCorrect == Spec => []DisputesReachTheTail
<1>1. TypeInv /\ CascadeInv => DisputesReachTheTail
  <2> SUFFICES ASSUME TypeInv, CascadeInv, NEW p \in Pair, IsDisputed(score[p])
               PROVE  /\ rows[p].decidedBy \in {None, "GK_G4_LLM"}
                      /\ rows[p].gate = Left => rows[p].tier \in {"LLM_TAIL", "HUMAN"}
                      /\ score[p].g1 = "ESCALATE" => rows[p].gate \notin {2, 3}
    BY DEF DisputesReachTheTail, IsDisputed
  <2>1. RowFits(score[p], rows[p])
    BY DEF CascadeInv
  <2>2. rows[p].gate = Left => /\ rows[p].decidedBy \in {None, "GK_G4_LLM"}
                               /\ rows[p].tier \in {"LLM_TAIL", "HUMAN"}
    BY <2>1 DEF RowFits, WayOut, OnItsWay, IsDisputed
  <2>3. QED
    BY <2>1, <2>2 DEF RowFits, OnItsWay, IsDisputed, Left
<1>2. QED
  BY CascadeCorrect, <1>1, PTL

(***************************************************************************)
(* Whichever workers route the same row, it moves only down the cascade and*)
(* what settled it is not replaced; only a reset or a seed takes it back,  *)
(* and to the head (PairQueue.route_all).                                  *)
(***************************************************************************)
THEOREM OnlyResetGoesBackCorrect == Spec => OnlyResetGoesBack
<1>1. TypeInv /\ CascadeInv /\ [Next]_vars =>
        \A p \in Pair :
          \/ rows'[p] = HeadOfCascade
          \/ Depth(rows[p]) < Depth(rows'[p])
          \/ [rows'[p] EXCEPT !.owner = None, !.live = FALSE]
               = [rows[p] EXCEPT !.owner = None, !.live = FALSE]
  <2> SUFFICES ASSUME TypeInv, CascadeInv, [Next]_vars, NEW p \in Pair, Leased(rows[p], rows'[p])
               PROVE  [rows'[p] EXCEPT !.owner = None, !.live = FALSE]
                        = [rows[p] EXCEPT !.owner = None, !.live = FALSE]
    BY RowSteps, MovedFits
  <2>1. rows[p] \in Row
    BY DEF TypeInv
  <2>2. QED
    BY <2>1 DEF Leased, Row
<1>2. QED
  BY CascadeCorrect, <1>1, PTL DEF OnlyResetGoesBack, Spec

-----------------------------------------------------------------------------
(***************************************************************************)
(* SHADOW mode.  Runs are judged as they were opened: a run that was never *)
(* opened has no worker and no calls, and an open one keeps its mode.  The *)
(* verdict rows are silent until a run in earnest is opened.               *)
(***************************************************************************)
Opened(k) == docs[k].state # "ABSENT"

ShadowInv ==
  /\ \A k \in Run : Opened(k) => docs[k].mode \in JudgeModes
  /\ \A o \in Owner : worker[o].pc # "idle" => Opened(worker[o].run)
  /\ \A k \in Run : ~Opened(k) \/ docs[k].mode = "SHADOW" => calls[k] = 0
  /\ (\A k \in Run : Opened(k) => docs[k].mode # "GATEKEEPER") =>
       \A p \in Pair : edges[p].relation = None /\ edges[p].reason = None

LEMMA ShadowInit == Init => ShadowInv
<1> SUFFICES ASSUME Init PROVE ShadowInv
  OBVIOUS
<1>1. AbsentDoc.state = "ABSENT" /\ IdleWorker.pc = "idle"
  BY DEF AbsentDoc, IdleWorker
<1>2. NoEdge.relation = None /\ NoEdge.reason = None
  BY DEF NoEdge
<1>3. QED
  BY <1>1, <1>2 DEF Init, ShadowInv, Opened

\* A document is opened once, by OpenRun, and keeps its mode.
LEMMA DocSteps ==
  ASSUME TypeInv, ShadowInv, [Next]_vars, NEW k \in Run
  PROVE  /\ Opened(k) => docs'[k].state # "ABSENT" /\ docs'[k].mode = docs[k].mode
         /\ ~Opened(k) /\ docs'[k].state # "ABSENT" => docs'[k].mode \in JudgeModes
<1> DEFINE Goal == /\ Opened(k) => docs'[k].state # "ABSENT" /\ docs'[k].mode = docs[k].mode
                   /\ ~Opened(k) /\ docs'[k].state # "ABSENT" => docs'[k].mode \in JudgeModes
<1>0. docs \in [Run -> Doc] /\ docs[k] \in Doc
  BY DEF TypeInv
<1>1. ASSUME NEW j \in Run, NEW o \in Owner, OpenRun(j, o) PROVE Goal
  <2>1. PICK mode \in JudgeModes :
           docs' = [i \in Run |->
                      IF i = j THEN [state |-> "RUNNING", gate |-> 1, gateState |-> "RUNNING",
                                     holder |-> o, live |-> TRUE, attempt |-> 1, mode |-> mode]
                      ELSE IF docs[i].state = "RUNNING" THEN [docs[i] EXCEPT !.state = "SUPERSEDED"]
                      ELSE docs[i]]
    BY <1>1 DEF OpenRun
  <2>2. docs[j].state = "ABSENT"
    BY <1>1 DEF OpenRun
  <2>3. CASE k = j
    BY <2>1, <2>2, <2>3 DEF Opened
  <2>4. CASE k # j
    BY <1>0, <2>1, <2>4 DEF Opened, Doc
  <2>5. QED
    BY <2>3, <2>4
<1>2. ASSUME NEW j \in Run, NEW o \in Owner, ClaimGate(j, o) PROVE Goal
  BY <1>0, <1>2 DEF ClaimGate, Opened
<1>3. ASSUME NEW j \in Run, GateLeaseExpires(j) PROVE Goal
  BY <1>0, <1>3 DEF GateLeaseExpires, Opened, Doc
<1>4. ASSUME NEW o \in Owner, Renew(o) \/ FailGate(o) \/ CommitGate(o) \/ Finalize(o) PROVE Goal
  <2> DEFINE r == worker[o].run
  <2>1. r \in Run /\ Opened(r)
    BY <1>4 DEF TypeInv, WorkersInv, Sound, ShadowInv, Renew, FailGate, CommitGate, Finalize
  <2>2. CASE Renew(o)
    <3>1. docs' = docs \/ docs' = [docs EXCEPT ![r].live = TRUE]
      BY <2>2 DEF Renew
    <3>2. CASE docs' = docs
      BY <3>2 DEF Opened
    <3>3. CASE docs' = [docs EXCEPT ![r].live = TRUE]
      BY <1>0, <2>1, <3>3 DEF Opened, Doc
    <3>4. QED
      BY <3>1, <3>2, <3>3
  <2>3. CASE FailGate(o)
    <3>1. CASE MaySettle(o)
      BY <1>0, <2>1, <2>3, <3>1 DEF FailGate, Opened, Doc
    <3>2. CASE ~MaySettle(o)
      BY <2>3, <3>2 DEF FailGate, Opened
    <3>3. QED
      BY <3>1, <3>2
  <2>4. CASE CommitGate(o)
    <3>1. docs' = [docs EXCEPT ![r] = [docs[r] EXCEPT !.gate = @ + 1, !.gateState = "PENDING",
                                                      !.holder = None, !.live = FALSE, !.attempt = 0]]
      BY <2>4 DEF CommitGate
    <3>2. QED
      BY <1>0, <2>1, <3>1 DEF Opened, Doc
  <2>5. CASE Finalize(o)
    <3>1. \/ docs' = docs
          \/ \E st \in {"SUCCEEDED", "FAILED"} : docs' = [docs EXCEPT ![r].state = st]
      BY <2>5 DEF Finalize
    <3>2. QED
      BY <1>0, <2>1, <3>1 DEF Opened, Doc
  <2>6. QED
    BY <1>4, <2>2, <2>3, <2>4, <2>5
<1>5. CASE UNCHANGED docs
  BY <1>5 DEF Opened
<1>6. ASSUME NEW o \in Owner, RunGate(o) \/ Crash(o) \/ TaskRetry(o) \/ LeftLeasesExpire(o) \/ Stall(o),
             ~(Renew(o) \/ FailGate(o) \/ CommitGate(o) \/ Finalize(o))
      PROVE  UNCHANGED docs
  BY <1>6 DEF RunGate, LeftLeasesExpire, Stall, LoadRun, Purge, Reset, Seed, LeaseBatch, PassThrough,
              JudgeEncoder, JudgeTail, WriteEdges, Route, CommitRefused, TallyRows, Crash, TaskRetry
<1>7. CASE UNCHANGED vars
  BY <1>5, <1>7 DEF vars
<1>8. QED
  BY <1>1, <1>2, <1>3, <1>4, <1>5, <1>6, <1>7 DEF Next

\* A worker is started for a run that is open, and stays with it.
KeepsRun(w, W) == W.pc = "idle" \/ W = w \/ (w.pc # "idle" /\ W.run = w.run)

LEMMA KeepsRunExit ==
  ASSUME TypeInv, NEW o \in Owner, worker[o].pc # "idle", NEW pc, Exit(o) \/ Stop(o) \/ Goto(o, pc)
  PROVE  \A x \in Owner : KeepsRun(worker[x], worker'[x])
<1>0. worker \in [Owner -> Workers] /\ worker[o] \in Workers
  BY DEF TypeInv, WorkersInv
<1>1. IdleWorker.pc = "idle"
  BY DEF IdleWorker
<1>2. CASE Exit(o)
  BY <1>0, <1>1, <1>2 DEF Exit, KeepsRun
<1>3. CASE Stop(o)
  <2> DEFINE W == [IdleWorker EXCEPT !.pc = "down", !.run = worker[o].run, !.gate = worker[o].gate,
                                     !.retries = worker[o].retries]
  <2>1. W.run = worker[o].run
    BY IdleType DEF Workers
  <2>2. /\ worker'[o] = W \/ worker'[o] = IdleWorker
        /\ \A x \in Owner : x # o => worker'[x] = worker[x]
    BY <1>0, <1>3 DEF Stop
  <2> HIDE DEF W
  <2>3. QED
    BY <1>1, <2>1, <2>2 DEF KeepsRun
<1>4. CASE Goto(o, pc)
  <2>1. /\ worker'[o] = [worker[o] EXCEPT !.pc = pc]
        /\ \A x \in Owner : x # o => worker'[x] = worker[x]
    BY <1>0, <1>4 DEF Goto
  <2>2. worker'[o].run = worker[o].run
    BY <1>0, <2>1 DEF Workers
  <2>3. QED
    BY <2>1, <2>2 DEF KeepsRun
<1>5. QED
  BY <1>2, <1>3, <1>4

LEMMA RunKept ==
  ASSUME TypeInv, [Next]_vars, NEW x \in Owner
  PROVE  \/ KeepsRun(worker[x], worker'[x])
         \/ \E k \in Run : worker'[x].run = k /\ docs'[k].state = "RUNNING"
<1>0. worker \in [Owner -> Workers] /\ docs \in [Run -> Doc]
  BY DEF TypeInv, WorkersInv
<1>1. ASSUME NEW k \in Run, NEW o \in Owner, OpenRun(k, o) \/ ClaimGate(k, o)
      PROVE  \/ worker'[x] = worker[x]
             \/ worker'[x].run = k /\ docs'[k].state = "RUNNING"
  <2>1. PICK g \in {1, docs[k].gate} : Launched(o, k, g)
    BY <1>1 DEF OpenRun, ClaimGate
  <2> DEFINE W == [IdleWorker EXCEPT !.pc = "launched", !.run = k, !.gate = g]
  <2>2. W.run = k
    BY IdleType DEF Workers
  <2>3. worker'[o] = W /\ (x # o => worker'[x] = worker[x])
    BY <1>0, <2>1 DEF Launched
  <2> HIDE DEF W
  <2>4. docs'[k].state = "RUNNING"
    <3>1. CASE OpenRun(k, o)
      BY <3>1 DEF OpenRun
    <3>2. CASE ClaimGate(k, o)
      BY <1>0, <3>2 DEF ClaimGate
    <3>3. QED
      BY <1>1, <3>1, <3>2
  <2>5. QED
    BY <2>2, <2>3, <2>4
<1>2. ASSUME NEW o \in Owner, LeaseBatch(o) \/ PassThrough(o) \/ JudgeEncoder(o) \/ Route(o) \/ TaskRetry(o)
      PROVE  KeepsRun(worker[x], worker'[x])
  <2>1. worker[o].pc # "idle" /\ worker[o] \in Workers
    BY <1>0, <1>2 DEF LeaseBatch, PassThrough, JudgeEncoder, Route, TaskRetry
  <2>2. x # o => worker'[x] = worker[x]
    BY <1>0, <1>2 DEF LeaseBatch, PassThrough, JudgeEncoder, Route, TaskRetry
  <2>3. worker'[o].run = worker[o].run
    <3>1. CASE LeaseBatch(o)
      BY <1>0, <2>1, <3>1 DEF LeaseBatch, Workers
    <3>2. CASE PassThrough(o)
      BY <1>0, <2>1, <3>2 DEF PassThrough, Workers
    <3>3. CASE JudgeEncoder(o)
      BY <1>0, <2>1, <3>3 DEF JudgeEncoder, Workers
    <3>4. CASE Route(o)
      BY <1>0, <2>1, <3>4 DEF Route, Workers
    <3>5. CASE TaskRetry(o)
      BY <1>0, <2>1, <3>5 DEF TaskRetry, Workers
    <3>6. QED
      BY <1>2, <3>1, <3>2, <3>3, <3>4, <3>5
  <2>4. QED
    BY <2>1, <2>2, <2>3 DEF KeepsRun
<1>3. ASSUME NEW o \in Owner, JudgeTail(o) PROVE KeepsRun(worker[x], worker'[x])
  <2>1. PICK f \in [worker[o].batch -> TailOutcomes], n \in Nat :
           /\ InShadow(o) => n = 0 /\ \A p \in worker[o].batch : f[p] = Tailed(None, None)
           /\ Cardinality({p \in worker[o].batch : f[p].decidedBy = "GK_G4_LLM"}) <= n
           /\ MaxLlmPairs > 0 => n = 0 \/ worker[o].spent + n <= MaxLlmPairs
           /\ worker' = [worker EXCEPT ![o].pc = "judged", ![o].flagged = {},
                                       ![o].spent = @ + n, ![o].outcome = f]
           /\ calls' = [calls EXCEPT ![worker[o].run] = @ + n]
    BY <1>3, JudgeTailEffect
  <2>2. worker[o].pc # "idle" /\ worker[o] \in Workers
    BY <1>0, <1>3 DEF JudgeTail
  <2>3. worker'[o].run = worker[o].run /\ (x # o => worker'[x] = worker[x])
    BY <1>0, <2>1, <2>2 DEF Workers
  <2>4. QED
    BY <2>2, <2>3 DEF KeepsRun
<1>4. ASSUME NEW o \in Owner, LoadRun(o) PROVE KeepsRun(worker[x], worker'[x])
  <2>1. worker[o].pc # "idle" /\ worker[o] \in Workers
    BY <1>0, <1>4 DEF LoadRun
  <2>2. CASE Stop(o)
    BY <2>1, <2>2, KeepsRunExit
  <2>3. CASE ~Stop(o)
    <3>1. PICK pc, spent : worker' = [worker EXCEPT ![o].pc = pc, ![o].spent = spent]
      BY <1>4, <2>3 DEF LoadRun
    <3>2. worker'[o].run = worker[o].run /\ (x # o => worker'[x] = worker[x])
      BY <1>0, <2>1, <3>1 DEF Workers
    <3>3. QED
      BY <2>1, <3>2 DEF KeepsRun
  <2>4. QED
    BY <2>2, <2>3
<1>5. ASSUME NEW o \in Owner,
             \/ Purge(o) \/ Reset(o) \/ Seed(o) \/ Renew(o) \/ WriteEdges(o) \/ FailGate(o)
             \/ CommitGate(o) \/ CommitRefused(o) \/ TallyRows(o) \/ Finalize(o) \/ Crash(o)
      PROVE  KeepsRun(worker[x], worker'[x])
  <2>1. worker[o].pc # "idle"
    BY <1>5 DEF Purge, Reset, Seed, Renew, WriteEdges, FailGate, CommitGate, CommitRefused,
                TallyRows, Finalize, Crash
  <2>2. Exit(o) \/ Stop(o) \/ \E pc \in Pc : Goto(o, pc)
    BY <1>5 DEF Purge, Reset, Seed, Renew, WriteEdges, FailGate, CommitGate, CommitRefused,
                TallyRows, Finalize, Crash, Pc
  <2>3. QED
    BY <2>1, <2>2, KeepsRunExit
<1>6. ASSUME UNCHANGED worker PROVE KeepsRun(worker[x], worker'[x])
  BY <1>6 DEF KeepsRun
<1>7. CASE \E k \in Run : GateLeaseExpires(k)
  BY <1>6, <1>7 DEF GateLeaseExpires
<1>8. CASE \E o \in Owner : LeftLeasesExpire(o) \/ Stall(o)
  BY <1>6, <1>8 DEF LeftLeasesExpire, Stall
<1>9. CASE UNCHANGED vars
  BY <1>6, <1>9 DEF vars
<1>10. QED
  BY <1>1, <1>2, <1>3, <1>4, <1>5, <1>7, <1>8, <1>9 DEF Next, RunGate, KeepsRun

LEMMA CallSteps ==
  ASSUME TypeInv, [Next]_vars
  PROVE  \/ calls' = calls
         \/ \E o \in Owner, n \in Nat :
               /\ worker[o].pc = "batch"
               /\ InShadow(o) => n = 0
               /\ calls' = [calls EXCEPT ![worker[o].run] = @ + n]
<1>1. ASSUME NEW o \in Owner, JudgeTail(o)
      PROVE  \E n \in Nat : /\ InShadow(o) => n = 0
                            /\ calls' = [calls EXCEPT ![worker[o].run] = @ + n]
  BY <1>1, JudgeTailEffect
<1>2. ASSUME NEW o \in Owner, JudgeTail(o) PROVE worker[o].pc = "batch"
  BY <1>2 DEF JudgeTail
<1>3. ASSUME NEW o \in Owner, RunGate(o) \/ Crash(o) \/ TaskRetry(o) \/ LeftLeasesExpire(o) \/ Stall(o),
             ~JudgeTail(o)
      PROVE  UNCHANGED calls
  BY <1>3 DEF RunGate, LeftLeasesExpire, Stall, LoadRun, Purge, Reset, Seed, Renew, LeaseBatch,
              PassThrough, JudgeEncoder, WriteEdges, Route, FailGate, CommitGate, CommitRefused,
              TallyRows, Finalize, Crash, TaskRetry
<1>4. ASSUME NEW k \in Run, GateLeaseExpires(k) \/ \E o \in Owner : OpenRun(k, o) \/ ClaimGate(k, o)
      PROVE  UNCHANGED calls
  BY <1>4 DEF GateLeaseExpires, OpenRun, ClaimGate
<1>5. CASE UNCHANGED vars
  BY <1>5 DEF vars
<1>6. QED
  BY <1>1, <1>2, <1>3, <1>4, <1>5 DEF Next

LEMMA ShadowStep == TypeInv /\ ShadowInv /\ [Next]_vars => ShadowInv'
<1> SUFFICES ASSUME TypeInv, ShadowInv, [Next]_vars PROVE ShadowInv'
  OBVIOUS
<1>0. /\ docs \in [Run -> Doc] /\ calls \in [Run -> Nat] /\ edges \in [Pair -> Edge]
      /\ \A o \in Owner : worker[o].pc # "idle" => worker[o].run \in Run /\ Opened(worker[o].run)
  BY DEF TypeInv, WorkersInv, Sound, ShadowInv
<1>1. \A k \in Run : docs'[k].state # "ABSENT" => docs'[k].mode \in JudgeModes
  BY DocSteps DEF ShadowInv
<1>2. ASSUME NEW x \in Owner, worker'[x].pc # "idle" PROVE docs'[worker'[x].run].state # "ABSENT"
  <2>1. CASE KeepsRun(worker[x], worker'[x])
    BY <1>0, <1>2, <2>1, DocSteps DEF KeepsRun
  <2>2. QED
    BY <2>1, RunKept
<1>3. ASSUME NEW k \in Run, docs'[k].state = "ABSENT" \/ docs'[k].mode = "SHADOW"
      PROVE  calls'[k] = 0
  <2>1. ~Opened(k) \/ docs[k].mode = "SHADOW"
    BY <1>3, DocSteps
  <2>2. calls[k] = 0
    BY <2>1 DEF ShadowInv
  <2>3. ASSUME NEW o \in Owner, NEW n \in Nat, worker[o].pc = "batch", InShadow(o) => n = 0,
               calls' = [calls EXCEPT ![worker[o].run] = @ + n]
        PROVE  calls'[k] = 0
    <3>1. worker[o].run = k => n = 0
      BY <1>0, <2>1, <2>3 DEF InShadow
    <3>2. QED
      BY <1>0, <2>2, <2>3, <3>1
  <2>4. QED
    BY <2>2, <2>3, CallSteps
<1>4. ASSUME \A k \in Run : docs'[k].state # "ABSENT" => docs'[k].mode # "GATEKEEPER", NEW p \in Pair
      PROVE  edges'[p].relation = None /\ edges'[p].reason = None
  <2>1. \A k \in Run : Opened(k) => docs[k].mode # "GATEKEEPER"
    BY <1>4, DocSteps
  <2>2. edges[p].relation = None /\ edges[p].reason = None
    BY <2>1 DEF ShadowInv
  <2>3. ASSUME NEW o \in Owner, worker[o].pc = "judged",
               edges'[p] = Merged(edges[p], worker[o].outcome[p], o)
        PROVE  edges'[p].relation = None /\ edges'[p].reason = None
    <3>1. InShadow(o)
      BY <1>0, <2>1, <2>3, ModesAssumption DEF InShadow, ShadowInv
    <3>2. QED
      BY <2>2, <2>3, <3>1 DEF Merged
  <2>4. QED
    BY <2>2, <2>3, EdgeSteps DEF NoEdge
<1>5. QED
  BY <1>1, <1>2, <1>3, <1>4 DEF ShadowInv, Opened

(***************************************************************************)
(* No run in SHADOW mode ever calls the LLM, and until a run in earnest is *)
(* opened no verdict row shows a relation or a reason (edges.to_firestore, *)
(* g4._record_shadow).                                                     *)
(***************************************************************************)
THEOREM ShadowSilentCorrect == Spec => []ShadowSilent
<1>1. Init => TypeInv /\ ShadowInv
  BY TypeInit, ShadowInit
<1>2. (TypeInv /\ ShadowInv) /\ [Next]_vars => (TypeInv /\ ShadowInv)'
  BY TypeStep, ShadowStep
<1>3. TypeInv /\ ShadowInv => ShadowSilent
  BY DEF ShadowInv, ShadowSilent
<1>4. QED
  BY <1>1, <1>2, <1>3, PTL DEF Spec

-----------------------------------------------------------------------------
(***************************************************************************)
(* One run, undelayed.  As long as one run has been opened and no worker   *)
(* has stood still past its lease, the lease is a lock: crashes, errors,   *)
(* task retries and rescues never put two workers into the gates.          *)
(***************************************************************************)
Alone == faults["stall"] = 0 /\ \A k \in Run : Opened(k) => k = 1

Off == {"idle", "down", "launched"}
Setup == {"purge", "reset", "seed"}
Loop == {"renew", "lease", "batch", "judged", "written", "settle"}
Ending == {"finalize", "reconciled", "stranded"}
Busy(o) == worker[o].pc \in Setup \union Loop

\* A document is as it was until it is opened.
AbsentDocs == \A k \in Run : ~Opened(k) => docs[k] = AbsentDoc

\* Who works holds the gate, and a lease lapses only when its holder is gone.
Exclusive ==
  /\ \A o \in Owner : Busy(o) => /\ docs[1].gate = worker[o].gate
                                 /\ docs[1].gateState = "RUNNING" /\ docs[1].holder = o
  /\ docs[1].gateState = "RUNNING" => /\ docs[1].holder \in Owner
                                      /\ ~docs[1].live => Gone(docs[1].holder)

Drained == \A p \in Pair : rows[p].gate = Left

\* The queue is seeded before G1 takes a batch, and drained when the run is over.
Filled ==
  /\ \A p \in Pair : ~rows[p].seeded =>
       docs[1].gate = 1 /\ \A o \in Owner : Busy(o) => worker[o].pc \in Setup
  /\ \A o \in Owner : worker[o].pc \in Ending =>
       docs[1].gate = 5 /\ (worker[o].pc = "reconciled" => Drained)
  /\ docs[1].state = "SUCCEEDED" => docs[1].gate = 5 /\ Drained

\* A row that has left the cascade names the run that took it out.
LeftBy == \A p \in Pair : rows[p].gate = Left => rows[p].run \in Run /\ Opened(rows[p].run)

\* The pairs of its batch a tail execution is about to settle.
Answered(w) == {p \in w.batch : w.outcome[p].decidedBy = "GK_G4_LLM"}

\* What an execution of the tail has spent covers what it has settled.
Budgeted ==
  /\ MaxLlmPairs > 0 => Settled <= MaxLlmPairs
  /\ \A o \in Owner : Busy(o) /\ worker[o].gate = 4 =>
       IF worker[o].pc \in {"judged", "written"}
       THEN /\ Settled + Cardinality(Answered(worker[o])) <= worker[o].spent
            /\ MaxLlmPairs > 0 => Settled + Cardinality(Answered(worker[o])) <= MaxLlmPairs
       ELSE Settled <= worker[o].spent

SoleInv == AbsentDocs /\ LeftBy /\ (Alone => Exclusive /\ Filled /\ Budgeted)

\* An execution that ends, or waits for its retry, works no more.
LEMMA LetGo ==
  ASSUME TypeInv, NEW o \in Owner, Exit(o) \/ Stop(o)
  PROVE  /\ worker'[o].pc \in Off \ {"launched"}
         /\ worker'[o].pc # "idle" => worker'[o].gate = worker[o].gate
         /\ \A x \in Owner : x # o => worker'[x] = worker[x]
<1> DEFINE W == [IdleWorker EXCEPT !.pc = "down", !.run = worker[o].run, !.gate = worker[o].gate,
                                   !.retries = worker[o].retries]
<1>1. W.pc = "down" /\ W.gate = worker[o].gate /\ IdleWorker.pc = "idle"
  <2>1. IdleWorker.pc = "idle"
    BY DEF IdleWorker
  <2>2. W.pc = "down"
    BY IdleType DEF Workers
  <2>3. W.gate = worker[o].gate
    BY IdleType DEF Workers
  <2>4. QED
    BY <2>1, <2>2, <2>3
<1>2. /\ worker'[o] = W \/ worker'[o] = IdleWorker
      /\ \A x \in Owner : x # o => worker'[x] = worker[x]
  BY DEF Exit, Stop, TypeInv, WorkersInv
<1> HIDE DEF W
<1>3. QED
  BY <1>1, <1>2 DEF Off

\* Where a step takes the worker that takes it.
LEMMA WorkerSteps ==
  ASSUME TypeInv, NEW o \in Owner, RunGate(o) \/ Crash(o) \/ TaskRetry(o)
  PROVE  /\ worker[o].pc # "idle"
         /\ \A x \in Owner : x # o => worker'[x] = worker[x]
         /\ \/ /\ worker'[o].pc \in Off /\ (worker'[o].pc = "launched" => TaskRetry(o))
               /\ worker'[o].pc # "idle" => worker'[o].gate = worker[o].gate
            \/ /\ worker'[o].gate = worker[o].gate
               /\ \/ /\ LoadRun(o) /\ Holds(o)
                     /\ worker'[o].pc \in IF worker[o].gate > 1 THEN {"renew"} ELSE {"purge", "seed"}
                     /\ worker'[o].pc = "purge" => docs[worker[o].run].attempt <= 1
                  \/ /\ worker[o].pc \in Setup /\ worker'[o].pc \in Setup
                     /\ \/ Purge(o) /\ worker'[o].pc = "reset"
                        \/ Reset(o) /\ worker'[o].pc = "seed"
                  \/ Seed(o) /\ worker'[o].pc = "renew"
                  \/ worker[o].pc \in Loop /\ worker'[o].pc \in Loop
                  \/ CommitGate(o) /\ worker[o].gate = 4 /\ worker'[o].pc = "finalize"
                  \/ TallyRows(o) /\ worker'[o].pc \in {"reconciled", "stranded"}
<1>0. worker \in [Owner -> Workers] /\ worker[o] \in Workers
  BY DEF TypeInv, WorkersInv
<1>1. worker[o].pc # "idle"
  BY DEF RunGate, LoadRun, Purge, Reset, Seed, Renew, LeaseBatch, PassThrough, JudgeEncoder, JudgeTail,
         WriteEdges, Route, FailGate, CommitGate, CommitRefused, TallyRows, Finalize, Crash, TaskRetry
<1>2. ASSUME Exit(o) \/ Stop(o)
      PROVE  /\ worker'[o].pc \in Off \ {"launched"}
             /\ worker'[o].pc # "idle" => worker'[o].gate = worker[o].gate
             /\ \A x \in Owner : x # o => worker'[x] = worker[x]
  BY <1>2, LetGo
<1>3. ASSUME NEW pc, Goto(o, pc)
      PROVE  /\ worker'[o].pc = pc /\ worker'[o].gate = worker[o].gate
             /\ \A x \in Owner : x # o => worker'[x] = worker[x]
  BY <1>0, <1>3 DEF Goto, Workers
<1>4. CASE LoadRun(o)
  <2>1. CASE ~Holds(o)
    BY <1>1, <1>2, <1>4, <2>1 DEF LoadRun
  <2>2. CASE Holds(o)
    <3> DEFINE pc == CASE worker[o].gate > 1 -> "renew"
                       [] worker[o].gate = 1 /\ docs[worker[o].run].attempt <= 1 -> "purge"
                       [] OTHER -> "seed"
    <3>1. /\ pc \in IF worker[o].gate > 1 THEN {"renew"} ELSE {"purge", "seed"}
          /\ pc = "purge" => docs[worker[o].run].attempt <= 1
      <4>1. worker[o].gate \in Gate
        BY <1>0 DEF Workers
      <4>2. CASE worker[o].gate > 1
        BY <4>1, <4>2 DEF Gate
      <4>3. CASE ~(worker[o].gate > 1)
        BY <4>1, <4>3 DEF Gate
      <4>4. QED
        BY <4>2, <4>3
    <3>2. worker' = [worker EXCEPT ![o].pc = pc,
                                   ![o].spent = IF worker[o].gate = 4 THEN Settled ELSE 0]
      BY <1>4, <2>2 DEF LoadRun
    <3> HIDE DEF pc
    <3>3. /\ worker'[o].pc = pc /\ worker'[o].gate = worker[o].gate
          /\ \A x \in Owner : x # o => worker'[x] = worker[x]
      BY <1>0, <3>2 DEF Workers
    <3>4. QED
      BY <1>1, <1>4, <2>2, <3>1, <3>3
  <2>3. QED
    BY <2>1, <2>2
<1>5. CASE Purge(o) \/ Reset(o)
  <2>1. worker[o].pc \in Setup /\ "reset" \in Setup /\ "seed" \in Setup
    BY <1>5 DEF Purge, Reset, Setup
  <2>2. (Purge(o) /\ Goto(o, "reset")) \/ (Reset(o) /\ Goto(o, "seed"))
    BY <1>5 DEF Purge, Reset
  <2>3. QED
    BY <1>1, <1>3, <2>1, <2>2
<1>6. CASE Seed(o)
  BY <1>1, <1>3, <1>6 DEF Seed
<1>7. CASE Renew(o) \/ WriteEdges(o)
  <2>1. worker[o].pc \in Loop /\ \E pc \in Loop : Goto(o, pc)
    BY <1>7 DEF Renew, WriteEdges, Loop
  <2>2. QED
    BY <1>1, <1>3, <2>1
<1>8. CASE LeaseBatch(o) \/ PassThrough(o) \/ JudgeEncoder(o) \/ JudgeTail(o) \/ Route(o)
  <2>1. worker[o].pc \in Loop
    BY <1>8 DEF LeaseBatch, PassThrough, JudgeEncoder, JudgeTail, Route, Loop
  <2>2. /\ worker'[o].pc \in Loop /\ worker'[o].gate = worker[o].gate
        /\ \A x \in Owner : x # o => worker'[x] = worker[x]
    <3>1. CASE LeaseBatch(o)
      BY <1>0, <3>1 DEF LeaseBatch, Workers, Loop
    <3>2. CASE PassThrough(o)
      BY <1>0, <3>2 DEF PassThrough, Workers, Loop
    <3>3. CASE JudgeEncoder(o)
      BY <1>0, <3>3 DEF JudgeEncoder, Workers, Loop
    <3>4. CASE JudgeTail(o)
      <4>1. PICK f, n : worker' = [worker EXCEPT ![o].pc = "judged", ![o].flagged = {},
                                                 ![o].spent = @ + n, ![o].outcome = f]
        BY <3>4 DEF JudgeTail
      <4>2. QED
        BY <1>0, <4>1 DEF Workers, Loop
    <3>5. CASE Route(o)
      BY <1>0, <3>5 DEF Route, Workers, Loop
    <3>6. QED
      BY <1>8, <3>1, <3>2, <3>3, <3>4, <3>5
  <2>3. QED
    BY <1>1, <2>1, <2>2
<1>9. CASE FailGate(o) \/ CommitRefused(o) \/ Finalize(o) \/ Crash(o)
  <2>1. Exit(o) \/ Stop(o)
    BY <1>9 DEF FailGate, CommitRefused, Finalize, Crash
  <2>2. QED
    BY <1>1, <1>2, <2>1
<1>10. CASE CommitGate(o)
  <2>1. Exit(o) \/ (worker[o].gate = 4 /\ Goto(o, "finalize"))
    BY <1>10 DEF CommitGate
  <2>2. QED
    BY <1>1, <1>2, <1>3, <1>10, <2>1
<1>11. CASE TallyRows(o)
  <2>1. \E pc \in {"reconciled", "stranded"} : Goto(o, pc)
    BY <1>11 DEF TallyRows
  <2>2. QED
    BY <1>1, <1>3, <1>11, <2>1
<1>12. CASE TaskRetry(o)
  <2>1. /\ worker'[o].pc = "launched" /\ worker'[o].gate = worker[o].gate
        /\ \A x \in Owner : x # o => worker'[x] = worker[x]
    BY <1>0, <1>12 DEF TaskRetry, Workers
  <2>2. QED
    BY <1>1, <1>12, <2>1 DEF Off
<1>13. QED
  BY <1>4, <1>5, <1>6, <1>7, <1>8, <1>9, <1>10, <1>11, <1>12 DEF RunGate

\* What the steps of a worker make of its run's document.
LEMMA DocumentOf ==
  ASSUME TypeInv, NEW o \in Owner, RunGate(o) \/ Crash(o) \/ TaskRetry(o)
  PROVE  LET k == worker[o].run IN
         /\ k \in Run
         /\ \A j \in Run : j # k => docs'[j] = docs[j]
         /\ \/ docs' = docs
            \/ /\ Renew(o) /\ docs[k].state = "RUNNING" /\ Holds(o)
               /\ docs'[k] = [docs[k] EXCEPT !.live = TRUE]
            \/ /\ FailGate(o) /\ MaySettle(o)
               /\ docs'[k] = [docs[k] EXCEPT !.state = "FAILED", !.gateState = "FAILED",
                                            !.holder = None, !.live = FALSE]
            \/ /\ CommitGate(o) /\ MaySettle(o)
               /\ docs'[k] = [docs[k] EXCEPT !.gate = @ + 1, !.gateState = "PENDING",
                                            !.holder = None, !.live = FALSE, !.attempt = 0]
            \/ /\ Finalize(o) /\ docs[k].state = "RUNNING"
               /\ docs'[k] = [docs[k] EXCEPT !.state =
                               IF worker[o].pc = "reconciled" THEN "SUCCEEDED" ELSE "FAILED"]
<1> DEFINE k == worker[o].run
<1>0. docs \in [Run -> Doc] /\ docs[k] \in Doc /\ k \in Run
  <2>1. worker[o].pc # "idle"
    BY WorkerSteps
  <2>2. QED
    BY <2>1 DEF TypeInv, WorkersInv, Sound
<1>1. CASE Renew(o)
  <2>1. CASE docs[k].state = "RUNNING" /\ Holds(o)
    <3>1. docs' = [docs EXCEPT ![k].live = TRUE]
      BY <1>1, <2>1 DEF Renew
    <3>2. QED
      BY <1>0, <1>1, <2>1, <3>1
  <2>2. CASE ~(docs[k].state = "RUNNING" /\ Holds(o))
    BY <1>0, <1>1, <2>2 DEF Renew
  <2>3. QED
    BY <2>1, <2>2
<1>2. CASE FailGate(o)
  <2>1. CASE MaySettle(o)
    <3>1. docs' = [docs EXCEPT ![k] = [docs[k] EXCEPT !.state = "FAILED", !.gateState = "FAILED",
                                                      !.holder = None, !.live = FALSE]]
      BY <1>0, <1>2, <2>1 DEF FailGate, Doc
    <3>2. QED
      BY <1>0, <1>2, <2>1, <3>1
  <2>2. CASE ~MaySettle(o)
    BY <1>0, <1>2, <2>2 DEF FailGate
  <2>3. QED
    BY <2>1, <2>2
<1>3. CASE CommitGate(o)
  <2>1. docs' = [docs EXCEPT ![k] = [docs[k] EXCEPT !.gate = @ + 1, !.gateState = "PENDING",
                                                    !.holder = None, !.live = FALSE, !.attempt = 0]]
    BY <1>3 DEF CommitGate
  <2>2. MaySettle(o)
    BY <1>3 DEF CommitGate
  <2>3. QED
    BY <1>0, <1>3, <2>1, <2>2
<1>4. CASE Finalize(o)
  <2>1. CASE docs[k].state = "RUNNING"
    <3>1. docs' = [docs EXCEPT ![k].state = IF worker[o].pc = "reconciled" THEN "SUCCEEDED" ELSE "FAILED"]
      BY <1>4, <2>1 DEF Finalize
    <3>2. QED
      BY <1>0, <1>4, <2>1, <3>1
  <2>2. CASE docs[k].state # "RUNNING"
    BY <1>0, <1>4, <2>2 DEF Finalize
  <2>3. QED
    BY <2>1, <2>2
<1>5. ASSUME ~(Renew(o) \/ FailGate(o) \/ CommitGate(o) \/ Finalize(o))
      PROVE  UNCHANGED docs
  BY <1>5 DEF RunGate, LoadRun, Purge, Reset, Seed, LeaseBatch, PassThrough,
              JudgeEncoder, JudgeTail, WriteEdges, Route, CommitRefused, TallyRows, Crash, TaskRetry
<1>6. QED
  BY <1>0, <1>1, <1>2, <1>3, <1>4, <1>5

\* What a launch makes of a worker.
LEMMA LaunchedOf ==
  ASSUME TypeInv, NEW o \in Owner, NEW k, NEW g, Launched(o, k, g)
  PROVE  /\ worker'[o].pc = "launched" /\ worker'[o].run = k /\ worker'[o].gate = g
         /\ \A x \in Owner : x # o => worker'[x] = worker[x]
<1> DEFINE W == [IdleWorker EXCEPT !.pc = "launched", !.run = k, !.gate = g]
<1>1. W.pc = "launched" /\ W.run = k /\ W.gate = g
  BY IdleType DEF Workers
<1>2. worker'[o] = W /\ \A x \in Owner : x # o => worker'[x] = worker[x]
  BY DEF Launched, TypeInv, WorkersInv
<1> HIDE DEF W
<1>3. QED
  BY <1>1, <1>2

\* What a claim launches.
LEMMA ClaimLaunches ==
  ASSUME TypeInv, NEW k \in Run, NEW o \in Owner, OpenRun(k, o) \/ ClaimGate(k, o)
  PROVE  /\ worker'[o].pc = "launched" /\ worker'[o].gate = docs'[k].gate
         /\ \A x \in Owner : x # o => worker'[x] = worker[x]
<1>1. \E g \in Gate : Launched(o, k, g) /\ docs'[k].gate = g
  <2>0. docs \in [Run -> Doc]
    BY DEF TypeInv
  <2>1. CASE OpenRun(k, o)
    BY <2>0, <2>1 DEF OpenRun, Gate
  <2>2. CASE ClaimGate(k, o)
    BY <2>0, <2>2 DEF ClaimGate
  <2>3. QED
    BY <2>1, <2>2
<1>2. QED
  BY <1>1, LaunchedOf

\* No lease names the worker.
Unheld(o) == \A k \in Run : docs[k].holder # o

\* Nothing is held by a worker that is claimed.
LEMMA ClaimantFree ==
  ASSUME NEW k \in Run, NEW o \in Owner, OpenRun(k, o) \/ ClaimGate(k, o)
  PROVE  worker[o].pc = "idle" /\ Unheld(o)
<1>1. Fresh(o)
  BY DEF OpenRun, ClaimGate
<1>2. QED
  BY <1>1 DEF Fresh, Unheld

\* A worker is claimed for the gate the run has reached, by nobody else held.
LEMMA ClaimOf ==
  ASSUME TypeInv, NEW k \in Run, NEW o \in Owner, OpenRun(k, o) \/ ClaimGate(k, o)
  PROVE  /\ worker[o].pc = "idle" /\ worker'[o].pc = "launched"
         /\ \A x \in Owner : x # o => worker'[x] = worker[x]
         /\ worker'[o].gate = docs'[k].gate /\ docs'[k].state = "RUNNING"
         /\ docs'[k].gateState = "RUNNING" /\ docs'[k].holder = o /\ docs'[k].live = TRUE
         /\ Unheld(o)
         /\ docs[k].gateState = "RUNNING" => docs[k].state = "ABSENT" \/ ~docs[k].live
<1>0. worker \in [Owner -> Workers] /\ docs \in [Run -> Doc]
  BY DEF TypeInv, WorkersInv
<1>1. Fresh(o)
  BY DEF OpenRun, ClaimGate
<1>3. /\ docs'[k].state = "RUNNING" /\ docs'[k].gateState = "RUNNING"
      /\ docs'[k].holder = o /\ docs'[k].live = TRUE
      /\ docs[k].gateState = "RUNNING" => docs[k].state = "ABSENT" \/ ~docs[k].live
  <2>1. CASE OpenRun(k, o)
    BY <1>0, <2>1 DEF OpenRun
  <2>2. CASE ClaimGate(k, o)
    BY <1>0, <2>2 DEF ClaimGate
  <2>3. QED
    BY <2>1, <2>2
<1>4. /\ worker'[o].pc = "launched" /\ worker'[o].gate = docs'[k].gate
      /\ \A x \in Owner : x # o => worker'[x] = worker[x]
  BY ClaimLaunches
<1>5. worker[o].pc = "idle" /\ Unheld(o)
  BY <1>1 DEF Fresh, Unheld
<1>6. QED
  BY <1>3, <1>4, <1>5

\* A worker stays as it is, is launched, or takes a step of its own.
LEMMA WhoMoves ==
  ASSUME TypeInv, [Next]_vars, NEW x \in Owner
  PROVE  \/ worker'[x] = worker[x]
         \/ /\ worker[x].pc = "idle" /\ worker'[x].pc = "launched"
            /\ Unheld(x)
         \/ RunGate(x) \/ Crash(x) \/ TaskRetry(x)
<1>1. ASSUME NEW k \in Run, NEW o \in Owner, OpenRun(k, o) \/ ClaimGate(k, o)
      PROVE  \/ worker'[x] = worker[x]
             \/ /\ worker[x].pc = "idle" /\ worker'[x].pc = "launched"
                /\ Unheld(x)
  <2>1. worker'[o].pc = "launched" /\ \A y \in Owner : y # o => worker'[y] = worker[y]
    BY <1>1, ClaimLaunches
  <2>2. worker[o].pc = "idle" /\ Unheld(o)
    BY <1>1, ClaimantFree
  <2>3. CASE x = o
    <3>1. worker[x].pc = "idle" /\ worker'[x].pc = "launched"
      BY <2>1, <2>2, <2>3
    <3>2. Unheld(x)
      BY <2>2, <2>3
    <3>3. QED
      BY <3>1, <3>2
  <2>4. CASE x # o
    BY <2>1, <2>4
  <2>5. QED
    BY <2>3, <2>4
<1>2. CASE \E o \in Owner : RunGate(o) \/ Crash(o) \/ TaskRetry(o)
  BY <1>2, WorkerSteps
<1>3. CASE \/ \E k \in Run : GateLeaseExpires(k)
           \/ \E o \in Owner : LeftLeasesExpire(o) \/ Stall(o)
           \/ UNCHANGED vars
  BY <1>3 DEF GateLeaseExpires, LeftLeasesExpire, Stall, vars
<1>4. QED
  BY <1>1, <1>2, <1>3 DEF Next

\* A run that has been one run all along, and nobody in it stood still.
LEMMA AloneBack ==
  ASSUME TypeInv, ShadowInv, [Next]_vars, Alone'
  PROVE  /\ Alone
         /\ \A o \in Owner : ~Stall(o)
         /\ \A k \in Run : GateLeaseExpires(k) => Gone(docs[k].holder)
<1>1. /\ faults \in [Faults -> Nat] /\ faults'["stall"] = 0 /\ "stall" \in Faults
      /\ \A k \in Run : docs'[k].state # "ABSENT" => k = 1
  BY DEF TypeInv, Alone, Opened, Faults
<1>2. ASSUME NEW kind \in Faults, Fault(kind)
      PROVE  kind # "stall" /\ faults["stall"] = 0
  BY <1>1, <1>2 DEF Fault
<1>3. UNCHANGED faults \/ \E kind \in Faults : Fault(kind)
  BY DEF Next, vars, RunGate, OpenRun, ClaimGate, GateLeaseExpires, LeftLeasesExpire, Stall, LoadRun,
         Purge, Reset, Seed, Renew, LeaseBatch, PassThrough, JudgeEncoder, JudgeTail, WriteEdges,
         Route, FailGate, CommitGate, CommitRefused, TallyRows, Finalize, Crash, TaskRetry, Faults
<1>4. faults["stall"] = 0
  BY <1>1, <1>2, <1>3
<1>5. \A k \in Run : Opened(k) => k = 1
  BY <1>1, DocSteps
<1>6. \A o \in Owner : ~Stall(o)
  BY <1>1, <1>2 DEF Stall
<1>7. \A k \in Run : GateLeaseExpires(k) => Gone(docs[k].holder)
  BY <1>1, <1>2 DEF GateLeaseExpires
<1>8. QED
  BY <1>4, <1>5, <1>6, <1>7 DEF Alone

LEMMA AbsentStep ==
  ASSUME TypeInv, ShadowInv, AbsentDocs, [Next]_vars
  PROVE  AbsentDocs'
<1> SUFFICES ASSUME NEW k \in Run, docs'[k].state = "ABSENT"
             PROVE  docs'[k] = AbsentDoc
  BY DEF AbsentDocs, Opened
<1>0. docs \in [Run -> Doc] /\ ~Opened(k) /\ docs[k].state = "ABSENT" /\ docs[k] = AbsentDoc
  BY DocSteps DEF TypeInv, AbsentDocs, Opened
<1>1. ASSUME NEW j \in Run, NEW o \in Owner, OpenRun(j, o)
      PROVE  docs'[k] = docs[k]
  BY <1>0, <1>1 DEF OpenRun
<1>2. ASSUME NEW j \in Run, NEW o \in Owner, ClaimGate(j, o)
      PROVE  docs'[k] = docs[k]
  BY <1>0, <1>2 DEF ClaimGate
<1>3. ASSUME NEW j \in Run, GateLeaseExpires(j)
      PROVE  docs'[k] = docs[k]
  <2>1. docs[k].gateState = "PENDING"
    BY <1>0 DEF AbsentDoc
  <2>2. QED
    BY <1>0, <1>3, <2>1 DEF GateLeaseExpires
<1>4. ASSUME NEW o \in Owner, RunGate(o) \/ Crash(o) \/ TaskRetry(o)
      PROVE  docs'[k] = docs[k]
  <2>1. worker[o].run # k
    BY <1>0, <1>4, WorkerSteps DEF ShadowInv
  <2>2. QED
    BY <1>4, <2>1, DocumentOf
<1>5. ASSUME NEW o \in Owner, LeftLeasesExpire(o) \/ Stall(o)
      PROVE  docs'[k] = docs[k]
  BY <1>5 DEF LeftLeasesExpire, Stall
<1>6. CASE UNCHANGED vars
  BY <1>0, <1>6 DEF vars
<1>7. QED
  BY <1>0, <1>1, <1>2, <1>3, <1>4, <1>5, <1>6 DEF Next

LEMMA LeftStep ==
  ASSUME TypeInv, ShadowInv, LeftBy, [Next]_vars
  PROVE  LeftBy'
<1> SUFFICES ASSUME NEW p \in Pair, rows'[p].gate = Left
             PROVE  rows'[p].run \in Run /\ docs'[rows'[p].run].state # "ABSENT"
  BY DEF LeftBy, Opened
<1>0. rows[p] \in Row
  BY DEF TypeInv
<1>1. CASE Leased(rows[p], rows'[p])
  <2>1. rows'[p].gate = rows[p].gate /\ rows'[p].run = rows[p].run
    BY <1>0, <1>1 DEF Leased, Row
  <2>2. QED
    BY <2>1, DocSteps DEF LeftBy
<1>2. CASE rows'[p] = HeadOfCascade
  BY <1>2 DEF HeadOfCascade, Left
<1>3. ASSUME NEW o \in Owner, Moved(o, p)
      PROVE  rows'[p].run \in Run /\ docs'[rows'[p].run].state # "ABSENT"
  <2>1. rows'[p].run = worker[o].run /\ worker[o].pc # "idle"
    BY <1>3 DEF Moved, Routed
  <2>2. worker[o].run \in Run /\ Opened(worker[o].run)
    BY <2>1 DEF TypeInv, WorkersInv, Sound, ShadowInv
  <2>3. QED
    BY <2>1, <2>2, DocSteps
<1>4. QED
  BY <1>1, <1>2, <1>3, RowSteps

\* Who is not idle works at the one run there is.
LEMMA TheRun ==
  ASSUME TypeInv, ShadowInv, Alone, NEW o \in Owner, worker[o].pc # "idle"
  PROVE  worker[o].run = 1 /\ 1 \in Run /\ Opened(1)
BY DEF TypeInv, WorkersInv, Sound, ShadowInv, Alone

\* The run is the first one from the start.
LEMMA FirstRun == 1 \in Run
BY SizesAssumption DEF Run

LEMMA ExclusiveStep ==
  ASSUME TypeInv, ShadowInv, AbsentDocs, Alone, Exclusive, [Next]_vars, Alone'
  PROVE  Exclusive'
<1> DEFINE Works(x) == worker'[x].pc \in Setup \union Loop
           Held(x) == /\ docs'[1].gate = worker'[x].gate
                      /\ docs'[1].gateState = "RUNNING" /\ docs'[1].holder = x
           Kept == docs'[1].gateState = "RUNNING" =>
                     /\ docs'[1].holder \in Owner
                     /\ ~docs'[1].live => worker'[docs'[1].holder].pc = "idle"
<1> SUFFICES (\A x \in Owner : Works(x) => Held(x)) /\ Kept
  BY DEF Exclusive, Busy, Gone
<1>0. /\ docs \in [Run -> Doc] /\ docs[1] \in Doc /\ 1 \in Run
      /\ worker \in [Owner -> Workers]
      /\ \A x \in Owner : Busy(x) => /\ docs[1].gate = worker[x].gate
                                     /\ docs[1].gateState = "RUNNING" /\ docs[1].holder = x
      /\ docs[1].gateState = "RUNNING" => /\ docs[1].holder \in Owner
                                          /\ ~docs[1].live => worker[docs[1].holder].pc = "idle"
  BY FirstRun DEF TypeInv, WorkersInv, Exclusive, Gone
<1>1. ASSUME NEW k \in Run, NEW o \in Owner, OpenRun(k, o) \/ ClaimGate(k, o)
      PROVE  (\A x \in Owner : Works(x) => Held(x)) /\ Kept
  <2>0. worker'[o].pc = "launched" /\ \A y \in Owner : y # o => worker'[y] = worker[y]
    BY <1>1, ClaimOf
  <2>1. k = 1
    BY <1>1, ClaimOf DEF Alone, Opened
  <2>2. ASSUME NEW x \in Owner, Works(x) PROVE FALSE
    <3>1. x # o
      BY <2>0, <2>2 DEF Setup, Loop
    <3>2. Busy(x)
      BY <2>0, <2>2, <3>1 DEF Busy
    <3>3. docs[1].gateState = "RUNNING" /\ docs[1].holder = x /\ worker[x].pc # "idle"
      BY <1>0, <3>2 DEF Busy, Setup, Loop
    <3>4. docs[1].state = "ABSENT"
      BY <1>0, <1>1, <2>1, <3>3, ClaimOf
    <3>5. docs[1].gateState = "PENDING"
      BY <1>0, <3>4 DEF AbsentDocs, AbsentDoc, Opened
    <3>6. QED
      BY <3>3, <3>5
  <2>3. Kept
    BY <1>1, <2>1, ClaimOf
  <2>4. QED
    BY <2>2, <2>3
<1>2. ASSUME NEW k \in Run, GateLeaseExpires(k)
      PROVE  (\A x \in Owner : Works(x) => Held(x)) /\ Kept
  <2>1. Gone(docs[k].holder) /\ docs' = [docs EXCEPT ![k].live = FALSE] /\ worker' = worker
    BY <1>2, AloneBack DEF GateLeaseExpires
  <2>2. docs'[1].holder = docs[1].holder /\ docs'[1].gate = docs[1].gate
        /\ docs'[1].gateState = docs[1].gateState /\ (docs'[1].live = docs[1].live \/ k = 1)
    BY <1>0, <2>1 DEF Doc
  <2>3. QED
    BY <1>0, <2>1, <2>2 DEF Gone, Busy
<1>3. ASSUME NEW o \in Owner, RunGate(o) \/ Crash(o) \/ TaskRetry(o)
      PROVE  (\A x \in Owner : Works(x) => Held(x)) /\ Kept
  <2>0. worker[o].run = 1 /\ worker[o].pc # "idle"
    BY <1>3, WorkerSteps, TheRun
  <2>1. \A x \in Owner : x # o => worker'[x] = worker[x]
    BY <1>3, WorkerSteps
  <2>2. ASSUME Works(o)
        PROVE  /\ worker'[o].gate = worker[o].gate /\ docs[1].gate = worker[o].gate
               /\ docs[1].gateState = "RUNNING" /\ docs[1].holder = o
               /\ ~FailGate(o) /\ ~CommitGate(o)
    <3>1. worker'[o].pc \notin Off \union Ending
      BY <2>2 DEF Setup, Loop, Off, Ending
    <3>2. worker'[o].gate = worker[o].gate /\ (Busy(o) \/ Holds(o))
      BY <1>3, <3>1, WorkerSteps DEF Busy, Setup, Loop, Ending, Seed
    <3>3. ~FailGate(o)
      BY <3>1, LetGo DEF FailGate
    <3>4. ~CommitGate(o)
      <4>1. ASSUME Goto(o, "finalize") PROVE FALSE
        BY <1>0, <3>1, <4>1 DEF Goto, Ending, Workers
      <4>2. QED
        BY <3>1, <4>1, LetGo DEF CommitGate
    <3>5. QED
      BY <1>0, <2>0, <3>2, <3>3, <3>4 DEF Holds
  <2>3. CASE docs' = docs
    BY <1>0, <2>0, <2>1, <2>2, <2>3 DEF Busy
  <2>4. CASE Renew(o) /\ Holds(o) /\ docs'[1] = [docs[1] EXCEPT !.live = TRUE]
    BY <1>0, <2>0, <2>1, <2>2, <2>4 DEF Busy, Holds, Doc
  <2>5. CASE /\ (FailGate(o) \/ CommitGate(o)) /\ Holds(o)
             /\ docs'[1].gateState # "RUNNING"
    <3>1. docs[1].holder = o
      BY <2>0, <2>5 DEF Holds
    <3>2. ASSUME NEW x \in Owner, Works(x) PROVE FALSE
      BY <1>0, <2>1, <2>2, <2>5, <3>1, <3>2 DEF Busy
    <3>3. QED
      BY <2>5, <3>2
  <2>6. CASE Finalize(o) /\ \E st : docs'[1] = [docs[1] EXCEPT !.state = st]
    <3>1. docs'[1].holder = docs[1].holder /\ docs'[1].gate = docs[1].gate
          /\ docs'[1].gateState = docs[1].gateState /\ docs'[1].live = docs[1].live
      BY <1>0, <2>6 DEF Doc
    <3>2. QED
      BY <1>0, <2>0, <2>1, <2>2, <3>1 DEF Busy
  <2>7. QED
    <3>1. CASE FailGate(o) /\ MaySettle(o)
               /\ docs'[1] = [docs[1] EXCEPT !.state = "FAILED", !.gateState = "FAILED",
                                             !.holder = None, !.live = FALSE]
      BY <1>0, <2>5, <3>1 DEF MaySettle, Doc
    <3>2. CASE CommitGate(o) /\ MaySettle(o)
               /\ docs'[1] = [docs[1] EXCEPT !.gate = @ + 1, !.gateState = "PENDING",
                                             !.holder = None, !.live = FALSE, !.attempt = 0]
      BY <1>0, <2>5, <3>2 DEF MaySettle, Doc
    <3>3. QED
      BY <1>3, <2>0, <2>3, <2>4, <2>6, <3>1, <3>2, DocumentOf
<1>4. CASE \/ \E o \in Owner : LeftLeasesExpire(o) \/ Stall(o)
           \/ UNCHANGED vars
  BY <1>0, <1>4 DEF LeftLeasesExpire, Stall, vars, Busy
<1>5. QED
  BY <1>1, <1>2, <1>3, <1>4 DEF Next

\* How far the run gets, and when it succeeds.
LEMMA RunSteps ==
  ASSUME TypeInv, ShadowInv, AbsentDocs, Alone, [Next]_vars, Alone'
  PROVE  /\ \/ docs'[1].gate = docs[1].gate
            \/ \E o \in Owner : /\ CommitGate(o) /\ worker[o].gate = docs[1].gate
                                /\ docs'[1].gate = docs[1].gate + 1
         /\ docs'[1].state = "SUCCEEDED" =>
              docs[1].state = "SUCCEEDED" \/ \E o \in Owner : Finalize(o) /\ worker[o].pc = "reconciled"
<1>0. docs \in [Run -> Doc] /\ docs[1] \in Doc /\ 1 \in Run
  BY FirstRun DEF TypeInv
<1>1. ASSUME NEW k \in Run, NEW o \in Owner, OpenRun(k, o) \/ ClaimGate(k, o)
      PROVE  docs'[1].gate = docs[1].gate /\ docs'[1].state = "RUNNING"
  <2>0. docs'[k].state = "RUNNING"
    BY <1>1, ClaimOf
  <2>1. k = 1 /\ docs'[1].state = "RUNNING"
    BY <2>0 DEF Alone, Opened
  <2>2. CASE OpenRun(k, o)
    <3>1. docs[1].gate = 1
      BY <2>1, <2>2 DEF OpenRun, AbsentDocs, Opened, AbsentDoc
    <3>2. docs'[1].gate = 1
      BY <1>0, <2>1, <2>2 DEF OpenRun
    <3>3. QED
      BY <2>1, <3>1, <3>2
  <2>3. CASE ClaimGate(k, o)
    BY <1>0, <2>1, <2>3 DEF ClaimGate
  <2>4. QED
    BY <1>1, <2>2, <2>3
<1>2. ASSUME NEW k \in Run, GateLeaseExpires(k)
      PROVE  docs'[1].gate = docs[1].gate /\ docs'[1].state = docs[1].state
  BY <1>0, <1>2 DEF GateLeaseExpires, Doc
<1>3. ASSUME NEW o \in Owner, RunGate(o) \/ Crash(o) \/ TaskRetry(o)
      PROVE  /\ \/ docs'[1].gate = docs[1].gate
                \/ /\ CommitGate(o) /\ worker[o].gate = docs[1].gate
                   /\ docs'[1].gate = docs[1].gate + 1
             /\ docs'[1].state = "SUCCEEDED" =>
                  docs[1].state = "SUCCEEDED" \/ (Finalize(o) /\ worker[o].pc = "reconciled")
  <2> DEFINE Goal == /\ \/ docs'[1].gate = docs[1].gate
                        \/ /\ CommitGate(o) /\ worker[o].gate = docs[1].gate
                           /\ docs'[1].gate = docs[1].gate + 1
                     /\ docs'[1].state = "SUCCEEDED" =>
                          docs[1].state = "SUCCEEDED" \/ (Finalize(o) /\ worker[o].pc = "reconciled")
  <2> SUFFICES Goal
    OBVIOUS
  <2>0. worker[o].run = 1
    BY <1>3, WorkerSteps, TheRun
  <2>1. CASE docs' = docs
    BY <2>1
  <2>2. CASE docs'[1] = [docs[1] EXCEPT !.live = TRUE]
    BY <1>0, <2>2 DEF Doc
  <2>3. CASE docs'[1] = [docs[1] EXCEPT !.state = "FAILED", !.gateState = "FAILED",
                                       !.holder = None, !.live = FALSE]
    BY <1>0, <2>3 DEF Doc
  <2>4. CASE CommitGate(o) /\ MaySettle(o)
             /\ docs'[1] = [docs[1] EXCEPT !.gate = @ + 1, !.gateState = "PENDING",
                                           !.holder = None, !.live = FALSE, !.attempt = 0]
    BY <1>0, <2>0, <2>4 DEF MaySettle, Holds, Doc
  <2>5. CASE Finalize(o)
             /\ docs'[1] = [docs[1] EXCEPT !.state =
                             IF worker[o].pc = "reconciled" THEN "SUCCEEDED" ELSE "FAILED"]
    BY <1>0, <2>5 DEF Doc
  <2> HIDE DEF Goal
  <2>6. QED
    BY <1>3, <2>0, <2>1, <2>2, <2>3, <2>4, <2>5, DocumentOf
<1>4. CASE \/ \E o \in Owner : LeftLeasesExpire(o) \/ Stall(o)
           \/ UNCHANGED vars
  BY <1>4 DEF LeftLeasesExpire, Stall, vars
<1>5. QED
  BY <1>1, <1>2, <1>3, <1>4 DEF Next

\* A queue that is drained stays drained once no gate can be held.
LEMMA DrainedKept ==
  ASSUME TypeInv, Exclusive, [Next]_vars, docs[1].gate = 5, Drained
  PROVE  Drained'
<1> SUFFICES ASSUME NEW p \in Pair PROVE rows'[p].gate = Left
  BY DEF Drained
<1>0. rows[p] \in Row /\ rows[p].gate = Left /\ \A o \in Owner : worker[o].gate \in Gate
  BY DEF TypeInv, Drained, WorkersInv, Workers
<1>1. CASE Leased(rows[p], rows'[p])
  BY <1>0, <1>1 DEF Leased, Row
<1>2. ASSUME NEW o \in Owner, Reset(o) \/ Seed(o) PROVE FALSE
  <2>1. Busy(o)
    BY <1>2 DEF Reset, Seed, Busy, Setup
  <2>2. QED
    BY <1>0, <2>1 DEF Exclusive, Gate
<1>3. ASSUME NEW o \in Owner, Moved(o, p) PROVE FALSE
  BY <1>0, <1>3 DEF Moved, StillOwned, Gate, Left
<1>4. QED
  BY <1>1, <1>2, <1>3, RowSteps

LEMMA SeededKept ==
  ASSUME TypeInv, [Next]_vars, NEW p \in Pair, rows[p].seeded
  PROVE  rows'[p].seeded
<1>0. rows[p] \in Row
  BY DEF TypeInv
<1>1. CASE Leased(rows[p], rows'[p])
  BY <1>0, <1>1 DEF Leased, Row
<1>2. CASE rows'[p] = HeadOfCascade
  BY <1>2 DEF HeadOfCascade
<1>3. ASSUME NEW o \in Owner, Moved(o, p) PROVE rows'[p].seeded
  BY <1>3 DEF Moved, Routed
<1>4. QED
  BY <1>1, <1>2, <1>3, RowSteps

LEMMA FilledStep ==
  ASSUME TypeInv, ShadowInv, AbsentDocs, Alone, Exclusive, Filled, [Next]_vars, Alone'
  PROVE  Filled'
<1>0. /\ worker \in [Owner -> Workers] /\ docs[1] \in Doc
      /\ \A o \in Owner : worker[o].gate \in Gate
  BY FirstRun DEF TypeInv, WorkersInv, Workers
<1>1. ASSUME NEW p \in Pair, ~rows'[p].seeded
      PROVE  docs'[1].gate = 1
  <2>1. docs[1].gate = 1 /\ \A o \in Owner : Busy(o) => worker[o].pc \in Setup
    BY <1>1, SeededKept DEF Filled
  <2>2. ASSUME NEW o \in Owner, CommitGate(o) PROVE FALSE
    BY <2>1, <2>2 DEF CommitGate, Busy, Loop, Setup
  <2>3. QED
    BY <2>1, <2>2, RunSteps
<1>2. ASSUME NEW p \in Pair, ~rows'[p].seeded,
             NEW x \in Owner, worker'[x].pc \in Setup \union Loop
      PROVE  worker'[x].pc \in Setup
  <2>1. docs[1].gate = 1 /\ \A o \in Owner : Busy(o) => worker[o].pc \in Setup
    BY <1>2, SeededKept DEF Filled
  <2>2. CASE worker'[x] = worker[x]
    BY <1>2, <2>1, <2>2 DEF Busy
  <2>3. CASE worker'[x].pc = "launched"
    BY <1>2, <2>3 DEF Setup, Loop
  <2>4. CASE RunGate(x) \/ Crash(x) \/ TaskRetry(x)
    <3>1. ~Seed(x)
      BY <1>2 DEF Seed, HeadOfCascade
    <3>2. ~(worker[x].pc \in Loop)
      BY <2>1 DEF Busy, Setup, Loop
    <3>3. Holds(x) => ~(worker[x].gate > 1)
      BY <1>0, <2>1, <2>4, WorkerSteps, TheRun DEF Holds
    <3>4. worker'[x].pc \notin Off \union Ending
      BY <1>2 DEF Off, Ending, Setup, Loop
    <3>5. QED
      BY <2>4, <3>1, <3>2, <3>3, <3>4, WorkerSteps DEF Ending, Setup
  <2>5. QED
    BY <2>2, <2>3, <2>4, WhoMoves
<1>3. docs[1].gate = 5 => docs'[1].gate = 5
  BY <1>0, RunSteps DEF Gate
<1>4. ASSUME NEW x \in Owner, worker'[x].pc \in Ending
      PROVE  docs'[1].gate = 5 /\ (worker'[x].pc = "reconciled" => Drained')
  <2>1. CASE worker'[x] = worker[x]
    BY <1>3, <1>4, <2>1, DrainedKept DEF Filled
  <2>2. CASE worker'[x].pc = "launched"
    BY <1>4, <2>2 DEF Ending
  <2>3. CASE RunGate(x) \/ Crash(x) \/ TaskRetry(x)
    <3>1. CASE CommitGate(x) /\ worker[x].gate = 4 /\ worker'[x].pc = "finalize"
      <4>1. docs[1].gate = 4 /\ worker[x].run = 1
        BY <2>3, <3>1, WorkerSteps, TheRun DEF CommitGate, MaySettle, Holds
      <4>2. docs'[1].gate = 5
        BY <1>0, <2>3, <3>1, <4>1, FirstRun DEF CommitGate, TypeInv, Doc
      <4>3. QED
        BY <3>1, <4>2
    <3>2. CASE TallyRows(x)
      <4>1. docs[1].gate = 5 /\ rows' = rows
        BY <3>2 DEF TallyRows, Filled, Ending
      <4>2. \A p \in Pair : rows[p].seeded
        BY <4>1 DEF Filled
      <4>3. worker'[x].pc = "reconciled" => Reconciles
        BY <1>0, <3>2 DEF TallyRows, Goto, Workers
      <4>4. QED
        BY <1>3, <4>1, <4>2, <4>3 DEF Reconciles, Drained
    <3>3. QED
      BY <1>4, <2>3, <3>1, <3>2, WorkerSteps DEF Ending, Off, Setup, Loop
  <2>4. QED
    BY <2>1, <2>2, <2>3, WhoMoves
<1>5. docs'[1].state = "SUCCEEDED" => docs'[1].gate = 5 /\ Drained'
  <2>1. ASSUME NEW o \in Owner, worker[o].pc = "reconciled"
        PROVE  docs[1].gate = 5 /\ Drained
    BY <2>1 DEF Filled, Ending
  <2>2. docs'[1].state = "SUCCEEDED" => docs[1].gate = 5 /\ Drained
    BY <2>1, RunSteps DEF Filled
  <2>3. QED
    BY <1>3, <2>2, DrainedKept
<1>6. QED
  BY <1>1, <1>2, <1>4, <1>5 DEF Filled, Busy

\* The pairs the tail has settled.
SettledPairs == {p \in Pair : rows[p].seeded /\ rows[p].decidedBy = "GK_G4_LLM"}

\* Only the tail's routing settles more of them, and no more than it answered.
LEMMA SettledSteps ==
  ASSUME TypeInv, CascadeInv, [Next]_vars, TypeInv'
  PROVE  /\ Settled \in Nat /\ Settled' \in Nat
         /\ \A o \in Owner : Cardinality(Answered(worker[o])) \in Nat
         /\ \/ Settled' <= Settled
            \/ \E o \in Owner : /\ Route(o) /\ worker[o].gate = 4
                                /\ Settled' <= Settled + Cardinality(Answered(worker[o]))
<1> DEFINE T == SettledPairs
           U == {p \in Pair : rows'[p].seeded /\ rows'[p].decidedBy = "GK_G4_LLM"}
<1>0. /\ T \in SUBSET Pair /\ U \in SUBSET Pair /\ Settled = Cardinality(T) /\ Settled' = Cardinality(U)
      /\ \A o \in Owner : worker[o] \in Workers /\ Answered(worker[o]) \in SUBSET Pair
  BY DEF SettledPairs, Settled, Answered, TypeInv, WorkersInv, Workers
<1>1. IsFiniteSet(Pair)
  BY FS_Interval, SizesAssumption DEF Pair
<1>2. IsFiniteSet(T) /\ \A o \in Owner : IsFiniteSet(Answered(worker[o]))
  BY <1>0, <1>1, FS_Subset
<1>3. /\ Settled \in Nat /\ Settled' \in Nat
      /\ \A o \in Owner : Cardinality(Answered(worker[o])) \in Nat
  BY <1>0, CountType
<1>4. ASSUME NEW p \in U, p \notin T
      PROVE  \E o \in Owner : Route(o) /\ worker[o].gate = 4 /\ p \in Answered(worker[o])
  <2>0. rows[p] \in Row /\ rows'[p].decidedBy = "GK_G4_LLM"
    BY DEF TypeInv
  <2>1. ~Leased(rows[p], rows'[p])
    BY <1>4, <2>0 DEF Leased, Row, SettledPairs
  <2>2. rows'[p] # HeadOfCascade
    BY <2>0, NoneAssumption DEF HeadOfCascade, Method
  <2>3. PICK o \in Owner : (PassThrough(o) \/ Route(o)) /\ Moved(o, p)
    BY <2>1, <2>2, RowSteps
  <2>4. ASSUME PassThrough(o) PROVE FALSE
    <3>1. worker[o].pc = "batch"
      BY <2>4 DEF PassThrough
    <3>2. rows'[p] = Routed(p, Forwarded(3), o)
      BY <2>3, <3>1 DEF Moved
    <3>3. rows'[p].decidedBy = None
      BY <3>2 DEF Routed, Forwarded
    <3>4. QED
      BY <2>0, <3>3, NoneAssumption DEF Method
  <2>5. /\ worker[o].pc = "written" /\ p \in worker[o].batch
        /\ rows'[p] = Routed(p, worker[o].outcome[p], o)
    BY <2>3, <2>4 DEF Moved, Route
  <2>6. worker[o].outcome[p].decidedBy = "GK_G4_LLM"
    BY <2>0, <2>5 DEF Routed
  <2>7. worker[o].gate = 4
    <3>1. OutcomeFits(worker[o].gate, p, worker[o].outcome[p])
      BY <2>5 DEF CascadeInv, InHand
    <3>2. score[p] \in Score /\ worker[o].gate \in Gate
      BY <1>0, ScoresAssumption DEF TypeInv, Workers
    <3>3. ASSUME worker[o].gate # 4 PROVE FALSE
      <4>1. worker[o].gate \in 1..3 /\ worker[o].outcome[p] = EncoderOutcome(worker[o].gate, score[p])
        BY <3>1, <3>2, <3>3 DEF OutcomeFits, Gate
      <4>2. EncoderOutcome(worker[o].gate, score[p]).decidedBy # "GK_G4_LLM"
        BY <3>2, <4>1, NoneAssumption
           DEF EncoderOutcome, Score, G1Outcome, G2Outcome, G3Outcome, Decided, Forwarded,
               Escalated, ToHuman, Method
      <4>3. QED
        BY <2>6, <4>1, <4>2
    <3>4. QED
      BY <3>3
  <2>8. QED
    BY <2>3, <2>4, <2>5, <2>6, <2>7 DEF Answered
<1>5. CASE U \subseteq T
  <2>1. Cardinality(U) <= Cardinality(T)
    BY <1>2, <1>5, FS_Subset
  <2>2. QED
    BY <1>0, <1>3, <2>1
<1>6. CASE ~(U \subseteq T)
  <2>1. PICK o \in Owner : Route(o) /\ worker[o].gate = 4
    BY <1>4, <1>6
  <2>2. ASSUME NEW x \in Owner, Route(x) PROVE x = o
    <3>1. worker[x].pc = "written" /\ worker'[x].pc = "renew"
      BY <1>0, <2>2 DEF Route, TypeInv, WorkersInv, Workers
    <3>2. x # o => worker'[x] = worker[x]
      BY <2>1 DEF Route, TypeInv, WorkersInv
    <3>3. QED
      BY <3>1, <3>2
  <2>3. U \subseteq T \union Answered(worker[o])
    BY <1>4, <2>2
  <2> DEFINE A == Answered(worker[o])
  <2>4. /\ IsFiniteSet(A) /\ IsFiniteSet(T \union A)
        /\ Cardinality(T \union A) = Cardinality(T) + Cardinality(A) - Cardinality(T \cap A)
    BY <1>2, FS_Union
  <2>5. Cardinality(U) <= Cardinality(T \union A)
    BY <2>3, <2>4, FS_Subset
  <2>6. Cardinality(T \cap A) \in Nat /\ Cardinality(A) \in Nat
    <3>1. T \cap A \in SUBSET Pair
      BY <1>0
    <3>2. QED
      BY <1>3, <3>1, CountType
  <2>7. Cardinality(U) <= Cardinality(T) + Cardinality(A)
    BY <1>0, <1>3, <2>4, <2>5, <2>6
  <2>8. QED
    BY <1>0, <1>3, <2>1, <2>7
<1>7. QED
  BY <1>3, <1>5, <1>6

\* How the tail's budget follows its steps.
BudgetFits(w, settled) ==
  IF w.pc \in {"judged", "written"}
  THEN /\ settled + Cardinality(Answered(w)) <= w.spent
       /\ MaxLlmPairs > 0 => settled + Cardinality(Answered(w)) <= MaxLlmPairs
  ELSE settled <= w.spent

LEMMA BudgetedStep ==
  ASSUME TypeInv, CascadeInv, ShadowInv, Alone, Exclusive, Budgeted, [Next]_vars, TypeInv'
  PROVE  Budgeted'
<1>0. /\ worker \in [Owner -> Workers] /\ MaxLlmPairs \in Nat
      /\ Settled \in Nat /\ Settled' \in Nat
      /\ \A o \in Owner : Cardinality(Answered(worker[o])) \in Nat /\ worker[o].spent \in Nat
  BY SettledSteps, SizesAssumption DEF TypeInv, WorkersInv, Workers
<1>1. ASSUME NEW o \in Owner, Route(o), worker[o].gate = 4
      PROVE  /\ Busy(o) /\ worker[o].pc = "written" /\ BudgetFits(worker[o], Settled)
             /\ worker'[o].pc = "renew" /\ worker'[o].spent = worker[o].spent
             /\ \A x \in Owner : x # o => worker'[x] = worker[x]
  <2>1. Busy(o) /\ worker[o].pc = "written"
    BY <1>1 DEF Route, Busy, Loop
  <2>2. /\ worker'[o].pc = "renew" /\ worker'[o].spent = worker[o].spent
        /\ \A x \in Owner : x # o => worker'[x] = worker[x]
    BY <1>0, <1>1 DEF Route, Workers
  <2>3. QED
    BY <1>1, <2>1, <2>2 DEF Budgeted, BudgetFits
<1>2. MaxLlmPairs > 0 => Settled' <= MaxLlmPairs
  BY <1>0, <1>1, SettledSteps DEF Budgeted, BudgetFits
<1>3. ASSUME NEW x \in Owner, worker'[x].pc \in Setup \union Loop, worker'[x].gate = 4
      PROVE  BudgetFits(worker'[x], Settled')
  <2>1. ASSUME Settled' <= Settled, NEW w, BudgetFits(w, Settled), Cardinality(Answered(w)) \in Nat,
               w.spent \in Nat
        PROVE  BudgetFits(w, Settled')
    BY <1>0, <2>1 DEF BudgetFits
  <2>2. CASE worker'[x] = worker[x]
    <3>1. Busy(x) /\ worker[x].gate = 4
      BY <1>3, <2>2 DEF Busy
    <3>2. BudgetFits(worker[x], Settled)
      BY <3>1 DEF Budgeted, BudgetFits
    <3>3. ASSUME NEW o \in Owner, Route(o), worker[o].gate = 4 PROVE FALSE
      <4>1. o = x
        BY <1>1, <3>1, <3>3 DEF Exclusive
      <4>2. QED
        BY <1>1, <2>2, <3>3, <4>1
    <3>4. Settled' <= Settled
      BY <3>3, SettledSteps
    <3>5. QED
      BY <1>0, <2>1, <2>2, <3>2, <3>4
  <2>3. CASE worker'[x].pc = "launched"
    BY <1>3, <2>3 DEF Setup, Loop
  <2>4. CASE Route(x)
    <3>1. worker[x].gate = 4
      BY <1>0, <1>3, <2>4 DEF Route, Workers
    <3>2. /\ Settled + Cardinality(Answered(worker[x])) <= worker[x].spent
          /\ worker'[x].pc = "renew" /\ worker'[x].spent = worker[x].spent
      BY <1>1, <2>4, <3>1 DEF BudgetFits
    <3>3. ASSUME NEW o \in Owner, Route(o), worker[o].gate = 4 PROVE o = x
      BY <1>1, <2>4, <3>1, <3>3 DEF Exclusive
    <3>4. Settled' <= Settled + Cardinality(Answered(worker[x]))
      BY <1>0, <3>3, SettledSteps
    <3>5. QED
      BY <1>0, <3>2, <3>4 DEF BudgetFits
  <2>5. CASE /\ RunGate(x) \/ Crash(x) \/ TaskRetry(x)
             /\ ~Route(x) /\ worker'[x] # worker[x]
    <3>1. \A o \in Owner : ~(Route(o) /\ worker[o].gate = 4)
      BY <1>1, <2>5
    <3>2. Settled' <= Settled
      BY <3>1, SettledSteps
    <3>3. worker[x].gate = 4 /\ worker'[x].pc \notin Off \union Ending
      BY <1>3, <2>5, WorkerSteps DEF Off, Ending, Setup, Loop
    <3>4. Busy(x) => BudgetFits(worker[x], Settled)
      BY <3>3 DEF Budgeted, BudgetFits
    <3>5. CASE LoadRun(x)
      <4>1. Holds(x)
        BY <3>3, <3>5, LetGo DEF LoadRun
      <4>2. worker'[x].spent = Settled
        BY <1>0, <3>3, <3>5, <4>1 DEF LoadRun, Workers
      <4>3. worker'[x].pc = "renew"
        BY <1>0, <3>3, <3>5, <4>1 DEF LoadRun, Workers
      <4>4. QED
        BY <1>0, <3>2, <4>2, <4>3 DEF BudgetFits
    <3>6. ASSUME worker'[x].spent = worker[x].spent, worker[x].pc \in (Setup \union Loop) \ {"judged", "written"},
                 worker'[x].pc \notin {"judged", "written"}
          PROVE  BudgetFits(worker'[x], Settled')
      BY <1>0, <3>2, <3>4, <3>6 DEF BudgetFits, Busy
    <3>7. CASE Purge(x) \/ Reset(x) \/ Seed(x) \/ Renew(x)
      <4>1. PICK pc \in {"reset", "seed", "renew", "lease", "settle"} : Goto(x, pc)
        BY <3>7 DEF Purge, Reset, Seed, Renew
      <4>2. worker'[x].spent = worker[x].spent /\ worker'[x].pc = pc
        BY <1>0, <4>1 DEF Goto, Workers
      <4>3. worker[x].pc \in (Setup \union Loop) \ {"judged", "written"}
        BY <3>7 DEF Purge, Reset, Seed, Renew, Setup, Loop
      <4>4. QED
        BY <3>6, <4>2, <4>3
    <3>8. CASE LeaseBatch(x)
      <4>1. worker'[x].spent = worker[x].spent /\ worker'[x].pc \in {"settle", "batch"}
        BY <1>0, <3>8 DEF LeaseBatch, Workers
      <4>2. worker[x].pc \in (Setup \union Loop) \ {"judged", "written"}
        BY <3>8 DEF LeaseBatch, Loop
      <4>3. QED
        BY <3>6, <4>1, <4>2
    <3>9. CASE JudgeTail(x)
      <4>1. PICK f \in [worker[x].batch -> TailOutcomes], n \in Nat :
               /\ InShadow(x) => n = 0 /\ \A p \in worker[x].batch : f[p] = Tailed(None, None)
               /\ Cardinality({p \in worker[x].batch : f[p].decidedBy = "GK_G4_LLM"}) <= n
               /\ MaxLlmPairs > 0 => n = 0 \/ worker[x].spent + n <= MaxLlmPairs
               /\ worker' = [worker EXCEPT ![x].pc = "judged", ![x].flagged = {},
                                           ![x].spent = @ + n, ![x].outcome = f]
               /\ calls' = [calls EXCEPT ![worker[x].run] = @ + n]
        BY <3>9, JudgeTailEffect
      <4>2. /\ worker'[x].pc = "judged" /\ worker'[x].spent = worker[x].spent + n
            /\ worker'[x].batch = worker[x].batch /\ worker'[x].outcome = f
        BY <1>0, <4>1 DEF Workers
      <4>3. Answered(worker'[x]) = {p \in worker[x].batch : f[p].decidedBy = "GK_G4_LLM"}
        BY <4>2 DEF Answered
      <4>4. Cardinality(Answered(worker'[x])) <= n /\ Cardinality(Answered(worker'[x])) \in Nat
        <5>1. Answered(worker'[x]) \in SUBSET Pair
          BY <1>0, <4>3 DEF Workers
        <5>2. QED
          BY <4>1, <4>3, <5>1, CountType
      <4>5. Settled <= worker[x].spent
        BY <3>4, <3>9 DEF BudgetFits, JudgeTail, Busy, Loop
      <4>6. MaxLlmPairs > 0 => Settled <= MaxLlmPairs
        BY DEF Budgeted
      <4>7. MaxLlmPairs > 0 => n = 0 \/ worker[x].spent + n <= MaxLlmPairs
        BY <4>1
      <4>8. Settled' + Cardinality(Answered(worker'[x])) <= worker'[x].spent
        BY <1>0, <3>2, <4>2, <4>4, <4>5
      <4>9. MaxLlmPairs > 0 => Settled' + Cardinality(Answered(worker'[x])) <= MaxLlmPairs
        BY <1>0, <3>2, <4>4, <4>5, <4>6, <4>7
      <4>10. QED
        BY <4>2, <4>8, <4>9 DEF BudgetFits
    <3>10. CASE WriteEdges(x)
      <4>1. /\ worker'[x].pc = "written" /\ worker'[x].spent = worker[x].spent
            /\ worker'[x].batch = worker[x].batch /\ worker'[x].outcome = worker[x].outcome
        BY <1>0, <3>10 DEF WriteEdges, Goto, Workers
      <4>2. Answered(worker'[x]) = Answered(worker[x])
        BY <4>1 DEF Answered
      <4>3. BudgetFits(worker[x], Settled) /\ worker[x].pc = "judged"
        BY <3>4, <3>10 DEF WriteEdges, Busy, Loop
      <4>4. QED
        BY <1>0, <3>2, <4>1, <4>2, <4>3 DEF BudgetFits
    <3>11. CASE PassThrough(x) \/ JudgeEncoder(x)
      BY <3>3, <3>11 DEF PassThrough, JudgeEncoder
    <3>12. CASE FailGate(x) \/ CommitRefused(x) \/ Finalize(x) \/ Crash(x)
      BY <3>3, <3>12, LetGo DEF FailGate, CommitRefused, Finalize, Crash
    <3>13. CASE CommitGate(x)
      <4>1. ASSUME Goto(x, "finalize") PROVE FALSE
        BY <1>0, <3>3, <4>1 DEF Goto, Ending, Workers
      <4>2. QED
        BY <3>3, <3>13, <4>1, LetGo DEF CommitGate
    <3>14. CASE TallyRows(x)
      BY <1>0, <3>3, <3>14 DEF TallyRows, Goto, Ending, Workers
    <3>15. CASE TaskRetry(x)
      BY <1>0, <3>3, <3>15 DEF TaskRetry, Off, Workers
    <3>16. QED
      BY <2>5, <3>5, <3>7, <3>8, <3>9, <3>10, <3>11, <3>12, <3>13, <3>14, <3>15 DEF RunGate
  <2>6. QED
    BY <2>2, <2>3, <2>4, <2>5, WhoMoves DEF RunGate
<1>4. QED
  BY <1>2, <1>3 DEF Budgeted, Busy, BudgetFits

LEMMA SoleInit == Init => SoleInv
<1> SUFFICES ASSUME Init PROVE SoleInv
  OBVIOUS
<1>1. AbsentDoc.state = "ABSENT" /\ AbsentDoc.gate = 1 /\ AbsentDoc.gateState = "PENDING"
  BY DEF AbsentDoc
<1>2. IdleWorker.pc = "idle"
  BY DEF IdleWorker
<1>3. Unseeded.gate = 1 /\ Unseeded.decidedBy = None
  BY HeadType DEF Unseeded, HeadOfCascade
<1>4. /\ \A k \in Run : docs[k] = AbsentDoc
      /\ \A o \in Owner : worker[o] = IdleWorker
      /\ \A p \in Pair : rows[p] = Unseeded
  BY DEF Init
<1>5. AbsentDocs
  BY <1>4 DEF AbsentDocs
<1>6. LeftBy
  BY <1>3, <1>4 DEF LeftBy, Left
<1>7. Exclusive
  BY <1>1, <1>2, <1>4, FirstRun DEF Exclusive, Busy, Setup, Loop
<1>8. Filled
  BY <1>1, <1>2, <1>4, FirstRun DEF Filled, Busy, Setup, Loop, Ending
<1>9. Budgeted
  <2>1. {p \in Pair : rows[p].seeded /\ rows[p].decidedBy = "GK_G4_LLM"} = {}
    BY <1>3, <1>4, NoneAssumption DEF Method
  <2>2. Settled = 0
    BY <2>1, FS_EmptySet DEF Settled
  <2>3. QED
    BY <1>2, <1>4, <2>2, SizesAssumption DEF Budgeted, Busy, Setup, Loop
<1>10. QED
  BY <1>5, <1>6, <1>7, <1>8, <1>9 DEF SoleInv

OneRunInv == TypeInv /\ CascadeInv /\ ShadowInv /\ SoleInv

LEMMA OneRunStep == OneRunInv /\ [Next]_vars => OneRunInv'
<1> SUFFICES ASSUME TypeInv, CascadeInv, ShadowInv, SoleInv, [Next]_vars PROVE OneRunInv'
  BY DEF OneRunInv
<1>1. TypeInv' /\ CascadeInv' /\ ShadowInv'
  BY TypeStep, CascadeStep, ShadowStep
<1>2. AbsentDocs' /\ LeftBy'
  BY AbsentStep, LeftStep DEF SoleInv
<1>3. ASSUME Alone' PROVE Exclusive' /\ Filled' /\ Budgeted'
  <2>1. Alone /\ Exclusive /\ Filled /\ Budgeted
    BY <1>3, AloneBack DEF SoleInv
  <2>2. Exclusive'
    BY <1>3, <2>1, ExclusiveStep DEF SoleInv
  <2>3. Filled'
    BY <1>3, <2>1, FilledStep DEF SoleInv
  <2>4. Budgeted'
    BY <1>1, <2>1, BudgetedStep
  <2>5. QED
    BY <2>2, <2>3, <2>4
<1>4. QED
  BY <1>1, <1>2, <1>3 DEF OneRunInv, SoleInv

(***************************************************************************)
(* Of one run, undelayed: who works holds the gate, the queue is seeded    *)
(* before a batch is taken and drained when the run is over, and the tail  *)
(* has counted what it has settled.                                        *)
(***************************************************************************)
THEOREM OneRunCorrect == Spec => []OneRunInv
<1>1. Init => OneRunInv
  BY TypeInit, CascadeInit, ShadowInit, SoleInit DEF OneRunInv
<1>2. QED
  BY <1>1, OneRunStep, PTL DEF Spec

(***************************************************************************)
(* A single run whose workers keep their leases settles no more pairs in   *)
(* the tail than the cap, through any number of crashes, errors, retries   *)
(* and rescues (count_decided_by, gates/g4.py).                            *)
(***************************************************************************)
THEOREM CapCorrect == Spec => [](Alone => SettledWithinCap)
<1>1. OneRunInv => (Alone => SettledWithinCap)
  BY DEF OneRunInv, SoleInv, Budgeted, SettledWithinCap
<1>2. QED
  BY <1>1, OneRunCorrect, PTL

(***************************************************************************)
(* A single run whose workers keep their leases has SUCCEEDED only when it *)
(* has taken every pair out of the cascade (worker/finalize.py).           *)
(***************************************************************************)
THEOREM DrainedCorrect == Spec => [](Alone => SucceededIsDrained)
<1>1. OneRunInv => (Alone => SucceededIsDrained)
  <2> SUFFICES ASSUME OneRunInv, Alone, NEW k \in Run, docs[k].state = "SUCCEEDED", NEW p \in Pair
               PROVE  rows[p].seeded /\ rows[p].gate = Left /\ rows[p].run = k
    BY DEF SucceededIsDrained
  <2>1. k = 1
    BY DEF Alone, Opened
  <2>2. docs[1].gate = 5 /\ Drained
    BY <2>1 DEF OneRunInv, SoleInv, Filled
  <2>3. rows[p].seeded /\ rows[p].gate = Left
    BY <2>2 DEF OneRunInv, SoleInv, Filled, Drained
  <2>4. rows[p].run = 1
    BY <2>3 DEF OneRunInv, SoleInv, LeftBy, Alone
  <2>5. QED
    BY <2>1, <2>3, <2>4
<1>2. QED
  BY <1>1, OneRunCorrect, PTL

-----------------------------------------------------------------------------
(***************************************************************************)
(* The verdict before the queue moves.  One crash is survived: a run whose *)
(* G1 crashes once is set up again by the retry of the same task, which    *)
(* purges and then resets.  A second crash between the two, with no retry  *)
(* left, leaves settled rows without verdicts.                             *)
(***************************************************************************)
CrashedOnce == Alone /\ faults["crash"] <= 1

\* What the verdict row has of a row's way through the cascade.
Recorded(p) ==
  /\ rows[p].gate \in {2, 3} => edges[p].g1
  /\ SettledInEarnest(rows[p]) => SettledAsRecorded(p)

AllAtHead == \A p \in Pair : rows[p].gate = 1

\* The gate lease's holder, while it has one.
HolderIn(pcs) == docs[1].gateState = "RUNNING" /\ worker[docs[1].holder].pc \in pcs

\* Rows that were not seeded are at the head, and only G1 has a setup.
Sourced ==
  /\ \A p \in Pair : ~rows[p].seeded => rows[p].gate = 1
  /\ \A o \in Owner : worker[o].pc \in Setup => worker[o].gate = 1

\* Until its first crash, the run is set up once, and while it is, no pair has
\* moved.
SetUpOnce ==
  /\ docs[1].state # "SUPERSEDED"
  /\ docs[1].gateState = "RUNNING" /\ worker[docs[1].holder].pc # "idle" =>
       worker[docs[1].holder].gate = docs[1].gate
  /\ ~Opened(1) => AllAtHead
  /\ Opened(1) /\ docs[1].gate = 1 => docs[1].attempt >= 1
  /\ docs[1].gate = 1 => \A p \in Pair : rows[p].gate # 3
  /\ faults["crash"] = 0 => ~HolderIn({"down"})
  /\ faults["crash"] = 0 /\ docs[1].gate = 1 =>
       /\ HolderIn({"purge", "reset"}) => AllAtHead
       /\ HolderIn({"launched"}) /\ docs[1].attempt <= 1 => AllAtHead

\* The batch stays the worker's own, and what it has written stays written.
Written(o) ==
  LET w == worker[o] IN
  \A p \in w.batch :
    /\ edges[p].method = GateMethod[w.gate] /\ edges[p].run = w.run
    /\ w.gate = 1 => edges[p].g1
    /\ ~InShadow(o) /\ w.outcome[p].verdict # None => edges[p].relation = w.outcome[p].verdict
    /\ ~InShadow(o) /\ w.outcome[p].reason # None => edges[p].reason = w.outcome[p].reason

HoldsBatch(o) ==
  /\ worker[o].pc \in {"batch", "judged", "written"} => \A p \in worker[o].batch : StillOwned(o, p)
  /\ worker[o].pc = "written" => Written(o)

BatchHeld == \A o \in Owner : HoldsBatch(o)

\* Only the retry of a crashed G1, between its purge and its reset, has rows
\* without verdicts.
OnRecord ==
  \/ \A p \in Pair : Recorded(p)
  \/ faults["crash"] >= 1 /\ \E o \in Owner : worker[o].pc = "reset"

DurableInv == Sourced /\ (CrashedOnce => SetUpOnce /\ BatchHeld /\ OnRecord)

\* Crashes are counted, and everything before the second one came before it.
LEMMA CrashSteps ==
  ASSUME TypeInv, [Next]_vars
  PROVE  /\ faults["crash"] \in Nat
         /\ \/ faults'["crash"] = faults["crash"]
            \/ faults'["crash"] = faults["crash"] + 1
         /\ \A o \in Owner : Crash(o) => faults'["crash"] = faults["crash"] + 1
<1>1. faults \in [Faults -> Nat] /\ "crash" \in Faults
  BY DEF TypeInv, Faults
<1>2. ASSUME NEW kind \in Faults, Fault(kind)
      PROVE  /\ kind = "crash" => faults'["crash"] = faults["crash"] + 1
             /\ kind # "crash" => faults'["crash"] = faults["crash"]
  BY <1>1, <1>2 DEF Fault
<1>3. UNCHANGED faults \/ \E kind \in Faults : Fault(kind)
  BY DEF Next, vars, RunGate, OpenRun, ClaimGate, GateLeaseExpires, LeftLeasesExpire, Stall, LoadRun,
         Purge, Reset, Seed, Renew, LeaseBatch, PassThrough, JudgeEncoder, JudgeTail, WriteEdges,
         Route, FailGate, CommitGate, CommitRefused, TallyRows, Finalize, Crash, TaskRetry, Faults
<1>4. \A o \in Owner : Crash(o) => faults'["crash"] = faults["crash"] + 1
  BY <1>1, <1>2 DEF Crash
<1>5. QED
  BY <1>1, <1>2, <1>3, <1>4

LEMMA SourcedStep ==
  ASSUME TypeInv, Sourced, [Next]_vars
  PROVE  Sourced'
<1>1. ASSUME NEW p \in Pair, ~rows'[p].seeded PROVE rows'[p].gate = 1
  <2>0. rows[p] \in Row
    BY DEF TypeInv
  <2>1. CASE Leased(rows[p], rows'[p])
    BY <1>1, <2>0, <2>1 DEF Leased, Row, Sourced
  <2>2. CASE rows'[p] = HeadOfCascade
    BY <2>2 DEF HeadOfCascade
  <2>3. ASSUME NEW o \in Owner, Moved(o, p) PROVE FALSE
    BY <1>1, <2>3 DEF Moved, Routed
  <2>4. QED
    BY <2>1, <2>2, <2>3, RowSteps
<1>2. ASSUME NEW x \in Owner, worker'[x].pc \in Setup PROVE worker'[x].gate = 1
  <2>0. worker[x].gate \in Gate
    BY DEF TypeInv, WorkersInv, Workers
  <2>1. CASE worker'[x] = worker[x]
    BY <1>2, <2>1 DEF Sourced
  <2>2. CASE worker'[x].pc = "launched"
    BY <1>2, <2>2 DEF Setup
  <2>3. CASE RunGate(x) \/ Crash(x) \/ TaskRetry(x)
    <3>1. worker'[x].pc \notin Off \union Loop \union Ending
      BY <1>2 DEF Setup, Off, Loop, Ending
    <3>2. CASE worker[x].pc \in Setup /\ worker'[x].gate = worker[x].gate
      BY <3>2 DEF Sourced
    <3>3. CASE /\ worker'[x].gate = worker[x].gate
               /\ worker'[x].pc \in IF worker[x].gate > 1 THEN {"renew"} ELSE {"purge", "seed"}
      BY <1>2, <2>0, <3>3 DEF Setup, Gate
    <3>4. QED
      BY <2>3, <3>1, <3>2, <3>3, WorkerSteps DEF Loop, Ending
  <2>4. QED
    BY <2>1, <2>2, <2>3, WhoMoves
<1>3. QED
  BY <1>1, <1>2 DEF Sourced

\* As long as nobody is about to route, rows at the head stay there.
LEMMA HeadKept ==
  ASSUME TypeInv, [Next]_vars, AllAtHead, \A o \in Owner : worker[o].pc \notin {"batch", "written"}
  PROVE  AllAtHead'
<1> SUFFICES ASSUME NEW p \in Pair PROVE rows'[p].gate = 1
  BY DEF AllAtHead
<1>0. rows[p] \in Row /\ rows[p].gate = 1
  BY DEF TypeInv, AllAtHead
<1>1. CASE Leased(rows[p], rows'[p])
  BY <1>0, <1>1 DEF Leased, Row
<1>2. CASE rows'[p] = HeadOfCascade
  BY <1>2 DEF HeadOfCascade
<1>3. ASSUME NEW o \in Owner, Moved(o, p) PROVE FALSE
  BY <1>3 DEF Moved
<1>4. QED
  BY <1>1, <1>2, <1>3, RowSteps

\* What the decision of a gate says of the pair's way on.
LEMMA OutcomeShape ==
  ASSUME TypeInv, NEW p \in Pair, NEW g \in Gate, NEW out, OutcomeFits(g, p, out)
  PROVE  /\ out.gate = 2 => g = 1
         /\ out.gate = 3 => g = 2
         /\ out.decidedBy # None => out.decidedBy = GateMethod[g] /\ out.verdict # None
         /\ out.tier = "HUMAN" => \/ g = 3 /\ out.verdict = "CONTRADICTS"
                                  \/ g = 4 /\ out.reason \in {"LLM_ERROR", "CAP_EXCEEDED"}
<1>0. score[p] \in Score
  BY ScoresAssumption DEF TypeInv
<1>1. CASE g = 4
  <2>1. out \in TailOutcomes
    BY <1>1 DEF OutcomeFits
  <2>2. QED
    BY <1>1, <2>1, NoneAssumption
       DEF TailOutcomes, Tailed, ToHuman, GateMethod, Left, Method, Verdict
<1>2. CASE g # 4
  <2>1. out = EncoderOutcome(g, score[p]) /\ g \in 1..3
    BY <1>2 DEF OutcomeFits, Gate
  <2>2. CASE g = 1
    BY <1>0, <2>1, <2>2, NoneAssumption
       DEF EncoderOutcome, Score, G1Outcome, Decided, Forwarded, Escalated, GateMethod, Left, Method, Verdict
  <2>3. CASE g = 2
    BY <1>0, <2>1, <2>3, NoneAssumption
       DEF EncoderOutcome, Score, G2Outcome, Decided, Forwarded, GateMethod, Left, Method, Verdict
  <2>4. CASE g = 3
    BY <1>0, <2>1, <2>4, NoneAssumption
       DEF EncoderOutcome, Score, G3Outcome, Decided, ToHuman, Escalated, GateMethod, Left, Method, Verdict
  <2>5. QED
    BY <2>1, <2>2, <2>3, <2>4
<1>3. QED
  BY <1>1, <1>2

\* The steps after which a task waits for its retry.
LEMMA GoesDown ==
  ASSUME TypeInv, NEW o \in Owner, RunGate(o) \/ Crash(o) \/ TaskRetry(o), worker'[o].pc = "down"
  PROVE  \/ LoadRun(o) /\ ~Holds(o)
         \/ FailGate(o) \/ CommitRefused(o) \/ Crash(o)
         \/ Finalize(o) /\ worker[o].pc \in Ending
<1>0. worker \in [Owner -> Workers] /\ worker[o] \in Workers
  BY DEF TypeInv, WorkersInv
<1>1. ASSUME NEW pc, pc # "down", Goto(o, pc) PROVE FALSE
  BY <1>0, <1>1 DEF Goto, Workers
<1>2. ASSUME Exit(o) PROVE FALSE
  <2>1. IdleWorker.pc = "idle"
    BY DEF IdleWorker
  <2>2. QED
    BY <1>0, <1>2, <2>1 DEF Exit
<1>3. ASSUME LoadRun(o), Holds(o) PROVE FALSE
  <2> DEFINE pc == CASE worker[o].gate > 1 -> "renew"
                     [] worker[o].gate = 1 /\ docs[worker[o].run].attempt <= 1 -> "purge"
                     [] OTHER -> "seed"
  <2>1. worker[o].gate \in Gate
    BY <1>0 DEF Workers
  <2>2. pc # "down"
    <3>1. CASE worker[o].gate > 1
      BY <2>1, <3>1 DEF Gate
    <3>2. CASE ~(worker[o].gate > 1)
      BY <2>1, <3>2 DEF Gate
    <3>3. QED
      BY <3>1, <3>2
  <2>3. worker' = [worker EXCEPT ![o].pc = pc, ![o].spent = IF worker[o].gate = 4 THEN Settled ELSE 0]
    BY <1>3 DEF LoadRun
  <2> HIDE DEF pc
  <2>4. worker'[o].pc = pc
    BY <1>0, <2>3 DEF Workers
  <2>5. QED
    BY <2>2, <2>4
<1>4. ~(Purge(o) \/ Reset(o) \/ Seed(o) \/ Renew(o) \/ WriteEdges(o) \/ TallyRows(o))
  BY <1>1 DEF Purge, Reset, Seed, Renew, WriteEdges, TallyRows
<1>5. ~(LeaseBatch(o) \/ PassThrough(o))
  <2>1. ASSUME LeaseBatch(o) PROVE worker'[o].pc \in {"settle", "batch"}
    BY <1>0, <2>1 DEF LeaseBatch, Workers
  <2>2. ASSUME PassThrough(o) PROVE worker'[o].pc \in {"renew", "batch"}
    BY <1>0, <2>2 DEF PassThrough, Workers
  <2>3. QED
    BY <2>1, <2>2
<1>6. ~(JudgeEncoder(o) \/ Route(o) \/ TaskRetry(o))
  <2>1. JudgeEncoder(o) => worker'[o].pc = "judged"
    BY <1>0 DEF JudgeEncoder, Workers
  <2>2. Route(o) => worker'[o].pc = "renew"
    BY <1>0 DEF Route, Workers
  <2>3. TaskRetry(o) => worker'[o].pc = "launched"
    BY <1>0 DEF TaskRetry, Workers
  <2>4. QED
    BY <2>1, <2>2, <2>3
<1>7. ~JudgeTail(o)
  <2>1. JudgeTail(o) => worker'[o].pc = "judged"
    BY <1>0 DEF JudgeTail, Workers
  <2>2. QED
    BY <2>1
<1>8. ~CommitGate(o)
  BY <1>1, <1>2 DEF CommitGate
<1>9. QED
  BY <1>3, <1>4, <1>5, <1>6, <1>7, <1>8 DEF RunGate, Finalize, Ending

\* A lease that is held was claimed in this step, or is held as before.
LEMMA HolderSteps ==
  ASSUME TypeInv, ShadowInv, Alone, [Next]_vars, Alone', docs'[1].gateState = "RUNNING"
  PROVE  \/ \E o \in Owner : OpenRun(1, o) \/ ClaimGate(1, o)
         \/ /\ docs[1].gateState = "RUNNING" /\ docs'[1].holder = docs[1].holder
            /\ docs'[1].gate = docs[1].gate /\ docs'[1].attempt = docs[1].attempt
            /\ \A o \in Owner : (FailGate(o) \/ CommitGate(o)) => ~MaySettle(o)
<1> DEFINE Same(d) == /\ d.gateState = docs[1].gateState /\ d.holder = docs[1].holder
                      /\ d.gate = docs[1].gate /\ d.attempt = docs[1].attempt
<1>0. docs \in [Run -> Doc] /\ docs[1] \in Doc /\ 1 \in Run
  BY FirstRun DEF TypeInv
<1>1. ASSUME NEW k \in Run, NEW o \in Owner, OpenRun(k, o) \/ ClaimGate(k, o)
      PROVE  k = 1
  <2>1. docs'[k].state = "RUNNING"
    BY <1>1, ClaimOf
  <2>2. QED
    BY <2>1 DEF Alone, Opened
<1>2. ASSUME NEW o \in Owner, FailGate(o) \/ CommitGate(o), MaySettle(o) PROVE FALSE
  <2>1. worker[o].run = 1
    BY <1>2, TheRun DEF FailGate, CommitGate
  <2>2. CASE FailGate(o)
    <3>1. docs' = [docs EXCEPT ![1] = [docs[1] EXCEPT !.state = "FAILED", !.gateState = "FAILED",
                                                      !.holder = None, !.live = FALSE]]
      BY <1>0, <1>2, <2>1, <2>2 DEF FailGate, Doc
    <3>2. QED
      BY <1>0, <3>1 DEF Doc
  <2>3. CASE CommitGate(o)
    <3>1. docs' = [docs EXCEPT ![1] = [docs[1] EXCEPT !.gate = @ + 1, !.gateState = "PENDING",
                                                      !.holder = None, !.live = FALSE, !.attempt = 0]]
      BY <2>1, <2>3 DEF CommitGate
    <3>2. QED
      BY <1>0, <3>1 DEF Doc
  <2>4. QED
    BY <1>2, <2>2, <2>3
<1>3. ASSUME NEW k \in Run, GateLeaseExpires(k) PROVE Same(docs'[1])
  BY <1>0, <1>3 DEF GateLeaseExpires, Doc
<1>4. ASSUME NEW o \in Owner, RunGate(o) \/ Crash(o) \/ TaskRetry(o) PROVE Same(docs'[1])
  <2>0. worker[o].run = 1
    BY <1>4, WorkerSteps, TheRun
  <2>1. CASE docs' = docs
    BY <2>1
  <2>2. CASE docs'[1] = [docs[1] EXCEPT !.live = TRUE]
    BY <1>0, <2>2 DEF Doc
  <2>3. CASE docs'[1] = [docs[1] EXCEPT !.state =
                          IF worker[o].pc = "reconciled" THEN "SUCCEEDED" ELSE "FAILED"]
    BY <1>0, <2>3 DEF Doc
  <2> HIDE DEF Same
  <2>4. QED
    BY <1>2, <1>4, <2>0, <2>1, <2>2, <2>3, DocumentOf
<1>5. ASSUME \/ \E o \in Owner : LeftLeasesExpire(o) \/ Stall(o)
             \/ UNCHANGED vars
      PROVE  Same(docs'[1])
  <2>1. docs' = docs
    BY <1>5 DEF LeftLeasesExpire, Stall, vars
  <2>2. Same(docs'[1])
    BY <2>1
  <2>3. QED
    BY <2>2
<1>6. \/ \E o \in Owner : OpenRun(1, o) \/ ClaimGate(1, o)
      \/ Same(docs'[1])
  BY <1>1, <1>3, <1>4, <1>5 DEF Next
<1>7. QED
  BY <1>2, <1>6

\* Who holds the run's lease works for the gate the run has reached.
LEMMA HolderFits ==
  ASSUME TypeInv, ShadowInv, Alone, Exclusive, SetUpOnce, [Next]_vars, Alone',
         docs'[1].gateState = "RUNNING", worker'[docs'[1].holder].pc # "idle"
  PROVE  worker'[docs'[1].holder].gate = docs'[1].gate
<1>1. ASSUME NEW o \in Owner, OpenRun(1, o) \/ ClaimGate(1, o)
      PROVE  worker'[docs'[1].holder].gate = docs'[1].gate
  <2>1. docs'[1].holder = o
    BY <1>1, ClaimOf, FirstRun
  <2>2. worker'[o].pc = "launched" /\ worker'[o].gate = docs'[1].gate
    BY <1>1, ClaimLaunches, FirstRun
  <2>3. QED
    BY <2>1, <2>2
<1>2. CASE /\ docs[1].gateState = "RUNNING" /\ docs'[1].holder = docs[1].holder
           /\ docs'[1].gate = docs[1].gate
  <2> DEFINE h == docs[1].holder
  <2>1. h \in Owner /\ (worker[h].pc # "idle" => worker[h].gate = docs[1].gate)
    BY <1>2 DEF Exclusive, SetUpOnce
  <2> HIDE DEF h
  <2>2. CASE worker'[h] = worker[h]
    BY <1>2, <2>1, <2>2 DEF h
  <2>3. CASE Unheld(h)
    BY <2>3, FirstRun DEF h, Unheld
  <2>4. CASE RunGate(h) \/ Crash(h) \/ TaskRetry(h)
    <3>1. worker[h].pc # "idle" /\ (worker'[h].pc # "idle" => worker'[h].gate = worker[h].gate)
      BY <2>1, <2>4, WorkerSteps
    <3>2. QED
      BY <1>2, <2>1, <3>1 DEF h
  <2>5. QED
    BY <2>1, <2>2, <2>3, <2>4, WhoMoves
<1>3. QED
  BY <1>1, <1>2, HolderSteps

\* Without a crash, no holder of the lease waits for its retry.
LEMMA HolderUp ==
  ASSUME TypeInv, ShadowInv, Alone, Exclusive, Filled, SetUpOnce, [Next]_vars, Alone',
         faults'["crash"] = 0, docs'[1].gateState = "RUNNING"
  PROVE  worker'[docs'[1].holder].pc # "down"
<1>0. faults["crash"] = 0 /\ \A o \in Owner : ~Crash(o)
  BY CrashSteps
<1>1. ASSUME NEW o \in Owner, OpenRun(1, o) \/ ClaimGate(1, o)
      PROVE  worker'[docs'[1].holder].pc # "down"
  BY <1>1, ClaimOf, FirstRun
<1>2. CASE /\ docs[1].gateState = "RUNNING" /\ docs'[1].holder = docs[1].holder
           /\ \A o \in Owner : (FailGate(o) \/ CommitGate(o)) => ~MaySettle(o)
  <2> DEFINE h == docs[1].holder
  <2>1. /\ h \in Owner /\ worker[h].pc # "down"
        /\ worker[h].pc # "idle" => worker[h].gate = docs[1].gate
        /\ docs[1].state # "SUPERSEDED" /\ worker[h].gate \in Gate
    <3>1. h \in Owner
      BY <1>2 DEF Exclusive
    <3>2. QED
      BY <1>0, <1>2, <3>1 DEF SetUpOnce, HolderIn, TypeInv, WorkersInv, Workers
  <2>2. docs'[1].holder = h /\ docs[1].holder = h
    BY <1>2
  <2> HIDE DEF h
  <2>3. CASE worker'[h] = worker[h]
    BY <2>1, <2>2, <2>3
  <2>4. CASE Unheld(h)
    BY <2>2, <2>4, FirstRun DEF Unheld
  <2>5. CASE (RunGate(h) \/ Crash(h) \/ TaskRetry(h)) /\ worker'[h].pc = "down"
    <3>1. worker[h].run = 1 /\ worker[h].pc # "idle"
      BY <2>1, <2>5, WorkerSteps, TheRun
    <3>2. Holds(h) /\ MaySettle(h)
      BY <1>2, <2>1, <2>2, <3>1 DEF Holds, MaySettle
    <3>3. ~FailGate(h) /\ ~CommitRefused(h)
      BY <1>2, <2>1, <3>2 DEF CommitRefused
    <3>4. worker[h].pc \in Ending
      BY <1>0, <2>1, <2>5, <3>2, <3>3, GoesDown
    <3>5. docs[1].gate = 5
      BY <2>1, <3>4 DEF Filled
    <3>6. QED
      BY <2>1, <3>1, <3>5 DEF Gate
  <2>6. QED
    BY <2>1, <2>2, <2>3, <2>4, <2>5, WhoMoves
<1>3. QED
  BY <1>1, <1>2, HolderSteps

\* Until its first crash, the run is set up before any pair has moved.
LEMMA SetupFirst ==
  ASSUME TypeInv, ShadowInv, Alone, Exclusive, Filled, Sourced, SetUpOnce, [Next]_vars, Alone',
         faults'["crash"] = 0, docs'[1].gate = 1, docs'[1].gateState = "RUNNING",
         \/ worker'[docs'[1].holder].pc \in {"purge", "reset"}
         \/ worker'[docs'[1].holder].pc = "launched" /\ docs'[1].attempt <= 1
  PROVE  AllAtHead'
<1>0. faults["crash"] = 0 /\ docs \in [Run -> Doc] /\ docs[1] \in Doc /\ 1 \in Run
  BY CrashSteps, FirstRun DEF TypeInv
<1>1. ASSUME NEW o \in Owner, OpenRun(1, o) \/ ClaimGate(1, o)
      PROVE  AllAtHead'
  <2>1. worker'[docs'[1].holder].pc = "launched"
    BY <1>0, <1>1, ClaimOf
  <2>2. CASE OpenRun(1, o)
    <3>1. ~Opened(1) /\ rows' = rows
      BY <2>2 DEF OpenRun, Opened
    <3>2. QED
      BY <3>1 DEF SetUpOnce, AllAtHead
  <2>3. CASE ClaimGate(1, o)
    <3>1. docs'[1].attempt = docs[1].attempt + 1 /\ docs'[1].gate = docs[1].gate /\ Opened(1)
      BY <1>0, <2>3 DEF ClaimGate, Opened
    <3>2. docs[1].attempt >= 1 /\ docs[1].attempt \in Nat
      BY <1>0, <3>1 DEF SetUpOnce, Doc
    <3>3. QED
      BY <2>1, <3>1, <3>2
  <2>4. QED
    BY <1>1, <2>2, <2>3
<1>2. CASE /\ docs[1].gateState = "RUNNING" /\ docs'[1].holder = docs[1].holder
           /\ docs'[1].gate = docs[1].gate /\ docs'[1].attempt = docs[1].attempt
  <2> DEFINE h == docs[1].holder
  <2>1. h \in Owner /\ docs'[1].holder = h /\ docs[1].holder = h /\ docs[1].gate = 1
        /\ docs[1].gateState = "RUNNING"
    BY <1>2 DEF Exclusive
  <2> HIDE DEF h
  <2>2. \/ worker'[h].pc \in {"purge", "reset"}
        \/ worker'[h].pc = "launched" /\ docs[1].attempt <= 1
    BY <1>2, <2>1
  <2>3. /\ worker[h].pc \in {"purge", "reset"} => AllAtHead
        /\ worker[h].pc = "launched" /\ docs[1].attempt <= 1 => AllAtHead
        /\ worker[h].pc # "down"
    BY <1>0, <2>1 DEF SetUpOnce, HolderIn
  <2>4. CASE worker'[h] = worker[h]
    <3>1. AllAtHead /\ worker[h].pc \notin {"batch", "written"}
      BY <2>2, <2>3, <2>4
    <3>2. \A o \in Owner : worker[o].pc \in {"batch", "written"} => o = h
      BY <2>1 DEF Exclusive, Busy, Loop
    <3>3. QED
      BY <3>1, <3>2, HeadKept
  <2>5. CASE Unheld(h)
    BY <1>0, <2>1, <2>5 DEF Unheld
  <2>6. CASE RunGate(h) \/ Crash(h) \/ TaskRetry(h)
    <3>0. worker[h].run = 1
      BY <2>1, <2>6, WorkerSteps, TheRun
    <3>1. CASE worker'[h].pc \in {"purge", "reset"}
      <4>1. worker'[h].pc \notin Off \union Loop \union Ending
        BY <3>1 DEF Off, Loop, Ending
      <4>2. \/ LoadRun(h) /\ worker'[h].pc = "purge" /\ docs[1].attempt <= 1
            \/ LoadRun(h) /\ worker'[h].pc \in {"renew", "seed"}
            \/ Purge(h)
            \/ Reset(h) /\ worker'[h].pc = "seed"
        BY <2>1, <2>6, <3>0, <3>1, <4>1, WorkerSteps DEF Loop, Ending
      <4>3. LoadRun(h) => worker[h].pc = "launched" /\ rows' = rows
        BY DEF LoadRun
      <4>4. Purge(h) => worker[h].pc = "purge" /\ rows' = rows
        BY DEF Purge
      <4>5. AllAtHead /\ rows' = rows
        BY <2>3, <3>1, <4>2, <4>3, <4>4
      <4>6. QED
        BY <4>5 DEF AllAtHead
    <3>2. CASE worker'[h].pc = "launched"
      <4>1. TaskRetry(h)
        BY <2>1, <2>6, <3>2, WorkerSteps DEF Setup, Loop, Ending
      <4>2. QED
        BY <2>3, <4>1 DEF TaskRetry
    <3>3. QED
      BY <2>2, <3>1, <3>2
  <2>7. QED
    BY <2>1, <2>4, <2>5, <2>6, WhoMoves
<1>3. QED
  BY <1>1, <1>2, HolderSteps

\* The run is not superseded, and the claims of its first gate are counted.
LEMMA ClaimsCounted ==
  ASSUME TypeInv, ShadowInv, AbsentDocs, Alone, SetUpOnce, [Next]_vars, Alone'
  PROVE  /\ docs'[1].state # "SUPERSEDED"
         /\ docs'[1].state # "ABSENT" /\ docs'[1].gate = 1 => docs'[1].attempt >= 1
<1> DEFINE Goal == /\ docs'[1].state # "SUPERSEDED"
                   /\ docs'[1].state # "ABSENT" /\ docs'[1].gate = 1 => docs'[1].attempt >= 1
<1>0. /\ docs \in [Run -> Doc] /\ docs[1] \in Doc /\ 1 \in Run
      /\ docs[1].state # "SUPERSEDED"
      /\ docs[1].state # "ABSENT" /\ docs[1].gate = 1 => docs[1].attempt >= 1
      /\ docs[1].attempt \in Nat
  <2>1. docs[1] \in Doc
    BY FirstRun DEF TypeInv
  <2>2. docs[1].attempt \in Nat
    BY <2>1 DEF Doc
  <2>3. QED
    BY <2>1, <2>2, FirstRun DEF TypeInv, SetUpOnce, Opened
<1>1. ASSUME NEW k \in Run, NEW o \in Owner, OpenRun(k, o) \/ ClaimGate(k, o)
      PROVE  Goal
  <2>1. docs'[k].state = "RUNNING"
    BY <1>1, ClaimOf
  <2>2. k = 1
    BY <2>1 DEF Alone, Opened
  <2>3. CASE OpenRun(k, o)
    <3>1. docs'[1].attempt = 1
      BY <1>0, <2>2, <2>3 DEF OpenRun
    <3>2. QED
      BY <2>1, <2>2, <3>1
  <2>4. CASE ClaimGate(k, o)
    <3>1. docs'[1].attempt = docs[1].attempt + 1
      BY <1>0, <2>2, <2>4 DEF ClaimGate
    <3>2. QED
      BY <1>0, <2>1, <2>2, <3>1
  <2>5. QED
    BY <1>1, <2>3, <2>4
<1>2. ASSUME NEW k \in Run, GateLeaseExpires(k) PROVE Goal
  BY <1>0, <1>2 DEF GateLeaseExpires, Doc
<1>3. ASSUME NEW o \in Owner, RunGate(o) \/ Crash(o) \/ TaskRetry(o) PROVE Goal
  <2>0. worker[o].run = 1 /\ worker[o].gate \in Gate /\ docs[1].state # "ABSENT"
    <3>1. worker[o].run = 1 /\ Opened(1)
      BY <1>3, WorkerSteps, TheRun
    <3>2. QED
      BY <3>1 DEF TypeInv, WorkersInv, Workers, Opened
  <2>1. CASE docs' = docs
    BY <1>0, <2>1
  <2>2. CASE docs'[1] = [docs[1] EXCEPT !.live = TRUE]
    BY <1>0, <2>2 DEF Doc
  <2>3. CASE docs'[1] = [docs[1] EXCEPT !.state = "FAILED", !.gateState = "FAILED",
                                       !.holder = None, !.live = FALSE]
    BY <1>0, <2>0, <2>3 DEF Doc
  <2>4. CASE CommitGate(o) /\ MaySettle(o)
             /\ docs'[1] = [docs[1] EXCEPT !.gate = @ + 1, !.gateState = "PENDING",
                                           !.holder = None, !.live = FALSE, !.attempt = 0]
    <3>1. docs[1].gate \in Gate
      BY <2>0, <2>4 DEF MaySettle, Holds
    <3>2. docs'[1].gate = docs[1].gate + 1 /\ docs'[1].state = docs[1].state
      BY <1>0, <2>4 DEF Doc
    <3>3. QED
      BY <1>0, <3>1, <3>2 DEF Gate
  <2>5. CASE docs'[1] = [docs[1] EXCEPT !.state =
                          IF worker[o].pc = "reconciled" THEN "SUCCEEDED" ELSE "FAILED"]
             /\ docs[1].state = "RUNNING"
    BY <1>0, <2>5 DEF Doc
  <2> HIDE DEF Goal
  <2>6. QED
    BY <1>3, <2>0, <2>1, <2>2, <2>3, <2>4, <2>5, DocumentOf
<1>4. ASSUME \/ \E o \in Owner : LeftLeasesExpire(o) \/ Stall(o)
             \/ UNCHANGED vars
      PROVE  Goal
  <2>1. docs' = docs
    BY <1>4 DEF LeftLeasesExpire, Stall, vars
  <2>2. QED
    BY <1>0, <2>1
<1> HIDE DEF Goal
<1>5. Goal
  BY <1>1, <1>2, <1>3, <1>4 DEF Next
<1>6. QED
  BY <1>5 DEF Goal

\* Before G1 is committed, no pair has come to the cross-check.
LEMMA NotYetAtG3 ==
  ASSUME TypeInv, CascadeInv, ShadowInv, AbsentDocs, Alone, Exclusive, SetUpOnce, [Next]_vars, Alone',
         docs'[1].gate = 1, NEW p \in Pair
  PROVE  rows'[p].gate # 3
<1>0. rows[p] \in Row /\ \A o \in Owner : worker[o].gate \in Gate
  BY DEF TypeInv, WorkersInv, Workers
<1>1. docs[1].gate = 1
  <2>1. ASSUME NEW o \in Owner, worker[o].gate = docs[1].gate, docs'[1].gate = docs[1].gate + 1
        PROVE  FALSE
    BY <1>0, <2>1 DEF Gate
  <2>2. QED
    BY <2>1, RunSteps
<1>2. rows[p].gate # 3
  BY <1>1 DEF SetUpOnce
<1>3. CASE Leased(rows[p], rows'[p])
  BY <1>0, <1>2, <1>3 DEF Leased, Row
<1>4. CASE rows'[p] = HeadOfCascade
  BY <1>4 DEF HeadOfCascade
<1>5. ASSUME NEW o \in Owner, Moved(o, p) PROVE rows'[p].gate # 3
  <2>1. worker[o].gate = 1
    BY <1>1, <1>5 DEF Moved, Exclusive, Busy, Loop
  <2>2. /\ rows'[p] = Routed(p, worker[o].outcome[p], o) /\ p \in worker[o].batch
        /\ worker[o].pc = "written"
    BY <1>5, <2>1 DEF Moved
  <2>3. OutcomeFits(1, p, worker[o].outcome[p])
    BY <2>1, <2>2 DEF CascadeInv, InHand
  <2>4. worker[o].outcome[p].gate # 3
    BY <2>3, OutcomeShape DEF Gate
  <2>5. QED
    BY <2>2, <2>4 DEF Routed
<1>6. QED
  BY <1>3, <1>4, <1>5, RowSteps

LEMMA SetUpOnceStep ==
  ASSUME TypeInv, CascadeInv, ShadowInv, AbsentDocs, Alone, Exclusive, Filled, Sourced, SetUpOnce,
         [Next]_vars, Alone'
  PROVE  SetUpOnce'
<1>1. ~Opened(1)' => AllAtHead'
  <2> SUFFICES ASSUME docs'[1].state = "ABSENT" PROVE AllAtHead'
    BY DEF Opened
  <2>1. ~Opened(1)
    BY DocSteps, FirstRun
  <2>2. \A o \in Owner : worker[o].pc \notin {"batch", "written"}
    BY <2>1, TheRun
  <2>3. AllAtHead
    BY <2>1 DEF SetUpOnce
  <2>4. QED
    BY <2>2, <2>3, HeadKept
<1>2. /\ docs'[1].state # "SUPERSEDED"
      /\ Opened(1)' /\ docs'[1].gate = 1 => docs'[1].attempt >= 1
  BY ClaimsCounted DEF Opened
<1>3. docs'[1].gateState = "RUNNING" /\ worker'[docs'[1].holder].pc # "idle" =>
        worker'[docs'[1].holder].gate = docs'[1].gate
  BY HolderFits
<1>4. docs'[1].gate = 1 => \A p \in Pair : rows'[p].gate # 3
  BY NotYetAtG3
<1>5. faults'["crash"] = 0 => ~HolderIn({"down"})'
  BY HolderUp DEF HolderIn
<1>6. faults'["crash"] = 0 /\ docs'[1].gate = 1 =>
        /\ HolderIn({"purge", "reset"})' => AllAtHead'
        /\ HolderIn({"launched"})' /\ docs'[1].attempt <= 1 => AllAtHead'
  BY SetupFirst DEF HolderIn
<1>7. QED
  BY <1>1, <1>2, <1>3, <1>4, <1>5, <1>6 DEF SetUpOnce

\* Who takes, moves or resets rows works; nobody else touches more than a lease.
Touches(o) == LeaseBatch(o) \/ PassThrough(o) \/ Route(o) \/ Reset(o) \/ Seed(o)

LEMMA RowsAtRest ==
  ASSUME TypeInv, [Next]_vars, \A o \in Owner : ~Touches(o), NEW p \in Pair
  PROVE  rows'[p] = rows[p] \/ rows'[p] = [rows[p] EXCEPT !.live = FALSE]
<1>1. ASSUME NEW S, Lapse(S)
      PROVE  rows'[p] = rows[p] \/ rows'[p] = [rows[p] EXCEPT !.live = FALSE]
  BY <1>1 DEF Lapse
<1>2. CASE \/ \E k \in Run : GateLeaseExpires(k)
           \/ \E o \in Owner : LeftLeasesExpire(o) \/ Stall(o)
  BY <1>1, <1>2 DEF GateLeaseExpires, LeftLeasesExpire, Stall
<1>3. ASSUME NEW o \in Owner, RunGate(o) \/ Crash(o) \/ TaskRetry(o)
      PROVE  UNCHANGED rows
  BY <1>3 DEF RunGate, Touches, LoadRun, Purge, Renew, JudgeEncoder, JudgeTail, WriteEdges, FailGate,
              CommitGate, CommitRefused, TallyRows, Finalize, Crash, TaskRetry
<1>4. CASE \E k \in Run, o \in Owner : OpenRun(k, o) \/ ClaimGate(k, o)
  BY <1>4 DEF OpenRun, ClaimGate
<1>5. CASE UNCHANGED vars
  BY <1>5 DEF vars
<1>6. QED
  BY <1>2, <1>3, <1>4, <1>5 DEF Next

LEMMA EdgesAtRest ==
  ASSUME [Next]_vars, \A o \in Owner : ~Purge(o) /\ ~WriteEdges(o)
  PROVE  edges' = edges
BY DEF Next, vars, RunGate, OpenRun, ClaimGate, GateLeaseExpires, LeftLeasesExpire, Stall, LoadRun,
       Reset, Seed, Renew, LeaseBatch, PassThrough, JudgeEncoder, JudgeTail, Route,
       FailGate, CommitGate, CommitRefused, TallyRows, Finalize, Crash, TaskRetry

\* A worker in its batch loop either stays as it is, or handles a batch itself.
LEMMA InTheLoop ==
  ASSUME TypeInv, [Next]_vars, NEW x \in Owner, worker'[x].pc \in {"batch", "judged", "written"}
  PROVE  worker'[x] = worker[x] \/ Handles(x)
<1>1. ASSUME NEW o \in Owner, Handles(o), o # x PROVE worker'[x] = worker[x]
  <2>1. RunGate(o)
    BY <1>1 DEF Handles, RunGate
  <2>2. QED
    BY <1>1, <2>1, WorkerSteps
<1>2. CASE \A o \in Owner : ~Handles(o)
  BY <1>2, QuietSteps DEF Quiet
<1>3. QED
  BY <1>1, <1>2

\* What others do leaves a worker its batch.
LEMMA BatchLeft ==
  ASSUME TypeInv, ShadowInv, Alone, Exclusive, [Next]_vars, NEW x \in Owner, HoldsBatch(x),
         worker'[x] = worker[x], worker[x].pc \in {"batch", "judged", "written"}
  PROVE  HoldsBatch(x)'
<1>0. /\ worker \in [Owner -> Workers] /\ worker[x] \in Workers /\ worker[x].batch \subseteq Pair
      /\ \A p \in Pair : rows[p] \in Row
  BY DEF TypeInv, WorkersInv, Workers
<1>1. \A o \in Owner : Busy(o) => o = x
  BY DEF Exclusive, Busy, Loop
<1>2. \A o \in Owner : ~Touches(o)
  <2>1. SUFFICES ASSUME NEW o \in Owner, Touches(o) PROVE FALSE
    OBVIOUS
  <2>2. o = x
    BY <1>1, <2>1 DEF Touches, LeaseBatch, PassThrough, Route, Reset, Seed, Busy, Setup, Loop
  <2>3. CASE LeaseBatch(x) \/ Reset(x) \/ Seed(x)
    BY <2>3 DEF LeaseBatch, Reset, Seed
  <2>4. CASE PassThrough(x)
    <3>1. worker[x].flagged # {} /\ worker'[x].flagged = {}
      BY <1>0, <2>4 DEF PassThrough, Workers
    <3>2. QED
      BY <3>1
  <2>5. CASE Route(x)
    <3>1. worker[x].pc = "written" /\ worker'[x].pc = "renew"
      BY <1>0, <2>5 DEF Route, Workers
    <3>2. QED
      BY <3>1
  <2>6. QED
    BY <2>1, <2>2, <2>3, <2>4, <2>5 DEF Touches
<1>3. edges' = edges
  <2>1. SUFFICES ASSUME NEW o \in Owner, Purge(o) \/ WriteEdges(o) PROVE FALSE
    BY EdgesAtRest
  <2>2. o = x
    BY <1>1, <2>1 DEF Purge, WriteEdges, Busy, Setup, Loop
  <2>3. CASE WriteEdges(x)
    <3>1. worker[x].pc = "judged" /\ worker'[x].pc = "written"
      BY <1>0, <2>3 DEF WriteEdges, Goto, Workers
    <3>2. QED
      BY <3>1
  <2>4. QED
    BY <2>1, <2>2, <2>3 DEF Purge
<1>4. \A p \in Pair : /\ rows'[p].seeded = rows[p].seeded /\ rows'[p].gate = rows[p].gate
                      /\ rows'[p].owner = rows[p].owner
  <2>1. SUFFICES ASSUME NEW p \in Pair
                 PROVE  /\ rows'[p].seeded = rows[p].seeded /\ rows'[p].gate = rows[p].gate
                        /\ rows'[p].owner = rows[p].owner
    OBVIOUS
  <2>2. rows'[p] = rows[p] \/ rows'[p] = [rows[p] EXCEPT !.live = FALSE]
    BY <1>2, RowsAtRest
  <2>3. QED
    BY <1>0, <2>2 DEF Row
<1>5. InShadow(x)' <=> InShadow(x)
  <2>1. worker[x].run \in Run /\ Opened(worker[x].run)
    BY DEF TypeInv, WorkersInv, Sound, ShadowInv
  <2>2. docs'[worker[x].run].mode = docs[worker[x].run].mode
    BY <2>1, DocSteps
  <2>3. QED
    BY <2>2 DEF InShadow
<1>6. \A p \in worker'[x].batch : StillOwned(x, p)'
  <2>1. \A p \in worker[x].batch : StillOwned(x, p)
    BY DEF HoldsBatch
  <2>2. QED
    BY <1>0, <1>4, <2>1 DEF StillOwned
<1>7. worker'[x].pc = "written" => Written(x)'
  BY <1>3, <1>5 DEF HoldsBatch, Written
<1>8. QED
  BY <1>6, <1>7 DEF HoldsBatch

\* A batch is taken with its leases, and what is judged is written as judged.
LEMMA BatchTaken ==
  ASSUME TypeInv, NEW x \in Owner, HoldsBatch(x), Handles(x)
  PROVE  HoldsBatch(x)'
<1>0. /\ worker \in [Owner -> Workers] /\ worker[x] \in Workers /\ worker[x].batch \subseteq Pair
      /\ \A p \in Pair : rows[p] \in Row
  BY DEF TypeInv, WorkersInv, Workers
<1>1. CASE LeaseBatch(x)
  <2> DEFINE batch == First(BatchSize, Free(worker[x].gate))
  <2>1. \A p \in batch : p \in Pair /\ rows[p].seeded /\ rows[p].gate = worker[x].gate
    BY DEF First, Free
  <2>2. /\ rows' = [p \in Pair |-> IF p \in batch THEN [rows[p] EXCEPT !.owner = x, !.live = TRUE]
                                                  ELSE rows[p]]
        /\ worker' = [worker EXCEPT ![x].pc = IF batch = {} THEN "settle" ELSE "batch",
                                    ![x].batch = batch,
                                    ![x].flagged = {p \in batch : rows[p].flag}]
    BY <1>1 DEF LeaseBatch
  <2> HIDE DEF batch
  <2>3. worker'[x].pc # "written" /\ worker'[x].batch = batch /\ worker'[x].gate = worker[x].gate
    BY <1>0, <2>2 DEF Workers
  <2>4. \A p \in batch : /\ rows'[p].seeded = rows[p].seeded /\ rows'[p].gate = rows[p].gate
                         /\ rows'[p].owner = x
    BY <1>0, <2>1, <2>2 DEF Row
  <2>5. QED
    BY <2>1, <2>3, <2>4 DEF HoldsBatch, StillOwned
<1>2. CASE PassThrough(x)
  <2> DEFINE rest == worker[x].batch \ worker[x].flagged
  <2>1. /\ worker'[x].pc # "written" /\ worker'[x].batch = rest /\ worker'[x].gate = worker[x].gate
    BY <1>0, <1>2 DEF PassThrough, Workers
  <2>2. \A p \in rest : rows'[p] = rows[p]
    BY <1>0, <1>2 DEF PassThrough
  <2>3. \A p \in rest : StillOwned(x, p)
    BY <1>2 DEF HoldsBatch, PassThrough
  <2>4. \A p \in rest : StillOwned(x, p)'
    BY <2>1, <2>2, <2>3 DEF StillOwned
  <2>5. QED
    BY <2>1, <2>4 DEF HoldsBatch
<1>3. CASE JudgeEncoder(x) \/ JudgeTail(x)
  <2>1. /\ worker'[x].pc = "judged" /\ worker'[x].batch = worker[x].batch
        /\ worker'[x].gate = worker[x].gate /\ rows' = rows /\ worker[x].pc = "batch"
    <3>1. CASE JudgeEncoder(x)
      BY <1>0, <3>1 DEF JudgeEncoder, Workers
    <3>2. CASE JudgeTail(x)
      <4>1. PICK f, n : worker' = [worker EXCEPT ![x].pc = "judged", ![x].flagged = {},
                                                 ![x].spent = @ + n, ![x].outcome = f]
        BY <3>2 DEF JudgeTail
      <4>2. rows' = rows /\ worker[x].pc = "batch"
        BY <3>2 DEF JudgeTail
      <4>3. QED
        BY <1>0, <4>1, <4>2 DEF Workers
    <3>3. QED
      BY <1>3, <3>1, <3>2
  <2>2. \A p \in worker[x].batch : StillOwned(x, p)
    BY <2>1 DEF HoldsBatch
  <2>3. QED
    BY <2>1, <2>2 DEF HoldsBatch, StillOwned
<1>4. CASE WriteEdges(x)
  <2>1. /\ worker'[x] = [worker[x] EXCEPT !.pc = "written"] /\ rows' = rows /\ docs' = docs
        /\ worker[x].pc = "judged"
    BY <1>0, <1>4 DEF WriteEdges, Goto
  <2>2. /\ worker'[x].pc = "written" /\ worker'[x].batch = worker[x].batch
        /\ worker'[x].gate = worker[x].gate /\ worker'[x].run = worker[x].run
        /\ worker'[x].outcome = worker[x].outcome
    BY <1>0, <2>1 DEF Workers
  <2>3. \A p \in worker[x].batch : StillOwned(x, p)
    BY <2>1 DEF HoldsBatch
  <2>4. \A p \in worker'[x].batch : StillOwned(x, p)'
    BY <2>1, <2>2, <2>3 DEF StillOwned
  <2>5. \A p \in worker[x].batch : edges'[p] = Merged(edges[p], worker[x].outcome[p], x)
    BY <1>0, <1>4 DEF WriteEdges
  <2>6. InShadow(x)' <=> InShadow(x)
    BY <2>1, <2>2 DEF InShadow
  <2>7. ASSUME NEW p \in worker[x].batch
        PROVE  LET e == edges'[p]  out == worker[x].outcome[p] IN
               /\ e.method = GateMethod[worker[x].gate] /\ e.run = worker[x].run
               /\ worker[x].gate = 1 => e.g1
               /\ ~InShadow(x) /\ out.verdict # None => e.relation = out.verdict
               /\ ~InShadow(x) /\ out.reason # None => e.reason = out.reason
    <3> DEFINE out == worker[x].outcome[p]
    <3>1. edges'[p] = Merged(edges[p], out, x)
      BY <2>5
    <3> HIDE DEF out
    <3>2. edges'[p].method = GateMethod[worker[x].gate] /\ edges'[p].run = worker[x].run
      BY <3>1 DEF Merged
    <3>3. worker[x].gate = 1 => edges'[p].g1 = TRUE
      <4>1. edges'[p].g1 = (edges[p].g1 \/ worker[x].gate = 1)
        BY <3>1 DEF Merged
      <4>2. QED
        BY <4>1
    <3>4. ~InShadow(x) /\ out.verdict # None => edges'[p].relation = out.verdict
      BY <3>1 DEF Merged
    <3>5. ~InShadow(x) /\ out.reason # None => edges'[p].reason = out.reason
      BY <3>1 DEF Merged
    <3>6. QED
      BY <3>2, <3>3, <3>4, <3>5 DEF out
  <2>8. Written(x)'
    BY <2>2, <2>6, <2>7 DEF Written
  <2>9. QED
    BY <2>4, <2>8 DEF HoldsBatch
<1>5. CASE Route(x)
  <2>1. worker'[x].pc = "renew"
    BY <1>0, <1>5 DEF Route, Workers
  <2>2. QED
    BY <2>1 DEF HoldsBatch
<1>6. QED
  BY <1>1, <1>2, <1>3, <1>4, <1>5 DEF Handles

LEMMA BatchHeldStep ==
  ASSUME TypeInv, ShadowInv, Alone, Exclusive, BatchHeld, [Next]_vars
  PROVE  BatchHeld'
<1>1. ASSUME NEW x \in Owner PROVE HoldsBatch(x)'
  <2>1. CASE worker'[x].pc \notin {"batch", "judged", "written"}
    BY <2>1 DEF HoldsBatch
  <2>2. CASE worker'[x].pc \in {"batch", "judged", "written"}
    BY <2>2, InTheLoop, BatchLeft, BatchTaken DEF BatchHeld
  <2>3. QED
    BY <2>1, <2>2
<1>2. QED
  BY <1>1 DEF BatchHeld

\* Pairs at the head of the cascade owe no verdict.
LEMMA HeadRecorded == ASSUME NEW p \in Pair, rows[p].gate = 1 PROVE Recorded(p)
BY DEF Recorded, SettledInEarnest, Left

\* A row nobody moved keeps its record: verdict rows are merged for pairs that
\* are still in the cascade, and its run keeps its mode.
LEMMA KeptRecorded ==
  ASSUME TypeInv, ShadowInv, LeftBy, BatchHeld, [Next]_vars, NEW p \in Pair, Recorded(p),
         Leased(rows[p], rows'[p]), \A o \in Owner : ~Purge(o)
  PROVE  Recorded(p)'
<1>0. rows[p] \in Row /\ edges[p] \in Edge /\ \A o \in Owner : worker[o] \in Workers
  BY DEF TypeInv, WorkersInv
<1>1. /\ rows'[p].gate = rows[p].gate /\ rows'[p].run = rows[p].run
      /\ rows'[p].decidedBy = rows[p].decidedBy /\ rows'[p].tier = rows[p].tier
  BY <1>0 DEF Leased, Row
<1>2. SettledInEarnest(rows[p])' => SettledInEarnest(rows[p])
  <2>1. SUFFICES ASSUME rows'[p].gate = Left, docs'[rows'[p].run].mode # "SHADOW"
                 PROVE  rows[p].gate = Left /\ docs[rows[p].run].mode # "SHADOW"
    BY DEF SettledInEarnest
  <2>2. rows[p].run \in Run /\ Opened(rows[p].run)
    BY <1>1, <2>1 DEF LeftBy
  <2>3. docs'[rows[p].run].mode = docs[rows[p].run].mode
    BY <2>2, DocSteps
  <2>4. QED
    BY <1>1, <2>1, <2>3
<1>3. CASE edges'[p] = edges[p]
  BY <1>1, <1>2, <1>3 DEF Recorded, SettledAsRecorded
<1>4. ASSUME NEW o \in Owner, worker[o].pc = "judged", p \in worker[o].batch,
             edges'[p] = Merged(edges[p], worker[o].outcome[p], o)
      PROVE  Recorded(p)'
  <2>1. rows[p].gate = worker[o].gate /\ worker[o].gate \in Gate
    BY <1>0, <1>4 DEF BatchHeld, HoldsBatch, StillOwned, Workers
  <2>2. ~SettledInEarnest(rows[p])'
    BY <1>1, <2>1 DEF SettledInEarnest, Gate, Left
  <2>3. rows'[p].gate \in {2, 3} => edges'[p].g1 = TRUE
    <3>1. SUFFICES ASSUME edges[p].g1 PROVE edges'[p].g1 = TRUE
      BY <1>0, <1>1 DEF Recorded, Edge
    <3>2. edges'[p].g1 = (edges[p].g1 \/ worker[o].gate = 1)
      BY <1>4 DEF Merged
    <3>3. QED
      BY <3>1, <3>2
  <2>4. QED
    BY <2>2, <2>3 DEF Recorded
<1>5. QED
  BY <1>3, <1>4, EdgeSteps

\* A row its worker moves on has the record its decision left.
LEMMA MovedRecorded ==
  ASSUME TypeInv, CascadeInv, BatchHeld, NEW p \in Pair, Recorded(p), NEW o \in Owner,
         PassThrough(o) \/ Route(o), Moved(o, p)
  PROVE  Recorded(p)'
<1> DEFINE w == worker[o]
           g == worker[o].gate
           out == worker[o].outcome[p]
<1>0. /\ rows[p] \in Row /\ edges[p] \in Edge /\ g \in Gate /\ rows[p].gate = g
      /\ p \in w.batch /\ edges' = edges /\ docs' = docs
  BY DEF TypeInv, WorkersInv, Workers, Moved, StillOwned, PassThrough, Route
<1>1. CASE rows'[p] = Routed(p, Forwarded(3), o) /\ g = 2
  <2>1. rows'[p].gate = 3
    BY <1>1 DEF Routed, Forwarded
  <2>2. edges[p].g1
    BY <1>0, <1>1 DEF Recorded
  <2>3. QED
    BY <1>0, <2>1, <2>2 DEF Recorded, SettledInEarnest, Left
<1>2. CASE w.pc = "written" /\ rows'[p] = Routed(p, out, o)
  <2>1. /\ rows'[p].gate = out.gate /\ rows'[p].tier = out.tier
        /\ rows'[p].decidedBy = out.decidedBy /\ rows'[p].run = w.run
    BY <1>2 DEF Routed
  <2>2. OutcomeFits(g, p, out)
    BY <1>0, <1>2 DEF CascadeInv, InHand
  <2>3. /\ out.gate = 2 => g = 1
        /\ out.gate = 3 => g = 2
        /\ out.decidedBy # None => out.decidedBy = GateMethod[g] /\ out.verdict # None
        /\ out.tier = "HUMAN" => \/ g = 3 /\ out.verdict = "CONTRADICTS"
                                 \/ g = 4 /\ out.reason \in {"LLM_ERROR", "CAP_EXCEEDED"}
    BY <1>0, <2>2, OutcomeShape
  <2>4. /\ edges[p].method = GateMethod[g] /\ edges[p].run = w.run
        /\ g = 1 => edges[p].g1
        /\ ~InShadow(o) /\ out.verdict # None => edges[p].relation = out.verdict
        /\ ~InShadow(o) /\ out.reason # None => edges[p].reason = out.reason
    BY <1>0, <1>2 DEF BatchHeld, HoldsBatch, Written
  <2> HIDE DEF out, g, w
  <2>5. rows'[p].gate \in {2, 3} => edges'[p].g1 = TRUE
    <3>1. out.gate = 2 => edges[p].g1
      BY <2>3, <2>4
    <3>2. out.gate = 3 => edges[p].g1
      BY <1>0, <2>3 DEF Recorded
    <3>3. QED
      BY <1>0, <2>1, <3>1, <3>2 DEF Edge
  <2>6. ASSUME SettledInEarnest(rows[p])' PROVE SettledAsRecorded(p)'
    <3>1. ~InShadow(o)
      BY <1>0, <2>1, <2>6 DEF SettledInEarnest, InShadow, w
    <3>2. edges[p].run = rows'[p].run
      BY <2>1, <2>4
    <3>3. rows'[p].decidedBy # None => edges[p].method = rows'[p].decidedBy /\ edges[p].relation # None
      BY <2>1, <2>3, <2>4, <3>1
    <3>4. ASSUME rows'[p].tier = "HUMAN"
          PROVE  CASE edges[p].method = "GK_G3_XCHECK" -> edges[p].relation = "CONTRADICTS"
                   [] edges[p].method = "GK_G4_LLM"    -> edges[p].reason \in {"LLM_ERROR", "CAP_EXCEEDED"}
                   [] OTHER -> FALSE
      <4>1. CASE g = 3 /\ out.verdict = "CONTRADICTS"
        <5>1. edges[p].method = "GK_G3_XCHECK"
          BY <2>4, <4>1 DEF GateMethod
        <5>2. edges[p].relation = "CONTRADICTS"
          BY <2>4, <3>1, <4>1, NoneAssumption DEF Verdict
        <5>3. QED
          BY <5>1, <5>2
      <4>2. CASE g = 4 /\ out.reason \in {"LLM_ERROR", "CAP_EXCEEDED"}
        <5>1. edges[p].method = "GK_G4_LLM"
          BY <2>4, <4>2 DEF GateMethod
        <5>2. edges[p].reason \in {"LLM_ERROR", "CAP_EXCEEDED"}
          BY <2>4, <3>1, <4>2, NoneAssumption DEF Reason
        <5>3. QED
          BY <5>1, <5>2
      <4>3. QED
        BY <2>1, <2>3, <3>4, <4>1, <4>2
    <3>5. QED
      BY <1>0, <3>2, <3>3, <3>4 DEF SettledAsRecorded
  <2>7. QED
    BY <2>5, <2>6 DEF Recorded
<1>3. QED
  BY <1>1, <1>2 DEF Moved

\* The retry of a crashed G1 resets what it has purged.
LEMMA ResetRecorded ==
  ASSUME TypeInv, Sourced, [Next]_vars, NEW o \in Owner, worker[o].pc = "reset", ~Crash(o)
  PROVE  (\A p \in Pair : Recorded(p)') \/ worker'[o].pc = "reset"
<1>1. CASE worker'[o] = worker[o]
  BY <1>1
<1>2. CASE RunGate(o) \/ Crash(o) \/ TaskRetry(o)
  <2>1. Reset(o)
    BY <1>2 DEF RunGate, Reset, LoadRun, Purge, Seed, Renew, LeaseBatch, PassThrough, JudgeEncoder,
                JudgeTail, WriteEdges, Route, FailGate, CommitGate, CommitRefused, TallyRows, Finalize,
                TaskRetry
  <2>2. HeadOfCascade.gate = 1
    BY DEF HeadOfCascade
  <2>3. \A p \in Pair : rows'[p].gate = 1
    BY <2>1, <2>2 DEF Reset, Sourced
  <2>4. \A p \in Pair : Recorded(p)'
    BY <2>3 DEF Recorded, SettledInEarnest, Left
  <2>5. QED
    BY <2>4
<1>3. QED
  BY <1>1, <1>2, WhoMoves

\* A purge before the first crash finds no pair moved.
LEMMA PurgeFirst ==
  ASSUME TypeInv, ShadowInv, Alone, Exclusive, Sourced, SetUpOnce, NEW o \in Owner, Purge(o)
  PROVE  \/ \A p \in Pair : Recorded(p)'
         \/ faults["crash"] # 0 /\ worker'[o].pc = "reset"
<1>1. worker[o].pc = "purge" /\ worker'[o].pc = "reset" /\ rows' = rows
  BY DEF Purge, Goto, TypeInv, WorkersInv, Workers
<1>2. /\ docs[1].gateState = "RUNNING" /\ docs[1].holder = o
      /\ docs[1].gate = worker[o].gate /\ worker[o].gate = 1
  BY <1>1 DEF Exclusive, Busy, Setup, Sourced
<1>3. CASE faults["crash"] = 0
  <2>1. \A p \in Pair : rows'[p].gate = 1
    BY <1>1, <1>2, <1>3 DEF SetUpOnce, HolderIn, AllAtHead
  <2>2. QED
    BY <2>1 DEF Recorded, SettledInEarnest, Left
<1>4. QED
  BY <1>1, <1>3

LEMMA OnRecordStep ==
  ASSUME TypeInv, CascadeInv, ShadowInv, LeftBy, Alone, Exclusive, Sourced, SetUpOnce, BatchHeld,
         OnRecord, [Next]_vars, faults'["crash"] <= 1
  PROVE  OnRecord'
<1>0. /\ faults["crash"] \in Nat
      /\ faults'["crash"] = faults["crash"] \/ faults'["crash"] = faults["crash"] + 1
      /\ \A o \in Owner : Crash(o) => faults'["crash"] = faults["crash"] + 1
  BY CrashSteps
<1>1. CASE \A p \in Pair : Recorded(p)
  <2>1. ASSUME NEW o \in Owner, Purge(o) PROVE OnRecord'
    <3>1. \/ \A p \in Pair : Recorded(p)'
          \/ faults["crash"] # 0 /\ worker'[o].pc = "reset"
      BY <2>1, PurgeFirst
    <3>2. faults["crash"] # 0 => faults'["crash"] >= 1
      BY <1>0
    <3>3. QED
      BY <3>1, <3>2 DEF OnRecord
  <2>2. CASE \A o \in Owner : ~Purge(o)
    <3>1. ASSUME NEW p \in Pair PROVE Recorded(p)'
      <4>1. CASE Leased(rows[p], rows'[p])
        BY <1>1, <2>2, <4>1, KeptRecorded
      <4>2. CASE rows'[p] = HeadOfCascade
        <5>1. rows'[p].gate = 1
          BY <4>2 DEF HeadOfCascade
        <5>2. QED
          BY <5>1 DEF Recorded, SettledInEarnest, Left
      <4>3. ASSUME NEW o \in Owner, PassThrough(o) \/ Route(o), Moved(o, p) PROVE Recorded(p)'
        BY <1>1, <4>3, MovedRecorded
      <4>4. QED
        BY <4>1, <4>2, <4>3, RowSteps
    <3>2. QED
      BY <3>1 DEF OnRecord
  <2>3. QED
    BY <2>1, <2>2
<1>2. CASE faults["crash"] >= 1 /\ \E o \in Owner : worker[o].pc = "reset"
  <2>1. PICK o \in Owner : worker[o].pc = "reset"
    BY <1>2
  <2>2. ~Crash(o) /\ faults'["crash"] >= 1
    BY <1>0, <1>2
  <2>3. (\A p \in Pair : Recorded(p)') \/ worker'[o].pc = "reset"
    BY <2>1, <2>2, ResetRecorded
  <2>4. QED
    BY <2>2, <2>3 DEF OnRecord
<1>3. QED
  BY <1>1, <1>2 DEF OnRecord

LEMMA DurableInit == Init => DurableInv
<1> SUFFICES ASSUME Init PROVE DurableInv
  OBVIOUS
<1>1. Unseeded.gate = 1 /\ AbsentDoc.state = "ABSENT" /\ AbsentDoc.gateState = "PENDING"
      /\ AbsentDoc.gate = 1 /\ IdleWorker.pc = "idle"
  <2>1. Unseeded.gate = 1
    BY HeadType DEF Unseeded, HeadOfCascade, Row
  <2>2. QED
    BY <2>1 DEF AbsentDoc, IdleWorker
<1>2. /\ \A p \in Pair : rows[p].gate = 1
      /\ docs[1] = AbsentDoc /\ \A o \in Owner : worker[o].pc = "idle"
  BY <1>1, FirstRun DEF Init
<1>3. Sourced
  BY <1>2 DEF Sourced, Setup
<1>4. SetUpOnce
  BY <1>1, <1>2 DEF SetUpOnce, AllAtHead, Opened, HolderIn
<1>5. BatchHeld
  BY <1>2 DEF BatchHeld, HoldsBatch
<1>6. OnRecord
  BY <1>2, HeadRecorded DEF OnRecord
<1>7. QED
  BY <1>3, <1>4, <1>5, <1>6 DEF DurableInv

LEMMA DurableStep == OneRunInv /\ DurableInv /\ [Next]_vars => DurableInv'
<1> SUFFICES ASSUME OneRunInv, DurableInv, [Next]_vars PROVE DurableInv'
  OBVIOUS
<1>1. TypeInv /\ CascadeInv /\ ShadowInv /\ SoleInv /\ AbsentDocs /\ LeftBy /\ Sourced
  BY DEF OneRunInv, SoleInv, DurableInv
<1>2. Sourced'
  BY <1>1, SourcedStep
<1>3. ASSUME CrashedOnce' PROVE SetUpOnce' /\ BatchHeld' /\ OnRecord'
  <2>1. Alone' /\ faults'["crash"] <= 1
    BY <1>3 DEF CrashedOnce
  <2>2. CrashedOnce
    BY <1>1, <2>1, AloneBack, CrashSteps DEF CrashedOnce
  <2>3. Alone /\ Exclusive /\ Filled /\ SetUpOnce /\ BatchHeld /\ OnRecord
    BY <1>1, <2>2 DEF SoleInv, DurableInv, CrashedOnce
  <2>4. SetUpOnce'
    BY <1>1, <2>1, <2>3, SetUpOnceStep
  <2>5. BatchHeld'
    BY <1>1, <2>3, BatchHeldStep
  <2>6. OnRecord'
    BY <1>1, <2>1, <2>3, OnRecordStep
  <2>7. QED
    BY <2>4, <2>5, <2>6
<1>4. QED
  BY <1>2, <1>3 DEF DurableInv

(***************************************************************************)
(* The verdict of a single run whose workers keep their leases is durable  *)
(* before the queue moves, through any number of errors and rescues and    *)
(* one crash, wherever it comes: what the retry of G1 purges it resets     *)
(* (_write_outcomes, worker/edges.py purge, queue/pairs.py reset).         *)
(***************************************************************************)
THEOREM DurableCorrect == Spec => [](CrashedOnce => VerdictDurable)
<1>1. Init => OneRunInv /\ DurableInv
  BY TypeInit, CascadeInit, ShadowInit, SoleInit, DurableInit DEF OneRunInv
<1>2. OneRunInv /\ DurableInv => (CrashedOnce => VerdictDurable)
  <2> SUFFICES ASSUME OneRunInv, DurableInv, CrashedOnce PROVE VerdictDurable
    OBVIOUS
  <2>1. CASE \A p \in Pair : Recorded(p)
    BY <2>1 DEF Recorded, VerdictDurable
  <2>2. ASSUME NEW o \in Owner, worker[o].pc = "reset" PROVE VerdictDurable
    <3>1. worker[o].gate = 1
      BY <2>2 DEF DurableInv, Sourced, Setup
    <3>2. docs[1].gate = 1
      BY <2>2, <3>1 DEF OneRunInv, SoleInv, CrashedOnce, Exclusive, Busy, Setup
    <3>3. \A p \in Pair : rows[p].gate # 3
      BY <3>2 DEF DurableInv, SetUpOnce
    <3>4. SetupAhead
      BY <2>2, <3>1 DEF SetupAhead
    <3>5. QED
      BY <3>3, <3>4 DEF VerdictDurable
  <2>3. QED
    BY <2>1, <2>2 DEF DurableInv, OnRecord
<1>3. QED
  BY <1>1, <1>2, OneRunStep, DurableStep, PTL DEF Spec

-----------------------------------------------------------------------------
(***************************************************************************)
(* The crash that matters.  Of any number of crashes, wherever they come,  *)
(* only one can leave a settled row without its verdict: that of a worker  *)
(* of G1 between its purge and its reset, when pairs have moved.           *)
(***************************************************************************)
CutsShort(o) == Crash(o) /\ worker[o].pc = "reset" /\ ~AllAtHead
SetupsSpared == [][\A o \in Owner : ~CutsShort(o)]_vars

RecordedUnlessReset == \/ \A p \in Pair : Recorded(p)
                       \/ \E o \in Owner : worker[o].pc = "reset"

SparedInv == Sourced /\ (Alone => SetUpOnce /\ BatchHeld /\ RecordedUnlessReset)

LEMMA RowsKeptRecorded ==
  ASSUME TypeInv, CascadeInv, ShadowInv, LeftBy, BatchHeld, [Next]_vars,
         \A p \in Pair : Recorded(p), \A o \in Owner : ~Purge(o)
  PROVE  \A p \in Pair : Recorded(p)'
<1>1. ASSUME NEW p \in Pair PROVE Recorded(p)'
  <2>1. CASE Leased(rows[p], rows'[p])
    BY <2>1, KeptRecorded
  <2>2. CASE rows'[p] = HeadOfCascade
    <3>1. rows'[p].gate = 1
      BY <2>2 DEF HeadOfCascade
    <3>2. QED
      BY <3>1 DEF Recorded, SettledInEarnest, Left
  <2>3. ASSUME NEW o \in Owner, PassThrough(o) \/ Route(o), Moved(o, p) PROVE Recorded(p)'
    BY <2>3, MovedRecorded
  <2>4. QED
    BY <2>1, <2>2, <2>3, RowSteps
<1>2. QED
  BY <1>1

LEMMA SparedStep ==
  ASSUME TypeInv, CascadeInv, ShadowInv, LeftBy, Sourced, BatchHeld, RecordedUnlessReset,
         [Next]_vars, \A o \in Owner : ~CutsShort(o)
  PROVE  RecordedUnlessReset'
<1>1. ASSUME NEW o \in Owner, Purge(o) PROVE RecordedUnlessReset'
  <2>1. worker'[o].pc = "reset"
    BY <1>1 DEF Purge, Goto, TypeInv, WorkersInv, Workers
  <2>2. QED
    BY <2>1 DEF RecordedUnlessReset
<1>2. ASSUME \A p \in Pair : Recorded(p), \A o \in Owner : ~Purge(o) PROVE RecordedUnlessReset'
  BY <1>2, RowsKeptRecorded DEF RecordedUnlessReset
<1>3. ASSUME NEW o \in Owner, worker[o].pc = "reset", \A x \in Owner : ~Purge(x)
      PROVE  RecordedUnlessReset'
  <2>1. CASE AllAtHead
    BY <1>2, <1>3, <2>1, HeadRecorded DEF AllAtHead
  <2>2. CASE ~AllAtHead
    <3>1. ~Crash(o)
      BY <1>3, <2>2 DEF CutsShort
    <3>2. QED
      BY <1>3, <3>1, ResetRecorded DEF RecordedUnlessReset
  <2>3. QED
    BY <2>1, <2>2
<1>4. QED
  BY <1>1, <1>2, <1>3 DEF RecordedUnlessReset

LEMMA SparedInvStep ==
  OneRunInv /\ SparedInv /\ [Next]_vars /\ [\A o \in Owner : ~CutsShort(o)]_vars => SparedInv'
<1> SUFFICES ASSUME OneRunInv, SparedInv, [Next]_vars, [\A o \in Owner : ~CutsShort(o)]_vars
             PROVE  SparedInv'
  OBVIOUS
<1>1. TypeInv /\ CascadeInv /\ ShadowInv /\ SoleInv /\ AbsentDocs /\ LeftBy /\ Sourced
  BY DEF OneRunInv, SoleInv, SparedInv
<1>2. Sourced'
  BY <1>1, SourcedStep
<1>3. ASSUME Alone' PROVE SetUpOnce' /\ BatchHeld' /\ RecordedUnlessReset'
  <2>1. Alone /\ Exclusive /\ Filled /\ SetUpOnce /\ BatchHeld /\ RecordedUnlessReset
    BY <1>1, <1>3, AloneBack DEF SoleInv, SparedInv
  <2>2. SetUpOnce' /\ BatchHeld'
    BY <1>1, <1>3, <2>1, SetUpOnceStep, BatchHeldStep
  <2>3. \A o \in Owner : ~CutsShort(o)
    <3>1. ASSUME UNCHANGED vars, NEW o \in Owner, Crash(o) PROVE FALSE
      <4>1. faults'["crash"] = faults["crash"]
        BY <3>1 DEF vars
      <4>2. faults'["crash"] = faults["crash"] + 1 /\ faults["crash"] \in Nat
        BY <1>1, <3>1, CrashSteps
      <4>3. QED
        BY <4>1, <4>2
    <3>2. QED
      BY <3>1 DEF CutsShort
  <2>4. RecordedUnlessReset'
    BY <1>1, <2>1, <2>3, SparedStep
  <2>5. QED
    BY <2>2, <2>4
<1>4. QED
  BY <1>2, <1>3 DEF SparedInv

LEMMA SparedInvInit == Init => SparedInv
<1> SUFFICES ASSUME Init PROVE SparedInv
  OBVIOUS
<1>1. faults["crash"] = 0 /\ faults["stall"] = 0
  BY DEF Init
<1>2. \A k \in Run : ~Opened(k)
  BY DEF Init, Opened, AbsentDoc
<1>3. CrashedOnce
  BY <1>1, <1>2 DEF CrashedOnce, Alone
<1>4. QED
  BY <1>3, DurableInit DEF DurableInv, OnRecord, SparedInv, RecordedUnlessReset

(***************************************************************************)
(* The verdict of a single run whose workers keep their leases is durable  *)
(* before the queue moves, through any number of crashes, errors, task     *)
(* retries and rescues, as long as no crash falls between the purge and    *)
(* the reset of a G1 that is set up again over moved pairs (gates/g1.py    *)
(* run_g1): that is the one window the code has.                           *)
(***************************************************************************)
THEOREM DurableBarOneWindow == Spec /\ SetupsSpared => [](Alone => VerdictDurable)
<1>1. Init => OneRunInv /\ SparedInv
  BY TypeInit, CascadeInit, ShadowInit, SoleInit, SparedInvInit DEF OneRunInv
<1>2. OneRunInv /\ SparedInv => (Alone => VerdictDurable)
  <2> SUFFICES ASSUME OneRunInv, SparedInv, Alone PROVE VerdictDurable
    OBVIOUS
  <2>1. CASE \A p \in Pair : Recorded(p)
    BY <2>1 DEF Recorded, VerdictDurable
  <2>2. ASSUME NEW o \in Owner, worker[o].pc = "reset" PROVE VerdictDurable
    <3>1. worker[o].gate = 1
      BY <2>2 DEF SparedInv, Sourced, Setup
    <3>2. docs[1].gate = 1
      BY <2>2, <3>1 DEF OneRunInv, SoleInv, Exclusive, Busy, Setup
    <3>3. \A p \in Pair : rows[p].gate # 3
      BY <3>2 DEF SparedInv, SetUpOnce
    <3>4. SetupAhead
      BY <2>2, <3>1 DEF SetupAhead
    <3>5. QED
      BY <3>3, <3>4 DEF VerdictDurable
  <2>3. QED
    BY <2>1, <2>2 DEF SparedInv, RecordedUnlessReset
<1>3. QED
  BY <1>1, <1>2, OneRunStep, SparedInvStep, PTL DEF Spec, SetupsSpared

-----------------------------------------------------------------------------
(***************************************************************************)
(* The cascade implements RunLifecycle.  The run documents are cut down in *)
(* this model to what a worker sees of them, and any number of stragglers  *)
(* write beside the holder of the gate: what a poller sees of them is what *)
(* the lifecycle promises all the same.                                    *)
(***************************************************************************)
StatusOf == [ABSENT |-> "none", RUNNING |-> "open", SUCCEEDED |-> "succeeded",
             FAILED |-> "failed", SUPERSEDED |-> "superseded"]
Status == [k \in Run |-> StatusOf[docs[k].state]]
Done == [k \in Run |-> 1..(docs[k].gate - 1)]

\* The runs of this module are all of one stage-3 run.
Lifecycle == INSTANCE RunLifecycle WITH
  Request <- Run, Stage3RunOf <- [k \in Run |-> None], NumGates <- 4,
  status <- Status, done <- Done

\* A RUNNING gate belongs to a run that was open when it was claimed and has
\* not settled since, and FINALIZE runs only when every gate is behind the run.
UnderWay(d) == d.gateState = "RUNNING" => d.state \in {"RUNNING", "SUPERSEDED"} /\ d.gate \in Gate
AtTheEnd(o) == worker[o].pc \in Ending => docs[worker[o].run].gate = 5

DocumentInv == /\ \A k \in Run : UnderWay(docs[k])
               /\ \A o \in Owner : AtTheEnd(o)

PollerInv == TypeInv /\ ShadowInv /\ AbsentDocs /\ DocumentInv

\* What becomes of one document in a step.
OpensRun(k) == /\ ~Opened(k) /\ \A j \in Run : j < k => Opened(j)
               /\ docs'[k].state = "RUNNING" /\ docs'[k].gate = 1 /\ docs'[k].attempt = 1
Supersedes(k) == docs[k].state = "RUNNING" /\ docs'[k] = [docs[k] EXCEPT !.state = "SUPERSEDED"]
Claims(k) == /\ docs[k].state \in {"RUNNING", "FAILED"} /\ docs'[k].state = "RUNNING"
             /\ docs'[k].gate = docs[k].gate /\ docs[k].gate \in Gate
             /\ docs'[k].attempt = docs[k].attempt + 1
             /\ \E o \in Owner : worker[o].pc = "idle" /\ docs'[k].holder = o
KeepsLease(k) == \E live \in BOOLEAN : docs'[k] = [docs[k] EXCEPT !.live = live]
FailsGate(k) == /\ docs[k].state = "RUNNING" /\ docs'[k].gate = docs[k].gate
                /\ docs'[k].state = "FAILED" /\ docs'[k].gateState = "FAILED"
                /\ docs'[k].attempt = docs[k].attempt
CommitsGate(k) == /\ docs[k].state = "RUNNING" /\ docs[k].gate \in Gate
                  /\ docs'[k].state = "RUNNING"
                  /\ docs'[k].gate = docs[k].gate + 1 /\ docs'[k].gateState = "PENDING"
                  /\ \E o \in Owner : worker[o].pc = "settle"
Settles(k) == /\ docs[k].state = "RUNNING" /\ docs[k].gate = 5
              /\ docs'[k].gate = 5 /\ docs'[k].gateState = docs[k].gateState
              /\ docs'[k].state \in {"SUCCEEDED", "FAILED"}
              /\ docs'[k].state = "SUCCEEDED" =>
                   \E o \in Owner : worker[o].pc = "reconciled" /\ worker[o].run = k

Others(k) == \A j \in Run : j # k => docs'[j] = docs[j]
Opening(k) ==
  /\ OpensRun(k)
  /\ \A j \in Run : j # k => IF docs[j].state = "RUNNING" THEN Supersedes(j) ELSE docs'[j] = docs[j]

\* The document a worker's step changes is that of its run.
LEMMA WorkerWrites ==
  ASSUME PollerInv, NEW o \in Owner, RunGate(o) \/ Crash(o) \/ TaskRetry(o)
  PROVE  LET k == worker[o].run IN
         /\ k \in Run /\ Others(k)
         /\ \/ KeepsLease(k)
            \/ FailsGate(k)
            \/ CommitsGate(k) /\ CommitGate(o) /\ docs[k].gate = worker[o].gate
            \/ Settles(k) /\ Finalize(o)
<1> DEFINE k == worker[o].run
<1>0. k \in Run /\ docs \in [Run -> Doc] /\ docs[k] \in Doc /\ Others(k)
  BY DocumentOf DEF PollerInv, TypeInv, Others
<1>1. CASE docs' = docs
  <2>1. docs'[k] = [docs[k] EXCEPT !.live = docs[k].live] /\ docs[k].live \in BOOLEAN
    BY <1>0, <1>1 DEF Doc
  <2>2. QED
    BY <1>0, <2>1 DEF KeepsLease
<1>2. CASE docs'[k] = [docs[k] EXCEPT !.live = TRUE]
  BY <1>0, <1>2 DEF KeepsLease
<1>3. ASSUME MaySettle(o)
      PROVE  docs[k].state = "RUNNING" /\ docs[k].gate \in Gate /\ docs[k].gate = worker[o].gate
  BY <1>0, <1>3 DEF PollerInv, DocumentInv, UnderWay, MaySettle, Holds
<1>4. CASE /\ FailGate(o) /\ MaySettle(o)
           /\ docs'[k] = [docs[k] EXCEPT !.state = "FAILED", !.gateState = "FAILED",
                                        !.holder = None, !.live = FALSE]
  BY <1>0, <1>3, <1>4 DEF FailsGate, Doc
<1>5. CASE /\ CommitGate(o) /\ MaySettle(o)
           /\ docs'[k] = [docs[k] EXCEPT !.gate = @ + 1, !.gateState = "PENDING",
                                        !.holder = None, !.live = FALSE, !.attempt = 0]
  <2>1. CommitsGate(k) /\ docs[k].gate = worker[o].gate
      <3>1. worker[o].pc = "settle"
      BY <1>5 DEF CommitGate
    <3>2. QED
      BY <1>0, <1>3, <1>5, <3>1 DEF CommitsGate, Doc
  <2>2. QED
    BY <1>0, <1>5, <2>1
<1>6. CASE /\ Finalize(o) /\ docs[k].state = "RUNNING"
           /\ docs'[k] = [docs[k] EXCEPT !.state =
                           IF worker[o].pc = "reconciled" THEN "SUCCEEDED" ELSE "FAILED"]
  <2>1. docs[k].gate = 5
    BY <1>6 DEF PollerInv, DocumentInv, AtTheEnd, Finalize, Ending
  <2>2. Settles(k)
    <3>1. /\ docs'[k].gate = docs[k].gate /\ docs'[k].gateState = docs[k].gateState
          /\ docs'[k].state = IF worker[o].pc = "reconciled" THEN "SUCCEEDED" ELSE "FAILED"
      BY <1>0, <1>6 DEF Doc
    <3>2. QED
      BY <1>6, <2>1, <3>1 DEF Settles
  <2>3. QED
    BY <1>0, <1>6, <2>2
<1>7. QED
  BY <1>0, <1>1, <1>2, <1>4, <1>5, <1>6, DocumentOf DEF PollerInv

\* A step opens a run, or changes one document at most.
LEMMA DocumentSteps ==
  ASSUME PollerInv, [Next]_vars
  PROVE  \/ \E k \in Run : Opening(k)
         \/ \E k \in Run : /\ Others(k)
                           /\ Claims(k) \/ KeepsLease(k) \/ FailsGate(k) \/ CommitsGate(k) \/ Settles(k)
         \/ UNCHANGED docs
<1> DEFINE Goal ==
      \/ \E k \in Run : Opening(k)
      \/ \E k \in Run : /\ Others(k)
                        /\ Claims(k) \/ KeepsLease(k) \/ FailsGate(k) \/ CommitsGate(k) \/ Settles(k)
      \/ UNCHANGED docs
<1>0. docs \in [Run -> Doc]
  BY DEF PollerInv, TypeInv
<1>1. ASSUME NEW k \in Run, NEW o \in Owner, OpenRun(k, o) PROVE Opening(k)
  <2>1. OpensRun(k)
    BY <1>0, <1>1 DEF OpenRun, OpensRun, Opened
  <2>2. QED
    BY <1>0, <1>1, <2>1 DEF OpenRun, Opening, Supersedes
<1>2. ASSUME NEW k \in Run, NEW o \in Owner, ClaimGate(k, o) PROVE Others(k) /\ Claims(k)
  BY <1>0, <1>2 DEF ClaimGate, Fresh, Others, Claims
<1>3. ASSUME NEW k \in Run, GateLeaseExpires(k) PROVE Others(k) /\ KeepsLease(k)
  BY <1>0, <1>3 DEF GateLeaseExpires, Others, KeepsLease
<1>4. ASSUME NEW o \in Owner, RunGate(o) \/ Crash(o) \/ TaskRetry(o) PROVE Goal
  BY <1>4, WorkerWrites
<1>5. ASSUME NEW o \in Owner, LeftLeasesExpire(o) \/ Stall(o) PROVE UNCHANGED docs
  BY <1>5 DEF LeftLeasesExpire, Stall
<1>6. CASE UNCHANGED vars
  BY <1>6 DEF vars
<1>7. QED
  BY <1>1, <1>2, <1>3, <1>4, <1>5, <1>6 DEF Next

\* A run that has every gate behind it stays there.
LEMMA LastGateKept ==
  ASSUME PollerInv, [Next]_vars, NEW k \in Run, Opened(k), docs[k].gate = 5
  PROVE  docs'[k].gate = 5
<1>0. docs[k] \in Doc
  BY DEF PollerInv, TypeInv
<1>1. ASSUME NEW j \in Run, Opening(j) PROVE docs'[k].gate = 5
  BY <1>0, <1>1 DEF Opening, OpensRun, Supersedes, Doc
<1>2. ASSUME NEW j \in Run, Others(j),
             Claims(j) \/ KeepsLease(j) \/ FailsGate(j) \/ CommitsGate(j) \/ Settles(j)
      PROVE  docs'[k].gate = 5
  <2>1. CASE k # j
    BY <1>2, <2>1 DEF Others
  <2>2. CASE k = j
    <3>1. CASE KeepsLease(k)
      BY <1>0, <3>1 DEF KeepsLease, Doc
    <3>2. CASE Claims(k) \/ FailsGate(k) \/ CommitsGate(k) \/ Settles(k)
      BY <3>2 DEF Claims, FailsGate, CommitsGate, Settles, Gate
    <3>3. QED
      BY <1>2, <2>2, <3>1, <3>2
  <2>3. QED
    BY <2>1, <2>2
<1>3. QED
  BY <1>1, <1>2, DocumentSteps

LEMMA UnderWayStep ==
  ASSUME PollerInv, [Next]_vars, NEW k \in Run
  PROVE  UnderWay(docs[k])'
<1>0. docs[k] \in Doc /\ UnderWay(docs[k])
  BY DEF PollerInv, TypeInv, DocumentInv
<1>1. ASSUME NEW j \in Run, Opening(j) PROVE UnderWay(docs'[k])
  <2>1. CASE k = j
    BY <1>1, <2>1 DEF Opening, OpensRun, UnderWay, Gate
  <2>2. CASE k # j
    BY <1>0, <1>1, <2>2 DEF Opening, Supersedes, UnderWay, Doc
  <2>3. QED
    BY <2>1, <2>2
<1>2. ASSUME NEW j \in Run, Others(j),
             Claims(j) \/ KeepsLease(j) \/ FailsGate(j) \/ CommitsGate(j) \/ Settles(j)
      PROVE  UnderWay(docs'[k])
  <2>1. CASE k # j
    BY <1>0, <1>2, <2>1 DEF Others
  <2>2. CASE k = j
    <3>1. CASE KeepsLease(k)
      BY <1>0, <3>1 DEF KeepsLease, UnderWay, Doc
    <3>2. CASE Claims(k) \/ FailsGate(k) \/ CommitsGate(k)
      BY <3>2 DEF Claims, FailsGate, CommitsGate, UnderWay
    <3>3. CASE Settles(k)
      BY <1>0, <3>3 DEF Settles, UnderWay, Gate
    <3>4. QED
      BY <1>2, <2>2, <3>1, <3>2, <3>3
  <2>3. QED
    BY <2>1, <2>2
<1>3. QED
  BY <1>0, <1>1, <1>2, DocumentSteps

LEMMA AtTheEndStep ==
  ASSUME PollerInv, [Next]_vars, NEW o \in Owner
  PROVE  AtTheEnd(o)'
<1> SUFFICES ASSUME worker'[o].pc \in Ending PROVE docs'[worker'[o].run].gate = 5
  BY DEF AtTheEnd
<1>1. ASSUME worker[o].pc \in Ending, worker'[o].run = worker[o].run
      PROVE  docs'[worker'[o].run].gate = 5
  <2>1. /\ worker[o].run \in Run /\ Opened(worker[o].run)
        /\ docs[worker[o].run].gate = 5
    BY <1>1 DEF PollerInv, TypeInv, WorkersInv, Sound, ShadowInv, DocumentInv, AtTheEnd, Ending
  <2>2. QED
    BY <1>1, <2>1, LastGateKept
<1>2. CASE worker'[o] = worker[o]
  BY <1>1, <1>2
<1>3. CASE RunGate(o) \/ Crash(o) \/ TaskRetry(o)
  <2>0. worker[o].pc # "idle" /\ worker[o].run \in Run
    BY <1>3, WorkerSteps DEF PollerInv, TypeInv, WorkersInv, Sound
  <2>1. ASSUME (CommitGate(o) /\ worker[o].gate = 4) \/ TallyRows(o)
        PROVE  worker'[o].run = worker[o].run
    <3>1. KeepsRun(worker[o], worker'[o])
      BY <2>0, <2>1, KeepsRunExit DEF PollerInv, CommitGate, TallyRows
    <3>2. QED
      BY <3>1 DEF KeepsRun, Ending
  <2>2. CASE CommitGate(o) /\ worker[o].gate = 4
    <3>1. docs[worker[o].run].gate = 4 /\ docs[worker[o].run] \in Doc /\ docs \in [Run -> Doc]
      BY <2>0, <2>2 DEF CommitGate, MaySettle, Holds, PollerInv, TypeInv
    <3>2. QED
      BY <2>0, <2>1, <2>2, <3>1 DEF CommitGate, Doc
  <2>3. CASE TallyRows(o)
    <3>1. worker[o].pc \in Ending
      BY <2>3 DEF TallyRows, Ending
    <3>2. QED
      BY <1>1, <2>1, <2>3, <3>1
  <2>4. QED
    BY <1>3, <2>2, <2>3, WorkerSteps DEF PollerInv, Off, Setup, Loop, Ending
<1>4. QED
  BY <1>2, <1>3, WhoMoves DEF PollerInv, Ending

LEMMA PollerStep == PollerInv /\ [Next]_vars => PollerInv'
<1> SUFFICES ASSUME PollerInv, [Next]_vars PROVE PollerInv'
  OBVIOUS
<1>1. TypeInv' /\ ShadowInv' /\ AbsentDocs'
  BY TypeStep, ShadowStep, AbsentStep DEF PollerInv
<1>2. DocumentInv'
  BY UnderWayStep, AtTheEndStep DEF DocumentInv
<1>3. QED
  BY <1>1, <1>2 DEF PollerInv

LEMMA PollerInit == Init => PollerInv
<1> SUFFICES ASSUME Init PROVE PollerInv
  OBVIOUS
<1>1. DocumentInv
  BY DEF Init, DocumentInv, UnderWay, AtTheEnd, AbsentDoc, IdleWorker, Ending
<1>2. QED
  BY <1>1, TypeInit, ShadowInit, SoleInit DEF PollerInv, SoleInv

\* What the poller sees of a document.
LEMMA StatusValues ==
  /\ StatusOf["ABSENT"] = "none" /\ StatusOf["RUNNING"] = "open"
  /\ StatusOf["FAILED"] = "failed" /\ StatusOf["SUCCEEDED"] = "succeeded"
  /\ StatusOf["SUPERSEDED"] = "superseded"
BY DEF StatusOf

LEMMA Seen ==
  ASSUME TypeInv
  PROVE  /\ Status \in [Run -> {"none", "open", "succeeded", "failed", "superseded"}]
         /\ \A k \in Run : /\ docs[k].state = "ABSENT" <=> Status[k] = "none"
                           /\ docs[k].state = "RUNNING" <=> Status[k] = "open"
                           /\ docs[k].state = "FAILED" <=> Status[k] = "failed"
                           /\ docs[k].state = "SUCCEEDED" <=> Status[k] = "succeeded"
                           /\ docs[k].state = "SUPERSEDED" <=> Status[k] = "superseded"
         /\ \A k \in Run : Done[k] = 1..(docs[k].gate - 1)
BY DEF TypeInv, Doc, Status, StatusOf, Done

\* What it sees of the others does not change.
LEMMA OneSeen ==
  ASSUME TypeInv, TypeInv', NEW k \in Run, Others(k)
  PROVE  /\ Status' = [Status EXCEPT ![k] = Status'[k]]
         /\ Done' = [Done EXCEPT ![k] = Done'[k]]
<1>1. \A j \in Run : j # k => Status'[j] = Status[j] /\ Done'[j] = Done[j]
  BY DEF Others, Status, Done
<1>2. QED
  BY <1>1 DEF Status, Done

LEMMA OpeningOpens == ASSUME PollerInv, TypeInv', NEW k \in Run, Opening(k) PROVE Lifecycle!Open(k)
<1>1. docs[k].state = "ABSENT" /\ docs[k].gate = 1 /\ docs'[k].state = "RUNNING" /\ docs'[k].gate = 1
  BY DEF Opening, OpensRun, Opened, PollerInv, AbsentDocs, AbsentDoc
<1>2. \A j \in Run : j # k => IF docs[j].state = "RUNNING"
                                THEN docs'[j].state = "SUPERSEDED" /\ docs'[j].gate = docs[j].gate
                                ELSE docs'[j] = docs[j]
  BY DEF Opening, Supersedes, PollerInv, TypeInv, Doc
<1>3. Done' = Done
  BY <1>1, <1>2 DEF Done
<1>4. \A j \in Run : Status'[j] = IF j = k THEN "open"
                                  ELSE IF Status[j] = "open" THEN "superseded" ELSE Status[j]
  BY <1>1, <1>2, Seen DEF PollerInv, Status, StatusOf
<1>5. Status' = [j \in Run |-> IF j = k THEN "open"
                               ELSE IF Status[j] = "open" THEN "superseded" ELSE Status[j]]
  BY <1>4 DEF Status
<1>6. Status[k] = "none"
  BY <1>1, Seen DEF PollerInv
<1>7. QED
  BY <1>3, <1>5, <1>6 DEF Lifecycle!Open

LEMMA CascadeRefines ==
  ASSUME PollerInv, PollerInv', [Next]_vars
  PROVE  [Lifecycle!Next]_Lifecycle!lifecycleVars
<1> DEFINE Goal == [Lifecycle!Next]_Lifecycle!lifecycleVars
<1>0. TypeInv /\ TypeInv'
  BY DEF PollerInv
<1>1. ASSUME NEW k \in Run, Opening(k) PROVE Goal
  BY <1>0, <1>1, OpeningOpens DEF Lifecycle!Next
<1>2. ASSUME NEW k \in Run, Others(k),
             Claims(k) \/ KeepsLease(k) \/ FailsGate(k) \/ CommitsGate(k) \/ Settles(k)
      PROVE  Goal
  <2>1. /\ Status' = [Status EXCEPT ![k] = Status'[k]]
        /\ Done' = [Done EXCEPT ![k] = Done'[k]]
        /\ Done[k] = 1..(docs[k].gate - 1) /\ Done'[k] = 1..(docs'[k].gate - 1)
        /\ docs[k] \in Doc /\ docs'[k] \in Doc
        /\ Status \in [Run -> {"none", "open", "succeeded", "failed", "superseded"}]
        /\ Done = [j \in Run |-> Done[j]]
        /\ Status[k] = StatusOf[docs[k].state] /\ Status'[k] = StatusOf[docs'[k].state]
    BY <1>0, <1>2, OneSeen, Seen DEF TypeInv, Done, Status
  <2>2. ASSUME docs'[k].gate = docs[k].gate PROVE UNCHANGED Done
    BY <2>1, <2>2
  <2>3. ASSUME docs'[k].gate = docs[k].gate, docs'[k].state = docs[k].state PROVE Goal
    <3>1. Status'[k] = Status[k]
      BY <2>1, <2>3
    <3>2. UNCHANGED Status
      BY <2>1, <3>1
    <3>3. QED
      BY <2>2, <2>3, <3>2 DEF Lifecycle!lifecycleVars
  <2>4. CASE Claims(k)
    <3>1. CASE docs[k].state = "RUNNING"
      BY <2>3, <2>4, <3>1 DEF Claims
    <3>2. CASE docs[k].state = "FAILED"
      <4>1. Status[k] = "failed" /\ Status' = [Status EXCEPT ![k] = "open"] /\ UNCHANGED Done
        BY <2>1, <2>2, <2>4, <3>2, StatusValues DEF Claims
      <4>2. 4 \notin Done[k] /\ 4 \in 1..4
        BY <2>1, <2>4 DEF Claims, Gate
      <4>3. Lifecycle!Revive(k)
        BY <4>1, <4>2 DEF Lifecycle!Revive
      <4>4. QED
        BY <4>3 DEF Lifecycle!Next
    <3>3. QED
      BY <2>4, <3>1, <3>2 DEF Claims
  <2>5. CASE KeepsLease(k)
    BY <2>1, <2>3, <2>5 DEF KeepsLease, Doc
  <2>6. ASSUME docs[k].state = "RUNNING", docs'[k].state = "FAILED", docs'[k].gate = docs[k].gate
        PROVE  Goal
    <3>1. Status[k] = "open" /\ Status' = [Status EXCEPT ![k] = "failed"] /\ UNCHANGED Done
      BY <2>1, <2>2, <2>6, StatusValues
    <3>2. Lifecycle!Fail(k)
      BY <3>1 DEF Lifecycle!Fail
    <3>3. QED
      BY <3>2 DEF Lifecycle!Next
  <2>7. CASE FailsGate(k)
    BY <2>6, <2>7 DEF FailsGate
  <2>8. CASE CommitsGate(k)
    <3>1. Status[k] = "open" /\ Status'[k] = Status[k]
      BY <2>1, <2>8, StatusValues DEF CommitsGate
    <3>2. UNCHANGED Status
      BY <2>1, <3>1
    <3>3. docs[k].gate \in 1..4 /\ Done' = [Done EXCEPT ![k] = 1..docs[k].gate]
      <4>1. docs[k].gate \in 1..4 /\ docs'[k].gate - 1 = docs[k].gate
        BY <2>8 DEF CommitsGate, Gate
      <4>2. Done'[k] = 1..docs[k].gate
        BY <2>1, <4>1
      <4>3. QED
        BY <2>1, <4>1, <4>2
    <3>4. Lifecycle!Advance(k, docs[k].gate)
      BY <2>1, <3>1, <3>2, <3>3 DEF Lifecycle!Advance
    <3>5. QED
      BY <3>3, <3>4 DEF Lifecycle!Next
  <2>9. CASE Settles(k)
    <3>1. CASE docs'[k].state = "FAILED"
      BY <2>6, <2>9, <3>1 DEF Settles
    <3>2. CASE docs'[k].state = "SUCCEEDED"
      <4>1. Status[k] = "open" /\ Status' = [Status EXCEPT ![k] = "succeeded"] /\ UNCHANGED Done
        BY <2>1, <2>2, <2>9, <3>2, StatusValues DEF Settles
      <4>2. Done[k] = 1..4
        BY <2>1, <2>9 DEF Settles
      <4>3. Lifecycle!Succeed(k)
        BY <4>1, <4>2 DEF Lifecycle!Succeed
      <4>4. QED
        BY <4>3 DEF Lifecycle!Next
    <3>3. QED
      BY <2>9, <3>1, <3>2 DEF Settles
  <2>10. QED
    BY <1>2, <2>4, <2>5, <2>7, <2>8, <2>9
<1>3. CASE UNCHANGED docs
  BY <1>3 DEF Status, Done, Lifecycle!lifecycleVars
<1>4. QED
  BY <1>1, <1>2, <1>3, DocumentSteps

(***************************************************************************)
(* What the workers do to the run documents, stragglers and superseded     *)
(* ones included, is what RunLifecycle allows: the gates of a run complete *)
(* once each and in order, it fails or succeeds as a whole, it is revived  *)
(* only with gates left, and opening one supersedes the others             *)
(* (runs/repository.py).                                                   *)
(***************************************************************************)
THEOREM CascadeImplementsLifecycle == Spec => Lifecycle!Spec
<1>1. ASSUME Init PROVE Lifecycle!Init
  <2>1. \A k \in Run : docs[k].state = "ABSENT" /\ docs[k].gate = 1
    BY <1>1 DEF Init, AbsentDoc
  <2>2. \A k \in Run : Status[k] = "none" /\ Done[k] = {}
    BY <2>1 DEF Status, StatusOf, Done
  <2>3. QED
    BY <2>2 DEF Lifecycle!Init, Status, Done
<1>2. PollerInv /\ PollerInv' /\ [Next]_vars => [Lifecycle!Next]_Lifecycle!lifecycleVars
  BY CascadeRefines
<1>3. QED
  BY <1>1, <1>2, PollerInit, PollerStep, PTL DEF Spec, Lifecycle!Spec

-----------------------------------------------------------------------------
(***************************************************************************)
(* FINALIZE, whatever stragglers do.  A run that SUCCEEDED, and none       *)
(* newer, left no pair in the cascade, unless a worker of G1 has reset the *)
(* rows after its gate was taken from it.                                  *)
(***************************************************************************)
ResetsHeld == [][\A o \in Owner : Reset(o) => MaySettle(o)]_vars

Latest(k) == \A j \in Run : j > k => ~Opened(j)
AllSeeded == \A p \in Pair : rows[p].seeded

\* The runs are opened in order, and only the run opened last is at the first
\* claim of G1.
FirstClaims ==
  /\ \A j, k \in Run : j < k /\ Opened(k) => Opened(j)
  /\ \A k \in Run : Opened(k) /\ docs[k].gate = 1 => docs[k].attempt >= 1
  /\ \A j, k \in Run : j < k /\ Opened(k) /\ docs[j].state = "RUNNING" /\ docs[j].gate = 1 =>
       docs[j].attempt >= 2
  /\ \A o \in Owner : worker[o].pc \in {"purge", "reset"} /\ MaySettle(o) =>
       docs[worker[o].run].attempt <= 1

\* The queue is filled before G1 takes a batch, and stays so.
SeededFirst ==
  /\ \A k \in Run : docs[k].gate > 1 => AllSeeded
  /\ \A o \in Owner : worker[o].pc \in Loop => AllSeeded

DrainedAtTheEnd ==
  /\ \A o \in Owner : worker[o].pc = "reconciled" /\ Latest(worker[o].run) => Drained
  /\ \A k \in Run : docs[k].state = "SUCCEEDED" => docs[k].gate = 5 /\ (Latest(k) => Drained)

LatestDrained ==
  \A k \in Run : docs[k].state = "SUCCEEDED" /\ Latest(k) =>
    \A p \in Pair : rows[p].seeded /\ rows[p].gate = Left

LEMMA OpenedKept ==
  ASSUME PollerInv, [Next]_vars, NEW k \in Run
  PROVE  /\ Opened(k) => docs'[k].state # "ABSENT"
         /\ (\A j \in Run : ~Opening(j)) => (docs'[k].state # "ABSENT" => Opened(k))
<1>1. Opened(k) => docs'[k].state # "ABSENT"
  BY DocSteps DEF PollerInv
<1>2. ASSUME NEW j \in Run, Others(j),
             Claims(j) \/ KeepsLease(j) \/ FailsGate(j) \/ CommitsGate(j) \/ Settles(j),
             docs'[k].state # "ABSENT"
      PROVE  Opened(k)
  <2>0. docs[k] \in Doc
    BY DEF PollerInv, TypeInv
  <2>1. CASE k # j
    BY <1>2, <2>1 DEF Others, Opened
  <2>2. CASE k = j /\ KeepsLease(k)
    BY <1>2, <2>0, <2>2 DEF KeepsLease, Opened, Doc
  <2>3. CASE k = j /\ (Claims(k) \/ FailsGate(k) \/ CommitsGate(k) \/ Settles(k))
    BY <2>3 DEF Claims, FailsGate, CommitsGate, Settles, Opened
  <2>4. QED
    BY <1>2, <2>1, <2>2, <2>3
<1>3. UNCHANGED docs => (docs'[k].state # "ABSENT" => Opened(k))
  BY DEF Opened
<1>4. QED
  BY <1>1, <1>2, <1>3, DocumentSteps

LEMMA LatestBack ==
  ASSUME PollerInv, [Next]_vars, NEW k \in Run, Latest(k)'
  PROVE  Latest(k)
BY OpenedKept DEF Latest, Opened

\* What one document may have become when no run is opened in the step.
LEMMA OneDocument ==
  ASSUME PollerInv, [Next]_vars, \A j \in Run : ~Opening(j), NEW k \in Run
  PROVE  KeepsLease(k) \/ Claims(k) \/ FailsGate(k) \/ CommitsGate(k) \/ Settles(k)
<1>0. docs[k] \in Doc
  BY DEF PollerInv, TypeInv
<1>1. docs'[k] = docs[k] => KeepsLease(k)
  <2>1. docs[k] = [docs[k] EXCEPT !.live = docs[k].live] /\ docs[k].live \in BOOLEAN
    BY <1>0 DEF Doc
  <2>2. QED
    BY <2>1 DEF KeepsLease
<1>2. QED
  BY <1>1, DocumentSteps DEF Others

LEMMA ClaimsInOrder ==
  ASSUME PollerInv, FirstClaims, [Next]_vars
  PROVE  /\ \A j, k \in Run : j < k /\ docs'[k].state # "ABSENT" => docs'[j].state # "ABSENT"
         /\ \A k \in Run : docs'[k].state # "ABSENT" /\ docs'[k].gate = 1 => docs'[k].attempt >= 1
         /\ \A j, k \in Run : j < k /\ docs'[k].state # "ABSENT" /\ docs'[j].state = "RUNNING"
                              /\ docs'[j].gate = 1 => docs'[j].attempt >= 2
<1>0. \A k \in Run : docs[k] \in Doc /\ docs[k].attempt \in Nat /\ docs[k].gate \in 1..5
  BY DEF PollerInv, TypeInv, Doc
<1>1. ASSUME NEW m \in Run, Opening(m)
      PROVE  /\ \A j, k \in Run : j < k /\ docs'[k].state # "ABSENT" => docs'[j].state # "ABSENT"
             /\ \A k \in Run : docs'[k].state # "ABSENT" /\ docs'[k].gate = 1 => docs'[k].attempt >= 1
             /\ \A j, k \in Run : j < k /\ docs'[k].state # "ABSENT" /\ docs'[j].state = "RUNNING"
                                  /\ docs'[j].gate = 1 => docs'[j].attempt >= 2
  <2>1. /\ ~Opened(m) /\ \A j \in Run : j < m => Opened(j)
        /\ docs'[m].state = "RUNNING" /\ docs'[m].gate = 1 /\ docs'[m].attempt = 1
    BY <1>1 DEF Opening, OpensRun
  <2>2. ASSUME NEW k \in Run, k # m
        PROVE  /\ docs'[k].state # "RUNNING"
               /\ docs'[k].state # "ABSENT" <=> Opened(k)
               /\ docs'[k].gate = docs[k].gate /\ docs'[k].attempt = docs[k].attempt
    <3>1. CASE docs[k].state = "RUNNING"
      <4>1. docs'[k] = [docs[k] EXCEPT !.state = "SUPERSEDED"]
        BY <1>1, <2>2, <3>1 DEF Opening, Supersedes
      <4>2. QED
        BY <1>0, <3>1, <4>1 DEF Doc, Opened
    <3>2. CASE docs[k].state # "RUNNING"
      BY <1>1, <2>2, <3>2 DEF Opening, Opened
    <3>3. QED
      BY <3>1, <3>2
  <2>3. \A j, k \in Run : j < k /\ docs'[k].state # "ABSENT" => docs'[j].state # "ABSENT"
    BY <2>1, <2>2 DEF FirstClaims
  <2>4. \A k \in Run : docs'[k].state # "ABSENT" /\ docs'[k].gate = 1 => docs'[k].attempt >= 1
    BY <2>1, <2>2 DEF FirstClaims
  <2>5. ASSUME NEW j \in Run, NEW k \in Run, j < k, docs'[k].state # "ABSENT", docs'[j].state = "RUNNING"
        PROVE  FALSE
    <3>1. j = m
      BY <2>2, <2>5
    <3>2. k # m
      BY <2>5, <3>1 DEF Run
    <3>3. Opened(k)
      BY <2>2, <2>5, <3>2
    <3>4. QED
      BY <2>1, <2>5, <3>1, <3>3 DEF FirstClaims
  <2>6. QED
    BY <2>3, <2>4, <2>5
<1>2. CASE \A j \in Run : ~Opening(j)
  <2>1. \A k \in Run : docs'[k].state # "ABSENT" <=> Opened(k)
    BY <1>2, OpenedKept
  <2>2. ASSUME NEW k \in Run, docs'[k].gate = 1, Opened(k)
        PROVE  \/ docs'[k].attempt = docs[k].attempt + 1 /\ docs[k].gate = 1
               \/ docs'[k].attempt = docs[k].attempt /\ docs[k].gate = 1
                  /\ (docs'[k].state = "RUNNING" => docs[k].state = "RUNNING")
    <3>1. CASE KeepsLease(k)
      BY <1>0, <2>2, <3>1 DEF KeepsLease, Doc
    <3>2. CASE Claims(k) \/ FailsGate(k)
      BY <2>2, <3>2 DEF Claims, FailsGate
    <3>3. CASE CommitsGate(k) \/ Settles(k)
      BY <1>0, <2>2, <3>3 DEF CommitsGate, Settles, Gate
    <3>4. QED
      BY <1>2, <3>1, <3>2, <3>3, OneDocument
  <2>3. \A k \in Run : docs'[k].state # "ABSENT" /\ docs'[k].gate = 1 => docs'[k].attempt >= 1
    BY <1>0, <2>1, <2>2 DEF FirstClaims
  <2>4. ASSUME NEW j \in Run, NEW k \in Run, j < k, docs'[k].state # "ABSENT",
               docs'[j].state = "RUNNING", docs'[j].gate = 1
        PROVE  docs'[j].attempt >= 2
    <3>1. Opened(j) /\ Opened(k) /\ (docs[j].gate = 1 => docs[j].attempt >= 1)
      BY <2>1, <2>4 DEF FirstClaims
    <3>2. CASE docs'[j].attempt = docs[j].attempt + 1 /\ docs[j].gate = 1
      BY <1>0, <3>1, <3>2
    <3>3. CASE docs'[j].attempt = docs[j].attempt /\ docs[j].gate = 1 /\ docs[j].state = "RUNNING"
      BY <2>4, <3>1, <3>3 DEF FirstClaims
    <3>4. QED
      BY <2>2, <2>4, <3>1, <3>2, <3>3
  <2>5. \A j, k \in Run : j < k /\ docs'[k].state # "ABSENT" => docs'[j].state # "ABSENT"
    BY <2>1 DEF FirstClaims
  <2>6. QED
    BY <2>3, <2>4, <2>5
<1>3. QED
  BY <1>1, <1>2

\* Who may still settle, and did not move, holds the same claim as before.
LEMMA ClaimKept ==
  ASSUME PollerInv, [Next]_vars, NEW o \in Owner, worker'[o] = worker[o], worker[o].pc # "idle",
         MaySettle(o)'
  PROVE  MaySettle(o) /\ docs'[worker[o].run].attempt = docs[worker[o].run].attempt
<1> DEFINE k == worker[o].run
<1>0. /\ k \in Run /\ Opened(k) /\ docs[k] \in Doc /\ worker[o].gate \in Gate
      /\ docs'[k].state # "SUPERSEDED" /\ docs'[k].gate = worker[o].gate
      /\ docs'[k].gateState = "RUNNING" /\ docs'[k].holder = o
  BY DEF PollerInv, TypeInv, WorkersInv, Workers, Sound, ShadowInv, MaySettle, Holds
<1> HIDE DEF k
<1>1. ASSUME NEW live, docs'[k] = [docs[k] EXCEPT !.live = live]
      PROVE  MaySettle(o) /\ docs'[k].attempt = docs[k].attempt
  BY <1>0, <1>1 DEF MaySettle, Holds, Doc, k
<1>2. CASE \A j \in Run : ~Opening(j)
  <2>1. ~Claims(k)
    BY <1>0 DEF Claims
  <2>2. ~(FailsGate(k) \/ CommitsGate(k) \/ Settles(k))
    BY <1>0 DEF FailsGate, CommitsGate, Settles, Gate
  <2>3. KeepsLease(k)
    BY <1>0, <1>2, <2>1, <2>2, OneDocument
  <2>4. QED
    BY <1>1, <2>3 DEF KeepsLease, k
<1>3. ASSUME NEW m \in Run, Opening(m)
      PROVE  MaySettle(o) /\ docs'[k].attempt = docs[k].attempt
  <2>1. k # m
    BY <1>0, <1>3 DEF Opening, OpensRun
  <2>2. ~Supersedes(k)
    BY <1>0 DEF Supersedes, Doc
  <2>3. docs'[k] = docs[k]
    BY <1>0, <1>3, <2>1, <2>2 DEF Opening
  <2>4. QED
    BY <1>0, <2>3 DEF MaySettle, Holds, k
<1>4. QED
  BY <1>2, <1>3 DEF k

LEMMA FirstClaimsStep == ASSUME PollerInv, FirstClaims, [Next]_vars PROVE FirstClaims'
<1>1. ASSUME NEW o \in Owner, worker'[o].pc \in {"purge", "reset"}, MaySettle(o)'
      PROVE  docs'[worker'[o].run].attempt <= 1
  <2>0. worker \in [Owner -> Workers] /\ worker[o] \in Workers
    BY DEF PollerInv, TypeInv, WorkersInv
  <2>1. CASE worker'[o] = worker[o]
    BY <1>1, <2>1, ClaimKept DEF FirstClaims
  <2>2. CASE RunGate(o) \/ Crash(o) \/ TaskRetry(o)
    <3>1. worker'[o].pc \notin Off \union Loop \union Ending \union {"seed", "renew"}
      BY <1>1 DEF Off, Loop, Ending
    <3>2. \/ LoadRun(o) /\ Holds(o) /\ docs[worker[o].run].attempt <= 1
          \/ Purge(o)
      BY <1>1, <2>2, <3>1, WorkerSteps DEF PollerInv, Loop, Ending
    <3>3. CASE LoadRun(o) /\ Holds(o) /\ docs[worker[o].run].attempt <= 1
      <4>1. worker'[o].run = worker[o].run /\ docs' = docs
        BY <2>0, <3>3 DEF LoadRun, Workers
      <4>2. QED
        BY <3>3, <4>1
    <3>4. CASE Purge(o)
      <4>1. /\ worker'[o].run = worker[o].run /\ worker'[o].gate = worker[o].gate
            /\ docs' = docs /\ worker[o].pc = "purge"
        BY <2>0, <3>4 DEF Purge, Goto, Workers
      <4>2. MaySettle(o)
        BY <1>1, <4>1 DEF MaySettle, Holds
      <4>3. QED
        BY <4>1, <4>2 DEF FirstClaims
    <3>5. QED
      BY <3>2, <3>3, <3>4
  <2>3. QED
    BY <1>1, <2>1, <2>2, WhoMoves DEF PollerInv
<1>2. QED
  BY <1>1, ClaimsInOrder DEF FirstClaims, Opened

LEMMA SeededFirstStep == ASSUME PollerInv, SeededFirst, [Next]_vars PROVE SeededFirst'
<1>0. AllSeeded => AllSeeded'
  BY SeededKept DEF PollerInv, AllSeeded
<1>1. ASSUME NEW k \in Run, docs'[k].gate > 1 PROVE AllSeeded'
  <2>0. docs[k] \in Doc /\ docs[k].gate \in 1..5
    BY DEF PollerInv, TypeInv, Doc
  <2>1. ASSUME docs'[k].gate = docs[k].gate PROVE AllSeeded'
    BY <1>0, <1>1, <2>1 DEF SeededFirst
  <2>2. ASSUME NEW m \in Run, Opening(m) PROVE AllSeeded'
    <3>1. k # m
      BY <1>1, <2>2 DEF Opening, OpensRun
    <3>2. docs'[k].gate = docs[k].gate
      BY <2>0, <2>2, <3>1 DEF Opening, Supersedes, Doc
    <3>3. QED
      BY <2>1, <3>2
  <2>3. CASE \A m \in Run : ~Opening(m)
    <3>1. CASE CommitsGate(k)
      BY <1>0, <3>1 DEF CommitsGate, SeededFirst, Loop
    <3>2. CASE KeepsLease(k)
      BY <2>0, <2>1, <3>2 DEF KeepsLease, Doc
    <3>3. CASE Claims(k) \/ FailsGate(k) \/ Settles(k)
      BY <2>1, <3>3 DEF Claims, FailsGate, Settles
    <3>4. QED
      BY <2>3, <3>1, <3>2, <3>3, OneDocument
  <2>4. QED
    BY <2>2, <2>3
<1>2. ASSUME NEW o \in Owner, worker'[o].pc \in Loop PROVE AllSeeded'
  <2>0. worker[o] \in Workers
    BY DEF PollerInv, TypeInv, WorkersInv
  <2>1. CASE worker[o].pc \in Loop
    BY <1>0, <2>1 DEF SeededFirst
  <2>2. CASE worker[o].pc \notin Loop /\ (RunGate(o) \/ Crash(o) \/ TaskRetry(o))
    <3>1. worker'[o].pc \notin Off \union Setup \union Ending
      BY <1>2 DEF Loop, Off, Setup, Ending
    <3>2. \/ LoadRun(o) /\ Holds(o) /\ worker[o].gate > 1
          \/ Seed(o)
      BY <2>2, <3>1, WorkerSteps DEF PollerInv, Ending, Setup
    <3>3. CASE LoadRun(o) /\ Holds(o) /\ worker[o].gate > 1
      <4>1. worker[o].run \in Run
        BY <3>3 DEF LoadRun, PollerInv, TypeInv, WorkersInv, Sound
      <4>2. docs[worker[o].run].gate > 1
        BY <3>3 DEF Holds
      <4>3. QED
        BY <1>0, <4>1, <4>2 DEF SeededFirst
    <3>4. CASE Seed(o)
      BY <3>4 DEF Seed, HeadOfCascade, AllSeeded
    <3>5. QED
      BY <3>2, <3>3, <3>4
  <2>3. QED
    BY <1>2, <2>1, <2>2, WhoMoves DEF PollerInv, Loop
<1>3. QED
  BY <1>1, <1>2 DEF SeededFirst

\* Behind the last gate of the run opened last nobody resets in his own right.
LEMMA NobodyResets ==
  ASSUME PollerInv, FirstClaims, Sourced, NEW k \in Run, Opened(k), docs[k].gate = 5, Latest(k),
         NEW o \in Owner, Reset(o), MaySettle(o)
  PROVE  FALSE
<1> DEFINE j == worker[o].run
<1>1. /\ j \in Run /\ Opened(j) /\ worker[o].pc = "reset" /\ worker[o].gate = 1
      /\ docs[j].gate = 1 /\ docs[j].gateState = "RUNNING" /\ docs[j].state # "SUPERSEDED"
  BY DEF Reset, MaySettle, Holds, PollerInv, TypeInv, WorkersInv, Sound, ShadowInv, Sourced, Setup
<1>2. docs[j].state = "RUNNING" /\ docs[j].attempt <= 1 /\ docs[j].attempt \in Nat
  BY <1>1 DEF PollerInv, DocumentInv, UnderWay, FirstClaims, TypeInv, Doc
<1>3. ~(j < k)
  BY <1>1, <1>2 DEF FirstClaims
<1>4. ~(j > k)
  BY <1>1 DEF Latest
<1>5. j = k
  BY <1>1, <1>3, <1>4 DEF Run
<1>6. QED
  BY <1>1, <1>5

LEMMA DrainedStays ==
  ASSUME PollerInv, FirstClaims, SeededFirst, Sourced, [Next]_vars,
         \A o \in Owner : Reset(o) => MaySettle(o),
         NEW k \in Run, Opened(k), docs[k].gate = 5, Latest(k), Drained
  PROVE  Drained'
<1> SUFFICES ASSUME NEW p \in Pair PROVE rows'[p].gate = Left
  BY DEF Drained
<1>0. /\ rows[p] \in Row /\ rows[p].gate = Left /\ rows[p].seeded
      /\ \A o \in Owner : worker[o].gate \in Gate
  BY DEF PollerInv, TypeInv, Drained, WorkersInv, Workers, SeededFirst, AllSeeded
<1>1. CASE Leased(rows[p], rows'[p])
  BY <1>0, <1>1 DEF Leased, Row
<1>2. ASSUME NEW o \in Owner, Reset(o) PROVE FALSE
  BY <1>2, NobodyResets
<1>3. ASSUME NEW o \in Owner, Seed(o) PROVE rows'[p].gate = Left
  BY <1>0, <1>3 DEF Seed
<1>4. ASSUME NEW o \in Owner, Moved(o, p) PROVE FALSE
  BY <1>0, <1>4 DEF Moved, StillOwned, Gate, Left
<1>5. QED
  BY <1>1, <1>2, <1>3, <1>4, RowSteps DEF PollerInv

LEMMA DrainedAtTheEndStep ==
  ASSUME PollerInv, FirstClaims, SeededFirst, Sourced, DrainedAtTheEnd, [Next]_vars,
         \A o \in Owner : Reset(o) => MaySettle(o)
  PROVE  DrainedAtTheEnd'
<1>1. ASSUME NEW o \in Owner, worker[o].pc = "reconciled"
      PROVE  /\ worker[o].run \in Run /\ Opened(worker[o].run)
             /\ docs[worker[o].run].gate = 5
  BY <1>1 DEF PollerInv, TypeInv, WorkersInv, Sound, ShadowInv, DocumentInv, AtTheEnd, Ending
<1>2. ASSUME NEW o \in Owner, worker'[o].pc = "reconciled", Latest(worker[o].run)'
      PROVE  Drained'
  <2>0. worker \in [Owner -> Workers] /\ worker[o] \in Workers
    BY DEF PollerInv, TypeInv, WorkersInv
  <2>1. CASE worker'[o] = worker[o]
    <3>1. /\ worker[o].run \in Run /\ Opened(worker[o].run)
          /\ docs[worker[o].run].gate = 5
      BY <1>1, <1>2, <2>1
    <3>2. Latest(worker[o].run)
      BY <1>2, <2>1, <3>1, OpenedKept DEF Latest, Opened
    <3>3. Drained
      BY <1>2, <2>1, <3>2 DEF DrainedAtTheEnd
    <3>4. QED
      BY <3>1, <3>2, <3>3, DrainedStays
  <2>2. CASE RunGate(o) \/ Crash(o) \/ TaskRetry(o)
    <3>1. TallyRows(o)
      BY <1>2, <2>2, WorkerSteps DEF PollerInv, Off, Setup, Loop
    <3>2. Reconciles /\ rows' = rows
      BY <1>2, <2>0, <3>1 DEF TallyRows, Goto, Workers
    <3>3. /\ worker[o].run \in Run /\ docs[worker[o].run].gate = 5
      BY <3>1 DEF TallyRows, PollerInv, TypeInv, WorkersInv, Sound, DocumentInv, AtTheEnd, Ending
    <3>4. AllSeeded
      BY <3>3 DEF SeededFirst
    <3>5. QED
      BY <3>2, <3>4 DEF Reconciles, AllSeeded, Drained
  <2>3. QED
    BY <1>2, <2>1, <2>2, WhoMoves DEF PollerInv
<1>3. ASSUME NEW k \in Run, docs'[k].state = "SUCCEEDED"
      PROVE  docs'[k].gate = 5 /\ (Latest(k)' => Drained')
  <2>0. docs[k] \in Doc
    BY DEF PollerInv, TypeInv
  <2>1. \/ docs[k].state = "SUCCEEDED"
        \/ docs[k].gate = 5 /\ \E o \in Owner : worker[o].pc = "reconciled" /\ worker[o].run = k
    <3>1. ASSUME NEW m \in Run, Opening(m) PROVE docs[k].state = "SUCCEEDED"
      <4>1. k # m
        BY <1>3, <3>1 DEF Opening, OpensRun
      <4>2. QED
        BY <1>3, <2>0, <3>1, <4>1 DEF Opening, Supersedes, Doc
    <3>2. CASE \A m \in Run : ~Opening(m)
      <4>1. CASE KeepsLease(k)
        BY <1>3, <2>0, <4>1 DEF KeepsLease, Doc
      <4>2. CASE Claims(k) \/ FailsGate(k) \/ CommitsGate(k) \/ Settles(k)
        BY <1>3, <4>2 DEF Claims, FailsGate, CommitsGate, Settles
      <4>3. QED
        BY <3>2, <4>1, <4>2, OneDocument
    <3>3. QED
      BY <3>1, <3>2
  <2>2. docs[k].gate = 5 /\ Opened(k) /\ (Latest(k) => Drained)
    BY <1>1, <2>1 DEF DrainedAtTheEnd, Opened
  <2>3. docs'[k].gate = 5
    BY <2>2, LastGateKept
  <2>4. Latest(k)' => Drained'
    BY <2>2, LatestBack, DrainedStays
  <2>5. QED
    BY <2>3, <2>4
<1>4. QED
  BY <1>2, <1>3 DEF DrainedAtTheEnd

LEMMA LatestInit == Init => FirstClaims /\ SeededFirst /\ Sourced /\ DrainedAtTheEnd
<1> SUFFICES ASSUME Init PROVE FirstClaims /\ SeededFirst /\ Sourced /\ DrainedAtTheEnd
  OBVIOUS
<1>1. /\ \A k \in Run : docs[k].state = "ABSENT" /\ docs[k].gate = 1
      /\ \A o \in Owner : worker[o].pc = "idle"
  BY DEF Init, AbsentDoc, IdleWorker
<1>2. FirstClaims
  BY <1>1 DEF FirstClaims, Opened
<1>3. SeededFirst
  BY <1>1 DEF SeededFirst, Loop
<1>4. DrainedAtTheEnd
  BY <1>1 DEF DrainedAtTheEnd
<1>5. QED
  BY <1>2, <1>3, <1>4, DurableInit DEF DurableInv

EndInv == PollerInv /\ FirstClaims /\ SeededFirst /\ Sourced /\ DrainedAtTheEnd

LEMMA EndStep ==
  EndInv /\ [Next]_vars /\ [\A o \in Owner : Reset(o) => MaySettle(o)]_vars => EndInv'
<1> SUFFICES ASSUME EndInv, [Next]_vars, [\A o \in Owner : Reset(o) => MaySettle(o)]_vars
             PROVE  EndInv'
  OBVIOUS
<1>1. PollerInv' /\ FirstClaims' /\ SeededFirst' /\ Sourced'
  BY PollerStep, FirstClaimsStep, SeededFirstStep, SourcedStep DEF EndInv, PollerInv
<1>2. CASE \A o \in Owner : Reset(o) => MaySettle(o)
  BY <1>1, <1>2, DrainedAtTheEndStep DEF EndInv
<1>3. CASE UNCHANGED vars
  BY <1>1, <1>3 DEF EndInv, DrainedAtTheEnd, Latest, Opened, Drained, vars
<1>4. QED
  BY <1>2, <1>3

(***************************************************************************)
(* A run that SUCCEEDED, and none newer, left no pair behind: whichever    *)
(* workers stand still, crash, overlap or belong to a superseded run, if   *)
(* none of them resets the queue after its gate was taken from it          *)
(* (worker/finalize.py; gates/g1.py run_g1 resets without looking).        *)
(***************************************************************************)
THEOREM LatestDrainedCorrect == Spec /\ ResetsHeld => []LatestDrained
<1>1. Init => EndInv
  BY PollerInit, LatestInit DEF EndInv
<1>2. EndInv => LatestDrained
  BY DEF EndInv, SeededFirst, AllSeeded, DrainedAtTheEnd, Drained, LatestDrained
<1>3. QED
  BY <1>1, <1>2, EndStep, PTL DEF Spec, ResetsHeld

-----------------------------------------------------------------------------
(***************************************************************************)
(* The budget, whatever stragglers do.  Each execution of the tail counts  *)
(* once what is settled, when it starts; whoever runs beside it counts the *)
(* same pairs.  So every worker can settle the whole cap, and no more.     *)
(***************************************************************************)
AtTheTail(o) == Busy(o) /\ worker[o].gate = 4

\* The pairs an execution has paid for and is about to settle.
HandSize(w) == IF w.pc \in {"judged", "written"} THEN Cardinality(Answered(w)) ELSE 0
Used(w) == w.spent - HandSize(w)

PaidFor(w) == HandSize(w) <= w.spent /\ (HandSize(w) > 0 => w.spent <= MaxLlmPairs)
HandsPaid == MaxLlmPairs > 0 => \A o \in Owner : AtTheTail(o) => PaidFor(worker[o])

\* The calls the executions may still make, and those that are not settled yet.
Places == Owner \X (1..MaxLlmPairs)
Tokens == {t \in Places : AtTheTail(t[1]) /\ t[2] > Used(worker[t[1]])}

TokensInv ==
  /\ HandsPaid
  /\ MaxLlmPairs > 0 => Settled + Cardinality(Tokens) <= MaxLlmPairs * Cardinality(Owner)

CapPerWorker == MaxLlmPairs > 0 => Settled <= MaxLlmPairs * Cardinality(Owner)

LEMMA HandSizeType ==
  \A w \in Workers : HandSize(w) \in Nat /\ w.spent \in Nat /\ Used(w) \in Int
<1> SUFFICES ASSUME NEW w \in Workers
             PROVE  HandSize(w) \in Nat /\ w.spent \in Nat /\ Used(w) \in Int
  OBVIOUS
<1>1. Answered(w) \in SUBSET Pair /\ w.spent \in Nat
  BY DEF Answered, Workers
<1>2. QED
  BY <1>1, CountType DEF HandSize, Used

LEMMA PlacesFinite ==
  ASSUME IsFiniteSet(Owner)
  PROVE  /\ IsFiniteSet(Places) /\ Cardinality(Owner) \in Nat
         /\ Cardinality(Places) = MaxLlmPairs * Cardinality(Owner)
<1>1. IsFiniteSet(1..MaxLlmPairs) /\ Cardinality(1..MaxLlmPairs) = MaxLlmPairs
  BY FS_Interval, SizesAssumption
<1>2. Cardinality(Owner) \in Nat
  BY FS_CardinalityType
<1>3. Cardinality(Places) = Cardinality(Owner) * Cardinality(1..MaxLlmPairs) /\ IsFiniteSet(Places)
  BY <1>1, FS_Product DEF Places
<1>4. QED
  BY <1>1, <1>2, <1>3, SizesAssumption

\* The places of one worker above a count, and those of all the others.
LEMMA PlacesOfOne ==
  ASSUME NEW o \in Owner, NEW a \in Nat, NEW b \in Nat, a <= b, b <= MaxLlmPairs
  PROVE  /\ {o} \X ((a + 1)..b) \in SUBSET Places
         /\ IsFiniteSet({o} \X ((a + 1)..b)) /\ Cardinality({o} \X ((a + 1)..b)) = b - a
<1>1. IsFiniteSet((a + 1)..b) /\ Cardinality((a + 1)..b) = b - a
  <2>1. a + 1 \in Int /\ b \in Int
    OBVIOUS
  <2>2. IsFiniteSet((a + 1)..b) /\ Cardinality((a + 1)..b) = IF a + 1 > b THEN 0 ELSE b - (a + 1) + 1
    BY <2>1, FS_Interval
  <2>3. QED
    BY <2>2
<1>2. IsFiniteSet({o}) /\ Cardinality({o}) = 1
  BY FS_Singleton
<1>3. /\ IsFiniteSet({o} \X ((a + 1)..b))
      /\ Cardinality({o} \X ((a + 1)..b)) = 1 * Cardinality((a + 1)..b)
  BY <1>1, <1>2, FS_Product
<1>4. (a + 1)..b \subseteq 1..MaxLlmPairs
  BY SizesAssumption
<1>5. QED
  BY <1>1, <1>3, <1>4 DEF Places

LEMMA PlacesOfOthers ==
  ASSUME IsFiniteSet(Owner), NEW o \in Owner
  PROVE  /\ IsFiniteSet((Owner \ {o}) \X (1..MaxLlmPairs))
         /\ Cardinality((Owner \ {o}) \X (1..MaxLlmPairs)) + MaxLlmPairs
              = MaxLlmPairs * Cardinality(Owner)
<1> DEFINE R == Owner \ {o}
<1>1. IsFiniteSet(R) /\ Cardinality(R) = Cardinality(Owner) - 1
  BY FS_RemoveElement
<1>2. IsFiniteSet(1..MaxLlmPairs) /\ Cardinality(1..MaxLlmPairs) = MaxLlmPairs
  BY FS_Interval, SizesAssumption
<1>3. IsFiniteSet(R \X (1..MaxLlmPairs)) /\ Cardinality(R \X (1..MaxLlmPairs)) = Cardinality(R) * MaxLlmPairs
  BY <1>1, <1>2, FS_Product
<1>4. Cardinality(R) \in Nat /\ Cardinality(Owner) \in Nat
  BY <1>1, FS_CardinalityType
<1> DEFINE r == Cardinality(R)
           n == Cardinality(Owner)
           m == MaxLlmPairs
<1>5. r * m + m = m * n
  <2>1. r \in Int /\ m \in Int /\ n = r + 1
    BY <1>1, <1>4, SizesAssumption
  <2> HIDE DEF r, n, m
  <2>2. QED
    BY <2>1
<1>6. QED
  BY <1>3, <1>5

\* What an execution of the tail does to the budget it holds.
LEMMA TailMoves ==
  ASSUME TypeInv, CascadeInv, HandsPaid, MaxLlmPairs > 0, NEW x \in Owner,
         RunGate(x) \/ Crash(x) \/ TaskRetry(x), AtTheTail(x)'
  PROVE  \/ /\ LoadRun(x) /\ worker[x].pc = "launched" /\ worker'[x].pc = "renew"
            /\ worker'[x].spent = Settled
         \/ /\ AtTheTail(x) /\ PaidFor(worker'[x]) /\ Used(worker[x]) <= Used(worker'[x])
            /\ Route(x) => Used(worker'[x]) = Used(worker[x]) + HandSize(worker[x])
<1>0. /\ worker \in [Owner -> Workers] /\ worker[x] \in Workers /\ MaxLlmPairs \in Nat
      /\ HandSize(worker[x]) \in Nat /\ worker[x].spent \in Nat
  BY HandSizeType, SizesAssumption DEF TypeInv, WorkersInv
<1>1. worker'[x].gate = 4 /\ worker'[x].pc \notin Off \union Ending
  BY DEF AtTheTail, Busy, Off, Setup, Loop, Ending
<1>2. worker[x].gate = 4
  BY <1>1, WorkerSteps
<1>3. Busy(x) => AtTheTail(x) /\ PaidFor(worker[x])
  BY <1>2 DEF AtTheTail, HandsPaid
<1>4. CASE LoadRun(x)
  <2>1. Holds(x)
    BY <1>1, <1>4, LetGo DEF LoadRun
  <2>2. worker[x].pc = "launched" /\ worker'[x].spent = Settled /\ worker'[x].pc = "renew"
    BY <1>0, <1>2, <1>4, <2>1 DEF LoadRun, Workers
  <2>3. QED
    BY <1>4, <2>2
<1>5. ASSUME Busy(x), HandSize(worker[x]) = 0, worker'[x].spent = worker[x].spent,
             worker'[x].pc \notin {"judged", "written"}, ~Route(x)
      PROVE  /\ AtTheTail(x) /\ PaidFor(worker'[x]) /\ Used(worker[x]) <= Used(worker'[x])
             /\ Route(x) => Used(worker'[x]) = Used(worker[x]) + HandSize(worker[x])
  <2>1. HandSize(worker'[x]) = 0
    BY <1>5 DEF HandSize
  <2>2. QED
    BY <1>0, <1>3, <1>5, <2>1 DEF PaidFor, Used
<1>6. CASE Purge(x) \/ Reset(x) \/ Seed(x) \/ Renew(x)
  <2>1. PICK pc \in {"reset", "seed", "renew", "lease", "settle"} : Goto(x, pc)
    BY <1>6 DEF Purge, Reset, Seed, Renew
  <2>2. worker'[x].spent = worker[x].spent /\ worker'[x].pc = pc
    BY <1>0, <2>1 DEF Goto, Workers
  <2>3. Busy(x) /\ HandSize(worker[x]) = 0 /\ ~Route(x)
    BY <1>6 DEF Purge, Reset, Seed, Renew, Busy, Setup, Loop, HandSize, Route
  <2>4. QED
    BY <1>5, <2>2, <2>3
<1>7. CASE LeaseBatch(x)
  <2>1. worker'[x].spent = worker[x].spent /\ worker'[x].pc \in {"settle", "batch"}
    BY <1>0, <1>7 DEF LeaseBatch, Workers
  <2>2. Busy(x) /\ HandSize(worker[x]) = 0 /\ ~Route(x)
    BY <1>7 DEF LeaseBatch, Busy, Loop, HandSize, Route
  <2>3. QED
    BY <1>5, <2>1, <2>2
<1>8. CASE JudgeTail(x)
  <2>1. PICK f \in [worker[x].batch -> TailOutcomes], n \in Nat :
           /\ InShadow(x) => n = 0 /\ \A p \in worker[x].batch : f[p] = Tailed(None, None)
           /\ Cardinality({p \in worker[x].batch : f[p].decidedBy = "GK_G4_LLM"}) <= n
           /\ MaxLlmPairs > 0 => n = 0 \/ worker[x].spent + n <= MaxLlmPairs
           /\ worker' = [worker EXCEPT ![x].pc = "judged", ![x].flagged = {},
                                       ![x].spent = @ + n, ![x].outcome = f]
           /\ calls' = [calls EXCEPT ![worker[x].run] = @ + n]
    BY <1>8, JudgeTailEffect
  <2>2. /\ worker'[x].pc = "judged" /\ worker'[x].spent = worker[x].spent + n
        /\ worker'[x].batch = worker[x].batch /\ worker'[x].outcome = f
    BY <1>0, <2>1 DEF Workers
  <2>3. Answered(worker'[x]) = {p \in worker[x].batch : f[p].decidedBy = "GK_G4_LLM"}
    BY <2>2 DEF Answered
  <2>4. Answered(worker'[x]) \in SUBSET Pair
    BY <1>0, <2>3 DEF Workers
  <2>5. HandSize(worker'[x]) = Cardinality(Answered(worker'[x]))
    BY <2>2 DEF HandSize
  <2>6. HandSize(worker'[x]) \in Nat /\ HandSize(worker'[x]) <= n
    BY <2>1, <2>3, <2>4, <2>5, CountType
  <2>7. Busy(x) /\ HandSize(worker[x]) = 0 /\ ~Route(x)
    BY <1>8 DEF JudgeTail, Busy, Loop, HandSize, Route
  <2>8. PaidFor(worker'[x]) /\ Used(worker[x]) <= Used(worker'[x])
    BY <1>0, <2>1, <2>2, <2>6, <2>7 DEF PaidFor, Used
  <2>9. QED
    BY <1>3, <2>7, <2>8
<1>9. CASE WriteEdges(x)
  <2>1. /\ worker'[x].pc = "written" /\ worker'[x].spent = worker[x].spent
        /\ worker'[x].batch = worker[x].batch /\ worker'[x].outcome = worker[x].outcome
    BY <1>0, <1>9 DEF WriteEdges, Goto, Workers
  <2>2. worker[x].pc = "judged" /\ Busy(x) /\ ~Route(x)
    BY <1>9 DEF WriteEdges, Busy, Loop, Route
  <2>3. HandSize(worker'[x]) = HandSize(worker[x])
    BY <2>1, <2>2 DEF HandSize, Answered
  <2>4. QED
    BY <1>0, <1>3, <2>1, <2>2, <2>3 DEF PaidFor, Used
<1>10. CASE Route(x)
  <2>1. /\ worker[x].pc = "written" /\ worker'[x].pc = "renew" /\ worker'[x].spent = worker[x].spent
    BY <1>0, <1>10 DEF Route, Workers
  <2>2. Busy(x) /\ HandSize(worker'[x]) = 0
    BY <2>1 DEF Busy, Loop, HandSize
  <2>3. QED
    BY <1>0, <1>3, <2>1, <2>2 DEF PaidFor, Used
<1>11. CASE PassThrough(x) \/ JudgeEncoder(x)
  BY <1>2, <1>11 DEF PassThrough, JudgeEncoder
<1>12. CASE FailGate(x) \/ CommitRefused(x) \/ Finalize(x) \/ Crash(x)
  BY <1>1, <1>12, LetGo DEF FailGate, CommitRefused, Finalize, Crash
<1>13. CASE CommitGate(x)
  <2>1. ASSUME Goto(x, "finalize") PROVE FALSE
    BY <1>0, <1>1, <2>1 DEF Goto, Ending, Workers
  <2>2. QED
    BY <1>1, <1>13, <2>1, LetGo DEF CommitGate
<1>14. CASE TallyRows(x)
  BY <1>0, <1>1, <1>14 DEF TallyRows, Goto, Ending, Workers
<1>15. CASE TaskRetry(x)
  BY <1>0, <1>1, <1>15 DEF TaskRetry, Off, Workers
<1>16. QED
  BY <1>4, <1>6, <1>7, <1>8, <1>9, <1>10, <1>11, <1>12, <1>13, <1>14, <1>15 DEF RunGate

\* Nobody else moves.
LEMMA TailMoments ==
  ASSUME TypeInv, CascadeInv, HandsPaid, MaxLlmPairs > 0, [Next]_vars, NEW x \in Owner, AtTheTail(x)'
  PROVE  \/ AtTheTail(x) /\ worker'[x] = worker[x]
         \/ /\ LoadRun(x) /\ worker[x].pc = "launched" /\ worker'[x].pc = "renew"
            /\ worker'[x].spent = Settled
         \/ /\ AtTheTail(x) /\ PaidFor(worker'[x]) /\ Used(worker[x]) <= Used(worker'[x])
            /\ Route(x) => Used(worker'[x]) = Used(worker[x]) + HandSize(worker[x])
<1>1. worker'[x].pc # "launched"
  BY DEF AtTheTail, Busy, Setup, Loop
<1>2. worker'[x] = worker[x] => AtTheTail(x)
  BY DEF AtTheTail, Busy
<1>3. QED
  BY <1>1, <1>2, TailMoves, WhoMoves

LEMMA HandsPaidStep ==
  ASSUME TypeInv, CascadeInv, HandsPaid, [Next]_vars
  PROVE  HandsPaid'
<1> SUFFICES ASSUME MaxLlmPairs > 0, NEW x \in Owner, AtTheTail(x)' PROVE PaidFor(worker'[x])
  BY DEF HandsPaid
<1>1. CASE worker'[x].pc = "renew" /\ worker'[x].spent = Settled
  <2>1. HandSize(worker'[x]) = 0 /\ worker'[x].spent \in Nat
    <3>1. Settled \in Nat
      <4>1. {p \in Pair : rows[p].seeded /\ rows[p].decidedBy = "GK_G4_LLM"} \in SUBSET Pair
        OBVIOUS
      <4>2. QED
        BY <4>1, CountType DEF Settled
    <3>2. QED
      BY <1>1, <3>1 DEF HandSize
  <2>2. QED
    BY <2>1 DEF PaidFor
<1>2. QED
  BY <1>1, TailMoments DEF HandsPaid

\* No execution starts, or moves what it answered on: then no place is won.
LEMMA TokensKept ==
  ASSUME TypeInv, CascadeInv, HandsPaid, MaxLlmPairs > 0, [Next]_vars,
         NEW t \in Tokens', ~LoadRun(t[1])
  PROVE  t \in Tokens
<1>1. t \in Places /\ t[1] \in Owner /\ t[2] \in Nat /\ AtTheTail(t[1])' /\ t[2] > Used(worker'[t[1]])
  BY SizesAssumption DEF Tokens, Places
<1> DEFINE x == t[1]
<1>2. AtTheTail(x) /\ (worker'[x] = worker[x] \/ Used(worker[x]) <= Used(worker'[x]))
  BY <1>1, TailMoments
<1>3. Used(worker[x]) \in Int /\ Used(worker'[x]) \in Int
  <2>1. TypeInv'
    BY TypeStep
  <2>2. worker[x] \in Workers /\ worker'[x] \in Workers
    BY <1>1, <2>1 DEF TypeInv, WorkersInv
  <2>3. QED
    BY <2>2, HandSizeType
<1>4. t[2] > Used(worker[x])
  BY <1>1, <1>2, <1>3
<1>5. QED
  BY <1>1, <1>2, <1>4 DEF Tokens

\* Only one worker moves.
LEMMA RouteAlone ==
  ASSUME TypeInv, NEW o \in Owner, Route(o)
  PROVE  /\ worker[o].pc = "written" /\ worker'[o].pc = "renew"
         /\ worker'[o].gate = worker[o].gate /\ worker'[o].spent = worker[o].spent
         /\ \A x \in Owner : x # o => worker'[x] = worker[x]
BY DEF Route, TypeInv, WorkersInv, Workers

\* A worker that loads its run is launched no more.
LEMMA LoadMoves ==
  ASSUME TypeInv, NEW x \in Owner, LoadRun(x)
  PROVE  worker[x].pc = "launched" /\ worker'[x].pc # "launched"
<1>1. worker[x].pc = "launched"
  BY DEF LoadRun
<1>2. RunGate(x) /\ ~TaskRetry(x)
  BY <1>1 DEF RunGate, TaskRetry
<1>3. QED
  BY <1>1, <1>2, WorkerSteps DEF Off, Setup, Loop

LEMMA TokensStep ==
  ASSUME IsFiniteSet(Owner), MaxLlmPairs > 0, TypeInv, CascadeInv, TokensInv, [Next]_vars
  PROVE  Settled' + Cardinality(Tokens') <= MaxLlmPairs * Cardinality(Owner)
<1> DEFINE all == MaxLlmPairs * Cardinality(Owner)
           T == Tokens
           U == {t \in Places : AtTheTail(t[1])' /\ t[2] > Used(worker'[t[1]])}
<1>0. /\ TypeInv /\ TypeInv' /\ HandsPaid
      /\ Settled \in Nat /\ Settled' \in Nat /\ MaxLlmPairs \in Nat /\ all \in Nat
      /\ Settled + Cardinality(T) <= all
  <2>1. TypeInv'
    BY TypeStep
  <2>2. Cardinality(Owner) \in Nat /\ MaxLlmPairs \in Nat
    BY PlacesFinite, SizesAssumption
  <2>3. all \in Nat
    BY <2>2
  <2>4. QED
    BY <2>1, <2>2, <2>3, SettledSteps DEF TokensInv
<1>1. /\ Tokens' = U /\ T \in SUBSET Places /\ U \in SUBSET Places
      /\ IsFiniteSet(T) /\ IsFiniteSet(U) /\ Cardinality(T) \in Nat /\ Cardinality(U) \in Nat
  <2>1. Tokens' = U /\ T \in SUBSET Places /\ U \in SUBSET Places
    BY DEF Tokens, Places
  <2>2. QED
    BY <2>1, PlacesFinite, FS_Subset, FS_CardinalityType
<1>2. \A t \in U : ~LoadRun(t[1]) => t \in T
  BY <1>0, <1>1, TokensKept
<1>2a. U \subseteq T => Cardinality(U) <= Cardinality(T)
  BY <1>1, FS_Subset
<1> SUFFICES Settled' + Cardinality(U) <= all
  BY <1>1
<1> HIDE DEF all, T, U
<1>3. ASSUME NEW o \in Owner, Route(o), worker[o].gate = 4,
             Settled' <= Settled + Cardinality(Answered(worker[o]))
      PROVE  Settled' + Cardinality(U) <= all
  <2>1. /\ worker[o].pc = "written" /\ worker'[o].pc = "renew" /\ worker'[o].gate = 4
        /\ worker'[o].spent = worker[o].spent /\ \A x \in Owner : x # o => worker'[x] = worker[x]
    BY <1>3, RouteAlone
  <2>1a. \A x \in Owner : ~LoadRun(x)
    BY <1>0, <2>1, LoadMoves
  <2> DEFINE h == HandSize(worker[o])
             s == worker[o].spent
             a == s - h
             H == {o} \X ((a + 1)..s)
  <2>2. h = Cardinality(Answered(worker[o])) /\ h \in Nat /\ s \in Nat
    <3>1. worker[o] \in Workers
      BY <1>0 DEF TypeInv, WorkersInv
    <3>2. QED
      BY <2>1, <3>1, HandSizeType DEF HandSize
  <2>3. AtTheTail(o) /\ h <= s /\ (h > 0 => s <= MaxLlmPairs)
    <3>1. AtTheTail(o)
      BY <1>3, <2>1 DEF AtTheTail, Busy, Loop
    <3>2. QED
      BY <1>0, <3>1 DEF HandsPaid, PaidFor
  <2>4. U \subseteq T
    BY <1>1, <1>2, <2>1a DEF Places
  <2>5. CASE h = 0
    BY <1>0, <1>1, <1>3, <1>2a, <2>2, <2>4, <2>5
  <2>6. CASE h > 0
    <3>1. s - h \in Nat /\ s <= MaxLlmPairs
      BY <2>2, <2>3, <2>6
    <3>2. H \in SUBSET Places /\ IsFiniteSet(H) /\ Cardinality(H) = h
      <4>1. a \in Nat /\ a <= s /\ s \in Nat /\ s <= MaxLlmPairs /\ s - a = h
        BY <2>2, <3>1
      <4>2. /\ {o} \X ((a + 1)..s) \in SUBSET Places
            /\ IsFiniteSet({o} \X ((a + 1)..s)) /\ Cardinality({o} \X ((a + 1)..s)) = s - a
        <5> HIDE DEF a, s
        <5>1. QED
          BY <4>1, PlacesOfOne
      <4>3. QED
        BY <4>1, <4>2
    <3>3. H \subseteq T
      <4>1. \A t \in H : t[1] = o /\ t[2] \in Nat /\ t[2] > s - h
        BY <2>2, <3>1
      <4>2. QED
        BY <2>3, <3>2, <4>1 DEF T, Tokens, Used
    <3>4. H \cap U = {}
      <4>1. Used(worker'[o]) = s
        BY <2>1, <2>2 DEF Used, HandSize
      <4>2. \A t \in H : t[1] = o /\ t[2] \in Nat /\ t[2] <= s
        BY <2>2, <3>1
      <4>3. QED
        BY <2>2, <4>1, <4>2 DEF U
    <3>5. Cardinality(H \union U) = h + Cardinality(U) /\ Cardinality(H \union U) <= Cardinality(T)
      <4>1. IsFiniteSet(H \union U) /\ Cardinality(H \union U) = Cardinality(H) + Cardinality(U) - Cardinality({})
        BY <1>1, <3>2, <3>4, FS_Union
      <4>2. Cardinality({}) = 0
        BY FS_EmptySet
      <4>3. Cardinality(H \union U) <= Cardinality(T)
        BY <1>1, <2>4, <3>3, FS_Subset
      <4>4. QED
        BY <1>1, <2>2, <3>2, <4>1, <4>2, <4>3
    <3>6. QED
      BY <1>0, <1>1, <1>3, <2>2, <3>5
  <2>7. QED
    BY <2>2, <2>5, <2>6
<1>4. CASE Settled' <= Settled
  <2>1. CASE \A x \in Owner : ~(LoadRun(x) /\ AtTheTail(x)')
    <3>1. U \subseteq T
      BY <1>1, <1>2, <2>1 DEF U, Places
    <3>2. QED
      BY <1>0, <1>1, <1>4, <1>2a, <3>1
  <2>2. ASSUME NEW o \in Owner, LoadRun(o), AtTheTail(o)' PROVE Settled' + Cardinality(U) <= all
    <3>1. worker[o].pc = "launched" /\ worker'[o].pc = "renew" /\ worker'[o].spent = Settled
      <4>1. worker[o].pc = "launched"
        BY <2>2, LoadMoves
      <4>2. ~AtTheTail(o)
        BY <4>1 DEF AtTheTail, Busy, Setup, Loop
      <4>3. QED
        BY <1>0, <2>2, <4>1, <4>2, TailMoments
    <3>2. Used(worker'[o]) = Settled
      BY <1>0, <3>1 DEF Used, HandSize
    <3>3. \A x \in Owner : LoadRun(x) => x = o
      <4>1. \A x \in Owner : x # o => worker'[x] = worker[x]
        BY <2>2, WorkerSteps DEF RunGate
      <4>2. QED
        BY <4>1, LoadMoves
    <3>4. CASE Settled >= MaxLlmPairs
      <4>1. \A t \in U : t[1] # o
        <5>1. ASSUME NEW t \in U, t[1] = o PROVE FALSE
          <6>1. t[2] \in 1..MaxLlmPairs /\ t[2] > Settled
            BY <3>2, <5>1 DEF U, Places
          <6>2. QED
            BY <1>0, <3>4, <6>1
        <5>2. QED
          BY <5>1
      <4>2. U \subseteq T
        BY <1>1, <1>2, <3>3, <4>1 DEF Places
      <4>3. QED
        BY <1>0, <1>1, <1>4, <1>2a, <4>2
    <3>5. CASE Settled < MaxLlmPairs
      <4> DEFINE R == (Owner \ {o}) \X (1..MaxLlmPairs)
                 N == {o} \X ((Settled + 1)..MaxLlmPairs)
      <4>1. IsFiniteSet(R) /\ Cardinality(R) + MaxLlmPairs = all
        <5>1. IsFiniteSet(R) /\ Cardinality(R) + MaxLlmPairs = MaxLlmPairs * Cardinality(Owner)
          BY PlacesOfOthers
        <5>2. QED
          BY <5>1 DEF all
      <4>2. IsFiniteSet(N) /\ Cardinality(N) = MaxLlmPairs - Settled
        BY <1>0, <3>5, PlacesOfOne
      <4>3. U \subseteq R \union N
        <5> SUFFICES ASSUME NEW t \in U PROVE t \in R \union N
          OBVIOUS
        <5>1. t \in Owner \X (1..MaxLlmPairs)
          BY <1>1 DEF Places
        <5>2. t[1] = o => t[2] > Settled
          BY <3>2 DEF U
        <5>3. PICK a \in Owner, b \in 1..MaxLlmPairs : t = <<a, b>>
          BY <5>1
        <5>4. CASE a = o
          BY <1>0, <5>2, <5>3, <5>4
        <5>5. CASE a # o
          BY <5>3, <5>5
        <5>6. QED
          BY <5>4, <5>5
      <4>4. /\ IsFiniteSet(R \union N)
            /\ Cardinality(R \union N) = Cardinality(R) + Cardinality(N) - Cardinality(R \cap N)
        BY <4>1, <4>2, FS_Union
      <4>5. Cardinality(R \cap N) \in Nat /\ Cardinality(R) \in Nat
        BY <4>1, FS_Intersection, FS_CardinalityType
      <4>6. Cardinality(U) <= Cardinality(R \union N)
        BY <4>3, <4>4, FS_Subset
      <4> HIDE DEF R, N
      <4>7. QED
        BY <1>0, <1>1, <1>4, <3>5, <4>1, <4>2, <4>4, <4>5, <4>6
    <3>6. QED
      BY <1>0, <3>4, <3>5
  <2>3. QED
    BY <2>1, <2>2
<1>5. QED
  BY <1>0, <1>1, <1>3, <1>4, SettledSteps DEF all

LEMMA TokensInit == ASSUME IsFiniteSet(Owner), Init PROVE TokensInv
<1>1. \A o \in Owner : ~AtTheTail(o)
  BY DEF Init, IdleWorker, AtTheTail, Busy, Setup, Loop
<1>2. Tokens = {}
  BY <1>1 DEF Tokens, Places
<1>3. Unseeded.decidedBy # "GK_G4_LLM"
  BY NoneAssumption DEF Unseeded, HeadOfCascade, Method
<1>4. {p \in Pair : rows[p].seeded /\ rows[p].decidedBy = "GK_G4_LLM"} = {}
  BY <1>3 DEF Init
<1>5. Settled = 0 /\ Cardinality(Tokens) = 0
  BY <1>2, <1>4, FS_EmptySet DEF Settled
<1>6. MaxLlmPairs * Cardinality(Owner) \in Nat
  BY PlacesFinite, FS_CardinalityType
<1>7. QED
  BY <1>1, <1>5, <1>6 DEF TokensInv, HandsPaid

(***************************************************************************)
(* Whatever stragglers, superseded runs, crashes and task retries do, the  *)
(* tail model settles at most the cap for every worker there can be at     *)
(* once: the count a budget starts from is never taken again (gates/g4.py  *)
(* run_g4, count_decided_by), but a pair is settled by one worker only.    *)
(***************************************************************************)
THEOREM CapPerWorkerCorrect == IsFiniteSet(Owner) /\ Spec => []CapPerWorker
<1> SUFFICES ASSUME IsFiniteSet(Owner) PROVE Spec => []CapPerWorker
  OBVIOUS
<1> DEFINE I == TypeInv /\ CascadeInv /\ TokensInv
<1>1. Init => I
  BY TypeInit, CascadeInit, TokensInit
<1>2. I /\ [Next]_vars => I'
  <2> SUFFICES ASSUME I, [Next]_vars PROVE I'
    OBVIOUS
  <2>1. TypeInv' /\ CascadeInv'
    BY TypeStep, CascadeStep
  <2>2. TokensInv'
    BY HandsPaidStep, TokensStep DEF TokensInv
  <2>3. QED
    BY <2>1, <2>2
<1>3. I => CapPerWorker
  <2> SUFFICES ASSUME I, MaxLlmPairs > 0 PROVE Settled <= MaxLlmPairs * Cardinality(Owner)
    BY DEF CapPerWorker
  <2>1. Cardinality(Tokens) \in Nat
    <3>1. Tokens \in SUBSET Places
      BY DEF Tokens
    <3>2. QED
      BY <3>1, PlacesFinite, FS_Subset, FS_CardinalityType
  <2>2. Settled \in Nat
    <3>1. {p \in Pair : rows[p].seeded /\ rows[p].decidedBy = "GK_G4_LLM"} \in SUBSET Pair
      OBVIOUS
    <3>2. QED
      BY <3>1, CountType DEF Settled
  <2>3. MaxLlmPairs * Cardinality(Owner) \in Nat
    BY PlacesFinite, SizesAssumption
  <2>4. QED
    BY <2>1, <2>2, <2>3 DEF TokensInv
<1>4. QED
  BY <1>1, <1>2, <1>3, PTL DEF Spec
=============================================================================
