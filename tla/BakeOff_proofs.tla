---------------------------- MODULE BakeOff_proofs ----------------------------
(***************************************************************************)
(* Proofs about BakeOff, for any rosters, collections, limits, grids and   *)
(* number of exports, mirrors and runs.                                    *)
(*                                                                         *)
(* What a run reports rests on the score cache: whatever is read from it   *)
(* or computed for it has the ids of the records of this run, and only     *)
(* this run writes to it.  What a run has paid for is on disk and fits its *)
(* records, but for the one pass whose file is being written.              *)
(*                                                                         *)
(* What it adopts rests on the order of the candidates: over the same      *)
(* pairs the sort key is two counts, so of those that pass there is a      *)
(* best, and the best of the rosters' best cells is the best of all.       *)
(*                                                                         *)
(* What it reports adds up because every text is one of the sources' and   *)
(* every score a release's own: then a pair is sent somewhere and a        *)
(* confidence is a probability, whose bin is its floor.  The bound on the  *)
(* calibration error is a fact about sums over parts of a finite set.      *)
(***************************************************************************)
EXTENDS BakeOff, SequenceTheorems, FiniteSetTheorems, WellFoundedInduction, TLAPS

Scoring == {"read", "write", "report"}
Idle == {"idle", "done", "died", "refused"}

IsSeq(s) == s \in Seq({s[i] : i \in DOMAIN s})

-----------------------------------------------------------------------------
(* The inductive invariant.                                                *)

TypeInv ==
  /\ pc \in Scoring \union Idle \union {"archive"}
  /\ roster \in 1..Len(Rosters)
  /\ pc \in {"read", "write"} => pass \in Slots
  /\ paid \in [Passes -> Nat]
  /\ IsSeq(scores) /\ IsSeq(reports)

\* The scores of this roster so far, and those in hand, are of this run's pairs.
ScoredOverTheCorpus ==
  /\ pc \in Scoring => Len(scores) = pass - 1
  /\ pc = "report" => pass = 4
  /\ \A k \in DOMAIN scores : scores[k].ids = Ids(records)
  /\ pc = "write" => held.ids = Ids(records)

\* What was paid for is kept, until the run has all of its scores.
PaidIsKept ==
  \A p \in Passes :
    /\ paid[p] <= 1
    /\ paid[p] = 1 /\ pc \in Scoring => Fits(p) \/ (pc = "write" /\ p = ThisPass)

BakeOffInv == TypeInv /\ ScoredOverTheCorpus /\ PaidIsKept /\ ReportedOverTheCorpus

-----------------------------------------------------------------------------
(* Operators.                                                              *)

LEMMA ThisPassIsOne ==
  ASSUME roster \in 1..Len(Rosters), pass \in Slots
  PROVE  ThisPass \in Passes
BY DEF ThisPass, Passes

LEMMA Appended ==
  ASSUME NEW s, IsSeq(s), NEW e
  PROVE  /\ IsSeq(Append(s, e)) /\ Len(Append(s, e)) = Len(s) + 1
         /\ \A i \in DOMAIN Append(s, e) :
              IF i \in DOMAIN s THEN Append(s, e)[i] = s[i] ELSE Append(s, e)[i] = e
<1> DEFINE S == {s[i] : i \in DOMAIN s}
           t == Append(s, e)
<1>1. s \in Seq(S \union {e}) /\ t \in Seq(S \union {e})
  BY DEF IsSeq
<1>2. /\ Len(t) = Len(s) + 1 /\ DOMAIN t = 1..(Len(s) + 1) /\ DOMAIN s = 1..Len(s)
      /\ Len(s) \in Nat
      /\ \A i \in 1..Len(s) : t[i] = s[i]
      /\ t[Len(s) + 1] = e
  BY <1>1
<1>3. t \in Seq({t[i] : i \in DOMAIN t})
  BY <1>1, <1>2
<1>4. QED
  BY <1>2, <1>3 DEF IsSeq

LEMMA EmptyIsSeq == IsSeq(<<>>) /\ DOMAIN <<>> = {} /\ Len(<<>>) = 0
BY DEF IsSeq

-----------------------------------------------------------------------------
(* The initial states and the steps.                                       *)

LEMMA BakeOffInit == Init => BakeOffInv
BY BakeOffAssumption, EmptyIsSeq
   DEF Init, BakeOffInv, TypeInv, ScoredOverTheCorpus, PaidIsKept, ReportedOverTheCorpus, Scoring, Idle

\* What the exports do and what a run does to its own state is apart.
LEMMA FilesStep ==
  ASSUME BakeOffInv,
         \/ \E source \in Sources, hydrate \in BOOLEAN : OpenCorpus(source, hydrate)
         \/ BeginLine \/ EndLine
         \/ \E ref \in Refs : \E release \in Releases[ref] : Mirror(ref, release)
         \/ UNCHANGED vars
  PROVE  BakeOffInv'
<1>1. UNCHANGED <<cache, run>>
  BY DEF OpenCorpus, BeginLine, EndLine, Mirror, vars, files
<1>2. QED
  BY <1>1 DEF BakeOffInv, TypeInv, ScoredOverTheCorpus, PaidIsKept, ReportedOverTheCorpus,
              Fits, ThisPass, IsSeq, run

LEMMA StartStep ==
  ASSUME BakeOffInv, NEW limit \in Limits, NEW axes \in Grids, Start(limit, axes)
  PROVE  BakeOffInv'
<1>1. pc' \in {"died", "refused", "read"}
  BY DEF Start
<1>2. TypeInv'
  BY <1>1, BakeOffAssumption, EmptyIsSeq DEF Start, TypeInv, Scoring, Idle, Slots
<1>3. (ScoredOverTheCorpus /\ PaidIsKept /\ ReportedOverTheCorpus)'
  BY <1>1, EmptyIsSeq DEF Start, ScoredOverTheCorpus, PaidIsKept, ReportedOverTheCorpus, Scoring
<1>4. QED
  BY <1>2, <1>3 DEF BakeOffInv

\* A pass that is got, from the cache or from the models, is of this run's pairs.
LEMMA NextPassStep ==
  ASSUME BakeOffInv, pc \in {"read", "write"}, NEW got, got.ids = Ids(records), NextPass(got),
         UNCHANGED <<records, roster, reports, paid>>,
         \A p \in Passes : paid[p] = 1 => Fits(p)'
  PROVE  BakeOffInv'
<1> USE DEF BakeOffInv
<1>1. /\ pass \in Slots /\ Len(scores) = pass - 1
      /\ pc' = IF pass = 3 THEN "report" ELSE "read"
      /\ pass' = pass + 1
  BY DEF TypeInv, ScoredOverTheCorpus, NextPass, Scoring
<1>2. /\ IsSeq(scores') /\ Len(scores') = Len(scores) + 1
      /\ \A k \in DOMAIN scores' : scores'[k] = got \/ (k \in DOMAIN scores /\ scores'[k] = scores[k])
  BY Appended DEF TypeInv, NextPass
<1>3. TypeInv'
  BY <1>1, <1>2 DEF TypeInv, Scoring, Slots
<1>4. ScoredOverTheCorpus'
  BY <1>1, <1>2 DEF ScoredOverTheCorpus, Ids, Slots
<1>5. PaidIsKept'
  BY DEF PaidIsKept
<1>6. ReportedOverTheCorpus'
  BY DEF ReportedOverTheCorpus
<1>7. QED
  BY <1>3, <1>4, <1>5, <1>6

LEMMA ReadStep == ASSUME BakeOffInv, ReadHit \/ ReadTorn \/ Infer PROVE BakeOffInv'
<1> USE DEF BakeOffInv
<1>1. CASE ReadHit
  <2>1. cache[ThisPass].ids = Ids(records)
    BY <1>1 DEF ReadHit, Fits
  <2>2. \A p \in Passes : paid[p] = 1 => Fits(p)'
    BY <1>1 DEF ReadHit, PaidIsKept, Scoring, Fits, files
  <2>3. QED
    BY <1>1, <2>1, <2>2, NextPassStep DEF ReadHit
<1>2. CASE ReadTorn
  BY <1>2 DEF ReadTorn, TypeInv, ScoredOverTheCorpus, PaidIsKept, ReportedOverTheCorpus, Scoring, Idle
<1>3. CASE Infer
  <2>1. ThisPass \in Passes /\ ThisPass' = ThisPass
    BY <1>3, ThisPassIsOne DEF Infer, TypeInv, ThisPass
  <2>2. \A p \in Passes : Fits(p)' <=> Fits(p)
    BY <1>3 DEF Infer, Fits, files
  <2>3. paid[ThisPass] = 0
    BY <1>3, <2>1 DEF Infer, TypeInv, PaidIsKept, Scoring
  <2>4. /\ paid' \in [Passes -> Nat] /\ paid'[ThisPass] = 1
        /\ \A p \in Passes \ {ThisPass} : paid'[p] = paid[p]
    BY <1>3, <2>1, <2>3 DEF Infer, TypeInv
  <2>5. TypeInv'
    BY <1>3, <2>4 DEF Infer, TypeInv, Scoring
  <2>6. ScoredOverTheCorpus'
    BY <1>3 DEF Infer, ScoredOverTheCorpus, Ids, Scoring
  <2>7. PaidIsKept'
    BY <1>3, <2>1, <2>2, <2>4 DEF Infer, PaidIsKept, Scoring
  <2>8. ReportedOverTheCorpus'
    BY <1>3 DEF Infer, ReportedOverTheCorpus
  <2>9. QED
    BY <2>5, <2>6, <2>7, <2>8
<1>4. QED
  BY <1>1, <1>2, <1>3

LEMMA WriteStep == ASSUME BakeOffInv, OpenFile \/ FillFile PROVE BakeOffInv'
<1> USE DEF BakeOffInv
<1>1. CASE OpenFile
  <2>1. UNCHANGED run
    BY <1>1 DEF OpenFile
  <2>2. \A p \in Passes \ {ThisPass} : Fits(p) => Fits(p)'
    BY <1>1 DEF OpenFile, Stored, Fits, run
  <2>3. PaidIsKept'
    BY <1>1, <2>1, <2>2 DEF OpenFile, PaidIsKept, ThisPass, run
  <2>4. QED
    BY <2>1, <2>3 DEF TypeInv, ScoredOverTheCorpus, ReportedOverTheCorpus, IsSeq, run
<1>2. CASE FillFile
  <2>1. held.ids = Ids(records) /\ UNCHANGED <<records, roster, reports, paid>>
    BY <1>2 DEF FillFile, ScoredOverTheCorpus
  <2>2. ASSUME NEW p \in Passes, paid[p] = 1 PROVE Fits(p)'
    <3>1. CASE p = ThisPass
      BY <1>2, <2>1, <3>1 DEF FillFile, Stored, Fits, Ids
    <3>2. CASE p # ThisPass
      <4>1. Fits(p)
        BY <1>2, <2>2, <3>2 DEF FillFile, PaidIsKept, Scoring
      <4>2. QED
        BY <1>2, <2>1, <3>2, <4>1 DEF FillFile, Stored, Fits
    <3>3. QED
      BY <3>1, <3>2
  <2>3. QED
    BY <1>2, <2>1, <2>2, NextPassStep DEF FillFile
<1>3. QED
  BY <1>1, <1>2

LEMMA ReportStep == ASSUME BakeOffInv, Report PROVE BakeOffInv'
<1> USE DEF BakeOffInv
<1>1. /\ pc = "report"
      /\ UNCHANGED <<cache, records, paid>>
      /\ scores' = <<>> /\ pass' = 1
      /\ roster' = IF roster = Len(Rosters) THEN roster ELSE roster + 1
      /\ pc' = IF roster = Len(Rosters) THEN "archive" ELSE "read"
  BY DEF Report, files
<1>2. PICK report : reports' = Append(reports, report) /\ report.scores = scores
  BY DEF Report
<1>3. DOMAIN scores = Slots
  BY <1>1 DEF TypeInv, ScoredOverTheCorpus, Scoring, IsSeq, Slots
<1>4. \A p \in Slots : report.scores[p].ids = Ids(records)
  BY <1>2, <1>3 DEF ScoredOverTheCorpus
<1>5. /\ IsSeq(reports')
      /\ \A r \in DOMAIN reports' :
           reports'[r] = report \/ (r \in DOMAIN reports /\ reports'[r] = reports[r])
  BY <1>2, Appended DEF TypeInv
<1>6. TypeInv'
  BY <1>1, <1>5, BakeOffAssumption, EmptyIsSeq DEF TypeInv, Scoring, Slots
<1>7. ScoredOverTheCorpus'
  BY <1>1, EmptyIsSeq DEF ScoredOverTheCorpus, Scoring
<1>8. PaidIsKept'
  BY <1>1 DEF PaidIsKept, Scoring, Fits
<1>9. ReportedOverTheCorpus'
  BY <1>1, <1>4, <1>5 DEF ReportedOverTheCorpus, Ids
<1>10. QED
  BY <1>6, <1>7, <1>8, <1>9

LEMMA BakeOffStep == ASSUME BakeOffInv, [Next]_vars PROVE BakeOffInv'
<1>1. CASE \/ \E source \in Sources, hydrate \in BOOLEAN : OpenCorpus(source, hydrate)
           \/ BeginLine \/ EndLine
           \/ \E ref \in Refs : \E release \in Releases[ref] : Mirror(ref, release)
           \/ UNCHANGED vars
  BY <1>1, FilesStep
<1>2. CASE \E limit \in Limits, axes \in Grids : Start(limit, axes)
  BY <1>2, StartStep
<1>3. CASE ReadHit \/ ReadTorn \/ Infer
  BY <1>3, ReadStep
<1>4. CASE OpenFile \/ FillFile
  BY <1>4, WriteStep
<1>5. CASE Report
  BY <1>5, ReportStep
<1>6. CASE Archive \/ Kill
  <2>1. pc' \in {"done", "idle"} /\ UNCHANGED <<files, records, roster, pass, scores, reports, paid>>
    BY <1>6 DEF Archive, Kill
  <2>2. QED
    BY <2>1 DEF BakeOffInv, TypeInv, ScoredOverTheCorpus, PaidIsKept, ReportedOverTheCorpus,
                Scoring, Idle, IsSeq, Ids
<1>7. QED
  BY <1>1, <1>2, <1>3, <1>4, <1>5, <1>6 DEF Next, Score

\* The inductive invariant of the bake-off.
THEOREM BakeOffCorrect == Spec => []BakeOffInv
<1>1. QED
  BY BakeOffInit, BakeOffStep, PTL DEF Spec

-----------------------------------------------------------------------------
(* The properties.                                                         *)

\* Every report is over exactly the pairs of its run, in their order, whatever
\* is in the score cache.
THEOREM ReportsCorrect == Spec => []ReportedOverTheCorpus
<1>1. BakeOffInv => ReportedOverTheCorpus
  BY DEF BakeOffInv
<1>2. QED
  BY <1>1, BakeOffCorrect, PTL

\* A run infers with an artifact at most once per task, however many rosters and
\* slots share it.
THEOREM PaidOnceCorrect == Spec => []SharedPassPaidOnce
<1>1. BakeOffInv => SharedPassPaidOnce
  BY DEF BakeOffInv, PaidIsKept, SharedPassPaidOnce
<1>2. QED
  BY <1>1, BakeOffCorrect, PTL

-----------------------------------------------------------------------------
(* The choice.                                                             *)

Neutrals(c) == Cardinality({i \in DOMAIN c.outcomes : c.outcomes[i].verdict = "NEUTRAL"})
Escalated(c) == Cardinality({i \in DOMAIN c.outcomes : c.outcomes[i].disposition = "ESCALATE_G4"})

\* A candidate over n pairs.
Over(c, n) == IsSeq(c.outcomes) /\ Len(c.outcomes) = n

LEMMA Counted ==
  ASSUME NEW n \in Nat, NEW c, Over(c, n)
  PROVE  /\ Neutrals(c) \in 0..n /\ Escalated(c) \in 0..n
         /\ NeutralSummary(c.outcomes).coverage = Ratio(Neutrals(c), n)
         /\ Volumes(c.outcomes).g4 = Ratio(Escalated(c), n)
<1>1. DOMAIN c.outcomes = 1..n
  BY DEF Over, IsSeq
<1>2. IsFiniteSet(1..n) /\ Cardinality(1..n) = n
  BY FS_Interval
<1>3. ASSUME NEW T, T \subseteq 1..n
      PROVE  Cardinality(T) \in 0..n
  <2>1. IsFiniteSet(T) /\ Cardinality(T) <= n
    BY <1>2, <1>3, FS_Subset
  <2> QED
    BY <2>1, FS_CardinalityType
<1>4. Neutrals(c) \in 0..n
  BY <1>1, <1>3 DEF Neutrals
<1>5. Escalated(c) \in 0..n
  BY <1>1, <1>3 DEF Escalated
<1>6. NeutralSummary(c.outcomes).coverage = Ratio(Neutrals(c), n)
  BY DEF Over, Neutrals, NeutralSummary, PerVerdictScores, Count, Those, DecidedVerdicts
<1>7. Volumes(c.outcomes).g4 = Ratio(Escalated(c), n)
  BY DEF Over, Escalated, Volumes, Count, Those
<1> QED
  BY <1>4, <1>5, <1>6, <1>7

LEMMA Exceeding ==
  ASSUME NEW n \in Nat, NEW a \in 0..n, NEW b \in 0..n
  PROVE  Exceeds(Ratio(a, n), Ratio(b, n)) <=> a > b
<1>1. CASE n = 0
  BY <1>1 DEF Exceeds, Ratio
<1>2. CASE n > 0
  <2>1. Exceeds(Ratio(a, n), Ratio(b, n)) <=> a * n > b * n
    BY <1>2 DEF Exceeds, Ratio
  <2>2. (a - b) * n = a * n - b * n /\ a * n \in Int /\ b * n \in Int
    OBVIOUS
  <2>3. ASSUME NEW k \in Int
        PROVE  k * n > 0 <=> k > 0
    BY <1>2
  <2> QED
    BY <2>1, <2>2, <2>3
<1> QED
  BY <1>1, <1>2

\* Over the same pairs, the sort key is the two counts.
LEMMA SortKey ==
  ASSUME NEW n \in Nat, NEW c, Over(c, n), NEW d, Over(d, n)
  PROVE  BetterThan(c, d) <=>
           \/ Neutrals(c) > Neutrals(d)
           \/ Neutrals(c) = Neutrals(d) /\ Escalated(d) > Escalated(c)
<1>1. /\ Neutrals(c) \in 0..n /\ Neutrals(d) \in 0..n
      /\ Escalated(c) \in 0..n /\ Escalated(d) \in 0..n
  BY Counted
<1>2. BetterThan(c, d) <=>
        \/ Exceeds(Ratio(Neutrals(c), n), Ratio(Neutrals(d), n))
        \/ /\ ~Exceeds(Ratio(Neutrals(d), n), Ratio(Neutrals(c), n))
           /\ Exceeds(Ratio(Escalated(d), n), Ratio(Escalated(c), n))
  BY Counted, Zenon DEF BetterThan
<1>3. BetterThan(c, d) <=>
        \/ Neutrals(c) > Neutrals(d)
        \/ ~(Neutrals(d) > Neutrals(c)) /\ Escalated(d) > Escalated(c)
  BY <1>1, <1>2, Exceeding
<1> QED
  BY <1>1, <1>3

\* What beats the worse of two does or is beaten: one that is not better than
\* one that is not better than the best is not better than the best.
LEMMA NotBetter ==
  ASSUME NEW n \in Nat, NEW a, Over(a, n), NEW b, Over(b, n), NEW c, Over(c, n),
         ~BetterThan(a, b), ~BetterThan(b, c)
  PROVE  ~BetterThan(a, c)
<1>1. \A x \in {a, b, c} : Neutrals(x) \in 0..n /\ Escalated(x) \in 0..n
  BY Counted
<1>2. /\ ~(Neutrals(a) > Neutrals(b))
      /\ ~(Neutrals(a) = Neutrals(b) /\ Escalated(b) > Escalated(a))
  BY SortKey
<1>3. /\ ~(Neutrals(b) > Neutrals(c))
      /\ ~(Neutrals(b) = Neutrals(c) /\ Escalated(c) > Escalated(b))
  BY SortKey
<1>4. /\ ~(Neutrals(a) > Neutrals(c))
      /\ ~(Neutrals(a) = Neutrals(c) /\ Escalated(c) > Escalated(a))
  BY <1>1, <1>2, <1>3
<1> QED
  BY <1>4, SortKey

LEMMA LeastNatural ==
  ASSUME NEW T, T \subseteq Nat, T # {}
  PROVE  \E x \in T : \A y \in T : x <= y
<1> DEFINE R == OpToRel(<, Nat)
<1>1. IsWellFoundedOn(R, Nat)
  BY NatLessThanWellFounded
<1>2. \A x, y \in Nat : <<y, x>> \in R <=> y < x
  BY DEF OpToRel
<1> HIDE DEF R
<1>3. PICK x \in T : \A y \in T : ~(<<y, x>> \in R)
  BY <1>1, WFMin
<1>4. ASSUME NEW y \in T
      PROVE  x <= y
  <2>1. x \in Nat /\ y \in Nat
    OBVIOUS
  <2>2. ~(y < x)
    BY <1>2, <1>3, <2>1, Zenon
  <2> QED
    BY <2>1, <2>2
<1> QED
  BY <1>4

\* One of those that pass is the best of them.
LEMMA OneIsBest ==
  ASSUME NEW n \in Nat, NEW C, \A c \in C : Over(c, n), \E c \in C : c.passed
  PROVE  Best(C) # {}
<1> DEFINE P == {c \in C : c.passed}
           shortfall(c) == n - Neutrals(c)
<1>1. P # {} /\ \A c \in P : Over(c, n)
  OBVIOUS
<1>2. \A c \in P : Neutrals(c) \in 0..n /\ Escalated(c) \in 0..n
  BY <1>1, Counted
<1> HIDE DEF P
<1>3. PICK c \in P : \A d \in P : shortfall(c) <= shortfall(d)
  <2> DEFINE T == {shortfall(x) : x \in P}
  <2>1. T \subseteq Nat /\ T # {}
    BY <1>1, <1>2
  <2>2. \E x \in T : \A y \in T : x <= y
    BY <2>1, LeastNatural
  <2> QED
    BY <2>2
<1> DEFINE Q == {d \in P : Neutrals(d) = Neutrals(c)}
<1>4. c \in Q /\ Q \subseteq P
  OBVIOUS
<1> HIDE DEF Q
<1>5. PICK b \in Q : \A d \in Q : Escalated(b) <= Escalated(d)
  <2> DEFINE T == {Escalated(x) : x \in Q}
  <2>1. T \subseteq Nat /\ T # {}
    BY <1>2, <1>4
  <2>2. \E x \in T : \A y \in T : x <= y
    BY <2>1, LeastNatural
  <2> QED
    BY <2>2
<1>6. ASSUME NEW d \in P
      PROVE  ~BetterThan(d, b)
  <2>1. Neutrals(b) = Neutrals(c) /\ b \in P
    BY <1>4, <1>5 DEF Q
  <2>2. Neutrals(d) <= Neutrals(b)
    BY <1>2, <1>3, <2>1
  <2>3. Neutrals(d) = Neutrals(b) => Escalated(b) <= Escalated(d)
    BY <1>5, <2>1 DEF Q
  <2>4. Over(b, n) /\ Over(d, n)
    BY <1>1, <2>1
  <2>5. ~(Neutrals(d) > Neutrals(b)) /\ ~(Neutrals(d) = Neutrals(b) /\ Escalated(b) > Escalated(d))
    BY <1>2, <2>1, <2>2, <2>3
  <2> QED
    BY <2>4, <2>5, SortKey
<1>7. b \in Best(C)
  <2>1. b \in C /\ b.passed
    BY <1>4, <1>5, Zenon DEF P
  <2>2. ~\E d \in C : d.passed /\ BetterThan(d, b)
    BY <1>6, Zenon DEF P
  <2> QED
    BY <2>1, <2>2, Zenon DEF Best
<1> QED
  BY <1>7

\* Every cell, and the base, is a candidate over the pairs of the run.
LEMMA CandidatesOver ==
  ASSUME NEW lines, IsSeq(lines), NEW axes, NEW table, NEW got,
         NEW c \in Reported(lines, axes, table, got) \union GridSearch(lines, axes, table, got)
  PROVE  Over(c, Len(lines))
<1>1. ASSUME NEW t
      PROVE  Over(Candidate(lines, table, got, t), Len(lines))
  <2> DEFINE o == Replay(lines, table, got, t)
  <2>1. Candidate(lines, table, got, t).outcomes = o
    BY DEF Candidate
  <2>2. DOMAIN o = DOMAIN lines /\ o \in [DOMAIN lines -> {o[i] : i \in DOMAIN o}]
    BY DEF Replay
  <2>3. DOMAIN lines = 1..Len(lines) /\ Len(lines) \in Nat
    BY DEF IsSeq
  <2> HIDE DEF o
  <2>4. o \in Seq({o[i] : i \in DOMAIN o}) /\ Len(o) = Len(lines)
    BY <2>2, <2>3
  <2> QED
    BY <2>1, <2>4 DEF Over, IsSeq
<1>2. ASSUME NEW d \in GridSearch(lines, axes, table, got)
      PROVE  \E t : d = Candidate(lines, table, got, t)
  BY DEF GridSearch
<1>3. CASE c \in GridSearch(lines, axes, table, got)
  BY <1>1, <1>2, <1>3, Zenon
<1>4. CASE c \in Reported(lines, axes, table, got)
  <2>1. \/ c = Candidate(lines, table, got, Base)
        \/ c \in Best(GridSearch(lines, axes, table, got))
    BY <1>4, Zenon DEF Reported
  <2>2. Best(GridSearch(lines, axes, table, got)) \subseteq GridSearch(lines, axes, table, got)
    BY DEF Best
  <2> QED
    BY <1>1, <1>3, <2>1, <2>2, Zenon
<1> QED
  BY <1>3, <1>4

\* What is reported of a roster passes if anything of it does, and is the best.
LEMMA ReportedIsBest ==
  ASSUME NEW lines, IsSeq(lines), NEW axes, NEW table, NEW got,
         NEW chosen \in Reported(lines, axes, table, got),
         NEW c \in Reported(lines, axes, table, got) \union GridSearch(lines, axes, table, got),
         c.passed
  PROVE  chosen.passed /\ ~BetterThan(c, chosen)
<1> DEFINE G == GridSearch(lines, axes, table, got)
           n == Len(lines)
<1>1. n \in Nat
  BY DEF IsSeq
<1>2. \A d \in G : Over(d, n)
  BY CandidatesOver
<1>3. Over(c, n) /\ Over(chosen, n)
  BY CandidatesOver
<1>4. Reported(lines, axes, table, got) =
        IF Best(G) = {} THEN {Candidate(lines, table, got, Base)} ELSE Best(G)
  BY Zenon DEF Reported
<1> HIDE DEF G, n
<1>5. CASE Best(G) # {}
  <2>1. chosen \in Best(G) /\ c \in G
    BY <1>4, <1>5, Zenon DEF Best, G
  <2> QED
    BY <2>1, Zenon DEF Best
<1>6. CASE Best(G) = {}
  <2>1. c \notin G
    <3>1. ASSUME c \in G
          PROVE  FALSE
      <4>1. \E d \in G : d.passed
        BY <3>1, Zenon
      <4> QED
        BY <1>1, <1>2, <1>6, <4>1, OneIsBest, Zenon
    <3> QED
      BY <3>1
  <2>2. c = chosen
    <3>1. Reported(lines, axes, table, got) = {Candidate(lines, table, got, Base)}
      BY <1>4, <1>6, Zenon
    <3>2. c \in Reported(lines, axes, table, got)
      BY <2>1, Zenon DEF G
    <3> QED
      BY <3>1, <3>2, Zenon
  <2>3. Neutrals(c) \in 0..n /\ Escalated(c) \in 0..n
    BY <1>1, <1>3, Counted
  <2>4. ~BetterThan(c, c)
    BY <1>1, <1>3, <2>3, SortKey
  <2> QED
    BY <2>2, <2>4, Zenon
<1> QED
  BY <1>5, <1>6

(***************************************************************************)
(* What the choice rests on: the corpus a run reads is a list, the rosters *)
(* are reported one after the other, and each report is of the best cell   *)
(* of its roster, over the records and the grid of the run.                *)
(***************************************************************************)
ReportsChosen ==
  \A r \in DOMAIN reports :
    reports[r].chosen \in Reported(records, grid, Rosters[r], reports[r].scores)

ChoiceInv ==
  /\ IsSeq(corpus) /\ IsSeq(records)
  /\ pc \in Scoring => Len(reports) = roster - 1
  /\ ReportsChosen
  /\ AdoptedIsTheBest

LEMMA ChoiceInit == Init => ChoiceInv
<1> SUFFICES ASSUME Init
             PROVE  ChoiceInv
  OBVIOUS
<1>1. IsSeq(corpus)
  BY ExportAssumption, EmptyIsSeq DEF Init, IsSeq
<1> QED
  BY <1>1, EmptyIsSeq DEF Init, ChoiceInv, ReportsChosen, AdoptedIsTheBest, Scoring

\* Whoever leaves the run alone leaves its choice alone.
LEMMA RunAlone ==
  ASSUME ChoiceInv, UNCHANGED run, IsSeq(corpus')
  PROVE  ChoiceInv'
BY DEF ChoiceInv, ReportsChosen, AdoptedIsTheBest, Adoptable, IsSeq, run

LEMMA LineWritten ==
  ASSUME NEW s, IsSeq(s), NEW i \in DOMAIN s, NEW e
  PROVE  IsSeq([s EXCEPT ![i] = e])
<1> DEFINE t == [s EXCEPT ![i] = e]
<1>1. DOMAIN t = 1..Len(s) /\ Len(s) \in Nat
  BY DEF IsSeq
<1>2. t \in [1..Len(s) -> {t[j] : j \in DOMAIN t}]
  BY <1>1
<1> HIDE DEF t
<1>3. t \in Seq({t[j] : j \in DOMAIN t})
  BY <1>1, <1>2
<1> QED
  BY <1>3 DEF IsSeq, t

LEMMA CutIsSeq ==
  ASSUME NEW lines, IsSeq(lines), NEW limit \in Nat
  PROVE  IsSeq(Cut(lines, limit))
<1>1. CASE limit \in 1..Len(lines)
  <2> DEFINE S == {lines[i] : i \in DOMAIN lines}
             t == SubSeq(lines, 1, limit)
  <2>1. \A i \in 1..limit : lines[i] \in S
    BY <1>1 DEF IsSeq
  <2>2. 1 \in Int /\ limit \in Int
    OBVIOUS
  <2> HIDE DEF S
  <2>3. t \in Seq(S)
    BY <2>1, <2>2, SubSeqProperties
  <2> HIDE DEF t
  <2>4. t \in Seq({t[i] : i \in DOMAIN t})
    BY <2>3
  <2> QED
    BY <1>1, <2>4 DEF Cut, IsSeq, t
<1>2. CASE limit \notin 1..Len(lines)
  BY <1>2 DEF Cut
<1> QED
  BY <1>1, <1>2

LEMMA ChoiceReport == ASSUME BakeOffInv, ChoiceInv, Report PROVE ChoiceInv'
<1>1. /\ pc = "report" /\ Len(reports) = roster - 1 /\ roster \in 1..Len(Rosters)
      /\ IsSeq(reports)
      /\ UNCHANGED <<corpus, records, grid>>
      /\ roster' = IF roster = Len(Rosters) THEN roster ELSE roster + 1
      /\ pc' = IF roster = Len(Rosters) THEN "archive" ELSE "read"
  BY DEF Report, BakeOffInv, TypeInv, ChoiceInv, Scoring, files, exports
<1>2. PICK report : /\ reports' = Append(reports, report) /\ report.scores = scores
                    /\ report.chosen \in Reported(records, grid, Rosters[roster], scores)
  BY DEF Report
<1>3. /\ DOMAIN reports = 1..Len(reports) /\ Len(reports') = Len(reports) + 1
      /\ DOMAIN reports' = 1..Len(reports')
      /\ \A r \in DOMAIN reports' :
           IF r \in DOMAIN reports THEN reports'[r] = reports[r] ELSE reports'[r] = report
  BY <1>1, <1>2, Appended DEF IsSeq
<1>4. ReportsChosen'
  <2> SUFFICES ASSUME NEW r \in DOMAIN reports'
               PROVE  reports'[r].chosen \in Reported(records, grid, Rosters[r], reports'[r].scores)
    BY <1>1 DEF ReportsChosen
  <2>1. CASE r \in DOMAIN reports
    BY <1>3, <2>1 DEF ChoiceInv, ReportsChosen
  <2>2. CASE r \notin DOMAIN reports
    <3>1. r = roster
      BY <1>1, <1>3, <2>2
    <3> QED
      BY <1>2, <1>3, <2>2, <3>1
  <2> QED
    BY <2>1, <2>2
<1>5. pc' \in Scoring => Len(reports') = roster' - 1
  BY <1>1, <1>3 DEF Scoring, IsSeq
<1> QED
  BY <1>1, <1>4, <1>5 DEF ChoiceInv, AdoptedIsTheBest, IsSeq

LEMMA ChoiceArchive == ASSUME ChoiceInv, Archive PROVE ChoiceInv'
<1> DEFINE chosen(r) == reports[r].chosen
           winners == Best({chosen(r) : r \in DOMAIN reports})
           n == Len(records)
<1>1. /\ UNCHANGED <<corpus, records, grid, reports>> /\ pc' = "done"
      /\ adopted' \in (IF winners = {} THEN {{}} ELSE {{w} : w \in winners})
  BY DEF Archive, files, exports
<1>2. n \in Nat /\ IsSeq(records)
  BY DEF ChoiceInv, IsSeq
<1>3. Adoptable' = Adoptable
  BY <1>1 DEF Adoptable
<1>4. ASSUME NEW r \in DOMAIN reports
      PROVE  chosen(r) \in Adoptable /\ Over(chosen(r), n)
  <2>1. chosen(r) \in Reported(records, grid, Rosters[r], reports[r].scores)
    BY DEF ChoiceInv, ReportsChosen
  <2> QED
    BY <1>2, <2>1, CandidatesOver DEF Adoptable
<1>5. ASSUME NEW c \in Adoptable, c.passed
      PROVE  /\ Over(c, n)
             /\ \E r \in DOMAIN reports : chosen(r).passed /\ ~BetterThan(c, chosen(r))
  <2>1. PICK r \in DOMAIN reports :
          c \in Reported(records, grid, Rosters[r], reports[r].scores)
                  \union GridSearch(records, grid, Rosters[r], reports[r].scores)
    BY DEF Adoptable
  <2>2. chosen(r) \in Reported(records, grid, Rosters[r], reports[r].scores)
    BY DEF ChoiceInv, ReportsChosen
  <2>3. chosen(r).passed /\ ~BetterThan(c, chosen(r))
    BY <1>2, <1>5, <2>1, <2>2, ReportedIsBest
  <2>4. Over(c, n)
    BY <1>2, <2>1, CandidatesOver
  <2> QED
    BY <2>3, <2>4
<1> DEFINE C == {chosen(r) : r \in DOMAIN reports}
<1>6. \A c \in C : Over(c, n) /\ c \in Adoptable
  BY <1>4
<1>7. winners = {} <=> \A c \in Adoptable : ~c.passed
  <2>1. ASSUME winners = {}, NEW c \in Adoptable, c.passed
        PROVE  FALSE
    <3>1. \E d \in C : d.passed
      BY <1>5, <2>1, Zenon
    <3> QED
      BY <1>2, <1>6, <2>1, <3>1, OneIsBest
  <2>2. ASSUME winners # {}
        PROVE  \E c \in Adoptable : c.passed
    BY <1>6, <2>2, Zenon DEF Best
  <2> QED
    BY <2>1, <2>2, Zenon
<1>8. ASSUME NEW a \in winners
      PROVE  /\ a \in Adoptable /\ a.passed
             /\ \A c \in Adoptable : c.passed => ~BetterThan(c, a)
  <2>1. a \in C /\ a.passed /\ \A d \in C : d.passed => ~BetterThan(d, a)
    BY <1>8, Zenon DEF Best
  <2>2. ASSUME NEW c \in Adoptable, c.passed
        PROVE  ~BetterThan(c, a)
    <3>1. PICK r \in DOMAIN reports : chosen(r).passed /\ ~BetterThan(c, chosen(r))
      BY <1>5, <2>2, Zenon
    <3>2. ~BetterThan(chosen(r), a) /\ Over(chosen(r), n) /\ Over(a, n) /\ Over(c, n)
      BY <1>4, <1>5, <1>6, <2>1, <2>2, <3>1, Zenon
    <3> QED
      BY <1>2, <3>1, <3>2, NotBetter
  <2> QED
    BY <1>6, <2>1, <2>2, Zenon
<1> HIDE DEF winners
<1>9. adopted' = {} <=> \A c \in Adoptable : ~c.passed
  BY <1>1, <1>7
<1>10. \A a \in adopted' : a \in winners
  BY <1>1
<1>11. AdoptedIsTheBest'
  BY <1>3, <1>8, <1>9, <1>10, Zenon DEF AdoptedIsTheBest
<1> QED
  BY <1>1, <1>11 DEF ChoiceInv, ReportsChosen, Scoring, IsSeq

LEMMA ChoiceStep == ASSUME BakeOffInv, ChoiceInv, [Next]_vars PROVE ChoiceInv'
<1>1. ASSUME NEW source \in Sources, NEW hydrate \in BOOLEAN, OpenCorpus(source, hydrate)
      PROVE  ChoiceInv'
  <2>1. corpus' = <<>> /\ UNCHANGED run
    BY <1>1 DEF OpenCorpus
  <2>2. IsSeq(corpus')
    BY <2>1, EmptyIsSeq
  <2> QED
    BY <2>1, <2>2, RunAlone
<1>2. CASE BeginLine
  <2>1. IsSeq(corpus') /\ UNCHANGED run
    <3>1. corpus' = Append(corpus, Torn) /\ UNCHANGED run
      BY <1>2 DEF BeginLine
    <3>2. IsSeq(Append(corpus, Torn))
      BY Appended DEF ChoiceInv
    <3> QED
      BY <3>1, <3>2
  <2> QED
    BY <2>1, RunAlone
<1>3. CASE EndLine
  <2>1. Len(corpus) \in DOMAIN corpus
    BY <1>3 DEF EndLine, Whole, ChoiceInv, IsSeq
  <2>2. IsSeq([corpus EXCEPT ![Len(corpus)] = Head(pending)])
    BY <2>1, LineWritten DEF ChoiceInv
  <2>3. IsSeq(corpus') /\ UNCHANGED run
    BY <1>3, <2>2 DEF EndLine, IsSeq
  <2> QED
    BY <2>3, RunAlone
<1>4. CASE \/ \E ref \in Refs : \E release \in Releases[ref] : Mirror(ref, release)
           \/ OpenFile
           \/ UNCHANGED vars
  <2>1. UNCHANGED <<corpus, run>>
    BY <1>4 DEF Mirror, OpenFile, exports, vars, files
  <2> QED
    BY <2>1, RunAlone DEF ChoiceInv, IsSeq
<1>5. ASSUME NEW limit \in Limits, NEW axes \in Grids, Start(limit, axes)
      PROVE  ChoiceInv'
  <2>1. /\ pc' \in {"died", "refused", "read"} /\ roster' = 1 /\ reports' = <<>> /\ corpus' = corpus
        /\ records' = <<>> \/ records' = Cut(corpus, limit)
    BY <1>5 DEF Start, files, exports
  <2>2. IsSeq(records') /\ IsSeq(corpus')
    <3>1. limit \in Nat /\ IsSeq(corpus)
      BY BakeOffAssumption DEF ChoiceInv
    <3>2. IsSeq(Cut(corpus, limit)) /\ IsSeq(<<>>)
      BY <3>1, CutIsSeq, EmptyIsSeq
    <3>3. CASE records' = <<>>
      BY <2>1, <3>1, <3>2, <3>3
    <3>4. CASE records' = Cut(corpus, limit)
      BY <2>1, <3>1, <3>2, <3>4
    <3> QED
      BY <2>1, <3>3, <3>4
  <2> QED
    BY <2>1, <2>2, EmptyIsSeq DEF ChoiceInv, ReportsChosen, AdoptedIsTheBest, IsSeq
<1>6. CASE ReadHit \/ ReadTorn \/ Infer \/ FillFile \/ Kill
  <2>1. /\ UNCHANGED <<corpus, records, grid, roster, reports>> /\ pc' # "done"
        /\ pc' \in Scoring => pc \in Scoring
    BY <1>6 DEF ReadHit, ReadTorn, Infer, FillFile, Kill, NextPass, Scoring, files, exports
  <2> QED
    BY <2>1 DEF ChoiceInv, ReportsChosen, AdoptedIsTheBest, IsSeq
<1>7. CASE Report
  BY <1>7, ChoiceReport
<1>8. CASE Archive
  BY <1>8, ChoiceArchive
<1> QED
  BY <1>1, <1>2, <1>3, <1>4, <1>5, <1>6, <1>7, <1>8 DEF Next, Score

(***************************************************************************)
(* For any rosters, any answers of the models, any grid and any history of *)
(* exports, mirrors, kills and runs: a GO is for the best candidate that   *)
(* clears the bar on the run's own pairs, and a NO-GO means that none      *)
(* does, at any cell of any roster (bakeoff.py: best_cell, best_passing).  *)
(***************************************************************************)
THEOREM AdoptedCorrect == Spec => []AdoptedIsTheBest
<1>1. ChoiceInv => AdoptedIsTheBest
  BY DEF ChoiceInv
<1> QED
  BY <1>1, BakeOffCorrect, ChoiceInit, ChoiceStep, PTL DEF Spec

-----------------------------------------------------------------------------
(* Sums: what the fold of the community modules computes over a finite set. *)

\* Induction over the subsets of a finite set, for the members of a set.
LEMMA SubsetInduction ==
  ASSUME NEW S, IsFiniteSet(S), NEW Good,
         \A T \in SUBSET S : (\A U \in SUBSET T : U # T => U \in Good) => T \in Good
  PROVE  \A T \in SUBSET S : T \in Good
<1> SUFFICES ASSUME NEW B \in SUBSET S, B \notin Good
             PROVE  FALSE
  OBVIOUS
<1> DEFINE Bad == {T \in SUBSET S : T \notin Good}
           sizes == {Cardinality(T) : T \in Bad}
<1>1. \A T \in SUBSET S : IsFiniteSet(T) /\ Cardinality(T) \in Nat
  BY FS_Subset, FS_CardinalityType
<1>2. sizes \subseteq Nat /\ sizes # {}
  BY <1>1
<1>3. PICK T \in Bad : \A U \in Bad : Cardinality(T) <= Cardinality(U)
  <2> HIDE DEF Bad
  <2>1. \E x \in sizes : \A y \in sizes : x <= y
    BY <1>2, LeastNatural
  <2> QED
    BY <2>1
<1>4. PICK U \in SUBSET T : U # T /\ U \notin Good
  BY <1>3
<1>5. Cardinality(U) < Cardinality(T)
  BY <1>1, <1>3, <1>4, FS_Subset
<1>6. Cardinality(T) <= Cardinality(U)
  BY <1>3, <1>4
<1> QED
  BY <1>1, <1>3, <1>4, <1>5, <1>6

OneOf(s) == CHOOSE x \in s : TRUE

\* A function is the running sum of f over the subsets of a set.
IsSum(h, f, S) ==
  h = [s \in SUBSET S |-> IF s = {} THEN 0 ELSE f[OneOf(s)] + h[s \ {OneOf(s)}]]

Running(f, S) == CHOOSE h : IsSum(h, f, S)

LEMMA SumUnfolds ==
  ASSUME NEW f, NEW S
  PROVE  SumFunctionOnSet(f, S) = Running(f, S)[S]
BY DEF SumFunctionOnSet, FoldFunctionOnSet, MapThenFoldSet, Running, IsSum, OneOf

LEMMA OneOfIsIn == ASSUME NEW s, s # {} PROVE OneOf(s) \in s
BY DEF OneOf

LEMMA SumStep ==
  ASSUME NEW h, NEW f, NEW S, IsSum(h, f, S), NEW s \in SUBSET S
  PROVE  h[s] = IF s = {} THEN 0 ELSE f[OneOf(s)] + h[s \ {OneOf(s)}]
<1> DEFINE body(t) == IF t = {} THEN 0 ELSE f[OneOf(t)] + h[t \ {OneOf(t)}]
<1>1. h = [t \in SUBSET S |-> body(t)]
  BY DEF IsSum
<1> HIDE DEF body
<1>2. h[s] = body(s)
  BY <1>1
<1> QED
  BY <1>2 DEF body

LEMMA SumsAgree ==
  ASSUME NEW f, NEW S, IsFiniteSet(S), NEW U, NEW V, S \subseteq U, S \subseteq V,
         NEW g, IsSum(g, f, U), NEW h, IsSum(h, f, V)
  PROVE  g[S] = h[S]
<1> DEFINE Good == {T \in SUBSET S : g[T] = h[T]}
<1>1. ASSUME NEW T \in SUBSET S, \A W \in SUBSET T : W # T => W \in Good
      PROVE  T \in Good
  <2>1. T \in SUBSET U /\ T \in SUBSET V
    OBVIOUS
  <2>2. /\ g[T] = IF T = {} THEN 0 ELSE f[OneOf(T)] + g[T \ {OneOf(T)}]
        /\ h[T] = IF T = {} THEN 0 ELSE f[OneOf(T)] + h[T \ {OneOf(T)}]
    BY <2>1, SumStep
  <2>3. T # {} => g[T \ {OneOf(T)}] = h[T \ {OneOf(T)}]
    BY <1>1, OneOfIsIn
  <2> QED
    BY <2>2, <2>3
<1> HIDE DEF Good
<1>2. S \in Good
  BY <1>1, SubsetInduction
<1> QED
  BY <1>2 DEF Good

\* The fold of the community modules satisfies its equation.
LEMMA SumExists ==
  ASSUME NEW f, NEW S, IsFiniteSet(S)
  PROVE  IsSum(Running(f, S), f, S)
<1> DEFINE Good == {T \in SUBSET S : IsSum(Running(f, T), f, T)}
<1>1. ASSUME NEW T \in SUBSET S, \A W \in SUBSET T : W # T => W \in Good
      PROVE  T \in Good
  <2> DEFINE total(s) == Running(f, s)[s]
             body(s) == IF s = {} THEN 0 ELSE f[OneOf(s)] + total(s \ {OneOf(s)})
             h == [s \in SUBSET T |-> body(s)]
  <2>1. ASSUME NEW s \in SUBSET T, s # T
        PROVE  total(s) = body(s)
    <3>1. IsSum(Running(f, s), f, s)
      BY <1>1, <2>1
    <3>2. total(s) = IF s = {} THEN 0 ELSE f[OneOf(s)] + Running(f, s)[s \ {OneOf(s)}]
      BY <3>1, SumStep
    <3>3. CASE s # {}
      <4> DEFINE r == s \ {OneOf(s)}
      <4>1. r \subseteq s /\ r # T /\ r \in SUBSET T /\ IsFiniteSet(r)
        BY <2>1, <3>3, FS_Subset
      <4>2. IsSum(Running(f, r), f, r)
        BY <1>1, <4>1
      <4> HIDE DEF r
      <4>3. Running(f, s)[r] = Running(f, r)[r]
        BY <3>1, <4>1, <4>2, SumsAgree
      <4> QED
        BY <3>2, <4>3 DEF r
    <3> QED
      BY <3>2, <3>3
  <2>2. ASSUME NEW s \in SUBSET T
        PROVE  body(s) = IF s = {} THEN 0 ELSE f[OneOf(s)] + h[s \ {OneOf(s)}]
    <3>1. CASE s # {}
      <4> DEFINE r == s \ {OneOf(s)}
      <4>1. r # T /\ r \in SUBSET T
        BY <3>1, OneOfIsIn
      <4> HIDE DEF r, body, total
      <4>2. h[r] = body(r) /\ total(r) = body(r)
        BY <2>1, <4>1
      <4> QED
        BY <3>1, <4>2 DEF r, body
    <3> QED
      BY <3>1
  <2>3. IsSum(h, f, T)
    <3> DEFINE rest(s) == IF s = {} THEN 0 ELSE f[OneOf(s)] + h[s \ {OneOf(s)}]
    <3>1. \A s \in SUBSET T : body(s) = rest(s)
      BY <2>2
    <3> HIDE DEF rest, body
    <3>2. h = [s \in SUBSET T |-> rest(s)]
      BY <3>1
    <3> QED
      BY <3>2 DEF IsSum, rest
  <2> HIDE DEF h
  <2>4. IsSum(Running(f, T), f, T)
    BY <2>3 DEF Running
  <2> QED
    BY <2>4
<1> HIDE DEF Good
<1>2. S \in Good
  BY <1>1, SubsetInduction
<1> QED
  BY <1>2 DEF Good

LEMMA SumOfNone ==
  ASSUME NEW f
  PROVE  SumFunctionOnSet(f, {}) = 0
<1>1. IsSum(Running(f, {}), f, {})
  BY SumExists, FS_EmptySet
<1> QED
  BY <1>1, SumStep, SumUnfolds

LEMMA SumOfOneOf ==
  ASSUME NEW f, NEW S, IsFiniteSet(S), S # {}
  PROVE  SumFunctionOnSet(f, S) = f[OneOf(S)] + SumFunctionOnSet(f, S \ {OneOf(S)})
<1> DEFINE r == S \ {OneOf(S)}
<1>1. r \subseteq S /\ IsFiniteSet(r)
  BY FS_Subset
<1>2. IsSum(Running(f, S), f, S) /\ IsSum(Running(f, r), f, r)
  BY <1>1, SumExists
<1>3. Running(f, S)[S] = f[OneOf(S)] + Running(f, S)[r]
  BY <1>2, SumStep
<1> HIDE DEF r
<1>4. Running(f, S)[r] = Running(f, r)[r]
  <2> DEFINE g == Running(f, S)
             h == Running(f, r)
  <2>1. IsSum(g, f, S) /\ IsSum(h, f, r) /\ r \subseteq r
    BY <1>2
  <2> HIDE DEF g, h
  <2>2. g[r] = h[r]
    BY <1>1, <2>1, SumsAgree
  <2> QED
    BY <2>2 DEF g, h
<1> QED
  BY <1>3, <1>4, SumUnfolds DEF r

\* Whichever member is taken first.
LEMMA SumOf ==
  ASSUME NEW S, IsFiniteSet(S), NEW f, \A i \in S : f[i] \in Int
  PROVE  /\ SumFunctionOnSet(f, S) \in Int
         /\ \A x \in S : SumFunctionOnSet(f, S) = f[x] + SumFunctionOnSet(f, S \ {x})
<1> DEFINE sum(T) == SumFunctionOnSet(f, T)
           Good == {T \in SUBSET S : sum(T) \in Int /\ \A x \in T : sum(T) = f[x] + sum(T \ {x})}
<1>1. ASSUME NEW T \in SUBSET S, \A W \in SUBSET T : W # T => W \in Good
      PROVE  T \in Good
  <2>1. CASE T = {}
    BY <2>1, SumOfNone
  <2>2. CASE T # {}
    <3> DEFINE c == OneOf(T)
    <3>1. c \in T /\ IsFiniteSet(T)
      BY <2>2, OneOfIsIn, FS_Subset
    <3>2. sum(T) = f[c] + sum(T \ {c})
      BY <2>2, <3>1, SumOfOneOf
    <3> HIDE DEF c, sum
    <3>3. T \ {c} \in Good
      BY <1>1, <3>1
    <3>4. sum(T) \in Int
      BY <3>1, <3>2, <3>3
    <3>5. ASSUME NEW x \in T, x # c
          PROVE  sum(T) = f[x] + sum(T \ {x})
      <4> DEFINE rest == T \ {c, x}
      <4>1. T \ {x} \in Good /\ rest \in Good
        BY <1>1
      <4>2. rest = (T \ {c}) \ {x} /\ rest = (T \ {x}) \ {c}
        OBVIOUS
      <4> HIDE DEF rest
      <4>3. sum(T \ {c}) = f[x] + sum(rest)
        BY <3>3, <3>5, <4>2
      <4>4. sum(T \ {x}) = f[c] + sum(rest)
        BY <3>1, <3>5, <4>1, <4>2
      <4>5. sum(rest) \in Int /\ f[x] \in Int /\ f[c] \in Int
        BY <3>1, <4>1
      <4> QED
        BY <3>2, <4>3, <4>4, <4>5
    <3> QED
      BY <3>2, <3>4, <3>5
  <2> QED
    BY <2>1, <2>2
<1> HIDE DEF Good
<1>2. S \in Good
  BY <1>1, SubsetInduction
<1> QED
  BY <1>2 DEF Good

\* A sum is at most as many times the most of a term as there are terms.
LEMMA SumWithin ==
  ASSUME NEW S, IsFiniteSet(S), NEW top \in Nat, NEW f, \A i \in S : f[i] \in 0..top
  PROVE  SumFunctionOnSet(f, S) \in 0..Cardinality(S) * top
<1> DEFINE sum(T) == SumFunctionOnSet(f, T)
           Good == {T \in SUBSET S : sum(T) \in 0..Cardinality(T) * top}
<1>1. ASSUME NEW T \in SUBSET S, \A W \in SUBSET T : W # T => W \in Good
      PROVE  T \in Good
  <2>1. CASE T = {}
    BY <2>1, SumOfNone, FS_EmptySet
  <2>2. CASE T # {}
    <3>1. PICK x \in T : TRUE
      BY <2>2
    <3>2. IsFiniteSet(T) /\ \A i \in T : f[i] \in Int
      BY FS_Subset
    <3>3. sum(T) = f[x] + sum(T \ {x}) /\ sum(T) \in Int
      BY <3>2, SumOf
    <3>4. Cardinality(T \ {x}) = Cardinality(T) - 1 /\ Cardinality(T) \in Nat
      BY <3>2, FS_RemoveElement, FS_CardinalityType
    <3> HIDE DEF sum
    <3>5. sum(T \ {x}) \in 0..Cardinality(T \ {x}) * top
      BY <1>1
    <3>6. (Cardinality(T) - 1) * top = Cardinality(T) * top - top
      BY <3>4
    <3>7. Cardinality(T) * top \in Nat /\ f[x] \in 0..top
      BY <3>4
    <3> QED
      BY <3>3, <3>4, <3>5, <3>6, <3>7
  <2> QED
    BY <2>1, <2>2
<1> HIDE DEF Good
<1>2. S \in Good
  BY <1>1, SubsetInduction
<1> QED
  BY <1>2 DEF Good

\* Over parts of a set that are apart, it is bounded by the size of the set.
LEMMA SumOverParts ==
  ASSUME NEW S, IsFiniteSet(S), NEW B, IsFiniteSet(B), NEW top \in Nat,
         NEW part, \A b \in B : part[b] \subseteq S,
         \A b, c \in B : b # c => part[b] \cap part[c] = {},
         NEW f, \A b \in B : f[b] \in Int /\ f[b] <= Cardinality(part[b]) * top
  PROVE  SumFunctionOnSet(f, B) <= Cardinality(S) * top
<1> DEFINE sum(T) == SumFunctionOnSet(f, T)
           all(T) == UNION {part[b] : b \in T}
           Good == {T \in SUBSET B : sum(T) <= Cardinality(all(T)) * top}
<1>1. \A T \in SUBSET B : IsFiniteSet(T) /\ all(T) \subseteq S
  BY FS_Subset
<1>2. \A T \in SUBSET B : IsFiniteSet(all(T)) /\ Cardinality(all(T)) \in Nat
  BY <1>1, FS_Subset, FS_CardinalityType
<1>3. \A T \in SUBSET B : sum(T) \in Int
  BY <1>1, SumOf
<1>4. ASSUME NEW T \in SUBSET B, \A W \in SUBSET T : W # T => W \in Good
      PROVE  T \in Good
  <2>1. CASE T = {}
    <3>1. sum(T) = 0 /\ Cardinality(all(T)) \in Nat
      BY <1>2, <2>1, SumOfNone
    <3> HIDE DEF sum, all
    <3> QED
      BY <3>1
  <2>2. CASE T # {}
    <3>1. PICK x \in T : TRUE
      BY <2>2
    <3> DEFINE rest == T \ {x}
    <3>2. sum(T) = f[x] + sum(rest)
      BY <1>1, SumOf
    <3>3. rest \in SUBSET B /\ rest \in Good
      BY <1>4, <3>1
    <3>4. all(T) = all(rest) \union part[x] /\ all(rest) \cap part[x] = {}
      BY <3>1
    <3>5. IsFiniteSet(part[x]) /\ Cardinality(part[x]) \in Nat
      BY <3>1, FS_Subset, FS_CardinalityType
    <3>6. IsFiniteSet(all(rest))
      BY <1>2, <3>3
    <3> HIDE DEF all, sum, rest
    <3>7. Cardinality(all(T)) = Cardinality(all(rest)) + Cardinality(part[x])
      <4>1. Cardinality(all(rest) \cap part[x]) = 0
        BY <3>4, FS_EmptySet
      <4>2. /\ Cardinality(all(rest) \union part[x]) =
                 Cardinality(all(rest)) + Cardinality(part[x]) - Cardinality(all(rest) \cap part[x])
            /\ Cardinality(all(rest)) \in Nat
        BY <3>5, <3>6, FS_Union, FS_CardinalityType
      <4> QED
        BY <3>4, <3>5, <4>1, <4>2
    <3>8. sum(rest) <= Cardinality(all(rest)) * top
      BY <3>3
    <3>9. f[x] <= Cardinality(part[x]) * top /\ f[x] \in Int
      BY <3>1
    <3>10. /\ Cardinality(all(rest)) \in Nat /\ Cardinality(all(T)) \in Nat
           /\ sum(rest) \in Int
      BY <1>2, <1>3, <3>3
    <3>11. (Cardinality(all(rest)) + Cardinality(part[x])) * top =
             Cardinality(all(rest)) * top + Cardinality(part[x]) * top
      BY <3>5, <3>10
    <3>12. Cardinality(all(rest)) * top \in Int /\ Cardinality(part[x]) * top \in Int
      BY <3>5, <3>10
    <3>13. sum(T) <= Cardinality(all(T)) * top
      BY <3>2, <3>7, <3>8, <3>9, <3>10, <3>11, <3>12
    <3> QED
      BY <3>13
  <2> QED
    BY <2>1, <2>2
<1>5. B \in Good
  <2> HIDE DEF Good
  <2> QED
    BY <1>4, SubsetInduction
<1>6. Cardinality(all(B)) <= Cardinality(S)
  BY <1>1, FS_Subset
<1>7. Cardinality(S) \in Nat /\ Cardinality(all(B)) \in Nat /\ sum(B) \in Int
  BY <1>2, <1>3, FS_CardinalityType
<1>8. sum(B) <= Cardinality(all(B)) * top
  BY <1>5
<1> HIDE DEF sum, all
<1>9. Cardinality(all(B)) * top <= Cardinality(S) * top
  BY <1>6, <1>7
<1>10. sum(B) <= Cardinality(S) * top
  BY <1>7, <1>8, <1>9
<1> QED
  BY <1>10 DEF sum

-----------------------------------------------------------------------------
(* The numbers of a report.                                                *)

\* The scores of a file: a release of the artifact over texts of the sources.
FileOf(p, file) ==
  /\ DOMAIN file.texts = DOMAIN file.ids
  /\ file.weights \in Releases[p.ref]
  /\ \A i \in DOMAIN file.texts : file.texts[i] \in Texts

\* What a report may say of a pair.
Sound(o) ==
  /\ o.disposition \in {"DECIDED", "ESCALATE_G4", "ROUTE_HUMAN"}
  /\ Scored(o) => o.confidence \in 0..Scale


\* A pair is sent somewhere, and what settles it with a confidence is a support.
LEMMA CascadeSound ==
  ASSUME NEW t, NEW a, {a.forward.support, a.backward.support} \subseteq 0..Scale,
         a.evidence.A # None => a.evidence.A.support \in 0..Scale
  PROVE  LET o == Cascade(t)!RunCascade(a)
         IN  /\ o.disposition \in {"DECIDED", "ESCALATE_G4", "ROUTE_HUMAN"}
             /\ o.confidence # None /\ o.verdict # None => o.confidence \in 0..Scale
<1> DEFINE g2 == Cascade(t)!ReplayG2(a)
           first == Cascade(t)!DecideG1(a.g1)
           second == Cascade(t)!DecideG2(g2)
           third == Cascade(t)!DecideG3(a.g1.bare, a.g3)
<1>1. Cascade(t)!BestSupport(g2) \in 0..Scale
  BY GoBarAssumption DEF Cascade!BestSupport, Cascade!ReplayG2, Cascade!MaxOf
<1>2. /\ first.disposition \in {"FORWARD", "DECIDED", "ESCALATE_G4"}
      /\ first.confidence = None
  BY DEF Cascade!DecideG1, Cascade!Decision, Cascade!Forward
<1>3. /\ second.disposition \in {"FORWARD", "DECIDED"}
      /\ second.confidence \in 0..Scale \union {None}
  BY <1>1 DEF Cascade!DecideG2, Cascade!Decision, Cascade!Forward
<1>4. /\ third.disposition \in {"DECIDED", "ESCALATE_G4", "ROUTE_HUMAN"}
      /\ third.confidence = None \/ third.verdict = None
  BY DEF Cascade!DecideG3, Cascade!Decision
<1> HIDE DEF first, second, third
<1>5. Cascade(t)!RunCascade(a) =
        IF first.disposition # "FORWARD" THEN Cascade(t)!Outcome(first, "G1", FALSE)
        ELSE IF ~first.flag /\ second.disposition # "FORWARD"
          THEN Cascade(t)!Outcome(second, "G2", FALSE)
        ELSE Cascade(t)!Outcome(third, "G3", first.flag)
  BY DEF Cascade!RunCascade, first, second, third, g2
<1> QED
  BY <1>2, <1>3, <1>4, <1>5 DEF Cascade!Outcome

LEMMA PassesOfTable ==
  ASSUME NEW r \in 1..Len(Rosters), NEW slot \in Slots
  PROVE  /\ PassesOf(Rosters[r])[slot] \in Passes
         /\ PassesOf(Rosters[r])[slot].ref \in Refs
         /\ PassesOf(Rosters[r])[2].task = "grounding"
BY DEF Passes, PassesOf, Refs, Slots

\* Over three files of this roster's artifacts, a replay is sound.
LEMMA ReplaySound ==
  ASSUME NEW r \in 1..Len(Rosters), NEW lines, NEW got, NEW t,
         FileOf(PassesOf(Rosters[r])[2], got[2]), DOMAIN got[2].texts = DOMAIN lines
  PROVE  LET outcomes == Replay(lines, Rosters[r], got, t)
         IN  \A i \in DOMAIN outcomes : Sound(outcomes[i])
<1> DEFINE table == Rosters[r]
           p == PassesOf(table)[2]
           answer(i) == Says(p, got[2].weights, got[2].texts[i])
           pair(i) == PairScores(table, got, i)
           o(i) == Cascade(t)!RunCascade(pair(i))
<1>1. SUFFICES ASSUME NEW i \in DOMAIN lines
               PROVE  Sound(Replay(lines, table, got, t)[i])
  BY DEF Replay
<1>2. p \in Passes /\ p.task = "grounding"
  BY PassesOfTable DEF Slots
<1>3. /\ {answer(i).forward.support, answer(i).backward.support} \subseteq 0..Scale
      /\ answer(i).grounded # None => answer(i).grounded.support \in 0..Scale
  BY <1>2, SupportAssumption DEF FileOf
<1>4. /\ pair(i).forward = answer(i).forward
      /\ pair(i).backward = answer(i).backward
      /\ pair(i).evidence.A = answer(i).grounded
  BY DEF PairScores
<1> HIDE DEF answer, pair
<1>5. /\ {pair(i).forward.support, pair(i).backward.support} \subseteq 0..Scale
      /\ pair(i).evidence.A # None => pair(i).evidence.A.support \in 0..Scale
  BY <1>3, <1>4
<1>6. /\ o(i).disposition \in {"DECIDED", "ESCALATE_G4", "ROUTE_HUMAN"}
      /\ o(i).confidence # None /\ o(i).verdict # None => o(i).confidence \in 0..Scale
  BY <1>5, CascadeSound
<1>7. /\ Replay(lines, table, got, t)[i].disposition = o(i).disposition
      /\ Replay(lines, table, got, t)[i].verdict = o(i).verdict
      /\ Replay(lines, table, got, t)[i].confidence = o(i).confidence
  BY DEF Replay, pair
<1> QED
  BY <1>6, <1>7 DEF Sound, Scored

\* The bin of a confidence is its floor, and the last one for a full one.
LEMMA OneBin ==
  ASSUME NEW o, o.confidence \in 0..Scale
  PROVE  \E bin \in 0..Bins - 1 : {b \in 0..Bins - 1 : InBin(b, o)} = {bin}
<1> DEFINE c == o.confidence
<1>1. c \in 0..Scale /\ Scale \in Nat \ {0} /\ Bins \in Nat \ {0}
  BY GoBarAssumption
<1> HIDE DEF c
<1>2. CASE c = Scale
  <2>1. ASSUME NEW b \in 0..Bins - 1
        PROVE  ~(c * Bins < (b + 1) * Scale)
    <3>1. (b + 1) * Scale <= Bins * Scale
      BY <1>1
    <3> QED
      BY <1>1, <1>2, <3>1
  <2>2. \A b \in 0..Bins - 1 : InBin(b, o) <=> b = Bins - 1
    BY <1>2, <2>1 DEF InBin, c
  <2> QED
    BY <1>1, <2>2
<1>3. CASE c < Scale
  <2> DEFINE above == {q \in Nat : c * Bins < (q + 1) * Scale}
  <2>1. Bins - 1 \in above
    <3>1. c * Bins < Scale * Bins
      BY <1>1, <1>3
    <3> QED
      BY <1>1, <3>1
  <2>2. PICK q \in above : \A x \in above : q <= x
    <3>1. above \subseteq Nat /\ above # {}
      BY <2>1
    <3> QED
      BY <3>1, LeastNatural
  <2>3. q \in 0..Bins - 1 /\ c * Bins < (q + 1) * Scale
    BY <1>1, <2>1, <2>2
  <2>4. q * Scale <= c * Bins
    <3>1. CASE q = 0
      BY <1>1, <3>1
    <3>2. CASE q # 0
      <4>1. q - 1 \in Nat /\ q - 1 \notin above
        BY <2>2, <3>2
      <4> QED
        BY <1>1, <2>2, <4>1
    <3> QED
      BY <3>1, <3>2
  <2>5. ASSUME NEW b \in 0..Bins - 1, b * Scale <= c * Bins, c * Bins < (b + 1) * Scale
        PROVE  b = q
    <3>1. b * Scale < (q + 1) * Scale /\ q * Scale < (b + 1) * Scale
      BY <1>1, <2>3, <2>4, <2>5
    <3>2. \A x \in Int : x * Scale > 0 => x > 0
      BY <1>1
    <3>3. (q + 1 - b) * Scale > 0 /\ (b + 1 - q) * Scale > 0
      BY <1>1, <3>1
    <3>4. q + 1 - b > 0 /\ b + 1 - q > 0
      BY <3>2, <3>3
    <3> QED
      BY <2>3, <3>4
  <2>6. \A b \in 0..Bins - 1 : InBin(b, o) <=> b = q
    BY <1>1, <1>3, <2>3, <2>4, <2>5 DEF InBin, c
  <2> QED
    BY <2>3, <2>6
<1> QED
  BY <1>1, <1>2, <1>3

\* No bin is further off than its members can be: the calibration error is at most one.
LEMMA CalibrationBounded ==
  ASSUME NEW outcomes, IsSeq(outcomes), \A i \in DOMAIN outcomes : Sound(outcomes[i])
  PROVE  ~Exceeds(CalibrationError(outcomes), Ratio(1, 1))
<1> DEFINE scored == Those(outcomes, Scored)
           bins == 0..Bins - 1
           confidences == [i \in scored |-> outcomes[i].confidence]
           part == [bin \in bins |-> {i \in scored : InBin(bin, outcomes[i])}]
           hits(bin) == Cardinality({i \in part[bin] : Agrees(outcomes[i])})
           sure(bin) == SumFunctionOnSet(confidences, part[bin])
           gaps == [bin \in bins |-> Distance(hits(bin) * Scale, sure(bin))]
<1>1. CalibrationError(outcomes) = Ratio(SumFunctionOnSet(gaps, bins), Cardinality(scored) * Scale)
  BY DEF CalibrationError, SumFunction
<1>2. Scale \in Nat \ {0} /\ Bins \in Nat \ {0}
  BY GoBarAssumption
<1>3. IsFiniteSet(bins)
  BY <1>2, FS_Interval
<1>4. IsFiniteSet(scored) /\ scored \subseteq DOMAIN outcomes
  <2>1. DOMAIN outcomes = 1..Len(outcomes) /\ Len(outcomes) \in Nat
    BY DEF IsSeq
  <2>2. scored \subseteq DOMAIN outcomes
    BY DEF Those
  <2>3. IsFiniteSet(1..Len(outcomes))
    BY <2>1, FS_Interval
  <2> HIDE DEF scored
  <2> QED
    BY <2>1, <2>2, <2>3, FS_Subset
<1>5. \A i \in scored : confidences[i] \in 0..Scale /\ outcomes[i].confidence \in 0..Scale
  BY DEF Those, Sound
<1>6. \A b \in bins : part[b] \subseteq scored
  OBVIOUS
<1>7. \A b, c \in bins : b # c => part[b] \cap part[c] = {}
  <2> SUFFICES ASSUME NEW b \in bins, NEW c \in bins, NEW i \in part[b], i \in part[c]
               PROVE  b = c
    OBVIOUS
  <2>1. PICK bin : {x \in bins : InBin(x, outcomes[i])} = {bin}
    BY <1>5, OneBin
  <2> QED
    BY <2>1
<1> HIDE DEF bins, scored, confidences
<1>8. ASSUME NEW b \in bins
      PROVE  gaps[b] \in Int /\ gaps[b] <= Cardinality(part[b]) * Scale
  <2>1. IsFiniteSet(part[b]) /\ Cardinality(part[b]) \in Nat
    BY <1>4, <1>6, FS_Subset, FS_CardinalityType
  <2>2. sure(b) \in 0..Cardinality(part[b]) * Scale
    BY <1>2, <1>5, <1>6, <2>1, SumWithin
  <2>3. hits(b) \in Nat /\ hits(b) <= Cardinality(part[b])
    <3> DEFINE agreed == {i \in part[b] : Agrees(outcomes[i])}
    <3>1. agreed \subseteq part[b]
      OBVIOUS
    <3> HIDE DEF part, agreed
    <3>2. IsFiniteSet(agreed) /\ Cardinality(agreed) <= Cardinality(part[b])
      BY <2>1, <3>1, FS_Subset
    <3> QED
      BY <3>2, FS_CardinalityType DEF agreed
  <2>4. gaps[b] = Distance(hits(b) * Scale, sure(b))
    OBVIOUS
  <2> HIDE DEF hits, sure, gaps, part
  <2>5. hits(b) * Scale \in 0..Cardinality(part[b]) * Scale
    BY <1>2, <2>1, <2>3
  <2>6. Cardinality(part[b]) * Scale \in Nat
    BY <1>2, <2>1
  <2> QED
    BY <2>2, <2>4, <2>5, <2>6 DEF Distance
<1> HIDE DEF gaps, part
<1>9. SumFunctionOnSet(gaps, bins) <= Cardinality(scored) * Scale
  BY <1>2, <1>3, <1>4, <1>6, <1>7, <1>8, SumOverParts
<1>10. SumFunctionOnSet(gaps, bins) \in Int /\ Cardinality(scored) * Scale \in Int
  BY <1>2, <1>3, <1>4, <1>8, SumOf, FS_CardinalityType
<1> QED
  BY <1>1, <1>9, <1>10 DEF Exceeds, Ratio

LEMMA SoundAddsUp ==
  ASSUME NEW outcomes, IsSeq(outcomes), \A i \in DOMAIN outcomes : Sound(outcomes[i])
  PROVE  /\ Volumes(outcomes).undecided.num = 0
         /\ \A i \in Those(outcomes, Scored) :
              Cardinality({bin \in 0..Bins - 1 : InBin(bin, outcomes[i])}) = 1
         /\ ~Exceeds(CalibrationError(outcomes), Ratio(1, 1))
<1>1. Volumes(outcomes).undecided.num = 0
  <2> DEFINE lost == {i \in DOMAIN outcomes :
                        ~(outcomes[i].disposition \in {"DECIDED", "ESCALATE_G4", "ROUTE_HUMAN"})}
  <2>1. lost = {}
    BY DEF Sound
  <2>2. Volumes(outcomes).undecided = Ratio(Cardinality(lost), Len(outcomes))
    BY DEF Volumes, Count, Those
  <2>3. Cardinality(lost) = 0
    BY <2>1, FS_EmptySet
  <2> QED
    BY <2>2, <2>3 DEF Ratio
<1>2. ASSUME NEW i \in Those(outcomes, Scored)
      PROVE  Cardinality({bin \in 0..Bins - 1 : InBin(bin, outcomes[i])}) = 1
  <2>1. outcomes[i].confidence \in 0..Scale
    BY DEF Those, Sound
  <2>2. PICK bin \in 0..Bins - 1 : {b \in 0..Bins - 1 : InBin(b, outcomes[i])} = {bin}
    BY <2>1, OneBin
  <2> QED
    BY <2>2, FS_Singleton
<1> QED
  BY <1>1, <1>2, CalibrationBounded

(***************************************************************************)
(* Where the scores of a report come from: every text is one of the        *)
(* sources', through the corpus, the records and the score cache, and      *)
(* every score is a release's of the artifact it is filed under.  A line   *)
(* that is torn is the last, and its whole is still to be written.         *)
(***************************************************************************)
Unbroken(line) == line # Torn /\ line.text \in Texts

LinesInv ==
  /\ IsSeq(pending) /\ \A i \in DOMAIN pending : Unbroken(pending[i])
  /\ \A i \in DOMAIN corpus : IF corpus[i] = Torn THEN i = Len(corpus) /\ pending # <<>>
                              ELSE corpus[i].text \in Texts
  /\ \A i \in DOMAIN records : records[i].text \in Texts

LoadedInv ==
  /\ DOMAIN mirror = Refs /\ DOMAIN loaded = Refs
  /\ \A ref \in Refs : mirror[ref] \in Releases[ref] /\ loaded[ref] \in Releases[ref] \union {None}

FiledInv ==
  /\ \A p \in DOMAIN cache : cache[p] # Torn => FileOf(p, cache[p])
  /\ pc = "write" => FileOf(ThisPass, held)
  /\ pc \in Scoring => \A k \in DOMAIN scores : FileOf(PassesOf(Rosters[roster])[k], scores[k])
  /\ DOMAIN reports \subseteq 1..Len(Rosters)
  /\ \A r \in DOMAIN reports, p \in Slots :
       FileOf(PassesOf(Rosters[r])[p], reports[r].scores[p])

SourcedInv == LinesInv /\ LoadedInv /\ FiledInv

LEMMA TailIsSeq ==
  ASSUME NEW s, IsSeq(s), s # <<>>
  PROVE  /\ IsSeq(Tail(s)) /\ 1 \in DOMAIN s /\ Head(s) = s[1]
         /\ \A i \in DOMAIN Tail(s) : \E j \in DOMAIN s : Tail(s)[i] = s[j]
<1> DEFINE S == {s[i] : i \in DOMAIN s}
           t == Tail(s)
<1>1. s \in Seq(S) /\ DOMAIN s = 1..Len(s) /\ Len(s) \in Nat
  BY DEF IsSeq
<1> HIDE DEF S
<1>2. Len(s) # 0
  BY <1>1
<1>3. t \in Seq(S) /\ Len(t) = Len(s) - 1 /\ \A i \in 1..Len(t) : t[i] = s[i + 1]
  BY <1>1, <1>2
<1> HIDE DEF t
<1>4. t \in Seq({t[i] : i \in DOMAIN t})
  BY <1>3
<1>5. \A i \in DOMAIN t : i + 1 \in DOMAIN s /\ t[i] = s[i + 1]
  BY <1>1, <1>3
<1>6. Head(s) = s[1] /\ 1 \in DOMAIN s
  BY <1>1, <1>2
<1> QED
  BY <1>4, <1>5, <1>6 DEF IsSeq, t

LEMMA SourcedInit == Init => SourcedInv
<1> SUFFICES ASSUME Init
             PROVE  SourcedInv
  OBVIOUS
<1>1. \A i \in DOMAIN corpus : Unbroken(corpus[i])
  BY ExportAssumption, EmptyIsSeq DEF Init, Unbroken
<1>2. LinesInv
  BY <1>1, EmptyIsSeq DEF Init, LinesInv, Unbroken
<1>3. LoadedInv
  BY DEF Init, LoadedInv, Mirrors
<1>4. FiledInv
  BY EmptyIsSeq DEF Init, FiledInv, Scoring
<1> QED
  BY <1>2, <1>3, <1>4 DEF SourcedInv

LEMMA CutRecords ==
  ASSUME NEW lines, IsSeq(lines), NEW limit \in Nat
  PROVE  \A i \in DOMAIN Cut(lines, limit) : i \in DOMAIN lines /\ Cut(lines, limit)[i] = lines[i]
<1>1. CASE limit \in 1..Len(lines)
  <2>1. lines \in Seq({lines[i] : i \in DOMAIN lines}) /\ DOMAIN lines = 1..Len(lines)
    BY DEF IsSeq
  <2>2. /\ DOMAIN SubSeq(lines, 1, limit) = 1..limit
        /\ \A i \in 1..limit : SubSeq(lines, 1, limit)[i] = lines[i]
    BY <1>1, <2>1
  <2> QED
    BY <1>1, <2>1, <2>2 DEF Cut
<1>2. CASE limit \notin 1..Len(lines)
  BY <1>2 DEF Cut
<1> QED
  BY <1>1, <1>2

LEMMA LinesStep ==
  ASSUME ChoiceInv, LinesInv, [Next]_vars
  PROVE  LinesInv'
<1>1. ASSUME NEW source \in Sources, NEW hydrate \in BOOLEAN, OpenCorpus(source, hydrate)
      PROVE  LinesInv'
  <2> DEFINE e == ExportCorpus(source, hydrate)
  <2>1. IsSeq(e) /\ \A i \in DOMAIN e : Unbroken(e[i])
    BY ExportAssumption DEF IsSeq, Unbroken
  <2>2. corpus' = <<>> /\ pending' = e /\ records' = records
    BY <1>1 DEF OpenCorpus, run
  <2> HIDE DEF e
  <2> QED
    BY <2>1, <2>2, EmptyIsSeq DEF LinesInv, IsSeq
<1>2. CASE BeginLine
  <2>1. /\ corpus' = Append(corpus, Torn) /\ pending # <<>> /\ Whole(corpus)
        /\ UNCHANGED <<pending, records>>
    BY <1>2 DEF BeginLine, run
  <2>2. /\ Len(corpus') = Len(corpus) + 1 /\ DOMAIN corpus' = 1..Len(corpus')
        /\ DOMAIN corpus = 1..Len(corpus) /\ Len(corpus) \in Nat
        /\ \A i \in DOMAIN corpus' :
             IF i \in DOMAIN corpus THEN corpus'[i] = corpus[i] ELSE corpus'[i] = Torn
    BY <2>1, Appended DEF ChoiceInv, IsSeq
  <2>3. \A i \in DOMAIN corpus' : IF corpus'[i] = Torn THEN i = Len(corpus') /\ pending' # <<>>
                                  ELSE corpus'[i].text \in Texts
    BY <2>1, <2>2 DEF LinesInv, Whole
  <2> QED
    BY <2>1, <2>3 DEF LinesInv, IsSeq
<1>3. CASE EndLine
  <2>1. /\ corpus' = [corpus EXCEPT ![Len(corpus)] = Head(pending)] /\ pending' = Tail(pending)
        /\ ~Whole(corpus) /\ records' = records
    BY <1>3 DEF EndLine, run
  <2>2. pending # <<>>
    BY <2>1 DEF LinesInv, Whole
  <2>3. /\ IsSeq(pending') /\ Unbroken(Head(pending))
        /\ \A i \in DOMAIN pending' : \E j \in DOMAIN pending : pending'[i] = pending[j]
    BY <2>1, <2>2, TailIsSeq DEF LinesInv
  <2>4. \A i \in DOMAIN pending' : Unbroken(pending'[i])
    BY <2>3 DEF LinesInv
  <2>5. /\ DOMAIN corpus' = DOMAIN corpus
        /\ \A i \in DOMAIN corpus :
             corpus'[i] = IF i = Len(corpus) THEN Head(pending) ELSE corpus[i]
    BY <2>1
  <2>6. \A i \in DOMAIN corpus' : corpus'[i] # Torn /\ corpus'[i].text \in Texts
    BY <2>3, <2>5 DEF LinesInv, Unbroken
  <2> QED
    BY <2>1, <2>3, <2>4, <2>6 DEF LinesInv
<1>4. ASSUME NEW limit \in Limits, NEW axes \in Grids, Start(limit, axes)
      PROVE  LinesInv'
  <2>1. /\ UNCHANGED <<corpus, pending>>
        /\ records' = <<>> \/ (Whole(corpus) /\ records' = Cut(corpus, limit))
    BY <1>4 DEF Start, files, exports
  <2>2. \A i \in DOMAIN records' : records'[i].text \in Texts
    <3>1. CASE records' = <<>>
      BY <3>1, EmptyIsSeq
    <3>2. CASE Whole(corpus) /\ records' = Cut(corpus, limit)
      <4>1. limit \in Nat /\ IsSeq(corpus)
        BY BakeOffAssumption DEF ChoiceInv
      <4>2. \A i \in DOMAIN records' : i \in DOMAIN corpus /\ records'[i] = corpus[i]
        BY <3>2, <4>1, CutRecords
      <4> QED
        BY <3>2, <4>2 DEF LinesInv, Whole
    <3> QED
      BY <2>1, <3>1, <3>2
  <2> QED
    BY <2>1, <2>2 DEF LinesInv, IsSeq
<1>5. CASE \/ \E ref \in Refs : \E release \in Releases[ref] : Mirror(ref, release)
           \/ Score \/ Kill \/ UNCHANGED vars
  <2>1. UNCHANGED <<corpus, pending, records>>
    <3>1. CASE Score
      BY <3>1 DEF Score, ReadHit, ReadTorn, Infer, OpenFile, FillFile, Report, Archive, files, exports, run
    <3>2. CASE \/ \E ref \in Refs : \E release \in Releases[ref] : Mirror(ref, release)
               \/ Kill \/ UNCHANGED vars
      BY <3>2 DEF Mirror, Kill, files, exports, run, vars
    <3> QED
      BY <1>5, <3>1, <3>2
  <2> QED
    BY <2>1 DEF LinesInv, IsSeq
<1> QED
  BY <1>1, <1>2, <1>3, <1>4, <1>5 DEF Next

\* What the loader returns is a release of the artifact.
LEMMA LoadsARelease ==
  ASSUME LoadedInv, NEW ref \in Refs
  PROVE  Load(ref) \in Releases[ref]
BY DEF LoadedInv, Load

LEMMA LoadedStep ==
  ASSUME BakeOffInv, LoadedInv, [Next]_vars
  PROVE  LoadedInv'
<1>1. ASSUME NEW ref \in Refs, NEW release \in Releases[ref], Mirror(ref, release)
      PROVE  LoadedInv'
  BY <1>1 DEF Mirror, LoadedInv, run
<1>2. ASSUME NEW limit \in Limits, NEW axes \in Grids, Start(limit, axes)
      PROVE  LoadedInv'
  BY <1>2 DEF Start, LoadedInv, files
<1>3. CASE Infer
  <2>1. ThisPass.ref \in Refs
    BY <1>3, ThisPassIsOne DEF Infer, BakeOffInv, TypeInv, Refs
  <2>2. /\ loaded' = [loaded EXCEPT ![ThisPass.ref] = Load(ThisPass.ref)] /\ mirror' = mirror
        /\ Load(ThisPass.ref) \in Releases[ThisPass.ref]
    BY <1>3, <2>1, LoadsARelease DEF Infer, files
  <2> QED
    BY <2>1, <2>2 DEF LoadedInv
<1>4. CASE Report
  <2>1. /\ mirror' = mirror
        /\ \E refs : loaded' = [ref \in Refs |-> IF ref \in refs THEN Load(ref) ELSE loaded[ref]]
    BY <1>4 DEF Report, files
  <2> QED
    BY <2>1, LoadsARelease DEF LoadedInv
<1>5. CASE \/ \E source \in Sources, hydrate \in BOOLEAN : OpenCorpus(source, hydrate)
           \/ BeginLine \/ EndLine \/ ReadHit \/ ReadTorn \/ OpenFile \/ FillFile \/ Archive \/ Kill
           \/ UNCHANGED vars
  <2>1. UNCHANGED <<mirror, loaded>>
    BY <1>5 DEF OpenCorpus, BeginLine, EndLine, ReadHit, ReadTorn, OpenFile, FillFile, Archive, Kill,
                files, run, vars
  <2> QED
    BY <2>1 DEF LoadedInv
<1> QED
  BY <1>1, <1>2, <1>3, <1>4, <1>5 DEF Next, Score

\* A pass that is got, from the cache or from the models, is filed under its artifact.
LEMMA FiledNextPass ==
  ASSUME BakeOffInv, FiledInv, pc \in {"read", "write"}, NEW got, FileOf(ThisPass, got), NextPass(got),
         UNCHANGED <<roster, reports>>,
         \A p \in DOMAIN cache' : cache'[p] # Torn => FileOf(p, cache'[p])
  PROVE  FiledInv'
<1>1. /\ Len(scores) = pass - 1 /\ pass \in Slots /\ pc \in Scoring /\ IsSeq(scores)
      /\ scores' = Append(scores, got) /\ pc' # "write"
  BY DEF BakeOffInv, TypeInv, ScoredOverTheCorpus, NextPass, Scoring
<1>2. /\ DOMAIN scores = 1..(pass - 1) /\ DOMAIN scores' = 1..pass
      /\ \A k \in DOMAIN scores' :
           IF k \in DOMAIN scores THEN scores'[k] = scores[k] ELSE scores'[k] = got
  BY <1>1, Appended DEF IsSeq, Slots
<1>3. ASSUME NEW k \in DOMAIN scores'
      PROVE  FileOf(PassesOf(Rosters[roster])[k], scores'[k])
  <2>1. CASE k \in DOMAIN scores
    BY <1>1, <1>2, <2>1 DEF FiledInv
  <2>2. CASE k \notin DOMAIN scores
    <3>1. k = pass
      BY <1>1, <1>2, <2>2 DEF Slots
    <3> QED
      BY <1>2, <2>2, <3>1 DEF ThisPass
  <2> QED
    BY <2>1, <2>2
<1> QED
  BY <1>1, <1>3 DEF FiledInv

LEMMA FiledStep ==
  ASSUME BakeOffInv, ChoiceInv, LinesInv, LoadedInv, FiledInv, [Next]_vars
  PROVE  FiledInv'
<1>1. CASE \/ \E source \in Sources, hydrate \in BOOLEAN : OpenCorpus(source, hydrate)
           \/ BeginLine \/ EndLine
           \/ \E ref \in Refs : \E release \in Releases[ref] : Mirror(ref, release)
           \/ UNCHANGED vars
  <2>1. UNCHANGED <<cache, run>>
    BY <1>1 DEF OpenCorpus, BeginLine, EndLine, Mirror, vars, files
  <2> QED
    BY <2>1 DEF FiledInv, ThisPass, run
<1>2. ASSUME NEW limit \in Limits, NEW axes \in Grids, Start(limit, axes)
      PROVE  FiledInv'
  <2>1. pc' # "write" /\ cache' = cache /\ scores' = <<>> /\ reports' = <<>>
    BY <1>2 DEF Start, files
  <2> QED
    BY <2>1, EmptyIsSeq DEF FiledInv
<1>3. CASE ReadHit
  <2>1. /\ pc = "read" /\ NextPass(cache[ThisPass]) /\ UNCHANGED <<cache, roster, reports>>
        /\ ThisPass \in DOMAIN cache /\ cache[ThisPass] # Torn
    BY <1>3 DEF ReadHit, CutShort, Fits, files
  <2> QED
    BY <2>1, FiledNextPass DEF FiledInv
<1>4. CASE Infer
  <2>1. ThisPass.ref \in Refs /\ ThisPass' = ThisPass
    BY <1>4, ThisPassIsOne DEF Infer, BakeOffInv, TypeInv, Refs, ThisPass
  <2>2. /\ held' = [ids |-> Ids(records), texts |-> TextsOf(records), weights |-> Load(ThisPass.ref)]
        /\ pc' = "write" /\ pc = "read" /\ UNCHANGED <<cache, roster, scores, reports>>
    BY <1>4, <2>1 DEF Infer, LoadedInv, files
  <2>3. FileOf(ThisPass, held')
    BY <2>1, <2>2, LoadsARelease DEF FileOf, Ids, TextsOf, LinesInv
  <2> QED
    BY <2>1, <2>2, <2>3 DEF FiledInv, Scoring
<1>5. CASE OpenFile
  <2>1. cache' = Stored(Torn) /\ UNCHANGED run
    BY <1>5 DEF OpenFile
  <2>2. \A p \in DOMAIN cache' : cache'[p] # Torn => p \in DOMAIN cache /\ cache'[p] = cache[p]
    BY <2>1 DEF Stored
  <2>3. \A p \in DOMAIN cache' : cache'[p] # Torn => FileOf(p, cache'[p])
    BY <2>2 DEF FiledInv
  <2> QED
    BY <2>1, <2>3 DEF FiledInv, ThisPass, run
<1>6. CASE FillFile
  <2>1. /\ pc = "write" /\ cache' = Stored(held) /\ NextPass(held) /\ UNCHANGED <<roster, reports>>
        /\ FileOf(ThisPass, held)
    BY <1>6 DEF FillFile, FiledInv
  <2>2. \A p \in DOMAIN cache' : cache'[p] # Torn => FileOf(p, cache'[p])
    BY <2>1 DEF FiledInv, Stored
  <2> QED
    BY <2>1, <2>2, FiledNextPass
<1>7. CASE Report
  <2>1. /\ pc = "report" /\ Len(reports) = roster - 1 /\ roster \in 1..Len(Rosters)
        /\ IsSeq(reports) /\ DOMAIN scores = Slots /\ cache' = cache /\ scores' = <<>> /\ pc' # "write"
    <3>1. pc = "report" /\ cache' = cache /\ scores' = <<>> /\ pc' # "write"
      BY <1>7 DEF Report, files
    <3> QED
      BY <3>1 DEF BakeOffInv, TypeInv, ScoredOverTheCorpus, ChoiceInv, Scoring, IsSeq, Slots
  <2>2. PICK report : reports' = Append(reports, report) /\ report.scores = scores
    BY <1>7 DEF Report
  <2>3. /\ DOMAIN reports = 1..Len(reports) /\ DOMAIN reports' = 1..(Len(reports) + 1)
        /\ \A r \in DOMAIN reports' :
             IF r \in DOMAIN reports THEN reports'[r] = reports[r] ELSE reports'[r] = report
    BY <2>1, <2>2, Appended DEF IsSeq
  <2>4. DOMAIN reports' \subseteq 1..Len(Rosters)
    BY <2>1, <2>3, BakeOffAssumption
  <2>5. ASSUME NEW r \in DOMAIN reports', NEW p \in Slots
        PROVE  FileOf(PassesOf(Rosters[r])[p], reports'[r].scores[p])
    <3>1. CASE r \in DOMAIN reports
      BY <2>3, <3>1 DEF FiledInv
    <3>2. CASE r \notin DOMAIN reports
      <4>1. r = roster
        BY <2>1, <2>3, <3>2
      <4> QED
        BY <2>1, <2>2, <2>3, <3>2, <4>1 DEF FiledInv, Scoring
    <3> QED
      BY <3>1, <3>2
  <2> QED
    BY <2>1, <2>4, <2>5, EmptyIsSeq DEF FiledInv
<1>8. CASE ReadTorn \/ Archive \/ Kill
  <2>1. pc' \notin Scoring /\ UNCHANGED <<cache, reports>>
    BY <1>8 DEF ReadTorn, Archive, Kill, Scoring, files
  <2> QED
    BY <2>1 DEF FiledInv, Scoring
<1> QED
  BY <1>1, <1>2, <1>3, <1>4, <1>5, <1>6, <1>7, <1>8 DEF Next, Score

\* What is reported of a roster is a replay of its files at some thresholds.
LEMMA ReportedIsAReplay ==
  ASSUME NEW lines, NEW axes, NEW table, NEW got, NEW c \in Reported(lines, axes, table, got)
  PROVE  \E t : c.outcomes = Replay(lines, table, got, t)
<1>1. \A d \in GridSearch(lines, axes, table, got) : \E t : d = Candidate(lines, table, got, t)
  BY DEF GridSearch
<1>2. Best(GridSearch(lines, axes, table, got)) \subseteq GridSearch(lines, axes, table, got)
  BY DEF Best
<1>3. \/ c = Candidate(lines, table, got, Base)
      \/ c \in Best(GridSearch(lines, axes, table, got))
  BY Zenon DEF Reported
<1>4. PICK t : c = Candidate(lines, table, got, t)
  BY <1>1, <1>2, <1>3, Zenon
<1>5. c.outcomes = Replay(lines, table, got, t)
  BY <1>4 DEF Candidate
<1> QED
  BY <1>5

LEMMA ReportsAddUp ==
  ASSUME BakeOffInv, ChoiceInv, FiledInv
  PROVE  ReportAddsUp
<1> SUFFICES ASSUME NEW r \in DOMAIN reports
             PROVE  LET outcomes == reports[r].chosen.outcomes
                    IN  /\ Volumes(outcomes).undecided.num = 0
                        /\ \A i \in Those(outcomes, Scored) :
                             Cardinality({bin \in 0..Bins - 1 : InBin(bin, outcomes[i])}) = 1
                        /\ ~Exceeds(CalibrationError(outcomes), Ratio(1, 1))
  BY Zenon DEF ReportAddsUp
<1> DEFINE got == reports[r].scores
           chosen == reports[r].chosen
<1>1. r \in 1..Len(Rosters) /\ IsSeq(records)
  BY DEF FiledInv, ChoiceInv
<1>2. chosen \in Reported(records, grid, Rosters[r], got)
  BY DEF ChoiceInv, ReportsChosen
<1>3. FileOf(PassesOf(Rosters[r])[2], got[2]) /\ got[2].ids = Ids(records)
  BY DEF FiledInv, BakeOffInv, ReportedOverTheCorpus, Slots
<1>4. DOMAIN got[2].texts = DOMAIN records
  BY <1>3 DEF FileOf, Ids
<1>5. PICK t : chosen.outcomes = Replay(records, Rosters[r], got, t)
  BY <1>2, ReportedIsAReplay
<1>6. IsSeq(chosen.outcomes)
  BY <1>1, <1>2, CandidatesOver DEF Over
<1> HIDE DEF got, chosen
<1>7. \A i \in DOMAIN chosen.outcomes : Sound(chosen.outcomes[i])
  BY <1>1, <1>3, <1>4, <1>5, ReplaySound
<1>8. /\ Volumes(chosen.outcomes).undecided.num = 0
      /\ \A i \in Those(chosen.outcomes, Scored) :
           Cardinality({bin \in 0..Bins - 1 : InBin(bin, chosen.outcomes[i])}) = 1
      /\ ~Exceeds(CalibrationError(chosen.outcomes), Ratio(1, 1))
  BY <1>6, <1>7, SoundAddsUp
<1> QED
  BY <1>8 DEF chosen

(***************************************************************************)
(* For any rosters and any releases whose supports are probabilities, over *)
(* any corpora, grids and cached files: no pair is lost from the funnel of *)
(* a report, every confidence is in one bin and the calibration error is   *)
(* at most one (metrics.py: volumes, expected_calibration_error).          *)
(***************************************************************************)
THEOREM NumbersCorrect == Spec => []ReportAddsUp
<1>1. BakeOffInv /\ ChoiceInv /\ SourcedInv => ReportAddsUp
  BY ReportsAddUp DEF SourcedInv
<1>2. BakeOffInv /\ ChoiceInv /\ SourcedInv /\ [Next]_vars => SourcedInv'
  BY LinesStep, LoadedStep, FiledStep DEF SourcedInv
<1> QED
  BY <1>1, <1>2, BakeOffCorrect, ChoiceInit, ChoiceStep, SourcedInit, PTL DEF Spec
=============================================================================
