------------------------------- MODULE BakeOff -------------------------------
(***************************************************************************)
(* The replay bake-off.  An export turns a collection of verdict rows into *)
(* a corpus file, line by line.  A run of scripts/replay_bakeoff.py reads  *)
(* that file, or its first pairs, scores it with the artifacts of every    *)
(* roster, keeps the raw scores in one file per artifact and task, replays *)
(* the gates over them for every cell of a threshold grid, reports, and    *)
(* adopts a roster or none.  Between and during runs the corpus is         *)
(* exported again and artifacts are mirrored again under the same          *)
(* name@version.  One bake-off at a time; it and the exports may be killed *)
(* at any step.                                                            *)
(***************************************************************************)
EXTENDS GoBar

CONSTANTS
  Rosters,      \* the table: a sequence of rosters, each with its g1, g2 and g3 artifact
  Sources,      \* the collections an export may find: sequences of documents
  Limits,       \* what --limit may say; 0 is no limit
  Base, Grids,  \* the configured thresholds, and what --grid may say: axis -> values
  Releases,     \* artifact -> what the prep script may mirror under its name@version
  Says(_, _, _),  \* the answer of a pass with a release to a text
  MaxChanges,   \* bound on exports and mirrors
  Torn

PassesOf(roster) == <<[ref |-> roster.g1, task |-> "nli"], [ref |-> roster.g2, task |-> "grounding"],
                      [ref |-> roster.g3, task |-> "nli"]>>
Slots == 1..3
Passes == {PassesOf(Rosters[r])[p] : r \in 1..Len(Rosters), p \in Slots}
Refs == {pass.ref : pass \in Passes}

ASSUME BakeOffAssumption ==
  /\ Len(Rosters) \in Nat \ {0}
  /\ 0 \in Limits /\ Limits \subseteq Nat /\ MaxChanges \in Nat
  /\ \A axes \in Grids : DOMAIN axes \subseteq DOMAIN Base
  /\ DOMAIN Releases = Refs

Mirrors == {m \in [Refs -> UNION {Releases[ref] : ref \in Refs}] :
              \A ref \in Refs : m[ref] \in Releases[ref]}

VARIABLES
  corpus,     \* the lines of the exported file; the last may be torn
  pending,    \* the lines the running export has still to write
  mirror,     \* artifact -> the release in the mirror
  changes,    \* exports and mirrors so far
  cache,      \* pass -> the file of its scores, where there is one
  pc,         \* what the running bake-off does, or how the last one ended
  records,    \* the corpus it read, cut at --limit
  grid,       \* its --grid
  roster, pass,   \* where it is in the table
  loaded,     \* the releases its loader holds
  held,       \* the scores computed and not yet written
  scores,     \* the passes of this roster so far
  reports,    \* the reports of the rosters so far
  adopted,    \* the report of the roster it adopted, or none
  paid        \* pass -> how often this run has inferred it

exports == <<corpus, pending>>
files == <<exports, mirror, changes, cache>>
run == <<pc, records, grid, roster, pass, loaded, held, scores, reports, adopted, paid>>
vars == <<files, run>>

-----------------------------------------------------------------------------
(* The export.                                                             *)

EnsembleMethods == {"ENSEMBLE", "RULE", "EMBEDDING"}

\* A text that the row lacks is looked up in the graph, when asked to.
Hydrated(document, hydrate) ==
  IF hydrate /\ document.text = None THEN [document EXCEPT !.text = document.graph] ELSE document

Usable(record) == record.text # None /\ record.ensemble # None

Record(document) ==
  [id |-> document.id, text |-> document.text,
   ensemble |-> document.ensemble, golden |-> document.golden]

ExportCorpus(source, hydrate) ==
  LET ours == SelectSeq(source, LAMBDA d : d.method \in EnsembleMethods)
      rows == [i \in DOMAIN ours |-> Record(Hydrated(ours[i], hydrate))]
  IN  SelectSeq(rows, Usable)

\* What the documents say, or their claims in the graph.
Texts == UNION {{source[i].text : i \in DOMAIN source} \union {source[i].graph : i \in DOMAIN source} :
                  source \in Sources}

\* What is selected of a list is a list, of what was in it; no line is a torn one.
ASSUME ExportAssumption ==
  \A source \in Sources, hydrate \in BOOLEAN :
    LET e == ExportCorpus(source, hydrate)
    IN  /\ e \in Seq({e[i] : i \in DOMAIN e})
        /\ \A i \in DOMAIN e : e[i] # Torn /\ e[i].text \in Texts

\* The support of a text is a probability, whichever release is asked.
ASSUME SupportAssumption ==
  \A p \in Passes, text \in Texts : p.task = "grounding" =>
    \A release \in Releases[p.ref] :
      LET answer == Says(p, release, text)
      IN  /\ {answer.forward.support, answer.backward.support} \subseteq 0..Scale
          /\ answer.grounded # None => answer.grounded.support \in 0..Scale

\* Opening the file empties it; an export under way is taken for killed.
OpenCorpus(source, hydrate) ==
  /\ changes < MaxChanges
  /\ corpus' = <<>>
  /\ pending' = ExportCorpus(source, hydrate)
  /\ changes' = changes + 1
  /\ UNCHANGED <<mirror, cache, run>>

Whole(lines) == \A i \in DOMAIN lines : lines[i] # Torn

BeginLine ==
  /\ pending # <<>>
  /\ Whole(corpus)
  /\ corpus' = Append(corpus, Torn)
  /\ UNCHANGED <<pending, mirror, changes, cache, run>>

EndLine ==
  /\ ~Whole(corpus)
  /\ corpus' = [corpus EXCEPT ![Len(corpus)] = Head(pending)]
  /\ pending' = Tail(pending)
  /\ UNCHANGED <<mirror, changes, cache, run>>

Mirror(ref, release) ==
  /\ changes < MaxChanges
  /\ mirror[ref] # release
  /\ mirror' = [mirror EXCEPT ![ref] = release]
  /\ changes' = changes + 1
  /\ UNCHANGED <<exports, cache, run>>

-----------------------------------------------------------------------------
(* One bake-off: the scores.                                               *)

Cut(lines, limit) == IF limit \in 1..Len(lines) THEN SubSeq(lines, 1, limit) ELSE lines

\* json.loads of a torn line raises; without a pair there is nothing to do.
Start(limit, axes) ==
  /\ pc \in {"idle", "done", "died", "refused"}
  /\ pc' = IF ~Whole(corpus) THEN "died" ELSE IF corpus = <<>> THEN "refused" ELSE "read"
  /\ records' = IF pc' = "read" THEN Cut(corpus, limit) ELSE <<>>
  /\ grid' = axes
  /\ roster' = 1
  /\ pass' = 1
  /\ loaded' = [ref \in Refs |-> None]
  /\ held' = None
  /\ scores' = <<>>
  /\ reports' = <<>>
  /\ adopted' = {}
  /\ paid' = [p \in Passes |-> 0]
  /\ UNCHANGED files

Ids(lines) == [i \in DOMAIN lines |-> lines[i].id]
TextsOf(lines) == [i \in DOMAIN lines |-> lines[i].text]

ThisPass == PassesOf(Rosters[roster])[pass]

\* A write_text that was killed leaves a file that is cut short.
CutShort == ThisPass \in DOMAIN cache /\ cache[ThisPass] = Torn

\* Mutant: the fingerprint is the number of pairs.
FitsBySize(p) == p \in DOMAIN cache /\ Len(cache[p].ids) = Len(records)

\* The corpus_fingerprint is a digest of the pair ids, in their order.
Fits(p) == p \in DOMAIN cache /\ cache[p].ids = Ids(records)

Stored(file) == [p \in DOMAIN cache \union {ThisPass} |-> IF p = ThisPass THEN file ELSE cache[p]]

\* The roster goes on; after its last pass it is reported.
NextPass(got) ==
  /\ scores' = Append(scores, got)
  /\ pass' = pass + 1
  /\ pc' = IF pass = 3 THEN "report" ELSE "read"

ReadHit ==
  /\ pc = "read"
  /\ ~CutShort
  /\ Fits(ThisPass)
  /\ NextPass(cache[ThisPass])
  /\ UNCHANGED <<files, records, grid, roster, loaded, held, reports, adopted, paid>>

\* json.loads of a file cut short raises, and nothing catches it.
ReadTorn ==
  /\ pc = "read"
  /\ CutShort
  /\ pc' = "died"
  /\ UNCHANGED <<files, records, grid, roster, pass, loaded, held, scores, reports, adopted, paid>>

\* The loader of this process keeps what it loaded first.
Load(ref) == IF loaded[ref] = None THEN mirror[ref] ELSE loaded[ref]

Infer ==
  /\ pc = "read"
  /\ ~CutShort
  /\ ~Fits(ThisPass)
  /\ loaded' = [loaded EXCEPT ![ThisPass.ref] = Load(ThisPass.ref)]
  /\ held' = [ids |-> Ids(records), texts |-> TextsOf(records), weights |-> loaded'[ThisPass.ref]]
  /\ paid' = [paid EXCEPT ![ThisPass] = @ + 1]
  /\ pc' = "write"
  /\ UNCHANGED <<files, records, grid, roster, pass, scores, reports, adopted>>

\* write_text empties the file, then fills it.
OpenFile ==
  /\ pc = "write"
  /\ ~CutShort
  /\ cache' = Stored(Torn)
  /\ UNCHANGED <<exports, mirror, changes, run>>

\* Mutant: nothing is kept.
FillFileNever ==
  /\ pc = "write"
  /\ CutShort
  /\ cache' = [p \in DOMAIN cache \ {ThisPass} |-> cache[p]]
  /\ NextPass(held)
  /\ held' = None
  /\ UNCHANGED <<exports, mirror, changes, records, grid, roster, loaded, reports, adopted, paid>>

FillFile ==
  /\ pc = "write"
  /\ CutShort
  /\ cache' = Stored(held)
  /\ NextPass(held)
  /\ held' = None
  /\ UNCHANGED <<exports, mirror, changes, records, grid, roster, loaded, reports, adopted, paid>>

-----------------------------------------------------------------------------
(* One bake-off: the replays, the reports and the choice.                  *)

Cascade(t) == INSTANCE ReplayCascade WITH
  Nli <- {}, Grounding <- {}, Excerpts <- {},
  NeutralMin <- t.neutralMin, RepeatMin <- t.repeatMin, ContraEscape <- t.contraEscape,
  SupportMin <- t.supportMin, ContraMin <- t.contraMin, NeutralConsensus <- t.neutralConsensus,
  at <- None, flag <- None, g1 <- None, g2 <- None, g3 <- None, decision <- None, edge <- None,
  heard <- None

\* What three files of scores say of the pair at a position.
PairScores(table, got, i) ==
  LET Answer(slot) == Says(PassesOf(table)[slot], got[slot].weights, got[slot].texts[i])
  IN  [g1 |-> Answer(1), g3 |-> Answer(3).bare,
       forward |-> Answer(2).forward, backward |-> Answer(2).backward,
       evidence |-> [A |-> Answer(2).grounded, B |-> None]]

\* The lines through the gates at one setting of the thresholds.
Replay(lines, table, got, thresholds) ==
  [i \in DOMAIN lines |->
     LET o == Cascade(thresholds)!RunCascade(PairScores(table, got, i))
     IN  [disposition |-> o.disposition, verdict |-> o.verdict, confidence |-> o.confidence,
          ensemble |-> lines[i].ensemble, golden |-> lines[i].golden]]

Candidate(lines, table, got, thresholds) ==
  LET outcomes == Replay(lines, table, got, thresholds)
  IN  [roster |-> table, thresholds |-> thresholds, outcomes |-> outcomes,
       passed |-> ClearsBar(outcomes, Bar)]

\* product over the axes, each combination on top of the base.
Combinations(axes) ==
  LET values == UNION {axes[a] : a \in DOMAIN axes}
      onGrid == {f \in [DOMAIN axes -> values] : \A a \in DOMAIN axes : f[a] \in axes[a]}
  IN  {[a \in DOMAIN Base |-> IF a \in DOMAIN axes THEN f[a] ELSE Base[a]] : f \in onGrid}

\* Without a --grid there are no cells.
GridSearch(lines, axes, table, got) ==
  IF DOMAIN axes = {} THEN {} ELSE {Candidate(lines, table, got, t) : t \in Combinations(axes)}

\* build_report: the best cell, or else the base.
Reported(lines, axes, table, got) ==
  LET winners == Best(GridSearch(lines, axes, table, got))
  IN  IF winners = {} THEN {Candidate(lines, table, got, Base)} ELSE winners

\* With the precision of each artifact as the loader has it now.
Report ==
  /\ pc = "report"
  /\ LET table == Rosters[roster]
         refs == {PassesOf(table)[p].ref : p \in Slots}
     IN  /\ loaded' = [ref \in Refs |-> IF ref \in refs THEN Load(ref) ELSE loaded[ref]]
         /\ \E chosen \in Reported(records, grid, table, scores) :
              reports' = Append(reports,
                [chosen |-> chosen, scores |-> scores,
                 precisions |-> [p \in Slots |-> loaded'[PassesOf(table)[p].ref]]])
  /\ scores' = <<>>
  /\ pass' = 1
  /\ roster' = IF roster = Len(Rosters) THEN roster ELSE roster + 1
  /\ pc' = IF roster = Len(Rosters) THEN "archive" ELSE "read"
  /\ UNCHANGED <<files, records, grid, held, adopted, paid>>

\* best_passing: GO with one of the rosters, or NO-GO.
Archive ==
  /\ pc = "archive"
  /\ LET winners == Best({reports[r].chosen : r \in DOMAIN reports})
     IN  adopted' \in (IF winners = {} THEN {{}} ELSE {{w} : w \in winners})
  /\ pc' = "done"
  /\ UNCHANGED <<files, records, grid, roster, pass, loaded, held, scores, reports, paid>>

Kill ==
  /\ pc \notin {"idle", "done", "died", "refused"}
  /\ pc' = "idle"
  /\ UNCHANGED <<files, records, grid, roster, pass, loaded, held, scores, reports, adopted, paid>>

Score == ReadHit \/ ReadTorn \/ Infer \/ OpenFile \/ FillFile \/ Report \/ Archive

Init ==
  /\ corpus \in {<<>>} \union {ExportCorpus(source, FALSE) : source \in Sources}
  /\ pending = <<>>
  /\ mirror \in Mirrors
  /\ changes = 0
  /\ cache = <<>>
  /\ pc = "idle"
  /\ records = <<>>
  /\ grid = <<>>
  /\ roster = 1
  /\ pass = 1
  /\ loaded = [ref \in Refs |-> None]
  /\ held = None
  /\ scores = <<>>
  /\ reports = <<>>
  /\ adopted = {}
  /\ paid = [p \in Passes |-> 0]

Next == \/ \E source \in Sources, hydrate \in BOOLEAN : OpenCorpus(source, hydrate)
        \/ BeginLine \/ EndLine
        \/ \E ref \in Refs : \E release \in Releases[ref] : Mirror(ref, release)
        \/ \E limit \in Limits, axes \in Grids : Start(limit, axes)
        \/ Score
        \/ Kill

Spec == Init /\ [][Next]_vars

-----------------------------------------------------------------------------
(* Properties.                                                             *)

(***************************************************************************)
(* A roster is reported over exactly the pairs of this run, in their       *)
(* order, whatever runs over other corpora, over exports that were killed, *)
(* or with another --limit left in the cache (bakeoff.py                   *)
(* corpus_fingerprint: a pass is stored positionally).                     *)
(***************************************************************************)
ReportedOverTheCorpus ==
  \A r \in DOMAIN reports, p \in Slots : reports[r].scores[p].ids = Ids(records)

(***************************************************************************)
(* A run infers with an artifact once, however many rosters share it       *)
(* (bakeoff.py ScoreCache: keyed on the artifact and not on the roster).   *)
(***************************************************************************)
SharedPassPaidOnce == \A p \in Passes : paid[p] <= 1

\* What a run could adopt: every cell of every roster, and the base where no cell passes.
Adoptable == UNION {Reported(records, grid, Rosters[r], reports[r].scores)
                      \union GridSearch(records, grid, Rosters[r], reports[r].scores) :
                      r \in DOMAIN reports}

(***************************************************************************)
(* A GO is for a roster and thresholds that clear the bar on the run's own *)
(* pairs, and no roster of the table clears it with more coverage, or with *)
(* as much and less G4, at any cell of the grid; a NO-GO means that none   *)
(* clears it (bakeoff.py best_cell, best_passing; replay_bakeoff.py:       *)
(* no combination of the mirrored rosters clears the bar).                 *)
(***************************************************************************)
AdoptedIsTheBest ==
  pc = "done" =>
    /\ adopted = {} <=> \A c \in Adoptable : ~c.passed
    /\ \A a \in adopted : /\ a \in Adoptable /\ a.passed
                          /\ \A c \in Adoptable : c.passed => ~BetterThan(c, a)

(***************************************************************************)
(* The numbers of a report add up: every pair is somewhere in the funnel,  *)
(* and every confidence is in one bin of the calibration error             *)
(* (metrics.py volumes, expected_calibration_error).                       *)
(***************************************************************************)
ReportAddsUp ==
  \A r \in DOMAIN reports :
    LET outcomes == reports[r].chosen.outcomes
    IN  /\ Volumes(outcomes).undecided.num = 0
        /\ \A i \in Those(outcomes, Scored) :
             Cardinality({bin \in 0..Bins - 1 : InBin(bin, outcomes[i])}) = 1
        /\ ~Exceeds(CalibrationError(outcomes), Ratio(1, 1))
=============================================================================
