----------------------- MODULE DocumentedBakeOffClaims -----------------------
(***************************************************************************)
(* What the repository says of the bake-off's score cache and the code     *)
(* does not do.  Each definition quotes its sentence; TLC refutes each.    *)
(***************************************************************************)
EXTENDS MCBakeOff

\* gatekeeper/replay/bakeoff.py:273-274, "a sweep, a re-report or a crashed run
\* should never pay for it twice": a run that is killed leaves nothing that the
\* next run cannot use (died with records: not on a torn corpus).  A file cut short
\* by the kill stops every later run.
CrashedRunResumes == pc = "died" => records = <<>>

\* gatekeeper/replay/bakeoff.py:303, "A cache over a different corpus (or a --limit
\* subset of it) is worse than none": a report is about the texts of its corpus.
\* The fingerprint is over pair ids; an export of the same pairs with other texts
\* has the same one.
ReportedOverItsTexts ==
  \A r \in DOMAIN reports, p \in Slots : reports[r].scores[p].texts = TextsOf(records)

\* gatekeeper/models/loader.py:80, the precision of an artifact "is which one
\* produced its numbers": the precision a report shows beside an artifact is that of
\* the weights its scores come from.  The scores may be a cache of an earlier release.
PrecisionOfItsNumbers ==
  \A r \in DOMAIN reports, p \in Slots :
    reports[r].precisions[p] = reports[r].scores[p].weights

\* gatekeeper/replay/corpus.py:344-345, "The graph is the authority on claim text ...,
\* so it wins when both exist": an export told to hydrate has the graph's text where
\* the graph has one.  It is asked only when the row lacks a text of its own.
Drifted == <<Document("p1", "ENSEMBLE", "apart", "near", "NEUTRAL", FALSE)>>
GraphWins ==
  \A source \in Sources \union {Drifted} :
    LET lines == ExportCorpus(source, TRUE)
    IN  \A i \in DOMAIN lines, d \in DOMAIN source :
          source[d].id = lines[i].id /\ source[d].graph # None => lines[i].text = source[d].graph
=============================================================================
