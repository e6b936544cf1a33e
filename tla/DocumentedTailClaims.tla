------------------------ MODULE DocumentedTailClaims -------------------------
(***************************************************************************)
(* What the repository says of the escalation tail and the code does not   *)
(* do.  Each definition quotes its sentence; TLC refutes each one.         *)
(***************************************************************************)
EXTENDS MCTailCalls

\* README.md:54-55, "Contradictions are never finalised by the cascade": a pair that
\* comes out of it as CONTRADICTS is in the human queue.  The tail settles what the
\* model answers, and CONTRADICTS is among the relations it may answer.
ContradictionsForHumans ==
  \A p \in Members : edges[p].relation = "CONTRADICTS" => rows[p] = "human"

\* gatekeeper/gates/g4.py:39-40, the double "is reachable only where fabrication is
\* harmless: SHADOW": no verdict of it is authoritative.  A run in LLM mode, a misroute
\* that is claimed all the same, is not refused.
DoubleNeverAuthoritative ==
  door = "dry-run" => \A p \in Members : edges[p].relation = None

\* gatekeeper/integration.py:107-108, "the fallback is a degraded read, not a licence
\* to judge in the wrong mode": a verdict is authoritative only in a run whose stage-3
\* run says GATEKEEPER.  The shipped default is GATEKEEPER.
AuthoritativeOnlyIfPinned ==
  params # "GATEKEEPER" => \A p \in Members : edges[p].relation = None

\* gatekeeper/gates/prompts.py:270-272, "the one-element array the prompt asks for, and
\* a bare object [...] Anything else raises": an array of two verdicts settles nothing.
OneVerdictPerAnswer ==
  \A p \in Members : edges[p].relation # None => Len(said[p].items) = 1

\* gatekeeper/gates/prompts.py:306, "Clamped, not rejected": a stored confidence is
\* between zero and one.  A NaN, which json.loads reads, passes the clamp.
ConfidenceClamped ==
  \A p \in Members : edges[p].confidence # None => edges[p].confidence \in 0..One

\* gatekeeper/clients/vertex.py:59-60, "the bill is computed from Google's count, so the
\* spend counter has to be too": every answer the model charged for is in the counter.
\* An answer that cannot be read is charged for and not counted.
SpendIsBilled == pc = "done" => counted = billed

\* gatekeeper/gates/g4.py:310, "Per pair, never per gate": no answer ends the execution.
\* One whose confidence is an integer past the range of a float raises an OverflowError,
\* which is neither a VertexError nor a ValueError, and nothing of the batch is written.
FailureCostsItsPair == pc # "raised"
=============================================================================
