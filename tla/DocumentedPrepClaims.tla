------------------------ MODULE DocumentedPrepClaims ------------------------
(***************************************************************************)
(* What scripts/prepare_models.py says of its runs and a scratch directory *)
(* that is reused does not let it do.  Each definition quotes its          *)
(* sentence; TLC refutes each.                                             *)
(***************************************************************************)
EXTENDS ArtifactPrep

\* prepare_models.py:22-23, "Re-running after a better quantizer lands re-decides
\* each row without re-downloading anything": a run that mirrors INT8 mirrors what
\* the installed quantizer makes.  quantize_int8 reuses whatever graph is there.
NewQuantizerDecides ==
  manifest # None /\ "int8" \in DOMAIN manifest.files /\ pc \notin Ended =>
    manifest.files["int8"].graph.by = quantizer

\* prepare_models.py:110-111, "the manifest is supposed to make a run reproducible":
\* its sourceRevision is the revision of its weights.  export_fp32 reuses the export
\* of an earlier revision, and the manifest gets the one just resolved.
RevisionOfItsWeights ==
  manifest # None => manifest.files["fp32"].graph = manifest.revision

\* prepare_models.py:13-14, "every export is scored against its own fp32 parent":
\* the measurement is of an INT8 graph and the graph it was made of.  A --clean that
\* is killed may leave the INT8 graph of the revision before.
ScoredAgainstItsParent ==
  report # None => report.int8.of = report.fp32

\* prepare_models.py:144, "an export already sitting in ``destination`` is reused":
\* what is reused is an export, whole.  The test is that the files exist, so what a
\* kill left half-written is reused, and ships when the quantizer fails on it.
ReusesExports == pc = "done" =>
  \A p \in DOMAIN manifest.files : Torn \notin {manifest.files[p].graph, manifest.files[p].tokenizer}

\* prepare_models.py:325-326, "until it exists, the loader treats the prefix as
\* absent, so a half-finished publish is invisible rather than corrupt": what a
\* mirror lists, it has.  A second publish replaces files under the first manifest.
HalfPublishInvisible ==
  \A mirror \in {local, bucket} : Listed(mirror) => Serves(mirror, mirror.manifest)
=============================================================================
