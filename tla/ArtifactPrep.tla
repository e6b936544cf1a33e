---------------------------- MODULE ArtifactPrep ----------------------------
(***************************************************************************)
(* scripts/prepare_models.py for one artifact name@version, run again and  *)
(* again by its owner on one scratch directory: pin a revision, export it  *)
(* to fp32, quantize, measure the drift between the two, let the gate      *)
(* decide which precision ships, write the manifest, mirror it locally and *)
(* upload it.  Every run reuses what it finds in the scratch directory,    *)
(* unless it is told to clean it; upstream moves, the quantizer improves,  *)
(* steps fail, and the script may be killed between any two steps.         *)
(*                                                                         *)
(* A file is known by where it comes from: an fp32 graph or a tokenizer by *)
(* its revision, an INT8 graph by the fp32 graph and the quantizer it was  *)
(* made with; Torn is a file that is not written to its end.               *)
(***************************************************************************)
EXTENDS Naturals, Sequences

CONSTANTS
  Revisions,     \* what "main" may point to upstream
  Quantizers,    \* the quantizers the owner may have installed
  Levels,        \* the drifts a sanity diff may measure, and what a gate may allow
  MaxRuns,       \* bound on runs of the script
  None, Torn

ASSUME PrepAssumption ==
  /\ Levels \subseteq Nat /\ MaxRuns \in Nat
  /\ None # Torn /\ {None, Torn} \cap Revisions = {}

Int8Graphs == [of : Revisions, by : Quantizers]

ASSUME Int8Assumption == {None, Torn} \cap Int8Graphs = {}

VARIABLES
  upstream,   \* the revision "main" points to
  quantizer,  \* the one that is installed
  fp32,       \* scratch: the exported graph and its tokenizer
  int8,       \* scratch: the quantized graph
  own,        \* scratch: the tokenizer beside it, where the quantizer copies it
  local,      \* the local mirror: a bundle per precision, and the manifest
  bucket,     \* the same in the bucket
  runs,       \* runs so far
  pc,         \* where the script is, or how the last run ended
  args,       \* its command line
  revision,   \* the revision it pinned
  mirrored,   \* the precisions it mirrors
  report,     \* what the sanity diff measured
  manifest,   \* the manifest of this run
  up          \* how much of it and its files is copied

world == <<upstream, quantizer>>
scratch == <<fp32, int8, own>>
mirrors == <<local, bucket>>
process == <<runs, args, revision, mirrored, report, manifest, up>>
vars == <<world, scratch, mirrors, pc, process>>

Precisions == {"fp32", "int8"}
NoExport == [graph |-> None, tokenizer |-> None]
Ended == {"idle", "skipped", "done"}
Nowhere == [files |-> [p \in Precisions |-> None], manifest |-> None]

-----------------------------------------------------------------------------
(* The world of the script.                                                *)

UpstreamMoves(r) ==
  /\ upstream' = r
  /\ UNCHANGED <<quantizer, scratch, mirrors, pc, process>>

\* A run has its libraries loaded: the quantizer is changed between runs.
QuantizerChanges(q) ==
  /\ pc \in Ended
  /\ quantizer' = q
  /\ UNCHANGED <<upstream, scratch, mirrors, pc, process>>

-----------------------------------------------------------------------------
(* One run: the scratch directory.                                         *)

Start(clean, upload, gate) ==
  /\ pc \in Ended
  /\ runs < MaxRuns
  /\ runs' = runs + 1
  /\ args' = [clean |-> clean, upload |-> upload, gate |-> gate]
  /\ revision' = None
  /\ mirrored' = {}
  /\ report' = None
  /\ manifest' = None
  /\ up' = 0
  /\ pc' = IF clean THEN "clean" ELSE "resolve"
  /\ UNCHANGED <<world, scratch, mirrors>>

\* rmtree takes the files one by one, in the order the directory has them.
Clean ==
  /\ pc = "clean"
  /\ \/ fp32.graph # None /\ fp32' = [fp32 EXCEPT !.graph = None] /\ UNCHANGED <<int8, own, pc>>
     \/ fp32.tokenizer # None /\ fp32' = [fp32 EXCEPT !.tokenizer = None]
                              /\ UNCHANGED <<int8, own, pc>>
     \/ int8 # None /\ int8' = None /\ UNCHANGED <<fp32, own, pc>>
     \/ own # None /\ own' = None /\ UNCHANGED <<fp32, int8, pc>>
     \/ fp32 = NoExport /\ int8 = None /\ own = None /\ pc' = "resolve" /\ UNCHANGED scratch
  /\ UNCHANGED <<world, mirrors, process>>

ResolveRevision ==
  /\ pc = "resolve"
  /\ revision' = upstream
  /\ pc' = "export"
  /\ UNCHANGED <<world, scratch, mirrors, runs, args, mirrored, report, manifest, up>>

\* Mutant: an export that has a graph is an export.
ExportedByGraph == fp32.graph # None

Exported == fp32.graph # None /\ fp32.tokenizer # None

ReuseExport ==
  /\ pc = "export"
  /\ Exported
  /\ pc' = "quantize"
  /\ UNCHANGED <<world, scratch, mirrors, process>>

\* A file is written to its end, or the script dies in it.
Goes(file, next) == pc' = IF file = Torn THEN "idle" ELSE next

ExportGraph ==
  /\ pc = "export"
  /\ ~Exported
  /\ \E graph \in {revision, Torn} :
       /\ fp32' = [fp32 EXCEPT !.graph = graph]
       /\ Goes(graph, "tokenizer")
  /\ UNCHANGED <<world, int8, own, mirrors, process>>

\* A checkpoint without a fast tokenizer is a PrepError, unless one lies there.
ExportTokenizer ==
  /\ pc = "tokenizer"
  /\ \/ \E tokenizer \in {revision, Torn} :
          /\ fp32' = [fp32 EXCEPT !.tokenizer = tokenizer]
          /\ Goes(tokenizer, "quantize")
     \/ UNCHANGED fp32 /\ pc' = IF fp32.tokenizer = None THEN "skipped" ELSE "quantize"
  /\ UNCHANGED <<world, int8, own, mirrors, process>>

ReuseInt8 ==
  /\ pc = "quantize"
  /\ int8 # None
  /\ mirrored' = Precisions
  /\ pc' = "sanity"
  /\ UNCHANGED <<world, scratch, mirrors, runs, args, revision, report, manifest, up>>

Quantized == [of |-> fp32.graph, by |-> quantizer]

\* The quantizer writes its graph, and then, if it does, the tokenizer beside it.
QuantizeInt8 ==
  /\ pc = "quantize"
  /\ int8 = None
  /\ fp32.graph # Torn
  /\ \/ int8' = Quantized /\ own' \in {own, fp32.tokenizer, Torn} /\ Goes(own', "sanity")
     \/ int8' = Torn /\ pc' = "idle" /\ UNCHANGED own
  /\ mirrored' = Precisions
  /\ UNCHANGED <<world, fp32, mirrors, runs, args, revision, report, manifest, up>>

\* Any failure of the quantizer means no INT8, whatever it has written.
QuantizeFails ==
  /\ pc = "quantize"
  /\ int8 = None
  /\ \/ int8' \in {None, Torn} /\ UNCHANGED own
     \/ fp32.graph # Torn /\ int8' = Quantized /\ own' \in {own, Torn}
  /\ mirrored' = {"fp32"}
  /\ pc' = "stage"
  /\ UNCHANGED <<world, fp32, mirrors, runs, args, revision, report, manifest, up>>

-----------------------------------------------------------------------------
(* One run: the gate and the manifest.                                     *)

\* Each model is loaded with its own tokenizer and scored; what is torn raises, and
\* a missing tokenizer.json too, unless the checkpoint has another tokenizer file.
SanityDiff ==
  /\ pc = "sanity"
  /\ Torn \notin {fp32.graph, fp32.tokenizer, int8, own}
  /\ \E drift \in Levels :
       report' = [drift |-> drift, gate |-> args.gate, int8 |-> int8, fp32 |-> fp32.graph]
  /\ pc' = "stage"
  /\ UNCHANGED <<world, scratch, mirrors, runs, args, revision, mirrored, manifest, up>>

\* The fixture is missing or short, or the shape of the output changed.
SanityRefuses ==
  /\ pc = "sanity"
  /\ pc' = "skipped"
  /\ UNCHANGED <<world, scratch, mirrors, process>>

Passed(r) == r.drift <= r.gate

\* Mutant: what was quantized ships.
ShipsWhatThereIs == IF "int8" \in mirrored THEN "int8" ELSE "fp32"

Ships == IF report # None /\ Passed(report) THEN "int8" ELSE "fp32"

\* INT8 takes the tokenizer beside it, and the one of its parent where it has none.
Bundle(precision) ==
  IF precision = "fp32"
    THEN [graph |-> fp32.graph, tokenizer |-> fp32.tokenizer]
    ELSE [graph |-> int8, tokenizer |-> IF own = None THEN fp32.tokenizer ELSE own]

\* The staging directory is filled anew; only what the manifest lists is read there.
Stage ==
  /\ pc = "stage"
  /\ manifest' = [exportedAt |-> runs, revision |-> revision, ships |-> Ships, report |-> report,
                  files |-> [p \in mirrored |-> Bundle(p)]]
  /\ pc' = "mirror"
  /\ UNCHANGED <<world, scratch, mirrors, runs, args, revision, mirrored, report, up>>

-----------------------------------------------------------------------------
(* One run: the local mirror and the bucket.                               *)

\* Mutant: the manifest goes first.
ManifestFirst == IF "int8" \in DOMAIN manifest.files THEN <<"manifest", "fp32", "int8">>
                                                    ELSE <<"manifest", "fp32">>

\* The manifest goes last everywhere.
RelativePayload == IF "int8" \in DOMAIN manifest.files THEN <<"fp32", "int8", "manifest">>
                                                      ELSE <<"fp32", "manifest">>

Put(mirror, item, content) ==
  IF item = "manifest" THEN [mirror EXCEPT !.manifest = content]
                       ELSE [mirror EXCEPT !.files[item] = content]

\* The next item of the payload, and where the run goes after the last one.
Copies(from, to, next) ==
  LET item == RelativePayload[up + 1]
      whole == IF item = "manifest" THEN manifest ELSE manifest.files[item]
      last == up + 1 = Len(RelativePayload)
  IN  \E content \in {whole, Torn} :
        /\ to = Put(from, item, content)
        /\ up' = IF last THEN 0 ELSE up + 1
        /\ Goes(content, IF last THEN next ELSE pc)

MirrorLocally ==
  /\ pc = "mirror"
  /\ Copies(local, local', IF args.upload THEN "upload" ELSE "done")
  /\ UNCHANGED <<world, scratch, bucket, runs, args, revision, mirrored, report, manifest>>

Upload ==
  /\ pc = "upload"
  /\ Copies(bucket, bucket', "done")
  /\ UNCHANGED <<world, scratch, local, runs, args, revision, mirrored, report, manifest>>

\* Mutant: the exit status of gcloud is not looked at.
UploadFailsUnseen ==
  /\ pc = "upload"
  /\ pc' = "done"
  /\ UNCHANGED <<world, scratch, mirrors, process>>

UploadFails ==
  /\ pc = "upload"
  /\ pc' = "skipped"
  /\ UNCHANGED <<world, scratch, mirrors, process>>

\* It is killed, or something raises that is no PrepError.
Kill ==
  /\ pc \notin Ended
  /\ pc' = "idle"
  /\ UNCHANGED <<world, scratch, mirrors, process>>

PrepareOne ==
  \/ Clean \/ ResolveRevision
  \/ ReuseExport \/ ExportGraph \/ ExportTokenizer
  \/ ReuseInt8 \/ QuantizeInt8 \/ QuantizeFails
  \/ SanityDiff \/ SanityRefuses \/ Stage
  \/ MirrorLocally \/ Upload \/ UploadFails

Init ==
  /\ upstream \in Revisions
  /\ quantizer \in Quantizers
  /\ fp32 = NoExport
  /\ int8 = None
  /\ own = None
  /\ local = Nowhere
  /\ bucket = Nowhere
  /\ runs = 0
  /\ pc = "idle"
  /\ args = None
  /\ revision = None
  /\ mirrored = {}
  /\ report = None
  /\ manifest = None
  /\ up = 0

Next == \/ \E r \in Revisions : UpstreamMoves(r)
        \/ \E q \in Quantizers : QuantizerChanges(q)
        \/ \E clean, upload \in BOOLEAN, gate \in Levels : Start(clean, upload, gate)
        \/ PrepareOne
        \/ Kill

Spec == Init /\ [][Next]_vars

-----------------------------------------------------------------------------
(* Properties.                                                             *)

\* A mirror serves a manifest: it has it, and every file with its digest.
Serves(mirror, m) ==
  /\ mirror.manifest = m
  /\ \A p \in DOMAIN m.files : mirror.files[p] = m.files[p]

Listed(mirror) == mirror.manifest \notin {None, Torn}

(***************************************************************************)
(* A mirror that ships INT8 says why: the manifest carries a measurement   *)
(* that passed its gate, of the very graphs it lists, and all of its files *)
(* were written to their end, whatever earlier runs left in the scratch    *)
(* directory (prepare_models.py: INT8 becomes the shipping graph only by   *)
(* clearing the gate).                                                     *)
(***************************************************************************)
Int8EarnedItsPlace ==
  \A mirror \in {local, bucket} :
    Listed(mirror) /\ mirror.manifest.ships = "int8" =>
      LET m == mirror.manifest
      IN  /\ m.report # None /\ Passed(m.report)
          /\ m.report.int8 = m.files["int8"].graph
          /\ m.report.fp32 = m.files["fp32"].graph
          /\ \A p \in DOMAIN m.files : Torn \notin {m.files[p].graph, m.files[p].tokenizer}

(***************************************************************************)
(* When a manifest appears in a mirror, everything it lists is there with  *)
(* its digest, also over what a killed publish left                        *)
(* (prepare_models.py relative_payload: the manifest goes last).           *)
(***************************************************************************)
ManifestGoesLast ==
  [][/\ Listed(local)' /\ local'.manifest # local.manifest => Serves(local', local'.manifest)
     /\ Listed(bucket)' /\ bucket'.manifest # bucket.manifest
          => Serves(bucket', bucket'.manifest)]_vars

(***************************************************************************)
(* The digest a run prints for pinning is of a manifest that the local     *)
(* mirror serves, and the bucket if it uploads, whatever publishes before  *)
(* it were cut short (prepare_models.py prepare_one, main).                *)
(***************************************************************************)
PinIsServed ==
  pc = "done" =>
    /\ Serves(local, manifest)
    /\ args.upload => Serves(bucket, manifest)
=============================================================================
