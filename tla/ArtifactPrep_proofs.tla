-------------------------- MODULE ArtifactPrep_proofs --------------------------
(***************************************************************************)
(* Proofs about ArtifactPrep, for any revisions, quantizers, drifts and    *)
(* number of runs.                                                         *)
(*                                                                         *)
(* Scratch files outlive a run, torn or of another revision, so what is    *)
(* measured is tied to what lies in the scratch directory then, and what   *)
(* a manifest lists to what was measured.  While a mirror is written, the  *)
(* items of the payload before the next are in it: the manifest, which is  *)
(* the last, comes only over files that are all there.                     *)
(***************************************************************************)
EXTENDS ArtifactPrep, TLAPS

-----------------------------------------------------------------------------
(* The type invariant.                                                     *)

Graphs == Revisions \union {None, Torn}
Int8s == Int8Graphs \union {None, Torn}
Bundles == [graph : Graphs \union Int8s, tokenizer : Graphs]
Reports == [drift : Levels, gate : Levels, int8 : Int8s, fp32 : Graphs]
Manifests ==
  [exportedAt : Nat, revision : Revisions \union {None}, ships : Precisions, report : Reports \union {None},
   files : [Precisions -> Bundles] \union [{"fp32"} -> Bundles]]
Mirrors ==
  [files : [Precisions -> Bundles \union {None, Torn}], manifest : Manifests \union {None, Torn}]

\* The steps of a run before its manifest is written, and those that copy it.
Preparing == {"clean", "resolve", "export", "tokenizer", "quantize", "sanity", "stage"}
Copying == {"mirror", "upload"}

TypeInv ==
  /\ upstream \in Revisions
  /\ quantizer \in Quantizers
  /\ fp32 \in [graph : Graphs, tokenizer : Graphs]
  /\ int8 \in Int8s
  /\ own \in Graphs
  /\ runs \in Nat
  /\ local \in Mirrors
  /\ bucket \in Mirrors
  /\ pc \in Preparing \union Copying \union Ended
  /\ args \in [clean : BOOLEAN, upload : BOOLEAN, gate : Levels] \union {None}
  /\ pc # "idle" => args \in [clean : BOOLEAN, upload : BOOLEAN, gate : Levels]
  /\ revision \in Revisions \union {None}
  /\ mirrored \in {{}, {"fp32"}, Precisions}
  /\ report \in Reports \union {None}
  /\ manifest \in Manifests \union {None}
  /\ up \in Nat

-----------------------------------------------------------------------------
(* The inductive invariant.                                                *)

\* What is quantized is there; what is measured is what is in the scratch
\* directory, and it is whole.
Measured ==
  /\ pc \in {"export", "tokenizer"} => revision \in Revisions
  /\ pc \in {"tokenizer", "quantize"} => fp32.graph # None
  /\ pc \in Preparing \ {"stage"} => report = None
  /\ pc = "sanity" => mirrored = Precisions
  /\ pc = "stage" => mirrored \in {{"fp32"}, Precisions}
  /\ pc = "stage" /\ report # None =>
       /\ mirrored = Precisions
       /\ report.int8 = int8
       /\ report.fp32 = fp32.graph
       /\ Torn \notin {fp32.graph, fp32.tokenizer, int8, own}

\* A manifest that ships INT8 carries the measurement that earned it.
Earned(m) ==
  m.ships = "int8" =>
    /\ m.report # None /\ Passed(m.report)
    /\ m.report.int8 = m.files["int8"].graph
    /\ m.report.fp32 = m.files["fp32"].graph
    /\ \A p \in DOMAIN m.files : Torn \notin {m.files[p].graph, m.files[p].tokenizer}

EarnedManifests ==
  /\ pc \in Copying => Earned(manifest)
  /\ \A mirror \in {local, bucket} : Listed(mirror) => Earned(mirror.manifest)

\* The first n items of the payload are in the mirror; the manifest is the last.
Copied(mirror, n) ==
  /\ n < Len(RelativePayload)
  /\ \A k \in 1..n : mirror.files[RelativePayload[k]] = manifest.files[RelativePayload[k]]

\* What a run has copied so far.
CopiedSoFar ==
  /\ pc \in Preparing => up = 0
  /\ pc \in Copying \union {"done"} => manifest \in Manifests
  /\ pc = "mirror" => Copied(local, up)
  /\ pc = "upload" => args.upload /\ Serves(local, manifest) /\ Copied(bucket, up)

PrepInv == TypeInv /\ Measured /\ EarnedManifests /\ CopiedSoFar /\ PinIsServed

-----------------------------------------------------------------------------
(* Copying one item.                                                       *)

\* The payload lists what the manifest lists, and then the manifest.
LEMMA Payload ==
  ASSUME manifest \in Manifests
  PROVE  LET n == Len(RelativePayload) IN
         /\ n \in {2, 3}
         /\ RelativePayload[n] = "manifest"
         /\ \A k \in 1..(n - 1) : RelativePayload[k] \in DOMAIN manifest.files
         /\ \A p \in DOMAIN manifest.files : \E k \in 1..(n - 1) : RelativePayload[k] = p
<1>1. CASE "int8" \in DOMAIN manifest.files
  <2>1. DOMAIN manifest.files = {"fp32", "int8"}
    BY <1>1 DEF Manifests, Precisions
  <2>2. RelativePayload = <<"fp32", "int8", "manifest">>
    BY <1>1 DEF RelativePayload
  <2>3. QED
    BY <2>1, <2>2
<1>2. CASE "int8" \notin DOMAIN manifest.files
  <2>1. DOMAIN manifest.files = {"fp32"}
    BY <1>2 DEF Manifests, Precisions
  <2>2. RelativePayload = <<"fp32", "manifest">>
    BY <1>2 DEF RelativePayload
  <2>3. QED
    BY <2>1, <2>2
<1>3. QED
  BY <1>1, <1>2

LEMMA PutFacts ==
  ASSUME NEW mirror \in Mirrors
  PROVE  /\ \A m \in Manifests \union {None, Torn} :
              /\ Put(mirror, "manifest", m) \in Mirrors
              /\ Put(mirror, "manifest", m).manifest = m
              /\ Put(mirror, "manifest", m).files = mirror.files
         /\ \A p \in Precisions, b \in Bundles \union {None, Torn} :
              /\ Put(mirror, p, b) \in Mirrors
              /\ Put(mirror, p, b).manifest = mirror.manifest
              /\ Put(mirror, p, b).files[p] = b
              /\ \A q \in Precisions \ {p} : Put(mirror, p, b).files[q] = mirror.files[q]
BY DEF Put, Mirrors, Precisions

\* One copy leaves the manifest of the mirror alone, tears it, or completes it;
\* and the run dies, goes on, or is done with a mirror that serves its manifest.
LEMMA CopyStep ==
  ASSUME manifest \in Manifests, UNCHANGED manifest, up \in Nat,
         NEW mirror \in Mirrors, NEW after, NEW next, Copied(mirror, up),
         Copies(mirror, after, next)
  PROVE  /\ after \in Mirrors /\ up' \in Nat
         /\ \/ after.manifest = mirror.manifest
            \/ after.manifest = Torn
            \/ after.manifest = manifest /\ Serves(after, manifest)
         /\ \/ pc' = "idle"
            \/ pc' = pc /\ Copied(after, up')
            \/ pc' = next /\ up' = 0 /\ Serves(after, manifest)
<1> DEFINE n == Len(RelativePayload)
           item == RelativePayload[up + 1]
           whole == IF item = "manifest" THEN manifest ELSE manifest.files[item]
           last == up + 1 = n
<1>1. n \in {2, 3} /\ up + 1 \in 1..n
  BY Payload DEF Copied
<1>2. PICK content \in {whole, Torn} :
        /\ after = Put(mirror, item, content)
        /\ up' = IF last THEN 0 ELSE up + 1
        /\ pc' = IF content = Torn THEN "idle" ELSE IF last THEN next ELSE pc
  BY DEF Copies, Goes
<1>3. CASE last
  <2>1. item = "manifest"
    BY <1>3, Payload
  <2>2. after.manifest = content /\ after.files = mirror.files /\ after \in Mirrors
    BY <1>2, <2>1, PutFacts
  <2>3. \A p \in DOMAIN manifest.files : mirror.files[p] = manifest.files[p]
    BY <1>3, <1>1, Payload DEF Copied
  <2>4. content = manifest => Serves(after, manifest)
    BY <2>2, <2>3 DEF Serves
  <2>5. QED
    BY <1>2, <1>3, <2>1, <2>2, <2>4
<1>4. CASE ~last
  <2>1. up + 1 \in 1..(n - 1)
    BY <1>1, <1>4
  <2>2. item \in DOMAIN manifest.files /\ item \in Precisions /\ item # "manifest"
    BY <2>1, Payload DEF Manifests, Precisions
  <2>3. content \in Bundles \union {None, Torn}
    BY <1>2, <2>2 DEF Manifests
  <2>4. /\ after \in Mirrors /\ after.manifest = mirror.manifest
        /\ after.files[item] = content
        /\ \A q \in Precisions \ {item} : after.files[q] = mirror.files[q]
    BY <1>2, <2>2, <2>3, PutFacts
  <2>5. ASSUME content # Torn PROVE Copied(after, up + 1)
    <3>1. ASSUME NEW k \in 1..(up + 1)
          PROVE  after.files[RelativePayload[k]] = manifest.files[RelativePayload[k]]
      <4>1. RelativePayload[k] \in Precisions
        BY <1>1, <1>4, Payload DEF Manifests, Precisions
      <4>2. CASE RelativePayload[k] = item
        BY <1>2, <2>2, <2>4, <2>5, <4>2
      <4>3. CASE RelativePayload[k] # item
        <5>1. k \in 1..up
          BY <4>3
        <5>2. QED
          BY <2>4, <4>1, <4>3, <5>1 DEF Copied
      <4>4. QED
        BY <4>2, <4>3
    <3>2. up + 1 < n
      BY <1>1, <1>4
    <3>3. QED
      BY <3>1, <3>2 DEF Copied
  <2>6. content # Torn => Copied(after, up')
    BY <1>2, <1>4, <2>5
  <2>7. QED
    BY <1>2, <1>4, <2>4, <2>6
<1>5. QED
  BY <1>3, <1>4

-----------------------------------------------------------------------------
(* The initial states.                                                     *)

LEMMA PrepInit == Init => PrepInv
<1> SUFFICES ASSUME Init PROVE PrepInv
  OBVIOUS
<1>1. TypeInv
  BY DEF Init, TypeInv, NoExport, Nowhere, Graphs, Int8s, Mirrors, Ended
<1>2. Measured /\ EarnedManifests /\ CopiedSoFar /\ PinIsServed
  BY DEF Init, Measured, EarnedManifests, CopiedSoFar, PinIsServed, Listed, Nowhere, Preparing, Copying
<1>3. QED
  BY <1>1, <1>2 DEF PrepInv

-----------------------------------------------------------------------------
(* The steps that leave the mirrors alone.                                 *)

\* What the other mirrors and the manifest keep when the run only prepares,
\* dies, or has ended.
LEMMA MirrorsKept ==
  ASSUME PrepInv, UNCHANGED mirrors, pc' \in Preparing \union {"idle", "skipped"},
         pc' \in Preparing => up' = 0
  PROVE  (EarnedManifests /\ CopiedSoFar /\ PinIsServed)'
BY DEF PrepInv, EarnedManifests, CopiedSoFar, PinIsServed, mirrors, Preparing, Copying, Listed, Earned, Passed

LEMMA WorldStep ==
  ASSUME PrepInv,
         \/ \E r \in Revisions : UpstreamMoves(r)
         \/ \E q \in Quantizers : QuantizerChanges(q)
         \/ UNCHANGED vars
  PROVE  PrepInv'
<1>1. UNCHANGED <<scratch, mirrors, pc, process>>
  BY DEF UpstreamMoves, QuantizerChanges, vars
<1>2. upstream' \in Revisions /\ quantizer' \in Quantizers
  BY DEF UpstreamMoves, QuantizerChanges, PrepInv, TypeInv, vars, world
<1>3. TypeInv'
  BY <1>1, <1>2 DEF PrepInv, TypeInv, scratch, mirrors, process
<1>4. (Measured /\ EarnedManifests /\ CopiedSoFar /\ PinIsServed)'
  BY <1>1 DEF PrepInv, Measured, EarnedManifests, CopiedSoFar, PinIsServed, Copied, RelativePayload,
              Serves, Listed, Earned, Passed, scratch, mirrors, process
<1>5. QED
  BY <1>3, <1>4 DEF PrepInv

\* A run that stops leaves everything as it is.
LEMMA StopStep ==
  ASSUME PrepInv, pc \notin Ended, pc' \in {"idle", "skipped"},
         UNCHANGED <<world, scratch, mirrors, process>>
  PROVE  PrepInv'
<1>1. TypeInv'
  BY DEF PrepInv, TypeInv, Ended, world, scratch, mirrors, process
<1>2. Measured'
  BY DEF Measured, Preparing
<1>3. (EarnedManifests /\ CopiedSoFar /\ PinIsServed)'
  BY MirrorsKept DEF Preparing
<1>4. QED
  BY <1>1, <1>2, <1>3 DEF PrepInv

LEMMA PrepareStep ==
  ASSUME PrepInv,
         \/ \E clean, upload \in BOOLEAN, gate \in Levels : Start(clean, upload, gate)
         \/ Clean \/ ResolveRevision \/ ReuseExport \/ ExportGraph \/ ExportTokenizer
         \/ ReuseInt8 \/ QuantizeInt8 \/ QuantizeFails \/ SanityDiff
  PROVE  PrepInv'
<1> USE DEF PrepInv
<1>1. ASSUME NEW clean \in BOOLEAN, NEW upload \in BOOLEAN, NEW gate \in Levels,
             Start(clean, upload, gate)
      PROVE  PrepInv'
  <2>1. TypeInv'
    BY <1>1 DEF Start, TypeInv, Preparing, Ended, world, scratch, mirrors
  <2>2. Measured'
    BY <1>1 DEF Start, Measured, Preparing
  <2>3. QED
    BY <1>1, <2>1, <2>2, MirrorsKept DEF Start, Preparing
<1>2. CASE Clean
  <2>1. TypeInv'
    BY <1>2 DEF Clean, TypeInv, Graphs, Int8s, Preparing, Ended, world, scratch, mirrors, process
  <2>2. Measured'
    BY <1>2 DEF Clean, Measured, Preparing, process
  <2>3. QED
    BY <1>2, <2>1, <2>2, MirrorsKept DEF Clean, CopiedSoFar, Preparing, process
<1>3. CASE ResolveRevision
  <2>1. TypeInv'
    BY <1>3 DEF ResolveRevision, TypeInv, Preparing, world, scratch, mirrors
  <2>2. Measured'
    BY <1>3 DEF ResolveRevision, TypeInv, Measured, Preparing, scratch
  <2>3. QED
    BY <1>3, <2>1, <2>2, MirrorsKept DEF ResolveRevision, CopiedSoFar, Preparing
<1>4. CASE ReuseExport
  <2>1. TypeInv'
    BY <1>4 DEF ReuseExport, TypeInv, Preparing, world, scratch, mirrors, process
  <2>2. Measured'
    BY <1>4 DEF ReuseExport, Exported, Measured, Preparing, process, scratch
  <2>3. QED
    BY <1>4, <2>1, <2>2, MirrorsKept DEF ReuseExport, CopiedSoFar, Preparing, process
<1>5. CASE ExportGraph
  <2>1. TypeInv' /\ pc' \in {"idle", "tokenizer"}
    BY <1>5 DEF ExportGraph, Goes, TypeInv, Graphs, Preparing, Ended, world, mirrors, process
  <2>2. Measured'
    BY <1>5, <2>1, PrepAssumption DEF ExportGraph, TypeInv, Measured, Preparing, process
  <2>3. QED
    BY <1>5, <2>1, <2>2, MirrorsKept DEF ExportGraph, CopiedSoFar, Preparing, process
<1>6. CASE ExportTokenizer
  <2>1. TypeInv' /\ pc' \in {"idle", "skipped", "quantize"}
    BY <1>6 DEF ExportTokenizer, Goes, TypeInv, Graphs, Preparing, Ended, world, mirrors, process
  <2>2. Measured'
    BY <1>6, <2>1 DEF ExportTokenizer, TypeInv, Measured, Preparing, process
  <2>3. QED
    BY <1>6, <2>1, <2>2, MirrorsKept DEF ExportTokenizer, CopiedSoFar, Preparing, process
<1>7. CASE ReuseInt8
  <2>1. TypeInv'
    BY <1>7 DEF ReuseInt8, TypeInv, Precisions, Preparing, world, scratch, mirrors
  <2>2. Measured'
    BY <1>7 DEF ReuseInt8, Measured, Preparing
  <2>3. QED
    BY <1>7, <2>1, <2>2, MirrorsKept DEF ReuseInt8, CopiedSoFar, Preparing
<1>8. CASE QuantizeInt8
  <2>1. fp32.graph \in Revisions \union {None}
    BY <1>8 DEF QuantizeInt8, TypeInv, Measured, Graphs
  <2>2. fp32.graph \in Revisions /\ quantizer \in Quantizers
    BY <1>8, <2>1 DEF QuantizeInt8, TypeInv, Measured
  <2>3. /\ int8' \in Int8s /\ own' \in Graphs /\ pc' \in {"idle", "sanity"}
        /\ UNCHANGED <<runs, fp32>>
    BY <1>8, <2>2 DEF QuantizeInt8, Quantized, Goes, Int8s, Int8Graphs, Graphs, TypeInv
  <2>4. TypeInv'
    BY <1>8, <2>3 DEF QuantizeInt8, TypeInv, Precisions, Preparing, Ended, world, mirrors
  <2>5. Measured'
    BY <1>8, <2>3 DEF QuantizeInt8, Measured, Preparing
  <2>6. QED
    BY <1>8, <2>3, <2>4, <2>5, MirrorsKept DEF QuantizeInt8, CopiedSoFar, Preparing
<1>9. CASE QuantizeFails
  <2>1. int8' \in Int8s /\ own' \in Graphs
    <3>1. CASE int8' \in {None, Torn} /\ UNCHANGED own
      BY <3>1 DEF Int8s, TypeInv
    <3>2. CASE fp32.graph # Torn /\ int8' = Quantized /\ own' \in {own, Torn}
      <4>1. fp32.graph \in Revisions /\ quantizer \in Quantizers
        BY <1>9, <3>2 DEF QuantizeFails, TypeInv, Measured, Graphs
      <4>2. QED
        BY <3>2, <4>1 DEF Quantized, Int8s, Int8Graphs, Graphs, TypeInv
    <3>3. QED
      BY <1>9, <3>1, <3>2 DEF QuantizeFails
  <2>2. TypeInv'
    BY <1>9, <2>1 DEF QuantizeFails, TypeInv, Preparing, Ended, world, mirrors
  <2>3. Measured'
    BY <1>9 DEF QuantizeFails, Measured, Preparing
  <2>4. QED
    BY <1>9, <2>2, <2>3, MirrorsKept DEF QuantizeFails, CopiedSoFar, Preparing
<1>10. CASE SanityDiff
  <2>1. PICK drift \in Levels :
          report' = [drift |-> drift, gate |-> args.gate, int8 |-> int8, fp32 |-> fp32.graph]
    BY <1>10 DEF SanityDiff
  <2>2. args.gate \in Levels /\ fp32.graph \in Graphs /\ int8 \in Int8s
    BY <1>10 DEF SanityDiff, TypeInv
  <2>3. report' \in Reports /\ report'.int8 = int8 /\ report'.fp32 = fp32.graph
    BY <2>1, <2>2 DEF Reports
  <2>4. TypeInv'
    BY <1>10, <2>3 DEF SanityDiff, TypeInv, Preparing, Ended, world, scratch, mirrors
  <2>5. Measured'
    BY <1>10, <2>3 DEF SanityDiff, Measured, Preparing, scratch
  <2>6. QED
    BY <1>10, <2>4, <2>5, MirrorsKept DEF SanityDiff, CopiedSoFar, Preparing
<1>11. QED
  BY <1>1, <1>2, <1>3, <1>4, <1>5, <1>6, <1>7, <1>8, <1>9, <1>10

\* The manifest that is written is the manifest of what was measured.
LEMMA StageStep == ASSUME PrepInv, Stage PROVE PrepInv'
<1> USE DEF PrepInv
<1>1. mirrored \in {{"fp32"}, Precisions} /\ up = 0
  BY DEF Stage, Measured, CopiedSoFar, Preparing
<1>2. \A p \in Precisions : Bundle(p) \in Bundles
  BY DEF Bundle, Bundles, TypeInv
<1>3. [p \in mirrored |-> Bundle(p)] \in [Precisions -> Bundles] \union [{"fp32"} -> Bundles]
  BY <1>1, <1>2 DEF Precisions
<1>4. manifest' \in Manifests
  BY <1>3 DEF Stage, Manifests, Ships, Precisions, TypeInv
<1>5. TypeInv'
  BY <1>4 DEF Stage, TypeInv, Preparing, Copying, Ended, world, scratch, mirrors
<1>6. Earned(manifest')
  <2>1. SUFFICES ASSUME manifest'.ships = "int8" PROVE Earned(manifest')
    BY DEF Earned
  <2>2. /\ manifest'.ships = Ships /\ manifest'.report = report
        /\ manifest'.files = [p \in mirrored |-> Bundle(p)]
    BY DEF Stage
  <2>3. report # None /\ Passed(report)
    BY <2>1, <2>2 DEF Ships
  <2>4. /\ mirrored = Precisions
        /\ report.int8 = int8 /\ report.fp32 = fp32.graph
        /\ Torn \notin {fp32.graph, fp32.tokenizer, int8, own}
    BY <2>3 DEF Stage, Measured
  <2>5. QED
    BY <2>2, <2>3, <2>4 DEF Earned, Passed, Bundle, Precisions
<1>7. Len(RelativePayload) > 0
  BY DEF RelativePayload
<1>8. (EarnedManifests /\ CopiedSoFar /\ PinIsServed)'
  <2>1. EarnedManifests'
    BY <1>6 DEF Stage, EarnedManifests, mirrors, Copying, Listed, Earned, Passed
  <2>2. (Len(RelativePayload) > 0)'
    BY DEF RelativePayload
  <2>3. CopiedSoFar'
    BY <1>1, <1>4, <2>2 DEF Stage, CopiedSoFar, Copied, Preparing, Copying
  <2>4. QED
    BY <2>1, <2>3 DEF Stage, PinIsServed
<1>9. Measured'
  BY DEF Stage, Measured, Preparing
<1>10. QED
  BY <1>5, <1>8, <1>9

-----------------------------------------------------------------------------
(* The steps that copy.                                                    *)

LEMMA MirrorStep == ASSUME PrepInv, MirrorLocally PROVE PrepInv'
<1> USE DEF PrepInv
<1> DEFINE next == IF args.upload THEN "upload" ELSE "done"
<1>1. manifest \in Manifests /\ local \in Mirrors /\ up \in Nat /\ Copied(local, up)
  BY DEF MirrorLocally, CopiedSoFar, Copying, TypeInv
<1>2. UNCHANGED <<world, scratch, bucket, runs, args, revision, mirrored, report, manifest>>
  BY DEF MirrorLocally
<1>3. args \in [clean : BOOLEAN, upload : BOOLEAN, gate : Levels]
  BY DEF MirrorLocally, TypeInv
<1>4. /\ local' \in Mirrors /\ up' \in Nat
      /\ \/ local'.manifest = local.manifest
         \/ local'.manifest = Torn
         \/ local'.manifest = manifest /\ Serves(local', manifest)
      /\ \/ pc' = "idle"
         \/ pc' = pc /\ Copied(local', up')
         \/ pc' = next /\ up' = 0 /\ Serves(local', manifest)
  BY <1>1, <1>2, CopyStep DEF MirrorLocally
<1>5. TypeInv'
  BY <1>2, <1>3, <1>4 DEF MirrorLocally, TypeInv, Preparing, Copying, Ended, world, scratch
<1>6. Measured'
  BY <1>4 DEF MirrorLocally, Measured, Preparing
<1>7. EarnedManifests'
  BY <1>2, <1>4 DEF MirrorLocally, EarnedManifests, Copying, Listed, Earned, Passed
<1>8. CASE pc' = "idle"
  BY <1>5, <1>6, <1>7, <1>8 DEF CopiedSoFar, PinIsServed, Preparing, Copying
<1>9. CASE pc' = pc /\ Copied(local', up')
  BY <1>1, <1>2, <1>5, <1>6, <1>7, <1>9
  DEF MirrorLocally, CopiedSoFar, PinIsServed, Preparing, Copying, Copied, RelativePayload
<1>10. CASE pc' = next /\ up' = 0 /\ Serves(local', manifest)
  <2>1. Copied(bucket, up)'
    BY <1>10 DEF Copied, RelativePayload
  <2>2. QED
    BY <1>1, <1>2, <1>3, <1>5, <1>6, <1>7, <1>10, <2>1
    DEF CopiedSoFar, PinIsServed, Preparing, Copying, Copied, Serves
<1>11. QED
  BY <1>4, <1>8, <1>9, <1>10

LEMMA UploadStep == ASSUME PrepInv, Upload PROVE PrepInv'
<1> USE DEF PrepInv
<1>1. /\ manifest \in Manifests /\ bucket \in Mirrors /\ up \in Nat /\ Copied(bucket, up)
      /\ args.upload /\ Serves(local, manifest)
  BY DEF Upload, CopiedSoFar, Copying, TypeInv
<1>2. UNCHANGED <<world, scratch, local, runs, args, revision, mirrored, report, manifest>>
  BY DEF Upload
<1>3. args \in [clean : BOOLEAN, upload : BOOLEAN, gate : Levels]
  BY DEF Upload, TypeInv
<1>4. /\ bucket' \in Mirrors /\ up' \in Nat
      /\ \/ bucket'.manifest = bucket.manifest
         \/ bucket'.manifest = Torn
         \/ bucket'.manifest = manifest /\ Serves(bucket', manifest)
      /\ \/ pc' = "idle"
         \/ pc' = pc /\ Copied(bucket', up')
         \/ pc' = "done" /\ up' = 0 /\ Serves(bucket', manifest)
  BY <1>1, <1>2, CopyStep DEF Upload
<1>5. TypeInv'
  BY <1>2, <1>3, <1>4 DEF Upload, TypeInv, Preparing, Copying, Ended, world, scratch
<1>6. Measured'
  BY <1>4 DEF Upload, Measured, Preparing
<1>7. EarnedManifests'
  BY <1>2, <1>4 DEF Upload, EarnedManifests, Copying, Listed, Earned, Passed
<1>8. CASE pc' = "idle"
  BY <1>5, <1>6, <1>7, <1>8 DEF CopiedSoFar, PinIsServed, Preparing, Copying
<1>9. CASE pc' = pc /\ Copied(bucket', up')
  BY <1>1, <1>2, <1>5, <1>6, <1>7, <1>9
  DEF Upload, CopiedSoFar, PinIsServed, Preparing, Copying, Copied, RelativePayload, Serves
<1>10. CASE pc' = "done" /\ up' = 0 /\ Serves(bucket', manifest)
  BY <1>1, <1>2, <1>5, <1>6, <1>7, <1>10 DEF CopiedSoFar, PinIsServed, Preparing, Copying, Serves
<1>11. QED
  BY <1>4, <1>8, <1>9, <1>10

LEMMA PrepInvStep == ASSUME PrepInv, [Next]_vars PROVE PrepInv'
<1>1. CASE \/ \E r \in Revisions : UpstreamMoves(r)
           \/ \E q \in Quantizers : QuantizerChanges(q)
           \/ UNCHANGED vars
  BY <1>1, WorldStep
<1>2. CASE \/ \E clean, upload \in BOOLEAN, gate \in Levels : Start(clean, upload, gate)
           \/ Clean \/ ResolveRevision \/ ReuseExport \/ ExportGraph \/ ExportTokenizer
           \/ ReuseInt8 \/ QuantizeInt8 \/ QuantizeFails \/ SanityDiff
  BY <1>2, PrepareStep
<1>3. CASE Stage
  BY <1>3, StageStep
<1>4. CASE MirrorLocally
  BY <1>4, MirrorStep
<1>5. CASE Upload
  BY <1>5, UploadStep
<1>6. CASE SanityRefuses \/ UploadFails \/ Kill
  BY <1>6, StopStep DEF SanityRefuses, UploadFails, Kill, Ended
<1>7. QED
  BY <1>1, <1>2, <1>3, <1>4, <1>5, <1>6 DEF Next, PrepareOne

\* The inductive invariant of the prep script.
THEOREM PrepCorrect == Spec => []PrepInv
<1>1. QED
  BY PrepInit, PrepInvStep, PTL DEF Spec

-----------------------------------------------------------------------------
(* The properties.                                                         *)

\* A manifest in a mirror that ships INT8 carries a measurement, of the graphs
\* it lists, that passed its gate, and lists no torn file: whatever the runs
\* before left in the scratch directory and however often upstream moved.
THEOREM Int8EarnedCorrect == Spec => []Int8EarnedItsPlace
<1>1. PrepInv => Int8EarnedItsPlace
  BY DEF PrepInv, EarnedManifests, Earned, Int8EarnedItsPlace
<1>2. QED
  BY <1>1, PrepCorrect, PTL

\* The digest a run ends with is of a manifest the local mirror serves, and the
\* bucket if it uploads.
THEOREM PinCorrect == Spec => []PinIsServed
<1>1. PrepInv => PinIsServed
  BY DEF PrepInv
<1>2. QED
  BY <1>1, PrepCorrect, PTL

\* No step puts a manifest into a mirror that does not hold all it lists.
THEOREM ManifestGoesLastCorrect == Spec => ManifestGoesLast
<1> DEFINE Last ==
      /\ Listed(local)' /\ local'.manifest # local.manifest => Serves(local', local'.manifest)
      /\ Listed(bucket)' /\ bucket'.manifest # bucket.manifest => Serves(bucket', bucket'.manifest)
<1>1. ASSUME PrepInv, [Next]_vars PROVE [Last]_vars
  <2>1. CASE MirrorLocally
    <3>1. /\ manifest \in Manifests /\ local \in Mirrors /\ up \in Nat /\ Copied(local, up)
          /\ UNCHANGED <<manifest, bucket>>
      BY <1>1, <2>1 DEF PrepInv, MirrorLocally, CopiedSoFar, Copying, TypeInv
    <3>2. \/ local'.manifest = local.manifest
          \/ local'.manifest = Torn
          \/ local'.manifest = manifest /\ Serves(local', manifest)
      BY <2>1, <3>1, CopyStep DEF MirrorLocally
    <3>3. QED
      BY <3>1, <3>2 DEF Listed
  <2>2. CASE Upload
    <3>1. /\ manifest \in Manifests /\ bucket \in Mirrors /\ up \in Nat /\ Copied(bucket, up)
          /\ UNCHANGED <<manifest, local>>
      BY <1>1, <2>2 DEF PrepInv, Upload, CopiedSoFar, Copying, TypeInv
    <3>2. \/ bucket'.manifest = bucket.manifest
          \/ bucket'.manifest = Torn
          \/ bucket'.manifest = manifest /\ Serves(bucket', manifest)
      BY <2>2, <3>1, CopyStep DEF Upload
    <3>3. QED
      BY <3>1, <3>2 DEF Listed
  <2>3. CASE UNCHANGED mirrors
    BY <2>3 DEF mirrors
  <2>4. QED
    BY <1>1, <2>1, <2>2, <2>3
    DEF Next, PrepareOne, vars, UpstreamMoves, QuantizerChanges, Start, Clean, ResolveRevision,
        ReuseExport, ExportGraph, ExportTokenizer, ReuseInt8, QuantizeInt8, QuantizeFails,
        SanityDiff, SanityRefuses, Stage, UploadFails, Kill
<1>2. QED
  BY <1>1, PrepCorrect, PTL DEF Spec, ManifestGoesLast
=============================================================================
