------------------------- MODULE ModelLoader_proofs -------------------------
(***************************************************************************)
(* Proofs about ModelLoader, for any releases, any number of files and any *)
(* contents: what a gate scores with is one whole release, the pinned one, *)
(* and a cache entry gives way to nothing less than a whole release.       *)
(*                                                                         *)
(* The type invariant is not enough: that the staged directory is a whole  *)
(* release when it is renamed in rests on every file staged so far being   *)
(* the manifest's, and on the manifest being that of the pinned release    *)
(* from the moment it is read.                                             *)
(*                                                                         *)
(* And about EncoderScoring, for any artifacts, pairs, limit and batch     *)
(* size: the same of a gate that goes on to score with the release; what   *)
(* its scores are read from; and that cut pairs say so.  There, the        *)
(* invariant adds that the scorer still matches the files in the cache     *)
(* entry, and what the scores so far are.                                  *)
(***************************************************************************)
EXTENDS EncoderScoring, SequenceTheorems, TLAPS

InLoad == {"check", "stage", "clear", "ready"}

\* What has been staged is the manifest's release, as far as it goes.
StagedPrefix ==
  /\ pc = "stage" => /\ staged < Len(FileOrder)
                     /\ \A k \in 1..staged :
                          staging[FileOrder[k]] = Weights[manifest][FileOrder[k]]
  /\ pc = "clear" => staging = Weights[manifest]

\* The manifest was checked against the pin when it was read.
ManifestPinned == pc \in InLoad => manifest \in Releases /\ pin \in {Unpinned, manifest}

LoaderInv == TypeOK /\ StagedPrefix /\ ManifestPinned /\ WholePinnedRelease

-----------------------------------------------------------------------------
(* Operators.                                                              *)

LEMMA OrderFacts ==
  /\ Len(FileOrder) \in Nat
  /\ Len(FileOrder) > 0
  /\ \A k \in 1..Len(FileOrder) : FileOrder[k] \in Files
  /\ \A f \in Files : \E k \in 1..Len(FileOrder) : f = FileOrder[k]
BY ReleasesAssumption DEF Files

LEMMA DirectoryFacts ==
  /\ Empty \in Directory
  /\ \A r \in Releases : Weights[r] \in [Files -> Contents] /\ Weights[r] \in Directory
  /\ NoDir \notin Directory
BY ReleasesAssumption, MarkersAssumption DEF Empty, Directory

LEMMA WithFile ==
  ASSUME NEW d \in Directory, NEW f \in Files, NEW c \in Contents \union {Absent}
  PROVE  [d EXCEPT ![f] = c] \in Directory
BY DEF Directory

\* A directory that agrees with a release on the whole order is the release.
LEMMA WholeOrder ==
  ASSUME NEW d \in Directory, NEW r \in Releases,
         \A k \in 1..Len(FileOrder) : d[FileOrder[k]] = Weights[r][FileOrder[k]]
  PROVE  d = Weights[r]
<1>1. \A f \in Files : d[f] = Weights[r][f]
  BY OrderFacts
<1> QED
  BY <1>1, DirectoryFacts DEF Directory

-----------------------------------------------------------------------------
(* The invariant.                                                          *)

LEMMA LoaderInit == Init => LoaderInv
BY OrderFacts, DirectoryFacts, MarkersAssumption
   DEF Init, LoaderInv, TypeOK, StagedPrefix, ManifestPinned, WholePinnedRelease, Idle, InLoad

LEMMA MirrorStep == ASSUME LoaderInv, Mirror PROVE LoaderInv'
<1> USE OrderFacts, DirectoryFacts DEF LoaderInv, process
<1>1. UNCHANGED <<pin, target, process>>
  BY DEF Mirror, StartMirror, MirrorFile, MirrorManifest, MirrorFails
<1>2. listed' \in Releases \union {None}
  BY DEF Mirror, StartMirror, MirrorFile, MirrorManifest, MirrorFails, TypeOK, Idle
<1>3. mirroring' \in [release : Releases, up : 0..Len(FileOrder)] \union {Idle}
  BY DEF Mirror, StartMirror, MirrorFile, MirrorManifest, MirrorFails, TypeOK, Idle
<1>4. objects' \in Directory
  <2>1. CASE MirrorFile
    <3>1. mirroring.release \in Releases /\ FileOrder[mirroring.up + 1] \in Files
      BY <2>1 DEF MirrorFile, TypeOK, Idle
    <3>2. Weights[mirroring.release][FileOrder[mirroring.up + 1]] \in Contents
      BY <3>1
    <3> QED
      BY <2>1, <3>1, <3>2, WithFile DEF MirrorFile, TypeOK
  <2>2. CASE ~MirrorFile
    BY <2>2 DEF Mirror, StartMirror, MirrorManifest, MirrorFails, TypeOK
  <2> QED
    BY <2>1, <2>2
<1>5. TypeOK'
  BY <1>1, <1>2, <1>3, <1>4 DEF TypeOK
<1>6. StagedPrefix' /\ ManifestPinned' /\ WholePinnedRelease'
  BY <1>1 DEF StagedPrefix, ManifestPinned, WholePinnedRelease
<1> QED
  BY <1>5, <1>6

LEMMA LoadingStep == ASSUME LoaderInv, Loading PROVE LoaderInv'
<1> USE OrderFacts, DirectoryFacts, MarkersAssumption DEF LoaderInv, bucket, InLoad
<1>1. CASE FetchManifest
  BY <1>1 DEF FetchManifest, ManifestUsable, TypeOK, StagedPrefix, ManifestPinned, WholePinnedRelease
<1>2. CASE ManifestRefused
  BY <1>2 DEF ManifestRefused, TypeOK, StagedPrefix, ManifestPinned, WholePinnedRelease
<1>3. CASE CacheHit
  BY <1>3 DEF CacheHit, IsComplete, TypeOK, StagedPrefix, ManifestPinned, WholePinnedRelease
<1>4. CASE CacheMiss
  BY <1>4 DEF CacheMiss, TypeOK, StagedPrefix, ManifestPinned, WholePinnedRelease
<1>5. CASE Download
  <2> DEFINE c == Weights[manifest][NextFile]
  <2>1. pc = "stage" /\ staged \in 0..(Len(FileOrder) - 1) /\ staging \in Directory
        /\ manifest \in Releases
    BY <1>5 DEF Download, TypeOK, StagedPrefix, ManifestPinned
  <2>2. NextFile \in Files /\ c \in Contents
    BY <2>1 DEF NextFile
  <2>3. staging' = [staging EXCEPT ![NextFile] = c]
    BY <1>5 DEF Download, Verified
  <2>4. staging' \in Directory
    BY <2>1, <2>2, <2>3, WithFile
  <2>5. UNCHANGED <<pin, listed, objects, mirroring, target, manifest>> /\ staged' = staged + 1
    BY <1>5 DEF Download
  <2>6. pc' = IF staged' = Len(FileOrder) THEN "clear" ELSE "stage"
    BY <1>5 DEF Download
  <2>7. \A k \in 1..staged' : staging'[FileOrder[k]] = Weights[manifest][FileOrder[k]]
    <3> SUFFICES ASSUME NEW k \in 1..staged'
                 PROVE  staging'[FileOrder[k]] = Weights[manifest][FileOrder[k]]
      OBVIOUS
    <3>1. k \in 1..Len(FileOrder) /\ FileOrder[k] \in Files
      BY <2>1, <2>5
    <3>2. CASE FileOrder[k] = NextFile
      BY <2>1, <2>2, <2>3, <3>1, <3>2 DEF Directory
    <3>3. CASE FileOrder[k] # NextFile
      <4>1. k # staged + 1
        BY <3>3 DEF NextFile
      <4>2. k \in 1..staged
        BY <2>1, <2>5, <4>1
      <4>3. staging[FileOrder[k]] = Weights[manifest][FileOrder[k]]
        BY <2>1, <4>2 DEF StagedPrefix
      <4> QED
        BY <2>1, <2>3, <3>1, <3>3, <4>3 DEF Directory
    <3> QED
      BY <3>2, <3>3
  <2>8. staged' = Len(FileOrder) => staging' = Weights[manifest]
    BY <2>1, <2>4, <2>7, WholeOrder
  <2>9. TypeOK'
    BY <2>1, <2>4, <2>5, <2>6 DEF TypeOK
  <2>10. StagedPrefix'
    BY <2>1, <2>5, <2>6, <2>7, <2>8 DEF StagedPrefix
  <2>11. ManifestPinned' /\ WholePinnedRelease'
    BY <2>1, <2>5, <2>6 DEF ManifestPinned, WholePinnedRelease
  <2> QED
    BY <2>9, <2>10, <2>11
<1>6. CASE DownloadFails
  BY <1>6 DEF DownloadFails, TypeOK, StagedPrefix, ManifestPinned, WholePinnedRelease
<1>7. CASE ClearTarget
  <2>1. UNCHANGED <<pin, listed, objects, mirroring, pc, manifest, staging, staged>> /\ pc = "clear"
    BY <1>7 DEF ClearTarget, process
  <2>2. target' \in Directory \union {NoDir}
    BY <1>7, WithFile DEF ClearTarget, TypeOK
  <2>3. TypeOK'
    BY <2>1, <2>2 DEF TypeOK
  <2> QED
    BY <2>1, <2>3 DEF StagedPrefix, ManifestPinned, WholePinnedRelease
<1>8. CASE Install
  BY <1>8 DEF Install, TypeOK, StagedPrefix, ManifestPinned, WholePinnedRelease
<1> QED
  BY <1>1, <1>2, <1>3, <1>4, <1>5, <1>6, <1>7, <1>8 DEF Loading

LEMMA LoaderInvStep == ASSUME LoaderInv, [Next]_vars PROVE LoaderInv'
<1> USE OrderFacts, DirectoryFacts, MarkersAssumption DEF LoaderInv, bucket, InLoad
<1>1. CASE Mirror
  BY <1>1, MirrorStep
<1>2. CASE Loading
  BY <1>2, LoadingStep
<1>3. CASE Restart
  BY <1>3 DEF Restart, TypeOK, StagedPrefix, ManifestPinned, WholePinnedRelease
<1>4. CASE Kill
  BY <1>4 DEF Kill, TypeOK, StagedPrefix, ManifestPinned, WholePinnedRelease
<1>5. CASE Damage
  <2>1. UNCHANGED <<pin, listed, objects, mirroring, pc, manifest, staging, staged>>
        /\ pc \in {"failed", "killed"}
    BY <1>5 DEF Damage, process
  <2>2. target' \in Directory
    <3>1. target \in Directory
      BY <1>5 DEF Damage, TypeOK
    <3>2. PICK f \in Files, c \in Contents \union {Absent} : target' = [target EXCEPT ![f] = c]
      BY <1>5 DEF Damage
    <3> QED
      BY <3>1, <3>2, WithFile
  <2>3. TypeOK'
    BY <2>1, <2>2 DEF TypeOK
  <2> QED
    BY <2>1, <2>3 DEF StagedPrefix, ManifestPinned, WholePinnedRelease
<1>6. CASE UNCHANGED vars
  BY <1>6 DEF vars, process, TypeOK, StagedPrefix, ManifestPinned, WholePinnedRelease
<1> QED
  BY <1>1, <1>2, <1>3, <1>4, <1>5, <1>6 DEF Next

LEMMA LoaderCorrect == Spec => []LoaderInv
BY LoaderInit, LoaderInvStep, PTL DEF Spec

-----------------------------------------------------------------------------
(* The theorems.                                                           *)

(***************************************************************************)
(* Whatever is mirrored meanwhile, killed or damaged, a process that is    *)
(* ready scores with one whole release, the one its run pinned             *)
(* (loader.py: load, _materialize).                                        *)
(***************************************************************************)
THEOREM ScoresWithWholeRelease == Spec => []WholePinnedRelease
<1>1. LoaderInv => WholePinnedRelease
  BY DEF LoaderInv
<1> QED
  BY <1>1, LoaderCorrect, PTL

(***************************************************************************)
(* Every change a load makes to the cache entry finds a whole verified     *)
(* release in the temp directory (loader.py: _materialize).                *)
(***************************************************************************)
THEOREM EntryKeptUntilReplaced == Spec => EntryGivesWayToWhole
<1>1. ASSUME LoaderInv, [Next]_vars
      PROVE  [Loading /\ target' # target => staging = Weights[manifest]]_vars
  <2>1. Loading /\ target' # target => pc = "clear"
    BY DEF Loading, FetchManifest, ManifestRefused, CacheHit, CacheMiss, Download,
           DownloadFails, ClearTarget, Install
  <2> QED
    BY <1>1, <2>1 DEF LoaderInv, StagedPrefix
<1> QED
  BY <1>1, LoaderCorrect, PTL DEF Spec, EntryGivesWayToWhole

-----------------------------------------------------------------------------
(* Scoring with what the loader installed.                                 *)

\* What the columns of a score mean, by the scorer and the graph.
Reading == [class \in DOMAIN ReadFrom |->
              IF ReadFrom[class] = None THEN None ELSE Meanings[ReadFrom[class]]]

\* The scorer was built from the files that are still there.
ScorerBuilt ==
  pc = "ready" /\ scorer # None =>
    /\ work \in Works
    /\ artifact.task = "NLI_3WAY" =>
         Interpretable(IdToLabel) /\ scorer.map = LabelMap(IdToLabel)
    /\ artifact.task # "NLI_3WAY" => scorer.map = NoMap

\* Before the release is installed there is no scorer, and only one that could
\* read its head has given scores.
ScoredInOrder ==
  /\ pc \notin {"ready", "failed"} => scorer = None
  /\ scores # <<>> => pc = "ready" /\ scorer # None /\ Readable

\* The scores so far are those of the first pairs.
Traced ==
  /\ scores \in Seq([pair : Nat, reads : {Reading}, truncated : BOOLEAN])
  /\ scores # <<>> => Len(scores) <= Len(work.pairs)
  /\ \A k \in 1..Len(scores) :
       /\ scores[k].pair = k
       /\ work.pairs[k] > MaxSeqTokens => scores[k].truncated = TRUE

ServingInv == LoaderInv /\ artifact \in Artifacts /\ ScorerBuilt /\ ScoredInOrder /\ Traced

LEMMA ServingStart == ServingInit => ServingInv
<1> SUFFICES ASSUME ServingInit
             PROVE  ServingInv
  OBVIOUS
<1>1. LoaderInv
  BY LoaderInit DEF ServingInit
<1>2. artifact \in Artifacts /\ pc = "start" /\ scorer = None /\ scores = <<>>
  BY DEF ServingInit, Init
<1> QED
  BY <1>1, <1>2 DEF ServingInv, ScorerBuilt, ScoredInOrder, Traced

\* What is read stays what it is while the entry and the scorer do.
LEMMA SameReading ==
  ASSUME UNCHANGED <<target, artifact, scorer, work>>
  PROVE  /\ Reading' = Reading
         /\ Readable' = Readable
         /\ IdToLabel' = IdToLabel
BY DEF Reading, Readable, ReadFrom, SupportColumn, Meanings, IdToLabel, LabelsOf

\* The loader does not touch the entry of a process that is ready, and has no
\* scorer before.
LEMMA LoaderServes == ASSUME ServingInv, LoaderStep PROVE ServingInv'
<1>1. [Next]_vars /\ UNCHANGED <<artifact, scorer, work, scores>>
  BY DEF LoaderStep, Next, scoring
<1>2. LoaderInv'
  BY <1>1, LoaderInvStep DEF ServingInv
<1>3. pc = "ready" => UNCHANGED <<pc, target>>
  BY DEF LoaderStep, Mirror, StartMirror, MirrorFile, MirrorManifest, MirrorFails, Loading,
         FetchManifest, ManifestRefused, CacheHit, CacheMiss, Download, DownloadFails,
         ClearTarget, Install, Kill, Damage, process
<1>4. pc = "failed" => pc' = "failed"
  BY DEF LoaderStep, Mirror, StartMirror, MirrorFile, MirrorManifest, MirrorFails, Loading,
         FetchManifest, ManifestRefused, CacheHit, CacheMiss, Download, DownloadFails,
         ClearTarget, Install, Kill, Damage, process
<1>5. CASE pc = "ready"
  BY <1>1, <1>2, <1>3, <1>5, SameReading DEF ServingInv, ScorerBuilt, ScoredInOrder, Traced
<1>6. CASE pc # "ready"
  <2>1. scores = <<>> /\ scores' = <<>>
    BY <1>1, <1>6 DEF ServingInv, ScoredInOrder
  <2>2. pc' = "ready" => scorer' = None
    BY <1>1, <1>4, <1>6 DEF ServingInv, ScoredInOrder
  <2>3. pc' \notin {"ready", "failed"} => scorer' = None
    BY <1>1, <1>4, <1>6 DEF ServingInv, ScoredInOrder
  <2> QED
    BY <1>1, <1>2, <2>1, <2>2, <2>3 DEF ServingInv, ScorerBuilt, ScoredInOrder, Traced
<1> QED
  BY <1>5, <1>6

\* The model of a failed load or scoring: nothing but the process is gone.
LEMMA FailureServes ==
  ASSUME ServingInv, pc = "ready", pc' = "failed", scores = <<>>,
         UNCHANGED <<pin, bucket, target, manifest, staging, staged, scoring>>
  PROVE  ServingInv'
<1>1. LoaderInv'
  BY DEF ServingInv, LoaderInv, TypeOK, StagedPrefix, ManifestPinned, WholePinnedRelease, InLoad,
         bucket
<1> QED
  BY <1>1 DEF ServingInv, ScorerBuilt, ScoredInOrder, Traced, scoring

\* The tokens of a batch are those of its longest pair: one that was cut is at
\* the limit, and no pair is beyond.
LEMMA CutReported ==
  ASSUME NEW batch \in Seq(Nat), NEW j \in 1..Len(batch), batch[j] > MaxSeqTokens
  PROVE  ReportedTruncated(batch) = TRUE
<1> DEFINE kept(k) == Min({batch[k], MaxSeqTokens})
           tokens == {kept(k) : k \in DOMAIN batch}
<1>1. MaxSeqTokens \in Nat
  BY ScoringAssumption
<1>2. ASSUME NEW k \in DOMAIN batch
      PROVE  kept(k) <= MaxSeqTokens /\ kept(k) \in Nat
  <2>1. batch[k] \in Nat
    BY <1>2
  <2>2. \E x \in {batch[k], MaxSeqTokens} : \A y \in {batch[k], MaxSeqTokens} : x <= y
    BY <1>1, <2>1
  <2> QED
    BY <1>1, <2>1, <2>2 DEF Min
<1>3. kept(j) = MaxSeqTokens
  <2>1. batch[j] \in Nat /\ batch[j] > MaxSeqTokens
    OBVIOUS
  <2>2. \E x \in {batch[j], MaxSeqTokens} : \A y \in {batch[j], MaxSeqTokens} : x <= y
    BY <1>1, <2>1
  <2> QED
    BY <1>1, <2>1, <2>2 DEF Min
<1>4. MaxSeqTokens \in tokens
  <2>1. j \in DOMAIN batch
    OBVIOUS
  <2> QED
    BY <1>3, <2>1
<1>5. \A y \in tokens : y \in Nat /\ MaxSeqTokens >= y
  BY <1>1, <1>2
<1> HIDE DEF tokens, kept
<1>6. \E x \in tokens : \A y \in tokens : x >= y
  BY <1>4, <1>5
<1>7. Max(tokens) \in tokens /\ \A y \in tokens : Max(tokens) >= y
  BY <1>6 DEF Max
<1>8. Max(tokens) >= MaxSeqTokens
  BY <1>4, <1>7
<1> QED
  BY <1>8 DEF ReportedTruncated, Ids, tokens, kept

LEMMA BuildServes == ASSUME ServingInv, BuildScorer PROVE ServingInv'
<1>1. /\ pc = "ready" /\ scorer = None /\ scores = <<>> /\ scores' = <<>>
      /\ work' \in Works /\ UNCHANGED <<vars, artifact>>
      /\ artifact.task = "NLI_3WAY" => Interpretable(IdToLabel)
      /\ scorer' = [map |-> IF artifact.task = "NLI_3WAY" THEN LabelMap(IdToLabel) ELSE NoMap]
  BY DEF BuildScorer, ServingInv, ScoredInOrder
<1>2. LoaderInv'
  BY <1>1, LoaderInvStep DEF ServingInv
<1>3. IdToLabel' = IdToLabel
  BY <1>1 DEF IdToLabel, LabelsOf, vars
<1>4. ScorerBuilt'
  BY <1>1, <1>3 DEF ScorerBuilt, vars
<1>5. ScoredInOrder' /\ Traced'
  BY <1>1 DEF ScoredInOrder, Traced, vars, process
<1> QED
  BY <1>1, <1>2, <1>4, <1>5 DEF ServingInv

\* The scores of a batch go after those of the batches before it.
LEMMA ScoringServes == ASSUME ServingInv, ScoreBatch PROVE ServingInv'
<1> DEFINE n == Len(scores)
           last == Min({n + BatchSize, Len(work.pairs)})
           score(k) == [pair |-> n + k, reads |-> Reading, truncated |-> ReportedTruncated(Batch)]
           new == [k \in DOMAIN Batch |-> score(k)]
           S == [pair : Nat, reads : {Reading}, truncated : BOOLEAN]
<1>1. /\ pc = "ready" /\ scorer # None /\ n < Len(work.pairs) /\ Readable
      /\ UNCHANGED <<vars, artifact, scorer, work>>
      /\ scores' = scores \o new
  BY DEF ScoreBatch, Asked, Reading
<1>2. /\ n \in Nat /\ scores \in Seq(S) /\ work.pairs \in Seq(Nat)
      /\ BatchSize \in Nat /\ BatchSize > 0 /\ Len(work.pairs) \in Nat
  BY <1>1, ScoringAssumption DEF ServingInv, ScorerBuilt, Traced
<1>3. last \in Nat /\ n < last /\ last <= Len(work.pairs)
  <2>1. \E x \in {n + BatchSize, Len(work.pairs)} : \A y \in {n + BatchSize, Len(work.pairs)} : x <= y
    BY <1>2
  <2> QED
    BY <1>1, <1>2, <2>1 DEF Min
<1>4. Batch = SubSeq(work.pairs, n + 1, last)
  BY DEF Batch
<1> HIDE DEF last, n
<1>5. /\ Batch \in Seq(Nat) /\ Len(Batch) = last - n
      /\ \A k \in 1..(last - n) : Batch[k] = work.pairs[n + k]
  <2>1. \A i \in (n + 1)..last : work.pairs[i] \in Nat
    BY <1>2, <1>3
  <2>2. n + 1 \in Int /\ last \in Int
    BY <1>2, <1>3
  <2>3. /\ SubSeq(work.pairs, n + 1, last) \in Seq(Nat)
        /\ Len(SubSeq(work.pairs, n + 1, last)) =
             IF n + 1 <= last THEN last - (n + 1) + 1 ELSE 0
        /\ \A i \in 1..last - (n + 1) + 1 :
             SubSeq(work.pairs, n + 1, last)[i] = work.pairs[(n + 1) + i - 1]
    BY <2>1, <2>2, SubSeqProperties
  <2>4. last - (n + 1) + 1 = last - n /\ n + 1 <= last
    BY <1>2, <1>3
  <2>5. \A i \in 1..(last - n) : (n + 1) + i - 1 = n + i
    BY <1>2, <1>3
  <2> QED
    BY <1>4, <2>3, <2>4, <2>5
<1>6. new \in Seq(S) /\ Len(new) = last - n
  <2>1. DOMAIN Batch = 1..(last - n) /\ last - n \in Nat
    BY <1>2, <1>3, <1>5
  <2>2. ReportedTruncated(Batch) \in BOOLEAN
    BY DEF ReportedTruncated
  <2>3. \A k \in DOMAIN Batch : n + k \in Nat
    BY <1>2, <2>1
  <2>4. \A k \in DOMAIN Batch : score(k) \in S
    BY <2>2, <2>3
  <2> HIDE DEF score, S
  <2> QED
    BY <2>1, <2>4
<1>7. /\ scores' \in Seq(S) /\ Len(scores') = last
      /\ \A k \in 1..last : scores'[k] = IF k <= n THEN scores[k] ELSE new[k - n]
  BY <1>1, <1>2, <1>3, <1>6, ConcatProperties DEF n
<1>8. /\ Reading' = Reading /\ Readable' = Readable /\ IdToLabel' = IdToLabel
  BY <1>1, SameReading DEF vars
<1>9. ASSUME NEW k \in 1..last
      PROVE  /\ scores'[k].pair = k
             /\ work.pairs[k] > MaxSeqTokens => scores'[k].truncated = TRUE
  <2>1. CASE k <= n
    <3>1. k \in 1..Len(scores)
      <4>1. k \in 1..n
        BY <1>2, <1>3, <2>1
      <4> QED
        BY <4>1 DEF n
    <3>2. scores'[k] = scores[k]
      BY <1>7, <2>1
    <3> QED
      BY <3>1, <3>2 DEF ServingInv, Traced
  <2>2. CASE ~(k <= n)
    <3>1. k - n \in 1..Len(Batch) /\ Batch[k - n] = work.pairs[k]
      BY <1>2, <1>3, <1>5, <2>2
    <3>2. scores'[k] = score(k - n)
      <4>1. k - n \in DOMAIN Batch
        BY <1>5, <3>1
      <4>2. scores'[k] = new[k - n]
        BY <1>7, <2>2
      <4> QED
        BY <4>1, <4>2
    <3>3. scores'[k].pair = k
      BY <1>2, <1>3, <3>2
    <3>4. ASSUME work.pairs[k] > MaxSeqTokens
          PROVE  scores'[k].truncated = TRUE
      <4>1. ReportedTruncated(Batch) = TRUE
        BY <1>5, <3>1, <3>4, CutReported
      <4> QED
        BY <3>2, <4>1
    <3> QED
      BY <3>3, <3>4
  <2> QED
    BY <2>1, <2>2
<1>10. Traced'
  BY <1>1, <1>3, <1>7, <1>8, <1>9 DEF Traced
<1>11. LoaderInv'
  BY <1>1, LoaderInvStep DEF ServingInv
<1>12. ScorerBuilt' /\ ScoredInOrder'
  BY <1>1, <1>8 DEF ServingInv, ScorerBuilt, ScoredInOrder, vars, process
<1> QED
  BY <1>1, <1>10, <1>11, <1>12 DEF ServingInv

LEMMA ServingStep == ServingInv /\ [ServingNext]_servingVars => ServingInv'
<1> SUFFICES ASSUME ServingInv, [ServingNext]_servingVars
             PROVE  ServingInv'
  OBVIOUS
<1>1. CASE LoaderStep
  BY <1>1, LoaderServes
<1>2. CASE NewProcess
  <2>1. LoaderInv'
    BY <1>2, LoaderInvStep DEF NewProcess, Next, ServingInv
  <2>2. pc' = "start" /\ scorer' = None /\ scores' = <<>> /\ artifact' = artifact
    BY <1>2 DEF NewProcess, Restart
  <2> QED
    BY <2>1, <2>2 DEF ServingInv, ScorerBuilt, ScoredInOrder, Traced
<1>3. CASE BuildScorer
  BY <1>3, BuildServes
<1>4. CASE ScorerRefused
  <2>1. scores = <<>>
    BY <1>4 DEF ScorerRefused, ServingInv, ScoredInOrder
  <2> QED
    BY <1>4, <2>1, FailureServes DEF ScorerRefused
<1>5. CASE ScoreBatch
  BY <1>5, ScoringServes
<1>6. CASE ScoringRaises
  <2>1. scores = <<>>
    BY <1>6 DEF ScoringRaises, ServingInv, ScoredInOrder
  <2> QED
    BY <1>6, <2>1, FailureServes DEF ScoringRaises
<1>7. CASE UNCHANGED servingVars
  <2>1. UNCHANGED <<vars, artifact, scorer, work, scores>>
    BY <1>7 DEF servingVars, scoring
  <2>2. LoaderInv'
    BY <2>1, LoaderInvStep DEF ServingInv
  <2> QED
    BY <2>1, <2>2, SameReading
    DEF ServingInv, ScorerBuilt, ScoredInOrder, Traced, vars, process
<1> QED
  BY <1>1, <1>2, <1>3, <1>4, <1>5, <1>6, <1>7 DEF ServingNext

LEMMA ServingCorrect == ServingSpec => []ServingInv
BY ServingStart, ServingStep, PTL DEF ServingSpec

(***************************************************************************)
(* A gate that scores goes on with one whole release, the pinned one,      *)
(* from its first batch to its last (loader.py, encoder.py).               *)
(***************************************************************************)
THEOREM GateScoresWithWholeRelease == ServingSpec => []WholePinnedRelease
<1>1. ServingInv => WholePinnedRelease
  BY DEF ServingInv, LoaderInv
<1> QED
  BY <1>1, ServingCorrect, PTL

(***************************************************************************)
(* Nor do the scorer's own failures change when a load may touch the cache *)
(* entry (loader.py: _materialize).                                        *)
(***************************************************************************)
THEOREM GateKeepsEntryUntilReplaced == ServingSpec => EntryGivesWayToWhole
<1>1. ServingInv => [Loading /\ target' # target => staging = Weights[manifest]]_vars
  <2>1. Loading /\ target' # target => pc = "clear"
    BY DEF Loading, FetchManifest, ManifestRefused, CacheHit, CacheMiss, Download,
           DownloadFails, ClearTarget, Install
  <2> QED
    BY <2>1 DEF ServingInv, LoaderInv, StagedPrefix
<1> QED
  BY <1>1, ServingCorrect, PTL DEF EntryGivesWayToWhole

(***************************************************************************)
(* For any pairs, any batch size and any limit: the scores are those of    *)
(* the pairs, in their order over all batches, and a pair that was cut     *)
(* says so (encoder.py: _run).                                             *)
(***************************************************************************)
THEOREM CutPairsReportedCorrect == ServingSpec => []CutPairsReported
<1>1. ServingInv => CutPairsReported
  <2> SUFFICES ASSUME ServingInv, NEW k \in DOMAIN scores
               PROVE  /\ k \in DOMAIN work.pairs /\ scores[k].pair = k
                      /\ work.pairs[k] > MaxSeqTokens => scores[k].truncated
    BY DEF CutPairsReported
  <2>1. k \in 1..Len(scores) /\ scores # <<>>
    BY DEF ServingInv, Traced
  <2>2. work.pairs \in Seq(Nat) /\ Len(scores) <= Len(work.pairs)
    BY <2>1, ScoringAssumption DEF ServingInv, ScorerBuilt, ScoredInOrder, Traced
  <2>3. scores[k].pair = k /\ (work.pairs[k] > MaxSeqTokens => scores[k].truncated = TRUE)
    BY <2>1 DEF ServingInv, Traced
  <2> QED
    BY <2>1, <2>2, <2>3
<1> QED
  BY <1>1, ServingCorrect, PTL

\* The columns an NLI scorer reads, of labels that tell the truth.
LEMMA ReadAsNamed ==
  ASSUME NEW labels \in Seq(STRING), NEW head \in Seq(STRING),
         Interpretable(labels), Len(head) = Len(labels),
         \A class \in Classes : \A c \in Columns(labels, class) : head[c] = class,
         "neutral" \in ToSet(head) => Len(head) >= 3
  PROVE  LET map == LabelMap(labels) IN
         /\ DOMAIN map = Classes
         /\ \A class \in {"entailment", "contradiction"} :
              map[class] # None /\ head[map[class]] = class
         /\ IF map.neutral = None THEN "neutral" \notin ToSet(head)
                                  ELSE head[map.neutral] = "neutral" /\ "neutral" \in ToSet(head)
         /\ Len(head) # 1
<1> DEFINE map == LabelMap(labels)
<1>1. DOMAIN map = Classes
  BY DEF LabelMap
<1>2. \A class \in Classes : Columns(labels, class) \subseteq 1..Len(labels)
  BY DEF Columns
<1>3. ASSUME NEW class \in Classes, Columns(labels, class) # {}
      PROVE  map[class] \in Columns(labels, class) /\ map[class] # None
  <2>1. map[class] = CHOOSE c \in Columns(labels, class) : TRUE
    BY <1>3 DEF LabelMap
  <2>2. map[class] \in Columns(labels, class)
    BY <1>3, <2>1
  <2>3. None \notin Nat
    BY ScoringAssumption
  <2> QED
    BY <1>2, <2>2, <2>3
<1>4. ASSUME NEW class \in {"entailment", "contradiction"}
      PROVE  map[class] # None /\ head[map[class]] = class /\ map[class] \in 1..Len(labels)
  <2>1. Columns(labels, class) # {} /\ class \in Classes
    BY DEF Interpretable, Classes
  <2> QED
    BY <1>2, <1>3, <2>1
<1>5. IF map.neutral = None THEN "neutral" \notin ToSet(head)
                            ELSE head[map.neutral] = "neutral" /\ "neutral" \in ToSet(head)
  <2>1. "neutral" \in Classes
    BY DEF Classes
  <2>2. CASE Columns(labels, "neutral") = {}
    <3>1. map["neutral"] = None
      BY <2>1, <2>2 DEF LabelMap
    <3>2. ~(Len(labels) >= 3)
      BY <2>2 DEF Interpretable
    <3> QED
      BY <3>1, <3>2
  <2>3. CASE Columns(labels, "neutral") # {}
    <3>1. map["neutral"] # None /\ map["neutral"] \in 1..Len(head) /\ head[map["neutral"]] = "neutral"
      BY <1>2, <1>3, <2>1, <2>3
    <3>2. "neutral" \in ToSet(head)
      BY <3>1 DEF ToSet
    <3> QED
      BY <3>1, <3>2
  <2> QED
    BY <2>2, <2>3
<1>6. Len(head) # 1
  BY <1>4
<1> QED
  BY <1>1, <1>4, <1>5, <1>6

(***************************************************************************)
(* For every artifact whose labels name the columns of its heads: whatever *)
(* was mirrored, damaged or cached before, each probability of a score is  *)
(* read from the column that means what the name of the probability says   *)
(* (encoder.py: _resolve_label_map, score_nli, score_grounding).           *)
(***************************************************************************)
THEOREM ScoresMeanCorrect ==
  ServingSpec => [](Truthful(artifact) => ScoresMeanWhatTheySay)
<1>1. ServingInv => (Truthful(artifact) => ScoresMeanWhatTheySay)
  <2> SUFFICES ASSUME ServingInv, Truthful(artifact), NEW k \in DOMAIN scores,
                      NEW class \in DOMAIN scores[k].reads
               PROVE  Meant(class, scores[k].reads[class])
    BY DEF ScoresMeanWhatTheySay
  <2> DEFINE labels == IdToLabel
             head == Meanings
  <2>1. k \in 1..Len(scores) /\ scores # <<>> /\ scores[k].reads = Reading
    <3> DEFINE S == [pair : Nat, reads : {Reading}, truncated : BOOLEAN]
    <3>1. scores \in Seq(S)
      BY DEF ServingInv, Traced
    <3>2. \A x \in S : x.reads = Reading
      OBVIOUS
    <3> HIDE DEF S
    <3>3. k \in 1..Len(scores) /\ scores[k] \in S
      BY <3>1
    <3>4. scores # <<>>
      BY <3>1, <3>3
    <3> QED
      BY <3>2, <3>3, <3>4
  <2>2. /\ pc = "ready" /\ scorer # None /\ Readable
        /\ artifact.task = "NLI_3WAY" => Interpretable(labels) /\ scorer.map = LabelMap(labels)
        /\ artifact.task # "NLI_3WAY" => scorer.map = NoMap
    BY <2>1 DEF ServingInv, ScorerBuilt, ScoredInOrder
  <2>3. target = Weights[manifest] /\ manifest \in Releases
    BY <2>2 DEF ServingInv, LoaderInv, WholePinnedRelease, ManifestPinned, InLoad
  <2>4. labels \in Seq(STRING) /\ head \in Seq(STRING)
    <3>1. target["config"] \in Contents /\ target["graph"] \in Contents
      BY <2>3, DirectoryFacts, ScoringAssumption
    <3> QED
      BY <3>1, ScoringAssumption DEF ServingInv, IdToLabel, LabelsOf, Meanings
  <2>5. IF artifact.task = "NLI_3WAY"
          THEN /\ Len(head) = Len(labels)
               /\ \A c \in Classes : \A j \in Columns(labels, c) : head[j] = c
               /\ "neutral" \in ToSet(head) => Len(head) >= 3
          ELSE head # <<>> /\ head[Len(head)] = "supported"
    BY <2>2, <2>3 DEF Truthful, IdToLabel, Meanings
  <2> HIDE DEF labels
  <2>6. class \in DOMAIN ReadFrom
        /\ Reading[class] = IF ReadFrom[class] = None THEN None ELSE Meanings[ReadFrom[class]]
    BY <2>1 DEF Reading
  <2>7. CASE artifact.task = "NLI_3WAY" /\ work.asks = "NLI_3WAY"
    <3>1. ReadFrom = LabelMap(labels)
      BY <2>2, <2>7 DEF ReadFrom
    <3>2. /\ DOMAIN ReadFrom = Classes
          /\ \A c \in {"entailment", "contradiction"} : ReadFrom[c] # None /\ head[ReadFrom[c]] = c
          /\ IF ReadFrom.neutral = None THEN "neutral" \notin ToSet(head)
             ELSE head[ReadFrom.neutral] = "neutral" /\ "neutral" \in ToSet(head)
      BY <2>2, <2>4, <2>5, <2>7, <3>1, ReadAsNamed
    <3>3. CASE class = "neutral"
      BY <2>1, <2>6, <3>2, <3>3 DEF Meant
    <3>4. CASE class \in {"entailment", "contradiction"}
      BY <2>1, <2>6, <3>2, <3>4 DEF Meant
    <3> QED
      BY <2>6, <3>2, <3>3, <3>4 DEF Classes
  <2>8. CASE artifact.task # "NLI_3WAY" /\ work.asks = "NLI_3WAY"
    BY <2>2, <2>8 DEF Readable
  <2>9. CASE work.asks # "NLI_3WAY"
    <3>1. class = "support" /\ ReadFrom[class] = SupportColumn
      BY <2>6, <2>9 DEF ReadFrom
    <3>2. SupportColumn # None /\ head[SupportColumn] \in {"supported", "entailment"}
      <4>1. CASE artifact.task = "NLI_3WAY"
        <5>1. /\ LabelMap(labels).entailment # None /\ Len(head) # 1
              /\ head[LabelMap(labels).entailment] = "entailment"
          BY <2>2, <2>4, <2>5, <4>1, ReadAsNamed
        <5> QED
          BY <2>2, <4>1, <5>1 DEF SupportColumn
      <4>2. CASE artifact.task # "NLI_3WAY"
        <5>1. scorer.map.entailment = None
          BY <2>2, <4>2 DEF NoMap, Classes
        <5>2. SupportColumn = Len(head)
          BY <5>1 DEF SupportColumn
        <5>3. None \notin Nat
          BY ScoringAssumption
        <5> QED
          BY <2>4, <2>5, <4>2, <5>2, <5>3
      <4> QED
        BY <4>1, <4>2
    <3> QED
      BY <2>1, <2>6, <3>1, <3>2 DEF Meant
  <2> QED
    BY <2>7, <2>8, <2>9
<1> QED
  BY <1>1, ServingCorrect, PTL
=============================================================================
