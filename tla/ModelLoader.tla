----------------------------- MODULE ModelLoader -----------------------------
(***************************************************************************)
(* How a process gets the weights a gate scores with: ModelLoader.load, on *)
(* a cache directory that outlives the process, from a bucket the prep     *)
(* script may be mirroring into at the same time.                          *)
(*                                                                         *)
(* One artifact name@version.  A release is one run of the prep script     *)
(* for it; files are compared by their bytes, which is what their digests  *)
(* do.  One process at a time uses the cache (a job has one task; the      *)
(* bake-off is one process), and it may be killed between any two steps.   *)
(***************************************************************************)
EXTENDS Naturals, Sequences

CONSTANTS
  Releases,    \* what the prep script has exported under this name@version
  FileOrder,   \* the files of the shipping precision, in upload order
  Contents,    \* what a file may hold
  Weights,     \* release -> file -> its bytes
  Unpinned,    \* the blank sha256 a gate is configured with
  Absent, NoDir, None

Files == {FileOrder[k] : k \in 1..Len(FileOrder)}

\* A manifest that lacks a required file is not readable, so there are some.
ASSUME ReleasesAssumption ==
  /\ FileOrder \in Seq(Files)
  /\ FileOrder # <<>>
  /\ Weights \in [Releases -> [Files -> Contents]]
  /\ \A r, s \in Releases : Weights[r] = Weights[s] => r = s

ASSUME MarkersAssumption ==
  /\ Absent \notin Contents
  /\ NoDir \notin [Files -> Contents \union {Absent}]
  /\ {Unpinned, None} \cap Releases = {}

VARIABLES
  pin,        \* the digest frozen in the run's configSnapshot
  listed,     \* the release whose manifest.json is in the bucket
  objects,    \* the files in the bucket
  mirroring,  \* the release being mirrored, and how many files are up
  target,     \* the cache entry: a directory, or none
  pc, manifest, staging, staged   \* the process: its manifest and temp directory

bucket == <<listed, objects, mirroring>>
process == <<pc, manifest, staging, staged>>
vars == <<pin, bucket, target, process>>

Empty == [f \in Files |-> Absent]
Directory == [Files -> Contents \union {Absent}]

-----------------------------------------------------------------------------
(* The prep script: every file, and the manifest last.                     *)

Idle == [release |-> None, up |-> 0]

StartMirror(r) ==
  /\ mirroring = Idle
  /\ mirroring' = [release |-> r, up |-> 0]
  /\ UNCHANGED <<pin, listed, objects, target, process>>

MirrorFile ==
  /\ mirroring # Idle
  /\ mirroring.up < Len(FileOrder)
  /\ LET f == FileOrder[mirroring.up + 1]
     IN  objects' = [objects EXCEPT ![f] = Weights[mirroring.release][f]]
  /\ mirroring' = [mirroring EXCEPT !.up = @ + 1]
  /\ UNCHANGED <<pin, listed, target, process>>

MirrorManifest ==
  /\ mirroring # Idle
  /\ mirroring.up = Len(FileOrder)
  /\ listed' = mirroring.release
  /\ mirroring' = Idle
  /\ UNCHANGED <<pin, objects, target, process>>

\* A copy fails, or the script is stopped: what is up stays up.
MirrorFails ==
  /\ mirroring # Idle
  /\ mirroring' = Idle
  /\ UNCHANGED <<pin, listed, objects, target, process>>

Mirror == \/ \E r \in Releases : StartMirror(r)
          \/ MirrorFile
          \/ MirrorManifest
          \/ MirrorFails

-----------------------------------------------------------------------------
(* One load.                                                               *)

\* Mutant: the digest in the run's config is only logged.
ManifestUsableAnyway == listed # None

ManifestUsable == listed # None /\ pin \in {Unpinned, listed}

FetchManifest ==
  /\ pc = "start"
  /\ ManifestUsable
  /\ manifest' = listed
  /\ pc' = "check"
  /\ UNCHANGED <<pin, bucket, target, staging, staged>>

ManifestRefused ==
  /\ pc = "start"
  /\ ~ManifestUsable
  /\ pc' = "failed"
  /\ UNCHANGED <<pin, bucket, target, manifest, staging, staged>>

\* Mutant: a file that is there is a file that is complete.
IsCompleteByName(directory, r) == directory # NoDir /\ \A f \in Files : directory[f] # Absent

\* Every file of the manifest is there, with its digest.
IsComplete(directory, r) == directory = Weights[r]

CacheHit ==
  /\ pc = "check"
  /\ IsComplete(target, manifest)
  /\ pc' = "ready"
  /\ UNCHANGED <<pin, bucket, target, manifest, staging, staged>>

\* Mutant: the stale entry makes room before its replacement is there.
CacheMissMakesRoom ==
  /\ pc = "check"
  /\ ~IsComplete(target, manifest)
  /\ target' = NoDir
  /\ staging' = Empty
  /\ staged' = 0
  /\ pc' = "stage"
  /\ UNCHANGED <<pin, bucket, manifest>>

CacheMiss ==
  /\ pc = "check"
  /\ ~IsComplete(target, manifest)
  /\ staging' = Empty
  /\ staged' = 0
  /\ pc' = "stage"
  /\ UNCHANGED <<pin, bucket, target, manifest>>

NextFile == FileOrder[staged + 1]
Verified == objects[NextFile] = Weights[manifest][NextFile]

\* Mutant: a file is staged as it comes.
DownloadUnverified ==
  /\ pc = "stage"
  /\ objects[NextFile] # Absent
  /\ staging' = [staging EXCEPT ![NextFile] = objects[NextFile]]
  /\ staged' = staged + 1
  /\ pc' = IF staged' = Len(FileOrder) THEN "clear" ELSE "stage"
  /\ UNCHANGED <<pin, bucket, target, manifest>>

Download ==
  /\ pc = "stage"
  /\ Verified
  /\ staging' = [staging EXCEPT ![NextFile] = objects[NextFile]]
  /\ staged' = staged + 1
  /\ pc' = IF staged' = Len(FileOrder) THEN "clear" ELSE "stage"
  /\ UNCHANGED <<pin, bucket, target, manifest>>

\* Absent, unreadable or with another digest: the temp directory goes, the
\* gate fails with GK_E_MODEL_FETCH.
DownloadFails ==
  /\ pc = "stage"
  /\ ~Verified
  /\ staging' = NoDir
  /\ pc' = "failed"
  /\ UNCHANGED <<pin, bucket, target, manifest, staged>>

\* Mutant: the old entry is left for the rename, which fails on it.
ClearTargetNever ==
  /\ pc = "clear"
  /\ target # NoDir
  /\ staging' = NoDir
  /\ pc' = "failed"
  /\ UNCHANGED <<pin, bucket, target, manifest, staged>>

\* shutil.rmtree, a file at a time, then the directory.
ClearTarget ==
  /\ pc = "clear"
  /\ target # NoDir
  /\ IF target = Empty
       THEN target' = NoDir
       ELSE \E f \in Files : /\ target[f] # Absent
                             /\ target' = [target EXCEPT ![f] = Absent]
  /\ UNCHANGED <<pin, bucket, process>>

Install ==
  /\ pc = "clear"
  /\ target = NoDir
  /\ target' = staging
  /\ staging' = NoDir
  /\ pc' = "ready"
  /\ UNCHANGED <<pin, bucket, manifest, staged>>

Loading == \/ FetchManifest \/ ManifestRefused
           \/ CacheHit \/ CacheMiss
           \/ Download \/ DownloadFails
           \/ ClearTarget \/ Install

\* A new process: after the last one was done, failed, or was killed; a temp
\* directory it left is never looked at again.
Restart ==
  /\ pc \in {"ready", "failed", "killed"}
  /\ pc' = "start"
  /\ manifest' = None
  /\ staging' = NoDir
  /\ staged' = 0
  /\ UNCHANGED <<pin, bucket, target>>

Kill ==
  /\ pc \in {"check", "stage", "clear"}
  /\ pc' = "killed"
  /\ UNCHANGED <<pin, bucket, target, manifest, staging, staged>>

\* Between two processes a file of the entry is lost or damaged.
Damage ==
  /\ pc \in {"failed", "killed"}
  /\ target # NoDir
  /\ \E f \in Files, c \in Contents \union {Absent} : target' = [target EXCEPT ![f] = c]
  /\ UNCHANGED <<pin, bucket, process>>

Init ==
  /\ pin \in Releases \union {Unpinned}
  /\ listed = None
  /\ objects = Empty
  /\ mirroring = Idle
  /\ target = NoDir
  /\ pc = "start"
  /\ manifest = None
  /\ staging = NoDir
  /\ staged = 0

Next == Mirror \/ Loading \/ Restart \/ Kill \/ Damage

Spec == Init /\ [][Next]_vars

\* A load goes on, and a failed or killed one is started again: by the task
\* retry, the sweeper's rescue, or the operator.
FairSpec == Spec /\ WF_vars(Loading) /\ WF_vars(Restart)

-----------------------------------------------------------------------------
(* Properties.                                                             *)

(***************************************************************************)
(* Every variable has its type, and only a load under way, or killed, has  *)
(* a temp directory (loader.py: the finally of _materialize).              *)
(***************************************************************************)
TypeOK ==
  /\ pin \in Releases \union {Unpinned}
  /\ listed \in Releases \union {None}
  /\ objects \in Directory
  /\ mirroring \in [release : Releases, up : 0..Len(FileOrder)] \union {Idle}
  /\ target \in Directory \union {NoDir}
  /\ pc \in {"start", "check", "stage", "clear", "ready", "failed", "killed"}
  /\ manifest \in Releases \union {None}
  /\ staging \in IF pc \in {"stage", "clear"} THEN Directory
                 ELSE IF pc = "killed" THEN Directory \union {NoDir}
                 ELSE {NoDir}
  /\ staged \in 0..Len(FileOrder)

(***************************************************************************)
(* What a gate scores with is one release, whole, and the one its run      *)
(* pinned: not a mix of two the bucket held at different moments, not what *)
(* a killed process or a damaged disk left under the entry's name          *)
(* (loader.py:3-7).                                                        *)
(***************************************************************************)
WholePinnedRelease ==
  pc = "ready" => /\ target = Weights[manifest]
                  /\ pin # Unpinned => manifest = pin

(***************************************************************************)
(* A load touches the cache entry only when it holds a whole verified      *)
(* replacement: one that fails, whatever the bucket holds, costs nothing   *)
(* that was cached (loader.py: _materialize renames in only after every    *)
(* digest matches).                                                        *)
(***************************************************************************)
EntryGivesWayToWhole ==
  [][Loading /\ target' # target => staging = Weights[manifest]]_vars

(***************************************************************************)
(* Once the bucket stays on the release the run pins, and processes are no *)
(* longer killed, loads come through again and again, whatever kills and   *)
(* damage left of the cache entry.                                         *)
(***************************************************************************)
Serves(r) == listed = r /\ objects = Weights[r] /\ pin \in {Unpinned, r}

LoadsInTheEnd ==
  /\ \E r \in Releases : <>[]Serves(r)
  /\ <>[](pc # "killed")
  => []<>(pc = "ready")
=============================================================================
