---------------------------- MODULE ModelRegistry ----------------------------
(***************************************************************************)
(* The versions of one model, their lineage and their artifacts:           *)
(* httpx/model_registry_handlers.go, store/model.go and blob/minio.go.     *)
(*                                                                         *)
(* An upload reads the row, puts the object under a key made of model,     *)
(* version and file name, and writes the key into the row, wherever the    *)
(* row has gone meanwhile.  The status of a version, which releases write, *)
(* is modelled in InferenceRelease.                                        *)
(***************************************************************************)
EXTENDS Naturals, Sequences, SequencesExt, FiniteSets

CONSTANTS
  Versions,      \* version names; a parent may name one that does not exist
  RowsOf,        \* ids of rows, used once each
  Files,         \* base names of uploaded files
  Uploads,       \* upload requests
  NoVersion,     \* no parent
  NoObject,      \* no artifact
  ModelFaults    \* which of "blob", "lost_reply", "db" may strike

ASSUME ModelAssumption == NoVersion \notin Versions /\ NoObject \notin RowsOf /\ IsFiniteSet(Versions)

VARIABLES
  name,       \* the version of each row, NoVersion while it is not there
  parent,     \* parent_version
  artifact,   \* artifact_uri
  spent,      \* ids whose row has been deleted
  bucket,     \* the row for which the object of each key was put
  upload,     \* each upload: how far it is, for which row, under which key
  stray       \* history: keys that an upload for a row that is gone has written

mVars == <<name, parent, artifact, spent, bucket, upload, stray>>

ObjectKeys == Versions \X Files
Live == {i \in RowsOf : name[i] # NoVersion}
Idle == [at |-> "idle", id |-> NoObject, key |-> NoObject]

MTypeOK ==
  /\ name \in [RowsOf -> Versions \cup {NoVersion}]
  /\ \A i, j \in Live : name[i] = name[j] => i = j
  /\ parent \in [RowsOf -> Versions \cup {NoVersion}]
  /\ artifact \in [RowsOf -> ObjectKeys \cup {NoObject}]
  /\ bucket \in [ObjectKeys -> RowsOf \cup {NoObject}]
  /\ \A u \in Uploads : upload[u].at \in {"idle", "put", "set", "done"}
  /\ spent \subseteq RowsOf /\ stray \subseteq ObjectKeys

MInit ==
  /\ name = [i \in RowsOf |-> NoVersion] /\ parent = name
  /\ artifact = [i \in RowsOf |-> NoObject] /\ spent = {}
  /\ bucket = [k \in ObjectKeys |-> NoObject]
  /\ upload = [u \in Uploads |-> Idle] /\ stray = {}

--------------------------------------------------------------------------------
\* A version that is registered is answered 409; the parent is not looked up.
RegisterModelVersion(i, v, p) ==
  /\ name[i] = NoVersion /\ i \notin spent /\ \A j \in Live : name[j] # v
  /\ name' = [name EXCEPT ![i] = v] /\ parent' = [parent EXCEPT ![i] = p]
  /\ UNCHANGED <<artifact, spent, bucket, upload, stray>>

\* The row goes, its object stays.
DeleteModelVersion(i) ==
  /\ i \in Live
  /\ name' = [name EXCEPT ![i] = NoVersion] /\ parent' = [parent EXCEPT ![i] = NoVersion]
  /\ artifact' = [artifact EXCEPT ![i] = NoObject] /\ spent' = spent \cup {i}
  /\ UNCHANGED <<bucket, upload, stray>>

ObjectKey(i, f) == <<name[i], f>>

UploadRead(u, i, f) ==
  /\ upload[u].at = "idle" /\ i \in Live
  /\ upload' = [upload EXCEPT ![u] = [at |-> "put", id |-> i, key |-> ObjectKey(i, f)]]
  /\ UNCHANGED <<name, parent, artifact, spent, bucket, stray>>

UGoto(u, s) == upload' = [upload EXCEPT ![u] = IF s = "done" THEN [Idle EXCEPT !.at = s] ELSE [@ EXCEPT !.at = s]]

Written(u) ==
  LET k == upload[u].key IN
    /\ bucket' = [bucket EXCEPT ![k] = upload[u].id]
    /\ stray' = IF upload[u].id \in spent THEN stray \cup {k} ELSE stray

\* Mutant: the key is kept although the object store has refused the object.
UploadPutIgnored(u) ==
  /\ upload[u].at = "put" /\ UGoto(u, "set")
  /\ Written(u) \/ UNCHANGED <<bucket, stray>>
  /\ UNCHANGED <<name, parent, artifact, spent>>

\* Blob.Put replaces what is under the key.
UploadPut(u) ==
  /\ upload[u].at = "put"
  /\ \/ Written(u) /\ UGoto(u, "set")
     \/ "blob" \in ModelFaults /\ UGoto(u, "done") /\ UNCHANGED <<bucket, stray>>
     \/ "lost_reply" \in ModelFaults /\ Written(u) /\ UGoto(u, "done")
  /\ UNCHANGED <<name, parent, artifact, spent>>

\* SetModelArtifact: an UPDATE that finds no row is no error.
UploadSet(u) ==
  /\ upload[u].at = "set" /\ UGoto(u, "done")
  /\ \/ artifact' = [artifact EXCEPT ![upload[u].id] = IF upload[u].id \in Live THEN upload[u].key ELSE @]
     \/ "db" \in ModelFaults /\ UNCHANGED artifact
  /\ UNCHANGED <<name, parent, spent, bucket, stray>>

MNext ==
  \/ \E i \in RowsOf :
       \/ \E v \in Versions, p \in Versions \cup {NoVersion} : RegisterModelVersion(i, v, p)
       \/ DeleteModelVersion(i)
  \/ \E u \in Uploads :
       \/ \E i \in RowsOf, f \in Files : UploadRead(u, i, f)
       \/ UploadPut(u) \/ UploadSet(u)

MSpec == MInit /\ [][MNext]_mVars

--------------------------------------------------------------------------------
(* lineageChain *)

RowNamed(v) == CHOOSE i \in Live : name[i] = v
LiveNames == {name[i] : i \in Live}

\* One turn of the loop, from the version to look at next and those seen.
Climb(w) ==
  IF w.cur \in LiveNames \ w.seen
  THEN [cur |-> parent[RowNamed(w.cur)], seen |-> w.seen \cup {w.cur}, chain |-> Append(w.chain, w.cur)]
  ELSE w

LineageChain(i) ==
  LET walk[n \in 0..Cardinality(Versions)] ==
        IF n = 0 THEN [cur |-> parent[i], seen |-> {name[i]}, chain |-> <<>>] ELSE Climb(walk[n - 1])
  IN walk[Cardinality(Versions)].chain

\* The lineage of a version is every ancestor that is registered, once and the
\* nearest first, and the version itself is none of them, whatever circles the
\* parents make and whichever of them were deleted.
LineageIsAncestry ==
  \A i \in Live :
    LET chain == LineageChain(i)
        above == [n \in 1..(Len(chain) + 1) |-> parent[IF n = 1 THEN i ELSE RowNamed(chain[n - 1])]]
    IN /\ \A n \in DOMAIN chain : chain[n] = above[n]
       /\ IsInjective(chain) /\ name[i] \notin ToSet(chain)
       /\ above[Len(chain) + 1] \notin LiveNames \ (ToSet(chain) \cup {name[i]})

\* What a version names as its artifact is in the bucket, whichever of the three
\* steps of an upload fails and however uploads and deletions overlap.
ArtifactIsStored == \A i \in Live : artifact[i] # NoObject => bucket[artifact[i]] # NoObject

\* It is also what was uploaded for that version, and not for another one or for
\* one of the same name before it, unless an upload for a deleted one came late.
ArtifactIsOwn ==
  \A i \in Live : artifact[i] # NoObject /\ artifact[i] \notin stray => bucket[artifact[i]] = i

\* Rows, parents and the bucket belong together.
ModelInv == LineageIsAncestry /\ ArtifactIsStored /\ ArtifactIsOwn
================================================================================
