------------------------------- MODULE Archiver -------------------------------
(***************************************************************************)
(* Archiving of one table of measurements, traces, logs or audit events:   *)
(* httpx/storage_archiver.go, with the object store of blob/minio.go.      *)
(*                                                                         *)
(* A sweep fixes a cutoff, reads the rows before it, uploads them as one   *)
(* object and deletes everything before the cutoff in one transaction with *)
(* the manifest of the object.  The periodic sweep and those that          *)
(* operators start run side by side.                                       *)
(***************************************************************************)
EXTENDS Naturals, FiniteSets

CONSTANTS
  MaxRow,       \* rows are 1..MaxRow in the order of their time stamps
  BatchLimit,   \* archiveBatchLimit
  Sweeps,       \* sweeps that may run at one time
  AFaults       \* which of "blob", "lost_reply", "db", "crash" may strike

TableRows == 1..MaxRow

ASSUME ArchiverAssumption == MaxRow \in Nat /\ BatchLimit \in Nat \ {0}

VARIABLES
  inserted,   \* rows written so far: 1..inserted
  expired,    \* rows older than the retention: 1..expired
  table,      \* rows in the table
  sweep,      \* how far each sweep is
  cutoff,     \* rows before each sweep's cutoff: 1..cutoff
  batch,      \* rows each sweep has read
  stored,     \* rows of the objects in the bucket
  archived,   \* rows of the objects that have a manifest
  twice,      \* rows counted by two manifests
  together    \* history: two sweeps have overlapped

aVars == <<inserted, expired, table, sweep, cutoff, batch, stored, archived, twice, together>>

ATypeOK ==
  /\ inserted \in 0..MaxRow /\ expired \in 0..inserted
  /\ table \subseteq 1..inserted
  /\ sweep \in [Sweeps -> {"idle", "read", "upload", "delete"}]
  /\ cutoff \in [Sweeps -> 0..expired]
  /\ batch \in [Sweeps -> SUBSET TableRows]
  /\ \A s \in Sweeps : Cardinality(batch[s]) <= BatchLimit
  /\ stored \subseteq TableRows
  /\ archived \subseteq stored /\ twice \subseteq archived
  /\ together \in BOOLEAN

AInit ==
  /\ inserted = 0 /\ expired = 0 /\ table = {}
  /\ sweep = [s \in Sweeps |-> "idle"]
  /\ cutoff = [s \in Sweeps |-> 0]
  /\ batch = [s \in Sweeps |-> {}]
  /\ stored = {} /\ archived = {} /\ twice = {}
  /\ together = FALSE

\* A row carries the time at which it is written.
RowWritten ==
  /\ inserted < MaxRow
  /\ inserted' = inserted + 1
  /\ table' = table \cup {inserted + 1}
  /\ UNCHANGED <<expired, sweep, cutoff, batch, stored, archived, twice, together>>

RowExpires ==
  /\ expired < inserted
  /\ expired' = expired + 1
  /\ UNCHANGED <<inserted, table, sweep, cutoff, batch, stored, archived, twice, together>>

--------------------------------------------------------------------------------
(* archiveTable *)

Goes(s, stage) == sweep' = [sweep EXCEPT ![s] = stage]

\* The end of a sweep, whatever its result: the next one starts afresh.
Rest(s) ==
  /\ Goes(s, "idle")
  /\ batch' = [batch EXCEPT ![s] = {}] /\ cutoff' = [cutoff EXCEPT ![s] = 0]

SweepBegin(s) ==
  /\ sweep[s] = "idle"
  /\ Goes(s, "read")
  /\ cutoff' = [cutoff EXCEPT ![s] = expired]
  /\ together' = (together \/ \E o \in Sweeps : sweep[o] # "idle")
  /\ UNCHANGED <<inserted, expired, table, batch, stored, archived, twice>>

\* The oldest rows before a cutoff, no more than one batch of them.
Oldest(rows) == {r \in rows : Cardinality({q \in rows : q < r}) < BatchLimit}

\* Nothing to archive ends the sweep.
SweepRead(s) ==
  /\ sweep[s] = "read"
  /\ LET rows == Oldest(table \cap 1..cutoff[s]) IN
       \/ rows = {} /\ Rest(s)
       \/ /\ rows # {} /\ Goes(s, "upload")
          /\ batch' = [batch EXCEPT ![s] = rows] /\ UNCHANGED cutoff
  /\ UNCHANGED <<inserted, expired, table, stored, archived, twice, together>>

\* Mutant: an upload that failed is only logged.
SweepUploadIgnored(s) ==
  /\ sweep[s] = "upload"
  /\ stored' \in {stored, stored \cup batch[s]}
  /\ Goes(s, "delete") /\ UNCHANGED <<batch, cutoff>>
  /\ UNCHANGED <<inserted, expired, table, archived, twice, together>>

\* The object goes first; without it nothing is deleted.
SweepUpload(s) ==
  /\ sweep[s] = "upload"
  /\ \/ /\ stored' = stored \cup batch[s]
        /\ Goes(s, "delete") /\ UNCHANGED <<batch, cutoff>>
     \/ "blob" \in AFaults /\ Rest(s) /\ UNCHANGED stored
     \/ "lost_reply" \in AFaults /\ Rest(s) /\ stored' = stored \cup batch[s]
  /\ UNCHANGED <<inserted, expired, table, archived, twice, together>>

\* Mutant: the manifest is written on its own, before the rows are deleted.
SweepDeleteLater(s) ==
  /\ sweep[s] = "delete"
  /\ archived' = archived \cup batch[s]
  /\ twice' = twice \cup (archived \cap batch[s])
  /\ table' = table \ 1..cutoff[s] \/ ("db" \in AFaults /\ UNCHANGED table)
  /\ Rest(s)
  /\ UNCHANGED <<inserted, expired, stored, together>>

\* DELETE every row before the cutoff and INSERT the manifest: both or neither.
SweepDelete(s) ==
  /\ sweep[s] = "delete"
  /\ \/ /\ table' = table \ 1..cutoff[s]
        /\ archived' = archived \cup batch[s]
        /\ twice' = twice \cup (archived \cap batch[s])
     \/ "db" \in AFaults /\ UNCHANGED <<table, archived, twice>>
  /\ Rest(s)
  /\ UNCHANGED <<inserted, expired, stored, together>>

\* A restart: what was uploaded stays in the bucket.
ACrash ==
  /\ "crash" \in AFaults /\ \E s \in Sweeps : sweep[s] # "idle"
  /\ sweep' = [s \in Sweeps |-> "idle"]
  /\ batch' = [s \in Sweeps |-> {}] /\ cutoff' = [s \in Sweeps |-> 0]
  /\ UNCHANGED <<inserted, expired, table, stored, archived, twice, together>>

ANext ==
  \/ RowWritten \/ RowExpires \/ ACrash
  \/ \E s \in Sweeps : SweepBegin(s) \/ SweepRead(s) \/ SweepUpload(s) \/ SweepDelete(s)

ASpec == AInit /\ [][ANext]_aVars

--------------------------------------------------------------------------------
\* A row that has left the table is in an object that a manifest leads to,
\* whatever fails between the upload and the DELETE and whoever sweeps beside.
NothingLost == (1..inserted) \ table \subseteq archived

\* The manifests count each row once, as long as sweeps do not overlap: a sweep
\* that failed half way is not counted beside the one that makes up for it.
CountedOnce == ~together => twice = {}

\* Each row that expired is kept, and counted once.
ArchiveInv == NothingLost /\ CountedOnce
================================================================================
