----------------------------- MODULE ConfigCenter -----------------------------
(***************************************************************************)
(* One item of the configuration center and its versions: store/config.go. *)
(*                                                                         *)
(* Every change is a transaction at READ COMMITTED: each statement sees    *)
(* what was committed when it began, an UPDATE waits for the rows another  *)
(* transaction has written and then writes the rows it saw at first, so    *)
(* that rows committed during the wait are passed over.                    *)
(***************************************************************************)
EXTENDS Naturals, FiniteSets, FiniteSetsExt

CONSTANTS
  Txs,        \* transactions that may be begun; each publication's row has its name
  First       \* name of the row that CreateConfigItem inserts

ASSUME FirstAssumption == First \notin Txs

RowIds == Txs \cup {First}
None   == 0   \* a version number no row has

VARIABLES
  number,     \* config_versions.version of each row, None when there is no row
  active,     \* rows of config_versions whose status is active
  current,    \* config_items.active_version
  stage,      \* how far each transaction is
  kind,       \* "publish", or the version a transaction rolls back to
  next,       \* version number a publication has computed
  prior,      \* rows the archiving statement found
  locks,      \* rows each transaction has written
  overlap     \* history: some transaction committed while another had begun

cVars == <<number, active, current, stage, kind, next, prior, locks, overlap>>

Committed == {r \in RowIds : number[r] # None}
Numbered(v) == {r \in Committed : number[r] = v}
ConfigVersions  == 1..(Cardinality(Txs) + 1)

CTypeOK ==
  /\ number \in [RowIds -> ConfigVersions \cup {None}]
  /\ active \subseteq Committed
  /\ current \in ConfigVersions
  /\ stage \in [Txs -> {"idle", "read", "archive", "wait", "write", "done"}]
  /\ kind \in [Txs -> {"publish"} \X {None} \cup {"rollback"} \X ConfigVersions]
  /\ next \in [Txs -> ConfigVersions \cup {None}]
  /\ prior \in [Txs -> SUBSET RowIds] /\ locks \in [Txs -> SUBSET RowIds]
  /\ overlap \in BOOLEAN

\* CreateConfigItem: item, version 1 and the audit event in one transaction.
CInit ==
  /\ number = [r \in RowIds |-> IF r = First THEN 1 ELSE None]
  /\ active = {First} /\ current = 1
  /\ stage = [t \in Txs |-> "idle"]
  /\ kind = [t \in Txs |-> <<"publish", None>>]
  /\ next = [t \in Txs |-> None]
  /\ prior = [t \in Txs |-> {}] /\ locks = prior
  /\ overlap = FALSE

Begun(t) == stage[t] \notin {"idle", "done"}
CGoto(t, s) == stage' = [stage EXCEPT ![t] = s]

\* PublishConfigVersion: MAX(version) + 1.
PublishRead(t) ==
  /\ stage[t] = "idle"
  /\ next' = [next EXCEPT ![t] = Max({number[r] : r \in Committed}) + 1]
  /\ CGoto(t, "archive")
  /\ UNCHANGED <<number, active, current, kind, prior, locks, overlap>>

\* RollbackConfigVersion: COUNT of the target version, ErrVersionNotFound if 0.
RollbackRead(t, v) ==
  /\ stage[t] = "idle" /\ Numbered(v) # {}
  /\ kind' = [kind EXCEPT ![t] = <<"rollback", v>>]
  /\ CGoto(t, "archive")
  /\ UNCHANGED <<number, active, current, next, prior, locks, overlap>>

\* UPDATE ... 'archived': the statement finds its rows, ...
ArchiveFind(t) ==
  /\ stage[t] = "archive"
  /\ prior' = [prior EXCEPT ![t] = Committed]
  /\ CGoto(t, "wait")
  /\ UNCHANGED <<number, active, current, kind, next, locks, overlap>>

\* ... and writes them when no other transaction holds one.
ArchiveLock(t) ==
  /\ stage[t] = "wait"
  /\ \A u \in Txs \ {t} : locks[u] \cap prior[t] = {}
  /\ locks' = [locks EXCEPT ![t] = prior[t]]
  /\ CGoto(t, "write")
  /\ UNCHANGED <<number, active, current, kind, next, prior, overlap>>

CEnd(t) ==
  /\ CGoto(t, "done")
  /\ locks' = [locks EXCEPT ![t] = {}]
  /\ prior' = [prior EXCEPT ![t] = {}]
  /\ overlap' = (overlap \/ \E u \in Txs \ {t} : Begun(u))

\* Mutant: the version in force is not archived when the next is inserted.
PublishCommitOnly(t) ==
  /\ stage[t] = "write" /\ kind[t][1] = "publish"
  /\ number' = [number EXCEPT ![t] = next[t]]
  /\ active' = active \cup {t}
  /\ current' = next[t]
  /\ CEnd(t) /\ UNCHANGED <<kind, next>>

\* Insert the new row as active, point the item at its number, commit.
PublishCommit(t) ==
  /\ stage[t] = "write" /\ kind[t][1] = "publish"
  /\ number' = [number EXCEPT ![t] = next[t]]
  /\ active' = (active \ prior[t]) \cup {t}
  /\ current' = next[t]
  /\ CEnd(t) /\ UNCHANGED <<kind, next>>

\* Activate every row of that number, point the item at it, commit.
RollbackCommit(t) ==
  /\ stage[t] = "write" /\ kind[t][1] = "rollback"
  /\ active' = (active \ prior[t]) \cup Numbered(kind[t][2])
  /\ current' = kind[t][2]
  /\ CEnd(t) /\ UNCHANGED <<number, kind, next>>

\* An error, a client that goes away or a restart: the transaction is undone.
CAbort(t) ==
  /\ Begun(t)
  /\ CGoto(t, "done")
  /\ locks' = [locks EXCEPT ![t] = {}] /\ prior' = [prior EXCEPT ![t] = {}]
  /\ UNCHANGED <<number, active, current, kind, next, overlap>>

CNext == \E t \in Txs :
  \/ PublishRead(t) \/ ArchiveFind(t) \/ ArchiveLock(t)
  \/ PublishCommit(t) \/ RollbackCommit(t) \/ CAbort(t)
  \/ \E v \in ConfigVersions : RollbackRead(t, v)

CSpec == CInit /\ [][CNext]_cVars

--------------------------------------------------------------------------------
\* However transactions overlap, the version the item points at exists and is
\* marked active: a launch of "the active version" always finds content.
CurrentIsActive == Numbered(current) \cap active # {}

\* As long as no transaction has committed during another one, version numbers
\* are unique and the active version is the one the item points at, whatever was
\* published, rolled back or undone before.
OneVersionInForce ==
  ~overlap => /\ \A r, s \in Committed : number[r] = number[s] => r = s
            /\ active = Numbered(current)

\* There is always a version in force, and one only.
ConfigInv == CurrentIsActive /\ OneVersionInForce
================================================================================
