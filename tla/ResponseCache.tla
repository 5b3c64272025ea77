----------------------------- MODULE ResponseCache -----------------------------
(***************************************************************************)
(* Answers kept in Redis: the overview and the cluster snapshot            *)
(* (httpx/cache.go), and the answers to POSTs with an Idempotency-Key      *)
(* (httpx/idempotency.go), over cache/redis.go.                            *)
(*                                                                         *)
(* A miss computes and stores, a write deletes what it made stale; all of  *)
(* it runs on the context of the request, so a client that goes away after *)
(* the write takes the deletion and the kept answer with it.               *)
(***************************************************************************)
EXTENDS Naturals, FiniteSets

CONSTANTS
  Posts,      \* requests that write
  KeyOf,      \* Idempotency-Key of each, NoKey without the header
  NoKey,
  Gets,       \* requests for the cached page
  CFaults     \* which of "redis", "leaves", "refused" may strike

Keys == {KeyOf[p] : p \in Posts} \ {NoKey}
Absent == 0

VARIABLES
  data,       \* what the page is computed from: the number of writes, from 1
  page,       \* the page kept in Redis, Absent when it is not
  kept,       \* answers kept by key, Absent when not
  post,       \* how far each POST is
  get,        \* how far each GET is
  fresh,      \* the page each GET has computed
  clients,    \* POSTs whose client is still there
  runs,       \* history: successful executions per key
  excused,    \* history: keys run side by side, or whose answer was not kept
  stale       \* history: the page kept was computed before a write that had
              \* deleted the one before it, or a deletion failed

hVars == <<data, page, kept, post, get, fresh, clients, runs, excused, stale>>

HTypeOK ==
  /\ data \in 1..(Cardinality(Posts) + 1)
  /\ page \in 0..data
  /\ kept \in [Keys -> 0..data]
  /\ post \in [Posts -> {"idle", "execute", "invalidate", "store", "done"}]
  /\ get \in [Gets -> {"idle", "compute", "store", "done"}]
  /\ fresh \in [Gets -> 0..data]
  /\ clients \subseteq Posts
  /\ excused \subseteq Keys /\ stale \in BOOLEAN

HInit ==
  /\ data = 1 /\ page = Absent /\ kept = [k \in Keys |-> Absent]
  /\ post = [p \in Posts |-> "idle"] /\ get = [g \in Gets |-> "idle"]
  /\ fresh = [g \in Gets |-> Absent]
  /\ clients = Posts
  /\ runs = [k \in Keys |-> 0] /\ excused = {} /\ stale = FALSE

PGoto(p, s) == post' = [post EXCEPT ![p] = s]
GGoto(g, s) == get' = [get EXCEPT ![g] = s]

\* A command to Redis takes effect; it may not, when Redis fails or the client
\* of the request has gone.
MayFail(p) == "redis" \in CFaults \/ p \notin clients

Under(k) == {p \in Posts : KeyOf[p] = k /\ post[p] \notin {"idle", "done"}}

--------------------------------------------------------------------------------
(* POST: Idempotency, the handler, the deletion of the page *)

\* A kept answer is replayed and nothing is executed.
PostReplay(p) ==
  /\ post[p] = "idle" /\ KeyOf[p] # NoKey /\ kept[KeyOf[p]] # Absent
  /\ PGoto(p, "done")
  /\ UNCHANGED <<data, page, kept, get, fresh, clients, runs, excused, stale>>

\* No header, no kept answer, or Redis could not tell.
PostMiss(p) ==
  /\ post[p] = "idle"
  /\ KeyOf[p] # NoKey => kept[KeyOf[p]] = Absent \/ "redis" \in CFaults
  /\ excused' = IF KeyOf[p] \in Keys /\ (Under(KeyOf[p]) # {} \/ kept[KeyOf[p]] # Absent)
                THEN excused \cup {KeyOf[p]} ELSE excused
  /\ PGoto(p, "execute")
  /\ UNCHANGED <<data, page, kept, get, fresh, clients, runs, stale>>

\* The handler commits its write.
PostExecute(p) ==
  /\ post[p] = "execute"
  /\ data' = data + 1
  /\ runs' = IF KeyOf[p] \in Keys THEN [runs EXCEPT ![KeyOf[p]] = @ + 1] ELSE runs
  /\ PGoto(p, "invalidate")
  /\ UNCHANGED <<page, kept, get, fresh, clients, excused, stale>>

\* The handler refuses or fails: nothing is written, nothing is kept.
PostRefused(p) ==
  /\ "refused" \in CFaults /\ post[p] = "execute"
  /\ PGoto(p, "done")
  /\ UNCHANGED <<data, page, kept, get, fresh, clients, runs, excused, stale>>

ClientLeaves(p) ==
  /\ "leaves" \in CFaults /\ p \in clients /\ post[p] \notin {"idle", "done"}
  /\ clients' = clients \ {p}
  /\ UNCHANGED <<data, page, kept, post, get, fresh, runs, excused, stale>>

\* Mutant: only a page that is current is deleted.
PostInvalidateCurrent(p) ==
  /\ post[p] = "invalidate"
  /\ page' = IF page = data THEN Absent ELSE page
  /\ UNCHANGED stale
  /\ PGoto(p, "store")
  /\ UNCHANGED <<data, kept, get, fresh, clients, runs, excused>>

\* invalidateOverview, invalidateK8sSnapshot: after the write.
PostInvalidate(p) ==
  /\ post[p] = "invalidate"
  /\ \/ page' = Absent /\ UNCHANGED stale
     \/ MayFail(p) /\ UNCHANGED page /\ stale' = TRUE
  /\ PGoto(p, "store")
  /\ UNCHANGED <<data, kept, get, fresh, clients, runs, excused>>

Excuse(p) == excused' = excused \cup ({KeyOf[p]} \cap Keys)

\* The answer is kept under the key if it is a success.
PostStore(p) ==
  /\ post[p] = "store"
  /\ \/ /\ kept' = [k \in Keys |-> IF k = KeyOf[p] THEN data ELSE kept[k]]
        /\ UNCHANGED excused
     \/ MayFail(p) /\ Excuse(p) /\ UNCHANGED kept
  /\ PGoto(p, "done")
  /\ UNCHANGED <<data, page, get, fresh, clients, runs, stale>>

\* IDEMPOTENCY_TTL.
AnswerExpires(k) ==
  /\ kept[k] # Absent
  /\ kept' = [kept EXCEPT ![k] = Absent] /\ excused' = excused \cup {k}
  /\ UNCHANGED <<data, page, post, get, fresh, clients, runs, stale>>

--------------------------------------------------------------------------------
(* GET: cached *)

GetHit(g) ==
  /\ get[g] = "idle" /\ page # Absent
  /\ GGoto(g, "done")
  /\ UNCHANGED <<data, page, kept, post, fresh, clients, runs, excused, stale>>

GetMiss(g) ==
  /\ get[g] = "idle" /\ (page = Absent \/ "redis" \in CFaults)
  /\ GGoto(g, "compute")
  /\ UNCHANGED <<data, page, kept, post, fresh, clients, runs, excused, stale>>

GetCompute(g) ==
  /\ get[g] = "compute"
  /\ fresh' = [fresh EXCEPT ![g] = data]
  /\ GGoto(g, "store")
  /\ UNCHANGED <<data, page, kept, post, clients, runs, excused, stale>>

\* What was computed is stored, whatever has been deleted since.
GetStore(g) ==
  /\ get[g] = "store"
  /\ \/ page' = fresh[g] /\ stale' = (fresh[g] # data)
     \/ "redis" \in CFaults /\ UNCHANGED <<page, stale>>
  /\ fresh' = [fresh EXCEPT ![g] = Absent]
  /\ GGoto(g, "done")
  /\ UNCHANGED <<data, kept, post, clients, runs, excused>>

\* CACHE_TTL.
PageExpires ==
  /\ page # Absent
  /\ page' = Absent /\ stale' = FALSE
  /\ UNCHANGED <<data, kept, post, get, fresh, clients, runs, excused>>

HNext ==
  \/ PageExpires
  \/ \E k \in Keys : AnswerExpires(k)
  \/ \E p \in Posts :
       \/ PostReplay(p) \/ PostMiss(p) \/ PostExecute(p) \/ PostRefused(p)
       \/ ClientLeaves(p) \/ PostInvalidate(p) \/ PostStore(p)
  \/ \E g \in Gets : GetHit(g) \/ GetMiss(g) \/ GetCompute(g) \/ GetStore(g)

HSpec == HInit /\ [][HNext]_hVars

--------------------------------------------------------------------------------
\* The page in Redis is the current one, or a write is about to delete it, unless
\* it was computed across a write or a deletion failed: no order of writes leaves
\* an old page behind by itself.
PageIsCurrent ==
  page \in {Absent, data} \/ stale \/ \E p \in Posts : post[p] = "invalidate"

\* A request that is sent again with its key runs once, unless the two overlapped
\* or the first answer was not kept or has expired.
OncePerKey == \A k \in Keys \ excused : runs[k] <= 1

\* Neither a page nor an answer in Redis outlives what it stands for.
CacheInv == PageIsCurrent /\ OncePerKey
================================================================================
