------------------------------- MODULE Cadvisor -------------------------------
(***************************************************************************)
(* The CPU rate of one container: metrics/cadvisor.go.                     *)
(*                                                                         *)
(* Every request for metrics takes a snapshot of its own.  cAdvisor reads  *)
(* the counters of the containers when it keeps house and answers with     *)
(* what it has read last (deploy/observability/cadvisor.yaml: every 5 s,   *)
(* at most 10 s).  The snapshot drops the time of that sample, reads its   *)
(* own clock when the answer is there, and compares with what the last     *)
(* snapshot to hold the mutex has left.                                    *)
(***************************************************************************)
EXTENDS Integers, FiniteSets

CONSTANTS
  Readers,     \* requests for metrics
  NoReading,   \* no snapshot has seen the container
  LastTick,    \* bound on the clock
  MaxFetch,    \* the timeout of the HTTP client, in ticks
  MaxAge       \* the interval in which cAdvisor keeps house, in ticks

ASSUME CadvisorAssumption == MaxFetch \in Nat /\ MaxAge \in Nat

VARIABLES
  tick,      \* the clock
  usage,     \* cpu_usage_seconds_total; one core at most
  sample,    \* what cAdvisor has read of it last, and when
  alive,     \* the container is in the answers of cAdvisor
  reader,    \* each request: how far it is, the counter in its answer and when that was sent, its clock
  previous,  \* c.previous of the container: clock and counter
  cpu        \* the last rate: difference of counters and of clocks; NoReading without one

cvVars == <<tick, usage, sample, alive, reader, previous, cpu>>

Resting == [at |-> "idle", usage |-> 0, read |-> 0, now |-> 0]

CvTypeOK ==
  /\ tick \in 0..LastTick /\ usage \in 0..LastTick /\ alive \in BOOLEAN
  /\ sample \in [usage : 0..LastTick, at : 0..LastTick]
  /\ reader \in [Readers -> [at : {"idle", "fetch", "lock"}, usage : 0..LastTick, read : 0..LastTick, now : 0..LastTick]]
  /\ previous # NoReading => previous.now \in 0..LastTick /\ previous.usage \in 0..LastTick
  /\ cpu # NoReading => cpu.used \in 0..LastTick /\ cpu.dt \in 1..LastTick

CvInit ==
  /\ tick = 0 /\ usage = 0 /\ alive = TRUE
  /\ sample = [usage |-> 0, at |-> 0]
  /\ reader = [r \in Readers |-> Resting]
  /\ previous = NoReading /\ cpu = NoReading

--------------------------------------------------------------------------------
CvTick ==
  /\ tick < LastTick /\ tick' = tick + 1
  /\ alive => sample.at + MaxAge > tick
  /\ \A r \in Readers : reader[r].at = "fetch" => reader[r].read + MaxFetch > tick
  /\ usage' \in {usage} \cup {u \in {usage + 1} : alive}
  /\ UNCHANGED <<sample, alive, reader, previous, cpu>>

\* The id of a container is in its key: one that has gone does not come back.
ContainerEnds ==
  /\ alive /\ alive' = FALSE
  /\ UNCHANGED <<tick, usage, sample, reader, previous, cpu>>

\* cAdvisor reads the counters of the container.
Housekeeping ==
  /\ alive /\ sample' = [usage |-> usage, at |-> tick]
  /\ UNCHANGED <<tick, usage, alive, reader, previous, cpu>>

\* cAdvisor answers with its last sample, however old that is.
Fetch(r) ==
  /\ reader[r].at = "idle" /\ alive
  /\ reader' = [reader EXCEPT ![r] = [at |-> "fetch", usage |-> sample.usage, read |-> tick, now |-> 0]]
  /\ UNCHANGED <<tick, usage, sample, alive, previous, cpu>>

\* The answer has been read, and the clock after it: the time of the sample is dropped.
Stamp(r) ==
  /\ reader[r].at = "fetch"
  /\ reader' = [reader EXCEPT ![r].at = "lock", ![r].now = tick, ![r].read = 0]
  /\ UNCHANGED <<tick, usage, sample, alive, previous, cpu>>

\* An error or the timeout: the answer says so and nothing is compared.
FetchFails(r) ==
  /\ reader[r].at = "fetch" /\ reader' = [reader EXCEPT ![r] = Resting]
  /\ UNCHANGED <<tick, usage, sample, alive, previous, cpu>>

\* Mutant: the clock that is left behind never runs backwards.
LeftForward(r) ==
  [now |-> IF previous # NoReading /\ previous.now > reader[r].now THEN previous.now ELSE reader[r].now,
   usage |-> reader[r].usage]

\* What a snapshot leaves for the next one, even when that one is older.
Left(r) == [now |-> reader[r].now, usage |-> reader[r].usage]

\* parseText under the mutex: no rate unless the clock has moved on, and none below zero.
Compare(r) ==
  LET dt == reader[r].now - previous.now
      used == reader[r].usage - previous.usage
  IN
  /\ reader[r].at = "lock"
  /\ cpu' = IF previous = NoReading THEN NoReading
            ELSE IF dt <= 0 THEN NoReading
            ELSE [used |-> IF used < 0 THEN 0 ELSE used, dt |-> dt]
  /\ previous' = Left(r)
  /\ reader' = [reader EXCEPT ![r] = Resting]
  /\ UNCHANGED <<tick, usage, sample, alive>>

CvNext ==
  \/ CvTick \/ ContainerEnds \/ Housekeeping
  \/ \E r \in Readers : Fetch(r) \/ Stamp(r) \/ FetchFails(r) \/ Compare(r)

CvSpec == CvInit /\ [][CvNext]_cvVars

--------------------------------------------------------------------------------
\* However many snapshots overlap, however old the samples in their answers and in
\* whatever order they reach the mutex, a container of one core shows at most one
\* core and what it can have used between the earlier of the two samples and the
\* clock of its snapshot.
CpuIsEarned == cpu # NoReading => cpu.used <= cpu.dt + MaxFetch + MaxAge
================================================================================
