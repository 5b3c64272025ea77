---------------------------- MODULE Workloads_proofs ---------------------------
(***************************************************************************)
(* What holds of launch configurations, of the verdicts on a benchmark and *)
(* of what is measured of the serving pods, with any number of scenarios,  *)
(* pods, spans, readings and requests.  The discipline of benchmarks and   *)
(* training jobs is proved in Jobs_proofs; their types, and that all parts *)
(* keep theirs side by side as MCWorkloads checks them, are proved here.   *)
(***************************************************************************)
EXTENDS MCWorkloads, Jobs_proofs, DataLemmas, TLAPS

--------------------------------------------------------------------------------
(* The judgements of a benchmark.                                            *)

\* A scenario as the benchmark may summarise it.
Sane ==
  {s \in [context : {Plan[n].context : n \in Nat}, concurrency : {Plan[n].concurrency : n \in Nat}, success : Rates,
          quality : Rates, memory : Memories, ttft : Ttfts \cup {Missing}, tpot : Tpots \cup {Missing}, tail : BOOLEAN] :
     (s.ttft = Missing) = (s.success = 0)}

VerdictIInv == scenarios \in Seq(Sane)

\* The conditions of the diagnosis, in the order of its branches.
Failed    == \E n \in DOMAIN scenarios : scenarios[n].success < 99
Regressed == \E n \in DOMAIN scenarios : scenarios[n].quality < 99
Saturated == "scheduler-saturation" \in Labels \/ (MaxNumSeqs > 0 /\ scenarios[Worst].concurrency > MaxNumSeqs)
Full      == "memory-pressure" \in Labels \/ \E n \in DOMAIN scenarios : scenarios[n].memory >= 95
Decodes   == "decode-bound" \in Labels \/ Value(scenarios[Worst].tpot) >= 100
Prefills  == "prefill-bound" \in Labels \/ Value(scenarios[Worst].ttft) >= 3000

\* The category is that of the first condition that holds.
LEMMA CategoryIs ==
  Category = IF Failed THEN "request_failure" ELSE IF Regressed THEN "quality_regression"
             ELSE IF Saturated THEN "scheduler_saturation" ELSE IF Full THEN "memory_pressure"
             ELSE IF Decodes THEN "decode_bottleneck" ELSE IF Prefills THEN "prefill_bottleneck"
             ELSE "inference_healthy"
<1> DEFINE branch == <<
             [holds |-> Failed, is |-> "request_failure"],
             [holds |-> Regressed, is |-> "quality_regression"],
             [holds |-> Saturated, is |-> "scheduler_saturation"],
             [holds |-> Full, is |-> "memory_pressure"],
             [holds |-> Decodes, is |-> "decode_bottleneck"],
             [holds |-> Prefills, is |-> "prefill_bottleneck"],
             [holds |-> TRUE, is |-> "inference_healthy"]>>
           firstOf(i) == branch[i].holds /\ \A j \in 1..(i - 1) : ~branch[j].holds
<1>1. Category = branch[CHOOSE i \in 1..7 : firstOf(i)].is
  BY DEF Category, Some, Failed, Regressed, Saturated, Full, Decodes, Prefills
<1>2. /\ branch[1].holds = Failed /\ branch[2].holds = Regressed /\ branch[3].holds = Saturated
      /\ branch[4].holds = Full /\ branch[5].holds = Decodes /\ branch[6].holds = Prefills /\ branch[7].holds = TRUE
  OBVIOUS
<1>3. /\ branch[1].is = "request_failure" /\ branch[2].is = "quality_regression" /\ branch[3].is = "scheduler_saturation"
      /\ branch[4].is = "memory_pressure" /\ branch[5].is = "decode_bottleneck" /\ branch[6].is = "prefill_bottleneck"
      /\ branch[7].is = "inference_healthy"
  OBVIOUS
<1> HIDE DEF branch
<1>4. \A i \in 1..7 : i = 1 \/ i = 2 \/ i = 3 \/ i = 4 \/ i = 5 \/ i = 6 \/ i = 7
  OBVIOUS
<1>5. \E i \in 1..7 : firstOf(i)
  <2> DEFINE T == {i \in 1..7 : branch[i].holds}
  <2>1. T \in SUBSET Nat /\ 7 \in T
    BY <1>2
  <2>2. PICK m \in T : \A k \in T : m <= k
    BY <2>1, LeastNumber
  <2>. QED
    BY <2>2
<1> DEFINE i == CHOOSE k \in 1..7 : firstOf(k)
<1>6. i \in 1..7 /\ firstOf(i)
  BY <1>5
<1>7. Category = branch[i].is
  BY <1>1
<1> HIDE DEF i
<1>. QED
  BY <1>2, <1>3, <1>4, <1>6, <1>7

\* The labels are those of the scenarios.
LEMMA LabelsAre ==
  /\ "stability-risk" \in Labels <=> Failed
  /\ "quality-check-failed" \in Labels <=> Regressed
  /\ \A l \in Labels : l \in {"stability-risk", "quality-check-failed", "memory-pressure", "prefill-bound", "decode-bound",
                              "scheduler-saturation"}
  BY DEF Labels, Findings, Failed, Regressed

\* What is known of a scenario.
LEMMA ScenariosAre ==
  ASSUME VerdictIInv
  PROVE  /\ Len(scenarios) \in Nat /\ DOMAIN scenarios = 1..Len(scenarios)
         /\ \A n \in DOMAIN scenarios : n \in Nat /\ n # 0 /\ scenarios[n] \in Sane
  BY DEF VerdictIInv

\* What a scenario says is a number, and there is a time if a request succeeded.
LEMMA SaneIs ==
  ASSUME NEW s \in Sane
  PROVE  /\ s.success \in Nat /\ s.quality \in Nat /\ (s.ttft = Missing) = (s.success = 0)
         /\ s.ttft # Missing => s.ttft \in Nat
         /\ s.tpot # Missing => s.tpot \in Nat
<1>1. /\ s.success \in Rates /\ s.quality \in Rates /\ s.ttft \in Ttfts \cup {Missing} /\ s.tpot \in Tpots \cup {Missing}
      /\ (s.ttft = Missing) = (s.success = 0)
  BY DEF Sane
<1>. QED
  BY <1>1, VerdictAssumption

\* Of the scenarios that can be recommended one is.
LEMMA BestIsOne ==
  ASSUME VerdictIInv
  PROVE  IF Admissible = {} THEN Best = 0 ELSE Best \in Admissible /\ Best # 0
<1> DEFINE better(n, m) == Score(scenarios[n]) < Score(scenarios[m]) \/ (Score(scenarios[n]) = Score(scenarios[m]) /\ n <= m)
<1>1. Admissible \subseteq Nat \ {0} /\ \A n \in Admissible : Score(scenarios[n]) \in Nat
  <2>1. ASSUME NEW n \in Admissible PROVE n \in Nat \ {0} /\ Score(scenarios[n]) \in Nat
    <3>1. /\ n \in Nat /\ n # 0 /\ scenarios[n] \in Sane
          /\ scenarios[n].ttft # Missing /\ scenarios[n].tpot # Missing
      BY ScenariosAre DEF Admissible
    <3>2. scenarios[n].ttft \in Nat /\ scenarios[n].tpot \in Nat
      BY <3>1, SaneIs
    <3>. QED
      BY <3>1, <3>2 DEF Score
  <2>. QED
    BY <2>1
<1>2. ASSUME Admissible # {} PROVE \E n \in Admissible : \A m \in Admissible : better(n, m)
  <2> DEFINE scores == {Score(scenarios[n]) : n \in Admissible}
  <2>1. scores \in SUBSET Nat /\ scores # {}
    BY <1>1, <1>2
  <2>2. PICK low \in scores : \A k \in scores : low <= k
    BY <2>1, LeastNumber
  <2> DEFINE lows == {n \in Admissible : Score(scenarios[n]) = low}
  <2>3. lows \in SUBSET Nat /\ lows # {}
    BY <1>1, <2>2
  <2>4. PICK n \in lows : \A k \in lows : n <= k
    BY <2>3, LeastNumber
  <2>5. ASSUME NEW m \in Admissible PROVE better(n, m)
    <3>1. low <= Score(scenarios[m]) /\ Score(scenarios[n]) = low /\ Score(scenarios[m]) \in Nat /\ low \in Nat
      BY <1>1, <2>1, <2>2, <2>4
    <3>2. CASE Score(scenarios[m]) = low
      BY <2>4, <3>1, <3>2
    <3>3. CASE Score(scenarios[m]) # low
      BY <3>1, <3>3
    <3>. QED
      BY <3>2, <3>3
  <2>. QED
    BY <2>4, <2>5
<1> HIDE DEF better
<1>3. Admissible # {} => Best = CHOOSE n \in Admissible : \A m \in Admissible : better(n, m)
  BY DEF Best, better
<1>. QED
  BY <1>1, <1>2, <1>3 DEF Best

\* The judgements of the summary, the gate and the diagnosis agree.
LEMMA TheyAgree == ASSUME VerdictIInv PROVE JudgesAgree
<1>1. \A n \in DOMAIN scenarios :
        LET s == scenarios[n] IN
          /\ s.success \in Nat /\ s.quality \in Nat /\ (s.ttft = Missing) = (s.success = 0)
          /\ n \in Nat \ {0}
  BY ScenariosAre, SaneIs
<1>2. Done => DOMAIN scenarios # {}
  BY VerdictAssumption, ScenariosAre DEF Done
<1>3. VerdictsAgree
  <2>1. ASSUME Category = "inference_healthy" PROVE Labels = {}
    <3>1. ~Failed /\ ~Regressed /\ ~Saturated /\ ~Full /\ ~Decodes /\ ~Prefills
      BY <2>1, CategoryIs
    <3>. QED
      BY <3>1, LabelsAre DEF Saturated, Full, Decodes, Prefills
  <2>. QED
    BY <2>1, CategoryIs, LabelsAre DEF VerdictsAgree
<1>4. Admissible = {n \in DOMAIN scenarios :
        LET s == scenarios[n] IN s.success >= 99 /\ s.quality >= 99 /\ s.ttft # Missing /\ s.tpot # Missing}
  BY DEF Admissible
<1>5. BestIsAcceptable
  <2>1. ASSUME Best # 0 PROVE Findings(scenarios[Best]) \cap {"stability-risk", "quality-check-failed"} = {}
    <3>1. /\ scenarios[Best].success >= 99 /\ scenarios[Best].quality >= 99
          /\ scenarios[Best].success \in Nat /\ scenarios[Best].quality \in Nat
      BY <1>1, <1>4, <2>1, BestIsOne
    <3>. QED
      BY <3>1 DEF Findings
  <2>2. ASSUME Done, Best = 0, \A n \in DOMAIN scenarios : scenarios[n].tpot # Missing
        PROVE  Category \in {"request_failure", "quality_regression"}
    <3>1. Admissible = {}
      BY <2>2, BestIsOne
    <3>2. Failed \/ Regressed
      BY <1>1, <1>2, <1>4, <2>2, <3>1 DEF Failed, Regressed
    <3>. QED
      BY <3>2, CategoryIs
  <2>. QED
    BY <2>1, <2>2 DEF BestIsAcceptable
<1>6. GateIsJust
  <2> SUFFICES ASSUME Done, GatePassed
               PROVE  /\ ~Failed /\ ~Regressed
                      /\ Best = 0 => \A n \in DOMAIN scenarios : scenarios[n].tpot = Missing
    BY CategoryIs, LabelsAre DEF GateIsJust
  <2>1. \A n \in DOMAIN scenarios : scenarios[n].success >= 99 /\ scenarios[n].quality >= 99
    BY DEF GatePassed
  <2>2. ~Failed /\ ~Regressed
    BY <1>1, <2>1 DEF Failed, Regressed
  <2>3. ASSUME Best = 0, NEW n \in DOMAIN scenarios PROVE scenarios[n].tpot = Missing
    <3>1. n \notin Admissible
      BY <2>3, BestIsOne
    <3>. QED
      BY <1>1, <1>4, <2>1, <3>1
  <2>. QED
    BY <2>2, <2>3
<1>. QED
  BY <1>3, <1>5, <1>6 DEF JudgesAgree

\* Every scenario is summarised so.
LEMMA VerdictKeeps == BvSpec => []VerdictIInv
<1>1. BvInit => VerdictIInv
  BY DEF BvInit, VerdictIInv
<1>2. VerdictIInv /\ [ScenarioSummarised]_bvVars => VerdictIInv'
  <2> SUFFICES ASSUME VerdictIInv, ScenarioSummarised PROVE VerdictIInv'
    BY DEF VerdictIInv, bvVars
  <2>1. PICK s \in Summary(Len(scenarios) + 1) : scenarios' = Append(scenarios, s)
    BY DEF ScenarioSummarised
  <2>2. s \in Sane
    <3>1. Len(scenarios) + 1 \in Nat
      BY DEF VerdictIInv
    <3>. QED
      BY <3>1 DEF Summary, Sane
  <2>. QED
    BY <2>1, <2>2 DEF VerdictIInv
<1>. QED
  BY <1>1, <1>2, PTL DEF BvSpec

\* The three judges of a benchmark never contradict one another, whatever its
\* scenarios were like.
THEOREM VerdictHolds == BvSpec => []JudgesAgree
  BY VerdictKeeps, TheyAgree, PTL

--------------------------------------------------------------------------------
(* What a release launches, and what it puts back.                           *)

\* The request for a plain profile.
PlainRequest(p) == [profile |-> p, over |-> Nil]

\* What is called baseline or prefix_cache is what a request for it starts.
ServiceOf(s) == s # Nothing /\ s.label \in {"baseline", "prefix_cache"} => s = Started(PlainRequest(s.label))

\* A request that gives what has been measured.
AsMeasured(q, ran) ==
  /\ Config(q).seqs = ran.seqs /\ Config(q).tokens = ran.tokens
  /\ Config(q).prefix => ran.prefix

LaunchIInv ==
  /\ ServiceOf(service)
  /\ evidence # Nothing => \A f \in Given(evidence.declared) : evidence.declared[f] = evidence.ran[f]
  /\ release # Nothing =>
       /\ DOMAIN release = {"q", "custom", "ran", "before", "at"}
       /\ AsMeasured(release.q, release.ran)
       /\ ~release.custom => Launchable(release.q)
       /\ ServiceOf(release.before)
       /\ release.at = "refused" => release.custom
       /\ release.at = "restored" => service = release.before

\* A field is given when it is there and is not empty.
LEMMA GivenIs ==
  ASSUME NEW over, NEW f
  PROVE  f \in Given(over) <=>
           /\ f \in DOMAIN over
           /\ \/ f \in {"prefix", "async"}
              \/ f \in {"layers", "spec"} /\ over[f] # ""
              \/ f \notin {"prefix", "async", "layers", "spec"} /\ over[f] # 0
<1> DEFINE is == CASE f \in {"prefix", "async"} -> TRUE [] f \in {"layers", "spec"} -> over[f] # "" [] OTHER -> over[f] # 0
<1>1. f \in Given(over) <=> f \in DOMAIN over /\ is
  BY Zenon DEF Given
<1>2. f \in {"prefix", "async"} => f \notin {"layers", "spec"}
  OBVIOUS
<1>3. CASE f \in {"prefix", "async"}
  <2>1. is = TRUE
    BY <1>2, <1>3, Zenon
  <2> HIDE DEF is
  <2>. QED
    BY <1>1, <1>3, <2>1
<1>4. CASE f \in {"layers", "spec"}
  <2>1. is = (over[f] # "")
    BY <1>2, <1>4, Zenon
  <2> HIDE DEF is
  <2>. QED
    BY <1>1, <1>2, <1>4, <2>1
<1>5. CASE f \notin {"prefix", "async", "layers", "spec"}
  <2>1. f \notin {"prefix", "async"} /\ f \notin {"layers", "spec"}
    BY <1>5
  <2>2. is = (over[f] # 0)
    BY <2>1, Zenon
  <2> HIDE DEF is
  <2>. QED
    BY <1>1, <1>5, <2>2
<1>. QED
  BY <1>3, <1>4, <1>5

\* A field that is not there is not given.
LEMMA NotThere == ASSUME NEW over, NEW f, f \in Given(over) PROVE f \in DOMAIN over
  BY Zenon DEF Given

\* A switch that is there is given.
LEMMA SwitchGiven ==
  ASSUME NEW over, NEW f \in {"prefix", "async"}, f \in DOMAIN over PROVE f \in Given(over)
  BY GivenIs

\* A number is given when it is not zero.
LEMMA NumberGiven ==
  ASSUME NEW over, NEW f \in {"seqs", "tokens", "tp", "pp"}
  PROVE  f \in Given(over) <=> f \in DOMAIN over /\ over[f] # 0
<1>1. f \notin {"prefix", "async"} /\ f \notin {"layers", "spec"} /\ f \notin {"prefix", "async", "layers", "spec"}
  OBVIOUS
<1>. QED
  BY <1>1, GivenIs, Zenon

\* A name is given when it is not empty.
LEMMA NameGiven ==
  ASSUME NEW over, NEW f \in {"layers", "spec"}
  PROVE  f \in Given(over) <=> f \in DOMAIN over /\ over[f] # ""
<1>1. f \notin {"prefix", "async"} /\ f \in {"prefix", "async", "layers", "spec"}
  OBVIOUS
<1>. QED
  BY <1>1, GivenIs, Zenon

\* The defaults of a profile: numbers,
LEMMA DefaultNumbers ==
  ASSUME NEW p
  PROVE  Defaults(p)["tp"] = 2 /\ Defaults(p)["pp"] = 1 /\ Defaults(p)["seqs"] = 8 /\ Defaults(p)["tokens"] = 4096
  BY DEF Defaults

\* a name,
LEMMA DefaultLayers == ASSUME NEW p PROVE Defaults(p)["layers"] = ""
  BY DEF Defaults

\* and a switch.
LEMMA DefaultPrefix == ASSUME NEW p PROVE Defaults(p)["prefix"] = (p # "baseline")
  BY DEF Defaults

\* Whatever is not given is left to the profile.
LEMMA ConfigIs ==
  ASSUME NEW q, NEW f \in Fields
  PROVE  Config(q)[f] = IF f \in Given(q.over) THEN q.over[f] ELSE Defaults(q.profile)[f]
  BY DEF Config

\* A plain profile can be launched, with its defaults.
LEMMA PlainStarts ==
  ASSUME NEW q, q.profile # "scheduler", Launchable(q)
  PROVE  Started(q) = Started(PlainRequest(q.profile)) /\ q.profile = Label(q)
<1>1. Given(q.over) = {} /\ Given(Nil) = {}
  BY DEF Launchable, Given, Nil
<1>2. PlainRequest(q.profile).profile = q.profile /\ PlainRequest(q.profile).over = Nil
  BY DEF PlainRequest
<1>3. Config(q) = Config(PlainRequest(q.profile))
  BY <1>1, <1>2 DEF Config
<1>. QED
  BY <1>2, <1>3 DEF Started, Label

\* What is started may be asked for again by its label, if it has a plain one.
LEMMA StartedIsService ==
  ASSUME NEW q, Launchable(q) PROVE ServiceOf(Started(q))
<1>1. CASE q.profile = "scheduler"
  BY <1>1 DEF ServiceOf, Started, Label
<1>2. CASE q.profile # "scheduler"
  <2>1. Started(q) = Started(PlainRequest(q.profile)) /\ Started(q).label = q.profile
    BY <1>2, PlainStarts DEF Started
  <2>. QED
    BY <2>1 DEF ServiceOf
<1>. QED
  BY <1>1, <1>2

\* The balanced preset is launched as it is, with what it is matched by.
LEMMA BalancedIs ==
  /\ Launchable(Balanced.q) /\ Balanced.custom = FALSE
  /\ Config(Balanced.q)["seqs"] = Balanced.core.seqs /\ Config(Balanced.q)["tokens"] = Balanced.core.tokens
  /\ Config(Balanced.q)["prefix"] = Balanced.core.prefix
  /\ Balanced.core.seqs # 0 /\ Balanced.core.tokens # 0
<1> DEFINE q == Balanced.q
<1>1. q.profile = "prefix_cache" /\ q.over = Nil
  BY DEF Balanced
<1>2. Balanced.custom = FALSE /\ Balanced.core.prefix = TRUE
  BY DEF Balanced
<1>3. Balanced.core.seqs = 8 /\ Balanced.core.tokens = 4096
  BY DEF Balanced
<1> HIDE DEF q
<1>4. \A f : f \notin Given(q.over)
  <2>1. DOMAIN Nil = {}
    BY DEF Nil
  <2>. QED
    BY <1>1, <2>1, NotThere
<1>5. \A f \in Fields : Config(q)[f] = Defaults("prefix_cache")[f]
  BY <1>1, <1>4, ConfigIs
<1>6. Config(q)["seqs"] = 8 /\ Config(q)["tokens"] = 4096
  BY <1>5, DefaultNumbers DEF Fields
<1>7. Config(q)["prefix"] = TRUE
  BY <1>5, DefaultPrefix DEF Fields
<1>8. Launchable(q)
  BY <1>1, <1>4 DEF Launchable
<1>9. /\ Config(q)["seqs"] = Balanced.core.seqs /\ Config(q)["tokens"] = Balanced.core.tokens
      /\ Balanced.core.seqs # 0 /\ Balanced.core.tokens # 0
  BY <1>3, <1>6
<1>. QED
  BY <1>2, <1>7, <1>8, <1>9, Zenon DEF q

\* So is that of high throughput.
LEMMA HighThroughputIs ==
  /\ Launchable(HighThroughput.q) /\ HighThroughput.custom = FALSE
  /\ Config(HighThroughput.q)["seqs"] = HighThroughput.core.seqs
  /\ Config(HighThroughput.q)["tokens"] = HighThroughput.core.tokens
  /\ Config(HighThroughput.q)["prefix"] = HighThroughput.core.prefix
  /\ HighThroughput.core.seqs # 0 /\ HighThroughput.core.tokens # 0
<1> DEFINE q == HighThroughput.q
           over == [seqs |-> 16, tokens |-> 8192, prefix |-> TRUE, async |-> TRUE, spec |-> "none"]
           c == Config(q)
<1>1. q.profile = "scheduler" /\ q.over = over
  <2>1. HighThroughput.q = [profile |-> "scheduler", over |-> over]
    BY DEF HighThroughput
  <2> HIDE DEF over
  <2>. QED
    BY <2>1
<1>2. HighThroughput.custom = FALSE /\ HighThroughput.core.prefix = TRUE
  BY DEF HighThroughput
<1>3. HighThroughput.core.seqs = 16 /\ HighThroughput.core.tokens = 8192
  BY DEF HighThroughput
<1>4. DOMAIN over = {"seqs", "tokens", "prefix", "async", "spec"}
  OBVIOUS
<1>5. over["seqs"] = 16 /\ over["tokens"] = 8192
  OBVIOUS
<1>6. over["prefix"] = TRUE
  OBVIOUS
<1>7. over["spec"] = "none"
  OBVIOUS
<1> HIDE DEF q, over, c
<1>8. "seqs" \in Given(over) /\ "tokens" \in Given(over)
  BY <1>4, <1>5, NumberGiven
<1>9. "prefix" \in Given(over)
  BY <1>4, SwitchGiven
<1>10. "spec" \in Given(over)
  <2>1. over["spec"] # ""
    BY <1>7
  <2>. QED
    BY <1>4, <2>1, NameGiven
<1>11. "tp" \notin Given(over) /\ "pp" \notin Given(over) /\ "layers" \notin Given(over)
  BY <1>4, NotThere
<1>12. \A f \in Fields : c[f] = IF f \in Given(over) THEN over[f] ELSE Defaults("scheduler")[f]
  BY <1>1, ConfigIs DEF c
<1>13. c["seqs"] = 16 /\ c["tokens"] = 8192 /\ c["tp"] = 2 /\ c["pp"] = 1
  BY <1>5, <1>8, <1>11, <1>12, DefaultNumbers DEF Fields
<1>14. c["spec"] = "none" /\ c["layers"] = ""
  BY <1>7, <1>10, <1>11, <1>12, DefaultLayers DEF Fields
<1>15. c["prefix"] = TRUE
  BY <1>6, <1>9, <1>12 DEF Fields
<1>16. Fits(c)
  <2>1. c.seqs \in SeqsAllowed /\ c.tokens \in TokensAllowed /\ c.tp >= 1 /\ c.pp >= 1 /\ c.tp * c.pp = 2
    BY <1>13 DEF SeqsAllowed, TokensAllowed
  <2>2. c.spec \in {"none", "ngram"} /\ c.layers = ""
    BY <1>14
  <2>. QED
    BY <2>1, <2>2, Zenon DEF Fits
<1>17. Launchable(q)
  <2>1. c.spec = "none"
    BY <1>14
  <2>. QED
    BY <1>1, <1>16, <2>1, Zenon DEF Launchable, c
<1>18. /\ c["seqs"] = HighThroughput.core.seqs /\ c["tokens"] = HighThroughput.core.tokens
       /\ HighThroughput.core.seqs # 0 /\ HighThroughput.core.tokens # 0
  BY <1>3, <1>13
<1>. QED
  BY <1>2, <1>15, <1>17, <1>18, Zenon DEF q, c

\* A release of one's own is launched with what it is matched by.
LEMMA CustomIs ==
  ASSUME NEW over, CustomAllowed(over)
  PROVE  LET p == Custom(over) IN
           /\ p.custom = TRUE
           /\ Config(p.q).seqs = p.core.seqs /\ Config(p.q).tokens = p.core.tokens /\ Config(p.q).prefix = p.core.prefix
           /\ p.core.seqs # 0 /\ p.core.tokens # 0
<1> DEFINE p == Custom(over)
           with == [tp |-> Get(over, "tp", 2), pp |-> Get(over, "pp", 1), prefix |-> Get(over, "prefix", TRUE)]
           both == Filled(with, over)
<1>1. /\ p.custom = TRUE /\ p.q.over = both
      /\ p.core.seqs = over["seqs"] /\ p.core.tokens = over["tokens"] /\ p.core.prefix = with["prefix"]
  BY DEF Custom
<1>2. /\ "seqs" \in DOMAIN over /\ over["seqs"] # 0
      /\ "tokens" \in DOMAIN over /\ over["tokens"] # 0
  <2>1. /\ (IF "seqs" \in Given(over) THEN over["seqs"] ELSE 0) \in {8, 12, 16, 24, 32}
        /\ (IF "tokens" \in Given(over) THEN over["tokens"] ELSE 0) \in {2048, 4096, 8192}
    BY DEF CustomAllowed, Get, SeqsAllowed, TokensAllowed
  <2>2. "seqs" \in Given(over) /\ "tokens" \in Given(over)
    BY <2>1
  <2>3. over["seqs"] # 0 /\ over["tokens"] # 0
    BY <2>1, <2>2
  <2>. QED
    BY <2>2, <2>3, NotThere
<1>3. DOMAIN with = {"tp", "pp", "prefix"}
  OBVIOUS
<1> HIDE DEF with
<1>4. /\ DOMAIN both = DOMAIN with \cup DOMAIN over
      /\ \A f \in DOMAIN both : both[f] = IF f \in DOMAIN with THEN with[f] ELSE over[f]
  BY DEF Filled
<1> HIDE DEF both, p
<1>5. /\ "seqs" \in Given(both) /\ both["seqs"] = over["seqs"]
      /\ "tokens" \in Given(both) /\ both["tokens"] = over["tokens"]
      /\ "prefix" \in Given(both) /\ both["prefix"] = with["prefix"]
  <2>1. both["seqs"] = over["seqs"] /\ both["tokens"] = over["tokens"] /\ "seqs" \in DOMAIN both /\ "tokens" \in DOMAIN both
    BY <1>2, <1>3, <1>4
  <2>2. both["prefix"] = with["prefix"] /\ "prefix" \in DOMAIN both
    BY <1>3, <1>4
  <2>. QED
    BY <1>2, <2>1, <2>2, NumberGiven, SwitchGiven
<1>6. /\ Config(p.q)["seqs"] = both["seqs"] /\ Config(p.q)["tokens"] = both["tokens"]
      /\ Config(p.q)["prefix"] = both["prefix"]
  BY <1>1, <1>5, ConfigIs DEF Fields
<1>. QED
  BY <1>1, <1>2, <1>5, <1>6 DEF p

\* A release that is let through gives what was measured.
LEMMA SubmitStep == ASSUME LaunchIInv, Submit PROVE LaunchIInv'
<1> DEFINE d == evidence.declared
<1>1. PICK p \in {Balanced, HighThroughput} \cup {Custom(over) : over \in {o \in Overrides : CustomAllowed(o)}} :
        /\ Matches(p.core)
        /\ release' = [q |-> p.q, custom |-> p.custom, ran |-> evidence.ran, before |-> service, at |-> "queued"]
  BY DEF Submit
<1>2. /\ evidence # Nothing /\ UNCHANGED <<service, evidence>>
      /\ release'.q = p.q /\ release'.custom = p.custom /\ release'.ran = evidence.ran
      /\ release'.before = service /\ release'.at = "queued"
  BY <1>1 DEF Submit
<1>3. /\ p.custom = TRUE \/ Launchable(p.q)
      /\ Config(p.q).seqs = p.core.seqs /\ Config(p.q).tokens = p.core.tokens /\ Config(p.q).prefix = p.core.prefix
      /\ p.core.seqs # 0 /\ p.core.tokens # 0
  <2>1. CASE p \in {Balanced, HighThroughput}
    BY <2>1, BalancedIs, HighThroughputIs
  <2>2. ASSUME NEW over \in Overrides, CustomAllowed(over), p = Custom(over)
        PROVE  /\ p.custom = TRUE
               /\ Config(p.q).seqs = p.core.seqs /\ Config(p.q).tokens = p.core.tokens /\ Config(p.q).prefix = p.core.prefix
               /\ p.core.seqs # 0 /\ p.core.tokens # 0
    BY <2>2, CustomIs
  <2>. QED
    BY <1>1, <2>1, <2>2
<1>4. /\ p.core.seqs = evidence.ran.seqs /\ p.core.tokens = evidence.ran.tokens
      /\ p.core.prefix => evidence.ran.prefix
  <2>1. \A f \in Given(d) : d[f] = evidence.ran[f]
    BY <1>2 DEF LaunchIInv
  <2>2. /\ p.core.seqs = IF "seqs" \in Given(d) THEN d["seqs"] ELSE 0
        /\ p.core.tokens = IF "tokens" \in Given(d) THEN d["tokens"] ELSE 0
        /\ p.core.prefix = IF "prefix" \in Given(d) THEN d["prefix"] ELSE FALSE
    BY <1>1 DEF Matches, Get
  <2>. QED
    BY <1>3, <2>1, <2>2
<1>5. AsMeasured(release'.q, release'.ran)
  BY <1>2, <1>3, <1>4 DEF AsMeasured
<1>6. DOMAIN release' = {"q", "custom", "ran", "before", "at"}
  BY <1>1
<1>. QED
  BY <1>2, <1>3, <1>5, <1>6 DEF LaunchIInv

\* The operator and the benchmark step back once a release is submitted.
LEMMA BeforeRelease == ASSUME LaunchIInv, ManualStart \/ ManualStop \/ BenchmarkRuns PROVE LaunchIInv'
<1>1. release = Nothing /\ release' = Nothing
  BY DEF ManualStart, ManualStop, BenchmarkRuns
<1>2. CASE ManualStart
  <2>1. PICK q : Launchable(q) /\ service' = Started(q)
    BY <1>2 DEF ManualStart
  <2>2. ServiceOf(service')
    BY <2>1, StartedIsService
  <2>. QED
    BY <1>1, <1>2, <2>2 DEF LaunchIInv, ManualStart
<1>3. CASE ManualStop
  BY <1>1, <1>3 DEF LaunchIInv, ManualStop, ServiceOf
<1>4. CASE BenchmarkRuns
  BY <1>1, <1>4 DEF LaunchIInv, BenchmarkRuns, Declares
<1>. QED
  BY <1>2, <1>3, <1>4

\* A release is launched or refused, succeeds or fails.
LEMMA DuringRelease == ASSUME LaunchIInv, Launch \/ Succeed \/ Fail PROVE LaunchIInv'
<1>1. /\ release # Nothing /\ UNCHANGED evidence
      /\ release'.q = release.q /\ release'.custom = release.custom /\ release'.ran = release.ran
      /\ release'.before = release.before /\ DOMAIN release' = DOMAIN release
  BY DEF Launch, Succeed, Fail, At, LaunchIInv
<1>2. CASE Launch
  <2>1. \/ Launchable(release.q) /\ service' = Started(release.q) /\ release'.at = "warming"
        \/ ~Launchable(release.q) /\ service' = Nothing /\ release'.at = "refused"
    BY <1>2 DEF Launch, At, LaunchIInv
  <2>2. ServiceOf(service')
    BY <2>1, StartedIsService DEF ServiceOf
  <2>. QED
    BY <1>1, <2>1, <2>2 DEF LaunchIInv
<1>3. CASE Succeed
  BY <1>1, <1>3 DEF LaunchIInv, Succeed, At
<1>4. CASE Fail
  <2> DEFINE b == release.before
             q == PlainRequest(b.label)
  <2>1. \/ /\ b # Nothing /\ b.label \in {"baseline", "prefix_cache"} /\ Launchable(q)
           /\ service' = Started(q) /\ release'.at = "restored"
        \/ service' = Nothing /\ release'.at = "given up"
    BY <1>1, <1>4 DEF Fail, At, PlainRequest, LaunchIInv
  <2>2. ServiceOf(service')
    BY <2>1, StartedIsService DEF ServiceOf
  <2>3. release'.at = "restored" => service' = release.before
    BY <1>1, <2>1 DEF LaunchIInv, ServiceOf
  <2>. QED
    BY <1>1, <2>1, <2>2, <2>3 DEF LaunchIInv
<1>. QED
  BY <1>2, <1>3, <1>4

\* It is so all the time.
LEMMA LaunchKeeps == LcSpec => []LaunchIInv
<1>1. LcInit => LaunchIInv
  BY DEF LcInit, LaunchIInv, ServiceOf
<1>2. LaunchIInv /\ [LcNext]_lcVars => LaunchIInv'
  <2> SUFFICES ASSUME LaunchIInv, [LcNext]_lcVars PROVE LaunchIInv'
    OBVIOUS
  <2>1. CASE UNCHANGED lcVars
    BY <2>1 DEF LaunchIInv, lcVars
  <2>2. CASE LcNext
    BY <2>2, SubmitStep, BeforeRelease, DuringRelease DEF LcNext
  <2>. QED
    BY <2>1, <2>2
<1>. QED
  BY <1>1, <1>2, PTL DEF LcSpec

\* What was measured is what is launched, no preset is refused, and a release that
\* fails puts back what it replaced.
THEOREM LaunchHolds == LcSpec => []LaunchInv
<1>1. LaunchIInv => LaunchInv
  BY DEF LaunchIInv, LaunchInv, MeasuredIsReleased, PresetsLaunch, RestoresPrevious, AsMeasured
<1>. QED
  BY <1>1, LaunchKeeps, PTL

--------------------------------------------------------------------------------
(* Rates from the counters of the pods.                                      *)

\* A pod has served what it counts, and what it counted before it was restarted.
PodsInv ==
  /\ running \subseteq Pods
  /\ count \in [Pods -> Nat] /\ served \in [Pods -> Nat] /\ mark \in [Pods -> Nat]
  /\ \A p \in Pods : count[p] <= served[p] /\ mark[p] <= served[p]

\* A pod of the list is read once a round, and says what it was at the time.
RoundInv ==
  /\ toRead = Unread \/ toRead \subseteq Pods
  /\ toRead = Unread => answered = {}
  /\ answered \subseteq [pod : Pods, count : Nat, served : Nat]
  /\ \A a \in answered :
       /\ toRead # Unread => a.pod \notin toRead
       /\ a.count <= a.served /\ a.served <= served[a.pod] /\ mark[a.pod] <= a.served
       /\ a.served - a.count <= served[a.pod] - count[a.pod]
       /\ \A b \in answered : a.pod = b.pod => a = b

\* What the sum of the round before was made of, pod by pod: no pod has lost to
\* its restarts less than it had by then.
Made(c) ==
  /\ prev.sum = Sum(c, prev.of) /\ prev.of \subseteq Pods
  /\ \A p \in prev.of : c[p] <= mark[p] /\ mark[p] - c[p] <= served[p] - count[p]
  /\ \A a \in answered : a.pod \in prev.of => mark[a.pod] - c[a.pod] <= a.served - a.count

QpsIInv ==
  /\ PodsInv /\ RoundInv
  /\ prev.sum = Unread \/ \E c \in [Pods -> Nat] : Made(c)
  /\ QpsIsEarned

\* Requests are served and processes restarted while a round is on its way.
LEMMA PodStep ==
  ASSUME QpsIInv, NEW p \in Pods, Serve(p) \/ PodStops(p) \/ PodRuns(p) PROVE QpsIInv'
<1>1. /\ running' \subseteq Pods
      /\ count' \in [Pods -> Nat] /\ served' \in [Pods -> Nat]
      /\ \A q \in Pods : /\ count'[q] <= served'[q] /\ served[q] <= served'[q]
                         /\ served[q] - count[q] <= served'[q] - count'[q]
      /\ UNCHANGED <<mark, toRead, answered, prev, latest>>
  BY DEF QpsIInv, PodsInv, Serve, PodStops, PodRuns
<1>2. PodsInv'
  BY <1>1 DEF QpsIInv, PodsInv
<1>3. RoundInv'
  BY <1>1 DEF QpsIInv, PodsInv, RoundInv
<1>4. ASSUME NEW c \in [Pods -> Nat], Made(c) PROVE Made(c)'
  BY <1>1, <1>4 DEF QpsIInv, PodsInv, Made
<1>. QED
  BY <1>1, <1>2, <1>3, <1>4 DEF QpsIInv, QpsIsEarned

\* A round begins with nothing read, and reads one pod of its list.
LEMMA RoundStep ==
  ASSUME QpsIInv, ScrapeBegins \/ \E p \in Pods : ReadPod(p) PROVE QpsIInv'
<1>1. UNCHANGED <<running, count, served, mark, prev, latest>>
  BY DEF ScrapeBegins, ReadPod
<1>2. CASE ScrapeBegins
  BY <1>1, <1>2, ScraperAssumption DEF QpsIInv, PodsInv, RoundInv, Made, QpsIsEarned, ScrapeBegins
<1>3. ASSUME NEW p \in Pods, ReadPod(p) PROVE QpsIInv'
  <2> DEFINE new == [pod |-> p, count |-> count[p], served |-> served[p]]
  <2>1. /\ toRead # Unread /\ toRead \subseteq Pods /\ p \in toRead /\ toRead' = toRead \ {p}
        /\ answered' = answered \/ answered' = answered \cup {new}
    BY <1>3 DEF ReadPod, QpsIInv, RoundInv
  <2>2. /\ new.pod = p /\ new.count = count[p] /\ new.served = served[p]
        /\ new \in [pod : Pods, count : Nat, served : Nat]
    BY DEF QpsIInv, PodsInv
  <2>3. \A a \in answered' : a \in answered \/ a = new
    BY <2>1
  <2>4. \A a \in answered : a.pod # p
    BY <2>1 DEF QpsIInv, RoundInv
  <2> HIDE DEF new
  <2>5. PodsInv'
    BY <1>1 DEF QpsIInv, PodsInv
  <2>6. RoundInv'
    <3>1. toRead' \subseteq Pods /\ toRead' # Unread /\ answered' \subseteq [pod : Pods, count : Nat, served : Nat]
      BY <2>1, <2>2, ScraperAssumption DEF QpsIInv, RoundInv
    <3>2. ASSUME NEW a \in answered'
          PROVE  /\ a.pod \notin toRead'
                 /\ a.count <= a.served /\ a.served <= served[a.pod] /\ mark[a.pod] <= a.served
                 /\ a.served - a.count <= served[a.pod] - count[a.pod]
      BY <2>1, <2>2, <2>3 DEF QpsIInv, RoundInv, PodsInv
    <3>3. ASSUME NEW a \in answered', NEW b \in answered', a.pod = b.pod PROVE a = b
      BY <2>2, <2>3, <2>4, <3>3 DEF QpsIInv, RoundInv
    <3>. QED
      BY <1>1, <3>1, <3>2, <3>3 DEF RoundInv
  <2>7. ASSUME NEW c \in [Pods -> Nat], Made(c) PROVE Made(c)'
    BY <1>1, <2>2, <2>3, <2>7 DEF Made
  <2>. QED
    BY <1>1, <2>5, <2>6, <2>7 DEF QpsIInv, QpsIsEarned
<1>. QED
  BY <1>2, <1>3

\* A round of which a pod answered: what each of them said.
Said(field) == [p \in Answered |-> (CHOOSE a \in answered : a.pod = p)[field]]

\* Of every pod that has answered it is known what it said, and that it had served
\* what it said.
LEMMA RoundIs ==
  ASSUME QpsIInv
  PROVE  /\ Answered \subseteq Pods /\ IsFiniteSet(Answered)
         /\ \A p \in Answered :
              /\ \E a \in answered : a.pod = p /\ Said("count")[p] = a.count /\ Said("served")[p] = a.served
              /\ Said("count")[p] \in Nat /\ Said("served")[p] \in Nat /\ mark[p] \in Nat
              /\ Said("count")[p] <= Said("served")[p] /\ Said("served")[p] <= served[p] /\ mark[p] <= Said("served")[p]
              /\ Said("served")[p] - Said("count")[p] <= served[p] - count[p]
              /\ \A b \in [Pods -> Nat] : Made(b) /\ p \in prev.of => mark[p] - b[p] <= Said("served")[p] - Said("count")[p]
<1> DEFINE c == Said("count")
           s == Said("served")
<1>1. Answered \subseteq Pods
  BY DEF QpsIInv, RoundInv, Answered
<1>2. ASSUME NEW p \in Answered
      PROVE  \E a \in answered : a.pod = p /\ c[p] = a.count /\ s[p] = a.served
  <2>1. PICK a \in answered : a.pod = p /\ a = CHOOSE b \in answered : b.pod = p
    BY DEF Answered
  <2>. QED
    BY <2>1 DEF Said
<1> HIDE DEF c, s
<1>3. ASSUME NEW p \in Answered
      PROVE  /\ c[p] \in Nat /\ s[p] \in Nat /\ mark[p] \in Nat
             /\ c[p] <= s[p] /\ s[p] <= served[p] /\ mark[p] <= s[p]
             /\ s[p] - c[p] <= served[p] - count[p]
             /\ \A b \in [Pods -> Nat] : Made(b) /\ p \in prev.of => mark[p] - b[p] <= s[p] - c[p]
  BY <1>1, <1>2 DEF QpsIInv, PodsInv, RoundInv, Made
<1>. QED
  BY <1>1, <1>2, <1>3, ScraperAssumption, FS_Subset DEF c, s

\* What is published of a round are the sums of what its pods have said.
LEMMA PublishIs ==
  ASSUME QpsIInv, Publish, answered # {}
  PROVE  LET c == Said("count")
             s == Said("served")
             m == [p \in Answered |-> mark[p]]
         IN  /\ prev' = [sum |-> Sum(c, Answered), of |-> Answered]
             /\ \A p \in Pods : mark'[p] = IF p \in Answered THEN s[p] ELSE mark[p]
             /\ mark' = [p \in Pods |-> mark'[p]]
             /\ latest' = [gain |-> Gain(Sum(c, Answered)), earned |-> Sum(s, Answered) - Sum(m, Answered),
                           grown |-> ~ Answered \subseteq prev.of]
             /\ Sum(c, Answered) \in Nat /\ Sum(s, Answered) \in Nat /\ Sum(m, Answered) \in Nat
             /\ Sum(m, Answered) <= Sum(s, Answered)
<1> DEFINE c == Said("count")
           s == Said("served")
           m == [p \in Answered |-> mark[p]]
<1>1. SumOf("count") = Sum(c, Answered) /\ SumOf("served") = Sum(s, Answered) /\ SumFunction(m) = Sum(m, Answered)
  BY SumIsSum DEF SumOf, Said
<1>2. /\ prev' = [sum |-> Sum(c, Answered), of |-> Answered]
      /\ \A p \in Pods : mark'[p] = IF p \in Answered THEN s[p] ELSE mark[p]
      /\ mark' = [p \in Pods |-> mark'[p]]
      /\ latest' = [gain |-> Gain(Sum(c, Answered)), earned |-> Sum(s, Answered) - Sum(m, Answered),
                    grown |-> ~ Answered \subseteq prev.of]
  BY <1>1 DEF Publish, Said
<1>3. /\ IsFiniteSet(Answered)
      /\ \A p \in Answered : c[p] \in Nat /\ s[p] \in Nat /\ m[p] \in Nat /\ m[p] <= s[p]
  BY RoundIs
<1> HIDE DEF c, s, m
<1>4. Sum(c, Answered) \in Nat /\ Sum(s, Answered) \in Nat /\ Sum(m, Answered) \in Nat
  BY <1>3, SumGrows
<1>5. Sum(m, Answered) <= Sum(s, Answered)
  BY <1>3, SumOrder
<1>. QED
  BY <1>2, <1>4, <1>5 DEF c, s, m

\* The sums of a round are what was served, less what restarts have lost.
LEMMA PublishStep == ASSUME QpsIInv, Publish PROVE QpsIInv'
<1>1. /\ toRead' = Unread /\ answered' = {}
      /\ UNCHANGED <<running, count, served>>
  BY DEF Publish
<1>2. CASE answered = {}
  <2>1. UNCHANGED <<mark, prev, latest>>
    BY <1>2 DEF Publish
  <2>. QED
    BY <1>1, <2>1 DEF QpsIInv, PodsInv, RoundInv, Made, QpsIsEarned
<1>3. CASE answered # {}
  <2> DEFINE c == Said("count")
             s == Said("served")
             m == [p \in Answered |-> mark[p]]
  <2>1. /\ Answered \subseteq Pods /\ IsFiniteSet(Answered)
        /\ \A p \in Answered : /\ c[p] \in Nat /\ s[p] \in Nat /\ m[p] \in Nat /\ m[p] = mark[p]
                               /\ c[p] <= s[p] /\ s[p] <= served[p] /\ mark[p] <= s[p]
                               /\ s[p] - c[p] <= served[p] - count[p]
                               /\ \A b \in [Pods -> Nat] : Made(b) /\ p \in prev.of => mark[p] - b[p] <= s[p] - c[p]
    BY RoundIs
  <2>2. /\ prev' = [sum |-> Sum(c, Answered), of |-> Answered]
        /\ \A p \in Pods : mark'[p] = IF p \in Answered THEN s[p] ELSE mark[p]
        /\ mark' = [p \in Pods |-> mark'[p]]
        /\ latest' = [gain |-> Gain(Sum(c, Answered)), earned |-> Sum(s, Answered) - Sum(m, Answered),
                      grown |-> ~ Answered \subseteq prev.of]
    BY <1>3, PublishIs
  <2>3. /\ Sum(c, Answered) \in Int /\ Sum(s, Answered) \in Int /\ Sum(m, Answered) \in Int
        /\ Sum(m, Answered) <= Sum(s, Answered)
    BY <1>3, PublishIs
  <2> HIDE DEF c, s, m
  <2>4. PodsInv'
    BY <1>1, <2>1, <2>2 DEF QpsIInv, PodsInv
  <2>5. RoundInv'
    BY <1>1 DEF RoundInv
  <2>6. \E b \in [Pods -> Nat] : Made(b)'
    <3> DEFINE b == [p \in Pods |-> IF p \in Answered THEN c[p] ELSE 0]
    <3>1. b \in [Pods -> Nat] /\ \A p \in Answered : b[p] = c[p]
      BY <2>1
    <3> HIDE DEF b
    <3>2. Sum(b, Answered) = Sum(c, Answered)
      BY <2>1, <3>1, SumOrder
    <3>3. prev'.sum = Sum(b, Answered) /\ prev'.of = Answered
      BY <2>2, <3>2
    <3>4. ASSUME NEW p \in Answered PROVE b[p] <= mark'[p] /\ mark'[p] - b[p] <= served'[p] - count'[p]
      BY <1>1, <2>1, <2>2, <3>1
    <3>. QED
      BY <1>1, <2>1, <3>1, <3>3, <3>4 DEF Made
  <2>7. ASSUME NEW b \in [Pods -> Nat], Made(b), Answered \subseteq prev.of
        PROVE  /\ prev.sum \in Int
               /\ Sum(c, Answered) - prev.sum <= Sum(s, Answered) - Sum(m, Answered)
    <3> DEFINE f == [p \in Answered |-> c[p] + m[p]]
               g == [p \in Answered |-> s[p] + b[p]]
    <3>1. Sum(b, Answered) \in Nat /\ Sum(b, prev.of) \in Nat /\ Sum(b, Answered) <= Sum(b, prev.of) /\ prev.sum = Sum(b, prev.of)
      <4>1. IsFiniteSet(prev.of) /\ \A p \in prev.of : b[p] \in Nat
        BY <2>7, ScraperAssumption, FS_Subset DEF Made
      <4>. QED
        BY <2>7, <4>1, SumGrows DEF Made
    <3>2. \A p \in Answered : /\ f[p] = c[p] + m[p] /\ g[p] = s[p] + b[p] /\ b[p] \in Int
                              /\ f[p] \in Int /\ g[p] \in Int /\ f[p] <= g[p]
      <4>1. ASSUME NEW p \in Answered
            PROVE  /\ b[p] \in Nat /\ c[p] \in Nat /\ s[p] \in Nat /\ m[p] \in Nat
                   /\ m[p] - b[p] <= s[p] - c[p]
        BY <2>1, <2>7
      <4>. QED
        BY <4>1
    <3> HIDE DEF f, g
    <3>3. Sum(f, Answered) = Sum(c, Answered) + Sum(m, Answered)
      <4>1. IsFiniteSet(Answered) /\ \A p \in Answered : c[p] \in Int /\ m[p] \in Int /\ f[p] = c[p] + m[p]
        BY <2>1, <3>2
      <4>. QED
        BY <4>1, SumPlus
    <3>4. Sum(g, Answered) = Sum(s, Answered) + Sum(b, Answered)
      <4>1. IsFiniteSet(Answered) /\ \A p \in Answered : s[p] \in Int /\ b[p] \in Int /\ g[p] = s[p] + b[p]
        BY <2>1, <3>2
      <4>. QED
        BY <4>1, SumPlus
    <3>5. Sum(f, Answered) <= Sum(g, Answered)
      BY <2>1, <3>2, SumOrder
    <3>. QED
      BY <2>3, <3>1, <3>3, <3>4, <3>5
  <2>8. QpsIsEarned'
    <3>1. SUFFICES ASSUME Answered \subseteq prev.of
          PROVE  Gain(Sum(c, Answered)) <= Sum(s, Answered) - Sum(m, Answered)
      BY <2>2 DEF QpsIsEarned
    <3>2. CASE prev.sum = Unread
      BY <2>3, <3>2 DEF Gain
    <3>3. CASE \E b \in [Pods -> Nat] : Made(b)
      BY <2>3, <2>7, <3>1, <3>3 DEF Gain
    <3>. QED
      BY <3>2, <3>3 DEF QpsIInv
  <2>. QED
    BY <2>4, <2>5, <2>6, <2>8 DEF QpsIInv
<1>. QED
  BY <1>2, <1>3

\* It is so all the time.
LEMMA RoundsKeep == ScSpec => []QpsIInv
<1>1. ScInit => QpsIInv
  BY DEF ScInit, QpsIInv, PodsInv, RoundInv, QpsIsEarned, NoRound
<1>2. QpsIInv /\ [ScNext]_sVars => QpsIInv'
  <2> SUFFICES ASSUME QpsIInv, [ScNext]_sVars PROVE QpsIInv'
    OBVIOUS
  <2>1. CASE UNCHANGED sVars
    BY <2>1 DEF QpsIInv, PodsInv, RoundInv, Made, QpsIsEarned, sVars
  <2>2. CASE ScNext
    BY <2>2, PodStep, RoundStep, PublishStep DEF ScNext
  <2>. QED
    BY <2>1, <2>2
<1>. QED
  BY <1>1, <1>2, PTL DEF ScSpec

\* The rate published never counts more than the pods have served, if the round
\* before has read all of them.
THEOREM QpsHolds == ScSpec => []QpsIsEarned
<1>1. QpsIInv => QpsIsEarned
  BY DEF QpsIInv
<1>. QED
  BY <1>1, RoundsKeep, PTL

--------------------------------------------------------------------------------
(* The ring of an edge.                                                      *)

\* The spans of a set that an edge keeps in a bucket while it has heard of no
\* second later than last.
InRing(all, e, i, last) == {s \in all : s.link = e /\ s.sec % Window = i /\ s.sec + Window > last}

Keeps(bucket, all, e, last) ==
  /\ bucket \in [0..(Window - 1) -> Nat]
  /\ \A i \in 0..(Window - 1) : bucket[i] = Cardinality(InRing(all, e, i, last))

Wrong(all) == {s \in all : s.bad}

\* Every span has a number of its own, and waits for a while at most.
SpansInv ==
  /\ second \in Nat /\ second > 0 /\ looking \in Nat
  /\ IsFiniteSet(waiting) /\ IsFiniteSet(counted) /\ waiting \cap counted = {}
  /\ \A s \in Spans : /\ s.link \in Links /\ s.sec \in Nat /\ s.sec > 0 /\ s.bad \in BOOLEAN
                      /\ s.n \in Nat /\ s.n <= Cardinality(Spans)
  /\ \A s \in waiting : s.sec <= second /\ second <= s.sec + MaxWait
  /\ looking # 0 => looking <= second

\* An edge has heard of every second of a span it has counted, and its buckets
\* hold what is in the window.
RingsInv ==
  /\ lastSec \in [Links -> Nat] /\ \A e \in Links : lastSec[e] <= second
  /\ \A s \in counted : s.sec <= lastSec[s.link]
  /\ reqs \in [Links -> [0..(Window - 1) -> Nat]] /\ errs \in [Links -> [0..(Window - 1) -> Nat]]
  /\ \A e \in Links : /\ Keeps(reqs[e], counted, e, lastSec[e])
                      /\ Keeps(errs[e], Wrong(counted), e, lastSec[e])

GraphIInv == SpansInv /\ RingsInv

\* A set of no spans has no elements.
LEMMA NoneInRing ==
  ASSUME NEW all, NEW e, NEW i, NEW last, \A s \in all : ~(s.link = e /\ s.sec % Window = i /\ s.sec + Window > last)
  PROVE  Cardinality(InRing(all, e, i, last)) = 0
  BY FS_EmptySet DEF InRing

\* The window moves on to a second, or hears of one that is past: the buckets of
\* the seconds it has left are empty, and no other has lost anything.
LEMMA Advance ==
  ASSUME GraphIInv, NEW e \in Links, NEW sec \in Nat, sec > 0,
         NEW bucket, NEW all \in SUBSET counted, Keeps(bucket, all, e, lastSec[e])
  PROVE  Keeps(Emptied(bucket, e, sec), all, e, Latest(e, sec))
<1> DEFINE L == lastSec[e]
           new == Emptied(bucket, e, sec)
<1>1. /\ L \in Nat /\ Window \in Nat \ {0} /\ Latest(e, sec) = IF sec > L THEN sec ELSE L
      /\ \A s \in all : s.sec \in Nat /\ s.sec > 0 /\ (s.link = e => s.sec <= L)
  BY ServiceGraphAssumption DEF GraphIInv, SpansInv, RingsInv, Spans, Latest
<1>2. \A i \in 0..(Window - 1) : /\ bucket[i] = Cardinality(InRing(all, e, i, L)) /\ bucket[i] \in Nat
                                 /\ new[i] = IF i \in Stale(e, sec) THEN 0 ELSE bucket[i]
  BY DEF Keeps, Emptied
<1>3. new \in [0..(Window - 1) -> Nat]
  BY <1>2 DEF Emptied
<1>4. Stale(e, sec) = IF L = 0 \/ sec <= L THEN {}
                      ELSE IF sec - L >= Window THEN 0..(Window - 1) ELSE {t % Window : t \in (L + 1)..sec}
  BY DEF Stale
<1> HIDE DEF L, new
<1>5. ASSUME NEW i \in 0..(Window - 1)
      PROVE  new[i] = Cardinality(InRing(all, e, i, Latest(e, sec)))
  <2>1. CASE L = 0
    <3>1. \A s \in all : s.link # e
      BY <1>1, <2>1
    <3>2. Cardinality(InRing(all, e, i, L)) = 0 /\ Cardinality(InRing(all, e, i, Latest(e, sec))) = 0
      BY <3>1, NoneInRing
    <3>. QED
      BY <1>2, <1>4, <2>1, <3>2
  <2>2. CASE sec <= L
    BY <1>1, <1>2, <1>4, <2>2
  <2>3. CASE L # 0 /\ sec > L /\ sec - L >= Window
    <3>1. \A s \in all : s.link = e => ~(s.sec + Window > Latest(e, sec))
      BY <1>1, <2>3
    <3>2. Cardinality(InRing(all, e, i, Latest(e, sec))) = 0
      BY <3>1, NoneInRing
    <3>3. i \in Stale(e, sec)
      BY <1>1, <1>4, <2>3
    <3>. QED
      BY <1>2, <3>2, <3>3
  <2>4. CASE L # 0 /\ sec > L /\ ~(sec - L >= Window)
    <3>1. Latest(e, sec) = sec /\ Stale(e, sec) = {t % Window : t \in (L + 1)..sec}
      BY <1>1, <1>4, <2>4
    <3>2. CASE i \in Stale(e, sec)
      <4>1. PICK t \in (L + 1)..sec : i = t % Window
        BY <3>1, <3>2
      <4>2. \A s \in all : ~(s.link = e /\ s.sec % Window = i /\ s.sec + Window > sec)
        <5>1. ASSUME NEW s \in all, s.link = e, s.sec + Window > sec PROVE s.sec % Window # i
          <6>1. s.sec \in Nat /\ t \in Nat /\ s.sec < t /\ t < s.sec + Window
            BY <1>1, <4>1, <5>1
          <6>. QED
            BY <1>1, <4>1, <6>1, ModApart
        <5>. QED
          BY <5>1
      <4>3. Cardinality(InRing(all, e, i, Latest(e, sec))) = 0
        BY <3>1, <4>2, NoneInRing
      <4>. QED
        BY <1>2, <3>2, <4>3
    <3>3. CASE i \notin Stale(e, sec)
      <4>1. ASSUME NEW s \in all, s.link = e, s.sec % Window = i, s.sec + Window > L PROVE s.sec + Window > sec
        <5>1. SUFFICES ASSUME s.sec + Window <= sec PROVE FALSE
          BY <1>1
        <5>2. s.sec + Window \in (L + 1)..sec
          BY <1>1, <4>1, <5>1
        <5>3. (s.sec + Window) % Window = i
          BY <1>1, <4>1, ModAround
        <5>. QED
          BY <3>1, <3>3, <5>2, <5>3
      <4>2. InRing(all, e, i, sec) = InRing(all, e, i, L)
        BY <1>1, <2>4, <4>1 DEF InRing
      <4>. QED
        BY <1>2, <3>1, <3>3, <4>2
    <3>. QED
      BY <3>2, <3>3
  <2>. QED
    BY <1>1, <2>1, <2>2, <2>3, <2>4
<1>. QED
  BY <1>3, <1>5 DEF Keeps, new

\* A span that is counted in its bucket is one more of those in the window.
LEMMA OneMore ==
  ASSUME GraphIInv, NEW s \in waiting, NEW bucket, NEW all \in SUBSET counted, NEW last \in Nat,
         Keeps(bucket, all, s.link, last), s.sec + Window > last
  PROVE  Keeps(Counts(bucket, s.sec % Window, 1), all \cup {s}, s.link, last)
<1> DEFINE k == s.sec % Window
           new == Counts(bucket, k, 1)
           e == s.link
<1>1. k \in 0..(Window - 1) /\ IsFiniteSet(all) /\ s \notin all
  BY ModRange, FS_Subset, ServiceGraphAssumption DEF GraphIInv, SpansInv, Spans
<1>2. /\ new \in [0..(Window - 1) -> Nat]
      /\ \A i \in 0..(Window - 1) : bucket[i] \in Nat /\ new[i] = IF i = k THEN bucket[i] + 1 ELSE bucket[i]
  BY <1>1 DEF Keeps, Counts
<1>3. ASSUME NEW i \in 0..(Window - 1) PROVE new[i] = Cardinality(InRing(all \cup {s}, e, i, last))
  <2>1. IsFiniteSet(InRing(all, e, i, last)) /\ s \notin InRing(all, e, i, last)
    BY <1>1, FS_Subset DEF InRing
  <2>2. InRing(all \cup {s}, e, i, last) = IF i = k THEN InRing(all, e, i, last) \cup {s} ELSE InRing(all, e, i, last)
    BY DEF InRing
  <2>3. Cardinality(InRing(all, e, i, last) \cup {s}) = Cardinality(InRing(all, e, i, last)) + 1
    BY <2>1, FS_AddElement
  <2>4. bucket[i] = Cardinality(InRing(all, e, i, last))
    BY DEF Keeps
  <2> HIDE DEF k, new
  <2>. QED
    BY <1>2, <2>2, <2>3, <2>4
<1>. QED
  BY <1>2, <1>3 DEF Keeps

\* A span that is of another edge, or not of the set, changes nothing.
LEMMA NoMore ==
  ASSUME NEW bucket, NEW all, NEW s, NEW e, NEW last, Keeps(bucket, all, e, last), s.link # e
  PROVE  Keeps(bucket, all \cup {s}, e, last)
<1>1. \A i : InRing(all \cup {s}, e, i, last) = InRing(all, e, i, last)
  BY DEF InRing
<1>. QED
  BY <1>1 DEF Keeps

\* A bucket to which nothing is added is the same.
LEMMA NothingAdded ==
  ASSUME NEW bucket, NEW all, NEW e, NEW last, Keeps(bucket, all, e, last), NEW k \in 0..(Window - 1)
  PROVE  Counts(bucket, k, 0) = bucket
<1>1. bucket \in [0..(Window - 1) -> Nat] /\ bucket[k] + 0 = bucket[k]
  BY DEF Keeps
<1>. QED
  BY <1>1 DEF Counts

\* A span reaches its edge.
LEMMA RecordStep == ASSUME GraphIInv, NEW s \in waiting, Record(s) PROVE GraphIInv'
<1> DEFINE e == s.link
           last == Latest(e, s.sec)
           k == s.sec % Window
<1>1. /\ e \in Links /\ s.sec \in Nat /\ s.sec > 0 /\ s.bad \in BOOLEAN /\ s \notin counted
      /\ s.sec <= second /\ second <= s.sec + MaxWait /\ second \in Nat
      /\ lastSec[e] \in Nat /\ lastSec[e] <= second
  BY DEF GraphIInv, SpansInv, RingsInv, Spans
<1>2. /\ last \in Nat /\ last <= second /\ last >= s.sec /\ last >= lastSec[e] /\ s.sec + Window > last
      /\ k \in 0..(Window - 1)
  <2>1. k \in 0..(Window - 1)
    BY <1>1, ServiceGraphAssumption, ModRange
  <2>2. last = IF s.sec > lastSec[e] THEN s.sec ELSE lastSec[e]
    BY DEF Latest
  <2> HIDE DEF k, last, e
  <2>. QED
    BY <1>1, <2>1, <2>2, ServiceGraphAssumption
<1> DEFINE more  == Counts(Emptied(reqs[e], e, s.sec), k, 1)
           worse == Counts(Emptied(errs[e], e, s.sec), k, IF s.bad THEN 1 ELSE 0)
<1>3. /\ reqs' = [reqs EXCEPT ![e] = more]
      /\ errs' = [errs EXCEPT ![e] = worse]
      /\ lastSec' = [lastSec EXCEPT ![e] = last]
      /\ waiting' = waiting \ {s} /\ counted' = counted \cup {s}
      /\ UNCHANGED <<second, looking>>
  BY <1>1 DEF Record, GraphIInv, RingsInv
<1>4. Spans' = Spans
  BY <1>3 DEF Spans
<1>5. SpansInv'
  <2>1. IsFiniteSet(waiting') /\ IsFiniteSet(counted') /\ waiting' \cap counted' = {}
    BY <1>3, FS_Subset, FS_AddElement DEF GraphIInv, SpansInv
  <2>. QED
    BY <1>3, <1>4, <2>1 DEF GraphIInv, SpansInv
<1> HIDE DEF last, k, more, worse
<1>6. Wrong(counted') = IF s.bad THEN Wrong(counted) \cup {s} ELSE Wrong(counted)
  BY <1>3 DEF Wrong
<1>7. /\ Keeps(Emptied(reqs[e], e, s.sec), counted, e, last)
      /\ Keeps(Emptied(errs[e], e, s.sec), Wrong(counted), e, last)
  <2>1. Wrong(counted) \in SUBSET counted /\ counted \in SUBSET counted
    BY DEF Wrong
  <2>2. Keeps(reqs[e], counted, e, lastSec[e]) /\ Keeps(errs[e], Wrong(counted), e, lastSec[e])
    BY <1>1 DEF GraphIInv, RingsInv
  <2>. QED
    BY <1>1, <2>1, <2>2, Advance DEF last
<1>8. Keeps(more, counted', e, last)
  <2>1. Keeps(Counts(Emptied(reqs[e], e, s.sec), s.sec % Window, 1), counted \cup {s}, s.link, last)
    <3>1. counted \in SUBSET counted
      OBVIOUS
    <3>. QED
      BY <1>2, <1>7, <3>1, OneMore
  <2>. QED
    BY <1>3, <2>1 DEF more, k
<1>9. Keeps(worse, Wrong(counted'), e, last)
  <2>1. CASE s.bad
    <3>1. Keeps(Counts(Emptied(errs[e], e, s.sec), s.sec % Window, 1), Wrong(counted) \cup {s}, s.link, last)
      <4>1. Wrong(counted) \in SUBSET counted
        BY DEF Wrong
      <4>. QED
        BY <1>2, <1>7, <4>1, OneMore
    <3>. QED
      BY <1>6, <2>1, <3>1 DEF worse, k
  <2>2. CASE ~s.bad
    <3>1. Counts(Emptied(errs[e], e, s.sec), k, 0) = Emptied(errs[e], e, s.sec)
      BY <1>2, <1>7, NothingAdded
    <3>2. worse = Emptied(errs[e], e, s.sec)
      BY <2>2, <3>1 DEF worse
    <3>. QED
      BY <1>6, <1>7, <2>2, <3>2
  <2>. QED
    BY <2>1, <2>2
<1>a. /\ reqs' \in [Links -> [0..(Window - 1) -> Nat]] /\ reqs'[e] = more
      /\ errs' \in [Links -> [0..(Window - 1) -> Nat]] /\ errs'[e] = worse
      /\ lastSec' \in [Links -> Nat] /\ lastSec'[e] = last
      /\ \A d \in Links : d # e => reqs'[d] = reqs[d] /\ errs'[d] = errs[d] /\ lastSec'[d] = lastSec[d]
  <2>1. more \in [0..(Window - 1) -> Nat] /\ worse \in [0..(Window - 1) -> Nat]
    BY <1>8, <1>9 DEF Keeps
  <2>. QED
    BY <1>1, <1>2, <1>3, <2>1 DEF GraphIInv, RingsInv
<1>10. ASSUME NEW d \in Links
       PROVE  Keeps(reqs'[d], counted', d, lastSec'[d]) /\ Keeps(errs'[d], Wrong(counted'), d, lastSec'[d])
  <2>1. CASE d = e
    BY <1>8, <1>9, <1>a, <2>1
  <2>2. CASE d # e
    <3>1. Keeps(reqs[d], counted, d, lastSec[d]) /\ Keeps(errs[d], Wrong(counted), d, lastSec[d])
      BY DEF GraphIInv, RingsInv
    <3>2. Keeps(reqs[d], counted \cup {s}, d, lastSec[d]) /\ Keeps(errs[d], Wrong(counted) \cup {s}, d, lastSec[d])
      BY <2>2, <3>1, NoMore
    <3>. QED
      BY <1>3, <1>6, <1>a, <2>2, <3>1, <3>2
  <2>. QED
    BY <2>1, <2>2
<1>11. RingsInv'
  <2>1. lastSec' \in [Links -> Nat] /\ \A d \in Links : lastSec'[d] <= second' /\ lastSec'[d] >= lastSec[d]
    BY <1>1, <1>2, <1>3, <1>a DEF GraphIInv, RingsInv
  <2>2. \A r \in counted' : r.sec <= lastSec'[r.link]
    BY <1>1, <1>2, <1>3, <1>a, <2>1 DEF GraphIInv, SpansInv, RingsInv, Spans
  <2>. QED
    BY <1>10, <1>a, <2>1, <2>2 DEF RingsInv
<1>. QED
  BY <1>5, <1>11 DEF GraphIInv

\* Every edge that is known is moved on to the second of a snapshot.
LEMMA SnapshotStep == ASSUME GraphIInv, Snapshot PROVE GraphIInv'
<1> DEFINE known == {s.link : s \in counted}
<1>1. /\ looking \in Nat /\ looking > 0 /\ looking <= second /\ looking' = 0
      /\ \A e \in Links : /\ reqs'[e] = IF e \in known THEN Emptied(reqs[e], e, looking) ELSE reqs[e]
                          /\ errs'[e] = IF e \in known THEN Emptied(errs[e], e, looking) ELSE errs[e]
                          /\ lastSec'[e] = IF e \in known THEN Latest(e, looking) ELSE lastSec[e]
      /\ reqs' = [d \in Links |-> reqs'[d]] /\ errs' = [d \in Links |-> errs'[d]] /\ lastSec' = [d \in Links |-> lastSec'[d]]
      /\ UNCHANGED <<second, waiting, counted>>
  BY DEF Snapshot, GraphIInv, SpansInv
<1> HIDE DEF known
<1>2. SpansInv'
  BY <1>1 DEF GraphIInv, SpansInv, Spans
<1>3. ASSUME NEW e \in Links
      PROVE  /\ lastSec'[e] \in Nat /\ lastSec'[e] <= second' /\ lastSec'[e] >= lastSec[e]
             /\ Keeps(reqs'[e], counted, e, lastSec'[e]) /\ Keeps(errs'[e], Wrong(counted), e, lastSec'[e])
  <2>1. /\ lastSec[e] \in Nat /\ lastSec[e] <= second /\ second \in Nat
        /\ Keeps(reqs[e], counted, e, lastSec[e]) /\ Keeps(errs[e], Wrong(counted), e, lastSec[e])
        /\ counted \in SUBSET counted /\ Wrong(counted) \in SUBSET counted
    BY DEF GraphIInv, SpansInv, RingsInv, Wrong
  <2>2. /\ Keeps(Emptied(reqs[e], e, looking), counted, e, Latest(e, looking))
        /\ Keeps(Emptied(errs[e], e, looking), Wrong(counted), e, Latest(e, looking))
    BY <1>1, <2>1, Advance
  <2>3. Latest(e, looking) \in Nat /\ Latest(e, looking) <= second /\ Latest(e, looking) >= lastSec[e]
    BY <1>1, <2>1 DEF Latest
  <2>. QED
    BY <1>1, <2>1, <2>2, <2>3
<1>4. RingsInv'
  <2>1. \A s \in counted : s.sec <= lastSec'[s.link]
    BY <1>3 DEF GraphIInv, SpansInv, RingsInv, Spans
  <2>2. \A e \in Links : reqs'[e] \in [0..(Window - 1) -> Nat] /\ errs'[e] \in [0..(Window - 1) -> Nat]
    BY <1>3 DEF Keeps
  <2>. QED
    BY <1>1, <1>3, <2>1, <2>2 DEF RingsInv
<1>. QED
  BY <1>2, <1>4 DEF GraphIInv

\* The clock moves, spans end and snapshots begin.
LEMMA ClockStep ==
  ASSUME GraphIInv, SgTick \/ SnapshotBegins \/ \E e \in Links, bad \in BOOLEAN : SpanEnds(e, bad)
  PROVE  GraphIInv'
<1>1. /\ UNCHANGED <<reqs, errs, lastSec, counted>>
      /\ second' \in Nat /\ second' >= second /\ second \in Nat
  BY DEF SgTick, SnapshotBegins, SpanEnds, GraphIInv, SpansInv
<1>2. RingsInv'
  BY <1>1 DEF GraphIInv, RingsInv
<1>3. CASE SgTick
  <2>1. /\ second' = second + 1 /\ UNCHANGED <<waiting, looking, counted>> /\ Spans' = Spans
        /\ \A s \in waiting : s.sec + MaxWait > second
    BY <1>3 DEF SgTick, Spans
  <2>2. \A s \in waiting : s.sec \in Nat
    BY DEF GraphIInv, SpansInv, Spans
  <2>. QED
    BY <1>2, <2>1, <2>2, ServiceGraphAssumption DEF GraphIInv, SpansInv
<1>b. CASE SnapshotBegins
  <2>1. looking' = second /\ UNCHANGED <<second, waiting, counted>> /\ Spans' = Spans
    BY <1>b DEF SnapshotBegins, Spans
  <2>. QED
    BY <1>2, <2>1 DEF GraphIInv, SpansInv
<1>4. ASSUME NEW e \in Links, NEW bad \in BOOLEAN, SpanEnds(e, bad) PROVE SpansInv'
  <2> DEFINE n == Cardinality(Spans) + 1
             new == [link |-> e, sec |-> second, bad |-> bad, n |-> n]
  <2>1. IsFiniteSet(Spans) /\ Cardinality(Spans) \in Nat
    BY FS_Union, FS_CardinalityType DEF GraphIInv, SpansInv, Spans
  <2>2. waiting' = waiting \cup {new} /\ UNCHANGED <<second, looking, counted>> /\ Spans' = Spans \cup {new}
    BY <1>4 DEF SpanEnds, Spans
  <2>3. new.link = e /\ new.sec = second /\ new.bad = bad /\ new.n = n /\ new \notin Spans
    BY <2>1 DEF GraphIInv, SpansInv
  <2> HIDE DEF new
  <2>4. Cardinality(Spans') = n
    BY <2>1, <2>2, <2>3, FS_AddElement
  <2>5. IsFiniteSet(waiting') /\ IsFiniteSet(counted') /\ waiting' \cap counted' = {}
    BY <2>2, <2>3, FS_AddElement DEF GraphIInv, SpansInv, Spans
  <2>. QED
    BY <1>1, <1>4, <2>1, <2>2, <2>3, <2>4, <2>5, ServiceGraphAssumption DEF GraphIInv, SpansInv
<1>. QED
  BY <1>2, <1>3, <1>4, <1>b DEF GraphIInv

\* Its buckets hold the spans of the window of an edge.
LEMMA RingIsWindow ==
  ASSUME GraphIInv, NEW e \in Links, NEW bucket, NEW all \in SUBSET counted, Keeps(bucket, all, e, lastSec[e])
  PROVE  Total(bucket) = Cardinality({s \in all : s.link = e /\ s.sec + Window > lastSec[e]})
<1> DEFINE A == {s \in all : s.link = e /\ s.sec + Window > lastSec[e]}
           S == 0..(Window - 1)
           key == [s \in A |-> s.sec % Window]
<1>1. IsFiniteSet(S) /\ IsFiniteSet(A)
  <2>1. IsFiniteSet(S)
    <3>1. 0 \in Int /\ Window - 1 \in Int
      BY ServiceGraphAssumption
    <3>. QED
      BY <3>1, FS_Interval
  <2>2. A \subseteq counted /\ IsFiniteSet(counted)
    BY DEF GraphIInv, SpansInv
  <2>3. IsFiniteSet(A)
    BY <2>2, FS_Subset
  <2>. QED
    BY <2>1, <2>3
<1>2. \A s \in A : key[s] \in S
  BY ModRange, ServiceGraphAssumption DEF GraphIInv, SpansInv, Spans
<1>3. ASSUME NEW i \in S PROVE bucket[i] = Cardinality(Having(A, key, i))
  <2>1. InRing(all, e, i, lastSec[e]) = Having(A, key, i)
    BY DEF InRing, Having
  <2>. QED
    BY <2>1 DEF Keeps
<1>4. Total(bucket) = Sum(bucket, S)
  BY SumIsSum DEF Total, Keeps
<1> HIDE DEF A, S, key
<1>5. Sum(bucket, S) = Cardinality(A)
  <2>1. \A i \in S : bucket[i] = Cardinality(Having(A, key, i))
    BY <1>3
  <2>. QED
    BY <1>1, <1>2, <2>1, SumOfParts
<1>. QED
  BY <1>4, <1>5 DEF A, S

\* The rings are as they should be all the time.
LEMMA RingsKeep == SgSpec => []GraphIInv
<1>1. SgInit => GraphIInv
  <2> SUFFICES ASSUME SgInit PROVE GraphIInv
    OBVIOUS
  <2>1. /\ second = 1 /\ waiting = {} /\ looking = 0 /\ counted = {} /\ Spans = {} /\ Wrong(counted) = {}
        /\ lastSec \in [Links -> Nat] /\ \A e \in Links : lastSec[e] = 0
        /\ reqs = [e \in Links |-> Zero] /\ errs = [e \in Links |-> Zero]
        /\ Zero \in [0..(Window - 1) -> Nat] /\ \A i \in 0..(Window - 1) : Zero[i] = 0
    BY DEF SgInit, Spans, Wrong, Zero
  <2>2. \A e, i, last : InRing({}, e, i, last) = {}
    BY DEF InRing
  <2>3. \A e, last : Keeps(Zero, {}, e, last)
    BY <2>1, <2>2, FS_EmptySet DEF Keeps
  <2>4. SpansInv
    BY <2>1, FS_EmptySet DEF SpansInv
  <2>5. RingsInv
    <3>1. /\ reqs \in [Links -> [0..(Window - 1) -> Nat]] /\ errs \in [Links -> [0..(Window - 1) -> Nat]]
          /\ \A e \in Links : reqs[e] = Zero /\ errs[e] = Zero
      BY <2>1
    <3>2. \A e \in Links : /\ Keeps(reqs[e], counted, e, lastSec[e])
                          /\ Keeps(errs[e], Wrong(counted), e, lastSec[e])
      BY <2>1, <2>3, <3>1, Zenon
    <3>3. lastSec \in [Links -> Nat] /\ \A e \in Links : lastSec[e] <= second
      BY <2>1
    <3>4. \A s \in counted : s.sec <= lastSec[s.link]
      BY <2>1
    <3>. QED
      BY <3>1, <3>2, <3>3, <3>4 DEF RingsInv
  <2>. QED
    BY <2>4, <2>5 DEF GraphIInv
<1>2. GraphIInv /\ [SgNext]_gVars => GraphIInv'
  <2> SUFFICES ASSUME GraphIInv, [SgNext]_gVars PROVE GraphIInv'
    OBVIOUS
  <2>1. CASE UNCHANGED gVars
    BY <2>1 DEF GraphIInv, SpansInv, RingsInv, Spans, gVars
  <2>2. CASE SgNext
    BY <2>2, RecordStep, SnapshotStep, ClockStep DEF SgNext
  <2>. QED
    BY <2>1, <2>2
<1>. QED
  BY <1>1, <1>2, PTL DEF SgSpec

\* The ring of every edge holds the spans of its window, whatever order spans and
\* snapshots reach it in.
THEOREM WindowHolds == SgSpec => []WindowIsExact
<1>1. GraphIInv => WindowIsExact
  <2> SUFFICES ASSUME GraphIInv, NEW e \in Links
               PROVE  LET recent == {s \in counted : s.link = e /\ s.sec + Window > lastSec[e]}
                      IN  /\ Total(reqs[e]) = Cardinality(recent)
                          /\ Total(errs[e]) = Cardinality({s \in recent : s.bad})
    BY DEF WindowIsExact
  <2> DEFINE recent == {s \in counted : s.link = e /\ s.sec + Window > lastSec[e]}
  <2>1. /\ Keeps(reqs[e], counted, e, lastSec[e]) /\ Keeps(errs[e], Wrong(counted), e, lastSec[e])
        /\ counted \in SUBSET counted /\ Wrong(counted) \in SUBSET counted
    BY DEF GraphIInv, RingsInv, Wrong
  <2>2. {s \in recent : s.bad} = {s \in Wrong(counted) : s.link = e /\ s.sec + Window > lastSec[e]}
    BY DEF Wrong
  <2>. QED
    BY <2>1, <2>2, RingIsWindow
<1>. QED
  BY <1>1, RingsKeep, PTL

--------------------------------------------------------------------------------
(* The CPU rate of a container.                                              *)

\* How far the counter of a snapshot can be behind its clock: the age of the sample
\* and the time the answer took.
Lag == MaxFetch + MaxAge

\* A reading whose clock is known is of this moment or before, and what has been
\* used since is no more than the time since, and how far it was behind.
Sound(x) ==
  /\ x.now \in Nat /\ x.now <= tick
  /\ x.usage \in Nat /\ x.usage <= usage /\ usage <= x.usage + (tick - x.now) + Lag

\* Of two readings the one with the later clock has seen no more than could be
\* used in between, and how far the other was behind.
InStep(x, y) == y.now > x.now => y.usage - x.usage <= (y.now - x.now) + Lag

ReadersInv ==
  /\ tick \in Nat /\ usage \in Nat
  /\ reader \in [Readers -> [at : {"idle", "fetch", "lock"}, usage : Nat, read : Nat, now : Nat]]
  /\ sample.usage \in Nat /\ sample.at \in Nat /\ sample.usage <= usage /\ sample.at <= tick
  /\ usage <= sample.usage + (tick - sample.at)
  /\ alive => tick <= sample.at + MaxAge
  /\ \A r \in Readers : reader[r].at = "fetch" =>
       /\ reader[r].read <= tick /\ tick <= reader[r].read + MaxFetch
       /\ reader[r].usage <= usage /\ usage <= reader[r].usage + (tick - reader[r].read) + MaxAge

AnswersInv ==
  /\ \A r \in Readers : reader[r].at = "lock" => Sound(reader[r])
  /\ previous # NoReading => Sound(previous)
  /\ \A r \in Readers : reader[r].at = "lock" =>
       /\ previous # NoReading => InStep(previous, reader[r]) /\ InStep(reader[r], previous)
       /\ \A s \in Readers : reader[s].at = "lock" => InStep(reader[r], reader[s])

CpuIInv == ReadersInv /\ AnswersInv /\ CpuIsEarned

\* The container uses a core at most.
LEMMA TickStep ==
  ASSUME CpuIInv, CvTick PROVE CpuIInv'
<1>1. /\ tick' = tick + 1 /\ usage' \in Nat /\ usage <= usage' /\ usage' <= usage + 1
      /\ \A r \in Readers : reader[r].at = "fetch" => reader[r].read + MaxFetch > tick
      /\ alive => sample.at + MaxAge > tick
      /\ UNCHANGED <<sample, alive, reader, previous, cpu>>
  BY DEF CpuIInv, ReadersInv, CvTick
<1>2. ReadersInv'
  BY <1>1, CadvisorAssumption DEF CpuIInv, ReadersInv
<1>3. \A x : Sound(x) => Sound(x)'
  BY <1>1, CadvisorAssumption DEF CpuIInv, ReadersInv, Sound, Lag
<1>4. AnswersInv'
  BY <1>1, <1>3 DEF CpuIInv, AnswersInv, InStep
<1>. QED
  BY <1>1, <1>2, <1>4 DEF CpuIInv, CpuIsEarned

\* A sample of this moment is behind by nothing.
LEMMA HousekeepingStep ==
  ASSUME CpuIInv, Housekeeping PROVE CpuIInv'
<1>1. sample' = [usage |-> usage, at |-> tick] /\ UNCHANGED <<tick, usage, alive, reader, previous, cpu>>
  BY DEF Housekeeping
<1>2. ReadersInv'
  BY <1>1, CadvisorAssumption DEF CpuIInv, ReadersInv
<1>. QED
  BY <1>1, <1>2 DEF CpuIInv, AnswersInv, CpuIsEarned, Sound, InStep

\* A request has an answer with the counters of the last sample, gives up, or reads its clock.
LEMMA ReaderStep ==
  ASSUME CpuIInv, NEW r \in Readers, Fetch(r) \/ FetchFails(r) \/ Stamp(r) PROVE CpuIInv'
<1>1. /\ UNCHANGED <<tick, usage, sample, alive, previous, cpu>>
      /\ reader' \in [Readers -> [at : {"idle", "fetch", "lock"}, usage : Nat, read : Nat, now : Nat]]
      /\ \A s \in Readers \ {r} : reader'[s] = reader[s]
      /\ \/ alive /\ reader'[r].at = "fetch" /\ reader'[r].usage = sample.usage /\ reader'[r].read = tick
         \/ reader'[r].at = "idle"
         \/ /\ reader[r].at = "fetch"
            /\ reader'[r].at = "lock" /\ reader'[r].now = tick /\ reader'[r].usage = reader[r].usage
  BY DEF CpuIInv, ReadersInv, Fetch, FetchFails, Stamp, Resting
<1>2. ReadersInv'
  BY <1>1, CadvisorAssumption DEF CpuIInv, ReadersInv
<1>3. reader'[r].at = "lock" => Sound(reader'[r])
  BY <1>1, CadvisorAssumption DEF CpuIInv, ReadersInv, Sound, Lag
<1>4. ASSUME NEW x, Sound(x), reader'[r].at = "lock" PROVE InStep(x, reader'[r]) /\ InStep(reader'[r], x)
  BY <1>1, <1>4, CadvisorAssumption DEF CpuIInv, ReadersInv, Sound, InStep, Lag
<1>5. \A x : Sound(x)' <=> Sound(x)
  BY <1>1 DEF Sound
<1>6. AnswersInv'
  <2>1. \A s \in Readers : reader'[s].at = "lock" => Sound(reader'[s])
    BY <1>1, <1>3 DEF CpuIInv, AnswersInv
  <2>2. previous # NoReading => Sound(previous)
    BY DEF CpuIInv, AnswersInv
  <2>3. ASSUME NEW s \in Readers, reader'[s].at = "lock", previous # NoReading
        PROVE  InStep(previous, reader'[s]) /\ InStep(reader'[s], previous)
    BY <1>1, <1>4, <2>2, <2>3 DEF CpuIInv, AnswersInv
  <2>4. ASSUME NEW s \in Readers, reader'[s].at = "lock", NEW t \in Readers, reader'[t].at = "lock"
        PROVE  InStep(reader'[s], reader'[t])
    <3>1. CASE s = r \/ t = r
      BY <1>4, <2>1, <2>4, <3>1
    <3>2. CASE s # r /\ t # r
      BY <1>1, <2>4, <3>2 DEF CpuIInv, AnswersInv
    <3>. QED
      BY <3>1, <3>2
  <2>. QED
    BY <1>1, <1>5, <2>1, <2>2, <2>3, <2>4 DEF AnswersInv
<1>. QED
  BY <1>1, <1>2, <1>6 DEF CpuIInv, CpuIsEarned

\* A request compares with what the one before it has left.
LEMMA CompareStep ==
  ASSUME CpuIInv, NEW r \in Readers, Compare(r) PROVE CpuIInv'
<1>1. /\ UNCHANGED <<tick, usage, sample, alive>> /\ reader[r].at = "lock"
      /\ previous' = [now |-> reader[r].now, usage |-> reader[r].usage]
      /\ reader' = [reader EXCEPT ![r] = Resting]
  BY DEF Compare, Left
<1>2. /\ \A s \in Readers \ {r} : reader'[s] = reader[s]
      /\ reader'[r].at = "idle" /\ previous'.now = reader[r].now /\ previous'.usage = reader[r].usage
  BY <1>1 DEF CpuIInv, ReadersInv, Resting
<1>3. ReadersInv'
  BY <1>1, <1>2 DEF CpuIInv, ReadersInv, Resting
<1>4. AnswersInv'
  <2>1. Sound(reader[r]) /\ (Sound(previous'))
    BY <1>1, <1>2 DEF CpuIInv, AnswersInv, Sound
  <2>2. \A x : Sound(x)' <=> Sound(x)
    BY <1>1 DEF Sound
  <2>3. ASSUME NEW s \in Readers, reader'[s].at = "lock"
        PROVE  /\ Sound(reader'[s]) /\ InStep(previous', reader'[s]) /\ InStep(reader'[s], previous')
               /\ \A t \in Readers : reader'[t].at = "lock" => InStep(reader'[s], reader'[t])
    <3>1. s # r /\ reader'[s] = reader[s]
      BY <1>2, <2>3
    <3>2. InStep(reader[r], reader[s]) /\ InStep(reader[s], reader[r])
      BY <1>1, <2>3, <3>1 DEF CpuIInv, AnswersInv
    <3>3. InStep(previous', reader'[s]) /\ InStep(reader'[s], previous')
      BY <1>2, <3>1, <3>2 DEF InStep
    <3>. QED
      BY <1>2, <2>3, <3>1, <3>3 DEF CpuIInv, AnswersInv
  <2>. QED
    BY <2>1, <2>2, <2>3 DEF AnswersInv
<1>5. CpuIsEarned'
  <2> DEFINE dt   == reader[r].now - previous.now
             used == reader[r].usage - previous.usage
  <2>1. SUFFICES ASSUME cpu' # NoReading PROVE cpu'.used <= cpu'.dt + MaxFetch + MaxAge
    BY DEF CpuIsEarned
  <2>2. previous # NoReading /\ ~(dt <= 0) /\ cpu' = [used |-> IF used < 0 THEN 0 ELSE used, dt |-> dt]
    BY <2>1 DEF Compare
  <2>3. Sound(previous) /\ Sound(reader[r]) /\ InStep(previous, reader[r])
    BY <1>1, <2>2 DEF CpuIInv, AnswersInv
  <2>4. dt \in Int /\ used \in Int /\ used <= dt + Lag
    BY <2>2, <2>3 DEF Sound, InStep
  <2>. QED
    BY <2>2, <2>4, CadvisorAssumption DEF Lag
<1>. QED
  BY <1>3, <1>4, <1>5 DEF CpuIInv

\* It is so all the time.
LEMMA ReadingsKeep == CvSpec => []CpuIInv
<1>1. CvInit => CpuIInv
  BY CadvisorAssumption DEF CvInit, CpuIInv, ReadersInv, AnswersInv, CpuIsEarned, Resting
<1>2. CpuIInv /\ [CvNext]_cvVars => CpuIInv'
  <2>1. ASSUME CpuIInv, ContainerEnds \/ UNCHANGED cvVars PROVE CpuIInv'
    <3>1. UNCHANGED <<tick, usage, sample, reader, previous, cpu>> /\ (alive' => alive)
      BY <2>1 DEF ContainerEnds, cvVars
    <3>2. ReadersInv'
      BY <2>1, <3>1 DEF CpuIInv, ReadersInv
    <3>. QED
      BY <2>1, <3>1, <3>2 DEF CpuIInv, AnswersInv, CpuIsEarned, Sound, InStep
  <2>. QED
    BY <2>1, TickStep, HousekeepingStep, ReaderStep, CompareStep DEF CvNext
<1>. QED
  BY <1>1, <1>2, PTL DEF CvSpec

\* No rate is higher than one core and what the age of a sample and the way of its
\* answer add.
THEOREM CpuHolds == CvSpec => []CpuIsEarned
<1>1. CpuIInv => CpuIsEarned
  BY DEF CpuIInv
<1>. QED
  BY <1>1, ReadingsKeep, PTL

--------------------------------------------------------------------------------
(* Trace metrics: any rows, any window, any thresholds.                        *)

\* Products grow with either factor.
LEMMA ProductGrows == ASSUME NEW a \in Nat, NEW b \in Nat, NEW c \in Nat, a <= b PROVE a * c <= b * c
<1>1. PICK d \in Nat : b = a + d
  <2>. WITNESS b - a \in Nat
  <2>. QED
    OBVIOUS
<1>2. (a + d) * c = a * c + d * c /\ d * c >= 0 /\ a * c \in Int /\ d * c \in Int
  OBVIOUS
<1>. QED
  BY <1>1, <1>2

\* When a quotient exceeds a number, the dividend has one more of the divisor.
LEMMA QuotientExceeds ==
  ASSUME NEW a \in Nat, NEW b \in Nat \ {0}, NEW t \in Nat
  PROVE  a \div b > t <=> a >= (t + 1) * b
<1> DEFINE d == a \div b
           m == a % b
<1>1. d \in Nat /\ a = d * b + m /\ m \in 0..(b - 1)
  BY ModOf, ModRange
<1> HIDE DEF d, m
<1>2. CASE d > t
  <2>1. (t + 1) * b <= d * b
    BY <1>1, <1>2, ProductGrows
  <2>. QED
    BY <1>1, <1>2, <2>1 DEF d
<1>3. CASE d <= t
  <2>1. (d + 1) * b <= (t + 1) * b /\ (d + 1) * b = d * b + b
    BY <1>1, <1>3, ProductGrows
  <2>. QED
    BY <1>1, <1>3, <2>1 DEF d
<1>. QED
  BY <1>1, <1>2, <1>3

\* A value between two others, in hundredths, is no less than the one and no
\* greater than the other.
LEMMA Mixed ==
  ASSUME NEW a \in Nat, NEW b \in Nat, a <= b, NEW w \in Nat, w <= 100
  PROVE  100 * a <= a * (100 - w) + b * w /\ a * (100 - w) + b * w <= 100 * b
<1>1. 100 - w \in Nat
  OBVIOUS
<1>2. a * (100 - w) <= b * (100 - w) /\ a * w <= b * w
  BY <1>1, ProductGrows
<1>3. a * (100 - w) + a * w = 100 * a /\ b * (100 - w) + b * w = 100 * b
  OBVIOUS
<1>. QED
  BY <1>1, <1>2, <1>3

\* The greater the weight of the greater value, the greater the mixture.
LEMMA MixedGrows ==
  ASSUME NEW a \in Nat, NEW b \in Nat, a <= b, NEW w \in Nat, NEW x \in Nat, w <= x, x <= 100
  PROVE  a * (100 - w) + b * w <= a * (100 - x) + b * x
<1>1. x - w \in Nat /\ 100 - x \in Nat
  OBVIOUS
<1>2. a * (x - w) <= b * (x - w)
  BY <1>1, ProductGrows
<1>3. a * (100 - w) = a * (100 - x) + a * (x - w) /\ b * x = b * w + b * (x - w)
  OBVIOUS
<1>. QED
  BY <1>1, <1>2, <1>3

\* Linear interpolation at r hundredths above the first of n values.
Interpolated(s, n, r) ==
  LET low == r \div 100 + 1
      high == IF low < n THEN low + 1 ELSE low
  IN s[low] * (100 - (r % 100)) + s[high] * (r % 100)

Ascending(s, n) == s \in [1..n -> Nat] /\ \A k, l \in 1..n : k <= l => s[k] <= s[l]

\* It follows the values: it starts with the first, ends with the last, and never
\* descends.
LEMMA InterpolationGrows ==
  ASSUME NEW n \in Nat \ {0}, NEW s, Ascending(s, n)
  PROVE  /\ \A r \in 0..(100 * (n - 1)) : Interpolated(s, n, r) \in Nat
         /\ Interpolated(s, n, 0) = 100 * s[1]
         /\ Interpolated(s, n, 100 * (n - 1)) = 100 * s[n]
         /\ \A r, t \in 0..(100 * (n - 1)) : r <= t => Interpolated(s, n, r) <= Interpolated(s, n, t)
<1> DEFINE D    == 0..(100 * (n - 1))
           low  == [r \in D |-> r \div 100 + 1]
           high == [r \in D |-> IF low[r] < n THEN low[r] + 1 ELSE low[r]]
           w    == [r \in D |-> r % 100]
           at   == [r \in D |-> Interpolated(s, n, r)]
<1>1. ASSUME NEW r \in D
      PROVE  /\ r \in Nat /\ low[r] \in 1..n /\ high[r] \in 1..n /\ low[r] <= high[r]
             /\ w[r] \in Nat /\ w[r] <= 99 /\ r = 100 * (low[r] - 1) + w[r]
             /\ low[r] = n => w[r] = 0
             /\ low[r] < n => high[r] = low[r] + 1
             /\ low[r] = n => high[r] = n
  <2>1. (r \div 100) \in Nat /\ r = 100 * (r \div 100) + (r % 100) /\ (r % 100) \in 0..99
    OBVIOUS
  <2>. QED
    BY <2>1
<1>2. \A k \in 1..n : s[k] \in Nat
  BY DEF Ascending
<1>3. ASSUME NEW r \in D PROVE at[r] = s[low[r]] * (100 - w[r]) + s[high[r]] * w[r]
  BY DEF Interpolated
<1> HIDE DEF D, low, high, w, at
<1>4. ASSUME NEW r \in D
      PROVE  s[low[r]] \in Nat /\ s[high[r]] \in Nat /\ s[low[r]] <= s[high[r]] /\ w[r] <= 100
  BY <1>1, <1>2 DEF Ascending
<1>5. ASSUME NEW r \in D
      PROVE  at[r] \in Nat /\ 100 * s[low[r]] <= at[r] /\ at[r] <= 100 * s[high[r]]
  <2>1. 100 * s[low[r]] <= at[r] /\ at[r] <= 100 * s[high[r]]
    <3>1. PICK a \in Nat, b \in Nat, x \in Nat : a = s[low[r]] /\ b = s[high[r]] /\ x = w[r]
      BY <1>1, <1>4
    <3>2. 100 * a <= a * (100 - x) + b * x /\ a * (100 - x) + b * x <= 100 * b
      BY <1>4, <3>1, Mixed
    <3>. QED
      BY <1>3, <3>1, <3>2
  <2>2. at[r] \in Int
    BY <1>1, <1>3, <1>4
  <2>. QED
    BY <1>4, <2>1, <2>2
<1>6. ASSUME NEW r \in D, NEW t \in D, r <= t PROVE at[r] <= at[t]
  <2>1. low[r] <= low[t]
    BY <1>1, <1>6
  <2>2. CASE low[r] = low[t]
    <3>1. w[r] <= w[t]
      BY <1>1, <1>6, <2>2
    <3>2. high[r] = high[t]
      BY <2>2 DEF high
    <3>3. PICK a \in Nat, b \in Nat, x \in Nat, y \in Nat :
            a = s[low[r]] /\ b = s[high[r]] /\ x = w[r] /\ y = w[t]
      BY <1>1, <1>4
    <3>4. a * (100 - x) + b * x <= a * (100 - y) + b * y
      BY <1>4, <3>1, <3>3, MixedGrows
    <3>. QED
      BY <1>3, <2>2, <3>2, <3>3, <3>4
  <2>3. CASE low[r] < low[t]
    <3>1. high[r] <= low[t]
      BY <1>1, <2>3
    <3>2. s[high[r]] <= s[low[t]]
      BY <1>1, <3>1 DEF Ascending
    <3>. QED
      BY <1>4, <1>5, <3>2
  <2>. QED
    BY <1>1, <2>1, <2>2, <2>3
<1>7. 0 \in D /\ at[0] = 100 * s[1]
  <2>1. 0 \in D
    BY DEF D
  <2>2. low[0] = 1 /\ w[0] = 0
    BY <1>1, <2>1
  <2>. QED
    BY <1>3, <1>4, <2>1, <2>2
<1>8. 100 * (n - 1) \in D /\ at[100 * (n - 1)] = 100 * s[n]
  <2>1. PICK top \in D : top = 100 * (n - 1)
    BY DEF D
  <2>2. low[top] = n /\ w[top] = 0
    BY <1>1, <2>1
  <2>. QED
    BY <1>3, <1>4, <2>1, <2>2
<1>. QED
  BY <1>5, <1>6, <1>7, <1>8 DEF at, D

\* Rows that can be compared: places with a value each.
Comparable(v) == v \in SUBSET Nat /\ IsFiniteSet(v) /\ \A i \in v : traces[i].total \in Nat

NoLater(v, i) == {j \in v : traces[j].total < traces[i].total \/ (traces[j].total = traces[i].total /\ j <= i)}

\* Every row has a place of its own in the order of the values.
LEMMA RankIsPlace ==
  ASSUME NEW v, Comparable(v)
  PROVE  /\ \A i \in v : Rank(v, i) \in 1..Cardinality(v)
         /\ \A i, j \in v : Rank(v, i) <= Rank(v, j) => traces[i].total <= traces[j].total
         /\ \A i, j \in v : Rank(v, i) = Rank(v, j) => i = j
         /\ \A k \in 1..Cardinality(v) : \E i \in v : Rank(v, i) = k
<1> DEFINE n == Cardinality(v)
           rank == [i \in v |-> Cardinality(NoLater(v, i))]
           total == [i \in v |-> traces[i].total]
           Ranks == {rank[i] : i \in v}
<1>1. /\ n \in Nat /\ total \in [v -> Nat] /\ \A i \in v : i \in Nat
      /\ \A i \in v : NoLater(v, i) \subseteq v /\ IsFiniteSet(NoLater(v, i))
  BY FS_CardinalityType, FS_Subset DEF Comparable, NoLater
<1>2. ASSUME NEW i \in v
      PROVE  /\ i \in NoLater(v, i)
             /\ \A j \in v : j \in NoLater(v, i) <=> total[j] < total[i] \/ (total[j] = total[i] /\ j <= i)
  BY <1>1, <1>2 DEF NoLater
<1>3. ASSUME NEW i \in v PROVE rank[i] \in 1..n
  <2>1. rank[i] \in Nat /\ rank[i] <= n
    BY <1>1, FS_Subset, FS_CardinalityType DEF Comparable
  <2>2. rank[i] # 0
    BY <1>1, <1>2, FS_EmptySet
  <2>. QED
    BY <1>1, <2>1, <2>2
<1>4. ASSUME NEW i \in v, NEW j \in v, i # j, total[i] < total[j] \/ (total[i] = total[j] /\ i <= j)
      PROVE  rank[i] < rank[j]
  <2>1. NoLater(v, i) \subseteq NoLater(v, j)
    <3>1. ASSUME NEW k \in v, k \in NoLater(v, i) PROVE k \in NoLater(v, j)
      <4>1. total[k] < total[i] \/ (total[k] = total[i] /\ k <= i)
        BY <1>2, <3>1
      <4>2. total[k] < total[j] \/ (total[k] = total[j] /\ k <= j)
        BY <1>1, <1>4, <4>1
      <4>. QED
        BY <1>2, <4>2
    <3>. QED
      BY <1>1, <3>1
  <2>2. j \in NoLater(v, j) /\ j \notin NoLater(v, i)
    BY <1>1, <1>2, <1>4
  <2>3. rank[i] <= rank[j] /\ rank[i] # rank[j]
    BY <1>1, <2>1, <2>2, FS_Subset
  <2>. QED
    BY <1>1, <1>3, <2>3
<1> HIDE DEF n, rank, total
<1>5. ASSUME NEW i \in v, NEW j \in v PROVE rank[i] <= rank[j] => total[i] <= total[j]
  BY <1>1, <1>3, <1>4
<1>6. ASSUME NEW i \in v, NEW j \in v, rank[i] = rank[j] PROVE i = j
  BY <1>1, <1>3, <1>4, <1>6
<1>7. Ranks = 1..n
  <2>1. Ranks \subseteq 1..n /\ IsFiniteSet(1..n) /\ Cardinality(1..n) = n
    <3>1. n \in Int /\ 1 \in Int /\ (1 > n => n = 0) /\ n - 1 + 1 = n
      BY <1>1
    <3>2. IsFiniteSet(1..n) /\ Cardinality(1..n) = n
      BY <3>1, FS_Interval
    <3>. QED
      BY <1>3, <3>2
  <2>2. IsFiniteSet(Ranks)
    BY <2>1, FS_Subset
  <2>3. rank \in Injection(v, Ranks)
    BY <1>6 DEF Injection, IsInjective, rank
  <2>4. n <= Cardinality(Ranks)
    BY <2>2, <2>3, FS_Injection DEF n, Comparable
  <2>. QED
    <3>1. Cardinality(Ranks) <= n /\ (n = Cardinality(Ranks) => Ranks = 1..n)
      BY <2>1, FS_Subset
    <3>2. Cardinality(Ranks) \in Nat
      BY <2>2, FS_CardinalityType
    <3>. QED
      BY <1>1, <2>4, <3>1, <3>2
<1>8. \A i \in v : Rank(v, i) = rank[i] /\ total[i] = traces[i].total
  BY DEF rank, total, Rank, NoLater
<1>. QED
  BY <1>3, <1>5, <1>6, <1>7, <1>8 DEF n

\* The values in their order: each is that of a row, and each row has one.
LEMMA SortedIs ==
  ASSUME NEW v, Comparable(v)
  PROVE  /\ Ascending(Sorted(v), Cardinality(v))
         /\ \A k \in 1..Cardinality(v) : \E i \in v : Sorted(v)[k] = traces[i].total
         /\ \A i \in v : \E k \in 1..Cardinality(v) : Sorted(v)[k] = traces[i].total
<1> DEFINE n == Cardinality(v)
           row(k) == CHOOSE i \in v : Rank(v, i) = k
<1>1. n \in Nat /\ \A i \in v : traces[i].total \in Nat /\ Rank(v, i) \in 1..n
  BY RankIsPlace, FS_CardinalityType DEF Comparable
<1>2. ASSUME NEW k \in 1..n PROVE row(k) \in v /\ Rank(v, row(k)) = k /\ Sorted(v)[k] = traces[row(k)].total
  BY RankIsPlace, <1>2 DEF Sorted
<1>3. ASSUME NEW i \in v PROVE row(Rank(v, i)) = i
  BY RankIsPlace, <1>1, <1>2, <1>3
<1>4. Sorted(v) = [k \in 1..n |-> traces[row(k)].total]
  BY DEF Sorted
<1> HIDE DEF n, row
<1>5. Sorted(v) \in [1..n -> Nat]
  BY <1>1, <1>2, <1>4
<1>6. ASSUME NEW k \in 1..n, NEW l \in 1..n, k <= l PROVE Sorted(v)[k] <= Sorted(v)[l]
  BY RankIsPlace, <1>2, <1>6
<1>. QED
  BY <1>1, <1>2, <1>3, <1>5, <1>6 DEF Ascending, n

\* A quantile is the sorted values interpolated.
LEMMA PctIs ==
  ASSUME NEW v, Comparable(v), v # {}, NEW p \in 0..100
  PROVE  /\ (Cardinality(v) - 1) * p \in 0..(100 * (Cardinality(v) - 1))
         /\ Pct(v, p) = Interpolated(Sorted(v), Cardinality(v), (Cardinality(v) - 1) * p)
<1>1. Cardinality(v) - 1 \in Nat
  BY FS_CardinalityType, FS_EmptySet DEF Comparable
<1>2. (Cardinality(v) - 1) * p >= 0 /\ (Cardinality(v) - 1) * p <= 100 * (Cardinality(v) - 1)
      /\ (Cardinality(v) - 1) * p \in Int
  <2>1. PICK m \in Nat : m = Cardinality(v) - 1
    BY <1>1
  <2>2. p * m <= 100 * m /\ 0 <= p * m
    BY ProductGrows
  <2>. QED
    BY <2>1, <2>2
<1>3. Pct(v, p) = Interpolated(Sorted(v), Cardinality(v), (Cardinality(v) - 1) * p)
  BY Zenon DEF Pct, Interpolated
<1>. QED
  BY <1>2, <1>3

\* Quantiles are in order, and lie between the least value and the greatest.
LEMMA PctOrder ==
  ASSUME NEW v, Comparable(v), v # {}
  PROVE  /\ \A p \in 0..100 : Pct(v, p) \in Nat
         /\ \A p, q \in 0..100 : p <= q => Pct(v, p) <= Pct(v, q)
         /\ \A i \in v : Pct(v, 0) <= 100 * traces[i].total /\ 100 * traces[i].total <= Pct(v, 100)
         /\ \E i \in v : Pct(v, 100) = 100 * traces[i].total
<1> DEFINE n == Cardinality(v)
           s == Sorted(v)
           rank(p) == (n - 1) * p
<1>1. n \in Nat \ {0} /\ Ascending(s, n)
  BY SortedIs, FS_CardinalityType, FS_EmptySet DEF Comparable
<1>2. \A p \in 0..100 : rank(p) \in 0..(100 * (n - 1)) /\ Pct(v, p) = Interpolated(s, n, rank(p))
  BY PctIs
<1>3. \A i \in v : traces[i].total \in Nat /\ \E k \in 1..n : s[k] = traces[i].total
  BY SortedIs DEF Comparable
<1>4. \A k \in 1..n : s[k] \in Nat /\ \E i \in v : s[k] = traces[i].total
  BY <1>1, SortedIs DEF Ascending
<1>5. ASSUME NEW p \in 0..100, NEW q \in 0..100, p <= q PROVE rank(p) <= rank(q)
  <2>1. PICK m \in Nat : m = n - 1
    BY <1>1
  <2>2. p * m <= q * m
    BY <1>5, ProductGrows
  <2>. QED
    BY <2>1, <2>2
<1>6. rank(0) = 0 /\ rank(100) = 100 * (n - 1)
  BY <1>1
<1> HIDE DEF n, s, rank
<1>7. /\ \A r \in 0..(100 * (n - 1)) : Interpolated(s, n, r) \in Nat
      /\ Interpolated(s, n, 0) = 100 * s[1]
      /\ Interpolated(s, n, 100 * (n - 1)) = 100 * s[n]
      /\ \A r, t \in 0..(100 * (n - 1)) : r <= t => Interpolated(s, n, r) <= Interpolated(s, n, t)
  BY <1>1, InterpolationGrows
<1>8. Pct(v, 0) = 100 * s[1] /\ Pct(v, 100) = 100 * s[n]
  BY <1>2, <1>6, <1>7
<1>9. \A k \in 1..n : s[1] <= s[k] /\ s[k] <= s[n]
  BY <1>1 DEF Ascending
<1>10. \A i \in v : Pct(v, 0) <= 100 * traces[i].total /\ 100 * traces[i].total <= Pct(v, 100)
  <2>1. SUFFICES ASSUME NEW i \in v PROVE Pct(v, 0) <= 100 * traces[i].total /\ 100 * traces[i].total <= Pct(v, 100)
    OBVIOUS
  <2>2. PICK k \in 1..n : s[k] = traces[i].total
    BY <1>3, <2>1
  <2>3. s[1] \in Nat /\ s[n] \in Nat /\ s[k] \in Nat
    BY <1>1, <1>4
  <2>. QED
    BY <1>8, <1>9, <2>2, <2>3
<1>11. \E i \in v : Pct(v, 100) = 100 * traces[i].total
  BY <1>1, <1>4, <1>8
<1>12. \A p \in 0..100 : Pct(v, p) \in Nat
  BY <1>2, <1>7
<1>13. \A p, q \in 0..100 : p <= q => Pct(v, p) <= Pct(v, q)
  BY <1>2, <1>5, <1>7
<1>. QED
  BY <1>10, <1>11, <1>12, <1>13

\* A value beyond a threshold is beyond it in hundredths, and the converse.
LEMMA AtLeastAsSevere ==
  ASSUME NEW a \in Nat, NEW b \in Nat, NEW warns \in Nat, NEW critical \in Nat, a >= b
  PROVE  /\ Severity(a, warns, critical) \in 0..2 /\ Severity(b, warns, critical) \in 0..2
         /\ warns <= critical => Severity(a, warns, critical) >= Severity(b, warns, critical)
  BY DEF Severity

\* If more than t in a hundred rows failed, it was so in one of the groups.
LEMMA SomeGroupIsAsBad ==
  ASSUME NEW rows, IsFiniteSet(rows), NEW t \in Nat, ErrorRate(rows) > t
  PROVE  \E g \in Groups(rows) : ErrorRate(RowsOfGroup(rows, g)) > t
<1> DEFINE Of(G) == {i \in rows : traces[i].endpoint \in G}
           Few(R) == 100 * Cardinality(NotOk(R)) < (t + 1) * Cardinality(R)
           Good == {G \in SUBSET Groups(rows) : G = {} \/ Few(Of(G))}
<1>1. ASSUME NEW R \in SUBSET rows
      PROVE  /\ IsFiniteSet(R) /\ IsFiniteSet(NotOk(R))
             /\ Cardinality(R) \in Nat /\ Cardinality(NotOk(R)) \in Nat
  <2>1. IsFiniteSet(R) /\ NotOk(R) \subseteq R
    BY FS_Subset DEF NotOk
  <2>. QED
    BY <2>1, FS_Subset, FS_CardinalityType
<1>2. ASSUME NEW R \in SUBSET rows, R # {} PROVE ErrorRate(R) > t <=> ~Few(R)
  <2>1. PICK a \in Nat, b \in Nat : a = Cardinality(NotOk(R)) /\ b = Cardinality(R)
    BY <1>1
  <2>2. b # 0
    BY <1>1, <1>2, <2>1, FS_EmptySet
  <2>3. ErrorRate(R) = (100 * a) \div b
    BY <1>2, <2>1 DEF ErrorRate
  <2>4. (100 * a) \div b > t <=> 100 * a >= (t + 1) * b
    BY <2>2, QuotientExceeds
  <2>. QED
    BY <2>1, <2>3, <2>4
<1>21. ASSUME NEW A \in SUBSET rows, NEW B \in SUBSET rows, A \cap B = {}
       PROVE  Cardinality(A \cup B) = Cardinality(A) + Cardinality(B)
  <2>1. Cardinality(A \cup B) = Cardinality(A) + Cardinality(B) - Cardinality(A \cap B)
    BY <1>1, FS_Union
  <2>2. Cardinality(A \cap B) = 0
    BY <1>21, FS_EmptySet
  <2>3. Cardinality(A) \in Nat /\ Cardinality(B) \in Nat
    BY <1>1
  <2>. QED
    BY <2>1, <2>2, <2>3
<1>3. rows # {}
  BY DEF ErrorRate
<1>4. IsFiniteSet(Groups(rows))
  <2>1. [i \in rows |-> traces[i].endpoint] \in Surjection(rows, Groups(rows))
    BY DEF Surjection, Groups
  <2>. QED
    BY <2>1, FS_Surjection
<1>5. ASSUME \A g \in Groups(rows) : Few(RowsOfGroup(rows, g)) PROVE \A G \in SUBSET Groups(rows) : G \in Good
  <2>1. ASSUME NEW G \in SUBSET Groups(rows), \A g \in G : G \ {g} \in Good PROVE G \in Good
    <3>1. CASE G = {}
      BY <3>1
    <3>2. ASSUME NEW g \in G PROVE Few(Of(G))
      <4> DEFINE A == RowsOfGroup(rows, g)
                 B == Of(G \ {g})
      <4>1. /\ A \in SUBSET rows /\ B \in SUBSET rows /\ Of(G) \in SUBSET rows
            /\ Of(G) = A \cup B /\ A \cap B = {}
            /\ NotOk(Of(G)) = NotOk(A) \cup NotOk(B) /\ NotOk(A) \cap NotOk(B) = {}
        BY <3>2 DEF RowsOfGroup, NotOk
      <4>2. Cardinality(Of(G)) = Cardinality(A) + Cardinality(B)
        BY <1>21, <4>1
      <4>3. Cardinality(NotOk(Of(G))) = Cardinality(NotOk(A)) + Cardinality(NotOk(B))
        BY <1>21, <4>1 DEF NotOk
      <4>4. Few(A)
        BY <1>5, <3>2
      <4>5. G \ {g} = {} \/ Few(B)
        BY <2>1, <3>2
      <4>6. CASE G \ {g} = {}
        <5>1. B = {} /\ NotOk(B) = {}
          BY <4>6 DEF NotOk
        <5>2. Of(G) = A
          BY <4>1, <5>1
        <5>. QED
          BY <4>4, <5>2
      <4>7. CASE Few(B)
        <5>1. PICK a \in Nat, b \in Nat, c \in Nat, d \in Nat :
                /\ a = Cardinality(NotOk(A)) /\ b = Cardinality(A)
                /\ c = Cardinality(NotOk(B)) /\ d = Cardinality(B)
          BY <1>1, <4>1
        <5>2. 100 * a < (t + 1) * b /\ 100 * c < (t + 1) * d
          BY <4>4, <4>7, <5>1
        <5>3. (t + 1) * (b + d) = (t + 1) * b + (t + 1) * d /\ (t + 1) * b \in Int /\ (t + 1) * d \in Int
          OBVIOUS
        <5>4. 100 * (a + c) < (t + 1) * (b + d)
          BY <5>2, <5>3
        <5>. QED
          BY <4>2, <4>3, <5>1, <5>4
      <4>. QED
        BY <4>5, <4>6, <4>7
    <3>. QED
      BY <3>1, <3>2
  <2> HIDE DEF Good
  <2>2. Good \in SUBSET (SUBSET Groups(rows))
    BY DEF Good
  <2>. QED
    BY <1>4, <2>1, <2>2, EveryFiniteSet
<1>6. PICK g \in Groups(rows) : ~Few(RowsOfGroup(rows, g))
  <2>1. SUFFICES ASSUME \A g \in Groups(rows) : Few(RowsOfGroup(rows, g)) PROVE FALSE
    OBVIOUS
  <2>2. Groups(rows) \in Good
    BY <1>5, <2>1
  <2>3. Of(Groups(rows)) = rows /\ Groups(rows) # {}
    BY <1>3 DEF Groups
  <2>. QED
    BY <1>2, <1>3, <2>2, <2>3
<1>7. RowsOfGroup(rows, g) \in SUBSET rows /\ RowsOfGroup(rows, g) # {}
  BY <1>6 DEF RowsOfGroup, Groups
<1>. QED
  BY <1>2, <1>6, <1>7

\* The rows that are read are rows, and those with a value can be compared.
LEMMA RowsAre ==
  ASSUME MtTypeOK
  PROVE  IsFiniteSet(Rows) /\ Comparable(Collected(Rows))
<1>1. Len(traces) \in Nat /\ \A i \in 1..Len(traces) : traces[i] \in TraceRow
  BY DEF MtTypeOK
<1>2. PICK n \in Nat : Rows = 1..n /\ n <= Len(traces)
  BY <1>1, TraceMetricsAssumption DEF Rows
<1>3. IsFiniteSet(Rows)
  BY <1>2, FS_Interval
<1>4. Collected(Rows) \in SUBSET Nat /\ IsFiniteSet(Collected(Rows))
  BY <1>2, <1>3, FS_Subset DEF Collected
<1>5. ASSUME NEW i \in Collected(Rows) PROVE traces[i].total \in Nat
  <2>1. traces[i] \in TraceRow /\ traces[i].total # NoLatency
    BY <1>1, <1>2, <1>5 DEF Collected
  <2>2. traces[i].total \in Latencies
    BY <2>1 DEF TraceRow
  <2>. QED
    BY <2>2, TraceMetricsAssumption
<1>. QED
  BY <1>3, <1>4, <1>5 DEF Comparable

\* Rows that arrive and rows that leave are rows of the window.
LEMMA TracesKeep == MtSpec => []MtTypeOK
<1>1. MtInit => MtTypeOK
  <2>1. <<>> \in Seq(TraceRow) /\ 0 \in 0..MaxRows
    BY TraceMetricsAssumption
  <2>. QED
    BY <2>1 DEF MtInit, MtTypeOK
<1>2. MtTypeOK /\ [MtNext]_mtVars => MtTypeOK'
  <2>1. CASE UNCHANGED mtVars
    BY <2>1 DEF mtVars, MtTypeOK
  <2>2. ASSUME MtTypeOK, TraceExpires PROVE MtTypeOK'
    BY <2>2 DEF TraceExpires, MtTypeOK
  <2>3. ASSUME MtTypeOK, NEW r \in TraceRow, TraceArrives(r) PROVE MtTypeOK'
    <3>1. traces \in Seq(TraceRow) /\ inserted \in 0..MaxRows /\ MaxRows \in Nat
      BY <2>3, TraceMetricsAssumption DEF MtTypeOK
    <3>2. <<r>> \o traces \in Seq(TraceRow)
      BY <3>1
    <3>. QED
      BY <2>3, <3>1, <3>2 DEF TraceArrives, MtTypeOK
  <2>. QED
    BY <2>1, <2>2, <2>3 DEF MtNext
<1>. QED
  BY <1>1, <1>2, PTL DEF MtSpec

\* Of any rows with any thresholds quantiles are in order, and an alert on the
\* whole names an endpoint and a request that are at least as bad (Pct, groupStats,
\* evaluateAlerts).
THEOREM AggregatesHold == MtSpec => []AggregatesInv
<1>1. MtTypeOK => ErrorHasCulprit
  <2> SUFFICES ASSUME MtTypeOK, RateAlert(Rows) > 0
               PROVE  \E g \in Groups(Rows) : RateAlert(RowsOfGroup(Rows, g)) >= RateAlert(Rows)
    BY DEF ErrorHasCulprit
  <2>1. PICK t \in Nat : /\ ErrorRate(Rows) > t
                         /\ \A R : ErrorRate(R) > t => RateAlert(R) >= RateAlert(Rows)
    BY TraceMetricsAssumption DEF RateAlert, Severity
  <2>2. \E g \in Groups(Rows) : ErrorRate(RowsOfGroup(Rows, g)) > t
    BY <2>1, RowsAre, SomeGroupIsAsBad
  <2>. QED
    BY <2>1, <2>2
<1>2. MtTypeOK => QuantilesAreInOrder
  <2> SUFFICES ASSUME MtTypeOK, Collected(Rows) # {}
               PROVE  LET v == Collected(Rows) IN
                      /\ \A i \in v : Pct(v, 0) <= 100 * traces[i].total /\ 100 * traces[i].total <= Pct(v, 100)
                      /\ \A p, q \in {0, 50, 95, 99, 100} : p <= q => Pct(v, p) <= Pct(v, q)
                      /\ LatencyAlert(Rows) > 0 =>
                           \E i \in v : Severity(traces[i].total, LatencyWarns, LatencyIsCritical) >= LatencyAlert(Rows)
    BY DEF QuantilesAreInOrder
  <2> DEFINE v == Collected(Rows)
  <2>1. Comparable(v) /\ v # {}
    BY RowsAre
  <2>2. LatencyAlert(Rows) = Severity(Pct(v, 95), 100 * LatencyWarns, 100 * LatencyIsCritical)
    BY DEF LatencyAlert
  <2>3. \A i \in v : traces[i].total \in Nat
    BY <2>1 DEF Comparable
  <2> HIDE DEF v
  <2>4. /\ \A p \in 0..100 : Pct(v, p) \in Nat
        /\ \A p, q \in 0..100 : p <= q => Pct(v, p) <= Pct(v, q)
        /\ \A i \in v : Pct(v, 0) <= 100 * traces[i].total /\ 100 * traces[i].total <= Pct(v, 100)
        /\ \E i \in v : Pct(v, 100) = 100 * traces[i].total
    BY <2>1, PctOrder
  <2>5. \E i \in v : Severity(traces[i].total, LatencyWarns, LatencyIsCritical) >= LatencyAlert(Rows)
    <3>1. PICK i \in v : Pct(v, 100) = 100 * traces[i].total
      BY <2>4
    <3>2. PICK a \in Nat, b \in Nat : a = traces[i].total /\ b = Pct(v, 95) /\ b <= 100 * a
      BY <2>3, <2>4, <3>1
    <3>3. Severity(a, LatencyWarns, LatencyIsCritical) >= Severity(b, 100 * LatencyWarns, 100 * LatencyIsCritical)
      BY <3>2, TraceMetricsAssumption DEF Severity
    <3>. QED
      BY <2>2, <3>2, <3>3
  <2>6. \A p, q \in {0, 50, 95, 99, 100} : p <= q => Pct(v, p) <= Pct(v, q)
    <3>1. {0, 50, 95, 99, 100} \subseteq 0..100
      OBVIOUS
    <3>. QED
      BY <2>4, <3>1
  <2>7. \A i \in v : Pct(v, 0) <= 100 * traces[i].total /\ 100 * traces[i].total <= Pct(v, 100)
    BY <2>4
  <2>. QED
    BY <2>5, <2>6, <2>7, Zenon DEF v
<1>. QED
  BY <1>1, <1>2, TracesKeep, PTL DEF AggregatesInv

--------------------------------------------------------------------------------
(* The types of the parts.                                                   *)

\* A scenario is on its way only while there is one left.
BTypes == BTypeOK /\ \A r \in Runs : Loading(r) => done[r] < Scenarios

\* The handlers of a benchmark leave its runner at its beginning at most.
LEMMA BHandlerTypes == ASSUME BTypes, NEW r \in Runs, BHandler(r) PROVE BTypes'
<1>1. UNCHANGED <<done, cut, bCrashes>>
  BY DEF BHandler, CreateLaneCheck, CreateEndpointCheck, CreateRefused, CreateInsert, CreateLaunch, CancelRead,
         CancelFire, BCancelWrite, CancelDisconnect
<1>2. bRunner' = bRunner \/ bRunner' = [bRunner EXCEPT ![r] = "starting"]
  BY DEF BHandler, CreateLaneCheck, CreateEndpointCheck, CreateRefused, CreateInsert, CreateLaunch, CancelRead,
         CancelFire, BCancelWrite, CancelDisconnect, BGoto
<1>3. /\ \E pc \in {"idle", "lane", "checked", "inserted"} : bRequest' = bRequest \/ bRequest' = [bRequest EXCEPT ![r] = pc]
      /\ \E s \in {"queued", "cancelled"} : bStatus' = bStatus \/ bStatus' = [bStatus EXCEPT ![r] = s]
      /\ \E pc \in {"idle", "read", "fired"} : bCancel' = bCancel \/ bCancel' = [bCancel EXCEPT ![r] = pc]
      /\ cancels' \in {cancels, cancels \cup {r}} /\ ctxDone' \in {ctxDone, ctxDone \cup {r}}
  BY DEF BHandler, CreateLaneCheck, CreateEndpointCheck, CreateRefused, CreateInsert, CreateLaunch, CancelRead,
         CancelFire, BCancelWrite, CancelDisconnect, BWrite
<1>. QED
  BY <1>1, <1>2, <1>3 DEF BTypes, BTypeOK, BRunners, BActive, BTerminal, Loading

\* Its runner takes one scenario at a time.
LEMMA BRunnerTypes == ASSUME BTypes, NEW r \in Runs, BRunnerStep(r) \/ Panic(r) PROVE BTypes'
<1>1. UNCHANGED <<bRequest, ctxDone, bCancel, bCrashes>>
  BY DEF BRunnerStep, BRunnerStart, BRunnerMarked, ScenarioStart, ScenarioEnd, LoopCancelled, FinishCancelled,
         LoopFinished, SendCompleted, Completed, Panic, BRunnerExit
<1>2. /\ \E s \in {"running", "completed", "failed", "cancelled"} : bStatus' = bStatus \/ bStatus' = [bStatus EXCEPT ![r] = s]
      /\ cancels' \in {cancels, cancels \ {r}} /\ cut' \in {cut, cut \cup {r}}
  BY DEF BRunnerStep, BRunnerStart, BRunnerMarked, ScenarioStart, ScenarioEnd, LoopCancelled, FinishCancelled,
         LoopFinished, SendCompleted, Completed, Panic, BRunnerExit, BLand, BWrite
<1>3. \/ /\ \E pc \in BRunners \ {"scenario"} : bRunner' = [bRunner EXCEPT ![r] = pc]
         /\ UNCHANGED done
      \/ ScenarioStart(r) /\ bRunner' = [bRunner EXCEPT ![r] = "scenario"] /\ UNCHANGED done
      \/ ScenarioEnd(r) /\ done' = [done EXCEPT ![r] = @ + 1] /\ bRunner' = [bRunner EXCEPT ![r] = "loop"]
  BY DEF BRunnerStep, BRunnerStart, BRunnerMarked, ScenarioStart, ScenarioEnd, LoopCancelled, FinishCancelled,
         LoopFinished, SendCompleted, Completed, Panic, BRunnerExit, BGoto, BRunners
<1>4. bRunner' \in [Runs -> BRunners]
  BY <1>3 DEF BTypes, BTypeOK, BRunners
<1>5. done' \in [Runs -> 0..Scenarios] /\ \A q \in Runs : Loading(q)' => done'[q] < Scenarios
  <2>1. CASE UNCHANGED done
    BY <1>3, <2>1 DEF BTypes, BTypeOK, Loading, ScenarioStart, ScenarioEnd
  <2>2. CASE ScenarioEnd(r) /\ done' = [done EXCEPT ![r] = @ + 1] /\ bRunner' = [bRunner EXCEPT ![r] = "loop"]
    BY <2>2, ScenariosAssumption DEF BTypes, BTypeOK, Loading, ScenarioEnd
  <2>. QED
    BY <1>3, <2>1, <2>2
<1>. QED
  BY <1>1, <1>2, <1>4, <1>5 DEF BTypes, BTypeOK, BActive, BTerminal

\* The variables of a benchmark keep their types, whatever it is cancelled at.
LEMMA BenchmarkTypes == BSpec => []BTypeOK
<1>1. BInit => BTypes
  BY ScenariosAssumption, BCrashAssumption DEF BInit, BTypes, BTypeOK, BRunners, Loading
<1>2. BTypes /\ [BNext]_bVars => BTypes'
  <2>1. BTypes /\ UNCHANGED bVars => BTypes'
    BY DEF bVars, BTypes, BTypeOK, Loading
  <2>2. BTypes /\ BCrash => BTypes'
    BY BCrashAssumption DEF BCrash, BTypes, BTypeOK, BRunners, Loading
  <2>. QED
    BY <2>1, <2>2, BHandlerTypes, BRunnerTypes DEF BNext
<1>3. BTypes => BTypeOK
  BY DEF BTypes
<1>. QED
  BY <1>1, <1>2, <1>3, PTL DEF BSpec

--------------------------------------------------------------------------------
(* Direct starts of the runtime.                                             *)

\* A row is closed with a verdict.
RtTypes == RtTypeOK /\ \A m \in Manuals : mPc[m] = "closing" => mVerdict[m] # "none"

\* Whatever a call of the agent does, what is left is a container or none.
LEMMA AgentTypes ==
  ASSUME container \in Containers, NEW c \in Configs, NEW ok \in BOOLEAN,
         AgentStart(c, ok) \/ AgentStop(ok) \/ Boot \/ Die
  PROVE  container' \in Containers
<1> USE NoConfigAssumption DEF Containers, Absent
<1>1. CASE UNCHANGED container
  BY <1>1
<1>2. CASE container' = Launched(c) \/ container' \in {Absent, [state |-> "exited", cfg |-> c]}
  BY <1>2 DEF Launched
<1>3. CASE /\ container.state \in {"starting", "ready"}
           /\ \E s \in {"ready", "exited"} : container' = [container EXCEPT !.state = s]
  BY <1>3
<1>. QED
  BY <1>1, <1>2, <1>3 DEF AgentStart, AgentStop, Boot, Die, Up

\* What the agent answers of a container is a report.
LEMMA AnswerTypes ==
  /\ container \in Containers => Reports \subseteq ReportSet
  /\ container' \in Containers => Answers' \subseteq ReportSet
  BY NoConfigAssumption DEF Reports, Answers, Report, ReportSet, Unknown, Up, Containers, Absent

\* A start and its monitor.
LEMMA ManualTypes ==
  ASSUME RtTypes, NEW m \in Manuals,
         ManualLaneCheck(m, FALSE) \/ ManualStep(m) \/ ManualAbandoned(m) \/ MonitorLate(m)
  PROVE  RtTypes'
<1>1. container \in Containers /\ ManualConfig[m] \in Configs
  BY ManualConfigAssumption DEF RtTypes, RtTypeOK
<1>2. UNCHANGED <<rtStop, stopRows, rtCrashes>>
  BY DEF ManualLaneCheck, ManualStep, ManualCreate, ManualLaunch, MonitorTick, MonitorLook, ManualClose,
         ManualAbandoned, MonitorLate, stopVars
<1>3. container' \in Containers
  <2>1. UNCHANGED container \/ \E ok \in BOOLEAN : AgentStart(ManualConfig[m], ok)
    BY DEF ManualLaneCheck, ManualStep, ManualCreate, ManualLaunch, MonitorTick, MonitorLook, ManualClose,
           ManualAbandoned, MonitorLate
  <2>. QED
    BY <1>1, <2>1, AgentTypes
<1>4. Reports \subseteq ReportSet /\ Answers' \subseteq ReportSet
  BY <1>1, <1>3, AnswerTypes
<1>5. CASE ManualLaunch(m) \/ MonitorLook(m)
  <2>1. UNCHANGED <<mStatus, mLate>>
    BY <1>5 DEF ManualLaunch, MonitorLook
  <2>2. mSeen' = mSeen \/ \E rep \in ReportSet : mSeen' = [mSeen EXCEPT ![m] = rep]
    <3>1. CASE ManualLaunch(m)
      BY <1>4, <3>1 DEF ManualLaunch
    <3>2. CASE MonitorLook(m)
      <4>1. PICK rep \in Reports : mSeen' = [mSeen EXCEPT ![m] = IF rep = Unknown THEN @ ELSE rep]
        BY <3>2 DEF MonitorLook
      <4>2. mSeen[m] \in ReportSet
        BY DEF RtTypes, RtTypeOK
      <4>. QED
        BY <1>4, <4>1, <4>2
    <3>. QED
      BY <1>5, <3>1, <3>2
  <2>3. \/ \E v \in {"success", "failed"} : mVerdict' = [mVerdict EXCEPT ![m] = v] /\ mPc' = [mPc EXCEPT ![m] = "closing"]
        \/ mVerdict' = mVerdict /\ mPc' = [mPc EXCEPT ![m] = "monitoring"]
    BY <1>5 DEF ManualLaunch, MonitorLook, MGoto
  <2>. QED
    BY <1>2, <1>3, <2>1, <2>2, <2>3 DEF RtTypes, RtTypeOK
<1>6. CASE ~(ManualLaunch(m) \/ MonitorLook(m))
  <2>1. UNCHANGED <<mSeen, mVerdict>>
    BY <1>6 DEF ManualLaneCheck, ManualStep, ManualCreate, MonitorTick, ManualClose, ManualAbandoned, MonitorLate
  <2>2. /\ \/ UNCHANGED mStatus \/ mStatus' = [mStatus EXCEPT ![m] = "running"]
           \/ mPc[m] = "closing" /\ mStatus' = [mStatus EXCEPT ![m] = mVerdict[m]]
        /\ mLate' = mLate \/ mLate' = [mLate EXCEPT ![m] = TRUE]
        /\ mPc' = mPc \/ \E pc \in {"checked", "created", "done", "looking"} : mPc' = [mPc EXCEPT ![m] = pc]
    BY <1>6 DEF ManualLaneCheck, ManualStep, ManualCreate, MonitorTick, ManualClose, ManualAbandoned, MonitorLate,
                MGoto, RtWrite
  <2>3. mStatus' \in [Manuals -> {"absent", "running", "success", "failed", "rolled_back"}]
    <3>1. mPc[m] = "closing" => mVerdict[m] \in {"success", "failed"}
      BY DEF RtTypes, RtTypeOK
    <3>2. mStatus' = mStatus \/ \E s \in {"running", "success", "failed"} : mStatus' = [mStatus EXCEPT ![m] = s]
      BY <2>2, <3>1
    <3>. QED
      BY <3>2 DEF RtTypes, RtTypeOK
  <2>4. mPc' \in [Manuals -> {"idle", "checked", "created", "monitoring", "looking", "closing", "done"}]
    BY <2>2 DEF RtTypes, RtTypeOK
  <2>5. mLate' \in [Manuals -> BOOLEAN]
    BY <2>2 DEF RtTypes, RtTypeOK
  <2>6. \A k \in Manuals : mPc'[k] = "closing" => mVerdict'[k] # "none"
    BY <2>1, <2>2 DEF RtTypes, RtTypeOK
  <2>. QED
    BY <1>2, <1>3, <2>1, <2>3, <2>4, <2>5, <2>6 DEF RtTypes, RtTypeOK
<1>. QED
  BY <1>5, <1>6

\* A stop, the container's own life and a restart.
LEMMA StopTypes == ASSUME RtTypes, StopCheck(FALSE) \/ StopStep \/ Boot \/ Die \/ RtCrash PROVE RtTypes'
<1>1. CASE StopCheck(FALSE) \/ StopSelect
  BY <1>1 DEF StopCheck, StopSelect, manualVars, RtTypes, RtTypeOK
<1>2. CASE StopContainer \/ Boot \/ Die
  <2>1. rtStop' \in {"idle", "checked", "stopped"} /\ UNCHANGED <<manualVars, stopRows, rtCrashes>>
    BY <1>2 DEF StopContainer, Boot, Die, stopVars, RtTypes, RtTypeOK
  <2>2. container' \in Containers
    <3>1. container \in Containers
      BY DEF RtTypes, RtTypeOK
    <3>2. CASE Configs = {}
      <4>1. container = Absent
        BY <3>1, <3>2 DEF Containers
      <4>2. container' = Absent
        BY <1>2, <4>1 DEF StopContainer, AgentStop, Boot, Die, Up, Absent
      <4>. QED
        BY <4>2 DEF Containers
    <3>3. CASE \E c : c \in Configs
      BY <1>2, <3>1, <3>3, AgentTypes DEF StopContainer
    <3>. QED
      BY <3>2, <3>3
  <2>. QED
    BY <2>1, <2>2 DEF RtTypes, RtTypeOK, manualVars
<1>3. ASSUME NEW m \in Manuals, StopMark(m) PROVE RtTypes'
  BY <1>3 DEF StopMark, RtWrite, RtTypes, RtTypeOK
<1>4. CASE RtCrash
  BY <1>4, RtCrashAssumption DEF RtCrash, RtTypes, RtTypeOK
<1>. QED
  BY <1>1, <1>2, <1>3, <1>4 DEF StopStep

\* The variables of direct starts keep their types, also when starts overlap.
LEMMA RuntimeTypes == RtSpec => []RtTypeOK
<1>1. RtInit => RtTypes
  BY RtCrashAssumption DEF RtInit, RtTypes, RtTypeOK, Containers, ReportSet, Unknown, Report
<1>2. RtTypes /\ [RtNext]_rtVars => RtTypes'
  <2>1. RtTypes /\ UNCHANGED rtVars => RtTypes'
    BY DEF rtVars, manualVars, stopVars, RtTypes, RtTypeOK
  <2>. QED
    BY <2>1, ManualTypes, StopTypes DEF RtNext
<1>3. RtTypes => RtTypeOK
  BY DEF RtTypes
<1>. QED
  BY <1>1, <1>2, <1>3, PTL DEF RtSpec

--------------------------------------------------------------------------------
(* Launch configurations and summaries.                                      *)

\* A container has a whole configuration that fits the two GPUs.
Whole(s) == DOMAIN s.cfg = Fields /\ Fits(s.cfg)

\* Whatever may be launched is such a one.
LEMMA StartedTypes == ASSUME NEW q, Launchable(q) PROVE Whole(Started(q))
<1> DEFINE c == Config(q)
<1>1. Started(q).cfg = c /\ DOMAIN c = Fields
  BY DEF Started, Config
<1>2. CASE q.profile = "scheduler"
  BY <1>1, <1>2, Zenon DEF Launchable, Whole
<1>3. CASE q.profile # "scheduler"
  <2>1. Given(q.over) = {}
    BY <1>3 DEF Launchable
  <2>2. \A f \in Fields : c[f] = Defaults(q.profile)[f]
    BY <2>1, ConfigIs
  <2> HIDE DEF c
  <2>3. c["tp"] = 2 /\ c["pp"] = 1 /\ c["seqs"] = 8 /\ c["tokens"] = 4096
    BY <2>2, DefaultNumbers DEF Fields
  <2>4. c.seqs \in SeqsAllowed /\ c.tokens \in TokensAllowed /\ c.tp >= 1 /\ c.pp >= 1 /\ c.tp * c.pp = 2
    BY <2>3 DEF SeqsAllowed, TokensAllowed
  <2>5. c["layers"] = ""
    BY <2>2, DefaultLayers DEF Fields
  <2>6. c["spec"] = "none"
    <3>1. Defaults(q.profile)["spec"] = "none"
      BY DEF Defaults
    <3>. QED
      BY <2>2, <3>1 DEF Fields
  <2>7. c.layers = "" /\ c.spec \in {"none", "ngram"}
    BY <2>5, <2>6
  <2>8. Fits(c)
    BY <2>4, <2>7, Zenon DEF Fits
  <2>. QED
    BY <1>1, <2>8 DEF Whole, c
<1>. QED
  BY <1>2, <1>3

LcTypes ==
  /\ service # Nothing => Whole(service)
  /\ release # Nothing =>
       /\ DOMAIN release = {"q", "custom", "ran", "before", "at"}
       /\ release.at \in {"queued", "warming", "refused", "succeeded", "restored", "given up"}

\* Containers are whole and a release is at a stage of its own.
LEMMA LaunchTypes == LcSpec => []LcTypeOK
<1>1. LcInit => LcTypes
  BY DEF LcInit, LcTypes
<1>2. LcTypes /\ [LcNext]_lcVars => LcTypes'
  <2> SUFFICES ASSUME LcTypes, [LcNext]_lcVars PROVE LcTypes'
    OBVIOUS
  <2>1. CASE UNCHANGED lcVars
    BY <2>1 DEF LcTypes, Whole, lcVars
  <2>2. CASE ManualStart \/ ManualStop \/ BenchmarkRuns \/ Submit
    <3>1. \/ UNCHANGED service \/ service' = Nothing
          \/ \E q : Launchable(q) /\ service' = Started(q)
      BY <2>2 DEF ManualStart, ManualStop, BenchmarkRuns, Submit
    <3>2. service' # Nothing => Whole(service')
      BY <3>1, StartedTypes DEF LcTypes
    <3>3. CASE UNCHANGED release
      BY <3>2, <3>3 DEF LcTypes, Whole
    <3>4. CASE Submit
      <4>1. PICK p : release' = [q |-> p.q, custom |-> p.custom, ran |-> evidence.ran, before |-> service, at |-> "queued"]
        BY <3>4 DEF Submit
      <4>2. DOMAIN release' = {"q", "custom", "ran", "before", "at"} /\ release'.at = "queued"
        BY <4>1
      <4>. QED
        BY <3>2, <4>2 DEF LcTypes, Whole
    <3>. QED
      BY <2>2, <3>3, <3>4 DEF ManualStart, ManualStop, BenchmarkRuns
  <2>3. CASE Launch \/ Succeed \/ Fail
    <3>1. \/ UNCHANGED service \/ service' = Nothing
          \/ \E q : Launchable(q) /\ service' = Started(q)
      BY <2>3 DEF Launch, Succeed, Fail
    <3>2. service' # Nothing => Whole(service')
      BY <3>1, StartedTypes DEF LcTypes
    <3>3. /\ release # Nothing
          /\ \E a \in {"warming", "refused", "succeeded", "restored", "given up"} : release' = [release EXCEPT !.at = a]
      BY <2>3 DEF Launch, Succeed, Fail, At
    <3>. QED
      BY <3>2, <3>3 DEF LcTypes, Whole
  <2>. QED
    BY <2>1, <2>2, <2>3 DEF LcNext
<1>3. LcTypes => LcTypeOK
  BY DEF LcTypes, LcTypeOK, Whole
<1>. QED
  BY <1>1, <1>2, <1>3, PTL DEF LcSpec

\* A summary is of the scenario that was next.
LEMMA SummaryTypes == BvSpec => []BvTypeOK
<1>1. BvInit => BvTypeOK
  BY DEF BvInit, BvTypeOK
<1>2. VerdictIInv /\ BvTypeOK /\ [ScenarioSummarised]_bvVars => BvTypeOK'
  <2> SUFFICES ASSUME VerdictIInv, BvTypeOK, ScenarioSummarised PROVE BvTypeOK'
    BY DEF BvTypeOK, bvVars, Summary
  <2>1. PICK s \in Summary(Len(scenarios) + 1) : scenarios' = Append(scenarios, s)
    BY DEF ScenarioSummarised
  <2>2. scenarios \in Seq(Sane) /\ Len(scenarios) \in Nat /\ DOMAIN scenarios = 1..Len(scenarios)
    BY DEF VerdictIInv
  <2>3. PICK n \in Nat : n = Len(scenarios)
    BY <2>2
  <2>4. /\ DOMAIN scenarios' = 1..(n + 1) /\ scenarios'[n + 1] = s
        /\ \A k \in 1..n : scenarios'[k] = scenarios[k]
    BY <2>1, <2>2, <2>3
  <2>5. \A k \in DOMAIN scenarios' : scenarios'[k] \in Summary(k)
    BY <2>1, <2>2, <2>3, <2>4 DEF BvTypeOK
  <2>. QED
    BY <2>5 DEF BvTypeOK, Summary
<1>. QED
  BY <1>1, <1>2, VerdictKeeps, PTL DEF BvSpec

--------------------------------------------------------------------------------
(* The CPU rate.                                                             *)

CvTypes == CvTypeOK /\ usage <= tick

\* A snapshot with a clock is one.
LEMMA Stamped ==
  ASSUME NEW S, NEW T, NEW x \in [at : S, usage : T, read : T, now : T], NEW a \in S, NEW t \in T, NEW z \in T
  PROVE  [x EXCEPT !.at = a, !.now = t, !.read = z] \in [at : S, usage : T, read : T, now : T]
  OBVIOUS

\* Nothing that is read of the clock or of the counter exceeds the clock.
LEMMA ReadingTypes == ASSUME LastTick \in Nat PROVE CvSpec => []CvTypeOK
<1>1. CvInit => CvTypes
  BY DEF CvInit, CvTypes, CvTypeOK, Resting
<1>2. CvTypes /\ [CvNext]_cvVars => CvTypes'
  <2> SUFFICES ASSUME CvTypes, [CvNext]_cvVars PROVE CvTypes'
    OBVIOUS
  <2> DEFINE Snaps == [at : {"idle", "fetch", "lock"}, usage : 0..LastTick, read : 0..LastTick, now : 0..LastTick]
  <2>0. tick \in 0..LastTick /\ usage \in 0..LastTick /\ usage <= tick /\ reader \in [Readers -> Snaps] /\ Resting \in Snaps
       /\ sample \in [usage : 0..LastTick, at : 0..LastTick]
    BY DEF CvTypes, CvTypeOK, Resting
  <2>1. CASE UNCHANGED cvVars \/ ContainerEnds
    BY <2>1 DEF cvVars, ContainerEnds, CvTypes, CvTypeOK
  <2>2. CASE CvTick
    <3>1. tick' \in 0..LastTick /\ usage' \in 0..LastTick /\ usage' <= tick' /\ UNCHANGED <<sample, alive, reader, previous, cpu>>
      BY <2>0, <2>2 DEF CvTick
    <3>. QED
      BY <3>1 DEF CvTypes, CvTypeOK
  <2>5. CASE Housekeeping
    <3>1. sample' \in [usage : 0..LastTick, at : 0..LastTick] /\ UNCHANGED <<tick, usage, alive, reader, previous, cpu>>
      BY <2>0, <2>5 DEF Housekeeping
    <3>. QED
      BY <2>0, <3>1 DEF CvTypes, CvTypeOK
  <2>3. ASSUME NEW r \in Readers, Fetch(r) \/ Stamp(r) \/ FetchFails(r) PROVE CvTypes'
    <3>1. UNCHANGED <<tick, usage, sample, alive, previous, cpu>>
      BY <2>3 DEF Fetch, Stamp, FetchFails
    <3>2. \E x \in Snaps : reader' = [reader EXCEPT ![r] = x]
      <4>1. CASE Fetch(r)
        <5>1. [at |-> "fetch", usage |-> sample.usage, read |-> tick, now |-> 0] \in Snaps
          BY <2>0
        <5>. QED
          BY <4>1, <5>1 DEF Fetch
      <4>2. CASE FetchFails(r)
        BY <2>0, <4>2 DEF FetchFails
      <4>3. CASE Stamp(r)
        <5>1. reader[r] \in Snaps
          BY <2>0
        <5>2. [reader[r] EXCEPT !.at = "lock", !.now = tick, !.read = 0] \in Snaps
          <6> DEFINE S == {"idle", "fetch", "lock"}
                     T == 0..LastTick
          <6>1. "lock" \in S /\ tick \in T /\ 0 \in T
            BY <2>0
          <6>2. reader[r] \in [at : S, usage : T, read : T, now : T]
            BY <5>1
          <6> HIDE DEF S, T
          <6>3. [reader[r] EXCEPT !.at = "lock", !.now = tick, !.read = 0] \in [at : S, usage : T, read : T, now : T]
            BY <6>1, <6>2, Stamped
          <6>. QED
            BY <6>3 DEF S, T
        <5>3. reader' = [reader EXCEPT ![r] = [reader[r] EXCEPT !.at = "lock", !.now = tick, !.read = 0]]
          BY <2>0, <4>3 DEF Stamp
        <5>. QED
          BY <5>2, <5>3
      <4>. QED
        BY <2>3, <4>1, <4>2, <4>3
    <3> HIDE DEF Snaps
    <3>3. reader' \in [Readers -> Snaps]
      BY <2>0, <3>2
    <3>. QED
      BY <3>1, <3>3 DEF CvTypes, CvTypeOK, Snaps
  <2>4. ASSUME NEW r \in Readers, Compare(r) PROVE CvTypes'
    <3>1. UNCHANGED <<tick, usage, sample, alive>> /\ reader' = [reader EXCEPT ![r] = Resting]
      BY <2>4 DEF Compare
    <3>2. reader[r].now \in 0..LastTick /\ reader[r].usage \in 0..LastTick
      BY <2>0
    <3>3. previous'.now \in 0..LastTick /\ previous'.usage \in 0..LastTick
      BY <2>4, <3>2 DEF Compare, Left
    <3>4. cpu' # NoReading => cpu'.used \in 0..LastTick /\ cpu'.dt \in 1..LastTick
      <4> DEFINE dt == reader[r].now - previous.now
                 used == reader[r].usage - previous.usage
      <4>1. SUFFICES ASSUME cpu' # NoReading PROVE cpu'.used \in 0..LastTick /\ cpu'.dt \in 1..LastTick
        OBVIOUS
      <4>2. previous # NoReading /\ ~(dt <= 0) /\ cpu' = [used |-> IF used < 0 THEN 0 ELSE used, dt |-> dt]
        BY <2>4, <4>1 DEF Compare
      <4>3. previous.now \in 0..LastTick /\ previous.usage \in 0..LastTick
        BY <4>2 DEF CvTypes, CvTypeOK
      <4>4. dt \in 1..LastTick /\ (IF used < 0 THEN 0 ELSE used) \in 0..LastTick
        BY <3>2, <4>2, <4>3
      <4> HIDE DEF dt, used
      <4>. QED
        BY <4>2, <4>4
    <3>5. reader' \in [Readers -> Snaps]
      <4> HIDE DEF Snaps
      <4>. QED
        BY <2>0, <3>1
    <3>. QED
      BY <3>1, <3>3, <3>4, <3>5 DEF CvTypes, CvTypeOK
  <2>. QED
    BY <2>1, <2>2, <2>5, <2>3, <2>4 DEF CvNext
<1>3. CvTypes => CvTypeOK
  BY DEF CvTypes
<1>. QED
  BY <1>1, <1>2, <1>3, PTL DEF CvSpec

--------------------------------------------------------------------------------
(* The rounds of the scraper.                                                *)

\* A round and what it publishes stay within what pods may serve.
LEMMA PodTypes ==
  ASSUME QpsIInv, ScTypeOK, NEW p \in Pods, Serve(p) \/ PodStops(p) \/ PodRuns(p), MaxServed \in Nat, MaxRestarts \in Nat
  PROVE  ScTypeOK'
<1>1. UNCHANGED <<mark, toRead, answered, prev, latest>> /\ running' \subseteq Pods
  BY DEF Serve, PodStops, PodRuns, ScTypeOK
<1>2. served' \in [Pods -> 0..MaxServed]
  BY DEF Serve, PodStops, PodRuns, ScTypeOK
<1>3. count' \in [Pods -> 0..MaxServed]
  <2>1. count[p] <= served[p]
    BY DEF QpsIInv, PodsInv
  <2>. QED
    BY <2>1 DEF Serve, PodStops, PodRuns, ScTypeOK
<1>4. restarts' \in [Pods -> 0..MaxRestarts]
  BY DEF Serve, PodStops, PodRuns, ScTypeOK
<1>. QED
  BY <1>1, <1>2, <1>3, <1>4 DEF ScTypeOK, NoRound

\* So does what the pods of a round say.
LEMMA RoundTypes ==
  ASSUME ScTypeOK, ScrapeBegins \/ \E p \in Pods : ReadPod(p) PROVE ScTypeOK'
<1>1. UNCHANGED <<running, count, restarts, served, mark, prev, latest>>
  BY DEF ScrapeBegins, ReadPod
<1>2. toRead' = Unread \/ toRead' \subseteq Pods
  BY DEF ScrapeBegins, ReadPod, ScTypeOK
<1>3. answered' \subseteq [pod : Pods, count : 0..MaxServed, served : 0..MaxServed]
  <2>1. ASSUME NEW p \in Pods
        PROVE  [pod |-> p, count |-> count[p], served |-> served[p]] \in [pod : Pods, count : 0..MaxServed, served : 0..MaxServed]
    BY DEF ScTypeOK
  <2>. QED
    BY <2>1 DEF ScrapeBegins, ReadPod, ScTypeOK
<1>. QED
  BY <1>1, <1>2, <1>3 DEF ScTypeOK, NoRound

\* The sum of a round is no more than all pods together may have served.
LEMMA PublishTypes ==
  ASSUME QpsIInv, ScTypeOK, Publish, MaxServed \in Nat PROVE ScTypeOK'
<1>1. toRead' = Unread /\ answered' = {} /\ UNCHANGED <<running, count, restarts, served>>
  BY DEF Publish
<1>2. CASE answered = {}
  <2>1. UNCHANGED <<mark, prev, latest>>
    BY <1>2 DEF Publish
  <2>. QED
    BY <1>1, <2>1 DEF ScTypeOK, NoRound
<1>3. CASE answered # {}
  <2> DEFINE c == Said("count")
             s == Said("served")
             m == [p \in Answered |-> mark[p]]
  <2>1. /\ prev' = [sum |-> Sum(c, Answered), of |-> Answered]
        /\ \A p \in Pods : mark'[p] = IF p \in Answered THEN s[p] ELSE mark[p]
        /\ mark' = [p \in Pods |-> mark'[p]]
        /\ latest' = [gain |-> Gain(Sum(c, Answered)), earned |-> Sum(s, Answered) - Sum(m, Answered),
                      grown |-> ~ Answered \subseteq prev.of]
        /\ Sum(c, Answered) \in Nat /\ Sum(s, Answered) \in Nat /\ Sum(m, Answered) \in Nat
        /\ Sum(m, Answered) <= Sum(s, Answered)
    BY <1>3, PublishIs
  <2>2. /\ Answered \subseteq Pods /\ IsFiniteSet(Answered)
        /\ \A p \in Answered : \E a \in answered : a.pod = p /\ c[p] = a.count /\ s[p] = a.served
    BY RoundIs
  <2> HIDE DEF c, s, m
  <2>3. \A p \in Answered : c[p] \in 0..MaxServed /\ s[p] \in 0..MaxServed
    BY <2>2 DEF ScTypeOK
  <2>4. mark' \in [Pods -> 0..MaxServed]
    <3>1. \A p \in Pods : mark'[p] \in 0..MaxServed
      BY <2>1, <2>3 DEF ScTypeOK
    <3>. QED
      BY <2>1, <3>1
  <2>5. prev'.sum \in 0..(MaxServed * Cardinality(Pods)) /\ prev'.of \subseteq Pods
    <3>1. PICK a \in Nat, b \in Nat : a = Cardinality(Answered) /\ b = Cardinality(Pods) /\ a <= b
      BY <2>2, ScraperAssumption, FS_CardinalityType, FS_Subset
    <3>2. Sum(c, Answered) <= MaxServed * a
      BY <2>2, <2>3, <3>1, SumBound
    <3>3. MaxServed * a <= MaxServed * b /\ MaxServed * a \in Nat /\ MaxServed * b \in Nat
      <4>1. PICK d \in Nat : b = a + d
        <5>1. b - a \in Nat /\ b = a + (b - a)
          BY <3>1
        <5>. QED
          BY <5>1
      <4>2. MaxServed * (a + d) = MaxServed * a + MaxServed * d
        OBVIOUS
      <4>3. MaxServed * a \in Nat /\ MaxServed * d \in Nat
        OBVIOUS
      <4>. QED
        BY <4>1, <4>2, <4>3
    <3>4. prev'.sum = Sum(c, Answered) /\ prev'.of = Answered
      BY <2>1
    <3>. QED
      BY <2>1, <2>2, <3>1, <3>2, <3>3, <3>4
  <2>6. latest'.grown \in BOOLEAN /\ latest'.earned \in Nat
    <3>1. latest'.earned = Sum(s, Answered) - Sum(m, Answered) /\ latest'.grown = (~ Answered \subseteq prev.of)
      BY <2>1
    <3>. QED
      BY <2>1, <3>1
  <2>7. latest'.gain \in Nat
    <3>1. latest'.gain = Gain(Sum(c, Answered))
      BY <2>1
    <3>2. prev.sum = Unread \/ prev.sum \in Int
      <4>1. ASSUME NEW b \in [Pods -> Nat], Made(b) PROVE prev.sum \in Int
        <5>1. IsFiniteSet(prev.of) /\ \A p \in prev.of : b[p] \in Nat
          BY <4>1, ScraperAssumption, FS_Subset DEF Made
        <5>. QED
          BY <4>1, <5>1, SumGrows DEF Made
      <4>. QED
        BY <4>1 DEF QpsIInv
    <3>. QED
      BY <2>1, <3>1, <3>2 DEF Gain
  <2>. QED
    BY <1>1, <2>4, <2>5, <2>6, <2>7 DEF ScTypeOK
<1>. QED
  BY <1>2, <1>3

\* The variables of the scraper keep their types.
LEMMA ScraperTypes ==
  ASSUME MaxServed \in Nat, MaxRestarts \in Nat PROVE ScSpec => []ScTypeOK
<1>1. ScInit => ScTypeOK
  <2>1. ASSUME ScInit PROVE ScTypeOK
    <3>1. /\ running = Pods /\ toRead = Unread /\ answered = {} /\ prev = NoRound
          /\ count = [p \in Pods |-> 0] /\ served = count /\ mark = count /\ restarts = count
          /\ latest = [gain |-> 0, earned |-> 0, grown |-> FALSE]
      BY <2>1 DEF ScInit
    <3>2. latest.grown = FALSE /\ latest.gain = 0 /\ latest.earned = 0
      BY <3>1
    <3>. QED
      BY <3>1, <3>2 DEF ScTypeOK
  <2>. QED
    BY <2>1
<1>2. QpsIInv /\ ScTypeOK /\ [ScNext]_sVars => ScTypeOK'
  <2>1. ScTypeOK /\ UNCHANGED sVars => ScTypeOK'
    BY DEF ScTypeOK, NoRound, sVars
  <2>. QED
    BY <2>1, PodTypes, RoundTypes, PublishTypes DEF ScNext
<1>. QED
  BY <1>1, <1>2, RoundsKeep, PTL DEF ScSpec

--------------------------------------------------------------------------------
(* The spans of the call graph.                                              *)

\* No more spans than their bound, and none from after the last second.
SgTypes == second <= LastSecond /\ Cardinality(Spans) <= MaxSpans /\ waiting \subseteq Span /\ counted \subseteq Span

\* A span that has ended is the next of those there are.
LEMMA SpanTypes ==
  ASSUME GraphIInv, SgTypes, LastSecond \in Nat, MaxSpans \in Nat, NEW e \in Links, NEW bad \in BOOLEAN, SpanEnds(e, bad)
  PROVE  SgTypes'
<1> DEFINE new == [link |-> e, sec |-> second, bad |-> bad, n |-> Cardinality(Spans) + 1]
<1>1. /\ Cardinality(Spans) < MaxSpans /\ waiting' = waiting \cup {new} /\ UNCHANGED <<second, counted>>
  BY DEF SpanEnds
<1>2. IsFiniteSet(Spans)
  BY FS_Union DEF GraphIInv, SpansInv, Spans
<1>3. PICK k \in Nat : k = Cardinality(Spans)
  BY <1>2, FS_CardinalityType
<1>4. second \in 1..LastSecond /\ k + 1 \in 1..MaxSpans
  BY <1>1, <1>3 DEF GraphIInv, SpansInv, SgTypes
<1>5. new \in Span
  <2>1. new = [link |-> e, sec |-> second, bad |-> bad, n |-> k + 1]
    BY <1>3
  <2> HIDE DEF new
  <2>. QED
    BY <1>4, <2>1 DEF Span
<1> HIDE DEF new
<1>6. Cardinality(Spans') <= MaxSpans
  <2>1. Spans' = Spans \cup {new}
    BY <1>1 DEF Spans
  <2>2. Cardinality(Spans \cup {new}) = IF new \in Spans THEN Cardinality(Spans) ELSE Cardinality(Spans) + 1
    BY <1>2, FS_AddElement
  <2>. QED
    BY <1>3, <1>4, <2>1, <2>2
<1>. QED
  BY <1>1, <1>5, <1>6 DEF SgTypes, Span

\* No other step makes or loses one.
LEMMA SpansStay ==
  ASSUME GraphIInv, SgTypes, LastSecond \in Nat,
         SgTick \/ SnapshotBegins \/ Snapshot \/ UNCHANGED gVars \/ \E s \in waiting : Record(s)
  PROVE  SgTypes'
<1>1. second' <= LastSecond
  BY DEF SgTick, SnapshotBegins, Snapshot, Record, gVars, GraphIInv, SpansInv, SgTypes
<1>2. CASE UNCHANGED <<waiting, counted>>
  BY <1>1, <1>2 DEF SgTypes, Spans, Span
<1>3. ASSUME NEW s \in waiting, Record(s) PROVE SgTypes'
  <2>1. waiting' = waiting \ {s} /\ counted' = counted \cup {s}
    BY <1>3 DEF Record
  <2>2. Spans' = Spans
    BY <2>1 DEF Spans
  <2>. QED
    BY <1>1, <2>1, <2>2 DEF SgTypes, Span
<1>. QED
  BY <1>2, <1>3 DEF SgTick, SnapshotBegins, Snapshot, gVars

\* No bucket holds more than all spans.
LEMMA BucketIsSmall ==
  ASSUME GraphIInv, SgTypes, MaxSpans \in Nat, NEW e \in Links, NEW bucket, NEW all \in SUBSET counted,
         Keeps(bucket, all, e, lastSec[e])
  PROVE  bucket \in [0..(Window - 1) -> 0..MaxSpans]
<1>1. ASSUME NEW i \in 0..(Window - 1) PROVE bucket[i] \in 0..MaxSpans
  <2>1. InRing(all, e, i, lastSec[e]) \subseteq Spans
    BY DEF InRing, Spans
  <2>2. IsFiniteSet(Spans)
    BY FS_Union DEF GraphIInv, SpansInv, Spans
  <2>3. /\ Cardinality(InRing(all, e, i, lastSec[e])) \in Nat /\ Cardinality(Spans) \in Nat
        /\ Cardinality(InRing(all, e, i, lastSec[e])) <= Cardinality(Spans)
    BY <2>1, <2>2, FS_Subset, FS_CardinalityType
  <2>. QED
    BY <2>3 DEF Keeps, SgTypes
<1>. QED
  BY <1>1 DEF Keeps

\* The variables of the call graph keep their types.
LEMMA GraphTypes ==
  ASSUME LastSecond \in Nat \ {0}, MaxSpans \in Nat PROVE SgSpec => []SgTypeOK
<1>1. SgInit => SgTypes
  <2>1. Cardinality({}) = 0
    BY FS_EmptySet
  <2>. QED
    BY <2>1 DEF SgInit, SgTypes, Spans
<1>2. GraphIInv /\ SgTypes /\ [SgNext]_gVars => SgTypes'
  BY SpanTypes, SpansStay DEF SgNext
<1>3. GraphIInv /\ SgTypes => SgTypeOK
  <2> SUFFICES ASSUME GraphIInv, SgTypes PROVE SgTypeOK
    OBVIOUS
  <2>1. second \in 1..LastSecond /\ looking \in 0..LastSecond
    BY DEF GraphIInv, SpansInv, SgTypes
  <2>2. lastSec \in [Links -> 0..LastSecond]
    BY DEF GraphIInv, SpansInv, RingsInv, SgTypes
  <2>3. /\ reqs \in [Links -> [0..(Window - 1) -> Nat]] /\ errs \in [Links -> [0..(Window - 1) -> Nat]]
        /\ \A e \in Links : /\ Keeps(reqs[e], counted, e, lastSec[e])
                            /\ Keeps(errs[e], Wrong(counted), e, lastSec[e])
    BY DEF GraphIInv, RingsInv
  <2>4. \A e \in Links : /\ reqs[e] \in [0..(Window - 1) -> 0..MaxSpans]
                         /\ errs[e] \in [0..(Window - 1) -> 0..MaxSpans]
    <3>1. counted \in SUBSET counted /\ Wrong(counted) \in SUBSET counted
      BY DEF Wrong
    <3>. QED
      BY <2>3, <3>1, BucketIsSmall
  <2> DEFINE Rings == [0..(Window - 1) -> 0..MaxSpans]
  <2>5. reqs \in [Links -> Rings] /\ errs \in [Links -> Rings]
    <3>1. \A e \in Links : reqs[e] \in Rings /\ errs[e] \in Rings
      BY <2>4
    <3> HIDE DEF Rings
    <3>. QED
      BY <2>3, <3>1
  <2>. QED
    BY <2>1, <2>2, <2>5 DEF SgTypes, SgTypeOK
<1>. QED
  BY <1>1, <1>2, <1>3, RingsKeep, PTL DEF SgSpec

--------------------------------------------------------------------------------
(* All parts together.                                                       *)

\* A step is a step of one part and leaves the others alone.
LEMMA StepOfAWorkload ==
  ASSUME [Next]_allVars
  PROVE  /\ [JNext]_jVars /\ [BNext]_bVars /\ [RtNext]_rtVars
         /\ [LcNext]_lcVars /\ [ScenarioSummarised]_bvVars /\ [MtNext]_mtVars
         /\ [ScNext]_sVars /\ [SgNext]_gVars /\ [CvNext]_cvVars
<1>1. ASSUME UNCHANGED jobVars PROVE UNCHANGED jVars /\ UNCHANGED bVars /\ UNCHANGED rtVars
  BY <1>1 DEF jobVars
<1>2. ASSUME UNCHANGED resultVars PROVE UNCHANGED lcVars /\ UNCHANGED bvVars /\ UNCHANGED mtVars
  BY <1>2 DEF resultVars
<1>3. ASSUME UNCHANGED metricVars PROVE UNCHANGED sVars /\ UNCHANGED gVars /\ UNCHANGED cvVars
  BY <1>3 DEF metricVars
<1>4. CASE JobStep
  BY <1>2, <1>3, <1>4 DEF JobStep
<1>5. CASE ResultStep
  BY <1>1, <1>3, <1>5 DEF ResultStep
<1>6. CASE MetricStep
  BY <1>1, <1>2, <1>6 DEF MetricStep
<1>7. CASE UNCHANGED allVars
  <2>1. UNCHANGED jobVars /\ UNCHANGED resultVars /\ UNCHANGED metricVars
    BY <1>7 DEF allVars
  <2>. QED
    BY <1>1, <1>2, <1>3, <2>1
<1>. QED
  BY <1>4, <1>5, <1>6, <1>7 DEF Next

\* The behaviours of MCWorkloads are behaviours of every part.
LEMMA BehavioursOfWorkloads ==
  Spec => JSpec /\ BSpec /\ RtSpec /\ LcSpec /\ BvSpec /\ MtSpec /\ ScSpec /\ SgSpec /\ CvSpec
<1>1. Init => JInit /\ BInit /\ RtInit /\ LcInit /\ BvInit /\ MtInit /\ ScInit /\ SgInit /\ CvInit
  BY DEF Init
<1>2. [Next]_allVars => /\ [JNext]_jVars /\ [BNext]_bVars /\ [RtNext]_rtVars
                        /\ [LcNext]_lcVars /\ [ScenarioSummarised]_bvVars /\ [MtNext]_mtVars
                        /\ [ScNext]_sVars /\ [SgNext]_gVars /\ [CvNext]_cvVars
  BY StepOfAWorkload
<1>. QED
  BY <1>1, <1>2, PTL DEF Spec, JSpec, BSpec, RtSpec, LcSpec, BvSpec, MtSpec, ScSpec, SgSpec, CvSpec

\* The bounds of the instances are numbers.
NumbersAreBounds == {MaxServed, MaxRestarts, MaxSpans, LastTick} \subseteq Nat /\ LastSecond \in Nat \ {0}

\* The variables of the jobs, of what is concluded from them and of what is
\* measured keep their types, with any number of each, also when a benchmark is
\* cancelled before it starts and when direct starts overlap.
THEOREM WorkloadsKeepTypes == ASSUME NumbersAreBounds PROVE Spec => []TypeOK
<1>1. /\ MaxServed \in Nat /\ MaxRestarts \in Nat /\ MaxSpans \in Nat /\ LastTick \in Nat
      /\ LastSecond \in Nat \ {0}
  BY DEF NumbersAreBounds
<1>2. ScSpec => []ScTypeOK
  BY <1>1, ScraperTypes
<1>3. SgSpec => []SgTypeOK
  BY <1>1, GraphTypes
<1>4. CvSpec => []CvTypeOK
  BY <1>1, ReadingTypes
<1>5. /\ JTypeOK /\ BTypeOK /\ RtTypeOK /\ LcTypeOK /\ BvTypeOK /\ MtTypeOK /\ ScTypeOK /\ SgTypeOK /\ CvTypeOK
      => TypeOK
  BY DEF TypeOK
<1>. QED
  BY <1>2, <1>3, <1>4, <1>5, BehavioursOfWorkloads, JTypeCorrect, BenchmarkTypes, RuntimeTypes, LaunchTypes, SummaryTypes,
     TracesKeep, PTL

\* A behaviour of MCWorkloads is one of each part, so that what is proved of the
\* parts is true of it: a training pod is visible in the ledger and what has ended
\* stays ended, a completed benchmark is whole, what was measured is what is
\* launched, the judges agree, and no aggregate, rate or window claims more than
\* was measured.
THEOREM WorkloadsHold ==
  ASSUME Disciplined, StartedOnly
  PROVE  Spec => /\ []TrainingInv /\ EndedStaysEnded /\ []BenchmarkInv
                 /\ []LaunchInv /\ []JudgesAgree /\ []AggregatesInv
                 /\ []QpsIsEarned /\ []WindowIsExact /\ []CpuIsEarned
<1>1. JSpec => []TrainingInv
  BY JTraining
<1>2. JSpec => EndedStaysEnded
  BY JEnded
<1>3. BSpec => [](BTypeOK /\ BenchmarkInv)
  BY BenchmarkHolds
<1>4. Spec => EndedStaysEnded
  BY <1>2, BehavioursOfWorkloads
<1>. QED
  BY <1>1, <1>3, <1>4, BehavioursOfWorkloads, LaunchHolds, VerdictHolds, AggregatesHold, QpsHolds, WindowHolds,
     CpuHolds, PTL
================================================================================
