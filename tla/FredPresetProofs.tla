---------------------------- MODULE FredPresetProofs ----------------------------
(***************************************************************************)
(* Proofs about the FRED preset, for any number of bootstraps, triggers,   *)
(* bulk requests and route calls beside one reset, in every interleaving:  *)
(* no reference dangles; a reset removes everything or nothing; and what   *)
(* the newest vintages say is what the provider serves, except where the   *)
(* windows the bootstraps asked for left it behind.                        *)
(*                                                                         *)
(* The argument: a deleted feed is locked, so nobody holds it, and every   *)
(* source that is there has a run log, so a reset that got as far as the   *)
(* series has seen every source; a bootstrap whose source is still there   *)
(* when it commits asked for a window that still covers the overlap; and   *)
(* what it is about to write is what its answer says of the rows its       *)
(* session holds, which are those of the store unless somebody wrote in    *)
(* between, and what was written then is left behind.                      *)
(***************************************************************************)
EXTENDS FredPreset, FiniteSetTheorems, WellFoundedInduction, TLAPS

-------------------------------------------------------------------------------
(* The invariant *)

JobSteps == {"idle", "find", "insert", "source", "link", "feed", "resolve", "fetch", "compare",
             "upsert", "commit", "failing", "done"}
ResetSteps == {"idle", "run_logs", "observations", "logs", "feeds", "series", "commit",
               "failing", "done"}
JobRecords == [pc : JobSteps, new : BOOLEAN, sources : SUBSET Lanes, held : Tables, lane : Lanes \cup {NoLane}, fresh : BOOLEAN,
               reparam : BOOLEAN, start : Int, fetched : [Periods -> Values \cup {NotServed}],
               write : Tables, since : SUBSET Periods, alone : BOOLEAN]
KeptRecords == [obs : SUBSET Keys, logs : SUBSET [job : Jobs, lane : Lanes],
                lanes : SUBSET Lanes, series : BOOLEAN]
ResetRecords == [pc : ResetSteps, lanes : SUBSET Lanes, logs : SUBSET Jobs, gone : KeptRecords]

\* What a job has found, and what it may still find gone: the series it is to link is
\* there or its own; the source it made is its own and nobody sees it yet; one that it
\* found was made by a bootstrap that is over.
LaneOfJob(j) ==
  /\ jobs[j].pc \in {"source", "link"} => series \/ jobs[j].new
  /\ jobs[j].fresh => /\ j \in Imports /\ jobs[j].lane = j /\ (series \/ jobs[j].new)
                      /\ jobs[j].pc \notin {"idle", "done"}
  /\ ~jobs[j].fresh /\ jobs[j].lane # NoLane => jobs[jobs[j].lane].pc = "done"
  /\ jobs[j].pc \in {"feed", "resolve", "fetch", "compare", "upsert", "commit"} =>
       jobs[j].lane # NoLane
  /\ jobs[j].pc \in {"upsert", "commit"} => jobs[j].fresh \/ jobs[j].lane \in lanes
  /\ jobs[j].pc \in {"idle", "find", "insert", "source", "link", "feed", "done"} =>
       ~jobs[j].reparam /\ ~jobs[j].fresh

LaneIsThere(j) == jobs[j].fresh \/ jobs[j].lane \in lanes

\* The window a job asks for covers the overlap before the newest stored period.
Covers(j) ==
  jobs[j].pc \in {"fetch", "compare", "upsert", "commit"} /\ LaneIsThere(j) =>
    \/ jobs[j].start = 0
    \/ StoredPeriods # {} /\ jobs[j].start <= NewestPeriod - Overlap

\* What was not released since is as the provider still serves it, in the window.
AnswerOf(j) ==
  Asked(j) => \A p \in Periods \ jobs[j].since :
    jobs[j].fetched[p] = IF p >= jobs[j].start THEN served[p] ELSE NotServed

\* The rows an answer calls for beside what the session knows of what is stored now.
RowsOf(j) ==
  [k \in Keys |->
    IF /\ k[3] = DayOf[j] /\ jobs[j].fetched[k[2]] # NotServed
       /\ Changed(j, k[2])
    THEN [value |-> jobs[j].fetched[k[2]], log |-> j] ELSE NoRow]

Prepared(j) ==
  /\ \A k \in Keys : jobs[j].write[k] # NoRow => jobs[j].write[k].log = j
  /\ jobs[j].pc \in {"upsert", "commit"} /\ jobs[j].alone => jobs[j].write = RowsOf(j)

JobInv(j) == LaneOfJob(j) /\ Covers(j) /\ AnswerOf(j) /\ Prepared(j)

\* Every source that is there was made by a bootstrap that is over, and has a run log.
LanesInv == \A l \in lanes : jobs[l].pc = "done" /\ \E log \in logs : log.lane = l

\* A reset locks the feeds it has deleted, together with all their logs; once the
\* series is deleted, there is nothing left that it has not.
ResetInv ==
  /\ \A l \in reset.gone.lanes : \A j \in Jobs : ~HoldsLane(j, l)
  /\ LogsOf(reset.gone.lanes) \subseteq reset.gone.logs
  /\ reset.pc \notin {"series", "commit", "failing"} =>
       reset.gone.lanes = {} /\ ~reset.gone.series
  /\ reset.pc = "commit" => reset.gone.series
  /\ reset.gone.series =>
       /\ lanes \subseteq reset.gone.lanes
       /\ ~edged
       /\ \A k \in Keys : obs[k] # NoRow => k \in reset.gone.obs
       /\ \A j \in Jobs : ~jobs[j].fresh

PresetInv ==
  /\ TypeOK
  /\ jobs \in [Jobs -> JobRecords] /\ reset \in ResetRecords /\ series \in BOOLEAN
  /\ \A j \in Jobs : JobInv(j)
  /\ LanesInv
  /\ ResetInv
  /\ CurrentUnlessBehind

-------------------------------------------------------------------------------
(* Newest periods and vintages *)

\* A finite set of integers has a greatest element.
LEMMA MaxExists ==
  ASSUME NEW S, S \subseteq Int, IsFiniteSet(S), S # {}
  PROVE  \E x \in S : \A y \in S : y <= x
<1> DEFINE Above(x) == {y \in S : x < y}
           T == {Above(x) : x \in S}
<1>1. IsWellFoundedOn(StrictSubsetOrdering(S), FiniteSubsetsOf(S))
  BY FS_StrictSubsetOrderingWellFounded
<1>2. T \subseteq FiniteSubsetsOf(S) /\ T # {}
  <2>1. \A x \in S : Above(x) \in SUBSET S
    OBVIOUS
  <2>2. \A U \in SUBSET S : IsFiniteSet(U)
    BY FS_Subset
  <2> HIDE DEF Above
  <2> QED BY <2>1, <2>2 DEF FiniteSubsetsOf
<1>3. PICK A \in T : \A B \in T : <<B, A>> \notin StrictSubsetOrdering(S)
  <2> HIDE DEF T
  <2> QED BY <1>1, <1>2, WFMin
<1>4. PICK x \in S : A = Above(x)
  BY <1>3
<1>5. ASSUME NEW y \in S PROVE y <= x
  <2>1. x \in Int /\ y \in Int /\ \A z \in S : z \in Int
    OBVIOUS
  <2>2. CASE x < y
    <3>1. Above(y) \subseteq Above(x) /\ Above(y) # Above(x)
      <4>1. \A z \in S : y < z => x < z
        BY <2>1, <2>2
      <4>2. y \in Above(x) /\ y \notin Above(y)
        BY <2>1, <2>2
      <4> QED BY <4>1, <4>2
    <3>2. <<Above(y), Above(x)>> \in StrictSubsetOrdering(S)
      BY <3>1 DEF StrictSubsetOrdering
    <3> QED BY <1>3, <1>4, <3>2
  <2> QED BY <2>1, <2>2
<1> QED BY <1>5

\* Some vintage, if any is stored, is the newest, and it is the only such.
LEMMA NewestVintage ==
  ASSUME NEW vs, vs \subseteq Vintages
  PROVE  /\ vs # {} => Newest(vs) \in vs /\ \A u \in vs : u <= Newest(vs)
         /\ \A v \in vs : (\A u \in vs : u <= v) => Newest(vs) = v
<1>1. vs \subseteq Int /\ IsFiniteSet(vs)
  BY VintagesAssumption, PresetAssumption, FS_Subset
<1>2. ASSUME vs # {} PROVE Newest(vs) \in vs /\ \A u \in vs : u <= Newest(vs)
  BY <1>1, <1>2, MaxExists DEF Newest
<1>3. ASSUME NEW v \in vs, \A u \in vs : u <= v PROVE Newest(vs) = v
  <2>1. Newest(vs) \in Int /\ v \in Int /\ v <= Newest(vs) /\ Newest(vs) <= v
    BY <1>1, <1>2, <1>3
  <2> QED BY <2>1
<1> QED BY <1>2, <1>3

\* A period has a newest row just if some vintage of it is stored, and tables that
\* agree on the period have the same.
LEMMA LatestOf ==
  ASSUME NEW t, NEW p
  PROVE  /\ LatestRow(t, TheSeries, p) # NoRow <=> \E v \in Vintages : t[Key(p, v)] # NoRow
         /\ \A u : (\A v \in Vintages : u[Key(p, v)] = t[Key(p, v)]) =>
              LatestRow(u, TheSeries, p) = LatestRow(t, TheSeries, p)
<1> DEFINE vs == StoredVintages(t, TheSeries, p)
<1>1. vs \subseteq Vintages /\ \A v \in Vintages : v \in vs <=> t[Key(p, v)] # NoRow
  BY DEF StoredVintages, Key
<1>2. vs # {} => Newest(vs) \in vs
  <2> HIDE DEF vs
  <2> QED BY <1>1, NewestVintage
<1>3. ASSUME NEW u, \A v \in Vintages : u[Key(p, v)] = t[Key(p, v)]
      PROVE  LatestRow(u, TheSeries, p) = LatestRow(t, TheSeries, p)
  <2>1. StoredVintages(u, TheSeries, p) = vs
    BY <1>3 DEF StoredVintages, Key
  <2> QED BY <1>1, <1>2, <1>3, <2>1 DEF LatestRow, Key
<1>4. LatestRow(t, TheSeries, p) # NoRow <=> vs # {}
  BY <1>1, <1>2 DEF LatestRow, Key
<1> QED BY <1>1, <1>3, <1>4

\* All keys are of the one series.
LEMMA KeysOfTheSeries ==
  /\ \A k \in Keys : k = Key(k[2], k[3]) /\ k[2] \in Periods /\ k[3] \in Vintages
  /\ \A p \in Periods, v \in Vintages : Key(p, v) \in Keys /\ Key(p, v)[2] = p /\ Key(p, v)[3] = v
<1>1. Series = {TheSeries}
  BY PresetAssumption DEF TheSeries
<1> QED BY <1>1 DEF Keys, Key

\* The newest stored period is one.
LEMMA NewestPeriodIs ==
  ASSUME StoredPeriods # {}
  PROVE  /\ NewestPeriod \in StoredPeriods /\ NewestPeriod \in Nat
         /\ \A q \in StoredPeriods : q <= NewestPeriod
<1>1. StoredPeriods \subseteq Nat /\ IsFiniteSet(StoredPeriods)
  BY PresetAssumption, FS_Subset DEF StoredPeriods
<1>2. StoredPeriods \subseteq Int
  BY <1>1
<1>3. \E p \in StoredPeriods : \A q \in StoredPeriods : q <= p
  BY <1>1, <1>2, MaxExists
<1> QED BY <1>1, <1>3 DEF NewestPeriod

\* While nothing that is stored goes, the newest stored period only moves on.
LEMMA NewestPeriodGrows ==
  ASSUME StoredPeriods # {}, \A k \in Keys : obs[k] # NoRow => obs'[k] # NoRow
  PROVE  StoredPeriods' # {} /\ NewestPeriod <= NewestPeriod'
<1>1. StoredPeriods \subseteq StoredPeriods'
  <2> SUFFICES ASSUME NEW p \in Periods, LatestRow(obs, TheSeries, p) # NoRow
               PROVE  LatestRow(obs', TheSeries, p) # NoRow
    BY DEF StoredPeriods, Latest
  <2>1. PICK v \in Vintages : obs[Key(p, v)] # NoRow
    BY LatestOf
  <2>2. obs'[Key(p, v)] # NoRow
    BY <2>1, KeysOfTheSeries
  <2> QED BY <2>2, LatestOf
<1>2. NewestPeriod \in StoredPeriods
  BY NewestPeriodIs
<1>3. StoredPeriods' # {} /\ \A q \in StoredPeriods' : q <= NewestPeriod'
  <2>1. StoredPeriods' # {}
    BY <1>1, <1>2
  <2>2. StoredPeriods' \subseteq Nat /\ IsFiniteSet(StoredPeriods')
    BY PresetAssumption, FS_Subset DEF StoredPeriods
  <2>3. \E p \in StoredPeriods' : \A q \in StoredPeriods' : q <= p
    <3>1. StoredPeriods' \subseteq Int
      BY <2>2
    <3> QED BY <2>1, <2>2, <3>1, MaxExists
  <2> QED BY <2>1, <2>3 DEF NewestPeriod
<1> QED BY <1>1, <1>2, <1>3

-------------------------------------------------------------------------------
(* Steps of a bootstrap that write nothing others can see *)

\* What is said of a job depends on the store, the provider and the job.
LEMMA JobFrame ==
  ASSUME NEW j \in Jobs, JobInv(j), jobs'[j] = jobs[j],
         UNCHANGED <<served, series, lanes, obs>>,
         \A l \in Lanes : jobs[l].pc = "done" => jobs'[l].pc = "done",
         jobs[j].lane \in Lanes \cup {NoLane}
  PROVE  JobInv(j)'
<1>1. LaneOfJob(j)'
  BY DEF JobInv, LaneOfJob
<1>2. Covers(j)'
  BY DEF JobInv, Covers, LaneIsThere, StoredPeriods, NewestPeriod, Latest
<1>3. AnswerOf(j)'
  BY DEF JobInv, AnswerOf, Asked
<1>4. Prepared(j)'
  <2>1. RowsOf(j)' = RowsOf(j)
    BY DEF RowsOf, Changed, Known, Seen
  <2> QED BY <2>1 DEF JobInv, Prepared
<1> QED BY <1>1, <1>2, <1>3, <1>4 DEF JobInv

\* So a step of one job is about that job: it must keep what is said of it, and hold
\* nothing that a reset has deleted.
LEMMA JobStep ==
  ASSUME PresetInv, NEW j \in Jobs, NEW from, from # "done", NEW new \in JobRecords,
         Step(j, from, new),
         JobInv(j)',
         \A l \in reset.gone.lanes : ~HoldsLane(j, l)',
         reset.gone.series => ~new.fresh
  PROVE  PresetInv'
<1> USE DEF PresetInv
<1>1. /\ jobs' = [jobs EXCEPT ![j] = new] /\ jobs[j].pc = from
      /\ UNCHANGED <<served, series, lanes, params, edged, logs, obs, reset, behind, releases,
                     post, writes>>
  BY DEF Step, rows
<1>2. jobs'[j] = new /\ \A k \in Jobs : k # j => jobs'[k] = jobs[k]
  BY <1>1
<1>3. jobs' \in [Jobs -> JobRecords]
  BY <1>1
<1>4. TypeOK'
  <2>1. \A k \in Jobs : jobs'[k].lane \in Lanes \cup {NoLane} /\ jobs'[k].write \in Tables
    BY <1>3 DEF JobRecords
  <2> QED BY <1>1, <2>1 DEF TypeOK
<1>5. \A l \in Jobs : jobs[l].pc = "done" => jobs'[l].pc = "done"
  BY <1>1, <1>2
<1>6. \A k \in Jobs : JobInv(k)'
  <2>1. ASSUME NEW k \in Jobs, k # j PROVE JobInv(k)'
    BY <1>1, <1>2, <1>5, <2>1, JobFrame DEF TypeOK, Lanes, Jobs
  <2> QED BY <2>1
<1>7. LanesInv'
  BY <1>1, <1>5 DEF LanesInv, TypeOK, Lanes, Jobs
<1>8. ResetInv'
  <2>1. \A k \in Jobs, l \in reset.gone.lanes : k # j => ~HoldsLane(k, l)'
    BY <1>2 DEF ResetInv, HoldsLane
  <2>2. reset.gone.series => \A k \in Jobs : ~jobs'[k].fresh
    BY <1>2 DEF ResetInv
  <2> QED BY <1>1, <2>1, <2>2 DEF ResetInv, LogsOf
<1>9. CurrentUnlessBehind'
  BY <1>1 DEF CurrentUnlessBehind, Latest
<1> QED BY <1>1, <1>3, <1>4, <1>6, <1>7, <1>8, <1>9

\* A job as it starts and as it ends.
LEMMA FreshJobType == FreshJob \in JobRecords
<1>1. EmptyTable \in Tables
  BY DEF EmptyTable, Tables
<1>2. Nothing \in [Periods -> Values \cup {NotServed}]
  BY DEF Nothing
<1> QED BY <1>1, <1>2 DEF FreshJob, JobRecords, JobSteps

\* A job that ends holds nothing and owes nothing.
LEMMA EndedJob ==
  ASSUME NEW j \in Jobs, jobs'[j] = [FreshJob EXCEPT !.pc = "done"]
  PROVE  JobInv(j)' /\ (\A l : ~HoldsLane(j, l)') /\ ~jobs'[j].fresh
<1>1. /\ jobs'[j].pc = "done" /\ jobs'[j].lane = NoLane /\ jobs'[j].fresh = FALSE
      /\ jobs'[j].reparam = FALSE /\ jobs'[j].write = EmptyTable
  BY DEF FreshJob
<1> QED BY <1>1 DEF JobInv, LaneOfJob, Covers, AnswerOf, Asked, Prepared, HoldsLane, EmptyTable

\* An import that fails.
LEMMA FailImportStep ==
  ASSUME PresetInv, NEW j \in Jobs, FailImport(j) PROVE PresetInv'
<1> DEFINE new == [FreshJob EXCEPT !.pc = "done"]
<1>1. Step(j, jobs[j].pc, new) /\ jobs[j].pc # "done"
  BY DEF FailImport
<1>2. jobs'[j] = new
  BY <1>1 DEF Step, PresetInv
<1>3. new \in JobRecords /\ ~new.fresh
  BY FreshJobType DEF JobRecords, JobSteps, FreshJob
<1> HIDE DEF new
<1>4. JobInv(j)' /\ (\A l : ~HoldsLane(j, l)')
  BY <1>2, EndedJob DEF new
<1> QED BY <1>1, <1>3, <1>4, JobStep

\* A job that only moves on, to where it has not found or asked anything.
LEMMA MoveStep ==
  ASSUME PresetInv, NEW j \in Jobs, NEW from, from # "done",
         NEW to \in {"find", "insert", "link", "failing"}, Step(j, from, At(j, to)),
         to # "failing" => ~jobs[j].reparam /\ ~jobs[j].fresh,
         to = "link" => series \/ jobs[j].new
  PROVE  PresetInv'
<1> DEFINE new == At(j, to)
<1>1. jobs[j] \in JobRecords /\ JobInv(j)
  BY DEF PresetInv
<1>2. new \in JobRecords /\ new = [jobs[j] EXCEPT !.pc = to]
  BY <1>1 DEF JobRecords, JobSteps, At
<1>3. /\ new.pc = to /\ new.lane = jobs[j].lane /\ new.fresh = jobs[j].fresh
      /\ new.reparam = jobs[j].reparam /\ new.write = jobs[j].write /\ new.new = jobs[j].new
  BY <1>1, <1>2 DEF JobRecords
<1> HIDE DEF new
<1>4. jobs'[j] = new /\ jobs' = [jobs EXCEPT ![j] = new]
      /\ UNCHANGED <<series, lanes, reset>> /\ jobs[j].pc = from
  BY DEF Step, PresetInv, rows, new
<1>5. LaneOfJob(j)'
  <2>1. \A l \in Jobs : jobs[l].pc = "done" => jobs'[l].pc = "done"
    BY <1>4 DEF PresetInv
  <2>2. jobs[j].lane \in Jobs \cup {NoLane}
    BY <1>1 DEF JobRecords, Lanes, Jobs
  <2> QED BY <1>1, <1>3, <1>4, <2>1, <2>2 DEF JobInv, LaneOfJob
<1>6. JobInv(j)'
  BY <1>1, <1>3, <1>4, <1>5 DEF JobInv, Covers, AnswerOf, Asked, Prepared
<1>7. \A l \in reset.gone.lanes : ~HoldsLane(j, l)'
  BY <1>3, <1>4 DEF PresetInv, ResetInv, HoldsLane
<1>8. reset.gone.series => ~new.fresh
  BY <1>3 DEF PresetInv, ResetInv
<1> QED BY <1>2, <1>6, <1>7, <1>8, JobStep DEF new

\* What Step says of the job and of everything else.
LEMMA StepEffect ==
  ASSUME PresetInv, NEW j \in Jobs, NEW from, NEW new, Step(j, from, new)
  PROVE  /\ jobs'[j] = new /\ jobs[j].pc = from
         /\ UNCHANGED <<served, series, lanes, obs, reset>>
         /\ from # "done" => \A l \in Jobs : jobs[l].pc = "done" => jobs'[l].pc = "done"
         /\ jobs[j] \in JobRecords /\ JobInv(j)
         /\ j \in Imports => DayOf[j] \in Vintages
BY PresetAssumption DEF Step, PresetInv, rows

\* _upsert_series, as far as it looks, and the load of what it finds.
LEMMA FindSeriesStep ==
  ASSUME PresetInv, NEW j \in Imports, FindSeries(j) PROVE PresetInv'
<1>0. j \in Jobs
  BY DEF Jobs
<1> DEFINE new == [At(j, "source") EXCEPT !.sources = lanes, !.held = obs]
<1>1. CASE Step(j, "find", At(j, "insert"))
  <2>1. ~jobs[j].reparam /\ ~jobs[j].fresh
    BY <1>0, <1>1, StepEffect DEF JobInv, LaneOfJob
  <2> QED BY <1>0, <1>1, <2>1, MoveStep
<1>2. CASE series /\ Step(j, "find", new)
  <2>1. jobs[j] \in JobRecords /\ JobInv(j) /\ jobs[j].pc = "find" /\ jobs'[j] = new
        /\ UNCHANGED <<series, lanes, reset>>
        /\ \A k \in Jobs : jobs[k].pc = "done" => jobs'[k].pc = "done"
    BY <1>0, <1>2, StepEffect
  <2>2. lanes \subseteq Lanes /\ obs \in Tables
    BY DEF PresetInv, TypeOK
  <2>3. /\ new \in JobRecords /\ new.pc = "source" /\ new.lane = jobs[j].lane
        /\ new.fresh = jobs[j].fresh /\ new.reparam = jobs[j].reparam
        /\ new.write = jobs[j].write
    BY <2>1, <2>2 DEF JobRecords, JobSteps, At
  <2>4. new.fresh = FALSE /\ new.reparam = FALSE /\ new.lane \in Jobs \cup {NoLane}
    BY <2>1, <2>3 DEF JobInv, LaneOfJob, JobRecords, Lanes, Jobs
  <2> HIDE DEF new
  <2>5. JobInv(j)'
    BY <1>2, <2>1, <2>3, <2>4 DEF JobInv, LaneOfJob, Covers, AnswerOf, Asked, Prepared
  <2>6. \A m \in reset.gone.lanes : ~HoldsLane(j, m)'
    BY <2>1, <2>3, <2>4 DEF HoldsLane
  <2> QED BY <1>0, <1>2, <2>3, <2>4, <2>5, <2>6, JobStep
<1> QED BY <1>1, <1>2 DEF FindSeries

\* _upsert_series_source, as far as it looks, and the load of a source that is new.
LEMMA FindSourceStep ==
  ASSUME PresetInv, NEW j \in Imports, FindSource(j) PROVE PresetInv'
<1>0. j \in Jobs
  BY DEF Jobs
<1>1. CASE Step(j, "source", At(j, "link"))
  <2>1. ~jobs[j].reparam /\ ~jobs[j].fresh
    BY <1>0, <1>1, StepEffect DEF JobInv, LaneOfJob
  <2>2. series \/ jobs[j].new
    BY <1>0, <1>1, StepEffect DEF JobInv, LaneOfJob
  <2> QED BY <1>0, <1>1, <2>1, <2>2, MoveStep
<1>2. ASSUME NEW l \in lanes, NEW held \in Tables,
             Step(j, "source", [At(j, "feed") EXCEPT !.lane = l, !.held = held])
      PROVE  PresetInv'
  <2> DEFINE new == [At(j, "feed") EXCEPT !.lane = l, !.held = held]
  <2>1. jobs[j] \in JobRecords /\ JobInv(j) /\ jobs[j].pc = "source" /\ jobs'[j] = new
        /\ UNCHANGED <<series, lanes, reset>>
        /\ \A k \in Jobs : jobs[k].pc = "done" => jobs'[k].pc = "done"
    BY <1>0, <1>2, StepEffect
  <2>2. l \in Imports /\ l \in Jobs /\ l # NoLane /\ jobs[l].pc = "done"
    BY PresetAssumption DEF PresetInv, TypeOK, LanesInv, Lanes, Jobs
  <2>3. /\ new \in JobRecords /\ new.pc = "feed" /\ new.lane = l /\ new.fresh = jobs[j].fresh
        /\ new.reparam = jobs[j].reparam /\ new.write = jobs[j].write
    BY <1>2, <2>1, <2>2 DEF JobRecords, JobSteps, At, Lanes
  <2>4. new.fresh = FALSE /\ new.reparam = FALSE
    BY <2>1, <2>3 DEF JobInv, LaneOfJob, JobRecords
  <2> HIDE DEF new
  <2>5. JobInv(j)'
    BY <2>1, <2>2, <2>3, <2>4 DEF JobInv, LaneOfJob, Covers, AnswerOf, Asked, Prepared
  <2>6. \A m \in reset.gone.lanes : ~HoldsLane(j, m)'
    BY <2>1, <2>3, <2>4 DEF HoldsLane
  <2> QED BY <1>0, <1>2, <2>3, <2>4, <2>5, <2>6, JobStep DEF new
<1>3. ASSUME NEW l \in lanes
      PROVE  (IF l \in jobs[j].sources THEN jobs[j].held
              ELSE Overlay(RowsOfLane(l), jobs[j].held)) \in Tables
  <2>1. jobs[j].held \in Tables /\ obs \in Tables
    BY <1>0 DEF PresetInv, JobRecords, TypeOK
  <2>2. RowsOfLane(l) \in Tables
    BY <2>1 DEF RowsOfLane, Tables
  <2>3. Overlay(RowsOfLane(l), jobs[j].held) \in Tables
    BY <2>1, <2>2 DEF Overlay, Tables
  <2> QED BY <2>1, <2>3
<1>4. ASSUME NEW l \in lanes,
             Step(j, "source", [At(j, "feed") EXCEPT !.lane = l,
               !.held = IF l \in jobs[j].sources THEN @ ELSE Overlay(RowsOfLane(l), @)])
      PROVE  PresetInv'
  <2> DEFINE held == IF l \in jobs[j].sources THEN jobs[j].held
                     ELSE Overlay(RowsOfLane(l), jobs[j].held)
  <2>1. At(j, "feed").held = jobs[j].held
    BY <1>0 DEF PresetInv, JobRecords, At
  <2>2. Step(j, "source", [At(j, "feed") EXCEPT !.lane = l, !.held = held])
    BY <1>4, <2>1
  <2>3. held \in Tables
    BY <1>3
  <2> HIDE DEF held
  <2> QED BY <1>2, <2>2, <2>3
<1> QED BY <1>1, <1>4 DEF FindSource

\* The insert of the series waits for another's, and fails if that was committed.
LEMMA InsertSeriesStep ==
  ASSUME PresetInv, NEW j \in Imports, InsertSeries(j) PROVE PresetInv'
<1>0. j \in Jobs
  BY DEF Jobs
<1>1. CASE Step(j, "insert", At(j, "failing"))
  BY <1>0, <1>1, MoveStep
<1>2. CASE Step(j, "insert", [At(j, "link") EXCEPT !.new = TRUE])
  <2> DEFINE new == [At(j, "link") EXCEPT !.new = TRUE]
  <2>1. jobs[j] \in JobRecords /\ JobInv(j) /\ jobs[j].pc = "insert" /\ jobs'[j] = new
        /\ UNCHANGED <<series, lanes, reset>>
        /\ \A k \in Jobs : jobs[k].pc = "done" => jobs'[k].pc = "done"
    BY <1>0, <1>2, StepEffect
  <2>2. /\ new \in JobRecords /\ new.pc = "link" /\ new.lane = jobs[j].lane
        /\ new.fresh = jobs[j].fresh /\ new.reparam = jobs[j].reparam
        /\ new.write = jobs[j].write /\ new.new = TRUE
    BY <2>1 DEF JobRecords, JobSteps, At
  <2>3. new.fresh = FALSE /\ new.reparam = FALSE /\ new.lane \in Jobs \cup {NoLane}
    BY <2>1, <2>2 DEF JobInv, LaneOfJob, JobRecords, Lanes, Jobs
  <2> HIDE DEF new
  <2>4. JobInv(j)'
    BY <2>1, <2>2, <2>3 DEF JobInv, LaneOfJob, Covers, AnswerOf, Asked, Prepared
  <2>5. \A m \in reset.gone.lanes : ~HoldsLane(j, m)'
    BY <2>1, <2>2, <2>3 DEF HoldsLane
  <2> QED BY <1>0, <1>2, <2>2, <2>3, <2>4, <2>5, JobStep DEF new
<1> QED BY <1>1, <1>2 DEF InsertSeries

\* A source is made for a series that is there or the job's own, and locks it: no
\* reset has deleted it.
LEMMA LinkSourceStep ==
  ASSUME PresetInv, NEW j \in Imports, LinkSource(j) PROVE PresetInv'
<1>0. j \in Jobs
  BY DEF Jobs
<1> DEFINE new == [At(j, "resolve") EXCEPT !.lane = j, !.fresh = TRUE]
<1>1. Step(j, "link", new) /\ ~reset.gone.series
  BY DEF LinkSource
<1>2. jobs[j] \in JobRecords /\ JobInv(j) /\ jobs[j].pc = "link" /\ jobs'[j] = new
      /\ UNCHANGED <<series, lanes, reset>>
  BY <1>0, <1>1, StepEffect
<1>3. /\ new \in JobRecords /\ new.pc = "resolve" /\ new.lane = j /\ new.new = jobs[j].new
      /\ new.fresh = TRUE /\ new.reparam = jobs[j].reparam /\ new.write = jobs[j].write
  BY <1>2 DEF JobRecords, JobSteps, At, Lanes
<1>4. new.reparam = FALSE /\ (series \/ jobs[j].new)
  BY <1>2, <1>3 DEF JobInv, LaneOfJob, JobRecords
<1> HIDE DEF new
<1>5. j # NoLane
  BY PresetAssumption DEF Lanes
<1>6. JobInv(j)'
  BY <1>2, <1>3, <1>4, <1>5 DEF JobInv, LaneOfJob, Covers, AnswerOf, Asked, Prepared
<1>7. \A m \in reset.gone.lanes : ~HoldsLane(j, m)'
  BY <1>2, <1>3, <1>4 DEF HoldsLane
<1> QED BY <1>0, <1>1, <1>3, <1>6, <1>7, JobStep

\* The feed's parameters are set back, under its lock, unless they are the default.
LEMMA UpsertFeedStep ==
  ASSUME PresetInv, NEW j \in Imports, UpsertFeed(j) PROVE PresetInv'
<1>0. j \in Jobs
  BY DEF Jobs
<1> DEFINE l == jobs[j].lane
           new == [At(j, "resolve") EXCEPT !.reparam = params[l] # Default]
<1>1. CASE Step(j, "feed", At(j, "failing"))
  BY <1>0, <1>1, MoveStep
<1>2. CASE Step(j, "feed", new)
  <2>1. jobs[j] \in JobRecords /\ JobInv(j) /\ jobs[j].pc = "feed" /\ jobs'[j] = new
        /\ UNCHANGED <<series, lanes, reset>>
        /\ \A k \in Jobs : jobs[k].pc = "done" => jobs'[k].pc = "done"
    BY <1>0, <1>2, StepEffect
  <2>2. /\ new \in JobRecords /\ new.pc = "resolve" /\ new.lane = l
        /\ new.fresh = jobs[j].fresh /\ new.reparam = (params[l] # Default)
        /\ new.write = jobs[j].write
    BY <2>1 DEF JobRecords, JobSteps, At
  <2>3. new.fresh = FALSE /\ l # NoLane /\ l \in Jobs
    BY <2>1, <2>2 DEF JobInv, LaneOfJob, JobRecords, Lanes, Jobs
  <2>4. params[l] # Default => l \notin reset.gone.lanes
    BY DEF UpsertFeed
  <2> HIDE DEF new
  <2>5. JobInv(j)'
    BY <2>1, <2>2, <2>3 DEF JobInv, LaneOfJob, Covers, AnswerOf, Asked, Prepared
  <2>6. \A m \in reset.gone.lanes : ~HoldsLane(j, m)'
    BY <2>1, <2>2, <2>4 DEF HoldsLane
  <2> QED BY <1>0, <1>2, <2>2, <2>3, <2>5, <2>6, JobStep
<1> QED BY <1>1, <1>2 DEF UpsertFeed

\* The start of the window covers the overlap before what is the newest period now.
LEMMA ResolveStartStep ==
  ASSUME PresetInv, NEW j \in Imports, ResolveStart(j) PROVE PresetInv'
<1>0. j \in Jobs
  BY DEF Jobs
<1> DEFINE start == ObservationStart(Overlap)
           new == [At(j, "fetch") EXCEPT !.start = start]
<1>1. Step(j, "resolve", new)
  BY DEF ResolveStart
<1>2. jobs[j] \in JobRecords /\ JobInv(j) /\ jobs[j].pc = "resolve" /\ jobs'[j] = new
      /\ UNCHANGED <<series, lanes, obs, reset>>
      /\ \A k \in Jobs : jobs[k].pc = "done" => jobs'[k].pc = "done"
  BY <1>0, <1>1, StepEffect
<1>3. start \in Int
      /\ (start = 0 \/ (StoredPeriods # {} /\ start <= NewestPeriod - Overlap))
  BY NewestPeriodIs, PresetAssumption DEF ObservationStart
<1> HIDE DEF start
<1>4. /\ new \in JobRecords /\ new.pc = "fetch" /\ new.start = start
      /\ new.lane = jobs[j].lane /\ new.fresh = jobs[j].fresh /\ new.new = jobs[j].new
      /\ new.reparam = jobs[j].reparam /\ new.write = jobs[j].write
  BY <1>2, <1>3 DEF JobRecords, JobSteps, At
<1> HIDE DEF new
<1>5. LaneOfJob(j)'
  BY <1>2, <1>4 DEF JobInv, LaneOfJob, JobRecords, Lanes, Jobs
<1>6. StoredPeriods' = StoredPeriods /\ NewestPeriod' = NewestPeriod
  BY <1>2 DEF StoredPeriods, NewestPeriod, Latest
<1>7. JobInv(j)'
  BY <1>2, <1>3, <1>4, <1>5, <1>6 DEF JobInv, Covers, AnswerOf, Asked, Prepared
<1>8. \A m \in reset.gone.lanes : ~HoldsLane(j, m)'
  BY <1>0, <1>2, <1>4 DEF HoldsLane, PresetInv, ResetInv
<1>9. reset.gone.series => ~new.fresh
  BY <1>0, <1>4 DEF PresetInv, ResetInv
<1> QED BY <1>0, <1>1, <1>4, <1>7, <1>8, <1>9, JobStep

\* The provider answers with what it serves from the start of the window.
LEMMA FetchStep ==
  ASSUME PresetInv, NEW j \in Imports, Fetch(j) PROVE PresetInv'
<1>0. j \in Jobs
  BY DEF Jobs
<1> DEFINE answer == [p \in Periods |-> IF p >= jobs[j].start THEN served[p] ELSE NotServed]
           new == [At(j, "compare") EXCEPT !.since = {}, !.fetched = answer]
<1>1. CASE Step(j, "fetch", At(j, "failing"))
  BY <1>0, <1>1, MoveStep
<1>2. CASE Step(j, "fetch", new)
  <2>1. jobs[j] \in JobRecords /\ JobInv(j) /\ jobs[j].pc = "fetch" /\ jobs'[j] = new
        /\ UNCHANGED <<served, series, lanes, obs, reset>>
        /\ \A k \in Jobs : jobs[k].pc = "done" => jobs'[k].pc = "done"
    BY <1>0, <1>2, StepEffect
  <2>2. answer \in [Periods -> Values \cup {NotServed}]
    BY DEF PresetInv, TypeOK
  <2>3. \A p \in Periods : answer[p] = IF p >= jobs[j].start THEN served[p] ELSE NotServed
    OBVIOUS
  <2> HIDE DEF answer
  <2>4. /\ new \in JobRecords /\ new.pc = "compare" /\ new.start = jobs[j].start
        /\ new.since = {} /\ new.fetched = answer
        /\ new.lane = jobs[j].lane /\ new.fresh = jobs[j].fresh /\ new.new = jobs[j].new
        /\ new.reparam = jobs[j].reparam /\ new.write = jobs[j].write
    BY <2>1, <2>2 DEF JobRecords, JobSteps, At
  <2> HIDE DEF new
  <2>5. LaneOfJob(j)'
    BY <2>1, <2>4 DEF JobInv, LaneOfJob, JobRecords, Lanes, Jobs
  <2>6. StoredPeriods' = StoredPeriods /\ NewestPeriod' = NewestPeriod
    BY <2>1 DEF StoredPeriods, NewestPeriod, Latest
  <2>7. Covers(j)'
    BY <2>1, <2>4, <2>6 DEF JobInv, Covers, LaneIsThere
  <2>8. JobInv(j)'
    BY <2>1, <2>3, <2>4, <2>5, <2>7 DEF JobInv, AnswerOf, Asked, Prepared
  <2>9. \A m \in reset.gone.lanes : ~HoldsLane(j, m)'
    BY <1>0, <2>1, <2>4 DEF HoldsLane, PresetInv, ResetInv
  <2>10. reset.gone.series => ~new.fresh
    BY <1>0, <2>4 DEF PresetInv, ResetInv
  <2> QED BY <1>0, <1>2, <2>4, <2>8, <2>9, <2>10, JobStep
<1> QED BY <1>1, <1>2 DEF Fetch

\* The rows a job calls for are rows of the table, its own.
LEMMA RowsOfType ==
  ASSUME PresetInv, NEW j \in Imports, jobs[j] \in JobRecords
  PROVE  /\ RowsOf(j) \in Tables
         /\ \A k \in Keys : RowsOf(j)[k] # NoRow => RowsOf(j)[k].log = j
<1>1. ASSUME NEW k \in Keys, jobs[j].fetched[k[2]] # NotServed
      PROVE  [value |-> jobs[j].fetched[k[2]], log |-> j] \in Rows
  <2>1. jobs[j].fetched \in [Periods -> Values \cup {NotServed}] /\ k[2] \in Periods
    BY KeysOfTheSeries DEF JobRecords
  <2> QED BY <1>1, <2>1, PresetAssumption DEF Rows, Jobs
<1> QED BY <1>1 DEF RowsOf, Tables

\* The feed is locked against a reset from here, and the rows are what the answer
\* calls for now.
LEMMA CompareStep ==
  ASSUME PresetInv, NEW j \in Imports, Compare(j) PROVE PresetInv'
<1>0. j \in Jobs
  BY DEF Jobs
<1> DEFINE w == RowsOf(j)
           new == [At(j, "upsert") EXCEPT !.alone = TRUE, !.write = w]
<1>1. CASE Step(j, "compare", At(j, "failing"))
  BY <1>0, <1>1, MoveStep
<1>2. CASE LaneIsThere(j) /\ Step(j, "compare", new)
  <2>1. jobs[j] \in JobRecords /\ JobInv(j) /\ jobs[j].pc = "compare" /\ jobs'[j] = new
        /\ UNCHANGED <<served, series, lanes, obs, reset>>
        /\ \A k \in Jobs : jobs[k].pc = "done" => jobs'[k].pc = "done"
    BY <1>0, <1>2, StepEffect
  <2>2. w \in Tables /\ \A k \in Keys : w[k] # NoRow => w[k].log = j
    BY <2>1, RowsOfType
  <2> HIDE DEF w
  <2>3. /\ new \in JobRecords /\ new.pc = "upsert" /\ new.start = jobs[j].start
        /\ new.since = jobs[j].since /\ new.fetched = jobs[j].fetched
        /\ new.lane = jobs[j].lane /\ new.fresh = jobs[j].fresh /\ new.new = jobs[j].new
        /\ new.reparam = jobs[j].reparam /\ new.write = w /\ new.held = jobs[j].held
    BY <2>1, <2>2 DEF JobRecords, JobSteps, At
  <2> HIDE DEF new
  <2>4. LaneOfJob(j)'
    BY <1>2, <2>1, <2>3 DEF JobInv, LaneOfJob, LaneIsThere, JobRecords, Lanes, Jobs
  <2>5. StoredPeriods' = StoredPeriods /\ NewestPeriod' = NewestPeriod
    BY <2>1 DEF StoredPeriods, NewestPeriod, Latest
  <2>6. Covers(j)'
    BY <2>1, <2>3, <2>5 DEF JobInv, Covers, LaneIsThere
  <2>7. RowsOf(j)' = w
    BY <2>1, <2>3 DEF RowsOf, Changed, Known, Seen, w
  <2>8. JobInv(j)'
    BY <2>1, <2>2, <2>3, <2>4, <2>6, <2>7 DEF JobInv, AnswerOf, Asked, Prepared
  <2>9. \A m \in reset.gone.lanes : ~HoldsLane(j, m)'
    BY <2>1, <2>3 DEF HoldsLane, Compare
  <2>10. reset.gone.series => ~new.fresh
    BY <1>0, <2>3 DEF PresetInv, ResetInv
  <2> QED BY <1>0, <1>2, <2>3, <2>8, <2>9, <2>10, JobStep
<1> QED BY <1>1, <1>2 DEF Compare, LaneIsThere, RowsOf

\* The upsert takes the locks of its rows.
LEMMA UpsertStep ==
  ASSUME PresetInv, NEW j \in Imports, Upsert(j) PROVE PresetInv'
<1>0. j \in Jobs
  BY DEF Jobs
<1> DEFINE new == At(j, "commit")
<1>1. Step(j, "upsert", new)
  BY DEF Upsert
<1>2. jobs[j] \in JobRecords /\ JobInv(j) /\ jobs[j].pc = "upsert" /\ jobs'[j] = new
      /\ UNCHANGED <<served, series, lanes, obs, reset>>
      /\ \A k \in Jobs : jobs[k].pc = "done" => jobs'[k].pc = "done"
  BY <1>0, <1>1, StepEffect
<1>3. /\ new \in JobRecords /\ new.pc = "commit" /\ new.start = jobs[j].start
      /\ new.since = jobs[j].since /\ new.fetched = jobs[j].fetched
      /\ new.lane = jobs[j].lane /\ new.fresh = jobs[j].fresh /\ new.new = jobs[j].new
      /\ new.reparam = jobs[j].reparam /\ new.write = jobs[j].write
      /\ new.alone = jobs[j].alone /\ new.held = jobs[j].held
  BY <1>2 DEF JobRecords, JobSteps, At
<1> HIDE DEF new
<1>4. LaneOfJob(j)'
  BY <1>2, <1>3 DEF JobInv, LaneOfJob, JobRecords, Lanes, Jobs
<1>5. StoredPeriods' = StoredPeriods /\ NewestPeriod' = NewestPeriod
  BY <1>2 DEF StoredPeriods, NewestPeriod, Latest
<1>6. Covers(j)'
  BY <1>2, <1>3, <1>5 DEF JobInv, Covers, LaneIsThere
<1>7. RowsOf(j)' = RowsOf(j)
  BY <1>2, <1>3 DEF RowsOf, Changed, Known, Seen
<1>8. JobInv(j)'
  BY <1>2, <1>3, <1>4, <1>6, <1>7 DEF JobInv, AnswerOf, Asked, Prepared
<1>9. \A m \in reset.gone.lanes : ~HoldsLane(j, m)'
  BY <1>0, <1>2, <1>3 DEF HoldsLane, PresetInv, ResetInv
<1>10. reset.gone.series => ~new.fresh
  BY <1>0, <1>3 DEF PresetInv, ResetInv
<1> QED BY <1>0, <1>1, <1>3, <1>8, <1>9, <1>10, JobStep

\* A step of a bootstrap that is not its commit.
LEMMA ImportSteps ==
  ASSUME PresetInv, NEW j \in Imports, StartImport(j) \/ ImportStep(j) PROVE PresetInv'
<1>1. CASE StartImport(j)
  <2>1. j \in Jobs /\ Step(j, "idle", At(j, "find"))
    BY <1>1 DEF StartImport, Jobs
  <2>2. ~jobs[j].reparam /\ ~jobs[j].fresh
    BY <2>1, StepEffect DEF JobInv, LaneOfJob
  <2> QED BY <2>1, <2>2, MoveStep
<1>2. CASE ImportStep(j)
  BY <1>2, FindSeriesStep, FindSourceStep, InsertSeriesStep, LinkSourceStep, UpsertFeedStep, ResolveStartStep,
     FetchStep, CompareStep, UpsertStep DEF ImportStep
<1> QED BY <1>1, <1>2

-------------------------------------------------------------------------------
(* Steps of the reset before its commit *)

\* They change nothing but what the reset knows and has locked.
LEMMA ResetFrame ==
  ASSUME PresetInv, reset' \in ResetRecords, ResetInv',
         UNCHANGED <<served, rows, jobs, behind, releases, post, writes>>
  PROVE  PresetInv'
<1> USE DEF PresetInv, rows
<1>1. \A j \in Jobs : JobInv(j)'
  BY JobFrame DEF JobRecords
<1>2. TypeOK' /\ LanesInv' /\ CurrentUnlessBehind'
  BY DEF TypeOK, LanesInv, CurrentUnlessBehind, Latest
<1> QED BY <1>1, <1>2

\* A statement of the reset, and its failure.
LEMMA ResetSteps1 ==
  ASSUME PresetInv, StartReset \/ ReadRunLogs \/ DeleteObservations PROVE PresetInv'
<1>1. reset \in ResetRecords /\ ResetInv
  BY DEF PresetInv
<1>2. /\ reset' \in ResetRecords /\ reset'.pc \notin {"series", "commit", "failing"}
      /\ reset.pc \notin {"series", "commit", "failing"}
      /\ reset'.gone.lanes = reset.gone.lanes /\ reset'.gone.series = reset.gone.series
      /\ reset'.gone.logs = reset.gone.logs
  <2>1. CASE StartReset
    BY <1>1, <2>1 DEF StartReset, ResetStep, ResetAt, ResetRecords, KeptRecords, ResetSteps,
                      PresetInv, TypeOK
  <2>2. CASE ReadRunLogs
    <3>1. {log.job : log \in LogsOf(reset.lanes)} \subseteq Jobs
      BY DEF LogsOf, PresetInv, TypeOK
    <3> QED BY <1>1, <2>2, <3>1
            DEF ReadRunLogs, ResetStep, ResetAt, ResetRecords, KeptRecords, ResetSteps
  <2>3. CASE DeleteObservations
    BY <1>1, <2>3 DEF DeleteObservations, ResetStep, ResetAt, ResetRecords, KeptRecords, ResetSteps
  <2> QED BY <2>1, <2>2, <2>3
<1>3. UNCHANGED <<served, rows, jobs, behind, releases, post, writes>>
  BY DEF StartReset, ReadRunLogs, DeleteObservations, ResetStep
<1>4. ResetInv'
  BY <1>1, <1>2, <1>3 DEF ResetInv, HoldsLane, LogsOf, rows
<1> QED BY <1>2, <1>3, <1>4, ResetFrame

\* A statement that fails leaves the locks until the rollback.
LEMMA RefusedStep ==
  ASSUME PresetInv, NEW from, ResetStep(from, ResetAt("failing")) PROVE PresetInv'
<1>1. reset \in ResetRecords /\ ResetInv
  BY DEF PresetInv
<1>2. reset' \in ResetRecords /\ reset'.gone = reset.gone /\ reset'.pc = "failing"
      /\ UNCHANGED <<served, rows, jobs, behind, releases, post, writes>>
  BY <1>1 DEF ResetStep, ResetAt, ResetRecords, ResetSteps
<1>3. ResetInv'
  BY <1>1, <1>2 DEF ResetInv, HoldsLane, LogsOf, rows
<1> QED BY <1>2, <1>3, ResetFrame

\* A rollback gives everything back.
LEMMA FailResetStep ==
  ASSUME PresetInv, FailReset PROVE PresetInv'
<1>1. /\ reset' \in ResetRecords /\ reset'.pc = "done"
      /\ reset'.gone.lanes = {} /\ reset'.gone.logs = {} /\ ~reset'.gone.series
      /\ UNCHANGED <<served, rows, jobs, behind, releases, post, writes>>
  BY DEF FailReset, ResetStep, FreshReset, Kept, ResetRecords, KeptRecords, ResetSteps
<1>2. ResetInv'
  BY <1>1 DEF ResetInv, LogsOf
<1> QED BY <1>1, <1>2, ResetFrame

\* The run logs of the feeds whose ids were read.
LEMMA DeleteRunLogsStep ==
  ASSUME PresetInv, DeleteRunLogs PROVE PresetInv'
<1> DEFINE new == [ResetAt("feeds") EXCEPT !.gone.logs = LogsOf(reset.lanes)]
<1>1. CASE ResetStep("logs", ResetAt("failing"))
  BY <1>1, RefusedStep
<1>2. CASE ResetStep("logs", new)
  <2>1. reset \in ResetRecords /\ ResetInv /\ LogsOf(reset.lanes) \subseteq [job : Jobs, lane : Lanes]
    BY DEF PresetInv, LogsOf, TypeOK
  <2>2. /\ reset' \in ResetRecords /\ reset'.pc = "feeds" /\ reset.pc = "logs"
        /\ reset'.gone.lanes = reset.gone.lanes /\ reset'.gone.series = reset.gone.series
        /\ UNCHANGED <<served, rows, jobs, behind, releases, post, writes>>
    BY <1>2, <2>1 DEF ResetStep, ResetAt, ResetRecords, KeptRecords, ResetSteps
  <2>3. ResetInv'
    BY <2>1, <2>2 DEF ResetInv, LogsOf
  <2> QED BY <2>2, <2>3, ResetFrame
<1> QED BY <1>1, <1>2 DEF DeleteRunLogs, ResetUnless

\* The feeds, which nobody holds, with no log left but those that are deleted.
LEMMA DeleteFeedsStep ==
  ASSUME PresetInv, DeleteFeeds PROVE PresetInv'
<1> DEFINE new == [ResetAt("series") EXCEPT !.gone.lanes = reset.lanes]
<1>1. CASE ResetStep("feeds", ResetAt("failing"))
  BY <1>1, RefusedStep
<1>2. CASE LogsOf(reset.lanes) \ reset.gone.logs = {} /\ ResetStep("feeds", new)
  <2>1. reset \in ResetRecords /\ ResetInv
    BY DEF PresetInv
  <2>2. /\ reset' \in ResetRecords /\ reset'.pc = "series" /\ reset.pc = "feeds"
        /\ reset'.gone.lanes = reset.lanes /\ reset'.gone.series = reset.gone.series
        /\ reset'.gone.logs = reset.gone.logs
        /\ UNCHANGED <<served, rows, jobs, behind, releases, post, writes>>
    BY <1>2, <2>1 DEF ResetStep, ResetAt, ResetRecords, KeptRecords, ResetSteps
  <2>3. \A l \in reset.lanes : \A j \in Jobs : ~HoldsLane(j, l)
    BY DEF DeleteFeeds, FeedsWait
  <2>4. ResetInv'
    BY <1>2, <2>1, <2>2, <2>3 DEF ResetInv, HoldsLane, LogsOf, rows
  <2> QED BY <2>2, <2>4, ResetFrame
<1> QED BY <1>1, <1>2 DEF DeleteFeeds, ResetUnless

\* The series: every source has a run log, so one that was made after the ids were
\* read is refused, and nothing but what is deleted hangs on the series.
LEMMA DeleteSeriesStep ==
  ASSUME PresetInv, DeleteSeries PROVE PresetInv'
<1> DEFINE new == [ResetAt("commit") EXCEPT !.gone.lanes = lanes, !.gone.series = TRUE]
<1>1. CASE ResetStep("series", ResetAt("failing"))
  BY <1>1, RefusedStep
<1>2. CASE /\ ~edged
           /\ \A k \in Keys \ reset.gone.obs : obs[k] = NoRow
           /\ LogsOf(lanes \ reset.gone.lanes) = {}
           /\ ResetStep("series", new)
  <2>1. reset \in ResetRecords /\ ResetInv /\ lanes \subseteq Lanes
    BY DEF PresetInv, TypeOK
  <2>2. /\ reset' \in ResetRecords /\ reset'.pc = "commit"
        /\ reset'.gone.lanes = lanes /\ reset'.gone.series = TRUE
        /\ reset'.gone.logs = reset.gone.logs /\ reset'.gone.obs = reset.gone.obs
        /\ UNCHANGED <<served, rows, jobs, behind, releases, post, writes>>
    BY <1>2, <2>1 DEF ResetStep, ResetAt, ResetRecords, KeptRecords, ResetSteps
  <2>3. lanes \subseteq reset.gone.lanes
    BY <1>2 DEF PresetInv, LanesInv, LogsOf
  <2>4. \A j \in Jobs : ~jobs[j].fresh
    BY DEF DeleteSeries, SeriesWaits, HoldsSeries
  <2>5. ResetInv'
    BY <1>2, <2>1, <2>2, <2>3, <2>4 DEF ResetInv, HoldsLane, LogsOf, rows
  <2> QED BY <2>2, <2>5, ResetFrame
<1> QED BY <1>1, <1>2 DEF DeleteSeries, ResetUnless

-------------------------------------------------------------------------------
(* Steps that change rows *)

\* A write that others see costs every job that has asked its own view of the store.
LEMMA DisturbedJob ==
  ASSUME jobs \in [Jobs -> JobRecords]
  PROVE  /\ Disturbed(jobs) \in [Jobs -> JobRecords]
         /\ \A j \in Jobs : \E b \in BOOLEAN :
              Disturbed(jobs)[j] = [jobs[j] EXCEPT !.alone = b] /\ (Asked(j) => ~b)
<1>1. ASSUME NEW j \in Jobs
      PROVE  \E b \in BOOLEAN :
               Disturbed(jobs)[j] = [jobs[j] EXCEPT !.alone = b] /\ (Asked(j) => ~b)
  <2>1. jobs[j] \in JobRecords
    OBVIOUS
  <2>2. jobs[j] = [jobs[j] EXCEPT !.alone = jobs[j].alone] /\ jobs[j].alone \in BOOLEAN
    BY <2>1 DEF JobRecords
  <2>3. Disturbed(jobs)[j] = IF Asked(j) THEN [jobs[j] EXCEPT !.alone = FALSE] ELSE jobs[j]
    BY DEF Disturbed
  <2>4. CASE Asked(j)
    BY <2>3, <2>4
  <2>5. CASE ~Asked(j)
    BY <2>2, <2>3, <2>5
  <2> QED BY <2>4, <2>5
<1>2. \A j \in Jobs : Disturbed(jobs)[j] \in JobRecords
  <2> SUFFICES ASSUME NEW j \in Jobs PROVE Disturbed(jobs)[j] \in JobRecords
    OBVIOUS
  <2>1. PICK b \in BOOLEAN : Disturbed(jobs)[j] = [jobs[j] EXCEPT !.alone = b]
    BY <1>1
  <2> QED BY <2>1 DEF JobRecords
<1>3. Disturbed(jobs) = [j \in Jobs |-> Disturbed(jobs)[j]]
  BY DEF Disturbed
<1> QED BY <1>1, <1>2, <1>3

\* Losing its own view of the store changes nothing else of a job.
LEMMA SameButAlone ==
  ASSUME jobs \in [Jobs -> JobRecords], NEW j \in Jobs,
         \E b \in BOOLEAN : jobs'[j] = [jobs[j] EXCEPT !.alone = b]
  PROVE  /\ jobs'[j].pc = jobs[j].pc /\ jobs'[j].new = jobs[j].new
         /\ jobs'[j].lane = jobs[j].lane
         /\ jobs'[j].fresh = jobs[j].fresh /\ jobs'[j].reparam = jobs[j].reparam
<1>1. jobs[j] \in JobRecords
  OBVIOUS
<1>2. PICK b \in BOOLEAN : jobs'[j] = [jobs[j] EXCEPT !.alone = b]
  OBVIOUS
<1> QED BY <1>1, <1>2 DEF JobRecords

\* A job beside one that changes rows: it loses at most its own view of the store, its
\* source is there as before, and the newest stored period has only moved on.
LEMMA JobBeside ==
  ASSUME PresetInv, NEW j \in Jobs, NEW b \in BOOLEAN,
         jobs'[j] = [jobs[j] EXCEPT !.alone = b], served' = served,
         Asked(j) => (~b \/ (obs' = obs /\ b = jobs[j].alone)),
         \A l \in Jobs : jobs[l].pc = "done" => jobs'[l].pc = "done",
         series => series',
         jobs[j].lane # NoLane /\ ~jobs[j].fresh => (jobs[j].lane \in lanes' <=> jobs[j].lane \in lanes),
         \A k \in Keys : obs[k] # NoRow => obs'[k] # NoRow
  PROVE  JobInv(j)'
<1>1. jobs[j] \in JobRecords /\ JobInv(j)
  BY DEF PresetInv
<1>2. /\ jobs'[j].pc = jobs[j].pc /\ jobs'[j].new = jobs[j].new /\ jobs'[j].lane = jobs[j].lane
      /\ jobs'[j].fresh = jobs[j].fresh /\ jobs'[j].reparam = jobs[j].reparam
      /\ jobs'[j].start = jobs[j].start /\ jobs'[j].fetched = jobs[j].fetched
      /\ jobs'[j].write = jobs[j].write /\ jobs'[j].since = jobs[j].since
      /\ jobs'[j].alone = b /\ jobs'[j].held = jobs[j].held
  BY <1>1 DEF JobRecords
<1>3. jobs[j].lane \in Jobs \cup {NoLane} /\ jobs[j].start \in Int
  BY <1>1 DEF JobRecords, Lanes, Jobs
<1>4. LaneOfJob(j)'
  BY <1>1, <1>2, <1>3 DEF JobInv, LaneOfJob
<1>5. Covers(j)'
  <2>1. CASE jobs[j].pc \notin {"fetch", "compare", "upsert", "commit"} \/ ~LaneIsThere(j)'
    BY <1>2, <2>1 DEF Covers
  <2>2. CASE jobs[j].pc \in {"fetch", "compare", "upsert", "commit"} /\ LaneIsThere(j)'
    <3>1. LaneIsThere(j)
      BY <1>1, <1>2, <2>2 DEF LaneIsThere, JobInv, LaneOfJob
    <3>2. CASE jobs[j].start = 0
      BY <1>2, <3>2 DEF Covers
    <3>3. CASE StoredPeriods # {} /\ jobs[j].start <= NewestPeriod - Overlap
      <4>1. StoredPeriods' # {} /\ NewestPeriod <= NewestPeriod'
        BY <3>3, NewestPeriodGrows
      <4>2. NewestPeriod' \in Int /\ NewestPeriod \in Int /\ Overlap \in Int
        <5>1. NewestPeriod' \in StoredPeriods'
          <6>1. StoredPeriods' \subseteq Int /\ IsFiniteSet(StoredPeriods')
            BY PresetAssumption, FS_Subset DEF StoredPeriods
          <6>2. \E p \in StoredPeriods' : \A q \in StoredPeriods' : q <= p
            BY <4>1, <6>1, MaxExists
          <6> QED BY <6>2 DEF NewestPeriod
        <5>2. StoredPeriods' \subseteq Int
          BY PresetAssumption DEF StoredPeriods
        <5> QED BY <3>3, <5>1, <5>2, NewestPeriodIs, PresetAssumption
      <4>3. jobs[j].start <= NewestPeriod' - Overlap
        BY <1>3, <3>3, <4>1, <4>2
      <4> QED BY <1>2, <4>1, <4>3 DEF Covers
    <3> QED BY <1>1, <2>2, <3>1, <3>2, <3>3 DEF JobInv, Covers
  <2> QED BY <2>1, <2>2
<1>6. AnswerOf(j)'
  BY <1>1, <1>2 DEF JobInv, AnswerOf, Asked
<1>7. Prepared(j)'
  <2>1. CASE obs' = obs
    <3>1. RowsOf(j)' = RowsOf(j)
      BY <1>2, <2>1 DEF RowsOf, Changed, Known, Seen
    <3>2. jobs[j].pc \in {"upsert", "commit"} /\ b => jobs[j].alone
      BY DEF Asked
    <3> QED BY <1>1, <1>2, <3>1, <3>2 DEF JobInv, Prepared
  <2>2. CASE obs' # obs
    BY <1>1, <1>2, <2>2 DEF JobInv, Prepared, Asked
  <2> QED BY <2>1, <2>2
<1> QED BY <1>4, <1>5, <1>6, <1>7 DEF JobInv

\* A release is since every answer that jobs are working with.
LEMMA ReleaseStep ==
  ASSUME PresetInv, NEW p \in Periods, NEW v \in Values, Release(p, v) PROVE PresetInv'
<1> USE DEF PresetInv
<1>1. /\ served' = [served EXCEPT ![p] = v] /\ behind' = behind \cup {p}
      /\ releases < MaxReleases /\ releases' = releases + 1
      /\ UNCHANGED <<series, lanes, params, edged, logs, obs, reset, post, writes>>
  BY DEF Release, rows
<1>2. \A j \in Jobs : jobs'[j] = IF Asked(j) THEN [jobs[j] EXCEPT !.since = @ \cup {p}] ELSE jobs[j]
  BY DEF Release
<1>3. ASSUME NEW j \in Jobs
      PROVE  /\ jobs'[j] \in JobRecords
             /\ jobs'[j].pc = jobs[j].pc /\ jobs'[j].new = jobs[j].new
             /\ jobs'[j].lane = jobs[j].lane /\ jobs'[j].fresh = jobs[j].fresh
             /\ jobs'[j].reparam = jobs[j].reparam /\ jobs'[j].start = jobs[j].start
             /\ jobs'[j].fetched = jobs[j].fetched /\ jobs'[j].write = jobs[j].write
             /\ jobs'[j].alone = jobs[j].alone /\ jobs'[j].held = jobs[j].held
             /\ Asked(j) => jobs'[j].since = jobs[j].since \cup {p}
  <2>1. jobs[j] \in JobRecords
    OBVIOUS
  <2>2. CASE Asked(j)
    <3>1. jobs'[j] = [jobs[j] EXCEPT !.since = jobs[j].since \cup {p}]
      BY <1>2, <2>2
    <3> HIDE DEF PresetInv
    <3> QED BY <2>1, <2>2, <3>1 DEF JobRecords
  <2>3. CASE ~Asked(j)
    BY <1>2, <2>1, <2>3
  <2> QED BY <2>2, <2>3
<1>4. jobs' \in [Jobs -> JobRecords]
  <2> DEFINE new(j) == IF Asked(j) THEN [jobs[j] EXCEPT !.since = @ \cup {p}] ELSE jobs[j]
  <2>1. jobs' = [j \in Jobs |-> new(j)]
    BY DEF Release
  <2>2. \A j \in Jobs : new(j) \in JobRecords
    BY <1>2, <1>3
  <2> HIDE DEF new
  <2> QED BY <2>1, <2>2
<1>5. TypeOK'
  <2>1. releases' \in 0..MaxReleases
    BY <1>1, PresetAssumption DEF TypeOK
  <2>2. \A j \in Jobs : jobs'[j].lane \in Lanes \cup {NoLane} /\ jobs'[j].write \in Tables
    BY <1>3 DEF JobRecords
  <2>3. served' \in [Periods -> Values \cup {NotServed}] /\ behind' \subseteq Periods
    BY <1>1 DEF TypeOK
  <2> QED BY <1>1, <2>1, <2>2, <2>3 DEF TypeOK
<1>6. ASSUME NEW j \in Jobs PROVE JobInv(j)'
  <2>1. JobInv(j) /\ jobs[j] \in JobRecords /\ jobs[j].lane \in Jobs \cup {NoLane}
    BY DEF JobRecords, Lanes, Jobs
  <2>2. LaneOfJob(j)'
    BY <1>1, <1>3, <2>1 DEF JobInv, LaneOfJob
  <2>3. Covers(j)'
    <3>1. StoredPeriods' = StoredPeriods /\ NewestPeriod' = NewestPeriod
      BY <1>1 DEF StoredPeriods, NewestPeriod, Latest
    <3> QED BY <1>1, <1>3, <2>1, <3>1 DEF JobInv, Covers, LaneIsThere
  <2>4. AnswerOf(j)'
    <3> SUFFICES ASSUME Asked(j)', NEW q \in Periods, q \notin jobs'[j].since
                 PROVE  jobs'[j].fetched[q] = IF q >= jobs'[j].start THEN served'[q] ELSE NotServed
      BY DEF AnswerOf
    <3>1. Asked(j)
      BY <1>3 DEF Asked
    <3>2. q # p /\ q \notin jobs[j].since
      BY <1>3, <3>1
    <3>3. served'[q] = served[q]
      BY <1>1, <3>2 DEF TypeOK
    <3> QED BY <1>3, <2>1, <3>1, <3>2, <3>3 DEF JobInv, AnswerOf
  <2>5. Prepared(j)'
    <3>1. RowsOf(j)' = RowsOf(j)
      BY <1>1, <1>3 DEF RowsOf, Changed, Known, Seen
    <3> QED BY <1>3, <2>1, <3>1 DEF JobInv, Prepared
  <2> QED BY <2>2, <2>3, <2>4, <2>5 DEF JobInv
<1>7. LanesInv'
  BY <1>1, <1>3 DEF LanesInv, TypeOK, Lanes, Jobs
<1>8. ResetInv'
  BY <1>1, <1>3 DEF ResetInv, HoldsLane, LogsOf
<1>9. CurrentUnlessBehind'
  <2> SUFFICES ASSUME NEW q \in Periods, q \notin behind', served'[q] # NotServed
               PROVE  Latest(q)' # NoRow /\ Latest(q)'.value = served'[q]
    BY DEF CurrentUnlessBehind
  <2>1. q # p /\ q \notin behind /\ served'[q] = served[q]
    BY <1>1 DEF TypeOK
  <2> QED BY <1>1, <2>1 DEF CurrentUnlessBehind, Latest
<1> QED BY <1>1, <1>4, <1>5, <1>6, <1>7, <1>8, <1>9

\* What says nothing of jobs, rows and resets: the parameters of a feed, the rows of a
\* request that were checked, an edge while the series is not deleted.
LEMMA Bystander ==
  ASSUME PresetInv, TypeOK',
         UNCHANGED <<served, series, lanes, logs, obs, jobs, reset, behind>>,
         edged' => edged \/ ~reset.gone.series
  PROVE  PresetInv'
<1> USE DEF PresetInv
<1>1. \A j \in Jobs : JobInv(j)'
  BY JobFrame DEF JobRecords
<1>2. LanesInv' /\ CurrentUnlessBehind'
  BY DEF LanesInv, CurrentUnlessBehind, Latest
<1>3. ResetInv'
  BY DEF ResetInv, HoldsLane, LogsOf
<1> QED BY <1>1, <1>2, <1>3

\* A bulk request that checks its rows.
LEMMA CheckPostedStep ==
  ASSUME PresetInv, NEW rs \in Posts, CheckPosted(rs) PROVE PresetInv'
<1> DEFINE First(k, i) == rs[i].key = k /\ \A j \in 1..(i - 1) : rs[j].key # k
<1>1. ASSUME NEW k \in Keys, NEW i0 \in DOMAIN rs, First(k, i0)
      PROVE  rs[CHOOSE i \in DOMAIN rs : First(k, i)].row \in Rows
  <2>1. rs \in Seq([key : Keys, row : Rows])
    BY PresetAssumption
  <2>2. (CHOOSE i \in DOMAIN rs : First(k, i)) \in DOMAIN rs
    <3> HIDE DEF First
    <3> QED BY <1>1
  <2>3. \A i \in DOMAIN rs : rs[i] \in [key : Keys, row : Rows]
    <3> DEFINE T == [key : Keys, row : Rows]
    <3>1. rs \in Seq(T)
      BY <2>1
    <3> HIDE DEF T, First
    <3>2. DOMAIN rs = 1..Len(rs)
      BY <3>1
    <3>3. \A i \in DOMAIN rs : rs[i] \in T
      BY <3>1, <3>2
    <3> QED BY <3>3 DEF T
  <2> HIDE DEF First
  <2> QED BY <2>2, <2>3
<1>2. post' \in Tables
  BY <1>1 DEF CheckPosted, Tables
<1>3. writes' \in 0..MaxWrites
  BY PresetAssumption DEF CheckPosted, Request, PresetInv, TypeOK
<1>4. TypeOK'
  BY <1>2, <1>3 DEF CheckPosted, PresetInv, TypeOK, rows
<1> QED BY <1>4, Bystander DEF CheckPosted, rows

\* The other routes.
LEMMA RouteSteps ==
  ASSUME PresetInv,
         PostHierarchyEdge \/ \E l \in Lanes, o \in Overrides \cup {Default} : PatchOverlap(l, o)
  PROVE  PresetInv'
<1>1. CASE PostHierarchyEdge
  <2>1. TypeOK'
    BY <1>1, PresetAssumption DEF PostHierarchyEdge, Route, Request, PresetInv, TypeOK
  <2> QED BY <1>1, <2>1, Bystander DEF PostHierarchyEdge
<1>2. ASSUME NEW l \in Lanes, NEW o \in Overrides \cup {Default}, PatchOverlap(l, o)
      PROVE  PresetInv'
  <2>1. params' \in [Lanes -> Overrides \cup {Default}] /\ writes' \in 0..MaxWrites
    BY <1>2, PresetAssumption DEF PatchOverlap, Route, Request, PresetInv, TypeOK
  <2>2. TypeOK'
    BY <1>2, <2>1 DEF PatchOverlap, Route, PresetInv, TypeOK
  <2> QED BY <1>2, <2>2, Bystander DEF PatchOverlap, Route
<1> QED BY <1>1, <1>2

\* The log of a failed trigger, of a feed that no reset has deleted.
LEMMA TriggerStep ==
  ASSUME PresetInv, NEW j \in Triggers, NEW l \in Lanes, Trigger(j, l) PROVE PresetInv'
<1> USE DEF PresetInv
<1> DEFINE new == [jobs[j] EXCEPT !.pc = "done"]
<1>0. j \in Jobs /\ jobs[j] \in JobRecords /\ JobInv(j)
  BY DEF Jobs
<1>1. /\ jobs' = [jobs EXCEPT ![j] = new] /\ jobs[j].pc = "idle"
      /\ l \in lanes /\ l \notin reset.gone.lanes
      /\ logs' = logs \cup {[job |-> j, lane |-> l]}
      /\ UNCHANGED <<served, series, lanes, params, edged, obs, reset, behind, releases, post, writes>>
  BY DEF Trigger
<1>2. /\ new \in JobRecords /\ new.pc = "done" /\ new.lane = jobs[j].lane
      /\ new.fresh = jobs[j].fresh /\ new.reparam = jobs[j].reparam /\ new.write = jobs[j].write
  BY <1>0 DEF JobRecords, JobSteps
<1> HIDE DEF new
<1>3. jobs'[j] = new /\ (\A k \in Jobs : k # j => jobs'[k] = jobs[k])
      /\ jobs' \in [Jobs -> JobRecords] /\ \A k \in Jobs : jobs[k].pc = "done" => jobs'[k].pc = "done"
  BY <1>0, <1>1, <1>2
<1>4. TypeOK'
  <2>1. \A k \in Jobs : jobs'[k].lane \in Lanes \cup {NoLane} /\ jobs'[k].write \in Tables
    BY <1>3 DEF JobRecords
  <2>2. logs' \subseteq [job : Jobs, lane : Lanes] /\ \A log \in logs' : log.lane \in lanes
    BY <1>0, <1>1 DEF TypeOK
  <2>3. {log.job : log \in logs} \subseteq {log.job : log \in logs'}
    BY <1>1
  <2> QED BY <1>1, <2>1, <2>2, <2>3 DEF TypeOK
<1>5. JobInv(j)'
  <2>1. LaneOfJob(j)'
    BY <1>0, <1>1, <1>2, <1>3 DEF JobInv, LaneOfJob, JobRecords, Lanes, Jobs
  <2> QED BY <1>0, <1>2, <1>3, <2>1 DEF JobInv, Covers, AnswerOf, Asked, Prepared
<1>6. ASSUME NEW k \in Jobs, k # j PROVE JobInv(k)'
  BY <1>1, <1>3, <1>6, JobFrame DEF JobRecords, Lanes, Jobs
<1>7. LanesInv'
  BY <1>1, <1>3 DEF LanesInv, TypeOK, Lanes, Jobs
<1>8. ResetInv'
  <2>1. \A m \in reset.gone.lanes, k \in Jobs : ~HoldsLane(k, m)'
    BY <1>1, <1>2, <1>3 DEF ResetInv, HoldsLane
  <2>2. LogsOf(reset.gone.lanes)' \subseteq reset.gone.logs
    BY <1>1 DEF ResetInv, LogsOf
  <2>3. reset.gone.series => \A k \in Jobs : ~jobs'[k].fresh
    BY <1>2, <1>3 DEF ResetInv
  <2> QED BY <1>1, <2>1, <2>2, <2>3 DEF ResetInv, LogsOf
<1>9. CurrentUnlessBehind'
  BY <1>1 DEF CurrentUnlessBehind, Latest
<1> QED BY <1>1, <1>3, <1>4, <1>5, <1>6, <1>7, <1>8, <1>9

\* Tables overlaid: nothing goes, and a period the overlay has no row of reads as before.
LEMMA OverlayRows ==
  ASSUME obs \in Tables, NEW w \in Tables, obs' = Overlay(obs, w)
  PROVE  /\ obs' \in Tables
         /\ \A k \in Keys : obs'[k] = IF w[k] # NoRow THEN w[k] ELSE obs[k]
         /\ \A k \in Keys : obs[k] # NoRow => obs'[k] # NoRow
         /\ \A p \in Periods : (\A v \in Vintages : w[Key(p, v)] = NoRow) => Latest(p)' = Latest(p)
<1>1. obs' \in Tables /\ \A k \in Keys : obs'[k] = IF w[k] # NoRow THEN w[k] ELSE obs[k]
  BY DEF Overlay, Tables
<1>2. ASSUME NEW p \in Periods, \A v \in Vintages : w[Key(p, v)] = NoRow
      PROVE  Latest(p)' = Latest(p)
  <2>1. \A v \in Vintages : obs'[Key(p, v)] = obs[Key(p, v)]
    BY <1>1, <1>2, KeysOfTheSeries
  <2>2. LatestRow(obs', TheSeries, p) = LatestRow(obs, TheSeries, p)
    BY <2>1, LatestOf
  <2> QED BY <2>2 DEF Latest
<1> QED BY <1>1, <1>2

\* What was posted is behind from then on; a series that is deleted makes it wait.
LEMMA UpsertPostedStep ==
  ASSUME PresetInv, UpsertPosted PROVE PresetInv'
<1> USE DEF PresetInv
<1>0. post' = EmptyTable /\ EmptyTable \in Tables
      /\ UNCHANGED <<served, series, lanes, params, edged, logs, reset, releases, writes>>
  BY DEF UpsertPosted, EmptyTable, Tables
<1>1. CASE UNCHANGED <<obs, behind, jobs>>
  <2>1. TypeOK'
    BY <1>0, <1>1 DEF TypeOK
  <2> QED BY <1>0, <1>1, <2>1, Bystander
<1>2. CASE /\ \A k \in PostedKeys : Refers(post[k])
           /\ obs' = Overlay(obs, post) /\ behind' = behind \cup {k[2] : k \in PostedKeys}
           /\ jobs' = Disturbed(jobs)
  <2>1. obs \in Tables /\ post \in Tables
    BY DEF TypeOK
  <2>2. /\ obs' \in Tables
        /\ \A k \in Keys : obs'[k] = IF post[k] # NoRow THEN post[k] ELSE obs[k]
        /\ \A k \in Keys : obs[k] # NoRow => obs'[k] # NoRow
        /\ \A p \in Periods : (\A v \in Vintages : post[Key(p, v)] = NoRow) =>
             Latest(p)' = Latest(p)
    BY <1>2, <2>1, OverlayRows
  <2>3. jobs' \in [Jobs -> JobRecords]
    BY <1>2, DisturbedJob
  <2>4. \A j \in Jobs : \E b \in BOOLEAN :
           jobs'[j] = [jobs[j] EXCEPT !.alone = b] /\ (Asked(j) => ~b)
    BY <1>2, DisturbedJob
  <2>5. ASSUME NEW j \in Jobs
        PROVE  /\ jobs'[j].pc = jobs[j].pc /\ jobs'[j].lane = jobs[j].lane
               /\ jobs'[j].fresh = jobs[j].fresh /\ jobs'[j].reparam = jobs[j].reparam
    <3>1. \E b \in BOOLEAN : jobs'[j] = [jobs[j] EXCEPT !.alone = b]
      BY <2>4
    <3> QED BY <3>1, SameButAlone
  <2>6. ASSUME NEW j \in Jobs PROVE JobInv(j)'
    <3>1. PICK b \in BOOLEAN : jobs'[j] = [jobs[j] EXCEPT !.alone = b] /\ (Asked(j) => ~b)
      BY <2>4
    <3>3. \A l \in Jobs : jobs[l].pc = "done" => jobs'[l].pc = "done"
      BY <2>5
    <3> HIDE DEF PresetInv
    <3> QED BY <1>0, <2>2, <3>1, <3>3, JobBeside
  <2>7. TypeOK'
    <3>1. \A k \in Keys : obs'[k] # NoRow =>
             series /\ obs'[k].log \in {Posted} \cup {log.job : log \in logs}
      BY <1>2, <2>2 DEF TypeOK, PostedKeys, Refers
    <3>2. behind' \subseteq Periods
      BY <1>2, KeysOfTheSeries DEF TypeOK, PostedKeys
    <3>3. \A j \in Jobs : jobs'[j].lane \in Lanes \cup {NoLane} /\ jobs'[j].write \in Tables
      BY <2>3 DEF JobRecords
    <3> QED BY <1>0, <2>2, <3>1, <3>2, <3>3 DEF TypeOK
  <2>8. LanesInv'
    BY <1>0, <2>5 DEF LanesInv, TypeOK, Lanes, Jobs
  <2>9. ResetInv'
    <3>1. ~reset.gone.series
      BY DEF UpsertPosted, PostWaits
    <3> QED BY <1>0, <2>5, <3>1 DEF ResetInv, HoldsLane, LogsOf
  <2>10. CurrentUnlessBehind'
    <3> SUFFICES ASSUME NEW p \in Periods, p \notin behind', served'[p] # NotServed
                 PROVE  Latest(p)' # NoRow /\ Latest(p)'.value = served'[p]
      BY DEF CurrentUnlessBehind
    <3>1. \A v \in Vintages : post[Key(p, v)] = NoRow
      BY <1>2, KeysOfTheSeries DEF PostedKeys
    <3>2. Latest(p)' = Latest(p) /\ p \notin behind /\ served[p] # NotServed
      BY <1>0, <1>2, <2>2, <3>1
    <3> QED BY <1>0, <3>2 DEF CurrentUnlessBehind
  <2> QED BY <1>0, <2>3, <2>6, <2>7, <2>8, <2>9, <2>10
<1> QED BY <1>1, <1>2 DEF UpsertPosted

\* What a bootstrap that commits may rely on: it holds its feed, so no reset has deleted
\* it, nor the series; and the series and its source are there once it has committed.
LEMMA CommitHolds ==
  ASSUME PresetInv, NEW j \in Imports, jobs[j].pc = "commit"
  PROVE  /\ j \in Jobs /\ jobs[j] \in JobRecords /\ JobInv(j)
         /\ jobs[j].lane \in Lanes /\ jobs[j].lane \notin reset.gone.lanes
         /\ ~reset.gone.series /\ Asked(j) /\ LaneIsThere(j)
         /\ jobs[j].fresh => jobs[j].lane = j /\ (series \/ jobs[j].new)
         /\ ~jobs[j].fresh => series
         /\ DayOf[j] \in Vintages
<1>1. j \in Jobs /\ jobs[j] \in JobRecords /\ JobInv(j) /\ Asked(j) /\ DayOf[j] \in Vintages
  BY PresetAssumption DEF PresetInv, Jobs, Asked
<1>2. jobs[j].lane \in Lanes /\ LaneIsThere(j)
      /\ (jobs[j].fresh => jobs[j].lane = j /\ (series \/ jobs[j].new))
  BY <1>1 DEF JobInv, LaneOfJob, LaneIsThere, JobRecords
<1>3. jobs[j].lane \notin reset.gone.lanes
  BY <1>1 DEF HoldsLane, PresetInv, ResetInv
<1>4. ~reset.gone.series
  BY <1>1, <1>2, <1>3 DEF PresetInv, ResetInv, LaneIsThere
<1>5. ~jobs[j].fresh => series
  BY <1>2 DEF LaneIsThere, PresetInv, TypeOK
<1> QED BY <1>1, <1>2, <1>3, <1>4, <1>5

\* The newest row of a period once rows of the day are written, none of the period being
\* stored under a later day.
LEMMA NewestIsOfTheDay ==
  ASSUME obs \in Tables, NEW w \in Tables, obs' = Overlay(obs, w), NEW p \in Periods,
         NEW d \in Vintages, w[Key(p, d)] # NoRow,
         \A v \in StoredVintages(obs, TheSeries, p) : ~(v > d),
         \A v \in Vintages : w[Key(p, v)] # NoRow => v = d
  PROVE  Latest(p)' = w[Key(p, d)]
<1> DEFINE vs == StoredVintages(obs', TheSeries, p)
<1>1. \A v \in Vintages : obs'[Key(p, v)] = IF w[Key(p, v)] # NoRow THEN w[Key(p, v)] ELSE obs[Key(p, v)]
  BY OverlayRows, KeysOfTheSeries
<1>2. vs \subseteq Vintages /\ d \in vs /\ \A v \in vs : v = d \/ v \in StoredVintages(obs, TheSeries, p)
  BY <1>1 DEF StoredVintages, Key
<1>3. \A v \in vs : v <= d
  BY <1>2, VintagesAssumption
<1>4. Newest(vs) = d
  <2> HIDE DEF vs
  <2> QED BY <1>2, <1>3, NewestVintage
<1>5. LatestRow(obs', TheSeries, p) = obs'[Key(p, d)]
  BY <1>2, <1>4 DEF LatestRow, Key
<1> QED BY <1>1, <1>5 DEF Latest

\* After a commit, what is not left behind is as the provider serves it: in the window
\* because what differs has been written, under the newest day; before it because the
\* window covers the overlap, so what was behind there stays so.
LEMMA CommitIsCurrent ==
  ASSUME PresetInv, NEW j \in Imports, jobs[j].pc = "commit",
         obs' = Overlay(obs, jobs[j].write), NEW p \in Periods, p \notin LeftBehind(j),
         served[p] # NotServed
  PROVE  Latest(p)' # NoRow /\ Latest(p)'.value = served[p]
<1>1. /\ j \in Jobs /\ jobs[j] \in JobRecords /\ JobInv(j) /\ Asked(j)
      /\ LaneIsThere(j) /\ DayOf[j] \in Vintages
  BY CommitHolds
<1>2. /\ p \notin jobs[j].since /\ jobs[j].alone /\ Known(j, p) = Latest(p)
      /\ \A v \in StoredVintages(obs, TheSeries, p) : ~(v > DayOf[j])
      /\ ~(p \in behind /\ StoredPeriods # {} /\ p < NewestPeriod - Overlap)
  BY DEF LeftBehind
<1>3. jobs[j].write = RowsOf(j)
  BY <1>1, <1>2 DEF JobInv, Prepared
<1>4. jobs[j].fetched[p] = IF p >= jobs[j].start THEN served[p] ELSE NotServed
  BY <1>1, <1>2 DEF JobInv, AnswerOf
<1>5. obs \in Tables /\ jobs[j].write \in Tables /\ NoRow \notin Rows
  BY <1>1, NoRowAssumption DEF PresetInv, TypeOK
<1>6. \A v \in Vintages : jobs[j].write[Key(p, v)] =
        IF v = DayOf[j] /\ jobs[j].fetched[p] # NotServed /\ Changed(j, p)
        THEN [value |-> jobs[j].fetched[p], log |-> j] ELSE NoRow
  BY <1>3, KeysOfTheSeries DEF RowsOf
<1>7. \A v \in Vintages : jobs[j].write[Key(p, v)] \in Rows \cup {NoRow}
  BY <1>5, KeysOfTheSeries DEF Tables
<1>8. CASE p >= jobs[j].start /\ Changed(j, p)
  <2>1. [value |-> served[p], log |-> j] \in Rows
    BY <1>1, PresetAssumption DEF Rows, PresetInv, TypeOK, Jobs
  <2>2. /\ jobs[j].write[Key(p, DayOf[j])] = [value |-> served[p], log |-> j]
        /\ \A v \in Vintages : jobs[j].write[Key(p, v)] # NoRow => v = DayOf[j]
    BY <1>1, <1>4, <1>6, <1>8
  <2>3. jobs[j].write[Key(p, DayOf[j])] # NoRow
    BY <1>5, <2>1, <2>2
  <2>4. Latest(p)' = jobs[j].write[Key(p, DayOf[j])]
    BY <1>1, <1>2, <1>5, <2>2, <2>3, NewestIsOfTheDay
  <2> QED BY <2>2, <2>3, <2>4
<1>9. CASE ~(p >= jobs[j].start /\ Changed(j, p))
  <2>1. \A v \in Vintages : jobs[j].write[Key(p, v)] = NoRow
    BY <1>4, <1>6, <1>9
  <2>2. Latest(p)' = Latest(p)
    BY <1>5, <2>1, OverlayRows
  <2>3. CASE p >= jobs[j].start
    BY <1>2, <1>4, <1>9, <2>2, <2>3 DEF Changed
  <2>4. CASE ~(p >= jobs[j].start)
    <3>1. p \in Nat /\ jobs[j].start \in Int /\ jobs[j].start # 0
      BY <1>1, <2>4, PresetAssumption DEF JobRecords
    <3>2. StoredPeriods # {} /\ jobs[j].start <= NewestPeriod - Overlap
      BY <1>1, <3>1 DEF JobInv, Covers
    <3>3. p < NewestPeriod - Overlap
      BY <2>4, <3>1, <3>2, NewestPeriodIs, PresetAssumption
    <3>4. p \notin behind
      BY <1>2, <3>2, <3>3
    <3> QED BY <2>2, <3>4 DEF PresetInv, CurrentUnlessBehind
  <2> QED BY <2>3, <2>4
<1> QED BY <1>8, <1>9

\* The commit of a bootstrap.
LEMMA CommitImportStep ==
  ASSUME PresetInv, NEW j \in Imports, CommitImport(j) PROVE PresetInv'
<1> DEFINE ended == [FreshJob EXCEPT !.pc = "done"]
           l == jobs[j].lane
           w == jobs[j].write
<1>1. /\ jobs[j].pc = "commit" /\ j \in Jobs /\ jobs[j] \in JobRecords /\ JobInv(j)
      /\ l \in Lanes /\ l \notin reset.gone.lanes /\ ~reset.gone.series
      /\ jobs[j].fresh => l = j /\ (series \/ jobs[j].new)
      /\ ~jobs[j].fresh => series /\ l \in lanes
  BY CommitHolds DEF CommitImport, LaneIsThere
<1>2. /\ series' = (series \/ jobs[j].new)
      /\ lanes' = IF jobs[j].fresh THEN lanes \cup {l} ELSE lanes
      /\ params' = IF jobs[j].reparam THEN [params EXCEPT ![l] = Default] ELSE params
      /\ logs' = logs \cup {[job |-> j, lane |-> l]}
      /\ obs' = Overlay(obs, w) /\ behind' = LeftBehind(j)
      /\ UNCHANGED <<served, edged, reset, releases, post, writes>>
  BY DEF CommitImport
<1>3. series \in BOOLEAN /\ TypeOK /\ jobs \in [Jobs -> JobRecords] /\ ResetInv /\ LanesInv
      /\ \A k \in Jobs : JobInv(k)
  BY DEF PresetInv
<1>4. series' /\ series' \in BOOLEAN /\ l \in lanes' /\ lanes \subseteq lanes' /\ lanes' \subseteq Lanes
  BY <1>1, <1>2, <1>3 DEF TypeOK, JobRecords
<1>5. w \in Tables /\ obs \in Tables
  BY <1>1, <1>3 DEF JobRecords, TypeOK
<1>6. /\ obs' \in Tables
      /\ \A k \in Keys : obs'[k] = IF w[k] # NoRow THEN w[k] ELSE obs[k]
      /\ \A k \in Keys : obs[k] # NoRow => obs'[k] # NoRow
  BY <1>2, <1>5, OverlayRows
<1>7. jobs' \in [Jobs -> JobRecords] /\ jobs'[j] = ended
      /\ \A k \in Jobs : k # j => \E b \in BOOLEAN :
            jobs'[k] = [jobs[k] EXCEPT !.alone = b]
            /\ (Asked(k) => (~b \/ (obs' = obs /\ b = jobs[k].alone)))
  <2>1. ended \in JobRecords
    BY FreshJobType DEF JobRecords, JobSteps, FreshJob
  <2> HIDE DEF ended
  <2>2. CASE obs' # obs
    <3>1. jobs' = [Disturbed(jobs) EXCEPT ![j] = ended]
      BY <2>2 DEF CommitImport, ended
    <3>2. Disturbed(jobs) \in [Jobs -> JobRecords]
      BY <1>3, DisturbedJob
    <3>3. \A k \in Jobs : k # j => jobs'[k] = Disturbed(jobs)[k]
      BY <3>1, <3>2
    <3>4. jobs' \in [Jobs -> JobRecords] /\ jobs'[j] = ended
      BY <1>1, <2>1, <3>1, <3>2
    <3> QED BY <1>3, <3>3, <3>4, DisturbedJob
  <2>3. CASE obs' = obs
    <3>1. jobs' = [jobs EXCEPT ![j] = ended]
      BY <2>3 DEF CommitImport, ended
    <3>2. jobs' \in [Jobs -> JobRecords] /\ jobs'[j] = ended
      BY <1>1, <1>3, <2>1, <3>1
    <3>3. ASSUME NEW k \in Jobs, k # j
          PROVE  /\ jobs'[k] = [jobs[k] EXCEPT !.alone = jobs[k].alone]
                 /\ jobs[k].alone \in BOOLEAN
      <4>1. jobs'[k] = jobs[k] /\ jobs[k] \in JobRecords
        BY <1>3, <3>1, <3>3
      <4> QED BY <4>1 DEF JobRecords
    <3> QED BY <2>3, <3>2, <3>3
  <2> QED BY <2>2, <2>3
<1>8. jobs'[j].pc = "done" /\ jobs'[j].fresh = FALSE /\ (\A m : ~HoldsLane(j, m)') /\ JobInv(j)'
  <2>1. JobInv(j)' /\ (\A m : ~HoldsLane(j, m)')
    BY <1>1, <1>7, EndedJob
  <2>2. ended.pc = "done" /\ ended.fresh = FALSE
    BY DEF FreshJob
  <2> QED BY <1>7, <2>1, <2>2
<1> HIDE DEF ended
<1>9. ASSUME NEW k \in Jobs, k # j
      PROVE  /\ jobs'[k].pc = jobs[k].pc /\ jobs'[k].lane = jobs[k].lane
             /\ jobs'[k].fresh = jobs[k].fresh /\ jobs'[k].reparam = jobs[k].reparam
  <2>1. \E b \in BOOLEAN : jobs'[k] = [jobs[k] EXCEPT !.alone = b]
    BY <1>7, <1>9
  <2> QED BY <1>3, <2>1, SameButAlone
<1>10. \A k \in Jobs : jobs[k].pc = "done" => jobs'[k].pc = "done"
  BY <1>8, <1>9
<1>11. ASSUME NEW k \in Jobs, k # j PROVE JobInv(k)'
  <2>1. PICK b \in BOOLEAN :
            jobs'[k] = [jobs[k] EXCEPT !.alone = b]
            /\ (Asked(k) => (~b \/ (obs' = obs /\ b = jobs[k].alone)))
    BY <1>7, <1>11
  <2>2. jobs[k].lane # NoLane /\ ~jobs[k].fresh => (jobs[k].lane \in lanes' <=> jobs[k].lane \in lanes)
    <3>1. jobs[k].lane # NoLane /\ ~jobs[k].fresh => jobs[jobs[k].lane].pc = "done"
      BY <1>3 DEF JobInv, LaneOfJob
    <3> QED BY <1>1, <1>2, <3>1
  <2> QED BY <1>2, <1>4, <1>6, <1>10, <2>1, <2>2, JobBeside
<1>12. TypeOK'
  <2>1. logs' \subseteq [job : Jobs, lane : Lanes] /\ \A log \in logs' : log.lane \in lanes'
    BY <1>1, <1>2, <1>3, <1>4 DEF TypeOK
  <2>2. params' \in [Lanes -> Overrides \cup {Default}]
    BY <1>1, <1>2, <1>3 DEF TypeOK
  <2>3. behind' \subseteq Periods
    BY <1>2 DEF LeftBehind
  <2>4. \A k \in Keys : obs'[k] # NoRow => obs'[k].log \in {Posted} \cup {log.job : log \in logs'}
    <3>1. {log.job : log \in logs'} = {log.job : log \in logs} \cup {j}
      <4> DEFINE new == [job |-> j, lane |-> l]
      <4>1. logs' = logs \cup {new} /\ new.job = j
        BY <1>2
      <4> HIDE DEF new
      <4> QED BY <4>1
    <3>2. \A k \in Keys : w[k] # NoRow => w[k].log = j
      BY <1>1 DEF JobInv, Prepared
    <3> QED BY <1>3, <1>6, <3>1, <3>2 DEF TypeOK
  <2>5. \A k \in Jobs : jobs'[k].lane \in Lanes \cup {NoLane} /\ jobs'[k].write \in Tables
    BY <1>7 DEF JobRecords
  <2> QED BY <1>2, <1>3, <1>4, <1>6, <2>1, <2>2, <2>3, <2>4, <2>5 DEF TypeOK
<1>13. LanesInv'
  <2> SUFFICES ASSUME NEW m \in lanes' PROVE jobs'[m].pc = "done" /\ \E log \in logs' : log.lane = m
    BY DEF LanesInv
  <2>1. CASE m \in lanes
    BY <1>2, <1>3, <1>10, <2>1 DEF LanesInv, TypeOK, Lanes, Jobs
  <2>2. CASE m = l /\ jobs[j].fresh
    <3> DEFINE new == [job |-> j, lane |-> l]
    <3>1. new \in logs' /\ new.lane = l
      BY <1>2
    <3> HIDE DEF new
    <3> QED BY <1>1, <1>8, <2>2, <3>1
  <2> QED BY <1>2, <2>1, <2>2
<1>14. ResetInv'
  <2>1. \A m \in reset.gone.lanes : \A k \in Jobs : ~HoldsLane(k, m)'
    BY <1>3, <1>8, <1>9 DEF ResetInv, HoldsLane
  <2>2. LogsOf(reset.gone.lanes)' \subseteq reset.gone.logs
    BY <1>1, <1>2, <1>3 DEF ResetInv, LogsOf
  <2>3. reset.pc # "commit"
    BY <1>1, <1>3 DEF ResetInv
  <2> QED BY <1>1, <1>2, <1>3, <2>1, <2>2, <2>3 DEF ResetInv, LogsOf
<1>15. CurrentUnlessBehind'
  <2> SUFFICES ASSUME NEW p \in Periods, p \notin behind', served'[p] # NotServed
               PROVE  Latest(p)' # NoRow /\ Latest(p)'.value = served'[p]
    BY DEF CurrentUnlessBehind
  <2> QED BY <1>1, <1>2, CommitIsCurrent
<1>16. \A k \in Jobs : JobInv(k)'
  BY <1>8, <1>11
<1>17. reset' \in ResetRecords
  BY <1>2 DEF PresetInv
<1> QED BY <1>4, <1>7, <1>12, <1>13, <1>14, <1>15, <1>16, <1>17 DEF PresetInv

\* The reset's commit empties the preset's tables: what it deleted is all there was.
LEMMA CommitResetRemovesAll ==
  ASSUME PresetInv, CommitReset
  PROVE  ~series' /\ lanes' = {} /\ logs' = {} /\ obs' = EmptyTable
<1>1. lanes \subseteq reset.gone.lanes /\ LogsOf(reset.gone.lanes) \subseteq reset.gone.logs
      /\ \A k \in Keys : obs[k] # NoRow => k \in reset.gone.obs
  BY DEF PresetInv, ResetInv, CommitReset
<1>2. logs \subseteq reset.gone.logs
  BY <1>1 DEF PresetInv, TypeOK, LogsOf
<1>3. obs' = EmptyTable
  BY <1>1 DEF CommitReset, EmptyTable
<1> QED BY <1>1, <1>2, <1>3 DEF CommitReset

\* And no job is about to commit to what has gone.
LEMMA CommitResetStep ==
  ASSUME PresetInv, CommitReset PROVE PresetInv'
<1> USE DEF PresetInv
<1>1. /\ series' = FALSE /\ lanes' = {} /\ logs' = {} /\ obs' = EmptyTable
      /\ EmptyTable \in Tables /\ \A k \in Keys : EmptyTable[k] = NoRow
  BY CommitResetRemovesAll DEF CommitReset, EmptyTable, Tables
<1>2. /\ behind' = Periods /\ jobs' = Bereft(Disturbed(jobs))
      /\ params' = [m \in Lanes |-> IF m \in reset.gone.lanes THEN Default ELSE params[m]]
      /\ reset' = [FreshReset EXCEPT !.pc = "done"]
      /\ UNCHANGED <<served, edged, releases, post, writes>>
  BY DEF CommitReset
<1>3. reset' \in ResetRecords /\ reset'.pc = "done"
      /\ reset'.gone.lanes = {} /\ reset'.gone.logs = {} /\ ~reset'.gone.series
  BY <1>2 DEF FreshReset, Kept, ResetRecords, KeptRecords, ResetSteps
<1>4. /\ ~edged /\ lanes \subseteq reset.gone.lanes
      /\ \A j \in Jobs : ~jobs[j].fresh
      /\ \A m \in reset.gone.lanes : \A j \in Jobs : ~HoldsLane(j, m)
  BY DEF ResetInv, CommitReset
<1>5. \A j \in Jobs : jobs[j].pc \notin {"upsert", "commit"}
  BY <1>4 DEF JobInv, LaneOfJob, HoldsLane
<1>6. ASSUME NEW j \in Jobs
      PROVE  \E to \in {jobs[j].pc, "failing"}, b \in BOOLEAN :
               /\ jobs'[j] = [jobs[j] EXCEPT !.pc = to, !.alone = b]
               /\ to = jobs[j].pc => to \notin {"source", "link"}
  <2> DEFINE js == Disturbed(jobs)
  <2>1. PICK b \in BOOLEAN : js[j] = [jobs[j] EXCEPT !.alone = b]
    BY DisturbedJob
  <2>2. jobs[j] \in JobRecords
    OBVIOUS
  <2> HIDE DEF js, PresetInv
  <2>3. jobs'[j] = IF jobs[j].pc \in {"source", "link"}
                   THEN [js[j] EXCEPT !.pc = "failing"] ELSE js[j]
    BY <1>2 DEF Bereft, js
  <2>4. CASE jobs[j].pc \in {"source", "link"}
    <3>1. jobs'[j] = [jobs[j] EXCEPT !.pc = "failing", !.alone = b]
      BY <2>1, <2>2, <2>3, <2>4 DEF JobRecords
    <3> QED BY <2>4, <3>1
  <2>5. CASE jobs[j].pc \notin {"source", "link"}
    <3>1. jobs'[j] = [jobs[j] EXCEPT !.pc = jobs[j].pc, !.alone = b]
      BY <2>1, <2>2, <2>3, <2>5 DEF JobRecords
    <3> QED BY <2>5, <3>1
  <2> QED BY <2>4, <2>5
<1>7. ASSUME NEW j \in Jobs
      PROVE  /\ jobs'[j].pc \in {jobs[j].pc, "failing"}
             /\ jobs'[j].pc \notin {"source", "link"}
             /\ jobs'[j].lane = jobs[j].lane
             /\ jobs'[j].fresh = jobs[j].fresh /\ jobs'[j].reparam = jobs[j].reparam
             /\ jobs'[j].new = jobs[j].new /\ jobs'[j].write = jobs[j].write
             /\ jobs'[j].start = jobs[j].start /\ jobs'[j].since = jobs[j].since
             /\ jobs'[j].fetched = jobs[j].fetched
             /\ jobs'[j] \in JobRecords
             /\ jobs[j].pc = "done" => jobs'[j].pc = "done"
  <2>1. PICK to \in {jobs[j].pc, "failing"}, b \in BOOLEAN :
          /\ jobs'[j] = [jobs[j] EXCEPT !.pc = to, !.alone = b]
          /\ to = jobs[j].pc => to \notin {"source", "link"}
    BY <1>6
  <2>2. jobs[j] \in JobRecords
    OBVIOUS
  <2>3. jobs[j].pc = "done" => jobs'[j].pc = "done"
    <3>1. jobs[j].pc = "done" => jobs'[j] = Disturbed(jobs)[j]
      BY <1>2 DEF Bereft
    <3>2. jobs[j].pc = "done" => Disturbed(jobs)[j] = jobs[j]
      BY DEF Disturbed, Asked
    <3> QED BY <3>1, <3>2
  <2> HIDE DEF PresetInv
  <2> QED BY <2>1, <2>2, <2>3 DEF JobRecords, JobSteps
<1>12. jobs' \in [Jobs -> JobRecords]
  <2>1. jobs' = [j \in Jobs |-> jobs'[j]]
    BY <1>2 DEF Bereft
  <2> QED BY <1>7, <2>1
<1>8. ASSUME NEW j \in Jobs PROVE JobInv(j)'
  <2>1. JobInv(j) /\ ~jobs[j].fresh /\ jobs[j].pc \notin {"upsert", "commit"}
        /\ jobs[j].lane \in Jobs \cup {NoLane}
    BY <1>4, <1>5 DEF JobRecords, Lanes, Jobs
  <2>2. LaneOfJob(j)'
    BY <1>7, <2>1 DEF JobInv, LaneOfJob
  <2>3. Covers(j)'
    BY <1>1, <1>7, <2>1 DEF Covers, LaneIsThere
  <2>4. AnswerOf(j)' /\ Prepared(j)'
    BY <1>2, <1>7, <2>1 DEF JobInv, AnswerOf, Asked, Prepared
  <2> QED BY <2>2, <2>3, <2>4 DEF JobInv
<1>9. TypeOK'
  <2>1. params' \in [Lanes -> Overrides \cup {Default}]
    BY <1>2 DEF TypeOK
  <2>2. \A j \in Jobs : jobs'[j].lane \in Lanes \cup {NoLane} /\ jobs'[j].write \in Tables
    BY <1>12 DEF JobRecords
  <2> QED BY <1>1, <1>2, <1>4, <2>1, <2>2 DEF TypeOK
<1>10. LanesInv' /\ CurrentUnlessBehind'
  BY <1>1, <1>2 DEF LanesInv, CurrentUnlessBehind
<1>11. ResetInv'
  BY <1>1, <1>3 DEF ResetInv, LogsOf
<1> QED BY <1>1, <1>3, <1>8, <1>9, <1>10, <1>11, <1>12

-------------------------------------------------------------------------------
(* The theorems *)

\* What an earlier bootstrap has imported, it has imported from the provider.
LEMMA ImportedIsCurrent ==
  ASSUME served \in [Periods -> Values \cup {NotServed}], NEW j \in Earlier, Imported(j)
  PROVE  /\ obs \in Tables
         /\ \A k \in Keys : obs[k] # NoRow => obs[k].log = j
         /\ \A p \in Periods \ behind : served[p] # NotServed =>
              Latest(p) # NoRow /\ Latest(p).value = served[p]
<1>1. PICK then \in SUBSET Served :
        /\ obs = [k \in Keys |-> IF k[3] = DayOf[j] /\ k[2] \in then
                                 THEN [value |-> served[k[2]], log |-> j] ELSE NoRow]
        /\ behind = Served \ then
  BY DEF Imported
<1>2. DayOf[j] \in Vintages /\ j \in Attempts /\ NoRow \notin Rows
  BY PresetAssumption, NoRowAssumption DEF Jobs
<1>3. \A p \in Served : [value |-> served[p], log |-> j] \in Rows
  BY <1>2 DEF Served, Rows
<1>4. \A k \in Keys : \/ obs[k] = NoRow
                      \/ obs[k] \in Rows /\ obs[k].log = j
  <2> SUFFICES ASSUME NEW k \in Keys PROVE obs[k] = NoRow \/ (obs[k] \in Rows /\ obs[k].log = j)
    OBVIOUS
  <2>1. CASE k[3] = DayOf[j] /\ k[2] \in then
    BY <1>1, <1>3, <2>1
  <2>2. CASE ~(k[3] = DayOf[j] /\ k[2] \in then)
    BY <1>1, <2>2
  <2> QED BY <2>1, <2>2
<1>5. obs \in Tables
  BY <1>1, <1>4 DEF Tables
<1>6. ASSUME NEW p \in Periods \ behind, served[p] # NotServed
      PROVE  Latest(p) # NoRow /\ Latest(p).value = served[p]
  <2>1. p \in then
    BY <1>1, <1>6 DEF Served
  <2>2. \A v \in Vintages : obs[Key(p, v)] = IF v = DayOf[j]
                             THEN [value |-> served[p], log |-> j] ELSE NoRow
    BY <1>1, <2>1, KeysOfTheSeries
  <2>3. [value |-> served[p], log |-> j] # NoRow
    BY <1>2, <1>3, <2>1
  <2> DEFINE vs == StoredVintages(obs, TheSeries, p)
  <2>4. vs = {DayOf[j]}
    BY <1>2, <2>2, <2>3 DEF StoredVintages, Key
  <2>5. Newest(vs) = DayOf[j]
    BY <2>4 DEF Newest
  <2>6. Latest(p) = obs[Key(p, DayOf[j])]
    BY <2>4, <2>5 DEF Latest, LatestRow, Key
  <2> QED BY <1>2, <2>2, <2>3, <2>6
<1> QED BY <1>4, <1>5, <1>6

\* The invariant holds at first.
LEMMA PresetInvInit == PresetInit => PresetInv
<1> SUFFICES ASSUME PresetInit PROVE PresetInv
  OBVIOUS
<1>1. /\ params = [l \in Lanes |-> Default] /\ edged = FALSE
      /\ reset = FreshReset /\ post = EmptyTable /\ releases = 0 /\ writes = 0
  BY DEF PresetInit
<1>2. served \in [Periods -> Values \cup {NotServed}]
  <2>1. (CHOOSE v \in Values : TRUE) \in Values
    BY PresetAssumption
  <2> QED BY <2>1 DEF PresetInit
<1>3. EmptyTable \in Tables /\ \A k \in Keys : EmptyTable[k] = NoRow
  BY DEF EmptyTable, Tables
<1>4. ASSUME NEW j \in Jobs
      PROVE  /\ jobs[j] \in JobRecords /\ jobs[j].pc \in {"idle", "done"}
             /\ j \in Earlier => jobs[j].pc = "done"
             /\ jobs[j].lane = NoLane /\ jobs[j].fresh = FALSE /\ jobs[j].reparam = FALSE
             /\ jobs[j].write = EmptyTable
  <2>1. jobs[j] = [FreshJob EXCEPT !.pc = "done"] \/ (j \notin Earlier /\ jobs[j] = FreshJob)
    BY DEF PresetInit
  <2>2. CASE jobs[j] = [FreshJob EXCEPT !.pc = "done"]
    <3>1. jobs[j] \in JobRecords
      BY <2>2, FreshJobType DEF JobRecords, JobSteps, FreshJob
    <3> QED BY <2>2, <3>1 DEF FreshJob
  <2>3. CASE j \notin Earlier /\ jobs[j] = FreshJob
    <3>1. jobs[j] \in JobRecords
      BY <2>3, FreshJobType
    <3> QED BY <2>3, <3>1 DEF FreshJob
  <2> QED BY <2>1, <2>2, <2>3
<1>5. jobs \in [Jobs -> JobRecords]
  <2> DEFINE new(j) == IF j \in Earlier THEN [FreshJob EXCEPT !.pc = "done"] ELSE FreshJob
  <2>1. jobs = [j \in Jobs |-> new(j)]
    BY DEF PresetInit
  <2>2. \A j \in Jobs : new(j) \in JobRecords
    BY <1>4, <2>1
  <2> HIDE DEF new
  <2> QED BY <2>1, <2>2
<1>6. \A j \in Jobs : JobInv(j)
  BY <1>3, <1>4 DEF JobInv, LaneOfJob, Covers, AnswerOf, Asked, Prepared
<1>7. reset \in ResetRecords /\ ResetInv
  BY <1>1 DEF FreshReset, Kept, ResetRecords, KeptRecords, ResetSteps, ResetInv, LogsOf
<1> DEFINE Typed == /\ served \in [Periods -> Values \cup {NotServed}]
                    /\ params \in [Lanes -> Overrides \cup {Default}] /\ post \in Tables
                    /\ releases \in 0..MaxReleases /\ writes \in 0..MaxWrites
                    /\ \A j \in Jobs : jobs[j].lane \in Lanes \cup {NoLane}
                                       /\ jobs[j].write \in Tables
<1>t. Typed /\ ~edged
  <2>1. 0 \in 0..MaxReleases /\ 0 \in 0..MaxWrites
    BY PresetAssumption
  <2>2. params \in [Lanes -> Overrides \cup {Default}]
    BY <1>1
  <2> QED BY <1>1, <1>2, <1>3, <1>4, <2>1, <2>2
<1>8. CASE Empty
  <2>1. TypeOK
    BY <1>3, <1>8, <1>t DEF Empty, TypeOK
  <2>2. LanesInv /\ CurrentUnlessBehind /\ series \in BOOLEAN
    BY <1>8 DEF Empty, LanesInv, CurrentUnlessBehind
  <2> QED BY <1>5, <1>6, <1>7, <2>1, <2>2 DEF PresetInv
<1>9. ASSUME NEW j \in Earlier, Imported(j) PROVE PresetInv
  <2>1. /\ series = TRUE /\ lanes = {j} /\ logs = {[job |-> j, lane |-> j]}
        /\ behind \subseteq Periods /\ j \in Imports /\ j \in Jobs /\ j \in Lanes
    BY <1>9, PresetAssumption DEF Imported, Served, Jobs, Lanes
  <2>2. /\ obs \in Tables
        /\ \A k \in Keys : obs[k] # NoRow => obs[k].log = j
        /\ CurrentUnlessBehind
    BY <1>2, <1>9, ImportedIsCurrent DEF CurrentUnlessBehind
  <2>3. \A log \in logs : log.lane = j /\ log.job = j
    BY <2>1
  <2>4. logs # {} /\ logs \subseteq [job : Jobs, lane : Lanes]
    BY <2>1
  <2>5. TypeOK
    <3>1. \A k \in Keys : obs[k] # NoRow =>
            series /\ obs[k].log \in {Posted} \cup {log.job : log \in logs}
      BY <2>1, <2>2, <2>3, <2>4
    <3> QED BY <1>t, <2>1, <2>2, <2>3, <2>4, <3>1 DEF TypeOK
  <2>6. LanesInv
    BY <1>4, <2>1, <2>3, <2>4 DEF LanesInv
  <2> QED BY <1>5, <1>6, <1>7, <2>1, <2>2, <2>5, <2>6 DEF PresetInv
<1> QED BY <1>8, <1>9 DEF PresetInit

\* And every step keeps it.
LEMMA PresetInvNext == PresetInv /\ [PresetNext]_presetVars => PresetInv'
<1> SUFFICES ASSUME PresetInv, [PresetNext]_presetVars PROVE PresetInv'
  OBVIOUS
<1>1. CASE \E p \in Periods, v \in Values : Release(p, v)
  BY <1>1, ReleaseStep
<1>2. CASE (\E rs \in Posts : CheckPosted(rs)) \/ UpsertPosted
  BY <1>2, CheckPostedStep, UpsertPostedStep
<1>3. CASE \/ \E l \in Lanes, o \in Overrides \cup {Default} : PatchOverlap(l, o)
           \/ PostHierarchyEdge
  BY <1>3, RouteSteps
<1>4. CASE \E j \in Triggers, l \in Lanes : Trigger(j, l)
  BY <1>4, TriggerStep
<1>5. ASSUME NEW j \in Imports, StartImport(j) \/ Work(j) \/ FailImport(j) PROVE PresetInv'
  <2>1. j \in Jobs
    BY DEF Jobs
  <2> QED BY <1>5, <2>1, ImportSteps, CommitImportStep, FailImportStep, FailResetStep
          DEF Work, BreakDeadlock
<1>6. CASE StartReset \/ ResetWork \/ FailReset
  BY <1>6, ResetSteps1, DeleteRunLogsStep, DeleteFeedsStep, DeleteSeriesStep,
     CommitResetStep, FailResetStep DEF ResetWork
<1>7. CASE UNCHANGED presetVars
  <2>1. TypeOK'
    BY <1>7 DEF presetVars, rows, PresetInv, TypeOK
  <2> QED BY <1>7, <2>1, Bystander DEF presetVars, rows
<1> QED BY <1>1, <1>2, <1>3, <1>4, <1>5, <1>6, <1>7 DEF PresetNext

\* Of every reachable state of the preset, whatever the number of bootstraps, triggers
\* and requests beside the reset.
THEOREM PresetCorrect == PresetSpec => []PresetInv
<1> QED BY PresetInvInit, PresetInvNext, PTL DEF PresetSpec

\* No reference dangles, although six tables are written and emptied by statements
\* whose transactions interleave.
THEOREM PresetTyped == PresetSpec => []TypeOK
<1>1. PresetInv => TypeOK
  BY DEF PresetInv
<1> QED BY <1>1, PresetCorrect, PTL

\* The newest stored vintage is the provider's value, but for what the model says is
\* behind: incremental bootstraps with a fixed overlap lose nothing else.
THEOREM PresetIsCurrent == PresetSpec => []CurrentUnlessBehind
<1>1. PresetInv => CurrentUnlessBehind
  BY DEF PresetInv
<1> QED BY <1>1, PresetCorrect, PTL

\* Nothing but the reset's commit removes anything.
LEMMA OnlyTheResetRemoves ==
  ASSUME PresetInv, [PresetNext]_presetVars
  PROVE  \/ CommitReset
         \/ /\ series => series'
            /\ lanes \subseteq lanes' /\ logs \subseteq logs'
            /\ \A k \in Keys : obs[k] # NoRow => obs'[k] # NoRow
<1> DEFINE NothingGoes == /\ series => series'
                          /\ lanes \subseteq lanes' /\ logs \subseteq logs'
                          /\ \A k \in Keys : obs[k] # NoRow => obs'[k] # NoRow
<1> SUFFICES CommitReset \/ NothingGoes
  OBVIOUS
<1>1. rows' = rows => NothingGoes
  BY DEF rows
<1>2. CASE UpsertPosted
  BY <1>2, OverlayRows DEF UpsertPosted, PresetInv, TypeOK
<1>3. ASSUME NEW j \in Imports, CommitImport(j) PROVE NothingGoes
  <2>1. jobs[j].write \in Tables /\ obs \in Tables
    BY <1>3, CommitHolds DEF CommitImport, JobRecords, PresetInv, TypeOK
  <2>2. \A k \in Keys : obs[k] # NoRow => obs'[k] # NoRow
    BY <1>3, <2>1, OverlayRows DEF CommitImport
  <2> QED BY <1>3, <2>2 DEF CommitImport
<1>4. ASSUME NEW j \in Triggers, NEW l \in Lanes, Trigger(j, l) PROVE NothingGoes
  BY <1>4 DEF Trigger
<1>5. CASE PostHierarchyEdge \/ \E l \in Lanes, o \in Overrides \cup {Default} : PatchOverlap(l, o)
  BY <1>5 DEF PostHierarchyEdge, PatchOverlap
<1>6. CASE \/ \E p \in Periods, v \in Values : Release(p, v)
           \/ \E rs \in Posts : CheckPosted(rs)
           \/ UNCHANGED presetVars
  BY <1>1, <1>6 DEF Release, CheckPosted, presetVars
<1>7. ASSUME NEW j \in Imports, StartImport(j) \/ ImportStep(j) \/ FailImport(j) \/ FailReset
      PROVE  NothingGoes
  <2>1. rows' = rows
    BY <1>7 DEF StartImport, ImportStep, FailImport, FindSeries, FindSource, InsertSeries,
                LinkSource, UpsertFeed, ResolveStart, Fetch, Compare, Upsert, Step, FailReset, ResetStep
  <2> QED BY <1>1, <2>1
<1>8. CASE StartReset \/ FailReset \/ ReadRunLogs \/ DeleteObservations \/ DeleteRunLogs
           \/ DeleteFeeds \/ DeleteSeries
  <2>1. rows' = rows
    BY <1>8 DEF StartReset, FailReset, ReadRunLogs, DeleteObservations, DeleteRunLogs,
                DeleteFeeds, DeleteSeries, ResetStep
  <2> QED BY <1>1, <2>1
<1> HIDE DEF NothingGoes
<1>9. CommitReset \/ NothingGoes
  <2>1. ASSUME NEW j \in Imports, StartImport(j) \/ Work(j) \/ FailImport(j) PROVE NothingGoes
    BY <2>1, <1>3, <1>7 DEF Work, BreakDeadlock
  <2>2. CASE StartReset \/ ResetWork \/ FailReset
    BY <2>2, <1>8 DEF ResetWork
  <2> QED BY <1>2, <1>4, <1>5, <1>6, <2>1, <2>2 DEF PresetNext
<1> QED BY <1>9

\* A reset is all or nothing: what it read before others committed does not make it
\* leave a part of the series behind.
THEOREM ResetRemovesAll == PresetSpec => ResetIsAllOrNothing
<1> DEFINE A == \/ series /\ ~series'
                \/ ~(lanes \subseteq lanes' /\ logs \subseteq logs')
                \/ \E k \in Keys : obs[k] # NoRow /\ obs'[k] = NoRow
                => ~series' /\ lanes' = {} /\ logs' = {} /\ obs' = EmptyTable
<1>1. ASSUME PresetInv, [PresetNext]_presetVars PROVE A
  <2>1. CASE CommitReset
    BY <1>1, <2>1, CommitResetRemovesAll
  <2>2. CASE ~CommitReset
    BY <1>1, <2>2, OnlyTheResetRemoves
  <2> QED BY <2>1, <2>2
<1>2. PresetInv /\ [PresetNext]_presetVars => [A]_presetVars
  BY <1>1
<1> QED BY <1>2, PresetCorrect, PTL DEF PresetSpec, ResetIsAllOrNothing
===============================================================================
