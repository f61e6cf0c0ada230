------------------------------ MODULE FredPreset ------------------------------
(***************************************************************************)
(* The FRED preset (bootstrap/fred_us_macro.py) for one of its series: the *)
(* bootstrap, which finds or makes the catalog rows, resolves the period   *)
(* from which to ask, fetches and executes the feed, all in one            *)
(* transaction; the reset, which reads ids and deletes the rows of six     *)
(* tables one statement after the other; and those who write in between:   *)
(* the provider, other bootstraps, MCP triggers and the routes.            *)
(*                                                                         *)
(* A lane is a series source with its feed and feed member: the preset     *)
(* makes and deletes them together.  A run log and its one member log are  *)
(* named after the job that wrote them.                                    *)
(***************************************************************************)
EXTENDS ObservationStore, Sequences

CONSTANTS NoLane,
          Imports, Triggers,  \* bootstraps and trigger_feed_execution calls
          DayOf,              \* run_date of each bootstrap
          Earlier,            \* bootstraps that ended before the history begins
          NotServed,          \* the provider has no such period
          Default,            \* request_params without an overlap
          Overlap,            \* _default_overlap_for_frequency, in periods
          Overrides,          \* overlaps somebody may set on the feed
          Posts,              \* bulk requests: sequences of rows and their keys
          MaxReleases, MaxWrites  \* bounds: provider releases, route calls

Jobs == Imports \cup Triggers
Lanes == Imports     \* a lane is named after the bootstrap that makes it
Posted == "posted"   \* no provenance

\* Periods and vintages are calendar dates, so there are finitely many.
ASSUME PresetAssumption ==
  /\ (\E s \in Series : Series = {s}) /\ Values # {}
  /\ Periods \subseteq Nat /\ IsFiniteSet(Periods) /\ IsFiniteSet(Vintages)
  /\ NoLane \notin Lanes /\ Imports \cap Triggers = {}
  /\ DayOf \in [Imports -> Vintages] /\ Earlier \subseteq Imports /\ NotServed \notin Values
  /\ Attempts = Jobs \cup {Posted} /\ Posted \notin Jobs
  /\ Overlap \in Nat /\ Overrides \subseteq Nat /\ Default \notin Nat
  /\ Posts \subseteq Seq([key : Keys, row : Rows]) /\ MaxReleases \in Nat /\ MaxWrites \in Nat

VARIABLES served,   \* provider: the value of each period
          series,   \* whether the series row is there
          lanes,    \* lanes that are there
          params,   \* overlap in the request_params of each lane's feed
          edged,    \* whether a series_hierarchy_edge refers to the series
          logs,     \* run logs, with their lane
          obs,      \* observations
          jobs, reset,
          post,     \* rows a bulk request has checked and not upserted
          behind,   \* history: periods the store is entitled to have outdated
          releases, writes

rows == <<series, lanes, params, edged, logs, obs>>
presetVars == <<served, rows, jobs, reset, post, behind, releases, writes>>

TheSeries == CHOOSE s \in Series : TRUE
Key(p, d) == <<TheSeries, p, d>>
Latest(p) == LatestRow(obs, TheSeries, p)
StoredPeriods == {p \in Periods : Latest(p) # NoRow}
NewestPeriod == CHOOSE p \in StoredPeriods : \A q \in StoredPeriods : q <= p

Nothing == [p \in Periods |-> NotServed]
\* held are the rows in the session's identity map, sources the lanes in it.
FreshJob == [pc |-> "idle", new |-> FALSE, sources |-> {}, held |-> EmptyTable,
             lane |-> NoLane, fresh |-> FALSE, reparam |-> FALSE, start |-> 0,
             fetched |-> Nothing, write |-> EmptyTable, since |-> {}, alone |-> TRUE]
Kept == [obs |-> {}, logs |-> {}, lanes |-> {}, series |-> FALSE]
FreshReset == [pc |-> "idle", lanes |-> {}, logs |-> {}, gone |-> Kept]

Served == {p \in Periods : served[p] # NotServed}

\* The database is new, but for the series that POST /series may have made, or
\* an earlier bootstrap has imported what the provider then served.
Empty ==
  /\ series \in BOOLEAN /\ lanes = {} /\ logs = {} /\ obs = EmptyTable
  /\ behind = Periods
Imported(j) ==
  \E then \in SUBSET Served :
    /\ \A p, q \in Periods : p <= q /\ q \in then => p \in then
    /\ series = TRUE /\ lanes = {j} /\ logs = {[job |-> j, lane |-> j]}
    /\ obs = [k \in Keys |-> IF k[3] = DayOf[j] /\ k[2] \in then
                              THEN [value |-> served[k[2]], log |-> j] ELSE NoRow]
    /\ behind = Served \ then

PresetInit ==
  /\ served \in [Periods -> {CHOOSE v \in Values : TRUE, NotServed}]
  /\ \A p, q \in Periods : p <= q /\ q \in Served => p \in Served
  /\ Empty \/ \E j \in Earlier : Imported(j)
  /\ params = [l \in Lanes |-> Default] /\ edged = FALSE
  /\ jobs = [j \in Jobs |-> IF j \in Earlier THEN [FreshJob EXCEPT !.pc = "done"]
                             ELSE FreshJob]
  /\ reset = FreshReset /\ post = EmptyTable
  /\ releases = 0 /\ writes = 0
-------------------------------------------------------------------------------
(* Rows that open transactions have written: others wait for them *)

Written(j) == IF jobs[j].pc = "commit" THEN {k \in Keys : jobs[j].write[k] # NoRow} ELSE {}
Planned(j) == {k \in Keys : jobs[j].write[k] # NoRow}
\* A run log refers to its feed, a source and observations to their series.
HoldsLane(j, l) == jobs[j].lane = l /\ (jobs[j].pc \in {"upsert", "commit"} \/ jobs[j].reparam)
HoldsSeries(j) == jobs[j].fresh \/ Written(j) # {}

LogsOf(ls) == {log \in logs : log.lane \in ls}
Asked(j) == jobs[j].pc \in {"compare", "upsert", "commit"}
Disturbed(js) == [j \in Jobs |-> IF Asked(j) THEN [js[j] EXCEPT !.alone = FALSE] ELSE js[j]]
-------------------------------------------------------------------------------
(* The provider and the routes *)

\* A period is published, late or in turn, or revised.
Release(p, v) ==
  /\ releases < MaxReleases /\ releases' = releases + 1 /\ served[p] # v
  /\ served' = [served EXCEPT ![p] = v]
  /\ behind' = behind \cup {p}
  /\ jobs' = [j \in Jobs |-> IF Asked(j) THEN [jobs[j] EXCEPT !.since = @ \cup {p}] ELSE jobs[j]]
  /\ UNCHANGED <<rows, reset, post, writes>>

Request == writes < MaxWrites /\ writes' = writes + 1
Route == Request /\ UNCHANGED post

\* What a row refers to: the series, and the run it comes from unless it has none.
Refers(row) == series /\ row.log \in {Posted} \cup {log.job : log \in logs}

\* POST /observations/bulk: of several rows with one key the first counts, and one
\* that refers to what is not there is left out of the request.
CheckPosted(rs) ==
  /\ Request /\ post = EmptyTable
  /\ post' = [k \in Keys |->
       IF \E i \in DOMAIN rs : /\ rs[i].key = k /\ Refers(rs[i].row)
                               /\ \A j \in 1..(i - 1) : rs[j].key # k
       THEN rs[CHOOSE i \in DOMAIN rs : rs[i].key = k /\ \A j \in 1..(i - 1) : rs[j].key # k].row
       ELSE NoRow]
  /\ UNCHANGED <<served, rows, jobs, reset, behind, releases>>

PostedKeys == {k \in Keys : post[k] # NoRow}
PostWaits == \/ reset.gone.series \/ PostedKeys \cap reset.gone.obs # {}
             \/ \E j \in Jobs : PostedKeys \cap Written(j) # {}
             \/ \E k \in PostedKeys : post[k].log \in {log.job : log \in reset.gone.logs}

\* One statement for what was accepted: it fails as a whole if a row refers to what
\* has gone since.
UpsertPosted ==
  /\ PostedKeys # {} /\ ~PostWaits /\ post' = EmptyTable
  /\ IF \A k \in PostedKeys : Refers(post[k])
     THEN /\ obs' = Overlay(obs, post) /\ behind' = behind \cup {k[2] : k \in PostedKeys}
          /\ jobs' = Disturbed(jobs)
     ELSE UNCHANGED <<obs, behind, jobs>>
  /\ UNCHANGED <<served, series, lanes, params, edged, logs, reset, releases, writes>>

\* PATCH /ingestion-feeds: an overlap for this feed.
PatchOverlap(l, o) ==
  /\ Route /\ l \in lanes \ reset.gone.lanes /\ params[l] # o
  /\ \A j \in Jobs : ~(jobs[j].reparam /\ jobs[j].lane = l)
  /\ params' = [params EXCEPT ![l] = o]
  /\ UNCHANGED <<served, series, lanes, edged, logs, obs, jobs, reset, behind, releases>>

PostHierarchyEdge ==
  /\ Route /\ series /\ ~reset.gone.series /\ ~edged /\ edged' = TRUE
  /\ UNCHANGED <<served, series, lanes, params, logs, obs, jobs, reset, behind, releases>>
-------------------------------------------------------------------------------
(* The bootstrap, as far as it concerns the series *)

Step(j, from, new) ==
  /\ jobs[j].pc = from /\ jobs' = [jobs EXCEPT ![j] = new]
  /\ UNCHANGED <<served, rows, reset, behind, releases, post, writes>>
At(j, pc) == [jobs[j] EXCEPT !.pc = pc]

\* run_date is today's date.
StartImport(j) ==
  /\ \A k \in Imports : DayOf[k] > DayOf[j] => jobs[k].pc = "idle"
  /\ Step(j, "idle", At(j, "find"))

\* _upsert_series looks for the code; ensure_series_embedding_current loads what is
\* there anew, with its sources and observations (lazy="selectin").
FindSeries(j) ==
  Step(j, "find", IF series THEN [At(j, "source") EXCEPT !.sources = lanes, !.held = obs]
                  ELSE At(j, "insert"))

\* The observations that come with a source: those of its runs.
RowsOfLane(l) ==
  [k \in Keys |-> IF obs[k] # NoRow /\ obs[k].log \in {log.job : log \in LogsOf({l})}
                  THEN obs[k] ELSE NoRow]

\* _upsert_series_source takes the first source of the external code: what is new in
\* the session is loaded with it, what is held stays as it was.
FindSource(j) ==
  \/ lanes = {} /\ Step(j, "source", At(j, "link"))
  \/ \E l \in lanes : Step(j, "source", [At(j, "feed") EXCEPT !.lane = l,
       !.held = IF l \in jobs[j].sources THEN @ ELSE Overlay(RowsOfLane(l), @)])

InsertSeries(j) ==
  /\ \A k \in Jobs : ~jobs[k].new
  /\ Step(j, "insert", IF series THEN At(j, "failing")
                       ELSE [At(j, "link") EXCEPT !.new = TRUE])

LinkSource(j) ==
  /\ ~reset.gone.series
  /\ Step(j, "link", [At(j, "resolve") EXCEPT !.lane = j, !.fresh = TRUE])

\* _upsert_ingestion_feed sets every field, request_params among them.
UpsertFeed(j) ==
  LET l == jobs[j].lane
  IN /\ jobs[j].pc = "feed"
     /\ params[l] # Default =>
          /\ l \notin reset.gone.lanes
          /\ \A k \in Jobs : ~(jobs[k].reparam /\ jobs[k].lane = l)
     /\ Step(j, "feed", IF params[l] # Default /\ l \notin lanes THEN At(j, "failing")
                        ELSE [At(j, "resolve") EXCEPT !.reparam = params[l] # Default])

\* Mutant: the overlap is added.
ObservationStartAhead(overlap) ==
  IF StoredPeriods = {} THEN 0 ELSE NewestPeriod + 2 * overlap

\* From an overlap before the newest period that is stored; 0 asks for all.
ObservationStart(overlap) ==
  IF StoredPeriods = {} THEN 0 ELSE NewestPeriod - overlap

\* By now the feed the session holds has no overlap of its own.
ResolveStart(j) ==
  Step(j, "resolve", [At(j, "fetch") EXCEPT !.start = ObservationStart(Overlap)])

\* The metadata's frequency may differ from the curated one.
Fetch(j) ==
  \/ Step(j, "fetch", At(j, "failing"))
  \/ Step(j, "fetch", [At(j, "compare") EXCEPT !.since = {},
       !.fetched = [p \in Periods |-> IF p >= jobs[j].start THEN served[p] ELSE NotServed]])

\* The query of _load_latest_observations_by_period says which rows there are; the
\* identity map answers for those the session holds.
Seen(j) == [k \in Keys |-> IF obs[k] # NoRow /\ jobs[j].held[k] # NoRow
                           THEN jobs[j].held[k] ELSE obs[k]]
Known(j, p) == LatestRow(Seen(j), TheSeries, p)

\* _execute_member skips what the newest stored vintage of the period says.
Changed(j, p) == Known(j, p) = NoRow \/ Known(j, p).value # jobs[j].fetched[p]

\* The run log, which refers to the feed, and the rows to write.
Compare(j) ==
  /\ jobs[j].lane \notin reset.gone.lanes
  /\ Step(j, "compare",
       IF jobs[j].lane \notin lanes /\ ~jobs[j].fresh THEN At(j, "failing")
       ELSE [At(j, "upsert") EXCEPT !.alone = TRUE,
              !.write = [k \in Keys |->
                IF /\ k[3] = DayOf[j] /\ jobs[j].fetched[k[2]] # NotServed
                   /\ Changed(j, k[2])
                THEN [value |-> jobs[j].fetched[k[2]], log |-> j] ELSE NoRow]])

UpsertWaits(j) == \/ Planned(j) \cap reset.gone.obs # {}
                  \/ \E k \in Jobs \ {j} : Planned(j) \cap Written(k) # {}
Upsert(j) == ~UpsertWaits(j) /\ Step(j, "upsert", At(j, "commit"))

\* trigger_feed_execution with a provider's error message for payload (those with
\* data write as the bootstraps do): the one member fails, and its log is committed
\* as soon as the feed it refers to is free.
Trigger(j, l) ==
  /\ jobs[j].pc = "idle" /\ l \in lanes \ reset.gone.lanes
  /\ jobs' = [jobs EXCEPT ![j].pc = "done"]
  /\ logs' = logs \cup {[job |-> j, lane |-> l]}
  /\ UNCHANGED <<served, series, lanes, params, edged, obs, reset, behind, releases, post, writes>>

\* What a committed import leaves outdated: what was released since it asked,
\* what is more than the overlap before the newest period, what it wrote under an
\* older date than others or while others wrote, and what others had overwritten
\* since it loaded it.
LeftBehind(j) ==
  {p \in Periods :
     \/ p \in jobs[j].since
     \/ p \in behind /\ StoredPeriods # {} /\ p < NewestPeriod - Overlap
     \/ ~jobs[j].alone
     \/ Known(j, p) # Latest(p)
     \/ \E v \in StoredVintages(obs, TheSeries, p) : v > DayOf[j]}

CommitImport(j) ==
  /\ jobs[j].pc = "commit"
  /\ series' = (series \/ jobs[j].new)
  /\ lanes' = IF jobs[j].fresh THEN lanes \cup {jobs[j].lane} ELSE lanes
  /\ params' = IF jobs[j].reparam THEN [params EXCEPT ![jobs[j].lane] = Default] ELSE params
  /\ logs' = logs \cup {[job |-> j, lane |-> jobs[j].lane]}
  /\ obs' = Overlay(obs, jobs[j].write)
  /\ behind' = LeftBehind(j)
  /\ jobs' = [IF obs' # obs THEN Disturbed(jobs) ELSE jobs
              EXCEPT ![j] = [FreshJob EXCEPT !.pc = "done"]]
  /\ UNCHANGED <<served, edged, reset, releases, post, writes>>

\* An exception or the end of the process, at any point.
FailImport(j) ==
  /\ jobs[j].pc \notin {"idle", "done"}
  /\ Step(j, jobs[j].pc, [FreshJob EXCEPT !.pc = "done"])

ImportStep(j) == \/ FindSeries(j) \/ InsertSeries(j) \/ FindSource(j) \/ LinkSource(j)
  \/ UpsertFeed(j) \/ ResolveStart(j) \/ Fetch(j) \/ Compare(j) \/ Upsert(j)
-------------------------------------------------------------------------------
(* The reset: ids first, then one DELETE after the other *)

ResetStep(from, new) ==
  /\ reset.pc = from /\ reset' = new
  /\ UNCHANGED <<served, rows, jobs, behind, releases, post, writes>>
ResetAt(pc) == [reset EXCEPT !.pc = pc]
\* Refused by a foreign key: the whole transaction is rolled back.
ResetUnless(refused, new) == IF refused THEN ResetAt("failing") ELSE new

\* The ids of the series, its sources and their feeds.
StartReset == ResetStep("idle", IF series THEN [ResetAt("run_logs") EXCEPT !.lanes = lanes]
                                ELSE ResetAt("done"))

ReadRunLogs == ResetStep("run_logs",
  [ResetAt("observations") EXCEPT !.logs = {log.job : log \in LogsOf(reset.lanes)}])

ObservationsWait == \E j \in Jobs : \E k \in Written(j) : obs[k] # NoRow
DeleteObservations == ~ObservationsWait /\ ResetStep("observations",
  [ResetAt("logs") EXCEPT !.gone.obs = {k \in Keys : obs[k] # NoRow}])

\* Observations refer to member logs: one may have been posted since.
StillCited(js) == \E k \in Keys \ reset.gone.obs : obs[k] # NoRow /\ obs[k].log \in js

\* Member logs by the ids that were read, then run logs by feed: those committed
\* in between have a member log left.
DeleteRunLogs == ResetStep("logs",
  ResetUnless(\/ StillCited(reset.logs)
              \/ \E log \in LogsOf(reset.lanes) : log.job \notin reset.logs,
              [ResetAt("feeds") EXCEPT !.gone.logs = LogsOf(reset.lanes)]))

FeedsWait == \E j \in Jobs, l \in reset.lanes : HoldsLane(j, l)
DeleteFeeds == ~FeedsWait /\ ResetStep("feeds",
  ResetUnless(LogsOf(reset.lanes) \ reset.gone.logs # {},
              [ResetAt("series") EXCEPT !.gone.lanes = reset.lanes]))

\* Sources cascade with their series, feed members with their source; member
\* logs, observations and hierarchy edges restrict.
SeriesWaits == \E j \in Jobs : HoldsSeries(j)

\* Mutant: member logs do not hold their feed member.
DeleteSeriesAndSources == ~SeriesWaits /\ ResetStep("series",
  ResetUnless(edged \/ \E k \in Keys \ reset.gone.obs : obs[k] # NoRow,
              [ResetAt("commit") EXCEPT !.gone.lanes = lanes, !.gone.series = TRUE]))

DeleteSeries == ~SeriesWaits /\ ResetStep("series",
  ResetUnless(\/ edged
              \/ \E k \in Keys \ reset.gone.obs : obs[k] # NoRow
              \/ LogsOf(lanes \ reset.gone.lanes) # {},
              [ResetAt("commit") EXCEPT !.gone.lanes = lanes, !.gone.series = TRUE]))

\* A bootstrap that has found the series and refers to it with nothing yet fails when
\* it does.
Bereft(js) == [j \in Jobs |-> IF jobs[j].pc \in {"source", "link"}
                               THEN [js[j] EXCEPT !.pc = "failing"] ELSE js[j]]

\* Mutant: what one statement refuses does not undo the others.
CommitWhatIsGone ==
  /\ reset.pc \in {"commit", "failing"}
  /\ series' = (series /\ ~reset.gone.series)
  /\ lanes' = lanes \ reset.gone.lanes /\ logs' = logs \ reset.gone.logs
  /\ obs' = [k \in Keys |-> IF k \in reset.gone.obs THEN NoRow ELSE obs[k]]
  /\ behind' = Periods /\ jobs' = Bereft(Disturbed(jobs))
  /\ params' = [l \in Lanes |-> IF l \in reset.gone.lanes THEN Default ELSE params[l]]
  /\ reset' = [FreshReset EXCEPT !.pc = "done"]
  /\ UNCHANGED <<served, edged, releases, post, writes>>

CommitReset ==
  /\ reset.pc = "commit"
  /\ series' = FALSE
  /\ lanes' = lanes \ reset.gone.lanes /\ logs' = logs \ reset.gone.logs
  /\ obs' = [k \in Keys |-> IF k \in reset.gone.obs THEN NoRow ELSE obs[k]]
  /\ params' = [l \in Lanes |-> IF l \in reset.gone.lanes THEN Default ELSE params[l]]
  /\ behind' = Periods /\ jobs' = Bereft(Disturbed(jobs))
  /\ reset' = [FreshReset EXCEPT !.pc = "done"]
  /\ UNCHANGED <<served, edged, releases, post, writes>>

\* Mutant: the session is not closed after an error.
FailResetKeepingLocks ==
  reset.pc \notin {"idle", "done", "failing"} /\ ResetStep(reset.pc, ResetAt("failing"))

FailReset ==
  /\ reset.pc \notin {"idle", "done"}
  /\ ResetStep(reset.pc, [FreshReset EXCEPT !.pc = "done"])

ResetWork ==
  \/ ReadRunLogs \/ DeleteObservations \/ DeleteRunLogs \/ DeleteFeeds \/ DeleteSeries
  \/ CommitReset
  \/ (reset.pc = "failing" /\ FailReset)
-------------------------------------------------------------------------------
\* Reset and job wait for each other: PostgreSQL aborts one of them.
ResetWaitsFor(j) ==
  \/ reset.pc = "feeds" /\ \E l \in reset.lanes : HoldsLane(j, l)
  \/ reset.pc = "series" /\ HoldsSeries(j)
Deadlock(j) == /\ ResetWaitsFor(j) /\ jobs[j].pc = "upsert"
               /\ Planned(j) \cap reset.gone.obs # {}
BreakDeadlock(j) == Deadlock(j) /\ (FailImport(j) \/ FailReset)

Work(j) ==
  \/ ImportStep(j)
  \/ CommitImport(j)
  \/ jobs[j].pc = "failing" /\ FailImport(j)
  \/ BreakDeadlock(j)

PresetNext ==
  \/ \E p \in Periods, v \in Values : Release(p, v)
  \/ (\E rs \in Posts : CheckPosted(rs)) \/ UpsertPosted
  \/ \E l \in Lanes, o \in Overrides \cup {Default} : PatchOverlap(l, o)
  \/ PostHierarchyEdge
  \/ \E j \in Imports : StartImport(j)
  \/ \E j \in Triggers, l \in Lanes : Trigger(j, l)
  \/ \E j \in Imports : Work(j) \/ FailImport(j)
  \/ StartReset \/ ResetWork \/ FailReset

PresetSpec == PresetInit /\ [][PresetNext]_presetVars

\* The event loop goes on with what was started, and PostgreSQL breaks deadlocks.
FairPresetSpec == PresetSpec
  /\ \A j \in Imports : WF_presetVars(Work(j))
  /\ WF_presetVars(ResetWork)
-------------------------------------------------------------------------------
(* Properties *)

\* Typed, and no reference dangles: a source has its series, a run log its feed,
\* an observation its series and the member log it comes from.
TypeOK ==
  /\ served \in [Periods -> Values \cup {NotServed}]
  /\ lanes \subseteq Lanes /\ params \in [Lanes -> Overrides \cup {Default}]
  /\ logs \subseteq [job : Jobs, lane : Lanes] /\ obs \in Tables
  /\ behind \subseteq Periods /\ post \in Tables
  /\ releases \in 0..MaxReleases /\ writes \in 0..MaxWrites
  /\ \A j \in Jobs : jobs[j].lane \in Lanes \cup {NoLane} /\ jobs[j].write \in Tables
  /\ lanes # {} \/ edged => series
  /\ \A log \in logs : log.lane \in lanes
  /\ \A k \in Keys : obs[k] # NoRow =>
       series /\ obs[k].log \in {Posted} \cup {log.job : log \in logs}

\* A reset that removes anything has removed everything that hangs on the series,
\* however many runs committed between its reads and its deletes; and nobody
\* else removes anything (reset_fred_us_macro_bootstrap, the foreign keys).
ResetIsAllOrNothing ==
  [][\/ series /\ ~series'
     \/ ~(lanes \subseteq lanes' /\ logs \subseteq logs')
     \/ \E k \in Keys : obs[k] # NoRow /\ obs'[k] = NoRow
     => ~series' /\ lanes' = {} /\ logs' = {} /\ obs' = EmptyTable]_presetVars

\* The newest stored value of a period is the provider's, except for what was
\* released since the last import asked, lay behind the window it asked for, or
\* was written by others since the import loaded the rows it compares with.
CurrentUnlessBehind ==
  \A p \in Periods \ behind :
    served[p] # NotServed => Latest(p) # NoRow /\ Latest(p).value = served[p]

\* The reset waits for the rows of runs, and the runs may wait for its own; it
\* ends all the same, committed or refused.
ResetEnds == reset.pc # "idle" ~> reset.pc = "done"
===============================================================================
