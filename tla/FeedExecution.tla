---------------------------- MODULE FeedExecution ----------------------------
(***************************************************************************)
(* The generic feed executor, execute_feed, run by several sessions of one *)
(* multi-member feed against one PostgreSQL database at READ COMMITTED,    *)
(* each inside the transaction of its caller.                              *)
(*                                                                         *)
(* A run (one call of execute_feed) has a run date and a payload.  For     *)
(* each active member in execution order it validates and extracts, reads  *)
(* the latest stored row per period, drops the observations whose value is *)
(* unchanged, writes a member log, and upserts the remaining rows in one   *)
(* statement.  That statement takes row locks one row at a time, which the *)
(* run holds until its transaction ends.  Nothing a run writes is visible  *)
(* to another run before the caller commits.                               *)
(*                                                                         *)
(* Loading the feed loads, through lazy="selectin" relationships, the      *)
(* observations of its members' series into the session, and the session   *)
(* never refreshes a row it holds: a later read finds the current newest   *)
(* vintage but returns the loaded value of a row that was loaded before.   *)
(***************************************************************************)
EXTENDS ObservationStore, Sequences

CONSTANTS Runs,         \* calls of execute_feed (bounds the attempts explored)
          Members,      \* members of the feed, numbered in execution order
          SeriesOf,     \* the series each member's series_source feeds
          ActiveSets,   \* the members that may be active when a run loads the feed
          Outcomes,     \* what validate + extract of one member can yield
          RunDates,     \* days a run may be dated
          NoVintage,    \* ParsedObservation.vintage_date is None
          NoLog         \* no log row

ASSUME MembersAssumption == Members \subseteq Int /\ IsFiniteSet(Members)
ASSUME SeriesOfAssumption == SeriesOf \in [Members -> Series]
ASSUME ActiveSetsAssumption == ActiveSets \subseteq SUBSET Members
ASSUME RunDatesAssumption == RunDates \subseteq Vintages
ASSUME AttemptsAssumption == Attempts = Runs \X Members
ASSUME NoVintageAssumption == NoVintage \notin Vintages

ParsedObservations ==
  [period : Periods, value : Values, vintage : Vintages \cup {NoVintage}]

\* "data" covers the selector outcomes data and empty; "refused" is an invalid
\* config or a provider_error; "raises" is an exception out of get_selector or
\* extract.
OutcomeKinds == {"data", "refused", "raises"}
ExtractionOutcomes == [kind : OutcomeKinds, rows : Seq(ParsedObservations)]
ASSUME OutcomesAssumption == Outcomes \subseteq ExtractionOutcomes

Statuses == {"success", "partial", "failed"}
MemberLogs == [status : Statuses, fetched : Nat, inserted : Nat, skipped : Nat]
RunLogs == [status : Statuses, fetched : Nat, inserted : Nat, skipped : Nat,
            finished : BOOLEAN]
ASSUME NoLogAssumption == NoLog \notin MemberLogs /\ NoLog \notin RunLogs
Tallies == [fetched : Nat, inserted : Nat, skipped : Nat, failed : Nat]

VARIABLES obs,        \* committed observations
          runLog,     \* committed ingestion_run_logs, by run
          memberLog,  \* committed ingestion_run_log_members, by run and member
          pc,         \* where each run is
          runDate,    \* run_date argument
          payload,    \* outcome of each member's selector on the run's payload
          active,     \* active members when the feed was loaded
          loaded,     \* observations the session holds since it loaded the feed
          left,       \* active members not attempted yet
          pend,       \* rows of the current upsert not written yet: pairs of a
                      \* member and an index into its payload
          written,    \* rows written, and locked, by the open transaction
          draft,      \* member logs flushed and not committed
          draftRun,   \* run log flushed and not committed
          tally       \* total_fetched, total_inserted, total_skipped, failed_members

committed == <<obs, runLog, memberLog>>
arguments == <<runDate, payload, active>>
private == <<loaded, left, pend, written, draft, draftRun, tally>>
vars == <<committed, pc, arguments, private>>

Open == {"running", "finished"}
Ended == {"committed", "rejected", "raised", "lost"}

NoDraft == [m \in Members |-> NoLog]
NoPayload == [m \in Members |-> [kind |-> "refused", rows |-> <<>>]]
ZeroTally == [fetched |-> 0, inserted |-> 0, skipped |-> 0, failed |-> 0]
FailedMember ==
  [status |-> "failed", fetched |-> 0, inserted |-> 0, skipped |-> 0]
FreshRunLog ==
  [status |-> "success", fetched |-> 0, inserted |-> 0, skipped |-> 0,
   finished |-> FALSE]

TypeOK ==
  /\ obs \in Tables
  /\ runLog \in [Runs -> RunLogs \cup {NoLog}]
  /\ memberLog \in [Runs -> [Members -> MemberLogs \cup {NoLog}]]
  /\ pc \in [Runs -> {"idle"} \cup Open \cup Ended]
  /\ runDate \in [Runs -> RunDates \cup {NoVintage}]
  /\ \A r \in Runs : pc[r] \in Open => runDate[r] \in RunDates
  /\ payload \in [Runs -> [Members -> ExtractionOutcomes]]
  /\ active \in [Runs -> SUBSET Members]
  /\ loaded \in [Runs -> Tables]
  /\ left \in [Runs -> SUBSET Members]
  /\ pend \in [Runs -> SUBSET (Members \X Nat)]
  /\ \A r \in Runs : \A x \in pend[r] :
       pc[r] = "running" /\ x[2] \in DOMAIN payload[r][x[1]].rows
  /\ written \in [Runs -> Tables]
  /\ draft \in [Runs -> [Members -> MemberLogs \cup {NoLog}]]
  /\ draftRun \in [Runs -> RunLogs \cup {NoLog}]
  /\ tally \in [Runs -> Tallies]

Init ==
  /\ obs = EmptyTable
  /\ runLog = [r \in Runs |-> NoLog]
  /\ memberLog = [r \in Runs |-> NoDraft]
  /\ pc = [r \in Runs |-> "idle"]
  /\ runDate = [r \in Runs |-> NoVintage]
  /\ payload = [r \in Runs |-> NoPayload]
  /\ active = [r \in Runs |-> {}]
  /\ loaded = [r \in Runs |-> EmptyTable]
  /\ left = [r \in Runs |-> {}]
  /\ pend = [r \in Runs |-> {}]
  /\ written = [r \in Runs |-> EmptyTable]
  /\ draft = [r \in Runs |-> NoDraft]
  /\ draftRun = [r \in Runs |-> NoLog]
  /\ tally = [r \in Runs |-> ZeroTally]

-----------------------------------------------------------------------------
(* Loading the feed *)

\* The feed is active: its active members are sorted into execution order and
\* a run log is flushed with the provisional status SUCCESS.  The session is
\* fresh, so what it holds of the observations is what is committed now.
Begin(r, d, p, a) ==
  /\ pc[r] = "idle"
  /\ pc' = [pc EXCEPT ![r] = "running"]
  /\ runDate' = [runDate EXCEPT ![r] = d]
  /\ payload' = [payload EXCEPT ![r] = p]
  /\ active' = [active EXCEPT ![r] = a]
  /\ loaded' = [loaded EXCEPT ![r] = obs]
  /\ left' = [left EXCEPT ![r] = a]
  /\ draftRun' = [draftRun EXCEPT ![r] = FreshRunLog]
  /\ UNCHANGED <<committed, pend, written, draft, tally>>

\* The feed does not exist or is inactive: ValueError before anything is added.
RejectFeed(r) ==
  /\ pc[r] = "idle"
  /\ pc' = [pc EXCEPT ![r] = "rejected"]
  /\ UNCHANGED <<committed, arguments, private>>

-----------------------------------------------------------------------------
(* One member *)

\* The run is between two statements and m is its next member.
AtMember(r, m) ==
  /\ pc[r] = "running"
  /\ pend[r] = {}
  /\ m \in left[r]
  /\ \A n \in left[r] : m <= n

RecordFailedMember(r, m) ==
  /\ AtMember(r, m)
  /\ payload[r][m].kind = "refused"
  /\ draft' = [draft EXCEPT ![r][m] = FailedMember]
  /\ tally' = [tally EXCEPT ![r].failed = @ + 1]
  /\ left' = [left EXCEPT ![r] = @ \ {m}]
  /\ UNCHANGED <<committed, pc, arguments, loaded, pend, written, draftRun>>

\* The select of the latest rows sees what is committed now and the run's own
\* writes, except that a row the session holds keeps its loaded value.
Seen(r) == Overlay(Overlay(obs, written[r]), loaded[r])

\* Mutants: the value is compared with the first vintage ever stored, or
\* only with a row of the run's own day.
UnchangedSinceFirst(r, m, o) ==
  LET vs == StoredVintages(Seen(r), SeriesOf[m], o.period)
      first == CHOOSE v \in vs : \A u \in vs : v <= u
  IN  vs # {} /\ Seen(r)[<<SeriesOf[m], o.period, first>>].value = o.value
UnchangedToday(r, m, o) ==
  LET row == Seen(r)[<<SeriesOf[m], o.period, runDate[r]>>]
  IN  row # NoRow /\ row.value = o.value

\* Only the newest vintage of the period is compared.
Unchanged(r, m, o) ==
  LET latest == LatestRow(Seen(r), SeriesOf[m], o.period)
  IN  latest # NoRow /\ latest.value = o.value

\* Mutant: the vintage is taken from the period, so that a revision overwrites.
VintageOfPeriod(r, o) == o.period

VintageOf(r, o) == IF o.vintage = NoVintage THEN runDate[r] ELSE o.vintage

Observed(r, x) == payload[r][x[1]].rows[x[2]]
KeyOf(r, x) == <<SeriesOf[x[1]], Observed(r, x).period, VintageOf(r, Observed(r, x))>>

\* Mutant: ON CONFLICT DO UPDATE leaves the provenance of the old row in place.
RowKeepingLog(r, x) ==
  LET old == Overlay(obs, written[r])[KeyOf(r, x)]
  IN  [value |-> Observed(r, x).value,
       log |-> IF old = NoRow THEN <<r, x[1]>> ELSE old.log]

RowOf(r, x) == [value |-> Observed(r, x).value, log |-> <<r, x[1]>>]

RowsToWrite(r, m) ==
  {i \in DOMAIN payload[r][m].rows : ~Unchanged(r, m, payload[r][m].rows[i])}

\* Mutant: every fetched row is counted as inserted.
LogOfFetched(r, m) ==
  LET fetched == Len(payload[r][m].rows)
  IN  [status |-> "success", fetched |-> fetched, inserted |-> fetched,
       skipped |-> 0]

SuccessLog(r, m) ==
  LET fetched == Len(payload[r][m].rows)
      inserted == Cardinality(RowsToWrite(r, m))
  IN  [status |-> "success", fetched |-> fetched, inserted |-> inserted,
       skipped |-> fetched - inserted]

\* Extraction, the latest-vintage read, and the flush of the member log.
ReadMember(r, m) ==
  /\ AtMember(r, m)
  /\ payload[r][m].kind = "data"
  /\ pend' = [pend EXCEPT ![r] = {m} \X RowsToWrite(r, m)]
  /\ draft' = [draft EXCEPT ![r][m] = SuccessLog(r, m)]
  /\ tally' = [tally EXCEPT
                 ![r].fetched = @ + SuccessLog(r, m).fetched,
                 ![r].inserted = @ + SuccessLog(r, m).inserted,
                 ![r].skipped = @ + SuccessLog(r, m).skipped]
  /\ left' = [left EXCEPT ![r] = @ \ {m}]
  /\ UNCHANGED <<committed, pc, arguments, loaded, written, draftRun>>

\* PostgreSQL refuses an upsert that proposes one key twice.
ProposesTwice(r) ==
  \E x, y \in pend[r] : x # y /\ KeyOf(r, x) = KeyOf(r, y)

\* Mutant: the rows of a statement are written in any order.
IsAnyRow(r, x) == pc[r] = "running" /\ x \in pend[r]

\* The rows of a statement are written in payload order.
IsNextRow(r, x) ==
  /\ pc[r] = "running"
  /\ x \in pend[r]
  /\ \A y \in pend[r] : x[2] <= y[2]

LockedByOther(r, k) == \E q \in Runs \ {r} : written[q][k] # NoRow

\* Mutant: INSERT ... ON CONFLICT DO NOTHING.
UpsertRowDoNothing(r, x) ==
  /\ IsNextRow(r, x)
  /\ ~ProposesTwice(r)
  /\ ~LockedByOther(r, KeyOf(r, x))
  /\ written' = IF Overlay(obs, written[r])[KeyOf(r, x)] # NoRow THEN written
                ELSE [written EXCEPT ![r][KeyOf(r, x)] = RowOf(r, x)]
  /\ pend' = [pend EXCEPT ![r] = @ \ {x}]
  /\ UNCHANGED <<committed, pc, arguments, loaded, left, draft, draftRun, tally>>

\* INSERT ... ON CONFLICT DO UPDATE of the next row, once no other open
\* transaction has written that key.  The conflicting row is overwritten
\* whatever it has become since the read.
UpsertRow(r, x) ==
  /\ IsNextRow(r, x)
  /\ ~ProposesTwice(r)
  /\ ~LockedByOther(r, KeyOf(r, x))
  /\ written' = [written EXCEPT ![r][KeyOf(r, x)] = RowOf(r, x)]
  /\ pend' = [pend EXCEPT ![r] = @ \ {x}]
  /\ UNCHANGED <<committed, pc, arguments, loaded, left, draft, draftRun, tally>>

-----------------------------------------------------------------------------
(* The end of the run and of its caller's transaction *)

\* Mutant: a feed without active members has "all" of them failed.
StatusOfAllFailed(r) ==
  IF tally[r].failed = Cardinality(active[r]) THEN "failed"
  ELSE IF tally[r].failed > 0 THEN "partial" ELSE "success"

StatusOf(r) ==
  IF tally[r].failed = Cardinality(active[r]) /\ active[r] # {}
  THEN "failed"
  ELSE IF tally[r].failed > 0 THEN "partial" ELSE "success"

Finish(r) ==
  /\ pc[r] = "running"
  /\ pend[r] = {}
  /\ left[r] = {}
  /\ pc' = [pc EXCEPT ![r] = "finished"]
  /\ draftRun' = [draftRun EXCEPT ![r] =
       [status |-> StatusOf(r), fetched |-> tally[r].fetched,
        inserted |-> tally[r].inserted, skipped |-> tally[r].skipped,
        finished |-> TRUE]]
  /\ UNCHANGED <<committed, arguments, loaded, left, pend, written, draft, tally>>

\* Mutant: a caller that catches the exception and keeps its transaction open.
EndTransactionKeepingLocks(r, how) ==
  /\ pc' = [pc EXCEPT ![r] = how]
  /\ left' = [left EXCEPT ![r] = {}]
  /\ pend' = [pend EXCEPT ![r] = {}]
  /\ written' = IF how = "raised" THEN written
                ELSE [written EXCEPT ![r] = EmptyTable]
  /\ UNCHANGED <<arguments, loaded, draft, draftRun, tally>>

\* The session is closed: locks and everything uncommitted are gone.
EndTransaction(r, how) ==
  /\ pc' = [pc EXCEPT ![r] = how]
  /\ loaded' = [loaded EXCEPT ![r] = EmptyTable]
  /\ left' = [left EXCEPT ![r] = {}]
  /\ pend' = [pend EXCEPT ![r] = {}]
  /\ written' = [written EXCEPT ![r] = EmptyTable]
  /\ draft' = [draft EXCEPT ![r] = NoDraft]
  /\ draftRun' = [draftRun EXCEPT ![r] = NoLog]
  /\ tally' = [tally EXCEPT ![r] = ZeroTally]
  /\ UNCHANGED arguments

\* Mutant: the caller commits before execute_feed has finished the run log.
CommitEarly(r) ==
  /\ pc[r] \in Open
  /\ pend[r] = {}
  /\ obs' = Overlay(obs, written[r])
  /\ runLog' = [runLog EXCEPT ![r] = draftRun[r]]
  /\ memberLog' = [memberLog EXCEPT ![r] = draft[r]]
  /\ EndTransaction(r, "committed")

\* The caller commits after execute_feed returned.
Commit(r) ==
  /\ pc[r] = "finished"
  /\ obs' = Overlay(obs, written[r])
  /\ runLog' = [runLog EXCEPT ![r] = draftRun[r]]
  /\ memberLog' = [memberLog EXCEPT ![r] = draft[r]]
  /\ EndTransaction(r, "committed")

\* An exception leaves execute_feed and the caller does not commit: an unknown
\* selector_type, a value or a date the selector cannot parse, or a payload
\* that yields two rows for one key.
Raise(r) ==
  /\ \/ \E m \in Members : AtMember(r, m) /\ payload[r][m].kind = "raises"
     \/ pc[r] = "running" /\ ProposesTwice(r)
  /\ EndTransaction(r, "raised")
  /\ UNCHANGED committed

\* The process or its connection dies.
Crash(r) ==
  /\ pc[r] \in Open
  /\ EndTransaction(r, "lost")
  /\ UNCHANGED committed

WaitsFor(r, q) ==
  /\ q # r
  /\ \E x \in pend[r] : IsNextRow(r, x) /\ written[q][KeyOf(r, x)] # NoRow

\* Runs that wait for one another in a ring.
Ring(ring) ==
  \A r \in ring : /\ \E q \in ring : WaitsFor(r, q)
                  /\ \E q \in ring : WaitsFor(q, r)

\* PostgreSQL breaks a ring of lock waits by failing the statement of one.
BreakDeadlock(r) ==
  /\ \E ring \in SUBSET Runs : r \in ring /\ Ring(ring)
  /\ EndTransaction(r, "lost")
  /\ UNCHANGED committed

-----------------------------------------------------------------------------
Work(r) ==
  \/ \E m \in Members : RecordFailedMember(r, m) \/ ReadMember(r, m)
  \/ \E x \in pend[r] : UpsertRow(r, x)
  \/ Finish(r)
  \/ Commit(r)
  \/ Raise(r)
  \/ BreakDeadlock(r)

Start(r) ==
  \/ \E d \in RunDates, p \in [Members -> Outcomes], a \in ActiveSets :
       Begin(r, d, p, a)
  \/ RejectFeed(r)

Next == \E r \in Runs : Start(r) \/ Work(r) \/ Crash(r)

Spec == Init /\ [][Next]_vars

\* A run that was started is driven to its end by the event loop and by
\* PostgreSQL's deadlock detector; nobody is obliged to start one.
FairSpec == Spec /\ \A r \in Runs : WF_vars(Work(r))

-----------------------------------------------------------------------------
(* Properties *)

\* A stored value points to the exact extraction attempt that produced it: the
\* member log it names is committed, reports success, belongs to the series,
\* and its payload holds that value for that period and vintage (runner.py's
\* provenance columns, CONTEXT.md "Ingestion run log member").
ExtractedBy(k, row, r, m) ==
  /\ SeriesOf[m] = k[1]
  /\ \E i \in DOMAIN payload[r][m].rows :
       LET o == payload[r][m].rows[i]
       IN  o.period = k[2] /\ VintageOf(r, o) = k[3] /\ o.value = row.value

ProvenanceSound ==
  \A k \in Keys : obs[k] # NoRow =>
    \E r \in Runs, m \in Members :
      /\ obs[k].log = <<r, m>>
      /\ pc[r] = "committed"
      /\ memberLog[r][m] # NoLog
      /\ memberLog[r][m].status = "success"
      /\ ExtractedBy(k, obs[k], r, m)

\* A committed run log is final, accounts for every member that was active
\* when the feed was loaded, and its status is the one the member logs call
\* for; the provisional SUCCESS it is created with is never what is read.
AuditComplete ==
  \A r \in Runs :
    LET failed == {m \in active[r] : memberLog[r][m].status = "failed"}
    IN  IF pc[r] = "committed"
        THEN /\ runLog[r] # NoLog
             /\ runLog[r].finished
             /\ active[r] = {m \in Members : memberLog[r][m] # NoLog}
             /\ runLog[r].status = IF failed = {} THEN "success"
                                   ELSE IF failed = active[r] THEN "failed"
                                   ELSE "partial"
        ELSE runLog[r] = NoLog /\ memberLog[r] = NoDraft

\* Every transition a reader of committed rows can see is a publication of the
\* audited store.
Audited == INSTANCE AuditedStore
ImplementsAuditedStore == Audited!Spec

\* What an open transaction holds of the audit record: it has a draft for each
\* active member that was attempted and its tally of failures counts the failed
\* drafts, whatever the order of members and the interleaving with other runs.
FailedDrafts(r) ==
  {m \in Members : draft[r][m] # NoLog /\ draft[r][m].status = "failed"}

Accounted(r) ==
  pc[r] \in Open =>
    /\ left[r] \subseteq active[r]
    /\ \A m \in Members : draft[r][m] # NoLog <=> m \in active[r] \ left[r]
    /\ tally[r].failed = Cardinality(FailedDrafts(r))

Finalised(r) ==
  pc[r] = "finished" =>
    /\ left[r] = {}
    /\ draftRun[r] # NoLog
    /\ draftRun[r].finished
    /\ draftRun[r].status = StatusOf(r)

\* Every row it wrote or is about to write has a successful draft behind it.
Attributed(r) ==
  /\ \A x \in pend[r] :
       draft[r][x[1]] # NoLog /\ draft[r][x[1]].status = "success"
  /\ \A k \in Keys : written[r][k] # NoRow =>
       \E m \in Members :
         /\ written[r][k].log = <<r, m>>
         /\ draft[r][m] # NoLog
         /\ draft[r][m].status = "success"
         /\ ExtractedBy(k, written[r][k], r, m)

\* A run that is not open holds nothing.
AtRest(r) ==
  pc[r] \notin Open =>
    written[r] = EmptyTable /\ draft[r] = NoDraft /\ tally[r] = ZeroTally

RunInv(r) == Accounted(r) /\ Finalised(r) /\ Attributed(r) /\ AtRest(r)

\* The inductive invariant behind ProvenanceSound, AuditComplete and the
\* refinement: what becomes visible at a commit is prepared correctly before.
Inductive == TypeOK /\ ProvenanceSound /\ AuditComplete /\ \A r \in Runs : RunInv(r)

\* Runs whose payloads list periods in calendar order, and among whose active
\* members no two feed one series, never wait for each other in a ring: members
\* are attempted in one order and rows are locked in payload order.  (With a
\* payload in another order, or when some run imports a series by another member
\* than the rest, they can deadlock, and PostgreSQL then fails a run.)
LockInOrder(ring) ==
  /\ \A m, n \in UNION {active[r] : r \in ring} : SeriesOf[m] = SeriesOf[n] => m = n
  /\ \A r \in ring : \A m \in active[r] : \A i, j \in DOMAIN payload[r][m].rows :
       i < j => payload[r][m].rows[i].period < payload[r][m].rows[j].period

NoCircularWait ==
  \A ring \in SUBSET Runs : ring # {} /\ LockInOrder(ring) => ~Ring(ring)

\* Every run that was started reaches an end: no run waits for a row lock
\* forever.
EveryRunEnds == \A r \in Runs : pc[r] \in Open ~> pc[r] \in Ended
=============================================================================
