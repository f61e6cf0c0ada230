------------------------ MODULE FeedExecutionProofs ------------------------
(***************************************************************************)
(* Proofs about the feed executor, for every feed, payload, set of runs    *)
(* and interleaving: typing; from one inductive invariant (what an open    *)
(* transaction prepares is already accounted for) that provenance is sound,*)
(* that the audit record is complete and that the executor implements      *)
(* AuditedStore; that runs which lock in order never wait in a ring; and,  *)
(* with the history variables, that an orderly history can be read back,   *)
(* that a run nobody overlapped is what readers see, and that the counts   *)
(* of a run are those of its logs and of the rows attributed to it.        *)
(***************************************************************************)
EXTENDS FeedExecutionHistory, FiniteSetTheorems, WellFoundedInduction, TLAPS

-----------------------------------------------------------------------------
(* The pieces of one member's statement *)

\* The rows a member writes are some of the rows it fetched, so both counts and
\* their difference are naturals.
LEMMA RowsToWriteBounded ==
  ASSUME TypeOK, NEW r \in Runs, NEW m \in Members
  PROVE  /\ RowsToWrite(r, m) \subseteq DOMAIN payload[r][m].rows
         /\ Len(payload[r][m].rows) \in Nat
         /\ Cardinality(RowsToWrite(r, m)) \in Nat
         /\ Cardinality(RowsToWrite(r, m)) <= Len(payload[r][m].rows)
<1> DEFINE rows == payload[r][m].rows
<1>1. rows \in Seq(ParsedObservations)
  BY DEF TypeOK, ExtractionOutcomes
<1>2. RowsToWrite(r, m) \subseteq DOMAIN rows
  BY DEF RowsToWrite
<1>3. DOMAIN rows = 1..Len(rows) /\ Len(rows) \in Nat
  BY <1>1
<1>4. IsFiniteSet(1..Len(rows)) /\ Cardinality(1..Len(rows)) = Len(rows)
  BY <1>3, FS_Interval
<1>5. IsFiniteSet(RowsToWrite(r, m))
      /\ Cardinality(RowsToWrite(r, m)) <= Cardinality(1..Len(rows))
  BY <1>2, <1>3, <1>4, FS_Subset
<1> QED BY <1>2, <1>3, <1>4, <1>5, FS_CardinalityType

\* A member's log is a log, and its three counts are naturals.
LEMMA SuccessLogType ==
  ASSUME TypeOK, NEW r \in Runs, NEW m \in Members
  PROVE  /\ SuccessLog(r, m) \in MemberLogs
         /\ SuccessLog(r, m).status = "success"
         /\ SuccessLog(r, m).fetched \in Nat
         /\ SuccessLog(r, m).inserted \in Nat
         /\ SuccessLog(r, m).skipped \in Nat
<1> DEFINE f == Len(payload[r][m].rows)
           i == Cardinality(RowsToWrite(r, m))
<1>1. f \in Nat /\ i \in Nat /\ i <= f
  BY RowsToWriteBounded
<1>2. SuccessLog(r, m) = [status |-> "success", fetched |-> f, inserted |-> i,
                          skipped |-> f - i]
  BY DEF SuccessLog
<1> HIDE DEF f, i
<1>3. f - i \in Nat
  BY <1>1
<1> QED BY <1>1, <1>2, <1>3 DEF MemberLogs, Statuses

\* A proposed row of a run that is open has a key and a row of the table.
LEMMA ProposedRowType ==
  ASSUME TypeOK, NEW r \in Runs, pc[r] \in Open, NEW x \in pend[r]
  PROVE  /\ x[1] \in Members
         /\ Observed(r, x) \in ParsedObservations
         /\ KeyOf(r, x) \in Keys
         /\ RowOf(r, x) \in Rows
<1>1. x[1] \in Members /\ x[2] \in DOMAIN payload[r][x[1]].rows
  BY DEF TypeOK
<1>2. payload[r][x[1]].rows \in Seq(ParsedObservations)
  BY <1>1 DEF TypeOK, ExtractionOutcomes
<1>3. Observed(r, x) \in ParsedObservations
  BY <1>1, <1>2 DEF Observed
<1>4. VintageOf(r, Observed(r, x)) \in Vintages
  BY <1>3, RunDatesAssumption DEF VintageOf, ParsedObservations, TypeOK
<1>5. KeyOf(r, x) \in Keys
  BY <1>1, <1>3, <1>4, SeriesOfAssumption DEF KeyOf, Keys, ParsedObservations
<1>6. RowOf(r, x) \in Rows
  BY <1>1, <1>3, AttemptsAssumption DEF RowOf, Rows, ParsedObservations
<1> QED BY <1>1, <1>3, <1>5, <1>6

\* Writing rows over a table gives a table.
LEMMA OverlayType ==
  ASSUME NEW t \in Tables, NEW w \in Tables
  PROVE  Overlay(t, w) \in Tables
BY DEF Overlay, Tables

\* A run has one of the three statuses.
LEMMA StatusType ==
  ASSUME NEW r \in Runs PROVE StatusOf(r) \in Statuses
BY DEF StatusOf, Statuses

-----------------------------------------------------------------------------
(* Typing *)

\* The first state is typed.
LEMMA InitTypeOK == Init => TypeOK
<1> SUFFICES ASSUME Init PROVE TypeOK
  OBVIOUS
<1>1. EmptyTable \in Tables
  BY DEF EmptyTable, Tables
<1>2. NoPayload \in [Members -> ExtractionOutcomes]
  BY DEF NoPayload, ExtractionOutcomes, OutcomeKinds
<1>3. ZeroTally \in Tallies
  BY DEF ZeroTally, Tallies
<1> QED
  BY <1>1, <1>2, <1>3 DEF Init, TypeOK, NoDraft, Open

\* Ending a transaction keeps the types, whatever became of the tables.
LEMMA EndTransactionTypes ==
  ASSUME TypeOK, NEW r \in Runs, NEW how \in Ended, EndTransaction(r, how),
         obs' \in Tables,
         runLog' \in [Runs -> RunLogs \cup {NoLog}],
         memberLog' \in [Runs -> [Members -> MemberLogs \cup {NoLog}]]
  PROVE  TypeOK'
<1>1. EmptyTable \in Tables
  BY DEF EmptyTable, Tables
<1>2. ZeroTally \in Tallies
  BY DEF ZeroTally, Tallies
<1> QED
  BY <1>1, <1>2 DEF EndTransaction, TypeOK, arguments, NoDraft, Ended, Open

\* Every step keeps the types.
LEMMA StepTypeOK == TypeOK /\ [Next]_vars => TypeOK'
<1> SUFFICES ASSUME TypeOK, [Next]_vars PROVE TypeOK'
  OBVIOUS
<1>1. ASSUME NEW r \in Runs, NEW d \in RunDates, NEW p \in [Members -> Outcomes],
             NEW a \in ActiveSets, Begin(r, d, p, a)
      PROVE  TypeOK'
  <2>1. p \in [Members -> ExtractionOutcomes] /\ a \subseteq Members
    BY OutcomesAssumption, ActiveSetsAssumption
  <2>2. FreshRunLog \in RunLogs
    BY DEF FreshRunLog, RunLogs, Statuses
  <2>3. pend[r] = {}
    BY <1>1 DEF Begin, TypeOK
  <2> QED
    BY <1>1, <2>1, <2>2, <2>3 DEF Begin, TypeOK, committed, Open
<1>2. ASSUME NEW r \in Runs, RejectFeed(r) PROVE TypeOK'
  BY <1>2 DEF RejectFeed, TypeOK, committed, arguments, private, Open, Ended
<1>3. ASSUME NEW r \in Runs, NEW m \in Members, RecordFailedMember(r, m)
      PROVE  TypeOK'
  <2>1. FailedMember \in MemberLogs
    BY DEF FailedMember, MemberLogs, Statuses
  <2>2. tally' \in [Runs -> Tallies]
    <3> DEFINE t == [tally[r] EXCEPT !.failed = @ + 1]
    <3>1. tally[r] \in Tallies
      BY DEF TypeOK
    <3>2. t \in Tallies
      BY <3>1 DEF Tallies
    <3>3. tally' = [tally EXCEPT ![r] = t]
      BY <1>3 DEF RecordFailedMember
    <3> HIDE DEF t
    <3> QED BY <3>2, <3>3 DEF TypeOK
  <2>3. draft' \in [Runs -> [Members -> MemberLogs \cup {NoLog}]]
    BY <1>3, <2>1 DEF RecordFailedMember, TypeOK
  <2> QED
    BY <1>3, <2>2, <2>3 DEF RecordFailedMember, TypeOK, committed, arguments, Open
<1>4. ASSUME NEW r \in Runs, NEW m \in Members, ReadMember(r, m)
      PROVE  TypeOK'
  <2>1. pend' \in [Runs -> SUBSET (Members \X Nat)]
    BY <1>4, RowsToWriteBounded DEF ReadMember, TypeOK, ExtractionOutcomes
  <2>2. \A y \in pend'[r] : y[2] \in DOMAIN payload[r][y[1]].rows
    BY <1>4, RowsToWriteBounded DEF ReadMember, TypeOK
  <2>3. \A q \in Runs : \A y \in pend'[q] :
          pc'[q] = "running" /\ y[2] \in DOMAIN payload'[q][y[1]].rows
    BY <1>4, <2>2 DEF ReadMember, TypeOK, AtMember, arguments
  <2>4. tally' \in [Runs -> Tallies]
    <3> DEFINE g == SuccessLog(r, m)
               t == [tally[r] EXCEPT !.fetched = @ + g.fetched,
                                     !.inserted = @ + g.inserted,
                                     !.skipped = @ + g.skipped]
    <3>1. tally[r] \in Tallies
      BY DEF TypeOK
    <3>2. g.fetched \in Nat /\ g.inserted \in Nat /\ g.skipped \in Nat
      BY <1>4, SuccessLogType
    <3>3. tally' = [tally EXCEPT ![r] = t]
      BY <1>4 DEF ReadMember
    <3> HIDE DEF g
    <3>4. t \in Tallies
      <4> DEFINE t1 == [tally[r] EXCEPT !.fetched = @ + g.fetched]
                 t2 == [t1 EXCEPT !.inserted = @ + g.inserted]
                 t3 == [t2 EXCEPT !.skipped = @ + g.skipped]
      <4>1. t1 \in Tallies
        BY <3>1, <3>2 DEF Tallies
      <4>2. t2 \in Tallies
        <5> HIDE DEF t1
        <5> QED BY <4>1, <3>2 DEF Tallies
      <4>3. t3 \in Tallies
        <5> HIDE DEF t2
        <5> QED BY <4>2, <3>2 DEF Tallies
      <4>4. t = t3
        BY <3>1 DEF t, Tallies
      <4> HIDE DEF t3
      <4> QED BY <4>3, <4>4
    <3> HIDE DEF t
    <3> QED BY <3>3, <3>4 DEF TypeOK
  <2>5. draft' \in [Runs -> [Members -> MemberLogs \cup {NoLog}]]
    BY <1>4, SuccessLogType DEF ReadMember, TypeOK
  <2> QED
    BY <1>4, <2>1, <2>3, <2>4, <2>5
    DEF ReadMember, TypeOK, committed, arguments, Open
<1>5. ASSUME NEW r \in Runs, NEW x \in pend[r], UpsertRow(r, x)
      PROVE  TypeOK'
  <2>1. pc[r] \in Open
    BY <1>5 DEF UpsertRow, IsNextRow, Open
  <2>2. written' \in [Runs -> Tables]
    BY <1>5, <2>1, ProposedRowType DEF UpsertRow, TypeOK, Tables
  <2> QED
    BY <1>5, <2>2 DEF UpsertRow, TypeOK, committed, arguments, Open
<1>6. ASSUME NEW r \in Runs, Finish(r) PROVE TypeOK'
  BY <1>6, StatusType
  DEF Finish, TypeOK, committed, arguments, RunLogs, Tallies, Open
<1>7. ASSUME NEW r \in Runs, Commit(r) PROVE TypeOK'
  <2>1. obs' \in Tables
    BY <1>7, OverlayType DEF Commit, TypeOK
  <2>2. /\ runLog' \in [Runs -> RunLogs \cup {NoLog}]
        /\ memberLog' \in [Runs -> [Members -> MemberLogs \cup {NoLog}]]
    BY <1>7 DEF Commit, TypeOK
  <2>3. EndTransaction(r, "committed") /\ "committed" \in Ended
    BY <1>7 DEF Commit, Ended
  <2> QED
    BY <2>1, <2>2, <2>3, EndTransactionTypes
<1>8. ASSUME NEW r \in Runs, Raise(r) \/ BreakDeadlock(r) \/ Crash(r)
      PROVE  TypeOK'
  <2>1. \E how \in Ended : EndTransaction(r, how)
    BY <1>8 DEF Raise, BreakDeadlock, Crash, Ended
  <2>2. UNCHANGED committed
    BY <1>8 DEF Raise, BreakDeadlock, Crash
  <2> QED
    BY <2>1, <2>2, EndTransactionTypes DEF committed, TypeOK
<1>9. CASE UNCHANGED vars
  BY <1>9 DEF vars, committed, arguments, private, TypeOK
<1> QED
  BY <1>1, <1>2, <1>3, <1>4, <1>5, <1>6, <1>7, <1>8, <1>9 DEF Next, Start, Work

\* Every reachable state of the executor is well typed: TypeOK is an invariant.
THEOREM TypeCorrect == Spec => []TypeOK
<1>1. Init => TypeOK
  BY InitTypeOK
<1>2. TypeOK /\ [Next]_vars => TypeOK'
  BY StepTypeOK
<1> QED BY <1>1, <1>2, PTL DEF Spec

-----------------------------------------------------------------------------
(* Frame: what a step leaves alone *)

\* Everything the invariant of run r reads is left alone.
Untouched(r) ==
  /\ pc'[r] = pc[r]
  /\ runDate'[r] = runDate[r]
  /\ payload'[r] = payload[r]
  /\ active'[r] = active[r]
  /\ left'[r] = left[r]
  /\ pend'[r] = pend[r]
  /\ written'[r] = written[r]
  /\ draft'[r] = draft[r]
  /\ draftRun'[r] = draftRun[r]
  /\ tally'[r] = tally[r]

\* A run that is committed before or after a step is so on both sides of it,
\* with the same arguments.
NobodyCommits ==
  \A r \in Runs :
    /\ pc'[r] = "committed" <=> pc[r] = "committed"
    /\ pc[r] = "committed" =>
         /\ payload'[r] = payload[r]
         /\ runDate'[r] = runDate[r]
         /\ active'[r] = active[r]

\* What a run drafts is its own: a step that leaves a run's variables alone keeps
\* its part of the invariant.
LEMMA RunFrame ==
  ASSUME NEW r \in Runs, RunInv(r), Untouched(r) PROVE RunInv(r)'
<1> USE DEF Untouched
<1>1. Accounted(r)'
  BY DEF RunInv, Accounted, FailedDrafts
<1>2. Finalised(r)'
  BY DEF RunInv, Finalised, StatusOf
<1>3. Attributed(r)'
  <2>1. ASSUME NEW k \in Keys, written'[r][k] # NoRow
        PROVE  \E m \in Members :
                 /\ written'[r][k].log = <<r, m>>
                 /\ draft'[r][m] # NoLog
                 /\ draft'[r][m].status = "success"
                 /\ ExtractedBy(k, written[r][k], r, m)'
    <3>1. PICK m \in Members : /\ written[r][k].log = <<r, m>>
                               /\ draft[r][m] # NoLog
                               /\ draft[r][m].status = "success"
                               /\ ExtractedBy(k, written[r][k], r, m)
      BY <2>1 DEF RunInv, Attributed
    <3>2. ExtractedBy(k, written[r][k], r, m)'
      BY <3>1 DEF ExtractedBy, VintageOf
    <3> QED BY <3>1, <3>2
  <2>2. \A x \in pend'[r] :
          draft'[r][x[1]] # NoLog /\ draft'[r][x[1]].status = "success"
    BY DEF RunInv, Attributed
  <2> QED BY <2>1, <2>2 DEF Attributed
<1>4. AtRest(r)'
  BY DEF RunInv, AtRest
<1> QED BY <1>1, <1>2, <1>3, <1>4 DEF RunInv

\* While nobody commits and nothing committed changes, the provenance and the
\* audit record stay as they are.
LEMMA CommittedFrame ==
  ASSUME ProvenanceSound, AuditComplete, NobodyCommits, UNCHANGED committed
  PROVE  ProvenanceSound' /\ AuditComplete'
<1> USE DEF committed
<1>1. ProvenanceSound'
  <2> SUFFICES ASSUME NEW k \in Keys, obs[k] # NoRow
               PROVE  \E r \in Runs, m \in Members :
                        /\ obs[k].log = <<r, m>>
                        /\ pc'[r] = "committed"
                        /\ memberLog[r][m] # NoLog
                        /\ memberLog[r][m].status = "success"
                        /\ ExtractedBy(k, obs[k], r, m)'
    BY DEF ProvenanceSound
  <2>1. PICK r \in Runs, m \in Members :
               /\ obs[k].log = <<r, m>>
               /\ pc[r] = "committed"
               /\ memberLog[r][m] # NoLog
               /\ memberLog[r][m].status = "success"
               /\ ExtractedBy(k, obs[k], r, m)
    BY DEF ProvenanceSound
  <2>2. ExtractedBy(k, obs[k], r, m)'
    BY <2>1 DEF NobodyCommits, ExtractedBy, VintageOf
  <2> QED BY <2>1, <2>2 DEF NobodyCommits
<1>2. AuditComplete'
  BY DEF AuditComplete, NobodyCommits
<1> QED BY <1>1, <1>2

-----------------------------------------------------------------------------
(* The status a finished run reports *)

\* StatusOf counts failures; the drafts say which members failed.  The two
\* agree because the active members are finitely many.
LEMMA StatusAgrees ==
  ASSUME TypeOK, NEW r \in Runs, pc[r] \in Open, left[r] = {}, Accounted(r)
  PROVE  /\ active[r] = {m \in Members : draft[r][m] # NoLog}
         /\ FailedDrafts(r) \subseteq active[r]
         /\ StatusOf(r) = IF FailedDrafts(r) = {} THEN "success"
                          ELSE IF FailedDrafts(r) = active[r] THEN "failed"
                          ELSE "partial"
<1>1. active[r] = {m \in Members : draft[r][m] # NoLog}
  BY DEF Accounted, Open, TypeOK
<1>2. FailedDrafts(r) \subseteq active[r]
  BY <1>1 DEF FailedDrafts
<1>3. IsFiniteSet(active[r]) /\ IsFiniteSet(FailedDrafts(r))
  BY <1>1, <1>2, MembersAssumption, FS_Subset
<1>4. tally[r].failed = Cardinality(FailedDrafts(r))
  BY DEF Accounted, Open
<1>5. FailedDrafts(r) = {} <=> tally[r].failed = 0
  BY <1>3, <1>4, FS_EmptySet
<1>6. FailedDrafts(r) = active[r] <=> tally[r].failed = Cardinality(active[r])
  BY <1>2, <1>3, <1>4, FS_Subset
<1>7. tally[r].failed \in Nat
  BY <1>3, <1>4, FS_CardinalityType
<1> QED
  BY <1>1, <1>2, <1>5, <1>6, <1>7 DEF StatusOf

-----------------------------------------------------------------------------
(* Steps that commit nothing *)

\* Begin drafts a run log and nothing else.
LEMMA BeginStep ==
  ASSUME Inductive, NEW r \in Runs, NEW d \in RunDates,
         NEW p \in [Members -> Outcomes], NEW a \in ActiveSets, Begin(r, d, p, a)
  PROVE  RunInv(r)'
<1>1. a \subseteq Members
  BY ActiveSetsAssumption
<1>2. /\ pc[r] = "idle" /\ pc'[r] = "running"
      /\ left'[r] = a /\ active'[r] = a
      /\ pend' = pend /\ written' = written /\ draft' = draft /\ tally' = tally
  BY DEF Begin, Inductive, TypeOK
<1>3. /\ written[r] = EmptyTable /\ draft[r] = NoDraft /\ tally[r] = ZeroTally
      /\ pend[r] = {}
  BY <1>2 DEF Inductive, RunInv, AtRest, Open, TypeOK
<1>4. FailedDrafts(r)' = {}
  BY <1>2, <1>3 DEF FailedDrafts, NoDraft
<1>5. Accounted(r)'
  BY <1>2, <1>3, <1>4, FS_EmptySet DEF Accounted, NoDraft, ZeroTally
<1>6. Attributed(r)'
  BY <1>2, <1>3 DEF Attributed, EmptyTable
<1> QED
  BY <1>2, <1>5, <1>6 DEF RunInv, Finalised, AtRest, Open

\* A refused member gets one failed draft, and the tally of failures grows by one.
LEMMA RecordFailedMemberStep ==
  ASSUME Inductive, NEW r \in Runs, NEW m \in Members, RecordFailedMember(r, m)
  PROVE  RunInv(r)'
<1>1. /\ pc[r] = "running" /\ pc' = pc /\ pend[r] = {} /\ pend' = pend
      /\ m \in left[r] /\ left'[r] = left[r] \ {m}
      /\ written' = written /\ active' = active
      /\ payload' = payload /\ runDate' = runDate
  BY DEF RecordFailedMember, AtMember, Inductive, TypeOK, arguments
<1>2. draft'[r] = [draft[r] EXCEPT ![m] = FailedMember]
  BY DEF RecordFailedMember, Inductive, TypeOK
<1>3. tally'[r].failed = tally[r].failed + 1
  BY DEF RecordFailedMember, Inductive, TypeOK, Tallies
<1>4. draft[r] \in [Members -> MemberLogs \cup {NoLog}]
  BY DEF Inductive, TypeOK
<1>5. draft[r][m] = NoLog
  BY <1>1 DEF Inductive, RunInv, Accounted, Open
<1>6. FailedMember # NoLog /\ FailedMember.status = "failed"
  BY NoLogAssumption DEF FailedMember, MemberLogs, Statuses
<1>7. FailedDrafts(r)' = FailedDrafts(r) \cup {m} /\ m \notin FailedDrafts(r)
  BY <1>2, <1>4, <1>5, <1>6 DEF FailedDrafts
<1>8. tally'[r].failed = Cardinality(FailedDrafts(r)')
  <2>1. IsFiniteSet(FailedDrafts(r))
    BY MembersAssumption, FS_Subset DEF FailedDrafts
  <2>2. Cardinality(FailedDrafts(r) \cup {m}) = Cardinality(FailedDrafts(r)) + 1
    BY <2>1, <1>7, FS_AddElement
  <2> QED
    BY <1>1, <1>3, <1>7, <2>2 DEF Inductive, RunInv, Accounted, Open
<1>9. Accounted(r)'
  BY <1>1, <1>2, <1>4, <1>6, <1>8 DEF Inductive, RunInv, Accounted, Open
<1>10. Attributed(r)'
  <2> SUFFICES ASSUME NEW k \in Keys, written[r][k] # NoRow
               PROVE  \E n \in Members :
                        /\ written[r][k].log = <<r, n>>
                        /\ draft'[r][n] # NoLog
                        /\ draft'[r][n].status = "success"
                        /\ ExtractedBy(k, written[r][k], r, n)'
    BY <1>1 DEF Attributed
  <2>1. PICK n \in Members : /\ written[r][k].log = <<r, n>>
                             /\ draft[r][n] # NoLog
                             /\ draft[r][n].status = "success"
                             /\ ExtractedBy(k, written[r][k], r, n)
    BY DEF Inductive, RunInv, Attributed
  <2>2. n # m /\ draft'[r][n] = draft[r][n]
    BY <1>2, <1>4, <1>5, <2>1
  <2>3. ExtractedBy(k, written[r][k], r, n)'
    BY <1>1, <2>1 DEF ExtractedBy, VintageOf
  <2> QED BY <2>1, <2>2, <2>3
<1> QED
  BY <1>1, <1>9, <1>10 DEF RunInv, Finalised, AtRest, Open

\* A member that was read has its successful draft before any of its rows is
\* written.
LEMMA ReadMemberStep ==
  ASSUME Inductive, NEW r \in Runs, NEW m \in Members, ReadMember(r, m)
  PROVE  RunInv(r)'
<1>1. /\ pc[r] = "running" /\ pc' = pc /\ pend[r] = {}
      /\ pend'[r] = {m} \X RowsToWrite(r, m)
      /\ m \in left[r] /\ left'[r] = left[r] \ {m}
      /\ written' = written /\ active' = active
      /\ payload' = payload /\ runDate' = runDate
  BY DEF ReadMember, AtMember, Inductive, TypeOK, arguments
<1>2. draft'[r] = [draft[r] EXCEPT ![m] = SuccessLog(r, m)]
  BY DEF ReadMember, Inductive, TypeOK
<1>3. tally'[r].failed = tally[r].failed
  BY DEF ReadMember, Inductive, TypeOK, Tallies
<1>4. draft[r] \in [Members -> MemberLogs \cup {NoLog}]
  BY DEF Inductive, TypeOK
<1>5. draft[r][m] = NoLog
  BY <1>1 DEF Inductive, RunInv, Accounted, Open
<1>6. SuccessLog(r, m) # NoLog /\ SuccessLog(r, m).status = "success"
  BY NoLogAssumption, SuccessLogType DEF Inductive
<1>7. FailedDrafts(r)' = FailedDrafts(r)
  BY <1>2, <1>4, <1>5, <1>6 DEF FailedDrafts
<1>8. Accounted(r)'
  BY <1>1, <1>2, <1>3, <1>4, <1>6, <1>7 DEF Inductive, RunInv, Accounted, Open
<1>9. Attributed(r)'
  <2>1. \A x \in pend'[r] :
          draft'[r][x[1]] # NoLog /\ draft'[r][x[1]].status = "success"
    BY <1>1, <1>2, <1>4, <1>6
  <2>2. ASSUME NEW k \in Keys, written[r][k] # NoRow
        PROVE  \E n \in Members : /\ written[r][k].log = <<r, n>>
                                  /\ draft'[r][n] # NoLog
                                  /\ draft'[r][n].status = "success"
                                  /\ ExtractedBy(k, written[r][k], r, n)'
    <3>1. PICK n \in Members : /\ written[r][k].log = <<r, n>>
                               /\ draft[r][n] # NoLog
                               /\ draft[r][n].status = "success"
                               /\ ExtractedBy(k, written[r][k], r, n)
      BY <2>2 DEF Inductive, RunInv, Attributed
    <3>2. n # m /\ draft'[r][n] = draft[r][n]
      BY <1>2, <1>4, <1>5, <3>1
    <3>3. ExtractedBy(k, written[r][k], r, n)'
      BY <1>1, <3>1 DEF ExtractedBy, VintageOf
    <3> QED BY <3>1, <3>2, <3>3
  <2> QED BY <1>1, <2>1, <2>2 DEF Attributed
<1> QED
  BY <1>1, <1>8, <1>9 DEF RunInv, Finalised, AtRest, Open

\* A written row names the draft of the member whose payload it comes from.
LEMMA UpsertRowStep ==
  ASSUME Inductive, NEW r \in Runs, NEW x \in pend[r], UpsertRow(r, x)
  PROVE  RunInv(r)'
<1>1. /\ pc[r] = "running" /\ pc' = pc
      /\ pend'[r] = pend[r] \ {x}
      /\ written'[r] = [written[r] EXCEPT ![KeyOf(r, x)] = RowOf(r, x)]
      /\ left' = left /\ active' = active /\ draft' = draft /\ tally' = tally
      /\ payload' = payload /\ runDate' = runDate
  BY DEF UpsertRow, IsNextRow, Inductive, TypeOK, arguments
<1>2. x[1] \in Members /\ KeyOf(r, x) \in Keys /\ written[r] \in Tables
  BY <1>1, ProposedRowType DEF Inductive, Open, TypeOK
<1>3. Accounted(r)'
  BY <1>1 DEF Inductive, RunInv, Accounted, FailedDrafts
<1>4. Attributed(r)'
  <2>1. \A y \in pend'[r] :
          draft'[r][y[1]] # NoLog /\ draft'[r][y[1]].status = "success"
    BY <1>1 DEF Inductive, RunInv, Attributed
  <2>2. ASSUME NEW k \in Keys, NEW w, w = written'[r][k], w # NoRow
        PROVE  \E n \in Members : /\ w.log = <<r, n>>
                                  /\ draft[r][n] # NoLog
                                  /\ draft[r][n].status = "success"
                                  /\ ExtractedBy(k, w, r, n)
    <3>1. CASE k # KeyOf(r, x)
      <4>1. w = written[r][k]
        BY <1>1, <1>2, <2>2, <3>1 DEF Tables
      <4> QED BY <2>2, <4>1 DEF Inductive, RunInv, Attributed
    <3>2. CASE k = KeyOf(r, x)
      <4>1. w = RowOf(r, x)
        BY <1>1, <1>2, <2>2, <3>2 DEF Tables
      <4>2. draft[r][x[1]] # NoLog /\ draft[r][x[1]].status = "success"
        BY DEF Inductive, RunInv, Attributed
      <4>3. x[2] \in DOMAIN payload[r][x[1]].rows
        BY DEF Inductive, TypeOK
      <4>4. ExtractedBy(k, w, r, x[1])
        BY <3>2, <4>1, <4>3 DEF ExtractedBy, KeyOf, RowOf, Observed
      <4> QED BY <1>2, <4>1, <4>2, <4>4 DEF RowOf
    <3> QED BY <3>1, <3>2
  <2>3. \A k, w, n : ExtractedBy(k, w, r, n) => ExtractedBy(k, w, r, n)'
    BY <1>1 DEF ExtractedBy, VintageOf
  <2>4. ASSUME NEW k \in Keys, written'[r][k] # NoRow
        PROVE  \E n \in Members : /\ written'[r][k].log = <<r, n>>
                                  /\ draft'[r][n] # NoLog
                                  /\ draft'[r][n].status = "success"
                                  /\ ExtractedBy(k, written[r][k], r, n)'
    <3>1. PICK w : w = written'[r][k]
      OBVIOUS
    <3>2. PICK n \in Members : /\ w.log = <<r, n>>
                               /\ draft[r][n] # NoLog
                               /\ draft[r][n].status = "success"
                               /\ ExtractedBy(k, w, r, n)
      BY <2>2, <2>4, <3>1
    <3>3. ExtractedBy(k, w, r, n)'
      BY <2>3, <3>2
    <3>4. ExtractedBy(k, written[r][k], r, n)'
      BY <3>1, <3>3 DEF ExtractedBy
    <3> QED BY <1>1, <3>1, <3>2, <3>4
  <2> QED BY <2>1, <2>4 DEF Attributed
<1> QED
  BY <1>1, <1>3, <1>4 DEF RunInv, Finalised, AtRest, Open

\* The last flush gives the run log the status of the tally.
LEMMA FinishStep ==
  ASSUME Inductive, NEW r \in Runs, Finish(r)
  PROVE  RunInv(r)'
<1>1. /\ pc[r] = "running" /\ pc'[r] = "finished" /\ left[r] = {}
      /\ draftRun'[r] = [status |-> StatusOf(r), fetched |-> tally[r].fetched,
                         inserted |-> tally[r].inserted,
                         skipped |-> tally[r].skipped, finished |-> TRUE]
      /\ left' = left /\ pend' = pend /\ written' = written
      /\ draft' = draft /\ tally' = tally /\ active' = active
      /\ payload' = payload /\ runDate' = runDate
  BY DEF Finish, Inductive, TypeOK, arguments
<1>2. Accounted(r)'
  BY <1>1 DEF Inductive, RunInv, Accounted, FailedDrafts, Open
<1>3. Finalised(r)'
  <2>1. draftRun'[r] \in RunLogs
    BY <1>1, StatusType DEF Inductive, TypeOK, Tallies, RunLogs
  <2>2. StatusOf(r)' = StatusOf(r)
    BY <1>1 DEF StatusOf
  <2>3. draftRun'[r].finished /\ draftRun'[r].status = StatusOf(r)'
    BY <1>1, <2>2
  <2>4. draftRun'[r] # NoLog
    BY <2>1, NoLogAssumption
  <2>5. left'[r] = {}
    BY <1>1
  <2> QED BY <2>3, <2>4, <2>5 DEF Finalised
<1>4. Attributed(r)'
  <2> SUFFICES ASSUME NEW k \in Keys, written[r][k] # NoRow
               PROVE  \E n \in Members :
                        /\ written[r][k].log = <<r, n>>
                        /\ draft[r][n] # NoLog
                        /\ draft[r][n].status = "success"
                        /\ ExtractedBy(k, written[r][k], r, n)'
    BY <1>1 DEF Attributed, Inductive, RunInv
  <2> QED
    BY <1>1 DEF Inductive, RunInv, Attributed, ExtractedBy, VintageOf
<1> QED
  BY <1>1, <1>2, <1>3, <1>4 DEF RunInv, AtRest, Open

\* Whatever ended it, a transaction leaves a run that holds nothing.
LEMMA EndTransactionStep ==
  ASSUME Inductive, NEW r \in Runs, NEW how \in Ended, EndTransaction(r, how)
  PROVE  RunInv(r)'
<1>1. /\ pc'[r] = how /\ pend'[r] = {} /\ written'[r] = EmptyTable
      /\ draft'[r] = NoDraft /\ tally'[r] = ZeroTally
  BY DEF EndTransaction, Inductive, TypeOK
<1> QED
  BY <1>1 DEF RunInv, Accounted, Finalised, Attributed, AtRest, EmptyTable,
              Ended, Open

-----------------------------------------------------------------------------
(* The step that commits *)

\* What a commit makes visible of one run, and what it keeps of the others.
LEMMA CommitEffect ==
  ASSUME Inductive, NEW r \in Runs, Commit(r)
  PROVE  /\ pc[r] = "finished"
         /\ pc' = [pc EXCEPT ![r] = "committed"]
         /\ UNCHANGED <<runDate, payload, active>>
         /\ \A k \in Keys : obs'[k] = IF written[r][k] # NoRow THEN written[r][k]
                                      ELSE obs[k]
         /\ runLog' = [runLog EXCEPT ![r] = draftRun[r]]
         /\ memberLog' = [memberLog EXCEPT ![r] = draft[r]]
         /\ runLog'[r] = draftRun[r]
         /\ memberLog'[r] = draft[r]
BY DEF Commit, EndTransaction, arguments, Overlay, Inductive, TypeOK

\* A finished run is accounted for: StatusAgrees at its last state.
LEMMA FinishedStatus ==
  ASSUME Inductive, NEW r \in Runs, pc[r] = "finished"
  PROVE  /\ draftRun[r] # NoLog
         /\ draftRun[r].finished
         /\ active[r] = {m \in Members : draft[r][m] # NoLog}
         /\ draftRun[r].status = IF FailedDrafts(r) = {} THEN "success"
                                 ELSE IF FailedDrafts(r) = active[r] THEN "failed"
                                 ELSE "partial"
<1>1. /\ left[r] = {} /\ draftRun[r] # NoLog /\ draftRun[r].finished
      /\ draftRun[r].status = StatusOf(r) /\ Accounted(r) /\ TypeOK
  BY DEF Inductive, RunInv, Finalised
<1> QED BY <1>1, StatusAgrees DEF Open

\* A commit publishes a final run log with one member log per active member.
LEMMA CommitAudit ==
  ASSUME Inductive, NEW r \in Runs, Commit(r) PROVE AuditComplete'
<1>1. ASSUME NEW q \in Runs, q # r
      PROVE  /\ pc'[q] = pc[q] /\ active'[q] = active[q]
             /\ runLog'[q] = runLog[q] /\ memberLog'[q] = memberLog[q]
  BY <1>1, CommitEffect DEF Inductive, TypeOK
<1>2. pc'[r] = "committed" /\ active'[r] = active[r]
  BY CommitEffect DEF Inductive, TypeOK
<1>3. {m \in active[r] : draft[r][m].status = "failed"} = FailedDrafts(r)
  BY CommitEffect, FinishedStatus DEF FailedDrafts
<1> SUFFICES ASSUME NEW q \in Runs
             PROVE  LET failed == {m \in active[q] : memberLog[q][m].status = "failed"}'
                    IN  IF pc'[q] = "committed"
                        THEN /\ runLog'[q] # NoLog
                             /\ runLog'[q].finished
                             /\ active'[q] = {m \in Members : memberLog'[q][m] # NoLog}
                             /\ runLog'[q].status =
                                  IF failed = {} THEN "success"
                                  ELSE IF failed = active'[q] THEN "failed"
                                  ELSE "partial"
                        ELSE runLog'[q] = NoLog /\ memberLog'[q] = NoDraft
  BY DEF AuditComplete
<1>4. CASE q = r
  <2>1. {m \in active'[r] : memberLog'[r][m].status = "failed"} = FailedDrafts(r)
    BY <1>2, <1>3, CommitEffect
  <2>2. /\ runLog'[r] = draftRun[r] /\ memberLog'[r] = draft[r]
        /\ pc[r] = "finished"
    BY CommitEffect
  <2>3. /\ runLog'[r] # NoLog
        /\ runLog'[r].finished
        /\ active'[r] = {m \in Members : memberLog'[r][m] # NoLog}
        /\ runLog'[r].status = IF FailedDrafts(r) = {} THEN "success"
                               ELSE IF FailedDrafts(r) = active'[r] THEN "failed"
                               ELSE "partial"
    BY <1>2, <2>2, FinishedStatus
  <2> QED BY <1>2, <1>4, <2>1, <2>3
<1>5. CASE q # r
  BY <1>1, <1>5 DEF Inductive, AuditComplete
<1> QED BY <1>4, <1>5

\* After a commit every stored row, old or new, is still attributed.
LEMMA CommitProvenance ==
  ASSUME Inductive, NEW r \in Runs, Commit(r) PROVE ProvenanceSound'
<1>1. \A k, w, q, m : ExtractedBy(k, w, q, m) => ExtractedBy(k, w, q, m)'
  BY CommitEffect DEF ExtractedBy, VintageOf
<1>2. ASSUME NEW k \in Keys, NEW w, w = obs'[k], w # NoRow
      PROVE  \E q \in Runs, m \in Members :
               /\ w.log = <<q, m>>
               /\ pc'[q] = "committed"
               /\ memberLog'[q][m] # NoLog
               /\ memberLog'[q][m].status = "success"
               /\ ExtractedBy(k, w, q, m)
  <2>1. CASE written[r][k] # NoRow
    <3>1. w = written[r][k]
      BY <1>2, <2>1, CommitEffect
    <3>2. PICK m \in Members : /\ w.log = <<r, m>>
                               /\ draft[r][m] # NoLog
                               /\ draft[r][m].status = "success"
                               /\ ExtractedBy(k, w, r, m)
      BY <2>1, <3>1 DEF Inductive, RunInv, Attributed
    <3>3. pc'[r] = "committed"
      BY CommitEffect DEF Inductive, TypeOK
    <3> QED BY <3>2, <3>3, CommitEffect
  <2>2. CASE written[r][k] = NoRow
    <3>1. w = obs[k]
      BY <1>2, <2>2, CommitEffect
    <3>2. PICK q \in Runs, m \in Members :
                 /\ w.log = <<q, m>>
                 /\ pc[q] = "committed"
                 /\ memberLog[q][m] # NoLog
                 /\ memberLog[q][m].status = "success"
                 /\ ExtractedBy(k, w, q, m)
      BY <1>2, <3>1 DEF Inductive, ProvenanceSound
    <3>3. q # r
      BY <3>2, CommitEffect
    <3>4. pc'[q] = "committed" /\ memberLog'[q] = memberLog[q]
      BY <3>2, <3>3, CommitEffect DEF Inductive, TypeOK
    <3> QED BY <3>2, <3>4
  <2> QED BY <2>1, <2>2
<1> SUFFICES ASSUME NEW k \in Keys, obs'[k] # NoRow
             PROVE  \E q \in Runs, m \in Members :
                      /\ obs'[k].log = <<q, m>>
                      /\ pc'[q] = "committed"
                      /\ memberLog'[q][m] # NoLog
                      /\ memberLog'[q][m].status = "success"
                      /\ ExtractedBy(k, obs[k], q, m)'
  BY DEF ProvenanceSound
<1>3. PICK w : w = obs'[k]
  OBVIOUS
<1>4. PICK q \in Runs, m \in Members :
             /\ w.log = <<q, m>>
             /\ pc'[q] = "committed"
             /\ memberLog'[q][m] # NoLog
             /\ memberLog'[q][m].status = "success"
             /\ ExtractedBy(k, w, q, m)
  BY <1>2, <1>3
<1>5. ExtractedBy(k, w, q, m)'
  BY <1>1, <1>4
<1>6. ExtractedBy(k, obs[k], q, m)'
  BY <1>3, <1>5 DEF ExtractedBy
<1> QED BY <1>3, <1>4, <1>6

-----------------------------------------------------------------------------
(* The inductive invariant *)

\* A step of r leaves the invariant of every other run alone and, unless it
\* commits, everything that is committed.
LEMMA StepFrame ==
  ASSUME Inductive, NEW r \in Runs, Start(r) \/ Work(r) \/ Crash(r)
  PROVE  \A q \in Runs \ {r} : Untouched(q)
<1> USE DEF Inductive, TypeOK, Untouched, arguments, private
<1>1. CASE Start(r)
  BY <1>1 DEF Start, Begin, RejectFeed
<1>2. CASE \E m \in Members : RecordFailedMember(r, m) \/ ReadMember(r, m)
  BY <1>2 DEF RecordFailedMember, ReadMember
<1>3. CASE \E x \in pend[r] : UpsertRow(r, x)
  BY <1>3 DEF UpsertRow
<1>4. CASE Finish(r)
  BY <1>4 DEF Finish
<1>5. CASE Commit(r) \/ Raise(r) \/ BreakDeadlock(r) \/ Crash(r)
  BY <1>5 DEF Commit, Raise, BreakDeadlock, Crash, EndTransaction
<1> QED BY <1>1, <1>2, <1>3, <1>4, <1>5 DEF Work

\* Only Commit changes what readers of committed rows see.
LEMMA StepCommitted ==
  ASSUME Inductive, NEW r \in Runs, Start(r) \/ Work(r) \/ Crash(r), ~Commit(r)
  PROVE  NobodyCommits /\ UNCHANGED committed
<1> USE DEF Inductive, TypeOK, NobodyCommits, arguments, private
<1>1. CASE Start(r)
  BY <1>1 DEF Start, Begin, RejectFeed, committed
<1>2. CASE \E m \in Members : RecordFailedMember(r, m) \/ ReadMember(r, m)
  BY <1>2 DEF RecordFailedMember, ReadMember
<1>3. CASE \E x \in pend[r] : UpsertRow(r, x)
  BY <1>3 DEF UpsertRow
<1>4. CASE Finish(r)
  BY <1>4 DEF Finish
<1>5. CASE Raise(r) \/ BreakDeadlock(r) \/ Crash(r)
  <2>1. pc[r] \in Open /\ UNCHANGED committed
    BY <1>5 DEF Raise, BreakDeadlock, Crash, Ring, WaitsFor, IsNextRow, AtMember, Open
  <2>2. \E how \in {"raised", "lost"} : EndTransaction(r, how)
    BY <1>5 DEF Raise, BreakDeadlock, Crash
  <2> QED BY <2>1, <2>2 DEF EndTransaction, Open
<1> QED BY <1>1, <1>2, <1>3, <1>4, <1>5 DEF Work

\* Every step of a run keeps that run's part of the invariant.
LEMMA StepRunInv ==
  ASSUME Inductive, NEW r \in Runs, Start(r) \/ Work(r) \/ Crash(r)
  PROVE  RunInv(r)'
<1>1. CASE \E d \in RunDates, p \in [Members -> Outcomes], a \in ActiveSets :
             Begin(r, d, p, a)
  BY <1>1, BeginStep
<1>2. CASE RejectFeed(r)
  <2>1. RunInv(r)
    BY DEF Inductive
  <2>2. /\ pc[r] = "idle" /\ pc'[r] = "rejected" /\ written' = written
        /\ draft' = draft /\ tally' = tally /\ pend' = pend
        /\ payload' = payload /\ runDate' = runDate
    BY <1>2 DEF RejectFeed, Inductive, TypeOK, private, arguments
  <2>3. written[r] = EmptyTable /\ draft[r] = NoDraft /\ tally[r] = ZeroTally
        /\ pend[r] = {}
    BY <2>2 DEF Inductive, RunInv, AtRest, Open, TypeOK
  <2> QED
    BY <2>2, <2>3 DEF RunInv, Accounted, Finalised, Attributed, AtRest,
                      EmptyTable, Open
<1>3. CASE \E m \in Members : RecordFailedMember(r, m) \/ ReadMember(r, m)
  BY <1>3, RecordFailedMemberStep, ReadMemberStep
<1>4. CASE \E x \in pend[r] : UpsertRow(r, x)
  BY <1>4, UpsertRowStep
<1>5. CASE Finish(r)
  BY <1>5, FinishStep
<1>6. CASE Commit(r) \/ Raise(r) \/ BreakDeadlock(r) \/ Crash(r)
  <2>1. \E how \in Ended : EndTransaction(r, how)
    BY <1>6 DEF Commit, Raise, BreakDeadlock, Crash, Ended
  <2> QED BY <2>1, EndTransactionStep
<1> QED
  BY <1>1, <1>2, <1>3, <1>4, <1>5, <1>6 DEF Start, Work

\* Nothing is stored or drafted at first.
LEMMA InitInductive == Init => Inductive
<1> SUFFICES ASSUME Init PROVE Inductive
  OBVIOUS
<1>1. TypeOK
  BY InitTypeOK
<1>2. ProvenanceSound
  BY DEF Init, ProvenanceSound, EmptyTable
<1>3. AuditComplete
  BY DEF Init, AuditComplete
<1>4. \A r \in Runs : RunInv(r)
  BY DEF Init, RunInv, Accounted, Finalised, Attributed, AtRest, EmptyTable, Open
<1> QED BY <1>1, <1>2, <1>3, <1>4 DEF Inductive

\* The invariant is inductive.
LEMMA StepInductive == Inductive /\ [Next]_vars => Inductive'
<1> SUFFICES ASSUME Inductive, [Next]_vars PROVE Inductive'
  OBVIOUS
<1>1. TypeOK'
  BY StepTypeOK DEF Inductive
<1>2. ASSUME NEW r \in Runs, Start(r) \/ Work(r) \/ Crash(r) PROVE Inductive'
  <2>1. \A q \in Runs \ {r} : RunInv(q)'
    BY <1>2, StepFrame, RunFrame DEF Inductive
  <2>2. RunInv(r)'
    BY <1>2, StepRunInv
  <2>3. ProvenanceSound' /\ AuditComplete'
    <3>1. CASE Commit(r)
      BY <3>1, CommitAudit, CommitProvenance
    <3>2. CASE ~Commit(r)
      BY <1>2, <3>2, StepCommitted, CommittedFrame DEF Inductive
    <3> QED BY <3>1, <3>2
  <2> QED BY <1>1, <2>1, <2>2, <2>3 DEF Inductive
<1>3. CASE UNCHANGED vars
  <2>1. /\ \A q \in Runs : Untouched(q)
        /\ NobodyCommits
        /\ UNCHANGED committed
    BY <1>3 DEF vars, committed, arguments, private, Untouched, NobodyCommits
  <2> QED BY <1>1, <2>1, RunFrame, CommittedFrame DEF Inductive
<1> QED BY <1>2, <1>3 DEF Next

\* What a run prepares before its commit already agrees with what the committed
\* store promises, in every reachable state.
THEOREM InductiveCorrect == Spec => []Inductive
<1> QED BY InitInductive, StepInductive, PTL DEF Spec

\* Every stored value names the committed, successful member log of a run whose
\* payload holds exactly that value for that period and vintage.
THEOREM ProvenanceIsSound == Spec => []ProvenanceSound
<1>1. Inductive => ProvenanceSound
  BY DEF Inductive
<1> QED BY <1>1, InductiveCorrect, PTL

\* Every committed run log is final, covers exactly the members that were
\* active, and reports the status their logs call for.
THEOREM AuditIsComplete == Spec => []AuditComplete
<1>1. Inductive => AuditComplete
  BY DEF Inductive
<1> QED BY <1>1, InductiveCorrect, PTL

-----------------------------------------------------------------------------
(* Refinement of AuditedStore *)

\* The empty store of the executor is the empty audited store.
LEMMA InitRefines == Init => Audited!Init
BY DEF Init, Audited!Init, EmptyTable, Audited!EmptyTable, Keys, Audited!Keys,
       NoDraft

\* A commit of the executor is a publication of the audited store.
LEMMA CommitPublishes ==
  ASSUME Inductive, NEW r \in Runs, Commit(r) PROVE Audited!Publish(r)
<1>1. runLog[r] = NoLog
  BY CommitEffect DEF Inductive, AuditComplete
<1>2. runLog'[r] # NoLog /\ runLog'[r].finished
  BY CommitEffect, FinishedStatus
<1>3. runLog'[r].status = Audited!StatusFor(memberLog'[r])
  <2>1. Audited!Attempted(memberLog'[r]) = active[r]
    BY CommitEffect, FinishedStatus DEF Audited!Attempted
  <2>2. Audited!FailedIn(memberLog'[r]) = FailedDrafts(r)
    BY CommitEffect DEF Audited!FailedIn, Audited!Attempted, FailedDrafts
  <2> QED
    BY <2>1, <2>2, CommitEffect, FinishedStatus DEF Audited!StatusFor
<1>4. \A q \in Runs \ {r} : runLog'[q] = runLog[q] /\ memberLog'[q] = memberLog[q]
  BY CommitEffect DEF Inductive, TypeOK
<1>5. ASSUME NEW k \in Keys, obs'[k] # obs[k]
      PROVE  obs'[k] # NoRow /\ Audited!AttributedTo(r, k)
  <2>1. obs'[k] = written[r][k] /\ written[r][k] # NoRow
    BY <1>5, CommitEffect
  <2>2. PICK m \in Members : /\ written[r][k].log = <<r, m>>
                             /\ draft[r][m] # NoLog
                             /\ draft[r][m].status = "success"
                             /\ SeriesOf[m] = k[1]
    BY <2>1 DEF Inductive, RunInv, Attributed, ExtractedBy
  <2>3. m \in Audited!Attempted(memberLog'[r]) \ Audited!FailedIn(memberLog'[r])
    BY <2>2, CommitEffect DEF Audited!Attempted, Audited!FailedIn
  <2> QED BY <2>1, <2>2, <2>3 DEF Audited!AttributedTo
<1> QED
  BY <1>1, <1>2, <1>3, <1>4, <1>5 DEF Audited!Publish, Audited!Keys, Keys

\* What readers of committed rows can see of the executor is a behaviour of the
\* audited store: observations change only by publications, each at once with
\* one complete audit record, and nothing stored is removed.
THEOREM Refinement == Spec => ImplementsAuditedStore
<1>1. Init => Audited!Init
  BY InitRefines
<1>2. Inductive /\ [Next]_vars => [Audited!Next]_(Audited!vars)
  <2> SUFFICES ASSUME Inductive, [Next]_vars
               PROVE  Audited!Next \/ UNCHANGED Audited!vars
    OBVIOUS
  <2>1. CASE \E r \in Runs : Commit(r)
    BY <2>1, CommitPublishes DEF Audited!Next
  <2>2. CASE Next /\ ~\E r \in Runs : Commit(r)
    BY <2>2, StepCommitted DEF Next, committed, Audited!vars
  <2>3. CASE UNCHANGED vars
    BY <2>3 DEF vars, committed, Audited!vars
  <2> QED BY <2>1, <2>2, <2>3
<1> QED
  BY <1>1, <1>2, InductiveCorrect, PTL
     DEF Spec, Audited!Spec, ImplementsAuditedStore

-----------------------------------------------------------------------------
(* Runs that lock in order do not wait for each other in a ring *)

\* Members are attempted in their order: whatever is drafted comes before what is
\* left, and rows are proposed by the member drafted last.
InTurn(r) ==
  /\ \A n \in Members : draft[r][n] # NoLog => \A m \in left[r] : n < m
  /\ \A x \in pend[r] : \A n \in Members : draft[r][n] # NoLog => n <= x[1]

\* A row that is written comes from an observation of a drafted member and, if that
\* member is still at its statement, from one before all that it still proposes.
WrittenInTurn(r) ==
  \A k \in Keys : written[r][k] # NoRow =>
    \E m \in Members : \E i \in DOMAIN payload[r][m].rows :
      /\ draft[r][m] # NoLog
      /\ k = KeyOf(r, <<m, i>>)
      /\ \A x \in pend[r] : x[1] = m => i < x[2]

LockInv ==
  /\ Inductive
  /\ \A r \in Runs : InTurn(r) /\ WrittenInTurn(r)
  /\ IsFiniteSet({r \in Runs : pc[r] \in Open})

\* Where a run waits: its next row comes before the next row of q, by member and
\* then by period.
Before(r, q) ==
  \E x \in pend[r], y \in pend[q] :
    /\ IsNextRow(r, x) /\ IsNextRow(q, y)
    /\ \/ x[1] < y[1]
       \/ x[1] = y[1] /\ Observed(r, x).period < Observed(q, y).period

\* A strict order on a finite set has a maximal element.
LEMMA MaximalElement ==
  ASSUME NEW S, IsFiniteSet(S), S # {}, NEW R,
         \A x \in S : <<x, x>> \notin R,
         \A x, y, z \in S : <<x, y>> \in R /\ <<y, z>> \in R => <<x, z>> \in R
  PROVE  \E x \in S : \A y \in S : <<x, y>> \notin R
<1> DEFINE Above(x) == {y \in S : <<x, y>> \in R}
           T == {Above(x) : x \in S}
<1>1. IsWellFoundedOn(StrictSubsetOrdering(S), FiniteSubsetsOf(S))
  BY FS_StrictSubsetOrderingWellFounded
<1>2. T \subseteq FiniteSubsetsOf(S) /\ T # {}
  <2>1. \A x \in S : Above(x) \in SUBSET S
    OBVIOUS
  <2>2. \A U \in SUBSET S : IsFiniteSet(U)
    BY FS_Subset
  <2> HIDE DEF Above
  <2> QED BY <2>1, <2>2 DEF FiniteSubsetsOf
<1>3. PICK A \in T : \A B \in T : <<B, A>> \notin StrictSubsetOrdering(S)
  <2> HIDE DEF T
  <2> QED BY <1>1, <1>2, WFMin
<1>4. PICK x \in S : A = Above(x)
  BY <1>3
<1>5. ASSUME NEW y \in S, <<x, y>> \in R PROVE FALSE
  <2>1. Above(y) \subseteq Above(x) /\ Above(y) # Above(x)
    BY <1>5
  <2>2. <<Above(y), Above(x)>> \in StrictSubsetOrdering(S)
    BY <2>1 DEF StrictSubsetOrdering
  <2> QED BY <1>3, <1>4, <2>2
<1> QED BY <1>5

\* A step of another run leaves a run's locks and their order alone.
LEMMA LockFrame ==
  ASSUME NEW r \in Runs, InTurn(r), WrittenInTurn(r), Untouched(r)
  PROVE  InTurn(r)' /\ WrittenInTurn(r)'
<1>1. InTurn(r)'
  BY DEF InTurn, Untouched
<1>2. WrittenInTurn(r)'
  BY DEF WrittenInTurn, Untouched, KeyOf, Observed, VintageOf
<1> QED BY <1>1, <1>2

\* A step of a run writes its rows in turn.
LEMMA LockStep ==
  ASSUME Inductive, NEW r \in Runs, InTurn(r), WrittenInTurn(r),
         Start(r) \/ Work(r) \/ Crash(r)
  PROVE  InTurn(r)' /\ WrittenInTurn(r)'
<1> USE DEF Inductive
<1>1. ASSUME NEW d \in RunDates, NEW p \in [Members -> Outcomes], NEW a \in ActiveSets,
             Begin(r, d, p, a)
      PROVE  InTurn(r)' /\ WrittenInTurn(r)'
  <2>1. written[r] = EmptyTable /\ draft[r] = NoDraft /\ pend[r] = {}
    BY <1>1 DEF Begin, RunInv, AtRest, Open, TypeOK
  <2>2. written'[r] = EmptyTable /\ draft'[r] = NoDraft /\ pend'[r] = {}
    BY <1>1, <2>1 DEF Begin
  <2> QED BY <2>2 DEF InTurn, WrittenInTurn, NoDraft, EmptyTable
<1>2. CASE RejectFeed(r)
  <2>1. Untouched(r) \/ (pend' = pend /\ left' = left /\ written' = written /\ draft' = draft
                         /\ payload' = payload /\ runDate' = runDate)
    BY <1>2 DEF RejectFeed, arguments, private
  <2> QED BY <2>1, LockFrame DEF InTurn, WrittenInTurn, KeyOf, Observed, VintageOf
<1>3. ASSUME NEW m \in Members, RecordFailedMember(r, m) \/ ReadMember(r, m)
      PROVE  InTurn(r)' /\ WrittenInTurn(r)'
  <2>1. /\ AtMember(r, m) /\ left'[r] = left[r] \ {m}
        /\ written' = written /\ payload' = payload /\ runDate' = runDate
        /\ \A n \in Members : n # m => draft'[r][n] = draft[r][n]
        /\ \A x \in pend'[r] : x[1] = m
    BY <1>3 DEF RecordFailedMember, ReadMember, arguments, TypeOK, AtMember
  <2>2. draft'[r][m] # NoLog
    BY <1>3, SuccessLogType, NoLogAssumption
       DEF RecordFailedMember, ReadMember, TypeOK, FailedMember, MemberLogs, Statuses
  <2>3. draft[r][m] = NoLog /\ left[r] \subseteq Members
    BY <2>1 DEF RunInv, Accounted, AtMember, Open, TypeOK
  <2>4. \A n \in Members : n \in Int
    BY MembersAssumption
  <2>5. \A n \in left[r] : n # m => m < n
    BY <2>1, <2>3, <2>4 DEF AtMember
  <2>6. \A n \in Members : draft[r][n] # NoLog => n < m
    BY <2>1 DEF InTurn, AtMember
  <2>7. InTurn(r)'
    <3>1. ASSUME NEW n \in Members, draft'[r][n] # NoLog, NEW l \in left'[r]
          PROVE  n < l
      BY <2>1, <2>3, <2>5, <3>1 DEF InTurn
    <3>2. ASSUME NEW x \in pend'[r], NEW n \in Members, draft'[r][n] # NoLog
          PROVE  n <= x[1]
      BY <2>1, <2>4, <2>6, <3>2
    <3> QED BY <3>1, <3>2 DEF InTurn
  <2>8. WrittenInTurn(r)'
    <3> SUFFICES ASSUME NEW k \in Keys, written[r][k] # NoRow
                 PROVE  \E n \in Members : \E i \in DOMAIN payload[r][n].rows :
                          /\ draft'[r][n] # NoLog
                          /\ k = KeyOf(r, <<n, i>>)
                          /\ \A x \in pend'[r] : x[1] = n => i < x[2]
      BY <2>1 DEF WrittenInTurn, KeyOf, Observed, VintageOf
    <3>1. PICK n \in Members : \E i \in DOMAIN payload[r][n].rows :
            draft[r][n] # NoLog /\ k = KeyOf(r, <<n, i>>)
      BY DEF WrittenInTurn
    <3>2. n # m
      BY <2>3, <3>1
    <3> QED BY <2>1, <3>1, <3>2
  <2> QED BY <2>7, <2>8
<1>4. ASSUME NEW x \in pend[r], UpsertRow(r, x)
      PROVE  InTurn(r)' /\ WrittenInTurn(r)'
  <2>1. /\ pend'[r] = pend[r] \ {x} /\ left' = left /\ draft' = draft
        /\ payload' = payload /\ runDate' = runDate
        /\ written'[r] = [written[r] EXCEPT ![KeyOf(r, x)] = RowOf(r, x)]
        /\ pc[r] = "running" /\ \A y \in pend[r] : x[2] <= y[2]
    BY <1>4 DEF UpsertRow, IsNextRow, arguments, TypeOK
  <2>2. x \in Members \X Nat /\ pend[r] \subseteq Members \X Nat
        /\ x[2] \in DOMAIN payload[r][x[1]].rows /\ written[r] \in Tables
    BY DEF TypeOK
  <2>3. InTurn(r)'
    BY <2>1 DEF InTurn
  <2>4. ASSUME NEW k \in Keys, written'[r][k] # NoRow
        PROVE  \E n \in Members : \E i \in DOMAIN payload[r][n].rows :
                 /\ draft[r][n] # NoLog
                 /\ k = KeyOf(r, <<n, i>>)
                 /\ \A y \in pend'[r] : y[1] = n => i < y[2]
    <3>1. CASE k = KeyOf(r, x)
      <4>1. x = <<x[1], x[2]>> /\ draft[r][x[1]] # NoLog
        BY <2>2 DEF RunInv, Attributed
      <4>2. \A y \in pend'[r] : y[1] = x[1] => x[2] < y[2]
        BY <2>1, <2>2
      <4> QED BY <2>2, <3>1, <4>1, <4>2
    <3>2. CASE k # KeyOf(r, x)
      <4>1. written[r][k] # NoRow
        BY <2>1, <2>2, <2>4, <3>2 DEF Tables
      <4> QED BY <2>1, <4>1 DEF WrittenInTurn
    <3> QED BY <3>1, <3>2
  <2>5. WrittenInTurn(r)'
    <3>1. payload' = payload /\ runDate' = runDate /\ draft' = draft
      BY <2>1
    <3>2. \A z : KeyOf(r, z)' = KeyOf(r, z)
      BY <3>1 DEF KeyOf, Observed, VintageOf
    <3> QED BY <2>4, <3>1, <3>2 DEF WrittenInTurn
  <2> QED BY <2>3, <2>5
<1>5. CASE Finish(r)
  BY <1>5 DEF Finish, arguments, InTurn, WrittenInTurn, KeyOf, Observed, VintageOf
<1>6. CASE Commit(r) \/ Raise(r) \/ BreakDeadlock(r) \/ Crash(r)
  <2>1. \E how \in Ended : EndTransaction(r, how)
    BY <1>6 DEF Commit, Raise, BreakDeadlock, Crash, Ended
  <2>2. written'[r] = EmptyTable /\ draft'[r] = NoDraft /\ pend'[r] = {}
    BY <2>1 DEF EndTransaction, TypeOK
  <2> QED BY <2>2 DEF InTurn, WrittenInTurn, NoDraft, EmptyTable
<1> QED
  BY <1>1, <1>2, <1>3, <1>4, <1>5, <1>6 DEF Start, Work

\* At most one more run is open than before, so finitely many are.
LEMMA OpenStaysFinite ==
  ASSUME TypeOK, IsFiniteSet({r \in Runs : pc[r] \in Open}), [Next]_vars
  PROVE  IsFiniteSet({r \in Runs : pc'[r] \in Open})
<1> DEFINE now == {r \in Runs : pc[r] \in Open}
           next == {r \in Runs : pc'[r] \in Open}
<1>1. ASSUME NEW r \in Runs, \A q \in Runs \ {r} : pc'[q] = pc[q]
      PROVE  IsFiniteSet(next)
  <2>1. next \in SUBSET (now \cup {r})
    BY <1>1
  <2>2. IsFiniteSet(now \cup {r})
    BY FS_AddElement
  <2> QED BY <2>1, <2>2, FS_Subset
<1>2. ASSUME NEW r \in Runs, Start(r) \/ Work(r) \/ Crash(r)
      PROVE  \A q \in Runs \ {r} : pc'[q] = pc[q]
  BY <1>2 DEF TypeOK, Start, Work, Crash, Begin, RejectFeed, RecordFailedMember, ReadMember,
              UpsertRow, Finish, Commit, Raise, BreakDeadlock, EndTransaction
<1>3. CASE UNCHANGED vars
  BY <1>3 DEF vars
<1> QED BY <1>1, <1>2, <1>3 DEF Next

\* The order of the locks is part of an inductive invariant.
LEMMA LockInvCorrect == Spec => []LockInv
<1>1. Init => LockInv
  <2> SUFFICES ASSUME Init PROVE LockInv
    OBVIOUS
  <2>1. {r \in Runs : pc[r] \in Open} = {}
    BY DEF Init, Open
  <2>2. \A r \in Runs : InTurn(r) /\ WrittenInTurn(r)
    BY DEF Init, InTurn, WrittenInTurn, NoDraft, EmptyTable
  <2> QED BY <2>1, <2>2, InitInductive, FS_EmptySet DEF LockInv
<1>2. LockInv /\ [Next]_vars => LockInv'
  <2> SUFFICES ASSUME LockInv, [Next]_vars PROVE LockInv'
    OBVIOUS
  <2>1. Inductive'
    BY StepInductive DEF LockInv
  <2>2. IsFiniteSet({r \in Runs : pc'[r] \in Open})
    BY OpenStaysFinite DEF LockInv, Inductive
  <2>3. \A r \in Runs : InTurn(r)' /\ WrittenInTurn(r)'
    <3>1. ASSUME NEW r \in Runs, Start(r) \/ Work(r) \/ Crash(r)
          PROVE  \A q \in Runs : InTurn(q)' /\ WrittenInTurn(q)'
      BY <3>1, StepFrame, LockFrame, LockStep DEF LockInv
    <3>2. CASE UNCHANGED vars
      <4>1. \A q \in Runs : Untouched(q)
        BY <3>2 DEF vars, committed, arguments, private, Untouched
      <4> QED BY <4>1, LockFrame DEF LockInv
    <3> QED BY <3>1, <3>2 DEF Next
  <2> QED BY <2>1, <2>2, <2>3 DEF LockInv
<1> QED BY <1>1, <1>2, PTL DEF Spec

\* A run that waits for another of the ring comes before it.
LEMMA WaitingIsBefore ==
  ASSUME LockInv, NEW ring \in SUBSET Runs, LockInOrder(ring), Ring(ring),
         NEW r \in ring, NEW q \in ring, WaitsFor(r, q)
  PROVE  Before(r, q)
<1> USE DEF LockInv, Inductive
<1>1. PICK x \in pend[r] : IsNextRow(r, x) /\ written[q][KeyOf(r, x)] # NoRow
  BY DEF WaitsFor
<1>2. PICK y \in pend[q] : IsNextRow(q, y)
  BY DEF Ring, WaitsFor
<1>3. /\ pc[r] \in Open /\ pc[q] \in Open /\ KeyOf(r, x) \in Keys
      /\ x[1] \in Members /\ y[1] \in Members /\ y[2] \in Nat
      /\ x[2] \in DOMAIN payload[r][x[1]].rows /\ y[2] \in DOMAIN payload[q][y[1]].rows
      /\ Observed(r, x) \in ParsedObservations /\ Observed(q, y) \in ParsedObservations
  BY <1>1, <1>2, ProposedRowType DEF IsNextRow, Open, TypeOK
<1>4. PICK n \in Members : \E i \in DOMAIN payload[q][n].rows :
         /\ draft[q][n] # NoLog
         /\ KeyOf(r, x) = KeyOf(q, <<n, i>>)
         /\ \A z \in pend[q] : z[1] = n => i < z[2]
  BY <1>1, <1>3 DEF WrittenInTurn
<1>5. PICK i \in DOMAIN payload[q][n].rows :
         /\ draft[q][n] # NoLog
         /\ KeyOf(r, x) = KeyOf(q, <<n, i>>)
         /\ \A z \in pend[q] : z[1] = n => i < z[2]
  BY <1>4
<1>6. SeriesOf[n] = SeriesOf[x[1]] /\ Observed(r, x).period = payload[q][n].rows[i].period
  BY <1>5 DEF KeyOf, Observed
<1>7. n \in active[q] /\ x[1] \in active[r] /\ y[1] \in active[q]
  BY <1>1, <1>2, <1>3, <1>5 DEF RunInv, Accounted, Attributed
<1>8. n = x[1] /\ n <= y[1]
  BY <1>2, <1>5, <1>6, <1>7 DEF LockInOrder, InTurn
<1>9. CASE n = y[1]
  <2>1. i < y[2]
    BY <1>5, <1>9
  <2>2. payload[q][n].rows[i].period < Observed(q, y).period
    BY <1>3, <1>7, <1>9, <2>1 DEF LockInOrder, Observed
  <2> QED BY <1>1, <1>2, <1>6, <1>8, <1>9, <2>2 DEF Before
<1>10. CASE n # y[1]
  <2>1. n < y[1]
    BY <1>3, <1>8, <1>10, MembersAssumption
  <2> QED BY <1>1, <1>2, <1>8, <2>1 DEF Before
<1> QED BY <1>9, <1>10

\* A run's next row is one row, so "before" is a strict order of the runs in a ring.
LEMMA NextRowUnique ==
  ASSUME LockInv, NEW r \in Runs, NEW x \in pend[r], NEW y \in pend[r],
         IsNextRow(r, x), IsNextRow(r, y)
  PROVE  x = y
<1>1. x \in Members \X Nat /\ y \in Members \X Nat /\ pc[r] = "running"
  BY DEF LockInv, Inductive, TypeOK, IsNextRow
<1>2. x[2] = y[2]
  BY <1>1 DEF IsNextRow
<1>3. draft[r][x[1]] # NoLog /\ draft[r][y[1]] # NoLog
  BY DEF LockInv, Inductive, RunInv, Attributed
<1>4. x[1] <= y[1] /\ y[1] <= x[1]
  BY <1>1, <1>3 DEF LockInv, InTurn
<1>5. x[1] = y[1]
  BY <1>1, <1>4, MembersAssumption
<1> QED BY <1>1, <1>2, <1>5

\* Runs whose active members feed different series, from payloads in calendar
\* order, never wait for each other in a ring, however many they are and whatever
\* their members report.
THEOREM NoRingOfWaits == Spec => []NoCircularWait
<1>1. ASSUME LockInv, NEW ring \in SUBSET Runs, ring # {}, LockInOrder(ring), Ring(ring)
      PROVE  FALSE
  <2> DEFINE R == {z \in ring \X ring : Before(z[1], z[2])}
  <2>1. \A r \in ring : pc[r] \in Open
    BY <1>1 DEF Ring, WaitsFor, IsNextRow, Open
  <2>2. IsFiniteSet(ring)
    BY <1>1, <2>1, FS_Subset DEF LockInv
  <2>3. ASSUME NEW r \in ring, NEW x \in pend[r], IsNextRow(r, x)
        PROVE  x[1] \in Int /\ Observed(r, x).period \in Int
    BY <1>1, <2>1, <2>3, ProposedRowType, MembersAssumption, PeriodsAssumption
       DEF LockInv, Inductive, ParsedObservations
  <2>4. \A r \in ring : ~Before(r, r)
    BY <1>1, <2>3, NextRowUnique DEF Before
  <2>5. ASSUME NEW r \in ring, NEW q \in ring, NEW p \in ring, Before(r, q), Before(q, p)
        PROVE  Before(r, p)
    <3>1. PICK x \in pend[r], y \in pend[q] :
            /\ IsNextRow(r, x) /\ IsNextRow(q, y)
            /\ \/ x[1] < y[1]
               \/ x[1] = y[1] /\ Observed(r, x).period < Observed(q, y).period
      BY <2>5 DEF Before
    <3>2. PICK v \in pend[q], w \in pend[p] :
            /\ IsNextRow(q, v) /\ IsNextRow(p, w)
            /\ \/ v[1] < w[1]
               \/ v[1] = w[1] /\ Observed(q, v).period < Observed(p, w).period
      BY <2>5 DEF Before
    <3>3. v = y
      BY <1>1, <3>1, <3>2, NextRowUnique
    <3>4. \/ x[1] < w[1]
          \/ x[1] = w[1] /\ Observed(r, x).period < Observed(p, w).period
      BY <2>3, <3>1, <3>2, <3>3
    <3> QED BY <3>1, <3>2, <3>4 DEF Before
  <2>6. PICK r \in ring : \A q \in ring : <<r, q>> \notin R
    <3>1. \A x \in ring : <<x, x>> \notin R
      BY <2>4
    <3>2. \A x, y, z \in ring : <<x, y>> \in R /\ <<y, z>> \in R => <<x, z>> \in R
      BY <2>5
    <3> HIDE DEF R
    <3> QED BY <1>1, <2>2, <3>1, <3>2, MaximalElement
  <2>7. PICK q \in ring : WaitsFor(r, q)
    BY <1>1 DEF Ring
  <2> QED BY <1>1, <2>6, <2>7, WaitingIsBefore
<1>2. LockInv => NoCircularWait
  BY <1>1 DEF NoCircularWait
<1> QED BY <1>2, LockInvCorrect, PTL
-----------------------------------------------------------------------------
(* The newest of finitely many vintages *)

\* A greatest vintage is the newest one.
LEMMA NewestIs ==
  ASSUME NEW vs, vs \subseteq Int, NEW v \in vs, \A u \in vs : u <= v
  PROVE  Newest(vs) = v
<1>1. \E w \in vs : \A u \in vs : u <= w
  OBVIOUS
<1>2. Newest(vs) \in vs /\ \A u \in vs : u <= Newest(vs)
  BY <1>1 DEF Newest
<1>3. Newest(vs) \in Int /\ v \in Int /\ v <= Newest(vs) /\ Newest(vs) <= v
  BY <1>2
<1> QED BY <1>3

\* Finitely many vintages, if any, have a newest one.
LEMMA NewestExists ==
  ASSUME NEW vs, vs \subseteq Int, IsFiniteSet(vs), vs # {}
  PROVE  Newest(vs) \in vs /\ \A u \in vs : u <= Newest(vs)
<1> DEFINE R == {z \in vs \X vs : z[1] < z[2]}
<1>1. \A x, y \in vs : <<x, y>> \in R <=> x < y
  OBVIOUS
<1>2. PICK w \in vs : \A u \in vs : <<w, u>> \notin R
  <2>1. \A x \in vs : <<x, x>> \notin R
    BY <1>1
  <2>2. \A x, y, z \in vs : <<x, y>> \in R /\ <<y, z>> \in R => <<x, z>> \in R
    BY <1>1
  <2> HIDE DEF R
  <2> QED BY <2>1, <2>2, MaximalElement
<1>3. ASSUME NEW u \in vs PROVE u <= w
  <2>1. u \in Int /\ w \in Int /\ ~(w < u)
    BY <1>1, <1>2
  <2> QED BY <2>1
<1> QED BY <1>3 DEF Newest

\* Only finitely many vintages of a period are stored or written.
FiniteHistory ==
  \A s \in Series, p \in Periods :
    /\ IsFiniteSet(StoredVintages(obs, s, p))
    /\ \A r \in Runs : IsFiniteSet(StoredVintages(written[r], s, p))

\* The vintages a transaction sees are those stored and those it wrote.
LEMMA OverlayVintages ==
  ASSUME NEW t, NEW w, NEW s \in Series, NEW p \in Periods
  PROVE  StoredVintages(Overlay(t, w), s, p) = StoredVintages(t, s, p) \cup StoredVintages(w, s, p)
<1>1. \A v \in Vintages : <<s, p, v>> \in Keys
  BY DEF Keys
<1> QED BY <1>1 DEF StoredVintages, Overlay

\* Two tables that agree on a period show the same newest row of it.
LEMMA SameRowsSameLatest ==
  ASSUME NEW t, NEW u, NEW s, NEW p, IsFiniteSet(StoredVintages(u, s, p)),
         \A v \in Vintages : t[<<s, p, v>>] = u[<<s, p, v>>]
  PROVE  LatestRow(t, s, p) = LatestRow(u, s, p)
<1>1. StoredVintages(t, s, p) = StoredVintages(u, s, p)
  BY DEF StoredVintages
<1>2. StoredVintages(u, s, p) \subseteq Int
  BY VintagesAssumption DEF StoredVintages
<1>3. CASE StoredVintages(u, s, p) # {}
  <2>1. Newest(StoredVintages(u, s, p)) \in Vintages
    BY <1>2, <1>3, NewestExists DEF StoredVintages
  <2> QED BY <1>1, <2>1 DEF LatestRow
<1>4. CASE StoredVintages(u, s, p) = {}
  BY <1>1, <1>4 DEF LatestRow
<1> QED BY <1>3, <1>4

\* What a step does to the rows a run has written.
LEMMA WrittenStep ==
  ASSUME Inductive, NEW r \in Runs, Start(r) \/ Work(r) \/ Crash(r)
  PROVE  \/ written'[r] = written[r]
         \/ written'[r] = EmptyTable
         \/ \E k \in Keys, w \in Rows : written'[r] = [written[r] EXCEPT ![k] = w]
<1> USE DEF Inductive, TypeOK
<1>1. CASE Start(r)
  BY <1>1 DEF Start, Begin, RejectFeed, private
<1>2. CASE \E m \in Members : RecordFailedMember(r, m) \/ ReadMember(r, m)
  BY <1>2 DEF RecordFailedMember, ReadMember
<1>3. ASSUME NEW x \in pend[r], UpsertRow(r, x)
      PROVE  \E k \in Keys, w \in Rows : written'[r] = [written[r] EXCEPT ![k] = w]
  <2>1. KeyOf(r, x) \in Keys /\ RowOf(r, x) \in Rows
    BY <1>3, ProposedRowType DEF UpsertRow, IsNextRow, Open
  <2>2. written'[r] = [written[r] EXCEPT ![KeyOf(r, x)] = RowOf(r, x)]
    BY <1>3 DEF UpsertRow
  <2> QED BY <2>1, <2>2
<1>4. CASE Finish(r)
  BY <1>4 DEF Finish
<1>5. CASE Commit(r) \/ Raise(r) \/ BreakDeadlock(r) \/ Crash(r)
  BY <1>5 DEF Commit, Raise, BreakDeadlock, Crash, EndTransaction
<1> QED BY <1>1, <1>2, <1>3, <1>4, <1>5 DEF Work

\* A step stores or writes finitely many vintages more.
LEMMA StepFiniteHistory ==
  ASSUME Inductive, FiniteHistory, [Next]_vars
  PROVE  FiniteHistory'
<1> SUFFICES ASSUME NEW s \in Series, NEW p \in Periods
             PROVE  /\ IsFiniteSet(StoredVintages(obs', s, p))
                    /\ \A q \in Runs : IsFiniteSet(StoredVintages(written'[q], s, p))
  BY DEF FiniteHistory, StoredVintages
<1>1. CASE UNCHANGED vars
  BY <1>1 DEF FiniteHistory, vars, committed, private
<1>2. ASSUME NEW r \in Runs, Start(r) \/ Work(r) \/ Crash(r)
      PROVE  /\ IsFiniteSet(StoredVintages(obs', s, p))
             /\ \A q \in Runs : IsFiniteSet(StoredVintages(written'[q], s, p))
  <2>1. IsFiniteSet(StoredVintages(obs', s, p))
    <3>1. CASE Commit(r)
      <4>1. StoredVintages(obs', s, p) = StoredVintages(obs, s, p) \cup StoredVintages(written[r], s, p)
        BY <3>1, OverlayVintages DEF Commit
      <4> QED BY <4>1, FS_Union DEF FiniteHistory
    <3>2. CASE ~Commit(r)
      BY <1>2, <3>2, StepCommitted DEF FiniteHistory, committed
    <3> QED BY <3>1, <3>2
  <2>2. IsFiniteSet(StoredVintages(written'[r], s, p))
    <3>1. CASE written'[r] = EmptyTable
      <4>1. StoredVintages(EmptyTable, s, p) = {}
        BY DEF StoredVintages, EmptyTable, Keys
      <4> QED BY <3>1, <4>1, FS_EmptySet
    <3>2. ASSUME NEW k \in Keys, NEW w \in Rows, written'[r] = [written[r] EXCEPT ![k] = w]
          PROVE  IsFiniteSet(StoredVintages(written'[r], s, p))
      <4>1. StoredVintages(written'[r], s, p) \subseteq StoredVintages(written[r], s, p) \cup {k[3]}
        BY <3>2 DEF Inductive, TypeOK, Tables, StoredVintages, Keys
      <4> QED BY <4>1, FS_AddElement, FS_Subset DEF FiniteHistory
    <3> QED BY <1>2, <3>1, <3>2, WrittenStep DEF FiniteHistory
  <2>3. ASSUME NEW q \in Runs, q # r PROVE IsFiniteSet(StoredVintages(written'[q], s, p))
    BY <1>2, <2>3, StepFrame DEF FiniteHistory, Untouched
  <2> QED BY <2>1, <2>2, <2>3
<1> QED BY <1>1, <1>2 DEF Next

-----------------------------------------------------------------------------
(* What a run holds while nobody else commits *)

\* x is the value latest_observations shows at a period.
Shows(table, s, p, x) ==
  LatestRow(table, s, p) # NoRow /\ LatestRow(table, s, p).value = x

\* Every observation of a member that succeeded is about to be written, is written
\* (by itself or by another of its period), or is what is stored already.
Covered(r) ==
  \A m \in Members : draft[r][m] # NoLog /\ draft[r][m].status = "success" =>
    \A i \in DOMAIN payload[r][m].rows :
      LET o == payload[r][m].rows[i]
      IN  \/ <<m, i>> \in pend[r]
          \/ \E v \in Vintages : written[r][<<SeriesOf[m], o.period, v>>] # NoRow
          \/ Shows(obs, SeriesOf[m], o.period, o.value)

\* A plain import proposes and writes only values that revise what is stored.
Revises(r) ==
  /\ \A x \in pend[r] :
       ~Shows(obs, SeriesOf[x[1]], Observed(r, x).period, Observed(r, x).value)
  /\ \A k \in Keys : written[r][k] # NoRow => ~Shows(obs, k[1], k[2], written[r][k].value)

Undisturbed(r) ==
  pc[r] \in Open /\ r \notin contended =>
    /\ loaded[r] = obs
    /\ Covered(r)
    /\ PlainImport(r) => Revises(r)

\* The run dates and payloads of committed runs are what an orderly history says.
CommittedPlain ==
  \A r \in Runs : pc[r] = "committed" =>
    /\ runDate[r] \in RunDates
    /\ orderly => PlainImport(r)

\* The inductive invariant behind the properties of the history.
HistoryInductive ==
  /\ Inductive
  /\ FiniteHistory
  /\ \A r \in Runs : Undisturbed(r)
  /\ CommittedPlain
  /\ PointInTime
  /\ OnlyRevisionsStored

\* A session that holds what is stored, and wrote nothing at a period, reads there
\* what is stored.
LEMMA SeesWhatIsStored ==
  ASSUME FiniteHistory, NEW r \in Runs, loaded[r] = obs,
         NEW s \in Series, NEW p \in Periods,
         \A v \in Vintages : written[r][<<s, p, v>>] = NoRow
  PROVE  LatestRow(Seen(r), s, p) = LatestRow(obs, s, p)
<1>1. \A v \in Vintages : Seen(r)[<<s, p, v>>] = obs[<<s, p, v>>]
  BY DEF Seen, Overlay, Keys
<1> QED BY <1>1, SameRowsSameLatest DEF FiniteHistory

\* Members that are drafted or left are active.
LEMMA DraftedAreActive ==
  ASSUME Inductive, NEW r \in Runs, pc[r] \in Open
  PROVE  /\ \A m \in Members : draft[r][m] # NoLog => m \in active[r] \ left[r]
         /\ left[r] \subseteq active[r]
BY DEF Inductive, RunInv, Accounted

\* What a member reads is covered, and revises what is stored.
LEMMA ReadUndisturbed ==
  ASSUME Inductive, FiniteHistory, NEW r \in Runs, Undisturbed(r),
         pc[r] \in Open, r \notin contended, NEW m \in Members, ReadMember(r, m)
  PROVE  Covered(r)' /\ (PlainImport(r) => Revises(r)')
<1> USE DEF Inductive
<1>1. /\ pend[r] = {} /\ pend'[r] = {m} \X RowsToWrite(r, m)
      /\ written' = written /\ payload' = payload /\ obs' = obs /\ runDate' = runDate
      /\ \A n \in Members : n # m => draft'[r][n] = draft[r][n]
      /\ m \in left[r]
  BY DEF ReadMember, AtMember, TypeOK, committed, arguments
<1>2. loaded[r] = obs /\ Covered(r)
  BY DEF Undisturbed
<1>3. ASSUME NEW n \in Members, NEW i \in DOMAIN payload[r][n].rows
      PROVE  /\ payload[r][n].rows[i] \in ParsedObservations
             /\ payload[r][n].rows[i].period \in Periods
             /\ SeriesOf[n] \in Series
  <2>1. payload[r][n].rows \in Seq(ParsedObservations)
    BY DEF TypeOK, ExtractionOutcomes
  <2>2. payload[r][n].rows[i] \in ParsedObservations
    BY <1>3, <2>1
  <2> QED BY <2>2, SeriesOfAssumption DEF ParsedObservations
<1>4. ASSUME NEW i \in DOMAIN payload[r][m].rows,
             \A v \in Vintages :
               written[r][<<SeriesOf[m], payload[r][m].rows[i].period, v>>] = NoRow
      PROVE  i \in RowsToWrite(r, m) <=>
               ~Shows(obs, SeriesOf[m], payload[r][m].rows[i].period, payload[r][m].rows[i].value)
  <2>1. LatestRow(Seen(r), SeriesOf[m], payload[r][m].rows[i].period)
          = LatestRow(obs, SeriesOf[m], payload[r][m].rows[i].period)
    BY <1>2, <1>3, <1>4, SeesWhatIsStored
  <2> QED BY <2>1 DEF RowsToWrite, Unchanged, Shows
<1>5. Covered(r)'
  <2> SUFFICES ASSUME NEW n \in Members, draft'[r][n] # NoLog, draft'[r][n].status = "success",
                      NEW i \in DOMAIN payload[r][n].rows
               PROVE  LET o == payload[r][n].rows[i]
                      IN  \/ <<n, i>> \in pend'[r]
                          \/ \E v \in Vintages : written[r][<<SeriesOf[n], o.period, v>>] # NoRow
                          \/ Shows(obs, SeriesOf[n], o.period, o.value)
    BY <1>1 DEF Covered
  <2>1. CASE n # m
    BY <1>1, <1>2, <2>1 DEF Covered
  <2>2. CASE n = m
    BY <1>1, <1>4, <2>2
  <2> QED BY <2>1, <2>2
<1>6. ASSUME PlainImport(r) PROVE Revises(r)'
  <2>1. Revises(r)
    BY <1>6 DEF Undisturbed
  <2>2. \A v \in Vintages, p \in Periods : written[r][<<SeriesOf[m], p, v>>] = NoRow
    <3> SUFFICES ASSUME NEW v \in Vintages, NEW p \in Periods,
                        written[r][<<SeriesOf[m], p, v>>] # NoRow
                 PROVE  FALSE
      OBVIOUS
    <3>1. <<SeriesOf[m], p, v>> \in Keys
      BY SeriesOfAssumption DEF Keys
    <3>2. PICK n \in Members : draft[r][n] # NoLog /\ SeriesOf[n] = SeriesOf[m]
      BY <3>1 DEF RunInv, Attributed, ExtractedBy
    <3> QED BY <1>1, <1>6, <3>2, DraftedAreActive DEF PlainImport
  <2>3. ASSUME NEW x \in pend'[r]
        PROVE  ~Shows(obs, SeriesOf[x[1]], Observed(r, x).period, Observed(r, x).value)
    <3>1. x[1] = m /\ x[2] \in RowsToWrite(r, m)
      BY <1>1
    <3>2. x[2] \in DOMAIN payload[r][m].rows
      BY <3>1 DEF RowsToWrite
    <3> QED BY <1>3, <1>4, <2>2, <3>1, <3>2 DEF Observed
  <2> QED BY <1>1, <2>1, <2>3 DEF Revises, Observed
<1> QED BY <1>5, <1>6

\* Writing a row leaves what was covered covered, and revises what is stored.
LEMMA UpsertUndisturbed ==
  ASSUME Inductive, NEW r \in Runs, Undisturbed(r),
         pc[r] \in Open, r \notin contended, NEW x \in pend[r], UpsertRow(r, x)
  PROVE  Covered(r)' /\ (PlainImport(r) => Revises(r)')
<1> USE DEF Inductive
<1>1. /\ pend'[r] = pend[r] \ {x} /\ draft' = draft /\ payload' = payload
      /\ obs' = obs /\ runDate' = runDate
      /\ written'[r] = [written[r] EXCEPT ![KeyOf(r, x)] = RowOf(r, x)]
  BY DEF UpsertRow, committed, arguments, TypeOK
<1>2. /\ KeyOf(r, x) \in Keys /\ RowOf(r, x) # NoRow /\ written[r] \in Tables
      /\ x \in Members \X Nat /\ x[2] \in DOMAIN payload[r][x[1]].rows
  BY ProposedRowType, NoRowAssumption DEF TypeOK
<1>3. written'[r][KeyOf(r, x)] = RowOf(r, x)
      /\ \A k \in Keys : k # KeyOf(r, x) => written'[r][k] = written[r][k]
  BY <1>1, <1>2 DEF Tables
<1>4. Covered(r)'
  <2> SUFFICES ASSUME NEW n \in Members, draft[r][n] # NoLog, draft[r][n].status = "success",
                      NEW i \in DOMAIN payload[r][n].rows
               PROVE  LET o == payload[r][n].rows[i]
                      IN  \/ <<n, i>> \in pend'[r]
                          \/ \E v \in Vintages : written'[r][<<SeriesOf[n], o.period, v>>] # NoRow
                          \/ Shows(obs, SeriesOf[n], o.period, o.value)
    BY <1>1 DEF Covered
  <2> DEFINE o == payload[r][n].rows[i]
  <2>1. CASE <<n, i>> = x
    <3>1. KeyOf(r, x) = <<SeriesOf[n], o.period, VintageOf(r, o)>>
      BY <2>1 DEF KeyOf, Observed
    <3>2. VintageOf(r, o) \in Vintages
      BY <1>2, <3>1 DEF Keys
    <3> QED BY <1>2, <1>3, <3>1, <3>2
  <2>2. CASE <<n, i>> # x
    <3>1. \A v \in Vintages : written[r][<<SeriesOf[n], o.period, v>>] # NoRow =>
            written'[r][<<SeriesOf[n], o.period, v>>] # NoRow
      <4>1. payload[r][n].rows \in Seq(ParsedObservations)
        BY DEF TypeOK, ExtractionOutcomes
      <4>2. o \in ParsedObservations
        BY <4>1
      <4>3. \A v \in Vintages : <<SeriesOf[n], o.period, v>> \in Keys
        BY <4>2, SeriesOfAssumption DEF Keys, ParsedObservations
      <4> QED BY <1>2, <1>3, <4>3
    <3> QED BY <1>1, <2>2, <3>1 DEF Undisturbed, Covered
  <2> QED BY <2>1, <2>2
<1>5. ASSUME PlainImport(r) PROVE Revises(r)'
  <2>1. Revises(r)
    BY <1>5 DEF Undisturbed
  <2>2. ASSUME NEW k \in Keys, written'[r][k] # NoRow
        PROVE  ~Shows(obs, k[1], k[2], written'[r][k].value)
    <3>1. CASE k = KeyOf(r, x)
      BY <1>3, <2>1, <3>1 DEF KeyOf, RowOf, Revises
    <3>2. CASE k # KeyOf(r, x)
      BY <1>3, <2>1, <2>2, <3>2 DEF Revises
    <3> QED BY <3>1, <3>2
  <2>3. \A y \in pend'[r] :
          ~Shows(obs, SeriesOf[y[1]], Observed(r, y).period, Observed(r, y).value)
    BY <1>1, <2>1 DEF Revises
  <2> QED BY <1>1, <2>2, <2>3 DEF Revises, Observed
<1> QED BY <1>4, <1>5

\* Whether a run is a plain import depends on its arguments.
LEMMA PlainImportFrame ==
  ASSUME NEW r \in Runs, payload'[r] = payload[r], active'[r] = active[r]
  PROVE  PlainImport(r)' <=> PlainImport(r)
BY DEF PlainImport, PlainSnapshot

\* A step of another run that does not commit leaves a run undisturbed; after one
\* that commits, it is contended.
LEMMA UndisturbedFrame ==
  ASSUME NEW r \in Runs, Undisturbed(r), Untouched(r), loaded'[r] = loaded[r],
         contended \subseteq contended', pc[r] \in Open /\ r \notin contended' => obs' = obs
  PROVE  Undisturbed(r)'
<1> SUFFICES ASSUME pc'[r] \in Open, r \notin contended' PROVE Undisturbed(r)'
  BY DEF Undisturbed
<1>1. obs' = obs /\ pc[r] \in Open /\ r \notin contended /\ Undisturbed(r)
  BY DEF Untouched
<1>2. Covered(r)' <=> Covered(r)
  BY <1>1 DEF Covered, Untouched, Shows, LatestRow, StoredVintages
<1>3. Revises(r)' <=> Revises(r)
  BY <1>1 DEF Revises, Untouched, Shows, LatestRow, StoredVintages, Observed
<1>4. PlainImport(r)' <=> PlainImport(r)
  BY PlainImportFrame DEF Untouched
<1> QED BY <1>1, <1>2, <1>3, <1>4 DEF Undisturbed, Untouched

\* What a session holds of the observations is its own.
LEMMA LoadedFrame ==
  ASSUME Inductive, NEW r \in Runs, Start(r) \/ Work(r) \/ Crash(r)
  PROVE  \A q \in Runs \ {r} : loaded'[q] = loaded[q]
<1> USE DEF Inductive, TypeOK, private
<1>1. CASE Start(r)
  BY <1>1 DEF Start, Begin, RejectFeed
<1>2. CASE \E m \in Members : RecordFailedMember(r, m) \/ ReadMember(r, m)
  BY <1>2 DEF RecordFailedMember, ReadMember
<1>3. CASE \E x \in pend[r] : UpsertRow(r, x)
  BY <1>3 DEF UpsertRow
<1>4. CASE Finish(r)
  BY <1>4 DEF Finish
<1>5. CASE Commit(r) \/ Raise(r) \/ BreakDeadlock(r) \/ Crash(r)
  BY <1>5 DEF Commit, Raise, BreakDeadlock, Crash, EndTransaction
<1> QED BY <1>1, <1>2, <1>3, <1>4, <1>5 DEF Work

\* The step of a run that leaves that run open keeps it undisturbed.
LEMMA UndisturbedStep ==
  ASSUME Inductive, FiniteHistory, NEW r \in Runs, Undisturbed(r),
         Start(r) \/ Work(r) \/ Crash(r), contended \subseteq contended'
  PROVE  Undisturbed(r)'
<1> USE DEF Inductive
<1>1. ASSUME NEW d \in RunDates, NEW p \in [Members -> Outcomes], NEW a \in ActiveSets,
             Begin(r, d, p, a)
      PROVE  Undisturbed(r)'
  <2>1. written[r] = EmptyTable /\ draft[r] = NoDraft /\ pend[r] = {}
    BY <1>1 DEF Begin, RunInv, AtRest, Open, TypeOK
  <2>2. /\ written'[r] = EmptyTable /\ draft'[r] = NoDraft /\ pend'[r] = {}
        /\ loaded'[r] = obs'
    BY <1>1, <2>1 DEF Begin, committed, TypeOK
  <2> QED BY <2>2 DEF Undisturbed, Covered, Revises, NoDraft, EmptyTable
<1>2. CASE RejectFeed(r)
  BY <1>2 DEF RejectFeed, Undisturbed, Open, TypeOK
<1>3. ASSUME NEW m \in Members, RecordFailedMember(r, m)
      PROVE  Undisturbed(r)'
  <2>1. /\ UNCHANGED <<pc, obs, loaded, pend, written, payload, active, runDate>>
        /\ draft' = [draft EXCEPT ![r][m] = FailedMember]
    BY <1>3 DEF RecordFailedMember, committed, arguments
  <2>2. \A n \in Members : draft'[r][n] # NoLog /\ draft'[r][n].status = "success" =>
          draft'[r][n] = draft[r][n]
    BY <2>1 DEF TypeOK, FailedMember
  <2>3. Covered(r) => Covered(r)'
    BY <2>1, <2>2 DEF Covered
  <2>4. Revises(r)' <=> Revises(r)
    BY <2>1 DEF Revises, Observed
  <2>5. PlainImport(r)' <=> PlainImport(r)
    BY <2>1 DEF PlainImport, PlainSnapshot
  <2> QED BY <2>1, <2>3, <2>4, <2>5 DEF Undisturbed
<1>4. ASSUME NEW m \in Members, ReadMember(r, m)
      PROVE  Undisturbed(r)'
  <2>1. UNCHANGED <<pc, obs, loaded, payload, active>>
    BY <1>4 DEF ReadMember, committed, arguments
  <2>2. PlainImport(r)' <=> PlainImport(r)
    BY <2>1 DEF PlainImport, PlainSnapshot
  <2>3. pc[r] \in Open /\ r \notin contended => Covered(r)' /\ (PlainImport(r) => Revises(r)')
    BY <1>4, ReadUndisturbed
  <2> QED BY <2>1, <2>2, <2>3 DEF Undisturbed
<1>5. ASSUME NEW x \in pend[r], UpsertRow(r, x)
      PROVE  Undisturbed(r)'
  <2>1. UNCHANGED <<pc, obs, loaded, payload, active>>
    BY <1>5 DEF UpsertRow, committed, arguments
  <2>2. PlainImport(r)' <=> PlainImport(r)
    BY <2>1 DEF PlainImport, PlainSnapshot
  <2>3. pc[r] \in Open /\ r \notin contended => Covered(r)' /\ (PlainImport(r) => Revises(r)')
    BY <1>5, UpsertUndisturbed
  <2> QED BY <2>1, <2>2, <2>3 DEF Undisturbed
<1>6. CASE Finish(r)
  <2>1. /\ UNCHANGED <<obs, loaded, pend, written, draft, payload, active, runDate>>
        /\ pc[r] \in Open
    BY <1>6 DEF Finish, committed, arguments, Open
  <2>2. Covered(r)' <=> Covered(r)
    BY <2>1 DEF Covered
  <2>3. Revises(r)' <=> Revises(r)
    BY <2>1 DEF Revises, Observed
  <2>4. PlainImport(r)' <=> PlainImport(r)
    BY <2>1 DEF PlainImport, PlainSnapshot
  <2> QED BY <2>1, <2>2, <2>3, <2>4 DEF Undisturbed
<1>7. CASE Commit(r) \/ Raise(r) \/ BreakDeadlock(r) \/ Crash(r)
  BY <1>7 DEF Commit, Raise, BreakDeadlock, Crash, EndTransaction, TypeOK, Open, Undisturbed
<1> QED
  BY <1>1, <1>2, <1>3, <1>4, <1>5, <1>6, <1>7 DEF Start, Work

\* A run that commits now takes the Commit step.
LEMMA CommitsNowCommits ==
  ASSUME Inductive, [Next]_vars, NEW r \in Runs, CommitsNow(r)
  PROVE  Commit(r)
<1>1. ~UNCHANGED vars
  BY DEF CommitsNow, vars
<1>2. PICK q \in Runs : Start(q) \/ Work(q) \/ Crash(q)
  BY <1>1 DEF Next
<1>3. CASE q # r
  BY <1>2, <1>3, StepFrame DEF CommitsNow, Untouched
<1>4. CASE q = r
  <2>1. pc[r] = "finished" /\ pc'[r] = "committed" /\ TypeOK
    BY DEF CommitsNow, Inductive
  <2>2. ~Start(r) /\ ~Crash(r) /\ ~Finish(r) /\ ~Raise(r) /\ ~BreakDeadlock(r)
    BY <2>1 DEF TypeOK, Start, Begin, RejectFeed, Crash, Finish, Raise, BreakDeadlock,
                EndTransaction
  <2>3. \A m \in Members : ~RecordFailedMember(r, m) /\ ~ReadMember(r, m)
    BY <2>1 DEF RecordFailedMember, ReadMember
  <2>4. \A x \in pend[r] : ~UpsertRow(r, x)
    BY <2>1 DEF UpsertRow
  <2> QED BY <1>2, <1>4, <2>2, <2>3, <2>4 DEF Work
<1> QED BY <1>3, <1>4

-----------------------------------------------------------------------------
(* What a commit adds to an orderly history *)

\* The rows of a plain import are dated by its run.
LEMMA PlainRowsAreOfTheDay ==
  ASSUME Inductive, NEW r \in Runs, pc[r] \in Open, PlainImport(r)
  PROVE  \A k \in Keys : written[r][k] # NoRow => k[3] = runDate[r]
<1> SUFFICES ASSUME NEW k \in Keys, written[r][k] # NoRow
             PROVE  k[3] = runDate[r]
  OBVIOUS
<1>1. PICK m \in Members : draft[r][m] # NoLog /\ ExtractedBy(k, written[r][k], r, m)
  BY DEF Inductive, RunInv, Attributed
<1>2. PlainSnapshot(r, m)
  BY <1>1, DraftedAreActive DEF PlainImport
<1> QED BY <1>1, <1>2 DEF ExtractedBy, PlainSnapshot, VintageOf

\* So what an orderly history stores is dated by committed runs.
LEMMA StoredRowsAreOfRuns ==
  ASSUME Inductive, CommittedPlain, orderly, NEW k \in Keys, obs[k] # NoRow
  PROVE  \E q \in Runs : pc[q] = "committed" /\ k[3] = runDate[q]
<1>1. PICK q \in Runs, m \in Members :
        pc[q] = "committed" /\ memberLog[q][m] # NoLog /\ ExtractedBy(k, obs[k], q, m)
  BY DEF Inductive, ProvenanceSound
<1>2. m \in active[q]
  BY <1>1 DEF Inductive, AuditComplete
<1>3. PlainSnapshot(q, m)
  BY <1>1, <1>2 DEF CommittedPlain, PlainImport
<1> QED BY <1>1, <1>3 DEF ExtractedBy, PlainSnapshot, VintageOf

\* What the history variable says of a run that commits.
LEMMA OrderlyCommit ==
  ASSUME HistoryInductive, HistoryNext, NEW r \in Runs, Commit(r), orderly'
  PROVE  /\ r \notin contended /\ pc[r] \in Open /\ runDate[r] \in Vintages
         /\ LaterThanAll(r) /\ PlainImport(r) /\ orderly
         /\ \A k \in Keys : written[r][k] # NoRow => k[3] = runDate[r]
         /\ \A k \in Keys : obs[k] # NoRow => k[3] < runDate[r]
<1> USE DEF HistoryInductive
<1>1. CommitsNow(r) /\ pc[r] \in Open
  BY CommitEffect DEF CommitsNow, Open, Inductive, TypeOK
<1>2. r \notin contended /\ LaterThanAll(r) /\ PlainImport(r) /\ orderly
  BY <1>1 DEF HistoryNext
<1>3. runDate[r] \in Vintages
  BY <1>1, RunDatesAssumption DEF Inductive, TypeOK
<1>4. \A k \in Keys : obs[k] # NoRow => k[3] < runDate[r]
  BY <1>2, StoredRowsAreOfRuns DEF LaterThanAll
<1> QED BY <1>1, <1>2, <1>3, <1>4, PlainRowsAreOfTheDay

\* What point-in-time reads show after such a commit: before its day, what they
\* showed; from its day on, what it wrote or else what was the latest.
LEMMA OrderlyReads ==
  ASSUME HistoryInductive, HistoryNext, NEW r \in Runs, Commit(r), orderly',
         NEW s \in Series, NEW p \in Periods
  PROVE  /\ \A d \in Int : d < runDate[r] => RowAsOf(obs', s, p, d) = RowAsOf(obs, s, p, d)
         /\ RowAsOf(obs', s, p, runDate[r] - 1) = LatestRow(obs, s, p)
         /\ written[r][<<s, p, runDate[r]>>] # NoRow =>
              RowAsOf(obs', s, p, runDate[r]) = written[r][<<s, p, runDate[r]>>]
         /\ written[r][<<s, p, runDate[r]>>] = NoRow =>
              RowAsOf(obs', s, p, runDate[r]) = LatestRow(obs, s, p)
<1> DEFINE day == runDate[r]
           stored == StoredVintages(obs, s, p)
           now == StoredVintages(obs', s, p)
<1>1. day \in Vintages /\ day \in Int /\ stored \subseteq Int /\ stored \subseteq Vintages
  BY OrderlyCommit, VintagesAssumption DEF StoredVintages
<1>2. \A v \in Vintages : <<s, p, v>> \in Keys
  BY DEF Keys
<1>3. \A v \in stored : v < day
  BY <1>2, OrderlyCommit DEF StoredVintages
<1>4. \A v \in Vintages : v # day => obs'[<<s, p, v>>] = obs[<<s, p, v>>]
  BY <1>2, OrderlyCommit, CommitEffect DEF HistoryInductive
<1>5. obs'[<<s, p, day>>] = written[r][<<s, p, day>>]
  <2>1. obs[<<s, p, day>>] = NoRow
    BY <1>1, <1>3 DEF StoredVintages
  <2> QED BY <1>1, <1>2, <2>1, CommitEffect DEF HistoryInductive
<1>6. IsFiniteSet(stored)
  BY DEF HistoryInductive, FiniteHistory
<1>7. ASSUME NEW d \in Int, d < day
      PROVE  RowAsOf(obs', s, p, d) = RowAsOf(obs, s, p, d)
  <2> DEFINE vs == {v \in stored : v <= d}
  <2>1. {v \in now : v <= d} = vs
    BY <1>1, <1>4, <1>7 DEF StoredVintages
  <2>2. ASSUME vs # {} PROVE Newest(vs) \in Vintages /\ Newest(vs) # day
    <3>1. IsFiniteSet(vs) /\ vs \subseteq Int
      BY <1>1, <1>6, FS_Subset
    <3> HIDE DEF vs
    <3>2. Newest(vs) \in vs
      BY <2>2, <3>1, NewestExists
    <3> USE DEF vs
    <3> QED BY <1>1, <1>3, <3>2
  <2> HIDE DEF vs
  <2>3. CASE vs = {}
    BY <2>1, <2>3 DEF RowAsOf, vs
  <2>4. CASE vs # {}
    BY <1>4, <2>1, <2>2, <2>4 DEF RowAsOf, vs
  <2> QED BY <2>3, <2>4
<1>8. RowAsOf(obs', s, p, day - 1) = LatestRow(obs, s, p)
  <2>1. RowAsOf(obs', s, p, day - 1) = RowAsOf(obs, s, p, day - 1)
    BY <1>1, <1>7
  <2>2. {v \in stored : v <= day - 1} = stored
    BY <1>1, <1>3
  <2> QED BY <2>1, <2>2 DEF RowAsOf, LatestRow
<1>9. ASSUME written[r][<<s, p, day>>] # NoRow
      PROVE  RowAsOf(obs', s, p, day) = written[r][<<s, p, day>>]
  <2> DEFINE vs == {v \in now : v <= day}
  <2>1. day \in vs
    BY <1>1, <1>5, <1>9 DEF StoredVintages
  <2>2. vs \subseteq Int /\ \A v \in vs : v <= day
    BY VintagesAssumption DEF StoredVintages
  <2>3. Newest(vs) = day
    <3> HIDE DEF vs
    <3> QED BY <2>1, <2>2, NewestIs
  <2> QED BY <1>5, <2>1, <2>3 DEF RowAsOf
<1>10. ASSUME written[r][<<s, p, day>>] = NoRow
       PROVE  RowAsOf(obs', s, p, day) = LatestRow(obs, s, p)
  <2>1. {v \in now : v <= day} = {v \in now : v <= day - 1}
    <3>1. day \notin now
      BY <1>5, <1>10 DEF StoredVintages
    <3>2. now \subseteq Int
      BY VintagesAssumption DEF StoredVintages
    <3> QED BY <1>1, <3>1, <3>2
  <2>2. RowAsOf(obs', s, p, day) = RowAsOf(obs', s, p, day - 1)
    BY <2>1 DEF RowAsOf
  <2> QED BY <1>8, <2>2
<1> QED BY <1>7, <1>8, <1>9, <1>10

\* The observation of a plain import that is written for a period is the member's
\* own, so its value is the one the member observed.
LEMMA PlainRowIsObserved ==
  ASSUME Inductive, NEW r \in Runs, pc[r] \in Open, PlainImport(r),
         NEW m \in active[r], NEW i \in DOMAIN payload[r][m].rows,
         NEW k \in Keys, written[r][k] # NoRow,
         k[1] = SeriesOf[m], k[2] = payload[r][m].rows[i].period
  PROVE  written[r][k].value = payload[r][m].rows[i].value
<1>1. PICK n \in Members : draft[r][n] # NoLog /\ ExtractedBy(k, written[r][k], r, n)
  BY DEF Inductive, RunInv, Attributed
<1>2. n = m
  BY <1>1, DraftedAreActive DEF ExtractedBy, PlainImport
<1>3. PICK j \in DOMAIN payload[r][m].rows :
        /\ payload[r][m].rows[j].period = k[2]
        /\ payload[r][m].rows[j].value = written[r][k].value
  BY <1>1, <1>2 DEF ExtractedBy
<1>4. i = j
  BY <1>3 DEF PlainImport, PlainSnapshot, IsInjective
<1> QED BY <1>3, <1>4

\* A commit in an orderly history keeps every day readable.
LEMMA CommitPointInTime ==
  ASSUME HistoryInductive, HistoryNext, NEW r \in Runs, Commit(r)
  PROVE  PointInTime'
<1> SUFFICES ASSUME orderly', NEW q \in Runs, pc'[q] = "committed",
                    NEW m \in Succeeded(q)', NEW o \in Reported(q, m)'
             PROVE  LET row == RowAsOf(obs', SeriesOf[m], o.period, runDate'[q])
                    IN  row # NoRow /\ row.value = o.value
  BY DEF PointInTime
<1> USE DEF HistoryInductive
<1>1. UNCHANGED <<runDate, payload, active>> /\ TypeOK
  BY CommitEffect DEF Inductive
<1>2. m \in active[q] /\ m \in Members
  BY <1>1 DEF Succeeded, TypeOK
<1>3. PICK i \in DOMAIN payload[q][m].rows : o = payload[q][m].rows[i]
  BY <1>1 DEF Reported
<1>4. SeriesOf[m] \in Series /\ o.period \in Periods
  <2>1. payload[q][m].rows \in Seq(ParsedObservations)
    BY <1>1, <1>2 DEF TypeOK, ExtractionOutcomes
  <2>2. o \in ParsedObservations
    BY <1>3, <2>1
  <2> QED BY <1>2, <2>2, SeriesOfAssumption DEF ParsedObservations
<1>5. CASE q = r
  <2>1. draft[r][m] # NoLog /\ draft[r][m].status = "success"
    BY <1>2, <1>5, CommitEffect DEF Succeeded
  <2>2. Undisturbed(r) /\ pend[r] = {}
    BY CommitEffect DEF Inductive, TypeOK
  <2>3. \/ \E v \in Vintages : written[r][<<SeriesOf[m], o.period, v>>] # NoRow
        \/ Shows(obs, SeriesOf[m], o.period, o.value)
    BY <1>2, <1>3, <1>5, <2>1, <2>2, OrderlyCommit DEF Undisturbed, Covered
  <2>4. CASE written[r][<<SeriesOf[m], o.period, runDate[r]>>] # NoRow
    <3>1. <<SeriesOf[m], o.period, runDate[r]>> \in Keys
      BY <1>4, OrderlyCommit DEF Keys
    <3>2. written[r][<<SeriesOf[m], o.period, runDate[r]>>].value = o.value
      BY <1>2, <1>3, <1>5, <2>4, <3>1, OrderlyCommit, PlainRowIsObserved
    <3> QED BY <1>1, <1>4, <1>5, <2>4, <3>2, OrderlyReads
  <2>5. CASE written[r][<<SeriesOf[m], o.period, runDate[r]>>] = NoRow
    <3>1. \A v \in Vintages : written[r][<<SeriesOf[m], o.period, v>>] = NoRow
      <4>1. \A v \in Vintages : <<SeriesOf[m], o.period, v>> \in Keys
        BY <1>4 DEF Keys
      <4> QED BY <2>5, <4>1, OrderlyCommit
    <3> QED BY <1>1, <1>4, <1>5, <2>3, <2>5, <3>1, OrderlyReads DEF Shows
  <2> QED BY <2>4, <2>5
<1>6. CASE q # r
  <2>1. pc[q] = "committed" /\ m \in Succeeded(q) /\ o \in Reported(q, m)
    BY <1>1, <1>6, CommitEffect DEF Inductive, TypeOK, Succeeded, Reported
  <2>2. runDate[q] \in Int /\ runDate[q] < runDate[r]
    BY <2>1, OrderlyCommit, RunDatesAssumption, VintagesAssumption
       DEF CommittedPlain, LaterThanAll
  <2>3. RowAsOf(obs', SeriesOf[m], o.period, runDate[q])
          = RowAsOf(obs, SeriesOf[m], o.period, runDate[q])
    BY <1>4, <2>2, OrderlyReads
  <2> QED BY <1>1, <2>1, <2>3, OrderlyCommit DEF PointInTime
<1> QED BY <1>5, <1>6

\* A commit in an orderly history stores revisions only.
LEMMA CommitOnlyRevisions ==
  ASSUME HistoryInductive, HistoryNext, NEW r \in Runs, Commit(r)
  PROVE  OnlyRevisionsStored'
<1> SUFFICES ASSUME orderly', NEW s \in Series, NEW p \in Periods,
                    NEW v \in StoredVintages(obs', s, p),
                    RowAsOf(obs', s, p, v - 1) # NoRow
             PROVE  RowAsOf(obs', s, p, v - 1).value # obs'[<<s, p, v>>].value
  BY DEF OnlyRevisionsStored
<1> USE DEF HistoryInductive
<1>1. v \in Vintages /\ v \in Int /\ <<s, p, v>> \in Keys /\ runDate[r] \in Int
      /\ obs'[<<s, p, v>>] # NoRow
  BY VintagesAssumption, OrderlyCommit DEF StoredVintages, Keys
<1>2. CASE written[r][<<s, p, v>>] # NoRow
  <2>1. v = runDate[r] /\ obs'[<<s, p, v>>] = written[r][<<s, p, v>>]
    BY <1>1, <1>2, OrderlyCommit, CommitEffect
  <2>2. RowAsOf(obs', s, p, v - 1) = LatestRow(obs, s, p)
    BY <2>1, OrderlyReads
  <2>3. ~Shows(obs, s, p, written[r][<<s, p, v>>].value)
    BY <1>1, <1>2, OrderlyCommit DEF Undisturbed, Revises
  <2> QED BY <2>1, <2>2, <2>3 DEF Shows
<1>3. CASE written[r][<<s, p, v>>] = NoRow
  <2>1. obs'[<<s, p, v>>] = obs[<<s, p, v>>] /\ v < runDate[r]
    BY <1>1, <1>3, OrderlyCommit, CommitEffect
  <2>2. v - 1 \in Int /\ v - 1 < runDate[r]
    BY <1>1, <2>1
  <2>3. RowAsOf(obs', s, p, v - 1) = RowAsOf(obs, s, p, v - 1)
    BY <2>2, OrderlyReads
  <2> QED BY <1>1, <2>1, <2>3, OrderlyCommit DEF OnlyRevisionsStored, StoredVintages
<1> QED BY <1>2, <1>3

-----------------------------------------------------------------------------
(* The inductive invariant of the history *)

\* Nothing is stored or committed at first.
LEMMA InitHistory == HistoryInit => HistoryInductive
<1> SUFFICES ASSUME HistoryInit PROVE HistoryInductive
  OBVIOUS
<1> USE DEF HistoryInit
<1>1. FiniteHistory
  <2>1. \A s \in Series, p \in Periods : StoredVintages(EmptyTable, s, p) = {}
    BY DEF StoredVintages, EmptyTable, Keys
  <2> QED BY <2>1, FS_EmptySet DEF Init, FiniteHistory
<1>2. \A r \in Runs : Undisturbed(r)
  BY DEF Init, Undisturbed, Open
<1>3. CommittedPlain /\ PointInTime
  BY DEF Init, CommittedPlain, PointInTime
<1>4. OnlyRevisionsStored
  BY DEF Init, OnlyRevisionsStored, StoredVintages, EmptyTable, Keys
<1> QED BY <1>1, <1>2, <1>3, <1>4, InitInductive DEF HistoryInductive

\* While nobody commits, what committed runs promise stays as it is.
LEMMA HistoryFrame ==
  ASSUME HistoryInductive, NobodyCommits, UNCHANGED committed, orderly' => orderly
  PROVE  CommittedPlain' /\ PointInTime' /\ OnlyRevisionsStored'
<1> USE DEF HistoryInductive, committed, NobodyCommits
<1>1. CommittedPlain'
  <2>1. \A r \in Runs : pc[r] = "committed" => (PlainImport(r)' <=> PlainImport(r))
    BY PlainImportFrame
  <2> QED BY <2>1 DEF CommittedPlain
<1>2. PointInTime'
  BY DEF PointInTime, Succeeded, Reported
<1>3. OnlyRevisionsStored'
  BY DEF OnlyRevisionsStored
<1> QED BY <1>1, <1>2, <1>3

\* The invariant of the history is inductive.
LEMMA StepHistory ==
  ASSUME HistoryInductive, [HistoryNext]_historyVars PROVE HistoryInductive'
<1> USE DEF HistoryInductive
<1>1. [Next]_vars
  BY DEF HistoryNext, historyVars
<1>2. Inductive' /\ FiniteHistory'
  BY <1>1, StepInductive, StepFiniteHistory
<1>3. CASE UNCHANGED historyVars
  <2>1. UNCHANGED vars /\ contended' = contended /\ orderly' = orderly
    BY <1>3 DEF historyVars
  <2>2. \A r \in Runs : Untouched(r) /\ loaded'[r] = loaded[r]
    BY <2>1 DEF vars, arguments, private, Untouched
  <2>3. obs' = obs /\ NobodyCommits /\ UNCHANGED committed
    BY <2>1 DEF vars, committed, arguments, NobodyCommits
  <2> QED BY <1>2, <2>1, <2>2, <2>3, UndisturbedFrame, HistoryFrame
<1>4. ASSUME HistoryNext, NEW r \in Runs, Start(r) \/ Work(r) \/ Crash(r)
      PROVE  HistoryInductive'
  <2>1. contended \subseteq contended' /\ (orderly' => orderly)
    BY <1>4 DEF HistoryNext
  <2>2. Undisturbed(r)'
    BY <1>4, <2>1, UndisturbedStep
  <2>3. ASSUME NEW q \in Runs, q # r PROVE Undisturbed(q)'
    <3>1. Untouched(q) /\ loaded'[q] = loaded[q]
      BY <1>4, <2>3, StepFrame, LoadedFrame
    <3>2. CASE Commit(r)
      <4>1. CommitsNow(r)
        BY <3>2, CommitEffect DEF CommitsNow, Inductive, TypeOK
      <4>2. pc[q] \in Open => q \in contended'
        BY <1>4, <2>3, <4>1 DEF HistoryNext
      <4> QED BY <2>1, <3>1, <4>2, UndisturbedFrame
    <3>3. CASE ~Commit(r)
      BY <1>4, <2>1, <3>1, <3>3, StepCommitted, UndisturbedFrame DEF committed
    <3> QED BY <3>2, <3>3
  <2>4. CASE Commit(r)
    <3>1. CommittedPlain'
      <4> SUFFICES ASSUME NEW q \in Runs, pc'[q] = "committed"
                   PROVE  runDate'[q] \in RunDates /\ (orderly' => PlainImport(q)')
        BY DEF CommittedPlain
      <4>1. PlainImport(q)' <=> PlainImport(q)
        BY <2>4, CommitEffect, PlainImportFrame
      <4>2. CASE q = r
        <5>1. runDate[r] \in RunDates
          BY <2>4, CommitEffect DEF Inductive, TypeOK, Open
        <5> QED BY <1>4, <2>4, <4>1, <4>2, <5>1, CommitEffect, OrderlyCommit
      <4>3. CASE q # r
        <5>1. pc[q] = "committed"
          BY <2>4, <4>3, CommitEffect DEF Inductive, TypeOK
        <5> QED BY <2>1, <2>4, <4>1, <5>1, CommitEffect DEF CommittedPlain
      <4> QED BY <4>2, <4>3
    <3> QED BY <1>2, <1>4, <2>2, <2>3, <2>4, <3>1, CommitPointInTime, CommitOnlyRevisions
  <2>5. CASE ~Commit(r)
    BY <1>2, <1>4, <2>1, <2>2, <2>3, <2>5, StepCommitted, HistoryFrame
  <2> QED BY <2>4, <2>5
<1> QED BY <1>3, <1>4 DEF HistoryNext, Next

\* What runs hold while nobody else commits, and what orderly commits add, in
\* every reachable state.
THEOREM HistoryCorrect == HistorySpec => []HistoryInductive
<1> QED BY InitHistory, StepHistory, PTL DEF HistorySpec

\* In an orderly history the day of any committed run reads back, for every member
\* that succeeded, exactly what that member observed.
THEOREM HistoryReadsBack == HistorySpec => []PointInTime
<1>1. HistoryInductive => PointInTime
  BY DEF HistoryInductive
<1> QED BY <1>1, HistoryCorrect, PTL

\* In an orderly history every stored vintage differs from the one before it.
THEOREM HistoryStoresRevisions == HistorySpec => []OnlyRevisionsStored
<1>1. HistoryInductive => OnlyRevisionsStored
  BY DEF HistoryInductive
<1> QED BY <1>1, HistoryCorrect, PTL

\* Nothing that is stored is rewritten in an orderly history.
THEOREM HistoryAppends == HistorySpec => RevisionsAppend
<1>1. ASSUME HistoryInductive, [HistoryNext]_historyVars, orderly',
             NEW k \in Keys, obs[k] # NoRow
      PROVE  obs'[k] = obs[k]
  <2>1. CASE UNCHANGED historyVars
    BY <2>1 DEF historyVars, vars, committed
  <2>2. ASSUME HistoryNext, NEW r \in Runs, Commit(r) PROVE obs'[k] = obs[k]
    <3>1. k[3] < runDate[r] /\ k[3] \in Int /\ runDate[r] \in Int
          /\ (written[r][k] # NoRow => k[3] = runDate[r])
      BY <1>1, <2>2, OrderlyCommit, VintagesAssumption DEF Keys
    <3>2. written[r][k] = NoRow
      BY <3>1
    <3> QED BY <2>2, <3>2, CommitEffect, <1>1 DEF HistoryInductive
  <2>3. ASSUME HistoryNext, NEW r \in Runs, Start(r) \/ Work(r) \/ Crash(r), ~Commit(r)
        PROVE  obs'[k] = obs[k]
    BY <1>1, <2>3, StepCommitted DEF HistoryInductive, committed
  <2> QED BY <1>1, <2>1, <2>2, <2>3 DEF HistoryNext, Next
<1>2. HistoryInductive /\ [HistoryNext]_historyVars =>
        [orderly' => \A k \in Keys : obs[k] # NoRow => obs'[k] = obs[k]]_historyVars
  BY <1>1
<1> QED BY <1>2, HistoryCorrect, PTL DEF HistorySpec, RevisionsAppend

\* What a run that nobody overlapped committed is what latest_observations shows.
LEMMA CommittedIsLatest ==
  ASSUME HistoryInductive, [HistoryNext]_historyVars, NEW r \in Runs, CommitsNow(r),
         r \notin contended, NEW m \in Succeeded(r)',
         \A n \in Succeeded(r)' : SeriesOf[n] = SeriesOf[m] => PlainSnapshot(r, n),
         \A p \in Periods : \A v \in StoredVintages(obs, SeriesOf[m], p) : v <= runDate[r],
         NEW o \in Reported(r, m)
  PROVE  \E n \in Succeeded(r)' : \E w \in Reported(r, n) :
           /\ SeriesOf[n] = SeriesOf[m]
           /\ w.period = o.period
           /\ LatestRow(obs', SeriesOf[m], o.period).value = w.value
<1> USE DEF HistoryInductive
<1>1. Commit(r) /\ TypeOK /\ pc[r] \in Open
  <2>1. [Next]_vars
    BY DEF HistoryNext, historyVars
  <2>2. Commit(r)
    BY <2>1, CommitsNowCommits
  <2> QED BY <2>2, CommitEffect DEF Inductive, Open
<1>2. \A n \in Members : n \in Succeeded(r)' <=>
        draft[r][n] # NoLog /\ draft[r][n].status = "success"
  BY <1>1, CommitEffect, DraftedAreActive DEF Succeeded
<1>3. m \in Members /\ draft[r][m] # NoLog /\ draft[r][m].status = "success"
  BY <1>1, <1>2, CommitEffect DEF Succeeded, TypeOK
<1>4. PICK i \in DOMAIN payload[r][m].rows : o = payload[r][m].rows[i]
  BY DEF Reported
<1> DEFINE s == SeriesOf[m]
           day == runDate[r]
<1>5. s \in Series /\ o.period \in Periods /\ day \in Vintages
  <2>1. payload[r][m].rows \in Seq(ParsedObservations)
    BY <1>1, <1>3 DEF TypeOK, ExtractionOutcomes
  <2>2. o \in ParsedObservations
    BY <1>4, <2>1
  <2> QED BY <1>1, <1>3, <2>2, SeriesOfAssumption, RunDatesAssumption
          DEF ParsedObservations, TypeOK
<1>6. \A v \in Vintages : <<s, o.period, v>> \in Keys
  BY <1>5 DEF Keys
<1>7. ASSUME NEW v \in Vintages, written[r][<<s, o.period, v>>] # NoRow
      PROVE  /\ v = day
             /\ \E n \in Succeeded(r)' : \E w \in Reported(r, n) :
                  /\ SeriesOf[n] = s
                  /\ w.period = o.period
                  /\ w.value = written[r][<<s, o.period, v>>].value
  <2> DEFINE k == <<s, o.period, v>>
  <2>1. PICK n \in Members : /\ draft[r][n] # NoLog /\ draft[r][n].status = "success"
                             /\ ExtractedBy(k, written[r][k], r, n)
    BY <1>6, <1>7 DEF Inductive, RunInv, Attributed
  <2>2. PICK j \in DOMAIN payload[r][n].rows :
          /\ payload[r][n].rows[j].period = o.period
          /\ VintageOf(r, payload[r][n].rows[j]) = v
          /\ payload[r][n].rows[j].value = written[r][k].value
    BY <2>1 DEF ExtractedBy
  <2>3. n \in Succeeded(r)' /\ SeriesOf[n] = s
    BY <1>2, <2>1 DEF ExtractedBy
  <2>4. v = day
    BY <2>2, <2>3 DEF PlainSnapshot, VintageOf
  <2>5. payload[r][n].rows[j] \in Reported(r, n)
    BY DEF Reported
  <2> QED BY <2>2, <2>3, <2>4, <2>5
<1>8. CASE \E v \in Vintages : written[r][<<s, o.period, v>>] # NoRow
  <2>1. written[r][<<s, o.period, day>>] # NoRow
    BY <1>7, <1>8
  <2>2. obs'[<<s, o.period, day>>] = written[r][<<s, o.period, day>>]
    BY <1>1, <1>5, <1>6, <2>1, CommitEffect
  <2> DEFINE vs == StoredVintages(obs', s, o.period)
  <2>3. day \in vs /\ vs \subseteq Int
    BY <1>5, <2>1, <2>2, VintagesAssumption DEF StoredVintages
  <2>4. ASSUME NEW v \in vs PROVE v <= day
    <3>1. v \in Vintages /\ obs'[<<s, o.period, v>>] # NoRow
      BY DEF StoredVintages
    <3>2. CASE written[r][<<s, o.period, v>>] # NoRow
      BY <1>5, <1>7, <3>1, <3>2, VintagesAssumption
    <3>3. CASE written[r][<<s, o.period, v>>] = NoRow
      <4>1. obs[<<s, o.period, v>>] # NoRow
        BY <1>1, <1>6, <3>1, <3>3, CommitEffect
      <4> QED BY <1>5, <3>1, <4>1 DEF StoredVintages
    <3> QED BY <3>2, <3>3
  <2>5. Newest(vs) = day
    <3> HIDE DEF vs, day
    <3> QED BY <2>3, <2>4, NewestIs
  <2>6. LatestRow(obs', s, o.period) = written[r][<<s, o.period, day>>]
    BY <2>2, <2>3, <2>5 DEF LatestRow
  <2> QED BY <1>5, <1>7, <2>1, <2>6
<1>9. CASE \A v \in Vintages : written[r][<<s, o.period, v>>] = NoRow
  <2>1. Undisturbed(r) /\ pend[r] = {}
    BY <1>1, CommitEffect DEF Inductive, TypeOK
  <2>2. Shows(obs, s, o.period, o.value)
    BY <1>1, <1>3, <1>4, <1>9, <2>1 DEF Undisturbed, Covered
  <2>3. \A v \in Vintages : obs'[<<s, o.period, v>>] = obs[<<s, o.period, v>>]
    BY <1>1, <1>6, <1>9, CommitEffect
  <2>4. LatestRow(obs', s, o.period) = LatestRow(obs, s, o.period)
    BY <1>5, <2>3, SameRowsSameLatest DEF FiniteHistory
  <2> QED BY <2>2, <2>4 DEF Shows
<1> QED BY <1>8, <1>9

\* A run no other commit overlapped, dated no earlier than what is stored, is what
\* latest_observations shows once it commits, for any number of members and runs.
THEOREM UncontendedIsLatest == HistorySpec => UncontendedRunIsLatest
<1>1. ASSUME HistoryInductive, [HistoryNext]_historyVars, NEW r \in Runs, CommitsNow(r),
             r \notin contended
      PROVE  ReadersSee(r)
  <2> SUFFICES ASSUME NEW m \in Succeeded(r)',
                      \A n \in Succeeded(r)' : SeriesOf[n] = SeriesOf[m] => PlainSnapshot(r, n),
                      \A p \in Periods : \A v \in StoredVintages(obs, SeriesOf[m], p) :
                        v <= runDate[r],
                      NEW o \in Reported(r, m)
               PROVE  \E n \in Succeeded(r)' : \E w \in Reported(r, n) :
                        /\ SeriesOf[n] = SeriesOf[m]
                        /\ w.period = o.period
                        /\ LatestRow(obs', SeriesOf[m], o.period).value = w.value
    BY DEF ReadersSee
  <2> QED BY <1>1, CommittedIsLatest
<1>2. HistoryInductive /\ [HistoryNext]_historyVars =>
        [\A r \in Runs : CommitsNow(r) /\ r \notin contended => ReadersSee(r)]_historyVars
  BY <1>1
<1> QED BY <1>2, HistoryCorrect, PTL DEF HistorySpec, UncontendedRunIsLatest

-----------------------------------------------------------------------------
(* Counts *)

\* What a member can report of its rows, and the members that did.
Counted == {"fetched", "inserted", "skipped"}
Attempted(r) == active[r] \ left[r]

\* The tally of an open run is the total of its drafts, and the drafted run log,
\* once it is final, is that tally.
Tallied(r) ==
  /\ pc[r] \in Open => \A f \in Counted :
       /\ IsFiniteSet(Units([m \in Attempted(r) |-> draft[r][m][f]]))
       /\ tally[r][f] = Total([m \in Attempted(r) |-> draft[r][m][f]])
  /\ pc[r] = "finished" => \A f \in Counted : draftRun[r][f] = tally[r][f]

\* No other active member of the run feeds the series.
AloneIn(r, m) == \A n \in active[r] \ {m} : SeriesOf[n] # SeriesOf[m]

\* What a run has written for a member, and what it is about to.
WrittenFor(r, m) == {k \in Keys : written[r][k] # NoRow /\ written[r][k].log = <<r, m>>}
PendingFor(r, m) == {x \in pend[r] : x[1] = m}

\* A draft counts as inserted what is written and what is pending, each under a
\* key of its own.
InsertedIsWritten(r, m) ==
  /\ IsFiniteSet(WrittenFor(r, m)) /\ IsFiniteSet(PendingFor(r, m))
  /\ draft[r][m].inserted = Cardinality(WrittenFor(r, m)) + Cardinality(PendingFor(r, m))
  /\ \A x \in PendingFor(r, m) : KeyOf(r, x) \notin WrittenFor(r, m)
Inserting(r) ==
  pc[r] \in Open => \A m \in Attempted(r) :
    draft[r][m].status = "success" /\ AloneIn(r, m) => InsertedIsWritten(r, m)

CountInv(r) == Tallied(r) /\ Inserting(r)

\* One more summand.
LEMMA TotalAdds ==
  ASSUME NEW S, NEW c, NEW d, NEW n, NEW k \in Nat,
         DOMAIN c = S, n \notin S, DOMAIN d = S \cup {n},
         \A m \in S : d[m] = c[m], d[n] = k, IsFiniteSet(Units(c))
  PROVE  IsFiniteSet(Units(d)) /\ Total(d) = Total(c) + k
<1> DEFINE more == {n} \X (1..k)
<1>1. Units(d) = Units(c) \cup more
  BY DEF Units
<1>2. Units(c) \cap more = {}
  BY DEF Units
<1>3. IsFiniteSet(more) /\ Cardinality(more) = k
  <2>1. IsFiniteSet({n}) /\ Cardinality({n}) = 1
    BY FS_Singleton
  <2>2. IsFiniteSet(1..k) /\ Cardinality(1..k) = k
    BY FS_Interval
  <2>3. IsFiniteSet(more) /\ Cardinality(more) = Cardinality({n}) * Cardinality(1..k)
    BY <2>1, <2>2, FS_Product
  <2> QED BY <2>1, <2>2, <2>3
<1> HIDE DEF more
<1>4. Cardinality(Units(c)) \in Nat
  BY FS_CardinalityType
<1>5. Cardinality(Units(c) \cap more) = 0
  BY <1>2, FS_EmptySet
<1>6. /\ IsFiniteSet(Units(c) \cup more)
      /\ Cardinality(Units(c) \cup more)
           = Cardinality(Units(c)) + Cardinality(more) - Cardinality(Units(c) \cap more)
  BY <1>3, FS_Union
<1> QED BY <1>1, <1>3, <1>4, <1>5, <1>6 DEF Total

\* A draft is added to the tally.
LEMMA TallyAdds ==
  ASSUME Inductive, NEW r \in Runs, Tallied(r), pc[r] = "running", pc' = pc,
         NEW m \in Members, m \in left[r], left'[r] = left[r] \ {m}, active' = active,
         NEW log \in MemberLogs, draft'[r] = [draft[r] EXCEPT ![m] = log],
         \A f \in Counted : tally'[r][f] = tally[r][f] + log[f]
  PROVE  Tallied(r)'
<1> SUFFICES ASSUME NEW f \in Counted
             PROVE  LET sum == [n \in Attempted(r)' |-> draft'[r][n][f]]
                    IN  IsFiniteSet(Units(sum)) /\ tally'[r][f] = Total(sum)
  BY DEF Tallied
<1> DEFINE c == [n \in Attempted(r) |-> draft[r][n][f]]
           d == [n \in Attempted(r)' |-> draft'[r][n][f]]
<1>1. left[r] \subseteq active[r]
  BY DEF Inductive, RunInv, Accounted, Open
<1>2. Attempted(r)' = Attempted(r) \cup {m} /\ m \notin Attempted(r) /\ Attempted(r) \subseteq Members
  BY <1>1 DEF Attempted, Inductive, TypeOK
<1>3. DOMAIN c = Attempted(r) /\ DOMAIN d = Attempted(r) \cup {m}
  BY <1>2
<1>4. \A n \in Attempted(r) : d[n] = c[n]
  BY <1>2 DEF Inductive, TypeOK
<1>5. d[m] = log[f] /\ log[f] \in Nat
  BY <1>2 DEF Inductive, TypeOK, MemberLogs, Counted
<1>6. IsFiniteSet(Units(c)) /\ tally[r][f] = Total(c)
  BY DEF Tallied, Open
<1> HIDE DEF c, d
<1>7. IsFiniteSet(Units(d)) /\ Total(d) = Total(c) + log[f]
  BY <1>2, <1>3, <1>4, <1>5, <1>6, TotalAdds
<1> QED BY <1>6, <1>7 DEF d

\* The tally is kept by the steps of the run.
LEMMA TalliedStep ==
  ASSUME Inductive, NEW r \in Runs, Tallied(r), Start(r) \/ Work(r) \/ Crash(r)
  PROVE  Tallied(r)'
<1> USE DEF Inductive, TypeOK
<1>1. ASSUME NEW d \in RunDates, NEW p \in [Members -> Outcomes], NEW a \in ActiveSets,
             Begin(r, d, p, a)
      PROVE  Tallied(r)'
  <2>1. /\ pc'[r] = "running" /\ active'[r] = a /\ left'[r] = a
        /\ tally'[r] = ZeroTally
    BY <1>1 DEF Begin, RunInv, AtRest, Open
  <2>2. \A f \in Counted : Units([m \in Attempted(r) |-> draft[r][m][f]])' = {}
    BY <2>1 DEF Units, Attempted
  <2>3. \A f \in Counted : tally'[r][f] = 0
    BY <2>1 DEF ZeroTally, Counted
  <2> QED BY <2>1, <2>2, <2>3, FS_EmptySet DEF Tallied, Total
<1>2. CASE RejectFeed(r)
  BY <1>2 DEF RejectFeed, Tallied, Open
<1>3. ASSUME NEW m \in Members, RecordFailedMember(r, m) PROVE Tallied(r)'
  <2>1. /\ pc[r] = "running" /\ pc' = pc /\ m \in left[r] /\ left'[r] = left[r] \ {m}
        /\ active' = active /\ draft'[r] = [draft[r] EXCEPT ![m] = FailedMember]
    BY <1>3 DEF RecordFailedMember, AtMember, arguments
  <2>2. FailedMember \in MemberLogs /\ \A f \in Counted : FailedMember[f] = 0
    BY DEF FailedMember, MemberLogs, Statuses, Counted
  <2>3. \A f \in Counted : tally'[r][f] = tally[r][f] /\ tally[r][f] \in Nat
    BY <1>3 DEF RecordFailedMember, Tallies, Counted
  <2>4. \A f \in Counted : tally'[r][f] = tally[r][f] + FailedMember[f]
    BY <2>2, <2>3
  <2> QED BY <2>1, <2>2, <2>4, TallyAdds
<1>4. ASSUME NEW m \in Members, ReadMember(r, m) PROVE Tallied(r)'
  <2>1. /\ pc[r] = "running" /\ pc' = pc /\ m \in left[r] /\ left'[r] = left[r] \ {m}
        /\ active' = active /\ draft'[r] = [draft[r] EXCEPT ![m] = SuccessLog(r, m)]
    BY <1>4 DEF ReadMember, AtMember, arguments
  <2>2. SuccessLog(r, m) \in MemberLogs
    BY SuccessLogType
  <2>3. \A f \in Counted : tally'[r][f] = tally[r][f] + SuccessLog(r, m)[f]
    BY <1>4 DEF ReadMember, Tallies, Counted
  <2> QED BY <2>1, <2>2, <2>3, TallyAdds
<1>5. ASSUME NEW x \in pend[r], UpsertRow(r, x) PROVE Tallied(r)'
  BY <1>5 DEF UpsertRow, arguments, Tallied, Attempted
<1>6. CASE Finish(r)
  <2>1. /\ pc[r] = "running" /\ pc'[r] = "finished"
        /\ UNCHANGED <<left, active, draft, tally>>
        /\ draftRun'[r] = [status |-> StatusOf(r), fetched |-> tally[r].fetched,
                           inserted |-> tally[r].inserted,
                           skipped |-> tally[r].skipped, finished |-> TRUE]
    BY <1>6 DEF Finish, arguments
  <2>2. \A f \in Counted : draftRun'[r][f] = tally'[r][f]
    BY <2>1 DEF Counted
  <2> QED BY <2>1, <2>2 DEF Tallied, Attempted, Open
<1>7. CASE Commit(r) \/ Raise(r) \/ BreakDeadlock(r) \/ Crash(r)
  BY <1>7 DEF Commit, Raise, BreakDeadlock, Crash, EndTransaction, Tallied, Open
<1> QED BY <1>1, <1>2, <1>3, <1>4, <1>5, <1>6, <1>7 DEF Start, Work

\* Of a member whose draft is not there, nothing is written.
LEMMA NothingWrittenFor ==
  ASSUME Inductive, NEW r \in Runs, NEW m \in Members, draft[r][m] = NoLog
  PROVE  WrittenFor(r, m) = {}
BY DEF WrittenFor, Inductive, RunInv, Attributed

\* A member that was read has all its rows pending, and no other has any.
LEMMA ReadInserting ==
  ASSUME Inductive, NEW r \in Runs, Inserting(r), NEW m \in Members, ReadMember(r, m)
  PROVE  Inserting(r)'
<1> USE DEF Inductive, TypeOK
<1>1. /\ pc[r] = "running" /\ pc' = pc /\ pend[r] = {}
      /\ pend'[r] = {m} \X RowsToWrite(r, m)
      /\ m \in left[r] /\ left'[r] = left[r] \ {m}
      /\ UNCHANGED <<written, active, payload, runDate>>
      /\ draft'[r] = [draft[r] EXCEPT ![m] = SuccessLog(r, m)]
  BY DEF ReadMember, AtMember, arguments
<1>2. left[r] \subseteq active[r] /\ draft[r][m] = NoLog
  BY <1>1 DEF RunInv, Accounted, Open
<1>3. Attempted(r)' = Attempted(r) \cup {m} /\ m \notin Attempted(r) /\ Attempted(r) \subseteq Members
  BY <1>1, <1>2 DEF Attempted
<1>4. \A n \in Members : WrittenFor(r, n)' = WrittenFor(r, n)
  BY <1>1 DEF WrittenFor
<1> SUFFICES ASSUME NEW n \in Attempted(r)', draft'[r][n].status = "success", AloneIn(r, n)'
             PROVE  InsertedIsWritten(r, n)'
  BY DEF Inserting
<1>5. CASE n = m
  <2> DEFINE rows == RowsToWrite(r, m)
  <2>1. WrittenFor(r, m)' = {}
    BY <1>2, <1>4, NothingWrittenFor
  <2>2. PendingFor(r, m)' = {m} \X rows
    BY <1>1 DEF PendingFor
  <2>3. IsFiniteSet(rows) /\ Cardinality(rows) \in Nat
    <3>1. rows \subseteq DOMAIN payload[r][m].rows /\ payload[r][m].rows \in Seq(ParsedObservations)
      BY RowsToWriteBounded DEF ExtractionOutcomes
    <3>2. IsFiniteSet(DOMAIN payload[r][m].rows)
      <4>1. DOMAIN payload[r][m].rows = 1..Len(payload[r][m].rows) /\ Len(payload[r][m].rows) \in Nat
        BY <3>1
      <4> QED BY <4>1, FS_Interval
    <3> QED BY <3>1, <3>2, FS_Subset, FS_CardinalityType
  <2>4. draft'[r][m].inserted = Cardinality(rows)
    BY <1>1 DEF SuccessLog
  <2> HIDE DEF rows
  <2>5. IsFiniteSet({m} \X rows) /\ Cardinality({m} \X rows) = Cardinality(rows)
    <3>1. IsFiniteSet({m}) /\ Cardinality({m}) = 1
      BY FS_Singleton
    <3>2. IsFiniteSet({m} \X rows) /\ Cardinality({m} \X rows) = Cardinality({m}) * Cardinality(rows)
      BY <2>3, <3>1, FS_Product
    <3> QED BY <2>3, <3>1, <3>2
  <2>6. IsFiniteSet({}) /\ Cardinality({}) = 0
    BY FS_EmptySet
  <2>7. draft'[r][m].inserted = Cardinality({}) + Cardinality({m} \X rows)
    BY <2>3, <2>4, <2>5, <2>6
  <2> QED BY <1>5, <2>1, <2>2, <2>5, <2>6, <2>7 DEF InsertedIsWritten
<1>6. CASE n # m
  <2>1. n \in Attempted(r) /\ draft'[r][n] = draft[r][n] /\ AloneIn(r, n)
    BY <1>1, <1>3, <1>6 DEF AloneIn
  <2>2. InsertedIsWritten(r, n)
    BY <1>1, <2>1 DEF Inserting, Open
  <2>3. PendingFor(r, n) = {} /\ PendingFor(r, n)' = {}
    BY <1>1, <1>6 DEF PendingFor
  <2>4. WrittenFor(r, n)' = WrittenFor(r, n)
    BY <1>3, <1>4, <2>1
  <2> QED BY <2>1, <2>2, <2>3, <2>4 DEF InsertedIsWritten
<1> QED BY <1>5, <1>6

\* What is written and pending for a member depends on a few variables only.
LEMMA InsertedFrame ==
  ASSUME NEW r \in Runs, NEW m, InsertedIsWritten(r, m),
         pend'[r] = pend[r], written'[r] = written[r], payload'[r] = payload[r],
         runDate'[r] = runDate[r], draft'[r][m] = draft[r][m]
  PROVE  InsertedIsWritten(r, m)'
<1>1. WrittenFor(r, m)' = WrittenFor(r, m) /\ PendingFor(r, m)' = PendingFor(r, m)
  BY DEF WrittenFor, PendingFor
<1>2. \A x : KeyOf(r, x)' = KeyOf(r, x)
  BY DEF KeyOf, Observed, VintageOf
<1> QED BY <1>1, <1>2 DEF InsertedIsWritten

\* A row that was pending is written under a key that was not: the statement
\* proposes no key twice, and another member of the run writes another series.
LEMMA UpsertInserting ==
  ASSUME Inductive, NEW r \in Runs, Inserting(r), NEW x \in pend[r], UpsertRow(r, x)
  PROVE  Inserting(r)'
<1> USE DEF Inductive, TypeOK
<1>1. /\ pc[r] = "running" /\ pc' = pc /\ ~ProposesTwice(r)
      /\ pend'[r] = pend[r] \ {x}
      /\ written'[r] = [written[r] EXCEPT ![KeyOf(r, x)] = RowOf(r, x)]
      /\ UNCHANGED <<left, active, draft, payload, runDate>>
  BY DEF UpsertRow, IsNextRow, arguments
<1>2. x[1] \in Members /\ KeyOf(r, x) \in Keys /\ RowOf(r, x) \in Rows /\ written[r] \in Tables
  BY <1>1, ProposedRowType DEF Open
<1>3. x[1] \in active[r]
  BY <1>1, <1>2 DEF RunInv, Accounted, Attributed, Open
<1>4. \A y : KeyOf(r, y)' = KeyOf(r, y)
  BY <1>1 DEF KeyOf, Observed, VintageOf
<1> SUFFICES ASSUME NEW m \in Attempted(r), draft[r][m].status = "success", AloneIn(r, m)
             PROVE  InsertedIsWritten(r, m)'
  BY <1>1 DEF Inserting, Attempted, AloneIn
<1> DEFINE k == KeyOf(r, x)
           W == WrittenFor(r, m)
           P == PendingFor(r, m)
<1>5. /\ IsFiniteSet(W) /\ IsFiniteSet(P)
      /\ draft[r][m].inserted = Cardinality(W) + Cardinality(P)
      /\ \A y \in P : KeyOf(r, y) \notin W
  BY <1>1 DEF Inserting, InsertedIsWritten, Open
<1>6. written'[r][k].log = <<r, x[1]>> /\ written'[r][k] # NoRow
  <2>1. written'[r][k] = RowOf(r, x)
    BY <1>1, <1>2 DEF Tables
  <2>2. RowOf(r, x).log = <<r, x[1]>>
    BY DEF RowOf
  <2>3. RowOf(r, x) # NoRow
    BY <1>2, NoRowAssumption
  <2> QED BY ONLY <2>1, <2>2, <2>3
<1>7. \A j \in Keys : j # k => written'[r][j] = written[r][j]
  BY <1>1, <1>2 DEF Tables
<1>8. CASE x[1] = m
  <2>1. WrittenFor(r, m)' = W \cup {k}
    BY <1>2, <1>6, <1>7, <1>8 DEF WrittenFor
  <2>2. PendingFor(r, m)' = P \ {x} /\ x \in P
    BY <1>1, <1>8 DEF PendingFor
  <2>3. k \notin W
    BY <1>5, <2>2
  <2>4. \A y \in P \ {x} : KeyOf(r, y) # k
    BY <1>1 DEF ProposesTwice, PendingFor
  <2>5. Cardinality(W) \in Nat /\ Cardinality(P) \in Nat
    BY <1>5, FS_CardinalityType
  <2> HIDE DEF k, W, P
  <2>6. IsFiniteSet(W \cup {k}) /\ Cardinality(W \cup {k}) = Cardinality(W) + 1
    BY <1>5, <2>3, FS_AddElement
  <2>7. IsFiniteSet(P \ {x}) /\ Cardinality(P \ {x}) = Cardinality(P) - 1
    BY <1>5, <2>2, FS_RemoveElement
  <2>8. draft'[r][m].inserted = Cardinality(W \cup {k}) + Cardinality(P \ {x})
    BY <1>1, <1>5, <2>5, <2>6, <2>7
  <2>9. \A y \in P \ {x} : KeyOf(r, y)' \notin W \cup {k}
    BY <1>4, <1>5, <2>4
  <2> QED BY <2>1, <2>2, <2>6, <2>7, <2>8, <2>9 DEF InsertedIsWritten
<1>9. CASE x[1] # m
  <2>1. SeriesOf[x[1]] # SeriesOf[m] /\ k[1] = SeriesOf[x[1]]
    BY <1>3, <1>9 DEF AloneIn, KeyOf
  <2>2. k \notin W
    <3> SUFFICES ASSUME k \in W PROVE FALSE
      OBVIOUS
    <3>1. written[r][k] # NoRow /\ written[r][k].log = <<r, m>>
      BY DEF WrittenFor
    <3>2. PICK n \in Members : written[r][k].log = <<r, n>> /\ ExtractedBy(k, written[r][k], r, n)
      BY <1>2, <3>1 DEF RunInv, Attributed
    <3>3. n = m
      BY <3>1, <3>2
    <3> QED BY <2>1, <3>2, <3>3 DEF ExtractedBy
  <2>3. WrittenFor(r, m)' = W
    <3>1. \A j \in Keys : j # k => (j \in WrittenFor(r, m)' <=> j \in W)
      BY <1>7 DEF WrittenFor
    <3>2. k \notin WrittenFor(r, m)'
      <4>1. <<r, x[1]>> # <<r, m>>
        BY <1>9
      <4> QED BY <1>6, <4>1 DEF WrittenFor
    <3>3. WrittenFor(r, m)' \subseteq Keys /\ W \subseteq Keys
      BY DEF WrittenFor
    <3> HIDE DEF k, W
    <3> QED BY ONLY <2>2, <3>1, <3>2, <3>3
  <2>4. PendingFor(r, m)' = P
    BY <1>1, <1>9 DEF PendingFor
  <2> QED BY <1>1, <1>4, <1>5, <2>3, <2>4 DEF InsertedIsWritten
<1> QED BY <1>8, <1>9

\* The steps of a run keep what it counts.
LEMMA InsertingStep ==
  ASSUME Inductive, NEW r \in Runs, Inserting(r), Start(r) \/ Work(r) \/ Crash(r)
  PROVE  Inserting(r)'
<1> USE DEF Inductive, TypeOK
<1>1. ASSUME NEW d \in RunDates, NEW p \in [Members -> Outcomes], NEW a \in ActiveSets,
             Begin(r, d, p, a)
      PROVE  Inserting(r)'
  BY <1>1 DEF Begin, Inserting, Attempted
<1>2. CASE RejectFeed(r)
  BY <1>2 DEF RejectFeed, Inserting, Open
<1>3. ASSUME NEW m \in Members, RecordFailedMember(r, m) PROVE Inserting(r)'
  <2>1. /\ pc[r] = "running" /\ pc' = pc /\ m \in left[r] /\ left'[r] = left[r] \ {m}
        /\ UNCHANGED <<active, payload, runDate, pend, written>>
        /\ draft'[r] = [draft[r] EXCEPT ![m] = FailedMember]
    BY <1>3 DEF RecordFailedMember, AtMember, arguments
  <2> SUFFICES ASSUME NEW n \in Attempted(r)', draft'[r][n].status = "success", AloneIn(r, n)'
               PROVE  InsertedIsWritten(r, n)'
    BY DEF Inserting
  <2>2. n # m /\ n \in Attempted(r) /\ draft'[r][n] = draft[r][n] /\ AloneIn(r, n)
    BY <2>1 DEF FailedMember, Attempted, AloneIn
  <2>3. InsertedIsWritten(r, n)
    BY <2>1, <2>2 DEF Inserting, Open
  <2> QED BY <2>1, <2>2, <2>3, InsertedFrame
<1>4. ASSUME NEW m \in Members, ReadMember(r, m) PROVE Inserting(r)'
  BY <1>4, ReadInserting
<1>5. ASSUME NEW x \in pend[r], UpsertRow(r, x) PROVE Inserting(r)'
  BY <1>5, UpsertInserting
<1>6. CASE Finish(r)
  <2>1. /\ pc[r] = "running"
        /\ UNCHANGED <<left, active, draft, payload, runDate, pend, written>>
    BY <1>6 DEF Finish, arguments
  <2> QED BY <2>1, InsertedFrame DEF Inserting, Attempted, AloneIn, Open
<1>7. CASE Commit(r) \/ Raise(r) \/ BreakDeadlock(r) \/ Crash(r)
  BY <1>7 DEF Commit, Raise, BreakDeadlock, Crash, EndTransaction, Inserting, Open
<1> QED BY <1>1, <1>2, <1>3, <1>4, <1>5, <1>6, <1>7 DEF Start, Work

\* So do those of the others.
LEMMA CountFrame ==
  ASSUME NEW r \in Runs, CountInv(r), Untouched(r)
  PROVE  CountInv(r)'
<1> USE DEF Untouched, CountInv
<1>1. Tallied(r)'
  BY DEF Tallied, Attempted
<1>2. Inserting(r)'
  BY InsertedFrame DEF Inserting, Attempted, AloneIn
<1> QED BY <1>1, <1>2

\* Tallies and drafts count what there is, in every reachable state.
LEMMA CountCorrect == HistorySpec => [](Inductive /\ \A r \in Runs : CountInv(r))
<1> DEFINE Counting == Inductive /\ \A r \in Runs : CountInv(r)
<1>1. HistoryInit => Counting
  BY InitInductive DEF HistoryInit, Init, CountInv, Tallied, Inserting, Open
<1>2. Counting /\ [HistoryNext]_historyVars => Counting'
  <2> SUFFICES ASSUME Counting, [HistoryNext]_historyVars PROVE \A r \in Runs : CountInv(r)'
    BY StepInductive DEF HistoryNext, historyVars
  <2>1. ASSUME NEW q \in Runs, Start(q) \/ Work(q) \/ Crash(q), NEW r \in Runs PROVE CountInv(r)'
    <3>1. CASE r = q
      BY <2>1, <3>1, TalliedStep, InsertingStep DEF CountInv
    <3>2. CASE r # q
      BY <2>1, <3>2, StepFrame, CountFrame
    <3> QED BY <3>1, <3>2
  <2>2. CASE UNCHANGED historyVars
    <3>1. \A r \in Runs : Untouched(r)
      BY <2>2 DEF historyVars, vars, arguments, private, Untouched
    <3> QED BY <3>1, CountFrame
  <2> QED BY <2>1, <2>2 DEF HistoryNext, Next
<1> QED BY <1>1, <1>2, PTL DEF HistorySpec

\* The counts of a committed run are the totals of its member logs, and a member
\* that alone feeds its series has inserted exactly the rows attributed to it.
THEOREM CountsCorrect == HistorySpec => CountsAreReal
<1>1. ASSUME Inductive, NEW r \in Runs, CountInv(r), [HistoryNext]_historyVars, CommitsNow(r)
      PROVE  /\ \A f \in Counted :
                  runLog'[r][f] = Total([m \in active[r] |-> memberLog'[r][m][f]])
             /\ \A m \in Succeeded(r)' :
                  ( \A n \in active[r] \ {m} : SeriesOf[n] # SeriesOf[m] )
                  => memberLog'[r][m].inserted =
                       Cardinality({k \in Keys : obs'[k] # NoRow /\ obs'[k].log = <<r, m>>})
  <2> USE DEF Inductive, TypeOK
  <2>1. Commit(r)
    BY <1>1, CommitsNowCommits DEF HistoryNext, historyVars
  <2>2. /\ pc[r] = "finished" /\ left[r] = {} /\ pend[r] = {} /\ active' = active
        /\ runLog'[r] = draftRun[r] /\ memberLog'[r] = draft[r]
        /\ obs' = Overlay(obs, written[r])
    BY <1>1, <2>1 DEF Commit, EndTransaction, arguments, RunInv, Finalised
  <2>3. Attempted(r) = active[r]
    BY <2>2 DEF Attempted
  <2>4. \A f \in Counted : runLog'[r][f] = Total([m \in active[r] |-> memberLog'[r][m][f]])
    <3> SUFFICES ASSUME NEW f \in Counted
                 PROVE  runLog'[r][f] = Total([m \in active[r] |-> memberLog'[r][m][f]])
      OBVIOUS
    <3>1. draftRun[r][f] = tally[r][f] /\ tally[r][f] = Total([m \in Attempted(r) |-> draft[r][m][f]])
      BY <1>1, <2>2 DEF CountInv, Tallied, Open
    <3> QED BY <2>2, <2>3, <3>1
  <2>5. ASSUME NEW m \in Succeeded(r)', AloneIn(r, m)
        PROVE  memberLog'[r][m].inserted =
                 Cardinality({k \in Keys : obs'[k] # NoRow /\ obs'[k].log = <<r, m>>})
    <3>1. m \in Attempted(r) /\ draft[r][m].status = "success"
      BY <2>2, <2>3, <2>5 DEF Succeeded
    <3>2. InsertedIsWritten(r, m)
      BY <1>1, <2>2, <2>5, <3>1 DEF CountInv, Inserting, Open
    <3>3. PendingFor(r, m) = {}
      BY <2>2 DEF PendingFor
    <3>4. \A k \in Keys : obs[k] # NoRow => obs[k].log # <<r, m>>
      BY <1>1, <2>2 DEF ProvenanceSound
    <3>5. {k \in Keys : obs'[k] # NoRow /\ obs'[k].log = <<r, m>>} = WrittenFor(r, m)
      BY <2>2, <3>4 DEF Overlay, WrittenFor
    <3>6. Cardinality(WrittenFor(r, m)) \in Nat /\ Cardinality({}) = 0
      BY <3>2, FS_CardinalityType, FS_EmptySet DEF InsertedIsWritten
    <3>7. draft[r][m].inserted = Cardinality(WrittenFor(r, m))
      BY <3>2, <3>3, <3>6 DEF InsertedIsWritten
    <3> QED BY <2>2, <3>5, <3>7
  <2> QED BY <2>4, <2>5 DEF AloneIn
<1>2. (Inductive /\ \A r \in Runs : CountInv(r)) /\ [HistoryNext]_historyVars =>
        [\A r \in Runs : CommitsNow(r) =>
           /\ \A f \in {"fetched", "inserted", "skipped"} :
                runLog'[r][f] = Total([m \in active[r] |-> memberLog'[r][m][f]])
           /\ \A m \in Succeeded(r)' :
                ( \A n \in active[r] \ {m} : SeriesOf[n] # SeriesOf[m] )
                => memberLog'[r][m].inserted =
                     Cardinality({k \in Keys : obs'[k] # NoRow /\ obs'[k].log = <<r, m>>})]_historyVars
  BY <1>1 DEF Counted
<1> QED BY <1>2, CountCorrect, PTL DEF HistorySpec, CountsAreReal
=============================================================================
