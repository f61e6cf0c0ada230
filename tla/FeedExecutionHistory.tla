------------------------ MODULE FeedExecutionHistory ------------------------
(***************************************************************************)
(* FeedExecution with two history variables, for the properties that hold  *)
(* only of runs nobody interfered with: `contended` holds the runs during  *)
(* which another run committed, and `orderly` is true as long as every     *)
(* committed run was uncontended, later dated than the ones before it, and *)
(* a plain latest-snapshot import with one member per series.  They        *)
(* constrain nothing: every behaviour of FeedExecution has exactly one     *)
(* extension by them.                                                      *)
(***************************************************************************)
EXTENDS FeedExecution, Functions

VARIABLES contended, orderly

historyVars == <<vars, contended, orderly>>

CommitsNow(r) == pc[r] = "finished" /\ pc'[r] = "committed"

\* The member's payload names each period once and carries no vintage of its
\* own, as a latest-snapshot import does.
PlainSnapshot(r, m) ==
  LET rows == payload[r][m].rows
  IN  /\ \A i \in DOMAIN rows : rows[i].vintage = NoVintage
      /\ IsInjective([i \in DOMAIN rows |-> rows[i].period])

\* What every orderly run is: each series imported by one active member, from a
\* plain snapshot.
PlainImport(r) ==
  /\ \A m, n \in active[r] : SeriesOf[m] = SeriesOf[n] => m = n
  /\ \A m \in active[r] : PlainSnapshot(r, m)

LaterThanAll(r) ==
  \A q \in Runs : pc[q] = "committed" => runDate[q] < runDate[r]

HistoryInit == Init /\ contended = {} /\ orderly = TRUE

HistoryNext ==
  /\ Next
  /\ contended' = contended \cup
       {q \in Runs : pc[q] \in Open /\ \E r \in Runs \ {q} : CommitsNow(r)}
  /\ orderly' = (orderly /\ \A r \in Runs : CommitsNow(r) =>
       /\ r \notin contended
       /\ LaterThanAll(r)
       /\ PlainImport(r))

HistorySpec == HistoryInit /\ [][HistoryNext]_historyVars

Succeeded(r) ==
  {m \in active[r] : memberLog[r][m] # NoLog /\ memberLog[r][m].status = "success"}

Reported(r, m) == {payload[r][m].rows[i] : i \in DOMAIN payload[r][m].rows}

-----------------------------------------------------------------------------
\* Reading back the day of a run returns what that run observed, for every
\* committed run: "macrodb records what we observed on this run date"
\* (CONTEXT.md, Snapshot vintage), although unchanged values are not stored.
PointInTime ==
  orderly => \A r \in Runs : pc[r] = "committed" =>
    \A m \in Succeeded(r) : \A o \in Reported(r, m) :
      LET row == RowAsOf(obs, SeriesOf[m], o.period, runDate[r])
      IN  row # NoRow /\ row.value = o.value

\* A vintage is stored only when the period is new or its value changed since
\* the previous stored vintage (runtime README, Snapshot vintage policy).
OnlyRevisionsStored ==
  orderly => \A s \in Series, p \in Periods : \A v \in StoredVintages(obs, s, p) :
    LET before == RowAsOf(obs, s, p, v - 1)
    IN  before # NoRow => before.value # obs[<<s, p, v>>].value

\* A revision is a new row: an orderly run rewrites nothing that is stored, not
\* even the provenance of a value it observed again.
RevisionsAppend ==
  [][orderly' => \A k \in Keys : obs[k] # NoRow => obs'[k] = obs[k]]_historyVars

\* What a run that commits owes its readers: each period shows the value the run
\* observed or, when several members feed one series, a value one of them observed.
ReadersSee(r) ==
  \A m \in Succeeded(r)' :
    LET siblings == {n \in Succeeded(r)' : SeriesOf[n] = SeriesOf[m]}
        observed == UNION {Reported(r, n) : n \in siblings}
    IN  ( /\ \A n \in siblings : PlainSnapshot(r, n)
          /\ \A p \in Periods : \A v \in StoredVintages(obs, SeriesOf[m], p) :
               v <= runDate[r] )
        => \A o \in Reported(r, m) :
             LatestRow(obs', SeriesOf[m], o.period).value
               \in {q.value : q \in {w \in observed : w.period = o.period}}

\* A run no other commit overlapped, dated no earlier than what is stored, is
\* what latest_observations shows once it commits, even on a day that was
\* imported before.
UncontendedRunIsLatest ==
  [][\A r \in Runs : CommitsNow(r) /\ r \notin contended => ReadersSee(r)]_historyVars

\* A sum of naturals: the size of a union of as many things of each.
Units(counts) == UNION {{m} \X (1..counts[m]) : m \in DOMAIN counts}
Total(counts) == Cardinality(Units(counts))

\* The counts of a committed run are the sums over its member logs, and each
\* member's inserted count is the number of rows the commit attributed to it.
CountsAreReal ==
  [][\A r \in Runs : CommitsNow(r) =>
       /\ \A f \in {"fetched", "inserted", "skipped"} :
            runLog'[r][f] = Total([m \in active[r] |-> memberLog'[r][m][f]])
       /\ \A m \in Succeeded(r)' :
            ( \A n \in active[r] \ {m} : SeriesOf[n] # SeriesOf[m] )
            => memberLog'[r][m].inserted =
                 Cardinality({k \in Keys : obs'[k] # NoRow /\ obs'[k].log = <<r, m>>})
    ]_historyVars
=============================================================================
