---------------------------- MODULE AuditedStore ----------------------------
(***************************************************************************)
(* What ingestion promises to everyone who reads the database and sees     *)
(* only committed rows: the observations change only by publications, each *)
(* of which appears at once together with one complete, consistent and     *)
(* never rewritten audit record, and stored rows are never removed.        *)
(***************************************************************************)
EXTENDS ObservationStore

CONSTANTS Runs, Members, SeriesOf, NoLog

VARIABLES obs, runLog, memberLog

vars == <<obs, runLog, memberLog>>

Init ==
  /\ obs = EmptyTable
  /\ runLog = [r \in Runs |-> NoLog]
  /\ memberLog = [r \in Runs |-> [m \in Members |-> NoLog]]

\* The members a run reports on, and those it reports failed.
Attempted(log) == {m \in Members : log[m] # NoLog}
FailedIn(log) == {m \in Attempted(log) : log[m].status = "failed"}

\* The feed-level status a set of member outcomes calls for.
StatusFor(log) ==
  IF FailedIn(log) = {} THEN "success"
  ELSE IF FailedIn(log) = Attempted(log) THEN "failed" ELSE "partial"

\* A key that publication r gave a new row names a member log of r that
\* reports success and belongs to the key's series.
AttributedTo(r, k) ==
  \E m \in Attempted(memberLog'[r]) \ FailedIn(memberLog'[r]) :
     /\ obs'[k].log = <<r, m>>
     /\ SeriesOf[m] = k[1]

Publish(r) ==
  /\ runLog[r] = NoLog
  /\ runLog'[r] # NoLog
  /\ runLog'[r].finished
  /\ runLog'[r].status = StatusFor(memberLog'[r])
  /\ \A q \in Runs \ {r} : runLog'[q] = runLog[q] /\ memberLog'[q] = memberLog[q]
  /\ \A k \in Keys : obs'[k] # obs[k] => obs'[k] # NoRow /\ AttributedTo(r, k)

Next == \E r \in Runs : Publish(r)

Spec == Init /\ [][Next]_vars
=============================================================================
