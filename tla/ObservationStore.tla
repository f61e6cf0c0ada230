-------------------------- MODULE ObservationStore --------------------------
(***************************************************************************)
(* The `observations` table: vintage-aware rows keyed by                   *)
(* (series_id, period_start, vintage_date), and the two readings the       *)
(* program makes of it.  A state of the table is a function from keys to   *)
(* rows; NoRow marks a key that is not stored.  period_end is a function   *)
(* of the period and is left out.  A value may be the SQL NULL (a "known   *)
(* gap"): it is an element of Values like any other, because the runtime   *)
(* compares values with Python's ==, where None equals None.               *)
(***************************************************************************)
EXTENDS Integers, FiniteSets

CONSTANTS Series,      \* canonical series ids
          Periods,     \* period_start dates, in calendar order
          Vintages,    \* vintage_date days, in calendar order
          Values,      \* published values, NULL included
          Attempts,    \* ids of member-level run-log rows (provenance)
          NoRow        \* not a row

ASSUME PeriodsAssumption == Periods \subseteq Int
ASSUME VintagesAssumption == Vintages \subseteq Int

Keys == Series \X Periods \X Vintages

\* One stored row: the value and the member-level run row it is attributed to.
Rows == [value : Values, log : Attempts]

ASSUME NoRowAssumption == NoRow \notin Rows

Tables == [Keys -> Rows \cup {NoRow}]

EmptyTable == [k \in Keys |-> NoRow]

\* What a transaction sees of a table when it has written w and not committed.
Overlay(table, w) == [k \in Keys |-> IF w[k] # NoRow THEN w[k] ELSE table[k]]

StoredVintages(table, s, p) == {v \in Vintages : table[<<s, p, v>>] # NoRow}

\* ORDER BY vintage_date DESC, first row per period.
Newest(vs) == CHOOSE v \in vs : \A u \in vs : u <= v

\* The latest_observations view at one (series, period).
LatestRow(table, s, p) ==
  LET vs == StoredVintages(table, s, p)
  IN  IF vs = {} THEN NoRow ELSE table[<<s, p, Newest(vs)>>]

\* A point-in-time read: the newest vintage published on or before day d.
RowAsOf(table, s, p, d) ==
  LET vs == {v \in StoredVintages(table, s, p) : v <= d}
  IN  IF vs = {} THEN NoRow ELSE table[<<s, p, Newest(vs)>>]

=============================================================================
