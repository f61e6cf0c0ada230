--------------------------------- MODULE Seeds ---------------------------------
(***************************************************************************)
(* macrodb seed: one transaction that resets the selected tables, in one   *)
(* order, and seeds them, in the other, while other seeds and the CRUD     *)
(* routes are at work.  Categories, geographies and providers have a       *)
(* unique key and are upserted; memberships and catalogs have none: their  *)
(* rows are read, and what is missing is written later.                    *)
(*                                                                         *)
(* Of the curated data one row stands for those that every statement       *)
(* treats alike.  Statements read committed and lock their rows at once; a *)
(* row that an open transaction has written makes other writers wait, one  *)
(* it refers to makes deletions wait.                                      *)
(***************************************************************************)
EXTENDS Naturals, FiniteSets, FiniteSetsExt

CONSTANTS Runs,      \* seeds, each run once
          Modes,     \* [only, reset, dry]: the command's options
          Before,    \* the id of the rows of an earlier seed
          NoRow,
          MaxRoutes  \* bound: calls of the CRUD routes

Targets == {"categories", "geographies", "geography_memberships", "providers", "provider_catalogs"}

\* The curated data.
Categories == {"GDP"}
Countries == {"JPN"}
Subnationals == {"JP-01", "JP-HOKKAIDO"}
Providers == {"FRED"}
Keys == Categories \cup Countries \cup Subnationals \cup Providers

\* What a membership and a catalog refer to.
Lists == {"geography_memberships", "provider_catalogs"}
Refs(l) == IF l = "geography_memberships" THEN Subnationals ELSE Providers

\* A row is told from others by the run or the route that made it.
Ids == Runs \cup {Before} \cup 1..MaxRoutes
Rows == [id : Ids, curated : BOOLEAN]
Plans == [refs : UNION {[Refs(l) -> Ids] : l \in Lists}, found : Rows \cup {NoRow}]

ASSUME SeedsAssumption ==
  /\ Modes \subseteq [only : SUBSET Targets, reset : BOOLEAN, dry : BOOLEAN]
  /\ Before \notin Runs /\ MaxRoutes \in Nat /\ \A n \in 1..MaxRoutes : n \notin Runs
  /\ NoRow \notin Rows /\ NoRow \notin Plans

VARIABLES rows,     \* the curated rows of the tables with a key: [id, curated] or NoRow
          lists,    \* the rows of one natural key in the tables without: a set of [id, curated]
          used,     \* the keys that series refer to
          sourced,  \* the ids of catalogs that sources refer to
          tx,       \* the transactions of the runs
          routes    \* calls of routes so far

seedVars == <<rows, lists, used, sourced, tx, routes>>

Row(id) == [id |-> id, curated |-> TRUE]
Nothing == [k \in {} |-> NoRow]
Untouched == [l \in Lists |-> {}]

\* A transaction: the statements left; its rows; of each list the rows it has
\* inserted and the ids it has deleted and updated, and what it has read.
Fresh == [pc |-> "idle", mode |-> NoRow, todo |-> {}, own |-> Nothing,
          inserted |-> Untouched, deleted |-> Untouched, updated |-> Untouched, plan |-> [l \in Lists |-> NoRow]]
-------------------------------------------------------------------------------
(* The statements of a run *)

Statement(target, op, keys) == [target |-> target, op |-> op, keys |-> keys]

\* Those of a reset, in RESET_ORDER, and those that seed, in SEED_ORDER.
Statements == <<
  Statement("provider_catalogs", "empty", {}), Statement("providers", "delete", Providers),
  Statement("geography_memberships", "empty", {}),
  Statement("geographies", "delete", Countries \cup Subnationals),
  Statement("categories", "delete", Categories),
  Statement("categories", "upsert", Categories),
  Statement("geographies", "upsert", Countries), Statement("geographies", "upsert", Subnationals),
  Statement("geography_memberships", "read", {}), Statement("geography_memberships", "write", {}),
  Statement("providers", "upsert", Providers),
  Statement("provider_catalogs", "read", {}), Statement("provider_catalogs", "write", {}) >>

Program(mode) ==
  {i \in DOMAIN Statements :
     /\ Statements[i].target \in mode.only
     /\ Statements[i].op \in {"empty", "delete"} => mode.reset}

Now(r) == Statements[Min(tx[r].todo)]
At(r, op) == tx[r].pc = "running" /\ tx[r].todo # {} /\ Now(r).op = op

\* What a run sees.
View(r, k) == IF k \in DOMAIN tx[r].own THEN tx[r].own[k] ELSE rows[k]
Visible(r, l) == {row \in lists[l] : row.id \notin tx[r].deleted[l]} \cup tx[r].inserted[l]

\* What an open transaction keeps from the others.
Writes(q, k) == k \in DOMAIN tx[q].own
Deletes(q, k) == Writes(q, k) /\ rows[k] # NoRow /\ (tx[q].own[k] = NoRow \/ tx[q].own[k].id # rows[k].id)
Shares(q, k) == \E l \in Lists : tx[q].inserted[l] # {} /\ k \in Refs(l)
Touches(q, l, id) == id \in tx[q].deleted[l] \cup tx[q].updated[l]

\* The memberships go with the geographies they refer to.
Cascades(keys) == {l \in {"geography_memberships"} : Refs(l) \cap keys # {}}

\* The transactions that the next statement of a run waits for.
Blocks(q, r) ==
  LET s == Now(r)
      listed(l) == \E row \in lists[l] : row.id \notin tx[r].deleted[l] /\ Touches(q, l, row.id)
      found == tx[r].plan[s.target].found
  IN CASE s.op = "upsert" -> \E k \in s.keys : Writes(q, k)
       [] s.op = "delete" ->
            \/ \E k \in s.keys : rows[k] # NoRow /\ ~Writes(r, k) /\ (Writes(q, k) \/ Shares(q, k))
            \/ \E l \in Cascades(s.keys) : listed(l)
       [] s.op = "empty" -> listed(s.target)
       [] s.op = "write" ->
            IF found = NoRow
              THEN \E k \in Refs(s.target) : Deletes(q, k)
              ELSE ~found.curated /\ Touches(q, s.target, found.id)
       [] OTHER -> FALSE

WaitsFor(r) == IF tx[r].pc = "running" /\ tx[r].todo # {}
               THEN {q \in Runs \ {r} : Blocks(q, r)} ELSE {}
-------------------------------------------------------------------------------
(* A run *)

Start(r, mode) ==
  /\ tx[r].pc = "idle"
  /\ tx' = [tx EXCEPT ![r] = [Fresh EXCEPT !.pc = "running", !.mode = mode, !.todo = Program(mode)]]
  /\ UNCHANGED <<rows, lists, used, sourced, routes>>

\* Mutant: a failed run leaves what it has flushed.
FailKeepingRows(r) ==
  /\ rows' = [k \in Keys |-> View(r, k)]
  /\ tx' = [tx EXCEPT ![r] = [Fresh EXCEPT !.pc = "failed", !.mode = tx[r].mode]]
  /\ UNCHANGED <<lists, used, sourced, routes>>

\* Mutant: a failed run leaves its transaction open.
FailUnfinished(r) ==
  /\ tx' = [tx EXCEPT ![r].pc = "failed"]
  /\ UNCHANGED <<rows, lists, used, sourced, routes>>

\* The exception rolls the transaction back.
Fail(r) ==
  /\ tx' = [tx EXCEPT ![r] = [Fresh EXCEPT !.pc = "failed", !.mode = tx[r].mode]]
  /\ UNCHANGED <<rows, lists, used, sourced, routes>>

Done(r, t) ==
  /\ tx' = [tx EXCEPT ![r] = [t EXCEPT !.todo = @ \ {Min(@)}]]
  /\ UNCHANGED <<rows, lists, used, sourced, routes>>

Overlay(new, old) ==
  [k \in DOMAIN new \cup DOMAIN old |-> IF k \in DOMAIN new THEN new[k] ELSE old[k]]
Written(t, changes) == [t EXCEPT !.own = Overlay(changes, @)]

\* Mutant: ON CONFLICT DO NOTHING.
UpsertMissing(r) ==
  /\ At(r, "upsert") /\ WaitsFor(r) = {}
  /\ Done(r, Written(tx[r], [k \in {k \in Now(r).keys : View(r, k) = NoRow} |-> Row(r)]))

\* INSERT ... ON CONFLICT DO UPDATE: a row that is there keeps its id.
Upsert(r) ==
  /\ At(r, "upsert") /\ WaitsFor(r) = {}
  /\ LET IdOf(k) == IF View(r, k) = NoRow THEN r ELSE View(r, k).id
     IN Done(r, Written(tx[r], [k \in Now(r).keys |-> Row(IdOf(k))]))

\* series, series_sources and provider_catalogs restrict; memberships cascade.
Restricted(r, keys) ==
  \/ keys \cap used # {}
  \/ keys \cap Providers # {} /\ Visible(r, "provider_catalogs") # {}

Delete(r) ==
  /\ At(r, "delete") /\ WaitsFor(r) = {}
  /\ LET keys == {k \in Now(r).keys : View(r, k) # NoRow}
     IN IF Restricted(r, keys) THEN Fail(r)
        ELSE Done(r, [Written(tx[r], [k \in keys |-> NoRow]) EXCEPT
               !.deleted = [l \in Lists |-> IF l \in Cascades(keys)
                              THEN @[l] \cup {row.id : row \in Visible(r, l)} ELSE @[l]]])

Empty(r) ==
  /\ At(r, "empty") /\ WaitsFor(r) = {}
  /\ LET ids == {row.id : row \in Visible(r, Now(r).target)}
     IN IF Now(r).target = "provider_catalogs" /\ ids \cap sourced # {} THEN Fail(r)
        ELSE Done(r, [tx[r] EXCEPT !.deleted[Now(r).target] = @ \cup ids])

\* The ids of what the curated rows refer to, and the row of the natural key.
Read(r) ==
  /\ At(r, "read")
  /\ LET l == Now(r).target
         found == Visible(r, l)
     IN IF (\E k \in Refs(l) : View(r, k) = NoRow) \/ Cardinality(found) > 1 THEN Fail(r)
        ELSE Done(r, [tx[r] EXCEPT !.plan[l] =
               [refs |-> [k \in Refs(l) |-> View(r, k).id],
                found |-> IF found = {} THEN NoRow ELSE CHOOSE row \in found : TRUE]])

\* The flush: an insertion whose reference is gone, and an update that finds no
\* row, raise.
Write(r) ==
  /\ At(r, "write") /\ WaitsFor(r) = {}
  /\ LET l == Now(r).target
         plan == tx[r].plan[l]
         here(k) == View(r, k) # NoRow /\ View(r, k).id = plan.refs[k]
     IN CASE plan.found = NoRow ->
               IF \A k \in Refs(l) : here(k)
                 THEN Done(r, [tx[r] EXCEPT !.inserted[l] = {Row(r)}])
                 ELSE Fail(r)
          [] plan.found # NoRow /\ plan.found.curated -> Done(r, tx[r])
          [] OTHER ->
               IF \E row \in lists[l] : row.id = plan.found.id
                 THEN Done(r, [tx[r] EXCEPT !.updated[l] = @ \cup {plan.found.id}])
                 ELSE Fail(r)

Kept(r, l) == {row \in lists[l] : row.id \notin tx[r].deleted[l]}

\* commit, or with --dry-run rollback.
End(r) ==
  /\ tx[r].pc = "running" /\ tx[r].todo = {}
  /\ IF tx[r].mode.dry THEN UNCHANGED <<rows, lists>>
     ELSE /\ rows' = [k \in Keys |-> View(r, k)]
          /\ lists' = [l \in Lists |->
               {IF row.id \in tx[r].updated[l] THEN Row(row.id) ELSE row : row \in Kept(r, l)}
                 \cup tx[r].inserted[l]]
  /\ tx' = [tx EXCEPT ![r] = [Fresh EXCEPT !.pc = "done", !.mode = tx[r].mode]]
  /\ UNCHANGED <<used, sourced, routes>>

\* PostgreSQL aborts one of the transactions that wait for each other.
Deadlock(r) ==
  /\ \E S \in SUBSET Runs : r \in S /\ \A s \in S : WaitsFor(s) \cap S # {}
  /\ Fail(r)

\* The process is killed, or its connection lost.
Killed(r) == tx[r].pc = "running" /\ Fail(r)
-------------------------------------------------------------------------------
(* The CRUD routes, each of one transaction *)

Route == routes < MaxRoutes /\ routes' = routes + 1 /\ UNCHANGED tx

Post(l) ==
  /\ Route
  /\ \A k \in Refs(l) : rows[k] # NoRow /\ \A q \in Runs : ~Deletes(q, k)
  /\ lists' = [lists EXCEPT ![l] = @ \cup {Row(routes')}]
  /\ UNCHANGED <<rows, used, sourced>>

PatchKeyed(k) ==
  /\ Route /\ rows[k] # NoRow /\ \A q \in Runs : ~Writes(q, k)
  /\ rows' = [rows EXCEPT ![k].curated = FALSE]
  /\ UNCHANGED <<lists, used, sourced>>

PatchListed(l, row) ==
  /\ Route /\ \A q \in Runs : ~Touches(q, l, row.id)
  /\ lists' = [lists EXCEPT ![l] = (@ \ {row}) \cup {[row EXCEPT !.curated = FALSE]}]
  /\ UNCHANGED <<rows, used, sourced>>

DeleteListed(l, row) ==
  /\ Route /\ (l = "provider_catalogs" => row.id \notin sourced) /\ \A q \in Runs : ~Touches(q, l, row.id)
  /\ lists' = [lists EXCEPT ![l] = @ \ {row}]
  /\ UNCHANGED <<rows, used, sourced>>

\* A series of a concept and a country.
PostSeries ==
  /\ Route
  /\ \A k \in Categories \cup Countries :
       rows[k] # NoRow /\ \A q \in Runs : ~Deletes(q, k)
  /\ used' = used \cup Categories \cup Countries
  /\ UNCHANGED <<rows, lists, sourced>>

\* Its source in a catalog.
PostSource(row) ==
  /\ Route /\ \A q \in Runs : row.id \notin tx[q].deleted["provider_catalogs"]
  /\ sourced' = sourced \cup {row.id}
  /\ UNCHANGED <<rows, lists, used>>
-------------------------------------------------------------------------------
\* A migrated database, or one that was seeded.
Init ==
  /\ \/ rows = [k \in Keys |-> NoRow] /\ lists = [l \in Lists |-> {}]
     \/ rows = [k \in Keys |-> Row(Before)] /\ lists = [l \in Lists |-> {Row(Before)}]
  /\ used = {} /\ sourced = {} /\ routes = 0
  /\ tx = [r \in Runs |-> Fresh]

Step(r) == Upsert(r) \/ Delete(r) \/ Empty(r) \/ Read(r) \/ Write(r) \/ End(r) \/ Deadlock(r)

Next ==
  \/ \E r \in Runs : (\E mode \in Modes : Start(r, mode)) \/ Step(r) \/ Killed(r)
  \/ \E l \in Lists : Post(l) \/ \E row \in lists[l] : PatchListed(l, row) \/ DeleteListed(l, row)
  \/ \E k \in Keys : PatchKeyed(k)
  \/ PostSeries \/ \E row \in lists["provider_catalogs"] : PostSource(row)

\* A command that runs goes on, and the server breaks deadlocks.
Spec == Init /\ [][Next]_seedVars /\ \A r \in Runs : WF_seedVars(Step(r))
-------------------------------------------------------------------------------
(* Properties *)

\* The targets with a key that a run upserts before it reads a list.
Ahead(mode, l) ==
  mode.only \cap (IF l = "geography_memberships" THEN {"categories", "geographies"}
                  ELSE {"categories", "geographies", "providers"})

\* A natural key without a constraint is written twice by seeds only where
\* nothing else makes them wait: seeds that have upserted the same target on
\* the way to a list, as all full ones do, never both insert its row.
SharedTargetSerializes ==
  \A l \in Lists : \A p, q \in {row.id : row \in lists[l]} \cap Runs :
    p # q => Ahead(tx[p].mode, l) \cap Ahead(tx[q].mode, l) = {}

\* The row that a run has found for a list, so that it inserts none, has been removed since.
FoundIsGone(r, l) ==
  LET plan == tx[r].plan[l]
  IN plan # NoRow /\ plan.found # NoRow /\ plan.found.id \notin {row.id : row \in lists[l]}

\* Whatever is committed, rolled back, killed or aborted in between, no run takes
\* the last row of a target or a row that is in use, with two exceptions: a reset of
\* the geographies alone takes the memberships with it, and a reset writes no row
\* where it has found one that was added after it emptied the table, although that
\* one may be gone when it commits.
NoTargetEmptied ==
  [][\A r \in Runs : tx[r].pc = "running" /\ tx'[r].pc # "running" =>
       /\ \A k \in Keys : rows[k] # NoRow => rows'[k] # NoRow
       /\ \A k \in used : rows'[k].id = rows[k].id
       /\ sourced \subseteq {row.id : row \in lists'["provider_catalogs"]}
       /\ \A l \in Lists : lists[l] # {} /\ lists'[l] = {} =>
            \/ /\ l = "geography_memberships" /\ l \notin tx[r].mode.only
               /\ tx[r].mode.reset /\ "geographies" \in tx[r].mode.only
            \/ tx[r].mode.reset /\ FoundIsGone(r, l)]_seedVars

\* Every run ends: it never waits for a run that waits for it, or for one that
\* is gone.
EveryRunEnds == \A r \in Runs : tx[r].pc = "running" ~> tx[r].pc \in {"done", "failed"}
===============================================================================
