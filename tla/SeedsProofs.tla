------------------------------ MODULE SeedsProofs ------------------------------
(***************************************************************************)
(* Proofs about macrodb seed, for any number of runs, any sets of options  *)
(* and any number of calls of the routes.                                  *)
(***************************************************************************)
EXTENDS Seeds, WellFoundedInduction, TLAPS

-------------------------------------------------------------------------------
(* The statements *)

Position == 1..13
Upserts == {6, 7, 8, 11}
EmptyOf(l) == IF l = "geography_memberships" THEN 3 ELSE 1
ReadOf(l) == IF l = "geography_memberships" THEN 9 ELSE 12
WriteOf(l) == IF l = "geography_memberships" THEN 10 ELSE 13

\* What the statements are, place by place.
LEMMA StatementsListed ==
  /\ DOMAIN Statements = Position
  /\ Statements[1] = Statement("provider_catalogs", "empty", {})
  /\ Statements[2] = Statement("providers", "delete", Providers)
  /\ Statements[3] = Statement("geography_memberships", "empty", {})
  /\ Statements[4] = Statement("geographies", "delete", Countries \cup Subnationals)
  /\ Statements[5] = Statement("categories", "delete", Categories)
  /\ Statements[6] = Statement("categories", "upsert", Categories)
  /\ Statements[7] = Statement("geographies", "upsert", Countries)
  /\ Statements[8] = Statement("geographies", "upsert", Subnationals)
  /\ Statements[9] = Statement("geography_memberships", "read", {})
  /\ Statements[10] = Statement("geography_memberships", "write", {})
  /\ Statements[11] = Statement("providers", "upsert", Providers)
  /\ Statements[12] = Statement("provider_catalogs", "read", {})
  /\ Statements[13] = Statement("provider_catalogs", "write", {})
<1> HIDE DEF Statement
<1> QED BY DEF Statements, Position

\* The same by operation.
LEMMA StatementsByOp ==
  ASSUME NEW i \in Position
  PROVE  /\ Statements[i].op = "upsert" <=> i \in Upserts
         /\ Statements[i].op = "delete" <=> i \in {2, 4, 5}
         /\ Statements[i].op = "empty" <=> i \in {1, 3}
         /\ Statements[i].op = "read" <=> i \in {9, 12}
         /\ Statements[i].op = "write" <=> i \in {10, 13}
         /\ Statements[i].target \in Targets /\ Statements[i].keys \subseteq Keys
<1>1. i \in {1, 2, 3, 4, 5, 6, 7, 8, 9, 10, 11, 12, 13}
  BY DEF Position
<1> QED BY <1>1, StatementsListed DEF Statement, Upserts, Targets, Keys

\* The next statement of a run is the first that is left.
LEMMA Least ==
  ASSUME NEW S \in SUBSET Position, S # {}
  PROVE  Min(S) \in S /\ \A i \in S : Min(S) <= i
<1>1. PICK i \in S : \A j \in S : <<j, i>> \notin OpToRel(<, Nat)
  <2>1. S \subseteq Nat BY DEF Position
  <2> QED BY <2>1, NatLessThanWellFounded, WFMin, Zenon
<1>2. ASSUME NEW j \in S, ~(i <= j) PROVE FALSE
  <2>1. i \in Nat /\ j \in Nat BY DEF Position
  <2>2. <<j, i>> \in {ss \in Nat \X Nat : ss[1] < ss[2]} BY <1>2, <2>1
  <2> QED BY <1>1, <2>2 DEF OpToRel
<1> QED BY <1>2 DEF Min
-------------------------------------------------------------------------------
(* The invariant *)

Owns == UNION {[S -> Rows \cup {NoRow}] : S \in SUBSET Keys}
Transactions ==
  [pc : {"idle", "running", "done", "failed"}, mode : Modes \cup {NoRow}, todo : SUBSET Position,
   own : Owns, inserted : [Lists -> SUBSET Rows], deleted : [Lists -> SUBSET Ids],
   updated : [Lists -> SUBSET Ids], plan : [Lists -> Plans \cup {NoRow}]]

Typed ==
  /\ rows \in [Keys -> Rows \cup {NoRow}]
  /\ lists \in [Lists -> SUBSET Rows]
  /\ used \in SUBSET Keys /\ sourced \in SUBSET Ids
  /\ tx \in [Runs -> Transactions]
  /\ routes \in 0..MaxRoutes

IdsOf(S) == {row.id : row \in S}
FoundNothing(t, l) == t.plan[l] # NoRow /\ t.plan[l].found = NoRow

\* What a transaction that is not open holds.
Closed(t) == t.own = Nothing /\ t.inserted = Untouched /\ t.deleted = Untouched /\ t.updated = Untouched

\* The statements of an open transaction that are done.
Ran(t) == Program(t.mode) \ t.todo

\* They are the first of its program.
InOrder(t) ==
  /\ t.mode \in Modes
  /\ t.todo \subseteq Program(t.mode)
  /\ \A i \in t.todo : \A j \in Program(t.mode) : i < j => j \in t.todo

\* What it has upserted is there, and what it has deleted it will upsert.
Upserted(t) ==
  /\ \A i \in Ran(t) : i \in Upserts =>
       \A k \in Statements[i].keys : k \in DOMAIN t.own /\ t.own[k] # NoRow
  /\ \A k \in DOMAIN t.own : t.own[k] = NoRow =>
       \E i \in t.todo : i \in Upserts /\ k \in Statements[i].keys

\* A list is emptied, then read, then written; and its row inserted just if none was found.
ListInOrder(t, r, l) ==
  /\ t.plan[l] # NoRow <=> ReadOf(l) \in Ran(t)
  /\ t.plan[l] # NoRow /\ t.plan[l].found # NoRow => t.plan[l].found.id \notin t.deleted[l]
  /\ t.inserted[l] # {} => WriteOf(l) \in Ran(t) /\ FoundNothing(t, l) /\ t.inserted[l] = {Row(r)}
  /\ WriteOf(l) \in Ran(t) /\ FoundNothing(t, l) => t.inserted[l] = {Row(r)}
  /\ t.deleted[l] # {} => /\ t.mode.reset
                          /\ \/ EmptyOf(l) \in Ran(t)
                             \/ l = "geography_memberships" /\ 4 \in Ran(t)

Ordered(t, r) ==
  IF t.pc = "running" THEN InOrder(t) /\ Upserted(t) /\ \A l \in Lists : ListInOrder(t, r, l)
  ELSE Closed(t)

\* No two open transactions have written the same row.
Locked == \A p, q \in Runs : \A k \in Keys : Writes(p, k) /\ Writes(q, k) => p = q

\* A row that is in use is there, for every transaction.
UsedKept ==
  \A k \in used : /\ rows[k] # NoRow
                  /\ \A r \in Runs : Writes(r, k) => tx[r].own[k] # NoRow /\ tx[r].own[k].id = rows[k].id
SourcedKept ==
  /\ sourced \subseteq IdsOf(lists["provider_catalogs"])
  /\ \A r \in Runs : tx[r].deleted["provider_catalogs"] \cap sourced = {}

\* A run's row is committed with it, and a run that will insert one, having found
\* none, shares no target on the way with those whose rows it has not deleted.
Disjoint(p, q, l) == Ahead(tx[p].mode, l) \cap Ahead(tx[q].mode, l) = {}
Committed == \A l \in Lists : \A p \in IdsOf(lists[l]) \cap Runs : tx[p].pc = "done"
Inserting(q, l) == tx[q].pc = "running" /\ FoundNothing(tx[q], l)
Apart ==
  \A l \in Lists : \A q \in Runs : Inserting(q, l) =>
    \A p \in (IdsOf(lists[l]) \cap Runs) \ tx[q].deleted[l] : Disjoint(p, q, l)

SeedsInv ==
  /\ Typed
  /\ \A r \in Runs : Ordered(tx[r], r)
  /\ Locked /\ UsedKept /\ SourcedKept
  /\ Committed /\ Apart /\ SharedTargetSerializes
-------------------------------------------------------------------------------
(* Programs and their statements *)

\* A program holds the statements of its targets; those of a reset come first.
LEMMA ProgramHolds ==
  ASSUME NEW mode \in Modes
  PROVE  /\ Program(mode) \subseteq Position
         /\ \A i \in Position : i \in Program(mode) <=>
              Statements[i].target \in mode.only /\ (i \in 1..5 => mode.reset)
<1>1. \A i \in Position : Statements[i].op \in {"empty", "delete"} <=> i \in 1..5
  BY StatementsByOp DEF Position
<1> QED BY <1>1, StatementsListed DEF Program

\* What a deletion removes is upserted later, by the same run.
LEMMA DeletedIsUpserted ==
  ASSUME NEW mode \in Modes, NEW d \in Program(mode), d \in {2, 4, 5},
         NEW k \in Statements[d].keys
  PROVE  \E i \in Program(mode) : i \in Upserts /\ d < i /\ k \in Statements[i].keys
<1>1. \A i \in Upserts : i \in Program(mode) <=> Statements[i].target \in mode.only
  BY ProgramHolds DEF Upserts, Position
<1>2. Statements[d].target \in mode.only
  BY ProgramHolds
<1>3. CASE d = 2
  BY <1>1, <1>2, <1>3, StatementsListed DEF Statement, Upserts
<1>4. CASE d = 4
  BY <1>1, <1>2, <1>4, StatementsListed DEF Statement, Upserts
<1>5. CASE d = 5
  BY <1>1, <1>2, <1>5, StatementsListed DEF Statement, Upserts
<1> QED BY <1>3, <1>4, <1>5

\* The statement that comes next, and what has come before it.
LEMMA NextStatement ==
  ASSUME NEW t \in Transactions, InOrder(t), t.todo # {}
  PROVE  /\ Min(t.todo) \in t.todo /\ Min(t.todo) \in Position /\ Min(t.todo) \in Program(t.mode)
         /\ \A i \in t.todo : Min(t.todo) <= i
         /\ Ran(t) \subseteq Position /\ \A i \in Ran(t) : i < Min(t.todo)
<1>1. t.todo \in SUBSET Position
  BY DEF Transactions
<1>2. Min(t.todo) \in t.todo /\ \A i \in t.todo : Min(t.todo) <= i
  BY <1>1, Least
<1>3. t.mode \in Modes /\ Program(t.mode) \subseteq Position
  BY ProgramHolds DEF InOrder
<1>4. ASSUME NEW i \in Ran(t) PROVE i < Min(t.todo)
  <2>1. i \in Program(t.mode) /\ i \notin t.todo
    BY DEF Ran
  <2>2. ~(Min(t.todo) < i) /\ i # Min(t.todo)
    BY <1>2, <2>1 DEF InOrder
  <2> QED BY <1>1, <1>2, <1>3, <2>1, <2>2 DEF Position
<1> QED BY <1>1, <1>2, <1>3, <1>4 DEF InOrder, Ran

\* A transaction that has done its next statement.
LEMMA StatementDone ==
  ASSUME NEW t \in Transactions, InOrder(t), t.todo # {}, NEW u, u.mode = t.mode,
         u.todo = t.todo \ {Min(t.todo)}
  PROVE  InOrder(u) /\ Ran(u) = Ran(t) \cup {Min(t.todo)}
<1>1. Min(t.todo) \in t.todo /\ \A i \in t.todo : Min(t.todo) <= i
  BY NextStatement
<1>2. t.todo \subseteq Position /\ Program(t.mode) \subseteq Position
  BY ProgramHolds DEF Transactions, InOrder
<1>3. InOrder(u)
  <2>1. ASSUME NEW i \in u.todo, NEW j \in Program(u.mode), i < j PROVE j \in u.todo
    <3>1. j \in t.todo BY <2>1 DEF InOrder
    <3>2. j # Min(t.todo) BY <1>1, <1>2, <2>1 DEF Position
    <3> QED BY <3>1, <3>2
  <2> QED BY <2>1 DEF InOrder
<1> QED BY <1>1, <1>3 DEF InOrder, Ran

\* The statement that is next, by its operation.
LEMMA NowByOp ==
  ASSUME NEW r \in Runs, tx[r] \in Transactions, InOrder(tx[r]), tx[r].todo # {},
         NEW op, At(r, op)
  PROVE  /\ Now(r) = Statements[Min(tx[r].todo)] /\ Now(r).keys \subseteq Keys
         /\ op = "upsert" => Min(tx[r].todo) \in Upserts
         /\ op = "delete" => Min(tx[r].todo) \in {2, 4, 5}
         /\ op = "empty" => /\ Now(r).target \in Lists
                            /\ Min(tx[r].todo) = EmptyOf(Now(r).target)
         /\ op = "read" => /\ Now(r).target \in Lists
                           /\ Min(tx[r].todo) = ReadOf(Now(r).target)
         /\ op = "write" => /\ Now(r).target \in Lists
                            /\ Min(tx[r].todo) = WriteOf(Now(r).target)
<1> DEFINE i == Min(tx[r].todo)
<1>1. i \in Position /\ Now(r) = Statements[i] /\ Statements[i].op = op
  BY NextStatement DEF Now, At
<1>2. /\ op = "upsert" => i \in Upserts
      /\ op = "delete" => i \in {2, 4, 5}
      /\ op = "empty" => i \in {1, 3}
      /\ op = "read" => i \in {9, 12}
      /\ op = "write" => i \in {10, 13}
      /\ Statements[i].keys \subseteq Keys
  BY <1>1, StatementsByOp
<1> HIDE DEF i
<1>3. op = "empty" => Statements[i].target \in Lists /\ i = EmptyOf(Statements[i].target)
  BY <1>2, StatementsListed DEF Statement, Lists, EmptyOf
<1>4. op = "read" => Statements[i].target \in Lists /\ i = ReadOf(Statements[i].target)
  BY <1>2, StatementsListed DEF Statement, Lists, ReadOf
<1>5. op = "write" => Statements[i].target \in Lists /\ i = WriteOf(Statements[i].target)
  BY <1>2, StatementsListed DEF Statement, Lists, WriteOf
<1> QED BY <1>1, <1>2, <1>3, <1>4, <1>5 DEF i

\* The targets that a run that has read a list has upserted on the way.
LEMMA AheadIsOwned ==
  ASSUME NEW t \in Transactions, InOrder(t), Upserted(t), NEW l \in Lists, ReadOf(l) \in Ran(t),
         NEW target \in Ahead(t.mode, l)
  PROVE  (CASE target = "categories" -> "GDP" [] target = "geographies" -> "JPN" [] OTHER -> "FRED")
           \in DOMAIN t.own
<1>1. t.mode \in Modes /\ Program(t.mode) \subseteq Position
  BY ProgramHolds DEF InOrder
<1>2. target \in t.mode.only /\ target \in {"categories", "geographies", "providers"}
      /\ (l = "geography_memberships" => target # "providers")
  BY DEF Ahead
<1>3. ASSUME NEW i \in Upserts, Statements[i].target = target, i < ReadOf(l)
      PROVE  i \in Ran(t)
  <2>1. i \in Program(t.mode)
    BY <1>1, <1>2, <1>3, ProgramHolds DEF Upserts, Position
  <2>2. i \notin t.todo
    <3>1. ReadOf(l) \in Program(t.mode) /\ ReadOf(l) \notin t.todo
      BY DEF Ran
    <3> QED BY <1>3, <3>1 DEF InOrder
  <2> QED BY <2>1, <2>2 DEF Ran
<1>4. \A i \in Ran(t) : i \in Upserts => \A k \in Statements[i].keys : k \in DOMAIN t.own
  BY DEF Upserted
<1>5. CASE target = "categories"
  <2>1. 6 \in Ran(t) BY <1>3, <1>5, StatementsListed DEF Statement, Upserts, ReadOf
  <2> QED BY <1>4, <1>5, <2>1, StatementsListed DEF Statement, Upserts, Categories
<1>6. CASE target = "geographies"
  <2>1. 7 \in Ran(t) BY <1>3, <1>6, StatementsListed DEF Statement, Upserts, ReadOf
  <2> QED BY <1>4, <1>6, <2>1, StatementsListed DEF Statement, Upserts, Countries
<1>7. CASE target = "providers"
  <2>1. 11 \in Ran(t) BY <1>2, <1>3, <1>7, StatementsListed DEF Statement, Upserts, ReadOf
  <2> QED BY <1>4, <1>7, <2>1, StatementsListed DEF Statement, Upserts, Providers
<1> QED BY <1>2, <1>5, <1>6, <1>7

\* Two runs that will both insert the row of a list share no target on the way to it.
LEMMA InsertersApart ==
  ASSUME SeedsInv, NEW p \in Runs, NEW q \in Runs, p # q, NEW l \in Lists,
         Inserting(p, l), Inserting(q, l)
  PROVE  Disjoint(p, q, l)
<1>1. SUFFICES ASSUME NEW target \in Ahead(tx[p].mode, l), target \in Ahead(tx[q].mode, l) PROVE FALSE
  BY DEF Disjoint
<1>2. \A r \in {p, q} : /\ tx[r] \in Transactions /\ InOrder(tx[r]) /\ Upserted(tx[r])
                        /\ ReadOf(l) \in Ran(tx[r])
  BY DEF SeedsInv, Typed, Ordered, ListInOrder, Inserting, FoundNothing
<1> DEFINE key == CASE target = "categories" -> "GDP" [] target = "geographies" -> "JPN" [] OTHER -> "FRED"
<1>3. key \in DOMAIN tx[p].own /\ key \in DOMAIN tx[q].own
  BY <1>1, <1>2, AheadIsOwned
<1>4. key \in Keys
  BY DEF Keys, Categories, Countries, Providers
<1> QED BY <1>3, <1>4 DEF SeedsInv, Locked, Writes
-------------------------------------------------------------------------------
(* The steps of a run *)

\* A run that goes on keeps the invariant if its transaction stays in order, writes
\* what no other has written, keeps what is in use, and where it finds nothing in a
\* list has deleted what the list holds.
LEMMA LocalStep ==
  ASSUME SeedsInv, NEW r \in Runs, NEW t \in Transactions, tx[r].pc = "running", t.pc = "running",
         t.mode = tx[r].mode, tx' = [tx EXCEPT ![r] = t],
         UNCHANGED <<rows, lists, used, sourced, routes>>, Ordered(t, r),
         \A k \in DOMAIN t.own : Writes(r, k) \/ \A q \in Runs : q # r => ~Writes(q, k),
         \A k \in used : k \in DOMAIN t.own => t.own[k] # NoRow /\ t.own[k].id = rows[k].id,
         t.deleted["provider_catalogs"] \cap sourced = {},
         \A l \in Lists : tx[r].deleted[l] \subseteq t.deleted[l],
         \A l \in Lists : FoundNothing(t, l) => FoundNothing(tx[r], l) \/ IdsOf(lists[l]) \subseteq t.deleted[l]
  PROVE  SeedsInv'
<1>1. tx' \in [Runs -> Transactions] /\ tx'[r] = t /\ \A q \in Runs : q # r => tx'[q] = tx[q]
  BY DEF SeedsInv, Typed
<1>2. Typed'
  BY <1>1 DEF SeedsInv, Typed
<1>3. \A q \in Runs : Ordered(tx[q], q)'
  <2>1. \A q \in Runs : Ordered(tx'[q], q)
    BY <1>1 DEF SeedsInv
  <2> QED BY <2>1 DEF Ordered, InOrder, Upserted, ListInOrder, Closed, Ran, FoundNothing
<1>4. Locked'
  BY <1>1 DEF SeedsInv, Locked, Writes
<1>5. UsedKept'
  BY <1>1 DEF SeedsInv, UsedKept, Writes
<1>6. SourcedKept'
  BY <1>1 DEF SeedsInv, SourcedKept, IdsOf
<1>7. \A q \in Runs : tx'[q].mode = tx[q].mode /\ tx'[q].pc = tx[q].pc
  BY <1>1
<1>8. Committed' /\ SharedTargetSerializes'
  <2>1. \A l \in Lists : \A q \in Runs : Ahead(tx'[q].mode, l) = Ahead(tx[q].mode, l)
    BY <1>7
  <2> QED BY <1>7, <2>1 DEF SeedsInv, Committed, SharedTargetSerializes, IdsOf
<1>9. Apart'
  <2>1. ASSUME NEW l \in Lists, NEW q \in Runs, Inserting(q, l)', NEW p \in IdsOf(lists[l]) \cap Runs,
               p \notin tx'[q].deleted[l]
        PROVE  Ahead(tx[p].mode, l) \cap Ahead(tx[q].mode, l) = {}
    <3>1. CASE q # r
      BY <1>1, <2>1, <3>1 DEF SeedsInv, Apart, Inserting, FoundNothing, Disjoint
    <3>2. CASE q = r
      <4>1. FoundNothing(t, l) /\ p \notin t.deleted[l]
        BY <1>1, <2>1, <3>2 DEF Inserting, FoundNothing
      <4>2. FoundNothing(tx[r], l) /\ p \notin tx[r].deleted[l]
        BY <2>1, <4>1
      <4> QED BY <2>1, <3>2, <4>2 DEF SeedsInv, Apart, Inserting, Disjoint
    <3> QED BY <3>1, <3>2
  <2> QED BY <1>7, <2>1 DEF Apart, Disjoint, IdsOf
<1> QED BY <1>2, <1>3, <1>4, <1>5, <1>6, <1>8, <1>9 DEF SeedsInv

\* A run that is over holds nothing.
LEMMA OverIsClosed ==
  ASSUME NEW pc \in {"idle", "done", "failed"}, NEW mode \in Modes \cup {NoRow}, NEW r \in Runs
  PROVE  /\ [Fresh EXCEPT !.pc = pc, !.mode = mode] \in Transactions
         /\ Ordered([Fresh EXCEPT !.pc = pc, !.mode = mode], r)
<1>1. Nothing \in Owns
  BY DEF Nothing, Owns
<1>2. Untouched \in [Lists -> SUBSET Rows] /\ Untouched \in [Lists -> SUBSET Ids]
      /\ [l \in Lists |-> NoRow] \in [Lists -> Plans \cup {NoRow}]
  BY DEF Untouched
<1> QED BY <1>1, <1>2 DEF Fresh, Transactions, Ordered, Closed

\* A transaction that is rolled back leaves nothing.
LEMMA RolledBack ==
  ASSUME SeedsInv, NEW r \in Runs, tx[r].pc = "running", NEW pc \in {"done", "failed"},
         tx' = [tx EXCEPT ![r] = [Fresh EXCEPT !.pc = pc, !.mode = tx[r].mode]],
         UNCHANGED <<rows, lists, used, sourced, routes>>
  PROVE  SeedsInv'
<1> DEFINE t == [Fresh EXCEPT !.pc = pc, !.mode = tx[r].mode]
<1>1. tx[r] \in Transactions /\ tx[r].mode \in Modes \cup {NoRow}
  BY DEF SeedsInv, Typed, Transactions
<1>2. t \in Transactions /\ Ordered(t, r) /\ t.pc = pc /\ t.mode = tx[r].mode
      /\ t.own = Nothing /\ t.deleted = Untouched
  BY <1>1, OverIsClosed DEF Fresh
<1>3. tx' = [tx EXCEPT ![r] = t] /\ UNCHANGED <<rows, lists, used, sourced, routes>>
  OBVIOUS
<1> HIDE DEF t
<1>4. tx' \in [Runs -> Transactions] /\ tx'[r] = t /\ \A q \in Runs : q # r => tx'[q] = tx[q]
  BY <1>2, <1>3 DEF SeedsInv, Typed
<1>5. Typed'
  BY <1>3, <1>4 DEF SeedsInv, Typed
<1>6. \A q \in Runs : Ordered(tx[q], q)'
  <2>1. \A q \in Runs : Ordered(tx'[q], q)
    BY <1>2, <1>4 DEF SeedsInv
  <2> QED BY <2>1 DEF Ordered, InOrder, Upserted, ListInOrder, Closed, Ran, FoundNothing
<1>7. DOMAIN tx'[r].own = {} /\ tx'[r].deleted["provider_catalogs"] = {}
  BY <1>2, <1>4 DEF Nothing, Untouched, Lists
<1>8. Locked' /\ UsedKept' /\ SourcedKept'
  BY <1>3, <1>4, <1>7 DEF SeedsInv, Locked, UsedKept, SourcedKept, Writes, IdsOf
<1>9. \A q \in Runs : tx'[q].mode = tx[q].mode
  BY <1>2, <1>4
<1>10. Committed'
  BY <1>3, <1>4 DEF SeedsInv, Committed, IdsOf
<1>11. SharedTargetSerializes'
  <2>1. \A l \in Lists : \A q \in Runs : Ahead(tx'[q].mode, l) = Ahead(tx[q].mode, l)
    BY <1>9
  <2> QED BY <1>3, <2>1 DEF SeedsInv, SharedTargetSerializes
<1>12. Apart'
  <2>1. ASSUME NEW l \in Lists, NEW q \in Runs, Inserting(q, l)', NEW p \in IdsOf(lists[l]) \cap Runs,
               p \notin tx'[q].deleted[l]
        PROVE  Ahead(tx[p].mode, l) \cap Ahead(tx[q].mode, l) = {}
    <3>1. q # r
      BY <1>2, <1>4, <2>1 DEF Inserting
    <3> QED BY <1>4, <2>1, <3>1 DEF SeedsInv, Apart, Inserting, FoundNothing, Disjoint
  <2>2. \A l \in Lists : \A q \in Runs : Ahead(tx'[q].mode, l) = Ahead(tx[q].mode, l)
    BY <1>9
  <2> QED BY <1>3, <2>1, <2>2 DEF Apart, Disjoint, IdsOf
<1> QED BY <1>5, <1>6, <1>8, <1>10, <1>11, <1>12 DEF SeedsInv

LEMMA FailStep ==
  ASSUME SeedsInv, NEW r \in Runs, tx[r].pc = "running", Fail(r)
  PROVE  SeedsInv'
BY RolledBack DEF Fail

LEMMA StartStep ==
  ASSUME SeedsInv, NEW r \in Runs, NEW mode \in Modes, Start(r, mode)
  PROVE  SeedsInv'
<1> DEFINE t == [Fresh EXCEPT !.pc = "running", !.mode = mode, !.todo = Program(mode)]
<1>1. tx[r].pc = "idle" /\ tx' = [tx EXCEPT ![r] = t] /\ UNCHANGED <<rows, lists, used, sourced, routes>>
  BY DEF Start
<1>2. t \in Transactions
  <2>1. [Fresh EXCEPT !.pc = "idle", !.mode = NoRow] \in Transactions
    BY OverIsClosed
  <2>2. Fresh \in Transactions
    BY <2>1 DEF Fresh, Transactions
  <2>3. Program(mode) \in SUBSET Position
    BY ProgramHolds
  <2> QED BY <2>2, <2>3 DEF Transactions
<1>3. t.pc = "running" /\ t.mode = mode /\ t.todo = Program(mode) /\ t.own = Nothing /\ t.inserted = Untouched
      /\ t.deleted = Untouched /\ t.plan = [l \in Lists |-> NoRow]
  BY DEF Fresh
<1> HIDE DEF t
<1>4. Ordered(t, r)
  <2>1. Ran(t) = {} BY <1>3 DEF Ran
  <2>2. InOrder(t) /\ Upserted(t) BY <1>3, <2>1 DEF InOrder, Upserted, Nothing
  <2>3. \A l \in Lists : ListInOrder(t, r, l)
    BY <1>3, <2>1 DEF ListInOrder, Untouched, FoundNothing
  <2> QED BY <1>3, <2>2, <2>3 DEF Ordered
<1>5. tx' \in [Runs -> Transactions] /\ tx'[r] = t /\ \A q \in Runs : q # r => tx'[q] = tx[q]
  BY <1>1, <1>2 DEF SeedsInv, Typed
<1>6. Typed'
  BY <1>1, <1>5 DEF SeedsInv, Typed
<1>7. \A q \in Runs : Ordered(tx[q], q)'
  <2>1. \A q \in Runs : Ordered(tx'[q], q)
    BY <1>4, <1>5 DEF SeedsInv
  <2> QED BY <2>1 DEF Ordered, InOrder, Upserted, ListInOrder, Closed, Ran, FoundNothing
<1>8. DOMAIN tx'[r].own = {} /\ tx'[r].deleted["provider_catalogs"] = {}
  BY <1>3, <1>5 DEF Nothing, Untouched, Lists
<1>9. Locked' /\ UsedKept' /\ SourcedKept'
  BY <1>1, <1>5, <1>8 DEF SeedsInv, Locked, UsedKept, SourcedKept, Writes, IdsOf
<1>10. \A l \in Lists : r \notin IdsOf(lists[l])
  BY <1>1 DEF SeedsInv, Committed
<1>11. Committed'
  BY <1>1, <1>5, <1>10 DEF SeedsInv, Committed, IdsOf
<1>12. SharedTargetSerializes'
  <2>1. ASSUME NEW l \in Lists, NEW p \in {row.id : row \in lists[l]} \cap Runs PROVE tx'[p] = tx[p]
    BY <1>5, <1>10 DEF IdsOf
  <2> QED BY <1>1, <2>1 DEF SeedsInv, SharedTargetSerializes
<1>13. Apart'
  <2>1. ASSUME NEW l \in Lists, NEW q \in Runs, Inserting(q, l)', NEW p \in IdsOf(lists[l]) \cap Runs,
               p \notin tx'[q].deleted[l]
        PROVE  Ahead(tx'[p].mode, l) \cap Ahead(tx'[q].mode, l) = {}
    <3>1. q # r
      BY <1>3, <1>5, <2>1 DEF Inserting, FoundNothing
    <3> QED BY <1>5, <1>10, <2>1, <3>1 DEF SeedsInv, Apart, Inserting, FoundNothing, Disjoint
  <2> QED BY <1>1, <2>1 DEF Apart, Disjoint, IdsOf
<1> QED BY <1>6, <1>7, <1>9, <1>11, <1>12, <1>13 DEF SeedsInv

\* Rows that are written over others.
LEMMA OverlayTyped ==
  ASSUME NEW new \in Owns, NEW old \in Owns
  PROVE  /\ Overlay(new, old) \in Owns
         /\ DOMAIN Overlay(new, old) = DOMAIN new \cup DOMAIN old
         /\ \A k \in DOMAIN Overlay(new, old) :
              Overlay(new, old)[k] = IF k \in DOMAIN new THEN new[k] ELSE old[k]
<1>1. PICK S \in SUBSET Keys : new \in [S -> Rows \cup {NoRow}]
  BY DEF Owns
<1>2. PICK T \in SUBSET Keys : old \in [T -> Rows \cup {NoRow}]
  BY DEF Owns
<1>3. DOMAIN Overlay(new, old) = DOMAIN new \cup DOMAIN old
      /\ \A k \in DOMAIN Overlay(new, old) :
           Overlay(new, old)[k] = IF k \in DOMAIN new THEN new[k] ELSE old[k]
  BY DEF Overlay
<1>4. Overlay(new, old) \in [S \cup T -> Rows \cup {NoRow}]
  BY <1>1, <1>2 DEF Overlay
<1>5. S \cup T \in SUBSET Keys
  OBVIOUS
<1> QED BY <1>3, <1>4, <1>5 DEF Owns

LEMMA RowTyped ==
  ASSUME NEW id \in Ids
  PROVE  Row(id) \in Rows /\ Row(id).id = id /\ Row(id).curated /\ Row(id) # NoRow
<1>1. Row(id) \in Rows /\ Row(id).id = id /\ Row(id).curated
  BY DEF Row, Rows
<1> QED BY <1>1, SeedsAssumption

\* What a run sees is typed.
LEMMA ViewTyped ==
  ASSUME Typed, NEW r \in Runs
  PROVE  /\ \A k \in Keys : View(r, k) \in Rows \cup {NoRow}
         /\ \A l \in Lists : Visible(r, l) \subseteq Rows /\ {row.id : row \in Visible(r, l)} \subseteq Ids
         /\ DOMAIN tx[r].own \subseteq Keys
<1>1. tx[r].own \in Owns /\ tx[r].inserted \in [Lists -> SUBSET Rows]
  BY DEF Typed, Transactions
<1>2. PICK S \in SUBSET Keys : tx[r].own \in [S -> Rows \cup {NoRow}]
  BY <1>1 DEF Owns
<1>3. \A l \in Lists : lists[l] \subseteq Rows
  BY DEF Typed
<1>4. \A l \in Lists : Visible(r, l) \subseteq Rows
  BY <1>1, <1>3 DEF Visible
<1>5. \A row \in Rows : row.id \in Ids
  BY DEF Rows
<1> QED BY <1>2, <1>4, <1>5 DEF View, Typed

\* What a run that goes on knows of its transaction.
LEMMA Running ==
  ASSUME SeedsInv, NEW r \in Runs, tx[r].pc = "running"
  PROVE  /\ tx[r] \in Transactions /\ InOrder(tx[r]) /\ Upserted(tx[r])
         /\ \A l \in Lists : ListInOrder(tx[r], r, l)
BY DEF SeedsInv, Typed, Ordered

\* What no statement of another kind than its own changes in a list.
LEMMA ListsKept ==
  ASSUME NEW r \in Runs, NEW t \in Transactions, InOrder(t), t.todo # {}, NEW l \in Lists,
         ListInOrder(t, r, l), NEW u, u.mode = t.mode, u.todo = t.todo \ {Min(t.todo)},
         u.plan[l] = t.plan[l], u.inserted[l] = t.inserted[l], u.deleted[l] = t.deleted[l],
         Min(t.todo) \notin {ReadOf(l), WriteOf(l)}
  PROVE  ListInOrder(u, r, l)
<1>1. Ran(u) = Ran(t) \cup {Min(t.todo)}
  BY StatementDone
<1> QED BY <1>1 DEF ListInOrder, FoundNothing

LEMMA UpsertStep ==
  ASSUME SeedsInv, NEW r \in Runs, Upsert(r)
  PROVE  SeedsInv'
<1> DEFINE IdOf(k) == IF View(r, k) = NoRow THEN r ELSE View(r, k).id
           new == [k \in Now(r).keys |-> Row(IdOf(k))]
           t == [Written(tx[r], new) EXCEPT !.todo = @ \ {Min(@)}]
           i == Min(tx[r].todo)
<1>1. tx[r].pc = "running" /\ tx[r].todo # {} /\ WaitsFor(r) = {} /\ At(r, "upsert")
      /\ tx' = [tx EXCEPT ![r] = t] /\ UNCHANGED <<rows, lists, used, sourced, routes>>
  BY DEF Upsert, At, Done
<1>2. tx[r] \in Transactions /\ InOrder(tx[r]) /\ Upserted(tx[r])
      /\ \A l \in Lists : ListInOrder(tx[r], r, l)
  BY <1>1, Running
<1>3. Now(r) = Statements[i] /\ Now(r).keys \subseteq Keys /\ i \in Upserts /\ i \in Position
  BY <1>1, <1>2, NowByOp, NextStatement
<1>4. \A k \in Now(r).keys : IdOf(k) \in Ids
  <2>1. \A row \in Rows : row.id \in Ids
    BY DEF Rows
  <2> QED BY <1>3, <2>1, ViewTyped DEF SeedsInv, Ids
<1>5. /\ DOMAIN new = Now(r).keys
      /\ \A k \in Now(r).keys : new[k] \in Rows /\ new[k] # NoRow /\ new[k].id = IdOf(k)
  BY <1>4, RowTyped
<1>6. new \in Owns
  <2>1. new \in [Now(r).keys -> Rows \cup {NoRow}]
    BY <1>5
  <2> QED BY <1>3, <2>1 DEF Owns
<1>7. tx[r].own \in Owns /\ tx[r].todo \in SUBSET Position
  BY <1>2 DEF Transactions
<1> DEFINE own == Overlay(new, tx[r].own)
<1>8. own \in Owns /\ DOMAIN own = Now(r).keys \cup DOMAIN tx[r].own
      /\ \A k \in DOMAIN own : own[k] = IF k \in Now(r).keys THEN new[k] ELSE tx[r].own[k]
  BY <1>5, <1>6, <1>7, OverlayTyped
<1> HIDE DEF new
<1>9. t = [tx[r] EXCEPT !.own = own, !.todo = tx[r].todo \ {i}]
  BY <1>2 DEF Written, Transactions
<1> HIDE DEF own, i
<1>10. /\ t \in Transactions /\ t.pc = "running" /\ t.mode = tx[r].mode /\ t.own = own
       /\ t.todo = tx[r].todo \ {i} /\ t.plan = tx[r].plan /\ t.inserted = tx[r].inserted
       /\ t.deleted = tx[r].deleted
  BY <1>1, <1>2, <1>7, <1>8, <1>9 DEF Transactions
<1> HIDE DEF t
<1>11. InOrder(t) /\ Ran(t) = Ran(tx[r]) \cup {i}
  BY <1>1, <1>2, <1>10, StatementDone DEF i
<1>12. Upserted(t)
  <2>1. ASSUME NEW j \in Ran(t), j \in Upserts, NEW k \in Statements[j].keys
        PROVE  k \in DOMAIN own /\ own[k] # NoRow
    <3>1. CASE j = i
      BY <1>3, <1>5, <1>8, <2>1, <3>1
    <3>2. CASE j \in Ran(tx[r])
      <4>1. k \in DOMAIN tx[r].own /\ tx[r].own[k] # NoRow
        BY <1>2, <2>1, <3>2 DEF Upserted
      <4> QED BY <1>5, <1>8, <4>1
    <3> QED BY <1>11, <2>1, <3>1, <3>2
  <2>2. ASSUME NEW k \in DOMAIN own, own[k] = NoRow
        PROVE  \E j \in t.todo : j \in Upserts /\ k \in Statements[j].keys
    <3>1. k \notin Now(r).keys /\ k \in DOMAIN tx[r].own /\ tx[r].own[k] = NoRow
      BY <1>5, <1>8, <2>2
    <3>2. PICK j \in tx[r].todo : j \in Upserts /\ k \in Statements[j].keys
      BY <1>2, <3>1 DEF Upserted
    <3> QED BY <1>3, <1>10, <3>1, <3>2
  <2> QED BY <1>10, <2>1, <2>2 DEF Upserted
<1>13. \A l \in Lists : ListInOrder(t, r, l)
  <2>1. ASSUME NEW l \in Lists PROVE Min(tx[r].todo) \notin {ReadOf(l), WriteOf(l)}
    BY <1>3 DEF i, Upserts, ReadOf, WriteOf
  <2> QED BY <1>1, <1>2, <1>10, <2>1, ListsKept DEF i
<1>14. Ordered(t, r)
  BY <1>10, <1>11, <1>12, <1>13 DEF Ordered
<1>15. ASSUME NEW k \in DOMAIN t.own PROVE Writes(r, k) \/ \A q \in Runs : q # r => ~Writes(q, k)
  <2>1. \A q \in Runs : q # r => ~Blocks(q, r)
    BY <1>1 DEF WaitsFor
  <2>2. Now(r).op = "upsert"
    BY <1>1 DEF At
  <2>3. \A q \in Runs : q # r => \A m \in Now(r).keys : ~Writes(q, m)
    BY <2>1, <2>2 DEF Blocks
  <2> QED BY <1>8, <1>10, <1>15, <2>3 DEF Writes
<1>16. ASSUME NEW k \in used, k \in DOMAIN t.own
       PROVE  t.own[k] # NoRow /\ t.own[k].id = rows[k].id
  <2>1. /\ rows[k] # NoRow
        /\ k \in DOMAIN tx[r].own => tx[r].own[k] # NoRow /\ tx[r].own[k].id = rows[k].id
    BY DEF SeedsInv, UsedKept, Writes
  <2>2. IdOf(k) = rows[k].id
    BY <2>1 DEF View
  <2> QED BY <1>5, <1>8, <1>10, <1>16, <2>1, <2>2
<1>17. t.deleted["provider_catalogs"] \cap sourced = {}
  BY <1>10 DEF SeedsInv, SourcedKept
<1>18. \A l \in Lists : tx[r].deleted[l] \subseteq t.deleted[l]
       /\ (FoundNothing(t, l) => FoundNothing(tx[r], l))
  BY <1>10 DEF FoundNothing
<1> QED BY <1>1, <1>10, <1>14, <1>15, <1>16, <1>17, <1>18, LocalStep

\* A step that leaves the rows with a key alone.
LEMMA OwnKept ==
  ASSUME SeedsInv, NEW r \in Runs, tx[r].pc = "running", tx[r].todo # {},
         Min(tx[r].todo) \notin Upserts, NEW t, t.mode = tx[r].mode, t.own = tx[r].own,
         t.todo = tx[r].todo \ {Min(tx[r].todo)}
  PROVE  /\ InOrder(t) /\ Ran(t) = Ran(tx[r]) \cup {Min(tx[r].todo)} /\ Upserted(t)
         /\ \A k \in DOMAIN t.own : Writes(r, k)
         /\ \A k \in used : k \in DOMAIN t.own => t.own[k] # NoRow /\ t.own[k].id = rows[k].id
<1>1. tx[r] \in Transactions /\ InOrder(tx[r]) /\ Upserted(tx[r])
  BY Running
<1>2. InOrder(t) /\ Ran(t) = Ran(tx[r]) \cup {Min(tx[r].todo)}
  BY <1>1, StatementDone
<1>3. Upserted(t)
  BY <1>1, <1>2 DEF Upserted
<1> QED BY <1>2, <1>3 DEF Writes, SeedsInv, UsedKept

LEMMA EmptyStep ==
  ASSUME SeedsInv, NEW r \in Runs, Empty(r)
  PROVE  SeedsInv'
<1> DEFINE l == Now(r).target
           ids == {row.id : row \in Visible(r, l)}
           i == Min(tx[r].todo)
           t == [[tx[r] EXCEPT !.deleted[l] = @ \cup ids] EXCEPT !.todo = @ \ {Min(@)}]
<1>1. tx[r].pc = "running" /\ tx[r].todo # {} /\ At(r, "empty")
  BY DEF Empty, At
<1>2. CASE l = "provider_catalogs" /\ ids \cap sourced # {}
  BY <1>1, <1>2, FailStep DEF Empty
<1>3. CASE ~(l = "provider_catalogs" /\ ids \cap sourced # {})
  <2>1. tx' = [tx EXCEPT ![r] = t] /\ UNCHANGED <<rows, lists, used, sourced, routes>>
    BY <1>3 DEF Empty, Done
  <2>2. tx[r] \in Transactions /\ InOrder(tx[r])
        /\ \A m \in Lists : ListInOrder(tx[r], r, m)
    BY <1>1, Running
  <2>3. l \in Lists /\ i = EmptyOf(l) /\ i \in Position /\ i \in Program(tx[r].mode)
        /\ \A j \in Ran(tx[r]) : j < i
    BY <1>1, <2>2, NowByOp, NextStatement
  <2>4. i \notin Upserts /\ \A m \in Lists : i < ReadOf(m) /\ i < WriteOf(m) /\ i \notin {ReadOf(m), WriteOf(m)}
    BY <2>3 DEF EmptyOf, ReadOf, WriteOf, Upserts
  <2>5. ids \subseteq Ids
    BY <2>3, ViewTyped DEF SeedsInv
  <2>6. tx[r].mode \in Modes /\ tx[r].mode.reset
    <3>1. tx[r].mode \in Modes BY <2>2 DEF InOrder
    <3>2. i \in 1..5 BY <2>3 DEF EmptyOf
    <3> QED BY <2>3, <3>1, <3>2, ProgramHolds
  <2> DEFINE deleted == [tx[r].deleted EXCEPT ![l] = @ \cup ids]
  <2>7. tx[r].deleted \in [Lists -> SUBSET Ids] /\ tx[r].todo \in SUBSET Position
    BY <2>2 DEF Transactions
  <2>8. /\ deleted \in [Lists -> SUBSET Ids] /\ deleted[l] = tx[r].deleted[l] \cup ids
        /\ \A m \in Lists : m # l => deleted[m] = tx[r].deleted[m]
    BY <2>3, <2>5, <2>7
  <2>9. t = [tx[r] EXCEPT !.deleted = deleted, !.todo = tx[r].todo \ {i}]
    BY <2>2 DEF Transactions
  <2> HIDE DEF deleted, i, ids
  <2>10. /\ t \in Transactions /\ t.pc = "running" /\ t.mode = tx[r].mode /\ t.own = tx[r].own
         /\ t.todo = tx[r].todo \ {i} /\ t.plan = tx[r].plan /\ t.inserted = tx[r].inserted
         /\ t.deleted = deleted
    BY <1>1, <2>2, <2>7, <2>8, <2>9 DEF Transactions
  <2> HIDE DEF t, l
  <2>11. /\ InOrder(t) /\ Ran(t) = Ran(tx[r]) \cup {i} /\ Upserted(t)
         /\ \A k \in DOMAIN t.own : Writes(r, k)
         /\ \A k \in used : k \in DOMAIN t.own => t.own[k] # NoRow /\ t.own[k].id = rows[k].id
    BY <1>1, <2>4, <2>10, OwnKept DEF i
  <2>12. ASSUME NEW m \in Lists PROVE ListInOrder(t, r, m)
    <3>1. CASE m # l
      BY <1>1, <2>2, <2>4, <2>8, <2>10, <3>1, ListsKept DEF i
    <3>2. CASE m = l
      <4>1. ReadOf(l) \notin Ran(t) /\ WriteOf(l) \notin Ran(t)
        BY <2>3, <2>4, <2>11 DEF Position, ReadOf, WriteOf, EmptyOf
      <4>2. ReadOf(l) \notin Ran(tx[r]) /\ WriteOf(l) \notin Ran(tx[r])
        BY <2>11, <4>1
      <4>3. t.plan[l] = NoRow /\ t.inserted[l] = {}
        BY <2>2, <2>3, <2>10, <4>2 DEF ListInOrder
      <4>4. EmptyOf(l) \in Ran(t)
        BY <2>3, <2>11
      <4> QED BY <2>6, <2>10, <3>2, <4>1, <4>3, <4>4 DEF ListInOrder, FoundNothing
    <3> QED BY <3>1, <3>2
  <2>13. Ordered(t, r)
    BY <2>10, <2>11, <2>12 DEF Ordered
  <2>14. t.deleted["provider_catalogs"] \cap sourced = {}
    <3>1. tx[r].deleted["provider_catalogs"] \cap sourced = {} BY DEF SeedsInv, SourcedKept
    <3> QED BY <1>3, <2>8, <2>10, <3>1 DEF Lists
  <2>15. \A m \in Lists : tx[r].deleted[m] \subseteq t.deleted[m] /\ (FoundNothing(t, m) => FoundNothing(tx[r], m))
    BY <2>8, <2>10 DEF FoundNothing
  <2> QED BY <1>1, <2>1, <2>10, <2>11, <2>13, <2>14, <2>15, LocalStep
<1> QED BY <1>2, <1>3

\* What a deletion leaves of a transaction's rows.
LEMMA OverlayGone ==
  ASSUME NEW keys \in SUBSET Keys, NEW old \in Owns
  PROVE  LET own == Overlay([k \in keys |-> NoRow], old)
         IN /\ own \in Owns /\ DOMAIN own = keys \cup DOMAIN old
            /\ \A k \in DOMAIN own : own[k] = IF k \in keys THEN NoRow ELSE old[k]
<1> DEFINE gone == [k \in keys |-> NoRow]
<1>1. gone \in Owns /\ DOMAIN gone = keys /\ \A k \in keys : gone[k] = NoRow
  <2>1. gone \in [keys -> Rows \cup {NoRow}] OBVIOUS
  <2> QED BY <2>1 DEF Owns
<1> QED BY <1>1, OverlayTyped

LEMMA DeleteStep ==
  ASSUME SeedsInv, NEW r \in Runs, Delete(r)
  PROVE  SeedsInv'
<1> DEFINE keys == {k \in Now(r).keys : View(r, k) # NoRow}
           gone == [k \in keys |-> NoRow]
           own == Overlay(gone, tx[r].own)
           deleted == [l \in Lists |-> IF l \in Cascades(keys)
                         THEN tx[r].deleted[l] \cup {row.id : row \in Visible(r, l)} ELSE tx[r].deleted[l]]
           i == Min(tx[r].todo)
           t == [[Written(tx[r], gone) EXCEPT
                   !.deleted = [l \in Lists |-> IF l \in Cascades(keys)
                                  THEN @[l] \cup {row.id : row \in Visible(r, l)} ELSE @[l]]]
                  EXCEPT !.todo = @ \ {Min(@)}]
<1>1. tx[r].pc = "running" /\ tx[r].todo # {} /\ WaitsFor(r) = {} /\ At(r, "delete")
  BY DEF Delete, At
<1>2. CASE Restricted(r, keys)
  BY <1>1, <1>2, FailStep DEF Delete
<1>3. CASE ~Restricted(r, keys)
  <2>1. tx' = [tx EXCEPT ![r] = t] /\ UNCHANGED <<rows, lists, used, sourced, routes>>
    BY <1>3 DEF Delete, Done
  <2>2. tx[r] \in Transactions /\ InOrder(tx[r]) /\ Upserted(tx[r])
        /\ \A m \in Lists : ListInOrder(tx[r], r, m)
    BY <1>1, Running
  <2>3. /\ Now(r) = Statements[i] /\ Now(r).keys \subseteq Keys
        /\ i \in {2, 4, 5} /\ i \in Position /\ i \in Program(tx[r].mode) /\ i \in tx[r].todo
        /\ \A j \in Ran(tx[r]) : j < i
    BY <1>1, <2>2, NowByOp, NextStatement
  <2>4. i \notin Upserts /\ \A m \in Lists : i < ReadOf(m) /\ i < WriteOf(m) /\ i \notin {ReadOf(m), WriteOf(m)}
    BY <2>3 DEF ReadOf, WriteOf, Upserts
  <2>5. tx[r].mode \in Modes /\ tx[r].mode.reset
    <3>1. tx[r].mode \in Modes BY <2>2 DEF InOrder
    <3>2. i \in 1..5 BY <2>3
    <3> QED BY <2>3, <3>1, <3>2, ProgramHolds
  <2>6. tx[r].own \in Owns /\ tx[r].deleted \in [Lists -> SUBSET Ids] /\ tx[r].todo \in SUBSET Position
    BY <2>2 DEF Transactions
  <2>7. keys \in SUBSET Keys
    BY <2>3
  <2>8. own \in Owns /\ DOMAIN own = keys \cup DOMAIN tx[r].own
        /\ \A k \in DOMAIN own : own[k] = IF k \in keys THEN NoRow ELSE tx[r].own[k]
    <3> DEFINE old == tx[r].own
    <3>1. old \in Owns BY <2>6
    <3> HIDE DEF old, keys
    <3>2. LET new == Overlay(gone, old)
          IN /\ new \in Owns /\ DOMAIN new = keys \cup DOMAIN old
             /\ \A k \in DOMAIN new : new[k] = IF k \in keys THEN NoRow ELSE old[k]
      BY <2>7, <3>1, OverlayGone
    <3> QED BY <3>2 DEF old
  <2>10. /\ deleted \in [Lists -> SUBSET Ids]
         /\ \A l \in Lists : tx[r].deleted[l] \subseteq deleted[l]
         /\ \A l \in Lists : l \notin Cascades(keys) => deleted[l] = tx[r].deleted[l]
    <3>1. \A l \in Lists : {row.id : row \in Visible(r, l)} \subseteq Ids
      BY ViewTyped DEF SeedsInv
    <3> HIDE DEF keys
    <3> QED BY <2>6, <3>1
  <2>11. t = [tx[r] EXCEPT !.own = own, !.deleted = deleted, !.todo = tx[r].todo \ {i}]
    <3> HIDE DEF keys, gone
    <3> QED BY <2>2 DEF Written, Transactions
  <2>12. Cascades(keys) \subseteq {"geography_memberships"}
         /\ (Cascades(keys) # {} => i = 4)
    <3>1. Cascades(keys) # {} => \E k \in Now(r).keys : k \in Subnationals
      BY DEF Cascades, Refs
    <3>2. CASE i = 2
      BY <2>3, <3>1, <3>2, StatementsListed DEF Statement, Subnationals, Providers, Cascades
    <3>3. CASE i = 5
      BY <2>3, <3>1, <3>3, StatementsListed DEF Statement, Subnationals, Categories, Cascades
    <3> QED BY <2>3, <3>2, <3>3 DEF Cascades
  <2> HIDE DEF own, deleted, gone, i, t
  <2>13. /\ t \in Transactions /\ t.pc = "running" /\ t.mode = tx[r].mode /\ t.own = own
         /\ t.todo = tx[r].todo \ {i} /\ t.plan = tx[r].plan /\ t.inserted = tx[r].inserted
         /\ t.deleted = deleted
    BY <1>1, <2>2, <2>6, <2>8, <2>10, <2>11 DEF Transactions
  <2>14. InOrder(t) /\ Ran(t) = Ran(tx[r]) \cup {i}
    BY <1>1, <2>2, <2>13, StatementDone DEF i
  <2>15. \A j \in Ran(t) : j \notin Upserts
    BY <2>3, <2>14, <2>2, NextStatement, <1>1 DEF Upserts, Position
  <2>16. ASSUME NEW k \in DOMAIN own, own[k] = NoRow
         PROVE  \E j \in t.todo : j \in Upserts /\ k \in Statements[j].keys
    <3>1. CASE k \in keys
      <4>1. k \in Statements[i].keys /\ i \in Program(tx[r].mode)
        BY <2>3, <3>1
      <4>2. PICK j \in Program(tx[r].mode) : j \in Upserts /\ i < j /\ k \in Statements[j].keys
        BY <2>3, <2>5, <4>1, DeletedIsUpserted
      <4>3. j \in tx[r].todo /\ j # i
        BY <2>2, <2>3, <4>2 DEF InOrder, Position
      <4> QED BY <2>13, <4>2, <4>3
    <3>2. CASE k \notin keys
      <4>1. k \in DOMAIN tx[r].own /\ tx[r].own[k] = NoRow
        BY <2>8, <2>16, <3>2
      <4>2. PICK j \in tx[r].todo : j \in Upserts /\ k \in Statements[j].keys
        BY <2>2, <4>1 DEF Upserted
      <4> QED BY <2>4, <2>13, <4>2
    <3> QED BY <3>1, <3>2
  <2>17. Upserted(t)
    BY <2>13, <2>15, <2>16 DEF Upserted
  <2>18. ASSUME NEW m \in Lists PROVE ListInOrder(t, r, m)
    <3>1. CASE m \notin Cascades(keys)
      <4>1. t.deleted[m] = tx[r].deleted[m]
        BY <2>10, <2>13, <3>1
      <4> QED BY <1>1, <2>2, <2>4, <2>13, <4>1, ListsKept DEF i
    <3>2. CASE m \in Cascades(keys)
      <4>1. m = "geography_memberships" /\ i = 4
        BY <2>12, <3>2
      <4>2. ReadOf(m) \notin Ran(t) /\ WriteOf(m) \notin Ran(t)
        BY <2>3, <2>14, <4>1 DEF Position, ReadOf, WriteOf
      <4>3. t.plan[m] = NoRow /\ t.inserted[m] = {}
        BY <2>2, <2>13, <2>14, <4>2 DEF ListInOrder
      <4> QED BY <2>5, <2>13, <2>14, <4>1, <4>2, <4>3 DEF ListInOrder, FoundNothing
    <3> QED BY <3>1, <3>2
  <2>19. Ordered(t, r)
    BY <2>13, <2>14, <2>17, <2>18 DEF Ordered
  <2>20. ASSUME NEW k \in DOMAIN t.own PROVE Writes(r, k) \/ \A q \in Runs : q # r => ~Writes(q, k)
    <3>1. CASE k \in DOMAIN tx[r].own
      BY <3>1 DEF Writes
    <3>2. CASE k \notin DOMAIN tx[r].own
      <4>1. k \in Now(r).keys /\ rows[k] # NoRow /\ ~Writes(r, k)
        BY <2>8, <2>13, <2>20, <3>2 DEF View, Writes
      <4>2. Now(r).op = "delete"
        BY <1>1 DEF At
      <4>3. \A q \in Runs : q # r => ~Blocks(q, r)
        BY <1>1 DEF WaitsFor
      <4> QED BY <4>1, <4>2, <4>3 DEF Blocks
    <3> QED BY <3>1, <3>2
  <2>21. ASSUME NEW k \in used, k \in DOMAIN t.own
         PROVE  t.own[k] # NoRow /\ t.own[k].id = rows[k].id
    <3>1. k \notin keys
      BY <1>3 DEF Restricted
    <3>2. k \in DOMAIN tx[r].own /\ own[k] = tx[r].own[k]
      BY <2>8, <2>13, <2>21, <3>1
    <3> QED BY <2>13, <3>2 DEF SeedsInv, UsedKept, Writes
  <2>22. t.deleted["provider_catalogs"] \cap sourced = {}
    <3>1. tx[r].deleted["provider_catalogs"] \cap sourced = {} BY DEF SeedsInv, SourcedKept
    <3>2. "provider_catalogs" \notin Cascades(keys) BY <2>12
    <3> QED BY <2>10, <2>13, <3>1, <3>2 DEF Lists
  <2>23. \A m \in Lists : tx[r].deleted[m] \subseteq t.deleted[m] /\ (FoundNothing(t, m) => FoundNothing(tx[r], m))
    BY <2>10, <2>13 DEF FoundNothing
  <2> QED BY <1>1, <2>1, <2>13, <2>19, <2>20, <2>21, <2>22, <2>23, LocalStep
<1> QED BY <1>2, <1>3

LEMMA ReadStep ==
  ASSUME SeedsInv, NEW r \in Runs, Read(r)
  PROVE  SeedsInv'
<1> DEFINE l == Now(r).target
           found == Visible(r, l)
           one == IF found = {} THEN NoRow ELSE CHOOSE row \in found : TRUE
           refs == [k \in Refs(l) |-> View(r, k).id]
           read == [refs |-> refs, found |-> one]
           i == Min(tx[r].todo)
           t == [[tx[r] EXCEPT !.plan[l] = read] EXCEPT !.todo = @ \ {Min(@)}]
<1>1. tx[r].pc = "running" /\ tx[r].todo # {} /\ At(r, "read")
  BY DEF Read, At
<1>2. CASE (\E k \in Refs(l) : View(r, k) = NoRow) \/ Cardinality(found) > 1
  BY <1>1, <1>2, FailStep DEF Read
<1>3. CASE ~((\E k \in Refs(l) : View(r, k) = NoRow) \/ Cardinality(found) > 1)
  <2>1. tx' = [tx EXCEPT ![r] = t] /\ UNCHANGED <<rows, lists, used, sourced, routes>>
    BY <1>3 DEF Read, Done
  <2>2. tx[r] \in Transactions /\ InOrder(tx[r])
        /\ \A m \in Lists : ListInOrder(tx[r], r, m)
    BY <1>1, Running
  <2>3. l \in Lists /\ i = ReadOf(l) /\ i \in Position
        /\ \A j \in Ran(tx[r]) : j < i
    BY <1>1, <2>2, NowByOp, NextStatement
  <2>4. i \notin Upserts /\ \A m \in Lists : m # l => i \notin {ReadOf(m), WriteOf(m)}
    BY <2>3 DEF ReadOf, WriteOf, Upserts, Lists
  <2>5. read \in Plans
    <3>1. \A k \in Refs(l) : k \in Keys
      BY <2>3 DEF Refs, Keys, Lists
    <3>2. \A k \in Refs(l) : View(r, k) \in Rows
      BY <1>3, <3>1, ViewTyped DEF SeedsInv
    <3>3. refs \in [Refs(l) -> Ids]
      BY <3>2 DEF Rows
    <3>4. refs \in UNION {[Refs(m) -> Ids] : m \in Lists}
      <4> HIDE DEF refs, l
      <4> QED BY <2>3, <3>3
    <3>5. one \in Rows \cup {NoRow}
      <4>1. found \subseteq Rows BY <2>3, ViewTyped DEF SeedsInv
      <4> HIDE DEF found
      <4> QED BY <4>1
    <3> HIDE DEF refs, one
    <3> QED BY <3>4, <3>5 DEF Plans
  <2>6. read # NoRow /\ read.found = one
    BY <2>5, SeedsAssumption
  <2>7. /\ one = NoRow => found = {}
        /\ one # NoRow => one \in found
    <3>1. found \subseteq Rows BY <2>3, ViewTyped DEF SeedsInv
    <3>2. NoRow \notin Rows BY SeedsAssumption
    <3> HIDE DEF found
    <3> QED BY <3>1, <3>2
  <2>8. WriteOf(l) \notin Ran(tx[r]) /\ WriteOf(l) # i
    BY <2>3 DEF Position, ReadOf, WriteOf
  <2>9. found = {row \in lists[l] : row.id \notin tx[r].deleted[l]}
    <3>1. tx[r].inserted[l] = {} BY <2>2, <2>3, <2>8 DEF ListInOrder
    <3> QED BY <3>1 DEF Visible
  <2> DEFINE plan == [tx[r].plan EXCEPT ![l] = read]
  <2>10. tx[r].plan \in [Lists -> Plans \cup {NoRow}] /\ tx[r].todo \in SUBSET Position
    BY <2>2 DEF Transactions
  <2> HIDE DEF read, one, found
  <2>11. /\ plan \in [Lists -> Plans \cup {NoRow}] /\ plan[l] = read
         /\ \A m \in Lists : m # l => plan[m] = tx[r].plan[m]
    <3> HIDE DEF l
    <3> QED BY <2>3, <2>5, <2>10
  <2>12. t = [tx[r] EXCEPT !.plan = plan, !.todo = tx[r].todo \ {i}]
    BY <2>2 DEF Transactions
  <2> HIDE DEF plan, i, l, t
  <2>13. /\ t \in Transactions /\ t.pc = "running" /\ t.mode = tx[r].mode /\ t.own = tx[r].own
         /\ t.todo = tx[r].todo \ {i} /\ t.plan = plan /\ t.inserted = tx[r].inserted
         /\ t.deleted = tx[r].deleted
    BY <1>1, <2>2, <2>10, <2>11, <2>12 DEF Transactions
  <2>14. /\ InOrder(t) /\ Ran(t) = Ran(tx[r]) \cup {i} /\ Upserted(t)
         /\ \A k \in DOMAIN t.own : Writes(r, k)
         /\ \A k \in used : k \in DOMAIN t.own => t.own[k] # NoRow /\ t.own[k].id = rows[k].id
    BY <1>1, <2>4, <2>13, OwnKept DEF i
  <2>15. ASSUME NEW m \in Lists PROVE ListInOrder(t, r, m)
    <3>1. CASE m # l
      BY <1>1, <2>2, <2>4, <2>11, <2>13, <3>1, ListsKept DEF i
    <3>2. CASE m = l
      <4>1. t.plan[l] = read /\ ReadOf(l) \in Ran(t) /\ WriteOf(l) \notin Ran(t)
        BY <2>3, <2>8, <2>11, <2>13, <2>14
      <4>2. t.inserted[l] = {}
        BY <2>2, <2>3, <2>8, <2>13 DEF ListInOrder
      <4>3. one # NoRow => one.id \notin t.deleted[l]
        BY <2>7, <2>9, <2>13
      <4>4. t.deleted[l] # {} => /\ t.mode.reset
                                 /\ \/ EmptyOf(l) \in Ran(t)
                                    \/ l = "geography_memberships" /\ 4 \in Ran(t)
        BY <2>2, <2>3, <2>13, <2>14 DEF ListInOrder
      <4> QED BY <2>6, <3>2, <4>1, <4>2, <4>3, <4>4 DEF ListInOrder
    <3> QED BY <3>1, <3>2
  <2>16. Ordered(t, r)
    BY <2>13, <2>14, <2>15 DEF Ordered
  <2>17. t.deleted["provider_catalogs"] \cap sourced = {}
    BY <2>13 DEF SeedsInv, SourcedKept
  <2>18. ASSUME NEW m \in Lists, FoundNothing(t, m)
         PROVE  FoundNothing(tx[r], m) \/ IdsOf(lists[m]) \subseteq t.deleted[m]
    <3>1. CASE m # l
      BY <2>11, <2>13, <2>18, <3>1 DEF FoundNothing
    <3>2. CASE m = l
      <4>1. found = {} BY <2>6, <2>7, <2>11, <2>13, <2>18, <3>2 DEF FoundNothing
      <4> QED BY <2>9, <2>13, <3>2, <4>1 DEF IdsOf
    <3> QED BY <3>1, <3>2
  <2>19. \A m \in Lists : tx[r].deleted[m] \subseteq t.deleted[m]
    BY <2>13
  <2> QED BY <1>1, <2>1, <2>13, <2>14, <2>16, <2>17, <2>18, <2>19, LocalStep
<1> QED BY <1>2, <1>3

\* A list is written by a run that has read it.
LEMMA WriteStep ==
  ASSUME SeedsInv, NEW r \in Runs, Write(r)
  PROVE  SeedsInv'
<1> DEFINE l == Now(r).target
           plan == tx[r].plan[l]
           here(k) == View(r, k) # NoRow /\ View(r, k).id = plan.refs[k]
           i == Min(tx[r].todo)
<1>1. tx[r].pc = "running" /\ tx[r].todo # {} /\ At(r, "write")
  BY DEF Write, At
<1>2. tx[r] \in Transactions /\ InOrder(tx[r])
      /\ \A m \in Lists : ListInOrder(tx[r], r, m)
  BY <1>1, Running
<1>3. l \in Lists /\ i = WriteOf(l) /\ i \in Position /\ i \in Program(tx[r].mode)
      /\ (\A j \in Ran(tx[r]) : j < i) /\ \A j \in tx[r].todo : i <= j
  BY <1>1, <1>2, NowByOp, NextStatement
<1>4. i \notin Upserts /\ \A m \in Lists : m # l => i \notin {ReadOf(m), WriteOf(m)}
  BY <1>3 DEF ReadOf, WriteOf, Upserts, Lists
<1>5. plan # NoRow
  <2>1. ReadOf(l) \in Program(tx[r].mode)
    <3>1. Statements[ReadOf(l)].target = Statements[WriteOf(l)].target /\ ReadOf(l) \in Position
          /\ ReadOf(l) \notin 1..5 /\ WriteOf(l) \in Position
      BY <1>3, StatementsListed DEF Statement, ReadOf, WriteOf, Lists, Position
    <3> QED BY <1>2, <1>3, <3>1, ProgramHolds DEF InOrder
  <2>2. ReadOf(l) \notin tx[r].todo
    BY <1>3 DEF ReadOf, WriteOf
  <2> QED BY <1>2, <1>3, <2>1, <2>2 DEF ListInOrder, Ran
<1>6. plan \in Plans /\ plan.found \in Rows \cup {NoRow}
  <2>1. tx[r].plan \in [Lists -> Plans \cup {NoRow}] BY <1>2 DEF Transactions
  <2>2. plan \in Plans BY <1>3, <1>5, <2>1
  <2> QED BY <2>2 DEF Plans
<1>7. ASSUME NEW t \in Transactions, tx' = [tx EXCEPT ![r] = t],
             UNCHANGED <<rows, lists, used, sourced, routes>>,
             t.pc = "running", t.mode = tx[r].mode, t.own = tx[r].own, t.todo = tx[r].todo \ {i},
             t.plan = tx[r].plan, t.deleted = tx[r].deleted,
             \A m \in Lists : m # l => t.inserted[m] = tx[r].inserted[m],
             IF plan.found = NoRow THEN t.inserted[l] = {Row(r)} ELSE t.inserted[l] = tx[r].inserted[l]
      PROVE  SeedsInv'
  <2> HIDE DEF plan, i, l
  <2>1. /\ InOrder(t) /\ Ran(t) = Ran(tx[r]) \cup {i} /\ Upserted(t)
        /\ \A k \in DOMAIN t.own : Writes(r, k)
        /\ \A k \in used : k \in DOMAIN t.own => t.own[k] # NoRow /\ t.own[k].id = rows[k].id
    BY <1>1, <1>4, <1>7, OwnKept DEF i
  <2>2. ASSUME NEW m \in Lists PROVE ListInOrder(t, r, m)
    <3>1. CASE m # l
      BY <1>1, <1>2, <1>4, <1>7, <3>1, ListsKept DEF i
    <3>2. CASE m = l
      <4>1. ListInOrder(tx[r], r, l) /\ plan = tx[r].plan[l] /\ t.plan[l] = plan
        BY <1>2, <1>3, <1>7 DEF plan
      <4>2. ReadOf(l) # i /\ EmptyOf(l) # i /\ 4 # i
        BY <1>3 DEF ReadOf, WriteOf, EmptyOf
      <4>3. WriteOf(l) \in Ran(t)
        BY <1>3, <2>1
      <4>4. CASE plan.found = NoRow
        BY <1>5, <1>7, <2>1, <3>2, <4>1, <4>2, <4>3, <4>4 DEF ListInOrder, FoundNothing
      <4>5. CASE plan.found # NoRow
        BY <1>5, <1>7, <2>1, <3>2, <4>1, <4>2, <4>3, <4>5 DEF ListInOrder, FoundNothing
      <4> QED BY <4>4, <4>5
    <3> QED BY <3>1, <3>2
  <2>3. Ordered(t, r)
    BY <1>7, <2>1, <2>2 DEF Ordered
  <2>4. t.deleted["provider_catalogs"] \cap sourced = {}
    BY <1>7 DEF SeedsInv, SourcedKept
  <2>5. \A m \in Lists : tx[r].deleted[m] \subseteq t.deleted[m] /\ (FoundNothing(t, m) => FoundNothing(tx[r], m))
    BY <1>7 DEF FoundNothing
  <2> QED BY <1>1, <1>7, <2>1, <2>3, <2>4, <2>5, LocalStep
<1>8. tx[r].inserted \in [Lists -> SUBSET Rows] /\ tx[r].updated \in [Lists -> SUBSET Ids]
      /\ tx[r].todo \in SUBSET Position
  BY <1>2 DEF Transactions
<1>9. CASE plan.found = NoRow
  <2>1. CASE \A k \in Refs(l) : here(k)
    <3> DEFINE inserted == [tx[r].inserted EXCEPT ![l] = {Row(r)}]
               t == [[tx[r] EXCEPT !.inserted[l] = {Row(r)}] EXCEPT !.todo = @ \ {Min(@)}]
    <3>1. tx' = [tx EXCEPT ![r] = t] /\ UNCHANGED <<rows, lists, used, sourced, routes>>
      BY <1>9, <2>1 DEF Write, Done
    <3>2. {Row(r)} \in SUBSET Rows
      BY RowTyped DEF Ids
    <3>3. inserted \in [Lists -> SUBSET Rows] /\ inserted[l] = {Row(r)}
          /\ \A m \in Lists : m # l => inserted[m] = tx[r].inserted[m]
      <4> HIDE DEF l
      <4> QED BY <1>3, <1>8, <3>2
    <3>4. t = [tx[r] EXCEPT !.inserted = inserted, !.todo = tx[r].todo \ {i}]
      BY <1>2 DEF Transactions
    <3> HIDE DEF t, inserted, i, plan, l
    <3>5. /\ t \in Transactions /\ t.pc = "running" /\ t.mode = tx[r].mode /\ t.own = tx[r].own
          /\ t.todo = tx[r].todo \ {i} /\ t.plan = tx[r].plan /\ t.deleted = tx[r].deleted
          /\ t.inserted = inserted
      BY <1>1, <1>2, <1>8, <3>3, <3>4 DEF Transactions
    <3> QED BY <1>7, <1>9, <3>1, <3>3, <3>5
  <2>2. CASE ~(\A k \in Refs(l) : here(k))
    <3>1. Fail(r) BY <1>9, <2>2 DEF Write
    <3> QED BY <1>1, <3>1, FailStep
  <2> QED BY <2>1, <2>2
<1>10. CASE plan.found # NoRow /\ plan.found.curated
  <2> DEFINE t == [tx[r] EXCEPT !.todo = @ \ {Min(@)}]
  <2>1. tx' = [tx EXCEPT ![r] = t] /\ UNCHANGED <<rows, lists, used, sourced, routes>>
    BY <1>10 DEF Write, Done
  <2>2. t = [tx[r] EXCEPT !.todo = tx[r].todo \ {i}]
    BY <1>2 DEF Transactions
  <2> HIDE DEF t, i, plan, l
  <2>3. /\ t \in Transactions /\ t.pc = "running" /\ t.mode = tx[r].mode /\ t.own = tx[r].own
        /\ t.todo = tx[r].todo \ {i} /\ t.plan = tx[r].plan /\ t.deleted = tx[r].deleted
        /\ t.inserted = tx[r].inserted
    BY <1>1, <1>2, <1>8, <2>2 DEF Transactions
  <2> QED BY <1>7, <1>10, <2>1, <2>3
<1>11. CASE plan.found # NoRow /\ ~plan.found.curated
  <2>1. CASE \E row \in lists[l] : row.id = plan.found.id
    <3> DEFINE updated == [tx[r].updated EXCEPT ![l] = @ \cup {plan.found.id}]
               t == [[tx[r] EXCEPT !.updated[l] = @ \cup {plan.found.id}] EXCEPT !.todo = @ \ {Min(@)}]
    <3>1. tx' = [tx EXCEPT ![r] = t] /\ UNCHANGED <<rows, lists, used, sourced, routes>>
      BY <1>11, <2>1 DEF Write, Done
    <3>2. plan.found.id \in Ids
      BY <1>6, <1>11 DEF Rows
    <3>3. updated \in [Lists -> SUBSET Ids]
      <4> HIDE DEF l, plan
      <4> QED BY <1>3, <1>8, <3>2
    <3>4. t = [tx[r] EXCEPT !.updated = updated, !.todo = tx[r].todo \ {i}]
      BY <1>2 DEF Transactions
    <3> HIDE DEF t, updated, i, plan, l
    <3>5. /\ t \in Transactions /\ t.pc = "running" /\ t.mode = tx[r].mode /\ t.own = tx[r].own
          /\ t.todo = tx[r].todo \ {i} /\ t.plan = tx[r].plan /\ t.deleted = tx[r].deleted
          /\ t.inserted = tx[r].inserted
      BY <1>1, <1>2, <1>8, <3>3, <3>4 DEF Transactions
    <3> QED BY <1>7, <1>11, <3>1, <3>5
  <2>2. CASE ~(\E row \in lists[l] : row.id = plan.found.id)
    <3>1. Fail(r) BY <1>11, <2>2 DEF Write
    <3> QED BY <1>1, <3>1, FailStep
  <2> QED BY <2>1, <2>2
<1> QED BY <1>9, <1>10, <1>11

\* What a commit leaves: no row is missing that was there, none that is in use is
\* another, and the lists hold what the run has not deleted and the row it inserts.
LEMMA Commits ==
  ASSUME SeedsInv, NEW r \in Runs, End(r), ~tx[r].mode.dry
  PROVE  /\ tx[r].pc = "running" /\ tx[r] \in Transactions
         /\ rows' \in [Keys -> Rows \cup {NoRow}] /\ lists' \in [Lists -> SUBSET Rows]
         /\ \A k \in Keys : rows[k] # NoRow => rows'[k] # NoRow
         /\ \A k \in used : rows'[k] # NoRow /\ rows'[k].id = rows[k].id
         /\ \A l \in Lists :
              /\ tx[r].inserted[l] # {} => Inserting(r, l) /\ tx[r].inserted[l] = {Row(r)}
              /\ IdsOf(lists'[l]) = (IdsOf(lists[l]) \ tx[r].deleted[l])
                   \cup (IF tx[r].inserted[l] = {} THEN {} ELSE {r})
<1>1. tx[r].pc = "running" /\ tx[r].todo = {}
      /\ rows' = [k \in Keys |-> View(r, k)]
      /\ lists' = [l \in Lists |->
               {IF row.id \in tx[r].updated[l] THEN Row(row.id) ELSE row : row \in Kept(r, l)}
                 \cup tx[r].inserted[l]]
  BY DEF End
<1>2. tx[r] \in Transactions /\ Upserted(tx[r]) /\ \A l \in Lists : ListInOrder(tx[r], r, l)
  BY <1>1, Running
<1>3. \A k \in DOMAIN tx[r].own : tx[r].own[k] # NoRow
  BY <1>1, <1>2 DEF Upserted
<1>4. rows' \in [Keys -> Rows \cup {NoRow}] /\ \A k \in Keys : rows[k] # NoRow => rows'[k] # NoRow
  <2>1. \A k \in Keys : View(r, k) \in Rows \cup {NoRow}
    BY ViewTyped DEF SeedsInv
  <2> QED BY <1>1, <1>3, <2>1 DEF View
<1>5. ASSUME NEW k \in used PROVE rows'[k] # NoRow /\ rows'[k].id = rows[k].id
  <2>1. k \in Keys BY DEF SeedsInv, Typed
  <2>2. /\ rows[k] # NoRow
        /\ k \in DOMAIN tx[r].own => tx[r].own[k] # NoRow /\ tx[r].own[k].id = rows[k].id
    BY DEF SeedsInv, UsedKept, Writes
  <2> QED BY <1>1, <2>1, <2>2 DEF View
<1>6. ASSUME NEW l \in Lists
      PROVE  /\ tx[r].inserted[l] # {} => Inserting(r, l) /\ tx[r].inserted[l] = {Row(r)}
             /\ lists'[l] \subseteq Rows
             /\ IdsOf(lists'[l]) = (IdsOf(lists[l]) \ tx[r].deleted[l])
                  \cup (IF tx[r].inserted[l] = {} THEN {} ELSE {r})
  <2>1. tx[r].inserted[l] # {} => Inserting(r, l) /\ tx[r].inserted[l] = {Row(r)}
    BY <1>1, <1>2 DEF ListInOrder, Inserting
  <2> DEFINE kept == {IF row.id \in tx[r].updated[l] THEN Row(row.id) ELSE row : row \in Kept(r, l)}
             inserted == tx[r].inserted[l]
  <2>2. lists'[l] = kept \cup inserted
    BY <1>1
  <2>3. lists[l] \subseteq Rows /\ inserted \subseteq Rows
    BY <1>2 DEF SeedsInv, Typed, Transactions
  <2>4. \A row \in lists[l] : row.id \in Ids
    BY <2>3 DEF Rows
  <2>5. kept \subseteq Rows
    BY <2>3, <2>4, RowTyped DEF Kept
  <2>6. \A id : id \in IdsOf(kept) <=> id \in IdsOf(lists[l]) \ tx[r].deleted[l]
    <3>1. ASSUME NEW id, id \in IdsOf(kept) PROVE id \in IdsOf(lists[l]) \ tx[r].deleted[l]
      <4>1. PICK row \in Kept(r, l) :
              id = (IF row.id \in tx[r].updated[l] THEN Row(row.id) ELSE row).id
        BY <3>1 DEF IdsOf
      <4>2. row \in lists[l] /\ row.id \notin tx[r].deleted[l] /\ id = row.id
        BY <4>1, <2>4, RowTyped DEF Kept
      <4> QED BY <4>2 DEF IdsOf
    <3>2. ASSUME NEW id \in IdsOf(lists[l]), id \notin tx[r].deleted[l] PROVE id \in IdsOf(kept)
      <4>1. PICK row \in lists[l] : row.id = id
        BY DEF IdsOf
      <4>2. row \in Kept(r, l) /\ id \in Ids
        BY <2>4, <3>2, <4>1 DEF Kept
      <4> DEFINE new == IF row.id \in tx[r].updated[l] THEN Row(row.id) ELSE row
      <4>3. new \in kept
        BY <4>2
      <4>4. new.id = id
        BY <4>1, <4>2, RowTyped
      <4> QED BY <4>3, <4>4 DEF IdsOf
    <3> QED BY <3>1, <3>2
  <2>7. IdsOf(inserted) = IF inserted = {} THEN {} ELSE {r}
    <3>1. Row(r).id = r BY RowTyped DEF Ids
    <3> QED BY <2>1, <3>1 DEF IdsOf
  <2>8. IdsOf(lists'[l]) = IdsOf(kept) \cup IdsOf(inserted)
    <3> HIDE DEF kept, inserted
    <3> QED BY <2>2 DEF IdsOf
  <2> HIDE DEF kept
  <2> QED BY <2>1, <2>2, <2>3, <2>5, <2>6, <2>7, <2>8
<1>7. lists' \in [Lists -> SUBSET Rows]
  BY <1>1, <1>6
<1> QED BY <1>1, <1>2, <1>4, <1>5, <1>6, <1>7

LEMMA EndStep ==
  ASSUME SeedsInv, NEW r \in Runs, End(r)
  PROVE  SeedsInv'
<1>1. CASE tx[r].mode.dry
  BY <1>1, RolledBack DEF End
<1>2. CASE ~tx[r].mode.dry
  <2> DEFINE t == [Fresh EXCEPT !.pc = "done", !.mode = tx[r].mode]
  <2>1. /\ tx[r].pc = "running" /\ tx[r] \in Transactions
        /\ rows' \in [Keys -> Rows \cup {NoRow}] /\ lists' \in [Lists -> SUBSET Rows]
        /\ \A k \in used : rows'[k] # NoRow /\ rows'[k].id = rows[k].id
        /\ \A l \in Lists :
             /\ tx[r].inserted[l] # {} => Inserting(r, l)
             /\ IdsOf(lists'[l]) = (IdsOf(lists[l]) \ tx[r].deleted[l])
                  \cup (IF tx[r].inserted[l] = {} THEN {} ELSE {r})
    BY <1>2, Commits
  <2>2. t \in Transactions /\ Ordered(t, r) /\ t.pc = "done" /\ t.mode = tx[r].mode
        /\ t.own = Nothing /\ t.deleted = Untouched
    <3>1. tx[r].mode \in Modes \cup {NoRow} BY <2>1 DEF Transactions
    <3> QED BY <3>1, OverIsClosed DEF Fresh
  <2>3. tx' = [tx EXCEPT ![r] = t] /\ UNCHANGED <<used, sourced, routes>>
    BY DEF End
  <2> HIDE DEF t
  <2>4. tx' \in [Runs -> Transactions] /\ tx'[r] = t /\ \A q \in Runs : q # r => tx'[q] = tx[q]
    BY <2>2, <2>3 DEF SeedsInv, Typed
  <2>5. Typed'
    BY <2>1, <2>3, <2>4 DEF SeedsInv, Typed
  <2>6. \A q \in Runs : Ordered(tx[q], q)'
    <3>1. \A q \in Runs : Ordered(tx'[q], q)
      BY <2>2, <2>4 DEF SeedsInv
    <3> QED BY <3>1 DEF Ordered, InOrder, Upserted, ListInOrder, Closed, Ran, FoundNothing
  <2>7. DOMAIN tx'[r].own = {} /\ tx'[r].deleted["provider_catalogs"] = {}
    BY <2>2, <2>4 DEF Nothing, Untouched, Lists
  <2>8. Locked' /\ UsedKept'
    BY <2>1, <2>3, <2>4, <2>7 DEF SeedsInv, Locked, UsedKept, Writes
  <2>9. SourcedKept'
    <3>1. sourced \subseteq IdsOf(lists'["provider_catalogs"])
      BY <2>1 DEF SeedsInv, SourcedKept, Lists
    <3>2. \A q \in Runs : tx'[q].deleted["provider_catalogs"] \cap sourced = {}
      BY <2>4, <2>7 DEF SeedsInv, SourcedKept
    <3> QED BY <2>3, <3>1, <3>2 DEF SourcedKept, IdsOf
  <2>10. \A q \in Runs : tx'[q].mode = tx[q].mode
    BY <2>2, <2>4
  <2>11. \A l \in Lists : r \notin IdsOf(lists[l])
    BY <2>1 DEF SeedsInv, Committed
  <2>12. \A l \in Lists : \A p \in IdsOf(lists'[l]) \cap Runs :
           \/ p # r /\ p \in IdsOf(lists[l]) \ tx[r].deleted[l]
           \/ p = r /\ Inserting(r, l)
    BY <2>1, <2>11
  <2>13. Committed'
    <3>1. \A l \in Lists : \A p \in IdsOf(lists'[l]) \cap Runs : tx'[p].pc = "done"
      BY <2>2, <2>4, <2>12 DEF SeedsInv, Committed
    <3> QED BY <3>1 DEF Committed, IdsOf
  <2>14. SharedTargetSerializes'
    <3>1. ASSUME NEW l \in Lists, NEW p \in IdsOf(lists'[l]) \cap Runs, NEW q \in IdsOf(lists'[l]) \cap Runs,
                 p # q
          PROVE  Ahead(tx[p].mode, l) \cap Ahead(tx[q].mode, l) = {}
      <4>1. CASE p # r /\ q # r
        <5>1. p \in IdsOf(lists[l]) /\ q \in IdsOf(lists[l]) BY <2>12, <4>1
        <5> QED BY <3>1, <5>1 DEF SeedsInv, SharedTargetSerializes, IdsOf
      <4>2. CASE p = r
        <5>1. Inserting(r, l) /\ q \in (IdsOf(lists[l]) \cap Runs) \ tx[r].deleted[l]
          BY <2>12, <3>1, <4>2
        <5> QED BY <4>2, <5>1 DEF SeedsInv, Apart, Disjoint
      <4>3. CASE q = r
        <5>1. Inserting(r, l) /\ p \in (IdsOf(lists[l]) \cap Runs) \ tx[r].deleted[l]
          BY <2>12, <3>1, <4>3
        <5> QED BY <4>3, <5>1 DEF SeedsInv, Apart, Disjoint
      <4> QED BY <4>1, <4>2, <4>3
    <3>2. \A l \in Lists : \A q \in Runs : Ahead(tx'[q].mode, l) = Ahead(tx[q].mode, l)
      BY <2>10
    <3> QED BY <3>1, <3>2 DEF SharedTargetSerializes, IdsOf
  <2>15. Apart'
    <3>1. ASSUME NEW l \in Lists, NEW q \in Runs, Inserting(q, l)', NEW p \in IdsOf(lists'[l]) \cap Runs,
                 p \notin tx'[q].deleted[l]
          PROVE  Ahead(tx[p].mode, l) \cap Ahead(tx[q].mode, l) = {}
      <4>1. q # r /\ Inserting(q, l) /\ p \notin tx[q].deleted[l]
        BY <2>2, <2>4, <3>1 DEF Inserting, FoundNothing
      <4>2. CASE p # r
        BY <2>12, <3>1, <4>1, <4>2 DEF SeedsInv, Apart, Disjoint
      <4>3. CASE p = r
        <5>1. Inserting(r, l) BY <2>12, <3>1, <4>3
        <5> QED BY <4>1, <4>3, <5>1, InsertersApart DEF Disjoint
      <4> QED BY <4>2, <4>3
    <3>2. \A l \in Lists : \A q \in Runs : Ahead(tx'[q].mode, l) = Ahead(tx[q].mode, l)
      BY <2>10
    <3> QED BY <3>1, <3>2 DEF Apart, Disjoint, IdsOf
  <2> QED BY <2>5, <2>6, <2>8, <2>9, <2>13, <2>14, <2>15 DEF SeedsInv
<1> QED BY <1>1, <1>2
-------------------------------------------------------------------------------
(* The calls of the routes *)

\* A call keeps the invariant if it adds no row of a run and loses none in use.
LEMMA RouteStep ==
  ASSUME SeedsInv, UNCHANGED tx, Typed', \A l \in Lists : IdsOf(lists'[l]) \cap Runs \subseteq IdsOf(lists[l]),
         UsedKept', SourcedKept'
  PROVE  SeedsInv'
<1>1. \A r \in Runs : Ordered(tx[r], r)'
  <2>1. \A r \in Runs : Ordered(tx'[r], r)
    BY DEF SeedsInv
  <2> QED BY <2>1 DEF Ordered, InOrder, Upserted, ListInOrder, Closed, Ran, FoundNothing
<1>2. Locked'
  BY DEF SeedsInv, Locked, Writes
<1>3. Committed' /\ SharedTargetSerializes'
  BY DEF SeedsInv, Committed, SharedTargetSerializes, IdsOf
<1>4. Apart'
  <2>1. ASSUME NEW l \in Lists, NEW q \in Runs, Inserting(q, l), NEW p \in IdsOf(lists'[l]) \cap Runs,
               p \notin tx[q].deleted[l]
        PROVE  Ahead(tx[p].mode, l) \cap Ahead(tx[q].mode, l) = {}
    BY <2>1 DEF SeedsInv, Apart, Disjoint
  <2> QED BY <2>1 DEF Apart, Disjoint, IdsOf, Inserting, FoundNothing
<1> QED BY <1>1, <1>2, <1>3, <1>4 DEF SeedsInv

LEMMA RoutesTyped ==
  ASSUME SeedsInv, Route
  PROVE  routes' \in 1..MaxRoutes /\ routes' \in Ids \ Runs /\ UNCHANGED tx /\ tx' \in [Runs -> Transactions]
         /\ routes' \in 0..MaxRoutes
<1>1. routes \in 0..MaxRoutes /\ MaxRoutes \in Nat
  BY SeedsAssumption DEF SeedsInv, Typed
<1>2. routes' \in 1..MaxRoutes /\ UNCHANGED tx
  BY <1>1 DEF Route
<1>3. routes' \notin Runs
  BY <1>2, SeedsAssumption
<1>4. 1..MaxRoutes \subseteq 0..MaxRoutes
  BY <1>1
<1> QED BY <1>2, <1>3, <1>4 DEF Ids, SeedsInv, Typed

LEMMA PostStep ==
  ASSUME SeedsInv, NEW l \in Lists, Post(l)
  PROVE  SeedsInv'
<1>1. Route /\ lists' = [lists EXCEPT ![l] = @ \cup {Row(routes')}] /\ UNCHANGED <<rows, used, sourced>>
  BY DEF Post
<1>2. routes' \in Ids \ Runs /\ UNCHANGED tx /\ tx' \in [Runs -> Transactions] /\ routes' \in 0..MaxRoutes
  BY <1>1, RoutesTyped
<1>3. Row(routes') \in Rows /\ Row(routes').id = routes'
  BY <1>2, RowTyped
<1>4. lists \in [Lists -> SUBSET Rows]
  BY DEF SeedsInv, Typed
<1>5. lists' \in [Lists -> SUBSET Rows] /\ lists'[l] = lists[l] \cup {Row(routes')}
      /\ \A m \in Lists : m # l => lists'[m] = lists[m]
  BY <1>1, <1>3, <1>4
<1>6. Typed'
  BY <1>1, <1>2, <1>5 DEF SeedsInv, Typed
<1>7. \A m \in Lists : IdsOf(lists[m]) \subseteq IdsOf(lists'[m])
      /\ IdsOf(lists'[m]) \cap Runs \subseteq IdsOf(lists[m])
  BY <1>2, <1>3, <1>5 DEF IdsOf
<1>8. UsedKept'
  BY <1>1, <1>2 DEF SeedsInv, UsedKept, Writes
<1>9. SourcedKept'
  <2>1. sourced' \subseteq IdsOf(lists'["provider_catalogs"])
    BY <1>1, <1>7 DEF SeedsInv, SourcedKept, Lists
  <2> QED BY <1>1, <1>2, <2>1 DEF SeedsInv, SourcedKept, IdsOf
<1> QED BY <1>2, <1>6, <1>7, <1>8, <1>9, RouteStep

\* A PATCH of a row in a list, which keeps its id.
LEMMA PatchListedStep ==
  ASSUME SeedsInv, NEW l \in Lists, NEW row \in lists[l], PatchListed(l, row)
  PROVE  SeedsInv'
<1> DEFINE new == [row EXCEPT !.curated = FALSE]
<1>1. Route /\ lists' = [lists EXCEPT ![l] = (@ \ {row}) \cup {new}] /\ UNCHANGED <<rows, used, sourced>>
  BY DEF PatchListed
<1>2. UNCHANGED tx /\ tx' \in [Runs -> Transactions] /\ routes' \in 0..MaxRoutes
  BY <1>1, RoutesTyped
<1>3. lists \in [Lists -> SUBSET Rows] /\ row \in Rows
  BY DEF SeedsInv, Typed
<1>4. new \in Rows /\ new.id = row.id
  BY <1>3 DEF Rows
<1> HIDE DEF new
<1>5. lists' \in [Lists -> SUBSET Rows] /\ lists'[l] = (lists[l] \ {row}) \cup {new}
      /\ \A m \in Lists : m # l => lists'[m] = lists[m]
  BY <1>1, <1>3, <1>4
<1>6. Typed'
  BY <1>1, <1>2, <1>5 DEF SeedsInv, Typed
<1>7. \A m \in Lists : IdsOf(lists'[m]) = IdsOf(lists[m])
  BY <1>4, <1>5 DEF IdsOf
<1>8. UsedKept'
  BY <1>1, <1>2 DEF SeedsInv, UsedKept, Writes
<1>9. SourcedKept'
  <2>1. sourced' \subseteq IdsOf(lists'["provider_catalogs"])
    BY <1>1, <1>7 DEF SeedsInv, SourcedKept, Lists
  <2> QED BY <1>1, <1>2, <2>1 DEF SeedsInv, SourcedKept, IdsOf
<1> QED BY <1>2, <1>6, <1>7, <1>8, <1>9, RouteStep

LEMMA DeleteListedStep ==
  ASSUME SeedsInv, NEW l \in Lists, NEW row \in lists[l], DeleteListed(l, row)
  PROVE  SeedsInv'
<1>1. Route /\ lists' = [lists EXCEPT ![l] = @ \ {row}] /\ UNCHANGED <<rows, used, sourced>>
      /\ (l = "provider_catalogs" => row.id \notin sourced)
  BY DEF DeleteListed
<1>2. UNCHANGED tx /\ tx' \in [Runs -> Transactions] /\ routes' \in 0..MaxRoutes
  BY <1>1, RoutesTyped
<1>3. lists \in [Lists -> SUBSET Rows]
  BY DEF SeedsInv, Typed
<1>4. lists' \in [Lists -> SUBSET Rows] /\ lists'[l] = lists[l] \ {row}
      /\ \A m \in Lists : m # l => lists'[m] = lists[m]
  BY <1>1, <1>3
<1>5. Typed'
  BY <1>1, <1>2, <1>4 DEF SeedsInv, Typed
<1>6. \A m \in Lists : IdsOf(lists'[m]) \subseteq IdsOf(lists[m])
  BY <1>4 DEF IdsOf
<1>7. UsedKept'
  BY <1>1, <1>2 DEF SeedsInv, UsedKept, Writes
<1>8. SourcedKept'
  <2>1. sourced \subseteq IdsOf(lists'["provider_catalogs"])
    BY <1>1, <1>4 DEF SeedsInv, SourcedKept, Lists, IdsOf
  <2> QED BY <1>1, <1>2, <2>1 DEF SeedsInv, SourcedKept, IdsOf
<1> QED BY <1>2, <1>5, <1>6, <1>7, <1>8, RouteStep

LEMMA PatchKeyedStep ==
  ASSUME SeedsInv, NEW k \in Keys, PatchKeyed(k)
  PROVE  SeedsInv'
<1> DEFINE new == [rows[k] EXCEPT !.curated = FALSE]
<1>1. Route /\ rows[k] # NoRow /\ rows' = [rows EXCEPT ![k] = new] /\ UNCHANGED <<lists, used, sourced>>
  BY DEF PatchKeyed
<1>2. UNCHANGED tx /\ tx' \in [Runs -> Transactions] /\ routes' \in 0..MaxRoutes
  BY <1>1, RoutesTyped
<1>3. rows \in [Keys -> Rows \cup {NoRow}] /\ rows[k] \in Rows
  BY <1>1 DEF SeedsInv, Typed
<1>4. new \in Rows /\ new.id = rows[k].id
  BY <1>3 DEF Rows
<1>5. new # NoRow
  BY <1>4, SeedsAssumption
<1> HIDE DEF new
<1>6. rows' \in [Keys -> Rows \cup {NoRow}] /\ rows'[k] = new /\ \A m \in Keys : m # k => rows'[m] = rows[m]
  BY <1>1, <1>3, <1>4
<1>7. Typed'
  BY <1>1, <1>2, <1>6 DEF SeedsInv, Typed
<1>8. UsedKept'
  <2>1. used \subseteq Keys BY DEF SeedsInv, Typed
  <2>2. \A m \in Keys : rows[m] # NoRow => rows'[m] # NoRow /\ rows'[m].id = rows[m].id
    BY <1>4, <1>5, <1>6
  <2> QED BY <1>1, <1>2, <2>1, <2>2 DEF SeedsInv, UsedKept, Writes
<1>9. SourcedKept'
  BY <1>1, <1>2 DEF SeedsInv, SourcedKept, IdsOf
<1> QED BY <1>1, <1>2, <1>7, <1>8, <1>9, RouteStep

\* A series refers to rows that no open transaction deletes or replaces.
LEMMA PostSeriesStep ==
  ASSUME SeedsInv, PostSeries
  PROVE  SeedsInv'
<1>1. Route /\ used' = used \cup Categories \cup Countries /\ UNCHANGED <<rows, lists, sourced>>
      /\ \A k \in Categories \cup Countries : rows[k] # NoRow /\ \A q \in Runs : ~Deletes(q, k)
  BY DEF PostSeries
<1>2. UNCHANGED tx /\ tx' \in [Runs -> Transactions] /\ routes' \in 0..MaxRoutes
  BY <1>1, RoutesTyped
<1>3. Typed'
  BY <1>1, <1>2 DEF SeedsInv, Typed, Keys
<1>4. UsedKept'
  <2>1. ASSUME NEW k \in Categories \cup Countries, NEW q \in Runs, k \in DOMAIN tx[q].own
        PROVE  tx[q].own[k] # NoRow /\ tx[q].own[k].id = rows[k].id
    BY <1>1, <2>1 DEF Deletes, Writes
  <2> QED BY <1>1, <1>2, <2>1 DEF SeedsInv, UsedKept, Writes
<1>5. SourcedKept'
  BY <1>1, <1>2 DEF SeedsInv, SourcedKept, IdsOf
<1> QED BY <1>1, <1>2, <1>3, <1>4, <1>5, RouteStep

LEMMA PostSourceStep ==
  ASSUME SeedsInv, NEW row \in lists["provider_catalogs"], PostSource(row)
  PROVE  SeedsInv'
<1>1. Route /\ sourced' = sourced \cup {row.id} /\ UNCHANGED <<rows, lists, used>>
      /\ \A q \in Runs : row.id \notin tx[q].deleted["provider_catalogs"]
  BY DEF PostSource
<1>2. UNCHANGED tx /\ tx' \in [Runs -> Transactions] /\ routes' \in 0..MaxRoutes
  BY <1>1, RoutesTyped
<1>3. row.id \in Ids
  BY DEF SeedsInv, Typed, Rows, Lists
<1>4. Typed'
  BY <1>1, <1>2, <1>3 DEF SeedsInv, Typed
<1>5. UsedKept'
  BY <1>1, <1>2 DEF SeedsInv, UsedKept, Writes
<1>6. SourcedKept'
  BY <1>1, <1>2 DEF SeedsInv, SourcedKept, IdsOf
<1> QED BY <1>1, <1>2, <1>4, <1>5, <1>6, RouteStep
-------------------------------------------------------------------------------
(* The theorems *)

LEMMA SeedsInit ==
  ASSUME Init
  PROVE  SeedsInv
<1>1. rows \in [Keys -> Rows \cup {NoRow}] /\ lists \in [Lists -> SUBSET Rows]
      /\ \A l \in Lists : IdsOf(lists[l]) \subseteq {Before}
  <2>1. Row(Before) \in Rows /\ Row(Before).id = Before
    BY RowTyped DEF Ids
  <2> QED BY <2>1 DEF Init, IdsOf
<1>2. used = {} /\ sourced = {} /\ routes = 0 /\ tx = [r \in Runs |-> Fresh]
  BY DEF Init
<1>3. Fresh \in Transactions /\ Fresh.pc = "idle" /\ Closed(Fresh) /\ DOMAIN Fresh.own = {}
  <2>1. Nothing \in Owns
    BY DEF Nothing, Owns
  <2>2. Untouched \in [Lists -> SUBSET Rows] /\ Untouched \in [Lists -> SUBSET Ids]
        /\ [l \in Lists |-> NoRow] \in [Lists -> Plans \cup {NoRow}]
    BY DEF Untouched
  <2> QED BY <2>1, <2>2 DEF Fresh, Transactions, Closed, Nothing
<1>4. Typed
  BY <1>1, <1>2, <1>3, SeedsAssumption DEF Typed
<1>5. \A r \in Runs : Ordered(tx[r], r)
  BY <1>2, <1>3 DEF Ordered
<1>6. Locked /\ UsedKept /\ SourcedKept
  BY <1>2, <1>3 DEF Locked, Writes, UsedKept, SourcedKept
<1>7. Committed /\ SharedTargetSerializes
  BY <1>1, SeedsAssumption DEF Committed, SharedTargetSerializes, IdsOf
<1>8. Apart
  BY <1>2, <1>3 DEF Apart, Inserting
<1> QED BY <1>4, <1>5, <1>6, <1>7, <1>8 DEF SeedsInv

\* Only a run that goes on waits.
LEMMA SeedsStep ==
  ASSUME SeedsInv, [Next]_seedVars
  PROVE  SeedsInv'
<1>1. CASE UNCHANGED seedVars
  <2>1. UNCHANGED tx /\ Typed' /\ UsedKept' /\ SourcedKept' /\ lists' = lists
    BY <1>1 DEF seedVars, SeedsInv, Typed, UsedKept, SourcedKept, Writes, IdsOf
  <2> QED BY <2>1, RouteStep
<1>2. ASSUME NEW r \in Runs, NEW mode \in Modes, Start(r, mode) PROVE SeedsInv'
  BY <1>2, StartStep
<1>3. ASSUME NEW r \in Runs, Step(r) PROVE SeedsInv'
  <2>1. CASE Deadlock(r)
    <3>1. tx[r].pc = "running" /\ Fail(r)
      BY <2>1 DEF Deadlock, WaitsFor
    <3> QED BY <3>1, FailStep
  <2> QED BY <1>3, <2>1, UpsertStep, DeleteStep, EmptyStep, ReadStep, WriteStep, EndStep DEF Step
<1>4. ASSUME NEW r \in Runs, Killed(r) PROVE SeedsInv'
  BY <1>4, FailStep DEF Killed
<1>5. ASSUME NEW l \in Lists, NEW row \in lists[l], PatchListed(l, row) \/ DeleteListed(l, row) PROVE SeedsInv'
  BY <1>5, PatchListedStep, DeleteListedStep
<1>6. ASSUME NEW k \in Keys, PatchKeyed(k) PROVE SeedsInv'
  BY <1>6, PatchKeyedStep
<1>7. ASSUME NEW row \in lists["provider_catalogs"], PostSource(row) PROVE SeedsInv'
  BY <1>7, PostSourceStep
<1> QED BY <1>1, <1>2, <1>3, <1>4, <1>5, <1>6, <1>7, PostStep, PostSeriesStep DEF Next

\* Every reachable state is one of the invariant: transactions keep to their program,
\* no two have written the same row, and what series and sources refer to is there.
THEOREM SeedsCorrect == Spec => []SeedsInv
<1>1. Init => SeedsInv BY SeedsInit
<1>2. SeedsInv /\ [Next]_seedVars => SeedsInv' BY SeedsStep
<1> QED BY <1>1, <1>2, PTL DEF Spec

\* seed_geographies and seed_providers read the rows of a list and write them later,
\* without a constraint: two seeds that have upserted the same target on the way to the
\* list nevertheless never both insert its row, for any number of seeds with any options.
THEOREM SeedsSerialize == Spec => []SharedTargetSerializes
<1>1. SeedsInv => SharedTargetSerializes BY DEF SeedsInv
<1> QED BY <1>1, SeedsCorrect, PTL

\* A run ends by a commit or by a roll-back.
LEMMA Ends ==
  ASSUME NEW r \in Runs, SeedsInv, Next, tx[r].pc = "running", tx'[r].pc # "running"
  PROVE  Fail(r) \/ End(r)
<1>1. tx \in [Runs -> Transactions]
  BY DEF SeedsInv, Typed
<1>2. ~Route
  BY DEF Route
<1>3. ASSUME NEW q \in Runs, NEW t, tx' = [tx EXCEPT ![q] = t] PROVE q = r /\ tx'[r] = t
  BY <1>1, <1>3
<1>4. ASSUME NEW q \in Runs, NEW mode \in Modes, Start(q, mode) PROVE FALSE
  <2>1. q = r BY <1>3, <1>4 DEF Start
  <2> QED BY <1>4, <2>1 DEF Start
<1>5. ASSUME NEW q \in Runs, NEW t, Done(q, t), q = r => t.pc = "running" PROVE FALSE
  <2>1. q = r /\ tx'[r] = [t EXCEPT !.todo = @ \ {Min(@)}] BY <1>3, <1>5 DEF Done
  <2> QED BY <1>5, <2>1
<1>6. ASSUME NEW q \in Runs, Fail(q) PROVE Fail(r)
  <2>1. q = r BY <1>3, <1>6 DEF Fail
  <2> QED BY <1>6, <2>1
<1>7. ASSUME NEW q \in Runs, End(q) PROVE End(r)
  <2>1. q = r BY <1>3, <1>7 DEF End
  <2> QED BY <1>7, <2>1
<1>8. ASSUME NEW q \in Runs, Upsert(q) PROVE FALSE
  <2>1. \A new : Written(tx[q], new).pc = tx[q].pc BY <1>1 DEF Written, Transactions
  <2> QED BY <1>5, <1>8, <2>1 DEF Upsert
<1>9. ASSUME NEW q \in Runs, Delete(q) PROVE Fail(r)
  <2> DEFINE keys == {k \in Now(q).keys : View(q, k) # NoRow}
             w == Written(tx[q], [k \in keys |-> NoRow])
             t == [w EXCEPT !.deleted = [l \in Lists |-> IF l \in Cascades(keys)
                               THEN @[l] \cup {row.id : row \in Visible(q, l)} ELSE @[l]]]
  <2>1. w.pc = tx[q].pc BY <1>1 DEF Written, Transactions
  <2>2. t.pc = w.pc BY <1>1 DEF Written, Transactions
  <2>3. Fail(q) \/ Done(q, t) BY <1>9 DEF Delete
  <2> HIDE DEF t, w
  <2> QED BY <1>5, <1>6, <2>1, <2>2, <2>3
<1>10. ASSUME NEW q \in Runs, Empty(q) \/ Read(q) \/ Write(q) PROVE Fail(r)
  BY <1>1, <1>5, <1>6, <1>10 DEF Empty, Read, Write, Transactions
<1> QED BY <1>2, <1>4, <1>6, <1>7, <1>8, <1>9, <1>10
     DEF Next, Step, Deadlock, Killed, Post, PatchListed, DeleteListed, PatchKeyed, PostSeries, PostSource

\* The end of a run takes no row that was there, but for the two exceptions.
LEMMA EndsEmptyNothing ==
  ASSUME SeedsInv, [Next]_seedVars, NEW r \in Runs, tx[r].pc = "running", tx'[r].pc # "running"
  PROVE  /\ \A k \in Keys : rows[k] # NoRow => rows'[k] # NoRow
         /\ \A k \in used : rows'[k].id = rows[k].id
         /\ sourced \subseteq {row.id : row \in lists'["provider_catalogs"]}
         /\ \A l \in Lists : lists[l] # {} /\ lists'[l] = {} =>
              \/ /\ l = "geography_memberships" /\ l \notin tx[r].mode.only
                 /\ tx[r].mode.reset /\ "geographies" \in tx[r].mode.only
              \/ tx[r].mode.reset /\ FoundIsGone(r, l)
<1>1. Fail(r) \/ End(r)
  BY Ends DEF seedVars
<1>2. CASE rows' = rows /\ lists' = lists
  BY <1>2 DEF SeedsInv, SourcedKept, IdsOf
<1>3. CASE ~(rows' = rows /\ lists' = lists)
  <2>1. End(r) /\ ~tx[r].mode.dry
    BY <1>1, <1>3 DEF Fail, End
  <2>2. /\ \A k \in Keys : rows[k] # NoRow => rows'[k] # NoRow
        /\ \A k \in used : rows'[k].id = rows[k].id
        /\ \A l \in Lists : IdsOf(lists'[l]) = (IdsOf(lists[l]) \ tx[r].deleted[l])
                              \cup (IF tx[r].inserted[l] = {} THEN {} ELSE {r})
    BY <2>1, Commits
  <2>3. sourced \subseteq IdsOf(lists'["provider_catalogs"])
    BY <2>2 DEF SeedsInv, SourcedKept, Lists
  <2>4. tx[r] \in Transactions /\ InOrder(tx[r]) /\ tx[r].todo = {}
        /\ \A l \in Lists : ListInOrder(tx[r], r, l)
    BY <2>1, Running DEF End
  <2>5. tx[r].mode \in Modes /\ Ran(tx[r]) = Program(tx[r].mode)
    BY <2>4 DEF InOrder, Ran
  <2>6. ASSUME NEW l \in Lists, lists[l] # {}, lists'[l] = {}
        PROVE  \/ /\ l = "geography_memberships" /\ l \notin tx[r].mode.only
                  /\ tx[r].mode.reset /\ "geographies" \in tx[r].mode.only
               \/ tx[r].mode.reset /\ FoundIsGone(r, l)
    <3>1. IdsOf(lists'[l]) = {} /\ IdsOf(lists[l]) # {}
      BY <2>6 DEF IdsOf
    <3>2. IdsOf(lists[l]) \subseteq tx[r].deleted[l] /\ tx[r].inserted[l] = {} /\ tx[r].deleted[l] # {}
      BY <2>2, <3>1
    <3>3. tx[r].mode.reset /\ (EmptyOf(l) \in Ran(tx[r]) \/ (l = "geography_memberships" /\ 4 \in Ran(tx[r])))
      BY <2>4, <3>2 DEF ListInOrder
    <3>4. EmptyOf(l) \in Position /\ Statements[EmptyOf(l)].target = l
          /\ ReadOf(l) \in Position /\ Statements[ReadOf(l)].target = l
          /\ WriteOf(l) \in Position /\ Statements[WriteOf(l)].target = l
          /\ 4 \in Position /\ Statements[4].target = "geographies"
      BY StatementsListed DEF Statement, Position, EmptyOf, ReadOf, WriteOf, Lists
    <3>5. CASE l \notin tx[r].mode.only
      BY <2>5, <3>3, <3>4, <3>5, ProgramHolds
    <3>6. CASE l \in tx[r].mode.only
      <4>1. ReadOf(l) \in Ran(tx[r]) /\ WriteOf(l) \in Ran(tx[r])
        BY <2>5, <3>3, <3>4, <3>6, ProgramHolds
      <4>2. tx[r].plan[l] # NoRow /\ tx[r].plan[l].found # NoRow
        BY <2>4, <3>2, <4>1 DEF ListInOrder, FoundNothing
      <4>3. tx[r].plan[l].found.id \notin IdsOf(lists[l])
        BY <2>4, <3>2, <4>2 DEF ListInOrder
      <4> QED BY <3>3, <4>2, <4>3 DEF FoundIsGone, IdsOf
    <3> QED BY <3>5, <3>6
  <2> QED BY <2>2, <2>3, <2>6 DEF IdsOf
<1> QED BY <1>2, <1>3

\* Whatever else is under way, the end of a seed never takes the last row of a target,
\* nor a row that series or sources refer to, but for the two exceptions of the property.
THEOREM SeedsKeepTargets == Spec => NoTargetEmptied
<1>1. SeedsInv /\ [Next]_seedVars =>
        [\A r \in Runs : tx[r].pc = "running" /\ tx'[r].pc # "running" =>
           /\ \A k \in Keys : rows[k] # NoRow => rows'[k] # NoRow
           /\ \A k \in used : rows'[k].id = rows[k].id
           /\ sourced \subseteq {row.id : row \in lists'["provider_catalogs"]}
           /\ \A l \in Lists : lists[l] # {} /\ lists'[l] = {} =>
                \/ /\ l = "geography_memberships" /\ l \notin tx[r].mode.only
                   /\ tx[r].mode.reset /\ "geographies" \in tx[r].mode.only
                \/ tx[r].mode.reset /\ FoundIsGone(r, l)]_seedVars
  BY EndsEmptyNothing
<1> QED BY <1>1, SeedsCorrect, PTL DEF Spec, NoTargetEmptied
===============================================================================
