---------------------------- MODULE CatalogProofs ----------------------------
(***************************************************************************)
(* Proofs about the catalog: first its schema, whatever way up and down    *)
(* the chain of revisions a database came by and whatever rows it holds;   *)
(* then the category tree, for any taxonomy, any list of curated series    *)
(* and any number of requests and bootstraps.                              *)
(*                                                                         *)
(* Schema.  A revision is run side by side on three databases: the empty   *)
(* one of its revision, the one that holds all its lists allow, and the    *)
(* one at hand.  For the first two TLC computes what becomes of them       *)
(* (Migrations, ChainAssumption and RestrictionsAssumption).  Like orders  *)
(* databases of one schema; ExecuteLike is the step: what is accepted on   *)
(* both leaves them alike, and what one refuses it refuses for its rows.   *)
(*                                                                         *)
(* Tree.  Requests and bootstraps act on what they have checked before or  *)
(* their session loaded; the invariant says what of it still holds when    *)
(* they write.                                                             *)
(***************************************************************************)
EXTENDS CategoryTree, Migrations, FiniteSetTheorems, WellFoundedInduction, TLAPS

-----------------------------------------------------------------------------
(* Statements *)

\* What the proofs need of the rows: their form, and that what links an observation
\* to a run or to a member log links it to its own.
RowsOf(values, filled, sourceOf, code, members, logs, obs) ==
  [values |-> values, filled |-> filled, sourceOf |-> sourceOf, code |-> code,
   members |-> members, logs |-> logs, obs |-> obs]

RowsTyped(r) ==
  /\ r = RowsOf(r.values, r.filled, r.sourceOf, r.code, r.members, r.logs, r.obs)
  /\ r.values = [c \in Governed |-> r.values[c]]
  /\ r.sourceOf \in [DOMAIN r.sourceOf -> Sources \cup {None}]
  /\ r.members \subseteq Feeds \X Sources
  /\ r.logs \subseteq Runs \X Sources
  /\ \A o \in r.obs : /\ o = [origin |-> o.origin, source |-> o.source,
                             run |-> o.run, member |-> o.member]
                      /\ o.origin \in Runs /\ o.source \in Sources

Linked(r) ==
  \A o \in r.obs : /\ o.run \in {None, o.origin}
                   /\ o.member \in {None, <<o.origin, o.source>>}

\* A run that has logs has one for the source of each of its observations.
LoggedTogether(r) ==
  \A o \in r.obs : \A l \in r.logs : l[1] = o.origin => <<o.origin, o.source>> \in r.logs

RowsSound(r) == RowsTyped(r) /\ Linked(r) /\ LoggedTogether(r)

DataOf(schema, allowed, rows, ok) ==
  [schema |-> schema, allowed |-> allowed, rows |-> rows, ok |-> ok]

DataTyped(d) ==
  /\ d = DataOf(d.schema, d.allowed, d.rows, d.ok)
  /\ d.allowed \in [Governed -> SUBSET STRING]
  /\ d.ok \in BOOLEAN

\* The rows are in tables that are there, and keep to the value lists.
Fits(d) ==
  /\ d.rows.logs # {} => Has(d, "ingestion_run_log_members")
  /\ \A t \in d.rows.filled : Has(d, t)
  /\ \A c \in Governed : d.rows.values[c] \subseteq d.allowed[c]

DataSound(d) == DataTyped(d) /\ RowsSound(d.rows) /\ Fits(d)

LEMMA NoRowsSound == RowsSound(NoRows)
  BY DEF RowsSound, RowsTyped, RowsOf, Linked, LoggedTogether, NoRows

LEMMA RowsExcept ==
  ASSUME NEW r, r = RowsOf(r.values, r.filled, r.sourceOf, r.code, r.members, r.logs, r.obs),
         NEW x
  PROVE  /\ [r EXCEPT !.values = x] =
              RowsOf(x, r.filled, r.sourceOf, r.code, r.members, r.logs, r.obs)
         /\ [r EXCEPT !.filled = x] =
              RowsOf(r.values, x, r.sourceOf, r.code, r.members, r.logs, r.obs)
         /\ [r EXCEPT !.sourceOf = x] =
              RowsOf(r.values, r.filled, x, r.code, r.members, r.logs, r.obs)
         /\ [r EXCEPT !.obs = x] =
              RowsOf(r.values, r.filled, r.sourceOf, r.code, r.members, r.logs, x)
  BY DEF RowsOf

\* The link that 0006 finds for an observation is its own.
LEMMA OwnMember ==
  ASSUME NEW r, RowsSound(r), NEW o \in r.obs
  PROVE  OnlyMemberOfRun(r, o) \in {None, <<o.origin, o.source>>}
<1> DEFINE logs == {l \in r.logs : l[1] = o.run}
<1>1. CASE Cardinality(logs) # 1
  BY <1>1 DEF OnlyMemberOfRun, RowsSound, Linked
<1>2. CASE Cardinality(logs) = 1
  <2>1. OnlyMemberOfRun(r, o) = CHOOSE l \in logs : TRUE
    BY <1>2 DEF OnlyMemberOfRun
  <2>2. \A l \in logs : l[1] = o.run /\ o.run \in Runs /\ l \in Runs \X Sources
    BY DEF RowsSound, RowsTyped
  <2>3. IsFiniteSet(logs)
    <3>1. logs \subseteq {o.run} \X Sources
      BY <2>2
    <3>2. IsFiniteSet({o.run} \X Sources)
      BY FS_Singleton, FS_Product, MigrationsAssumption
    <3> QED BY <3>1, <3>2, FS_Subset
  <2>4. PICK l : logs = {l}
    BY <1>2, <2>3, FS_Singleton
  <2>5. o.run = o.origin
    BY <2>2, <2>4, MigrationsAssumption DEF RowsSound, Linked
  <2>6. <<o.origin, o.source>> \in r.logs
    BY <2>4, <2>5 DEF RowsSound, LoggedTogether
  <2>7. <<o.origin, o.source>> \in logs
    BY <2>5, <2>6
  <2> QED BY <2>1, <2>4, <2>7
<1> QED BY <1>1, <1>2

\* Observations whose links are replaced by none or by their own.
LEMMA Relinked ==
  ASSUME NEW r, RowsSound(r), NEW q, RowsTyped(q), Linked(q),
         q.logs \in {r.logs, {}},
         \A o \in q.obs : \E p \in r.obs : p.origin = o.origin /\ p.source = o.source
  PROVE  RowsSound(q)
<1> SUFFICES ASSUME NEW o \in q.obs, NEW l \in q.logs, l[1] = o.origin
             PROVE  <<o.origin, o.source>> \in q.logs
  BY DEF RowsSound, LoggedTogether
<1>1. PICK p \in r.obs : p.origin = o.origin /\ p.source = o.source
  OBVIOUS
<1> QED BY <1>1 DEF RowsSound, LoggedTogether

LEMMA MovedSound ==
  ASSUME NEW r, RowsSound(r), NEW s \in Statements, s.op = "move"
  PROVE  /\ RowsSound(Moved(r, s.what))
         /\ Moved(r, s.what).values = r.values
         /\ Moved(r, s.what).filled =
              IF s.what = "no tags" THEN r.filled \ {"tags", "series_tags", "concept_tags"}
              ELSE r.filled
<1>1. s.what \in {"source of the first member", "only member log of the run",
                  "run of the member log", "no tags"}
  BY DEF Statements
<1>2. RowsTyped(r) /\ Linked(r)
  BY DEF RowsSound
<1>3. CASE s.what = "source of the first member"
  <2> DEFINE sources == [f \in DOMAIN r.sourceOf |-> FirstMember(r, f)]
             q == [r EXCEPT !.sourceOf = sources]
  <2>1. Moved(r, s.what) = q
    BY <1>3 DEF Moved
  <2>2. ASSUME NEW f PROVE FirstMember(r, f) \in Sources \cup {None}
    BY <1>2 DEF RowsTyped, FirstMember
  <2>3. sources \in [DOMAIN sources -> Sources \cup {None}]
    BY <2>2
  <2> HIDE DEF sources
  <2>4. /\ q.values = r.values /\ q.filled = r.filled /\ q.sourceOf = sources /\ q.code = r.code
        /\ q.members = r.members /\ q.logs = r.logs /\ q.obs = r.obs
        /\ q = RowsOf(q.values, q.filled, q.sourceOf, q.code, q.members, q.logs, q.obs)
    <3>1. q = RowsOf(r.values, r.filled, sources, r.code, r.members, r.logs, r.obs)
      BY <1>2, RowsExcept DEF RowsTyped
    <3> HIDE DEF q
    <3> QED BY <3>1 DEF RowsOf
  <2> HIDE DEF q
  <2>5. RowsTyped(q)
    BY <1>2, <2>3, <2>4 DEF RowsTyped
  <2> QED BY <1>3, <2>1, <2>4, <2>5 DEF RowsSound, Linked, LoggedTogether
<1>4. CASE s.what = "only member log of the run"
  <2> DEFINE linked(o) == [o EXCEPT !.member = OnlyMemberOfRun(r, o)]
             obs == {linked(o) : o \in r.obs}
             q == [r EXCEPT !.obs = obs]
  <2>1. Moved(r, s.what) = q
    BY <1>4 DEF Moved
  <2>2. ASSUME NEW o \in r.obs
        PROVE  /\ linked(o) = [origin |-> o.origin, source |-> o.source, run |-> o.run,
                               member |-> OnlyMemberOfRun(r, o)]
    BY <1>2 DEF RowsTyped
  <2> HIDE DEF linked
  <2>3. /\ q.values = r.values /\ q.filled = r.filled /\ q.sourceOf = r.sourceOf
        /\ q.code = r.code /\ q.members = r.members /\ q.logs = r.logs /\ q.obs = obs
        /\ q = RowsOf(q.values, q.filled, q.sourceOf, q.code, q.members, q.logs, q.obs)
    <3>1. q = RowsOf(r.values, r.filled, r.sourceOf, r.code, r.members, r.logs, obs)
      BY <1>2, RowsExcept DEF RowsTyped
    <3> HIDE DEF q
    <3> QED BY <3>1 DEF RowsOf
  <2> HIDE DEF q
  <2>4. ASSUME NEW x \in obs
        PROVE  /\ x = [origin |-> x.origin, source |-> x.source, run |-> x.run, member |-> x.member]
               /\ x.origin \in Runs /\ x.source \in Sources
               /\ x.run \in {None, x.origin} /\ x.member \in {None, <<x.origin, x.source>>}
               /\ \E o \in r.obs : o.origin = x.origin /\ o.source = x.source
    <3>1. PICK o \in r.obs : x = linked(o)
      OBVIOUS
    <3>2. o.origin \in Runs /\ o.source \in Sources /\ o.run \in {None, o.origin}
      BY <1>2 DEF RowsTyped, Linked
    <3>3. OnlyMemberOfRun(r, o) \in {None, <<o.origin, o.source>>}
      BY OwnMember
    <3> QED BY <2>2, <3>1, <3>2, <3>3
  <2>5. RowsTyped(q) /\ Linked(q)
    BY <1>2, <2>3, <2>4 DEF RowsTyped, Linked
  <2>6. RowsSound(q)
    BY <2>3, <2>4, <2>5, Relinked
  <2> QED BY <1>4, <2>1, <2>3, <2>6
<1>5. CASE s.what = "run of the member log"
  <2> DEFINE run(o) == IF o.member = None THEN None ELSE o.member[1]
             linked(o) == [o EXCEPT !.run = run(o)]
             obs == {linked(o) : o \in r.obs}
             q == [r EXCEPT !.obs = obs]
  <2>1. Moved(r, s.what) = q
    BY <1>5 DEF Moved
  <2>2. ASSUME NEW o \in r.obs
        PROVE  /\ linked(o) = [origin |-> o.origin, source |-> o.source, run |-> run(o),
                               member |-> o.member]
    BY <1>2 DEF RowsTyped
  <2>7. ASSUME NEW o \in r.obs PROVE run(o) \in {None, o.origin}
    BY <1>2 DEF Linked
  <2> HIDE DEF linked, run
  <2>3. /\ q.values = r.values /\ q.filled = r.filled /\ q.sourceOf = r.sourceOf
        /\ q.code = r.code /\ q.members = r.members /\ q.logs = r.logs /\ q.obs = obs
        /\ q = RowsOf(q.values, q.filled, q.sourceOf, q.code, q.members, q.logs, q.obs)
    <3>1. q = RowsOf(r.values, r.filled, r.sourceOf, r.code, r.members, r.logs, obs)
      BY <1>2, RowsExcept DEF RowsTyped
    <3> HIDE DEF q
    <3> QED BY <3>1 DEF RowsOf
  <2> HIDE DEF q
  <2>4. ASSUME NEW x \in obs
        PROVE  /\ x = [origin |-> x.origin, source |-> x.source, run |-> x.run, member |-> x.member]
               /\ x.origin \in Runs /\ x.source \in Sources
               /\ x.run \in {None, x.origin} /\ x.member \in {None, <<x.origin, x.source>>}
               /\ \E o \in r.obs : o.origin = x.origin /\ o.source = x.source
    <3>1. PICK o \in r.obs : x = linked(o)
      OBVIOUS
    <3>2. o.origin \in Runs /\ o.source \in Sources /\ o.member \in {None, <<o.origin, o.source>>}
      BY <1>2 DEF RowsTyped, Linked
    <3> QED BY <2>2, <2>7, <3>1, <3>2
  <2>5. RowsTyped(q) /\ Linked(q)
    BY <1>2, <2>3, <2>4 DEF RowsTyped, Linked
  <2>6. RowsSound(q)
    BY <2>3, <2>4, <2>5, Relinked
  <2> QED BY <1>5, <2>1, <2>3, <2>6
<1>6. CASE s.what = "no tags"
  <2> DEFINE q == [r EXCEPT !.filled = r.filled \ {"tags", "series_tags", "concept_tags"}]
  <2>1. Moved(r, s.what) = q
    BY <1>6 DEF Moved
  <2>2. /\ q.values = r.values /\ q.filled = r.filled \ {"tags", "series_tags", "concept_tags"}
        /\ q.sourceOf = r.sourceOf /\ q.code = r.code /\ q.members = r.members /\ q.logs = r.logs /\ q.obs = r.obs
        /\ q = RowsOf(q.values, q.filled, q.sourceOf, q.code, q.members, q.logs, q.obs)
    <3>1. q = RowsOf(r.values, r.filled \ {"tags", "series_tags", "concept_tags"}, r.sourceOf, r.code, r.members, r.logs, r.obs)
      BY <1>2, RowsExcept DEF RowsTyped
    <3> HIDE DEF q
    <3> QED BY <3>1 DEF RowsOf
  <2> HIDE DEF q
  <2>3. RowsTyped(q)
    BY <1>2, <2>2 DEF RowsTyped
  <2> QED BY <1>6, <2>1, <2>2, <2>3 DEF RowsSound, Linked, LoggedTogether
<1> QED BY <1>1, <1>3, <1>4, <1>5, <1>6

-----------------------------------------------------------------------------
(* One statement *)

LEMMA StatementForm ==
  ASSUME NEW s \in Statements
  PROVE  /\ s.op \in {"create", "drop_table", "add", "drop", "add_key", "rename_table", "rename",
                       "check", "replace", "require", "move"}
         /\ s.op = "check" => s.column \in Governed /\ s.values \subseteq STRING
         /\ s.op = "replace" => s.column \in Governed
         /\ s.op = "require" => s.what \in {"a source for each feed", "a code for each source",
                                            "one source for each code", "a code for each tag"}
  BY DEF Statements

\* What is accepted of a statement, before what is dropped has gone.
Taken(d, s) == DataOf(NewSchema(d, s), NewAllowed(d, s), NewRows(d, s), TRUE)

LEMMA ExecuteIs ==
  ASSUME NEW d, DataTyped(d), NEW s
  PROVE  /\ ~d.ok => Execute(d, s) = d
         /\ d.ok /\ ~Accepted(d, s) =>
              Execute(d, s) = DataOf(d.schema, d.allowed, d.rows, FALSE)
         /\ d.ok /\ Accepted(d, s) => Execute(d, s) = Kept(Taken(d, s))
<1> DEFINE D == {"schema", "allowed", "rows", "ok"}
           e == DataOf(d.schema, d.allowed, d.rows, FALSE)
<1>1. [d EXCEPT !.ok = FALSE] = e
  <2>1. d = DataOf(d.schema, d.allowed, d.rows, d.ok)
    BY DEF DataTyped
  <2>2. DOMAIN d = D /\ [d EXCEPT !.ok = FALSE] = [i \in DOMAIN d |-> IF i = "ok" THEN FALSE ELSE d[i]]
    BY <2>1 DEF DataOf
  <2>3. e = [i \in D |-> e[i]]
    BY DEF DataOf
  <2>4. \A i \in D : e[i] = IF i = "ok" THEN FALSE ELSE d[i]
    <3>1. e["schema"] = d["schema"] /\ e["allowed"] = d["allowed"] /\ e["rows"] = d["rows"]
      BY DEF DataOf
    <3>2. e["ok"] = FALSE
      BY Zenon DEF DataOf
    <3> HIDE DEF e
    <3> QED BY <3>1, <3>2
  <2> QED BY <2>2, <2>3, <2>4
<1> QED BY <1>1 DEF Execute, Taken, DataOf

LEMMA ReplacedValues ==
  ASSUME NEW r, RowsTyped(r), NEW s \in Statements, s.op = "replace"
  PROVE  LET V == r.values[s.column]
             W == IF s.from \in V THEN (V \ {s.from}) \cup {s.to} ELSE V
         IN  [r EXCEPT !.values[s.column] = IF s.from \in @ THEN (@ \ {s.from}) \cup {s.to} ELSE @]
               = RowsOf([r.values EXCEPT ![s.column] = W], r.filled, r.sourceOf, r.code,
                        r.members, r.logs, r.obs)
  BY DEF RowsTyped, RowsOf

LEMMA NewRowsSound ==
  ASSUME NEW d, DataSound(d), NEW s \in Statements, Accepted(d, s)
  PROVE  /\ RowsSound(NewRows(d, s))
         /\ \A c \in Governed : NewRows(d, s).values[c] \subseteq NewAllowed(d, s)[c]
         /\ NewAllowed(d, s) \in [Governed -> SUBSET STRING]
<1> DEFINE r == d.rows
           q == NewRows(d, s)
<1>1. /\ DataTyped(d) /\ RowsSound(r) /\ RowsTyped(r)
      /\ \A c \in Governed : r.values[c] \subseteq d.allowed[c]
  BY DEF DataSound, RowsSound, Fits
<1>2. NewAllowed(d, s) \in [Governed -> SUBSET STRING]
  BY <1>1, StatementForm DEF NewAllowed, DataTyped
<1>3. CASE s.op = "replace"
  <2> DEFINE V == r.values[s.column]
             W == IF s.from \in V THEN (V \ {s.from}) \cup {s.to} ELSE V
             values == [r.values EXCEPT ![s.column] = W]
  <2>1. q = RowsOf(values, r.filled, r.sourceOf, r.code, r.members, r.logs, r.obs)
    BY <1>1, <1>3, ReplacedValues DEF NewRows
  <2>2. s.column \in Governed /\ (s.from \in V => s.to \in d.allowed[s.column])
    BY <1>3, StatementForm DEF Accepted
  <2>3. /\ values = [c \in Governed |-> values[c]]
        /\ \A c \in Governed : values[c] \subseteq d.allowed[c]
    BY <1>1, <2>2 DEF RowsTyped
  <2> HIDE DEF values
  <2>4. /\ q.values = values /\ q.filled = r.filled /\ q.sourceOf = r.sourceOf
        /\ q.code = r.code /\ q.members = r.members /\ q.logs = r.logs /\ q.obs = r.obs
        /\ q = RowsOf(q.values, q.filled, q.sourceOf, q.code, q.members, q.logs, q.obs)
    BY <2>1 DEF RowsOf
  <2> HIDE DEF q
  <2>5. RowsTyped(q)
    BY <1>1, <2>3, <2>4 DEF RowsTyped
  <2>6. NewAllowed(d, s) = d.allowed
    BY <1>3 DEF NewAllowed
  <2> QED BY <1>1, <1>2, <2>3, <2>4, <2>5, <2>6 DEF q, RowsSound, Linked, LoggedTogether
<1>4. CASE s.op = "rename_table"
  <2> DEFINE filled == {IF t = s.table THEN s.to ELSE t : t \in r.filled}
  <2>1. q = RowsOf(r.values, filled, r.sourceOf, r.code, r.members, r.logs, r.obs)
    BY <1>1, <1>4, RowsExcept DEF NewRows, RowsTyped
  <2> HIDE DEF filled
  <2>2. /\ q.values = r.values /\ q.filled = filled /\ q.sourceOf = r.sourceOf
        /\ q.code = r.code /\ q.members = r.members /\ q.logs = r.logs /\ q.obs = r.obs
        /\ q = RowsOf(q.values, q.filled, q.sourceOf, q.code, q.members, q.logs, q.obs)
    BY <2>1 DEF RowsOf
  <2> HIDE DEF q
  <2>3. RowsTyped(q)
    BY <1>1, <2>2 DEF RowsTyped
  <2>4. NewAllowed(d, s) = d.allowed
    BY <1>4 DEF NewAllowed
  <2> QED BY <1>1, <1>2, <2>2, <2>3, <2>4 DEF q, RowsSound, Linked, LoggedTogether
<1>5. CASE s.op = "move"
  <2>1. q = Moved(r, s.what) /\ NewAllowed(d, s) = d.allowed
    BY <1>5 DEF NewRows, NewAllowed
  <2> QED BY <1>1, <1>2, <1>5, <2>1, MovedSound
<1>6. CASE s.op = "check"
  <2>1. q = r
    BY <1>6 DEF NewRows
  <2>2. s.column \in Governed /\ r.values[s.column] \subseteq s.values
    BY <1>6, StatementForm DEF Accepted
  <2>3. \A c \in Governed : r.values[c] \subseteq NewAllowed(d, s)[c]
    BY <1>1, <1>6, <2>2 DEF NewAllowed, DataTyped
  <2> QED BY <1>1, <1>2, <2>1, <2>3
<1>7. CASE s.op \notin {"replace", "rename_table", "move", "check"}
  <2>1. q = r /\ NewAllowed(d, s) = d.allowed
    BY <1>7 DEF NewRows, NewAllowed
  <2> QED BY <1>1, <1>2, <2>1
<1> QED BY <1>3, <1>4, <1>5, <1>6, <1>7

-----------------------------------------------------------------------------
(* What is dropped *)

LEMMA KeptIs ==
  ASSUME NEW d
  PROVE  LET has(t) == Has(d, t)
             run(o) == IF HasItem(d, "observations", "ingestion_run_log_id") THEN o.run ELSE None
             member(o) == IF HasItem(d, "observations", "ingestion_run_log_member_id")
                            THEN o.member ELSE None
             source(f) == IF HasItem(d, "ingestion_feeds", "series_source_id")
                            THEN d.rows.sourceOf[f] ELSE None
             kept(t, set) == IF has(t) THEN set ELSE {}
         IN  Kept(d) = DataOf(d.schema,
               IF has("change_proposals") THEN d.allowed ELSE NewDatabase.allowed,
               RowsOf(IF has("change_proposals") THEN d.rows.values ELSE NoRows.values,
                      {t \in d.rows.filled : has(t)},
                      IF has("ingestion_feeds")
                        THEN [f \in DOMAIN d.rows.sourceOf |-> source(f)] ELSE NoRows.sourceOf,
                      IF has("series_sources") THEN d.rows.code ELSE NoRows.code,
                      kept("ingestion_feed_members", d.rows.members),
                      kept("ingestion_run_log_members", d.rows.logs),
                      kept("observations",
                        {[origin |-> o.origin, source |-> o.source,
                          run |-> run(o), member |-> member(o)] : o \in d.rows.obs})),
               d.ok)
  BY DEF Kept, RowsOf, DataOf

LEMMA KeptObservation ==
  ASSUME NEW r, RowsSound(r), NEW o \in r.obs,
         NEW run \in {None, o.run}, NEW member \in {None, o.member}
  PROVE  LET x == [origin |-> o.origin, source |-> o.source, run |-> run, member |-> member]
         IN  /\ x = [origin |-> x.origin, source |-> x.source, run |-> x.run, member |-> x.member]
             /\ x.origin \in Runs /\ x.source \in Sources
             /\ x.run \in {None, x.origin} /\ x.member \in {None, <<x.origin, x.source>>}
             /\ o.origin = x.origin /\ o.source = x.source
<1> DEFINE x == [origin |-> o.origin, source |-> o.source, run |-> run, member |-> member]
<1>1. /\ o = [origin |-> o.origin, source |-> o.source, run |-> o.run, member |-> o.member]
      /\ o.origin \in Runs /\ o.source \in Sources
      /\ run \in {None, o.origin} /\ member \in {None, <<o.origin, o.source>>}
  BY DEF RowsSound, RowsTyped, Linked
<1>2. x = [origin |-> o.origin, source |-> o.source, run |-> run, member |-> member]
  OBVIOUS
<1> HIDE DEF x
<1>3. /\ x = [origin |-> x.origin, source |-> x.source, run |-> x.run, member |-> x.member]
      /\ x.origin \in Runs /\ x.source \in Sources
      /\ x.run \in {None, x.origin} /\ x.member \in {None, <<x.origin, x.source>>}
      /\ o.origin = x.origin /\ o.source = x.source
  BY <1>1, <1>2
<1> QED BY <1>3 DEF x

LEMMA KeptSound ==
  ASSUME NEW d, RowsSound(d.rows), d.allowed \in [Governed -> SUBSET STRING], d.ok = TRUE,
         \A c \in Governed : d.rows.values[c] \subseteq d.allowed[c]
  PROVE  /\ DataSound(Kept(d))
         /\ Kept(d).schema = d.schema /\ Kept(d).ok = TRUE
         /\ Kept(d).allowed = IF Has(d, "change_proposals") THEN d.allowed ELSE NewDatabase.allowed
         /\ Kept(d).rows.values = IF Has(d, "change_proposals") THEN d.rows.values ELSE NoRows.values
         /\ Kept(d).rows.filled = {t \in d.rows.filled : Has(d, t)}
<1> DEFINE r == d.rows
           k == Kept(d)
           q == k.rows
           hasRun == HasItem(d, "observations", "ingestion_run_log_id")
           hasMember == HasItem(d, "observations", "ingestion_run_log_member_id")
           obs == {[origin |-> o.origin, source |-> o.source,
                    run |-> IF hasRun THEN o.run ELSE None,
                    member |-> IF hasMember THEN o.member ELSE None] : o \in r.obs}
           sourceOf == [f \in DOMAIN r.sourceOf |->
                          IF HasItem(d, "ingestion_feeds", "series_source_id")
                            THEN r.sourceOf[f] ELSE None]
<1>1. /\ q.values = IF Has(d, "change_proposals") THEN r.values ELSE NoRows.values
      /\ q.filled = {t \in r.filled : Has(d, t)}
      /\ q.sourceOf = IF Has(d, "ingestion_feeds") THEN sourceOf ELSE NoRows.sourceOf
      /\ q.code = IF Has(d, "series_sources") THEN r.code ELSE NoRows.code
      /\ q.members = IF Has(d, "ingestion_feed_members") THEN r.members ELSE {}
      /\ q.logs = IF Has(d, "ingestion_run_log_members") THEN r.logs ELSE {}
      /\ q.obs = IF Has(d, "observations") THEN obs ELSE {}
      /\ q = RowsOf(q.values, q.filled, q.sourceOf, q.code, q.members, q.logs, q.obs)
  BY KeptIs DEF DataOf, RowsOf
<1>2. /\ k = DataOf(k.schema, k.allowed, k.rows, k.ok)
      /\ k.schema = d.schema /\ k.ok = d.ok
      /\ k.allowed = IF Has(d, "change_proposals") THEN d.allowed ELSE NewDatabase.allowed
  BY KeptIs DEF DataOf
<1>3. RowsTyped(r) /\ Linked(r)
  BY DEF RowsSound
<1> HIDE DEF k
<1>4. sourceOf \in [DOMAIN sourceOf -> Sources \cup {None}]
  BY <1>3 DEF RowsTyped
<1>5. q.sourceOf \in [DOMAIN q.sourceOf -> Sources \cup {None}]
  BY <1>1, <1>4 DEF NoRows
<1>6. \A c \in Governed : NoRows.values[c] = {} /\ NewDatabase.allowed[c] = {}
  BY DEF NoRows, NewDatabase
<1>7. NoRows.values = [c \in Governed |-> NoRows.values[c]]
      /\ NewDatabase.allowed \in [Governed -> SUBSET STRING]
  BY DEF NoRows, NewDatabase
<1>8. \A x \in q.obs :
        /\ x = [origin |-> x.origin, source |-> x.source, run |-> x.run, member |-> x.member]
        /\ x.origin \in Runs /\ x.source \in Sources
        /\ x.run \in {None, x.origin} /\ x.member \in {None, <<x.origin, x.source>>}
        /\ \E o \in r.obs : o.origin = x.origin /\ o.source = x.source
  <2> SUFFICES ASSUME NEW x \in obs
               PROVE  /\ x = [origin |-> x.origin, source |-> x.source,
                              run |-> x.run, member |-> x.member]
                      /\ x.origin \in Runs /\ x.source \in Sources
                      /\ x.run \in {None, x.origin} /\ x.member \in {None, <<x.origin, x.source>>}
                      /\ \E o \in r.obs : o.origin = x.origin /\ o.source = x.source
    BY <1>1
  <2>1. PICK o \in r.obs : x = [origin |-> o.origin, source |-> o.source,
                    run |-> IF hasRun THEN o.run ELSE None,
                    member |-> IF hasMember THEN o.member ELSE None]
    BY DEF obs
  <2> DEFINE run == IF hasRun THEN o.run ELSE None
             member == IF hasMember THEN o.member ELSE None
  <2>2. x = [origin |-> o.origin, source |-> o.source, run |-> run, member |-> member]
    BY <2>1
  <2>3. run \in {None, o.run} /\ member \in {None, o.member}
    OBVIOUS
  <2> HIDE DEF run, member
  <2> QED BY <2>2, <2>3, KeptObservation
<1> HIDE DEF q, obs, sourceOf
<1>9. RowsTyped(q) /\ Linked(q)
  BY <1>1, <1>3, <1>5, <1>7, <1>8 DEF RowsTyped, Linked
<1>10. RowsSound(q)
  BY <1>1, <1>8, <1>9, Relinked
<1>11. DataTyped(k)
  BY <1>2, <1>7 DEF DataTyped
<1>12. Fits(k)
  BY <1>1, <1>2, <1>6 DEF Fits, Has, q
<1> QED BY <1>1, <1>2, <1>10, <1>11, <1>12 DEF DataSound, k, q

LEMMA ExecuteSound ==
  ASSUME NEW d, DataSound(d), NEW s \in Statements
  PROVE  /\ DataSound(Execute(d, s))
         /\ Execute(d, s).ok <=> d.ok /\ Accepted(d, s)
<1>1. DataTyped(d) /\ RowsSound(d.rows) /\ Fits(d)
  BY DEF DataSound
<1>2. CASE ~d.ok
  BY <1>2, <1>1, ExecuteIs
<1>3. CASE d.ok /\ ~Accepted(d, s)
  <2> DEFINE e == DataOf(d.schema, d.allowed, d.rows, FALSE)
  <2>1. Execute(d, s) = e
    BY <1>1, <1>3, ExecuteIs
  <2>2. e.schema = d.schema /\ e.allowed = d.allowed /\ e.rows = d.rows
    BY DEF DataOf
  <2>3. e.ok = FALSE
    BY Zenon DEF DataOf
  <2>4. e = DataOf(e.schema, e.allowed, e.rows, e.ok)
    BY <2>2, <2>3
  <2> HIDE DEF e
  <2>5. DataTyped(e) /\ Fits(e)
    BY <1>1, <2>2, <2>3, <2>4 DEF DataTyped, Fits, Has
  <2> QED BY <1>1, <1>3, <2>1, <2>2, <2>3, <2>5 DEF DataSound
<1>4. CASE d.ok /\ Accepted(d, s)
  <2> DEFINE e == Taken(d, s)
  <2>1. Execute(d, s) = Kept(e)
    BY <1>1, <1>4, ExecuteIs
  <2>2. e.allowed = NewAllowed(d, s) /\ e.rows = NewRows(d, s)
    BY DEF Taken, DataOf
  <2>3. e.ok = TRUE
    BY Zenon DEF Taken, DataOf
  <2> HIDE DEF e
  <2>4. /\ RowsSound(e.rows) /\ e.allowed \in [Governed -> SUBSET STRING]
        /\ \A c \in Governed : e.rows.values[c] \subseteq e.allowed[c]
    BY <1>4, <2>2, NewRowsSound
  <2>5. DataSound(Kept(e)) /\ Kept(e).ok = TRUE
    BY <2>3, <2>4, KeptSound
  <2> QED BY <1>4, <2>1, <2>5
<1> QED BY <1>2, <1>3, <1>4

-----------------------------------------------------------------------------
(* Two databases at one revision *)

\* Their schemas are the same, and where full holds the one has no rows in a table,
\* and no values, that the other has not.
Like(d, e, full) ==
  /\ d.schema = e.schema /\ d.allowed = e.allowed
  /\ full => /\ \A c \in Governed : d.rows.values[c] \subseteq e.rows.values[c]
             /\ d.rows.filled \subseteq e.rows.filled

LEMMA SchemaLike ==
  ASSUME NEW d, NEW e, NEW full, Like(d, e, full), NEW s \in Statements
  PROVE  NewSchema(d, s) = NewSchema(e, s) /\ NewAllowed(d, s) = NewAllowed(e, s)
<1>1. d.schema = e.schema /\ d.allowed = e.allowed
  BY DEF Like
<1> QED BY <1>1 DEF NewSchema, NewAllowed

LEMMA RowsLike ==
  ASSUME NEW d, DataSound(d), NEW e, DataSound(e), Like(d, e, TRUE), NEW s \in Statements
  PROVE  /\ \A c \in Governed : NewRows(d, s).values[c] \subseteq NewRows(e, s).values[c]
         /\ NewRows(d, s).filled \subseteq NewRows(e, s).filled
<1>1. /\ \A c \in Governed : d.rows.values[c] \subseteq e.rows.values[c]
      /\ d.rows.filled \subseteq e.rows.filled
      /\ RowsTyped(d.rows) /\ RowsTyped(e.rows) /\ RowsSound(d.rows) /\ RowsSound(e.rows)
  BY DEF Like, DataSound, RowsSound
<1>2. CASE s.op = "replace"
  <2> DEFINE V(r) == r.values[s.column]
             W(r) == IF s.from \in V(r) THEN (V(r) \ {s.from}) \cup {s.to} ELSE V(r)
             values(r) == [r.values EXCEPT ![s.column] = W(r)]
             new(r) == [r EXCEPT !.values[s.column] =
                          IF s.from \in @ THEN (@ \ {s.from}) \cup {s.to} ELSE @]
  <2>1. ASSUME NEW r, RowsTyped(r)
        PROVE  /\ new(r).values = values(r) /\ new(r).filled = r.filled
               /\ \A c \in Governed : values(r)[c] = IF c = s.column THEN W(r) ELSE r.values[c]
    <3>1. new(r) = RowsOf(values(r), r.filled, r.sourceOf, r.code, r.members, r.logs, r.obs)
      BY <1>2, <2>1, ReplacedValues
    <3>2. new(r).values = values(r) /\ new(r).filled = r.filled
      BY <3>1 DEF RowsOf
    <3> QED BY <2>1, <3>2 DEF RowsTyped
  <2>2. NewRows(d, s) = new(d.rows) /\ NewRows(e, s) = new(e.rows)
    BY <1>2 DEF NewRows
  <2>3. s.column \in Governed
    BY <1>2, StatementForm
  <2>4. W(d.rows) \subseteq W(e.rows)
    BY <1>1, <2>3
  <2> HIDE DEF W, values, new
  <2> QED BY <1>1, <2>1, <2>2, <2>4
<1>3. CASE s.op = "rename_table"
  <2> DEFINE as(t) == IF t = s.table THEN s.to ELSE t
             filled(r) == {as(t) : t \in r.filled}
  <2>1. ASSUME NEW r, RowsTyped(r)
        PROVE  /\ [r EXCEPT !.filled = filled(r)].filled = filled(r)
               /\ [r EXCEPT !.filled = filled(r)].values = r.values
    <3> HIDE DEF filled
    <3>1. [r EXCEPT !.filled = filled(r)]
            = RowsOf(r.values, filled(r), r.sourceOf, r.code, r.members, r.logs, r.obs)
      BY <2>1, RowsExcept DEF RowsTyped
    <3> QED BY <3>1 DEF RowsOf
  <2>2. /\ NewRows(d, s) = [d.rows EXCEPT !.filled = filled(d.rows)]
        /\ NewRows(e, s) = [e.rows EXCEPT !.filled = filled(e.rows)]
    BY <1>3 DEF NewRows
  <2>3. filled(d.rows) \subseteq filled(e.rows)
    BY <1>1
  <2> HIDE DEF filled
  <2> QED BY <1>1, <2>1, <2>2, <2>3
<1>4. CASE s.op = "move"
  <2>1. /\ NewRows(d, s) = Moved(d.rows, s.what) /\ NewRows(e, s) = Moved(e.rows, s.what)
        /\ Moved(d.rows, s.what).values = d.rows.values
        /\ Moved(e.rows, s.what).values = e.rows.values
    BY <1>1, <1>4, MovedSound DEF NewRows
  <2>2. ASSUME NEW r, RowsSound(r)
        PROVE  Moved(r, s.what).filled =
                 IF s.what = "no tags" THEN r.filled \ {"tags", "series_tags", "concept_tags"}
                 ELSE r.filled
    BY <1>4, <2>2, MovedSound
  <2> QED BY <1>1, <2>1, <2>2
<1>5. CASE s.op \notin {"replace", "rename_table", "move"}
  BY <1>1, <1>5 DEF NewRows
<1> QED BY <1>2, <1>3, <1>4, <1>5

LEMMA ExecuteLike ==
  ASSUME NEW d, DataSound(d), NEW e, DataSound(e), NEW full \in BOOLEAN, Like(d, e, full),
         NEW s \in Statements, d.ok, e.ok, Accepted(d, s), Accepted(e, s)
  PROVE  Like(Execute(d, s), Execute(e, s), full)
<1> DEFINE x == Taken(d, s)
           y == Taken(e, s)
<1>1. Execute(d, s) = Kept(x) /\ Execute(e, s) = Kept(y)
  BY ExecuteIs DEF DataSound
<1>2. /\ x.schema = NewSchema(d, s) /\ x.allowed = NewAllowed(d, s) /\ x.rows = NewRows(d, s)
      /\ y.schema = NewSchema(e, s) /\ y.allowed = NewAllowed(e, s) /\ y.rows = NewRows(e, s)
  BY DEF Taken, DataOf
<1>3. x.ok = TRUE /\ y.ok = TRUE
  BY Zenon DEF Taken, DataOf
<1> HIDE DEF x, y
<1>4. /\ RowsSound(x.rows) /\ x.allowed \in [Governed -> SUBSET STRING]
      /\ \A c \in Governed : x.rows.values[c] \subseteq x.allowed[c]
  BY <1>2, NewRowsSound
<1>5. /\ RowsSound(y.rows) /\ y.allowed \in [Governed -> SUBSET STRING]
      /\ \A c \in Governed : y.rows.values[c] \subseteq y.allowed[c]
  BY <1>2, NewRowsSound
<1>6. x.schema = y.schema /\ x.allowed = y.allowed
  BY <1>2, SchemaLike
<1>7. \A t : Has(x, t) <=> Has(y, t)
  BY <1>6 DEF Has
<1>8. /\ Kept(x).schema = x.schema
      /\ Kept(x).allowed = IF Has(x, "change_proposals") THEN x.allowed ELSE NewDatabase.allowed
      /\ Kept(x).rows.values = IF Has(x, "change_proposals") THEN x.rows.values ELSE NoRows.values
      /\ Kept(x).rows.filled = {t \in x.rows.filled : Has(x, t)}
  BY <1>3, <1>4, KeptSound
<1>9. /\ Kept(y).schema = y.schema
      /\ Kept(y).allowed = IF Has(y, "change_proposals") THEN y.allowed ELSE NewDatabase.allowed
      /\ Kept(y).rows.values = IF Has(y, "change_proposals") THEN y.rows.values ELSE NoRows.values
      /\ Kept(y).rows.filled = {t \in y.rows.filled : Has(y, t)}
  BY <1>3, <1>5, KeptSound
<1>10. full => /\ \A c \in Governed : x.rows.values[c] \subseteq y.rows.values[c]
               /\ x.rows.filled \subseteq y.rows.filled
  <2> SUFFICES ASSUME full PROVE /\ \A c \in Governed : x.rows.values[c] \subseteq y.rows.values[c]
                                 /\ x.rows.filled \subseteq y.rows.filled
    OBVIOUS
  <2>1. Like(d, e, TRUE)
    BY DEF Like
  <2>2. /\ \A c \in Governed : NewRows(d, s).values[c] \subseteq NewRows(e, s).values[c]
        /\ NewRows(d, s).filled \subseteq NewRows(e, s).filled
    BY <2>1, RowsLike
  <2> QED BY <1>2, <2>2
<1> QED BY <1>1, <1>6, <1>7, <1>8, <1>9, <1>10 DEF Like

-----------------------------------------------------------------------------
(* The statements of a revision *)

LEMMA LeastOf ==
  ASSUME NEW S \in SUBSET Nat, S # {}
  PROVE  \E i \in S : \A j \in S : i <= j
<1>1. PICK i \in S : \A j \in S : <<j, i>> \notin OpToRel(<, Nat)
  BY NatLessThanWellFounded, WFMin, Zenon
<1>2. ASSUME NEW j \in S, ~(i <= j) PROVE FALSE
  <2>1. <<j, i>> \in {ss \in Nat \X Nat : ss[1] < ss[2]} BY <1>2
  <2> QED BY <1>1, <2>1 DEF OpToRel
<1> QED BY <1>2

\* after[i]: the database after the first i statements.
Run(after, d, ss, n) ==
  after = [i \in 0..n |-> IF i = 0 THEN d ELSE Execute(after[i - 1], ss[i])]

LEMMA RunSteps ==
  ASSUME NEW f, NEW d, NEW ss, NEW n \in Nat, Run(f, d, ss, n)
  PROVE  f[0] = d /\ \A i \in 1..n : f[i] = Execute(f[i - 1], ss[i])
<1>1. f[0] = d
  BY DEF Run
<1>2. ASSUME NEW i \in 1..n PROVE f[i] = Execute(f[i - 1], ss[i])
  <2>1. i \in 0..n /\ i # 0
    OBVIOUS
  <2> QED BY <2>1 DEF Run
<1> QED BY <1>1, <1>2

LEMMA ApplyIs ==
  ASSUME NEW d, NEW ss, Len(ss) \in Nat
  PROVE  \E after : Run(after, d, ss, Len(ss)) /\ Apply(d, ss) = after[Len(ss)]
<1> DEFINE Bad == {n \in Nat : ~\E after : Run(after, d, ss, n)}
<1>1. Bad = {}
  <2> SUFFICES ASSUME Bad # {} PROVE FALSE
    OBVIOUS
  <2>1. PICK n \in Bad : \A m \in Bad : n <= m
    BY LeastOf
  <2>2. CASE n = 0
    <3> DEFINE f == [i \in 0..0 |-> d]
    <3>1. f = [i \in 0..0 |-> IF i = 0 THEN d ELSE Execute(f[i - 1], ss[i])]
      OBVIOUS
    <3> HIDE DEF f
    <3> QED BY <2>1, <2>2, <3>1 DEF Run
  <2>3. CASE n # 0
    <3>1. n - 1 \in Nat /\ n - 1 \notin Bad /\ n \in Nat
      BY <2>1, <2>3
    <3>2. PICK g : Run(g, d, ss, n - 1)
      BY <3>1
    <3> DEFINE f == [i \in 0..n |-> IF i = n THEN Execute(g[n - 1], ss[n]) ELSE g[i]]
    <3>3. \A i \in 0..n : f[i] = IF i = 0 THEN d ELSE Execute(f[i - 1], ss[i])
      BY <2>3, <3>1, <3>2 DEF Run
    <3>4. f = [i \in 0..n |-> f[i]]
      OBVIOUS
    <3> HIDE DEF f
    <3>5. f = [i \in 0..n |-> IF i = 0 THEN d ELSE Execute(f[i - 1], ss[i])]
      BY <3>3, <3>4
    <3> QED BY <2>1, <3>5 DEF Run
  <2> QED BY <2>2, <2>3
<1> DEFINE a == CHOOSE after : Run(after, d, ss, Len(ss))
<1>2. Run(a, d, ss, Len(ss))
  BY <1>1
<1>3. Apply(d, ss) = a[Len(ss)]
  BY DEF Apply, Run
<1> QED BY <1>2, <1>3

LEMMA AcceptedSame ==
  ASSUME NEW d, NEW x, x.schema = d.schema, x.allowed = d.allowed, x.rows = d.rows,
         NEW s \in Statements
  PROVE  Accepted(x, s) <=> Accepted(d, s)
BY StatementForm DEF Accepted, Has, HasItem, ReferredTo

\* A statement that is refused on x and was accepted on a database like it.
Refused(x, s, y, full) ==
  DataSound(y) /\ Like(x, y, full) /\ Accepted(y, s) /\ ~Accepted(x, s)

LEMMA SideBySideStep ==
  ASSUME NEW d, DataSound(d), NEW e, DataSound(e), NEW full \in BOOLEAN, NEW s \in Statements,
         d.ok, e.ok, Like(d, e, full), Execute(e, s).ok
  PROVE  IF Execute(d, s).ok THEN Like(Execute(d, s), Execute(e, s), full)
         ELSE Refused(Execute(d, s), s, e, full)
<1>1. Accepted(e, s)
  BY ExecuteSound
<1>2. CASE Accepted(d, s)
  <2>1. Execute(d, s).ok /\ Like(Execute(d, s), Execute(e, s), full)
    BY <1>1, <1>2, ExecuteSound, ExecuteLike
  <2> QED BY <2>1
<1>3. CASE ~Accepted(d, s)
  <2> DEFINE x == Execute(d, s)
  <2>1. ~x.ok
    BY <1>3, ExecuteSound
  <2>2. x = DataOf(d.schema, d.allowed, d.rows, FALSE)
    BY <1>3, ExecuteIs DEF DataSound
  <2>3. x.schema = d.schema /\ x.allowed = d.allowed /\ x.rows = d.rows
    BY <2>2 DEF DataOf
  <2> HIDE DEF x
  <2>4. ~Accepted(x, s)
    BY <1>3, <2>3, AcceptedSame
  <2>5. Like(x, e, full)
    BY <2>3 DEF Like
  <2> QED BY <1>1, <2>1, <2>4, <2>5 DEF Refused, x
<1> QED BY <1>2, <1>3

\* A revision that is accepted on e is, on a database like it, either accepted, or
\* refused for a statement that only the rows can have stopped.
LEMMA SideBySide ==
  ASSUME NEW d, DataSound(d), d.ok, NEW e, DataSound(e), NEW full \in BOOLEAN,
         Like(d, e, full), NEW ss \in Seq(Statements), Apply(e, ss).ok
  PROVE  /\ DataSound(Apply(d, ss))
         /\ Apply(d, ss).ok => Like(Apply(d, ss), Apply(e, ss), full)
         /\ ~Apply(d, ss).ok => \E k \in DOMAIN ss : \E y : Refused(Apply(d, ss), ss[k], y, full)
<1> DEFINE N == Len(ss)
<1>1. N \in Nat /\ DOMAIN ss = 1..N /\ \A i \in 1..N : ss[i] \in Statements
  OBVIOUS
<1>2. PICK f : Run(f, d, ss, N) /\ Apply(d, ss) = f[N]
  BY <1>1, ApplyIs
<1>3. PICK g : Run(g, e, ss, N) /\ Apply(e, ss) = g[N]
  BY <1>1, ApplyIs
<1> DEFINE Stopped(x) == \E k \in DOMAIN ss : \E y : Refused(x, ss[k], y, full)
           Together(i) == /\ DataSound(f[i]) /\ DataSound(g[i])
                          /\ g[i].ok => IF f[i].ok THEN Like(f[i], g[i], full) ELSE Stopped(f[i])
           Bad == {i \in 0..N : ~Together(i)}
<1>4. Together(0)
  <2>1. f[0] = d /\ g[0] = e
    BY <1>1, <1>2, <1>3, RunSteps
  <2> QED BY <2>1
<1>5. ASSUME NEW i \in 1..N, Together(i - 1) PROVE Together(i)
  <2>1. f[i] = Execute(f[i - 1], ss[i]) /\ g[i] = Execute(g[i - 1], ss[i]) /\ ss[i] \in Statements
    BY <1>1, <1>2, <1>3, RunSteps
  <2>2. DataSound(f[i - 1]) /\ DataSound(g[i - 1])
    BY <1>5
  <2>3. DataSound(f[i]) /\ DataSound(g[i]) /\ (g[i].ok => g[i - 1].ok)
    BY <2>1, <2>2, ExecuteSound
  <2>4. ASSUME g[i].ok, f[i - 1].ok
        PROVE  IF f[i].ok THEN Like(f[i], g[i], full) ELSE Stopped(f[i])
    <3>1. Like(f[i - 1], g[i - 1], full) /\ g[i - 1].ok
      BY <1>5, <2>3, <2>4
    <3>2. IF f[i].ok THEN Like(f[i], g[i], full) ELSE Refused(f[i], ss[i], g[i - 1], full)
      BY <2>1, <2>2, <2>4, <3>1, SideBySideStep
    <3>3. i \in DOMAIN ss
      BY <1>1
    <3> QED BY <3>2, <3>3
  <2>5. ASSUME g[i].ok, ~f[i - 1].ok
        PROVE  IF f[i].ok THEN Like(f[i], g[i], full) ELSE Stopped(f[i])
    <3>1. Stopped(f[i - 1])
      BY <1>5, <2>3, <2>5
    <3>2. f[i] = f[i - 1]
      BY <2>1, <2>2, <2>5, ExecuteIs DEF DataSound
    <3> QED BY <2>5, <3>1, <3>2
  <2> HIDE DEF Stopped
  <2> QED BY <2>3, <2>4, <2>5
<1> HIDE DEF Together
<1>6. Bad = {}
  <2> SUFFICES ASSUME Bad # {} PROVE FALSE
    OBVIOUS
  <2>1. PICK i \in Bad : \A j \in Bad : i <= j
    <3>1. Bad \in SUBSET Nat
      BY <1>1
    <3> QED BY <3>1, LeastOf
  <2>2. i # 0
    BY <1>4, <2>1
  <2>3. i \in 1..N /\ i - 1 \in 0..N /\ i - 1 \notin Bad
    BY <1>1, <2>1, <2>2
  <2> QED BY <1>5, <2>1, <2>3
<1>7. Together(N)
  BY <1>1, <1>6
<1> QED BY <1>2, <1>3, <1>7 DEF Together

-----------------------------------------------------------------------------
(* The databases of the chain *)

LEMMA ChainSound ==
  ASSUME NEW n \in 0..Latest
  PROVE  DataSound(AtRevision(n)) /\ AtRevision(n).ok /\ AtRevision(n).rows = NoRows
<1> DEFINE d == AtRevision(n)
<1>1. d = DataOf(d.schema, d.allowed, NoRows, TRUE) /\ d.allowed \in [Governed -> SUBSET STRING]
  BY ChainAssumption DEF DataOf
<1> HIDE DEF d
<1>2. d.rows = NoRows
  BY <1>1 DEF DataOf
<1>3. d.ok = TRUE
  <2>1. DataOf(d.schema, d.allowed, NoRows, TRUE).ok = TRUE
    BY Zenon DEF DataOf
  <2> QED BY <1>1, <2>1
<1>4. DataTyped(d)
  BY <1>1, <1>2, <1>3 DEF DataTyped
<1>5. Fits(d)
  BY <1>2 DEF Fits, NoRows
<1> QED BY <1>2, <1>3, <1>4, <1>5, NoRowsSound DEF DataSound, d

LEMMA FullestSound ==
  ASSUME NEW n \in 0..Latest
  PROVE  /\ DataSound(Fullest(n)) /\ Fullest(n).ok
         /\ Fullest(n).schema = AtRevision(n).schema /\ Fullest(n).allowed = AtRevision(n).allowed
         /\ Fullest(n).rows.values = AtRevision(n).allowed
         /\ Fullest(n).rows.filled =
              {t \in {f[1] : f \in AtRevision(n).schema} : Has(AtRevision(n), t)}
<1> DEFINE at == AtRevision(n)
           filled == {t \in {f[1] : f \in at.schema} : Has(at, t)}
           r == RowsOf(at.allowed, filled, NoRows.sourceOf, NoRows.code, {}, {}, {})
           d == DataOf(at.schema, at.allowed, r, TRUE)
<1>1. at = DataOf(at.schema, at.allowed, NoRows, TRUE) /\ at.allowed \in [Governed -> SUBSET STRING]
  BY ChainAssumption DEF DataOf
<1>3. Fullest(n) = d
  BY DEF Fullest, DataOf, RowsOf
<1> HIDE DEF at, filled
<1>4. /\ r.values = at.allowed /\ r.filled = filled /\ r.sourceOf = NoRows.sourceOf
      /\ r.code = NoRows.code /\ r.members = {} /\ r.logs = {} /\ r.obs = {}
      /\ r = RowsOf(r.values, r.filled, r.sourceOf, r.code, r.members, r.logs, r.obs)
  BY DEF RowsOf
<1> HIDE DEF r
<1>5. RowsSound(r)
  BY <1>1, <1>4 DEF RowsSound, RowsTyped, Linked, LoggedTogether, NoRows
<1>6. d.schema = at.schema /\ d.allowed = at.allowed /\ d.rows = r
  BY DEF DataOf
<1>7. d.ok = TRUE
  BY Zenon DEF DataOf
<1>8. d = DataOf(d.schema, d.allowed, d.rows, d.ok)
  BY <1>6, <1>7
<1> HIDE DEF d
<1>9. DataTyped(d)
  BY <1>1, <1>6, <1>7, <1>8 DEF DataTyped
<1>10. Fits(d)
  BY <1>4, <1>6 DEF Fits, Has, filled
<1> QED BY <1>3, <1>4, <1>5, <1>6, <1>7, <1>9, <1>10 DEF DataSound, at, filled

\* Only what a statement says of rows can be refused on one of two databases alike.
LEMMA OnlyTheRows ==
  ASSUME NEW x, NEW y, NEW s \in Statements, NEW full \in BOOLEAN, Refused(x, s, y, full)
  PROVE  /\ s.op \in {"check", "replace", "require"}
         /\ full => s.op = "require" /\ s.what # "a code for each tag"
<1>1. /\ Accepted(y, s) /\ ~Accepted(x, s) /\ x.schema = y.schema /\ x.allowed = y.allowed
      /\ full => /\ \A c \in Governed : x.rows.values[c] \subseteq y.rows.values[c]
                 /\ x.rows.filled \subseteq y.rows.filled
  BY DEF Refused, Like
<1>2. s.op \in {"check", "replace", "require"}
  BY <1>1, StatementForm DEF Accepted, Has, HasItem, ReferredTo
<1>3. ASSUME full, s.op = "check" PROVE FALSE
  BY <1>1, <1>3, StatementForm DEF Accepted
<1>4. ASSUME full, s.op = "replace" PROVE FALSE
  BY <1>1, <1>4, StatementForm DEF Accepted
<1>5. ASSUME full, s.op = "require", s.what = "a code for each tag" PROVE FALSE
  BY <1>1, <1>5 DEF Accepted, Required
<1> QED BY <1>2, <1>3, <1>4, <1>5

-----------------------------------------------------------------------------
(* What the application stores *)

\* A database at a revision, with the schema and the lists of the revision.
AtItsRevision(x) ==
  /\ x.rev \in 0..Latest /\ DataSound(x.data) /\ x.data.ok
  /\ Like(x.data, AtRevision(x.rev), FALSE)

Stored == db = [rev |-> db.rev, data |-> db.data] /\ AtItsRevision(db)

LEMMA DataRows ==
  ASSUME NEW d, DataTyped(d), NEW rows
  PROVE  [d EXCEPT !.rows = rows] = DataOf(d.schema, d.allowed, rows, d.ok)
<1> DEFINE D == {"schema", "allowed", "rows", "ok"}
           e == DataOf(d.schema, d.allowed, rows, d.ok)
<1>1. d = DataOf(d.schema, d.allowed, d.rows, d.ok)
  BY DEF DataTyped
<1>2. DOMAIN d = D /\ [d EXCEPT !.rows = rows] = [i \in DOMAIN d |-> IF i = "rows" THEN rows ELSE d[i]]
  BY <1>1 DEF DataOf
<1>3. e = [i \in D |-> e[i]]
  BY DEF DataOf
<1>4. e["schema"] = d["schema"] /\ e["allowed"] = d["allowed"] /\ e["rows"] = rows
      /\ e["ok"] = d["ok"]
  BY DEF DataOf
<1> HIDE DEF e
<1>5. \A i \in D : e[i] = IF i = "rows" THEN rows ELSE d[i]
  BY <1>4
<1>6. [d EXCEPT !.rows = rows] = e
  BY <1>2, <1>3, <1>5
<1> QED BY <1>6 DEF e

LEMMA WriteStored ==
  ASSUME Stored, NEW rows, Write(rows), RowsSound(rows),
         rows.logs # {} => Has(db.data, "ingestion_run_log_members"),
         \A t \in rows.filled : Has(db.data, t),
         \A c \in Governed : rows.values[c] \subseteq db.data.allowed[c]
  PROVE  Stored' /\ work' = None
<1> DEFINE d == db.data
           e == DataOf(d.schema, d.allowed, rows, d.ok)
<1>1. work' = None /\ db' = [rev |-> db.rev, data |-> [d EXCEPT !.rows = rows]]
  BY DEF Write, Stored
<1>2. DataTyped(d) /\ d.ok
  BY DEF Stored, AtItsRevision, DataSound
<1>3. db'.rev = db.rev /\ db'.data = e /\ db' = [rev |-> db'.rev, data |-> db'.data]
  BY <1>1, <1>2, DataRows
<1>4. e.schema = d.schema /\ e.allowed = d.allowed /\ e.rows = rows /\ e.ok = d.ok
      /\ e = DataOf(e.schema, e.allowed, e.rows, e.ok)
  BY DEF DataOf
<1> HIDE DEF e
<1>5. DataTyped(e)
  BY <1>2, <1>4 DEF DataTyped
<1>6. Fits(e)
  BY <1>4 DEF Fits, Has
<1>7. Like(e, AtRevision(db.rev), FALSE)
  BY <1>4 DEF Stored, AtItsRevision, Like
<1> QED BY <1>1, <1>2, <1>3, <1>4, <1>5, <1>6, <1>7 DEF Stored, AtItsRevision, DataSound

LEMMA StoredRows ==
  ASSUME Stored
  PROVE  /\ RowsTyped(db.data.rows) /\ Linked(db.data.rows) /\ LoggedTogether(db.data.rows)
         /\ RowsSound(db.data.rows) /\ Fits(db.data)
  BY DEF Stored, AtItsRevision, DataSound, RowsSound

LEMMA RowsAre ==
  ASSUME NEW q, q = [i \in {"values", "filled", "sourceOf", "code", "members", "logs", "obs"} |-> q[i]]
  PROVE  q = RowsOf(q.values, q.filled, q.sourceOf, q.code, q.members, q.logs, q.obs)
<1> DEFINE D == {"values", "filled", "sourceOf", "code", "members", "logs", "obs"}
           p == RowsOf(q.values, q.filled, q.sourceOf, q.code, q.members, q.logs, q.obs)
<1>1. p = [i \in D |-> p[i]]
  BY DEF RowsOf
<1>2. /\ p.values = q.values /\ p.filled = q.filled /\ p.sourceOf = q.sourceOf
      /\ p.code = q.code /\ p.members = q.members /\ p.logs = q.logs /\ p.obs = q.obs
  BY DEF RowsOf
<1> HIDE DEF p
<1>3. \A i \in D : p[i] = q[i]
  BY <1>2
<1>4. p = q
  BY <1>1, <1>3
<1> QED BY <1>4 DEF p

LEMMA ProposeStored ==
  ASSUME Stored, NEW w \in Written, Propose(w[1], w[2])
  PROVE  Stored' /\ work' = None
<1> DEFINE r == db.data.rows
           c == w[1]
           values == [r.values EXCEPT ![c] = @ \cup {w[2]}]
           q == [r EXCEPT !.values[c] = @ \cup {w[2]}]
<1>1. c \in Governed
  BY MigrationsAssumption
<1>2. w[2] \in db.data.allowed[c]
  BY DEF Propose
<1>3. Write(q)
  BY DEF Propose
<1>4. r = RowsOf(r.values, r.filled, r.sourceOf, r.code, r.members, r.logs, r.obs)
      /\ r.values = [a \in Governed |-> r.values[a]]
  BY StoredRows DEF RowsTyped
<1>5. /\ q.values = values /\ q.filled = r.filled /\ q.sourceOf = r.sourceOf
      /\ q.members = r.members /\ q.logs = r.logs /\ q.obs = r.obs
      /\ q = [i \in {"values", "filled", "sourceOf", "code", "members", "logs", "obs"} |-> q[i]]
  <2> HIDE DEF c
  <2> QED BY <1>4 DEF RowsOf
<1> HIDE DEF q
<1>6. /\ values = [a \in Governed |-> values[a]]
      /\ \A a \in Governed : values[a] \subseteq db.data.allowed[a]
  BY <1>1, <1>2, <1>4, StoredRows DEF Fits
<1> HIDE DEF values
<1>7. RowsTyped(q)
  BY <1>5, <1>6, StoredRows, RowsAre DEF RowsTyped
<1>8. RowsSound(q)
  BY <1>5, <1>7, StoredRows DEF RowsSound, Linked, LoggedTogether
<1> QED BY <1>3, <1>5, <1>6, <1>8, StoredRows, WriteStored DEF Fits

LEMMA ClassifyStored ==
  ASSUME Stored, NEW t, Classify(t)
  PROVE  Stored' /\ work' = None
<1> DEFINE r == db.data.rows
           filled == r.filled \cup {t}
           q == [r EXCEPT !.filled = filled]
<1>1. Write(q) /\ \A u \in filled : Has(db.data, u)
  BY StoredRows DEF Classify, Fits
<1> HIDE DEF filled
<1>2. q = RowsOf(r.values, filled, r.sourceOf, r.code, r.members, r.logs, r.obs)
  BY StoredRows, RowsExcept DEF RowsTyped
<1>3. /\ q.values = r.values /\ q.filled = filled /\ q.sourceOf = r.sourceOf
      /\ q.code = r.code /\ q.members = r.members /\ q.logs = r.logs /\ q.obs = r.obs
      /\ q = RowsOf(q.values, q.filled, q.sourceOf, q.code, q.members, q.logs, q.obs)
  BY <1>2 DEF RowsOf
<1> HIDE DEF q
<1>4. RowsSound(q)
  BY <1>3, StoredRows DEF RowsSound, RowsTyped, Linked, LoggedTogether
<1> QED BY <1>1, <1>3, <1>4, StoredRows, WriteStored DEF Fits

LEMMA AddFeedStored ==
  ASSUME Stored, NEW f \in Feeds, NEW ss \in SUBSET Sources, NEW codes, AddFeed(f, ss, codes)
  PROVE  Stored' /\ work' = None
<1> DEFINE r == db.data.rows
           old == HasItem(db.data, "ingestion_feeds", "series_source_id")
           sourceOf == [g \in DOMAIN r.sourceOf \cup {f} |->
                          IF g # f THEN r.sourceOf[g] ELSE IF old THEN CHOOSE s \in ss : TRUE ELSE None]
           code == [s \in DOMAIN r.code \cup ss |-> IF s \in ss THEN codes[s] ELSE r.code[s]]
           members == IF old THEN r.members ELSE r.members \cup {<<f, s>> : s \in ss}
           q == [r EXCEPT !.sourceOf = sourceOf, !.code = code, !.members = members]
<1>1. Write(q) /\ (old => Cardinality(ss) = 1)
  BY DEF AddFeed
<1>2. old => (CHOOSE s \in ss : TRUE) \in Sources
  <2> SUFFICES ASSUME old PROVE (CHOOSE s \in ss : TRUE) \in Sources
    OBVIOUS
  <2>1. IsFiniteSet(ss)
    BY FS_Subset, MigrationsAssumption
  <2>2. ss # {}
    BY <1>1, <2>1, FS_Singleton
  <2> QED BY <2>2
<1>3. RowsTyped(r)
  BY StoredRows
<1>4. sourceOf \in [DOMAIN sourceOf -> Sources \cup {None}]
  <2>1. \A g \in DOMAIN r.sourceOf : r.sourceOf[g] \in Sources \cup {None}
    BY <1>3 DEF RowsTyped
  <2> QED BY <1>2, <2>1
<1>5. members \subseteq Feeds \X Sources
  BY <1>3 DEF RowsTyped
<1> HIDE DEF sourceOf, code, members
<1>6. /\ q.values = r.values /\ q.filled = r.filled /\ q.sourceOf = sourceOf
      /\ q.members = members /\ q.logs = r.logs /\ q.obs = r.obs
      /\ q = [i \in {"values", "filled", "sourceOf", "code", "members", "logs", "obs"} |-> q[i]]
  <2>1. r = RowsOf(r.values, r.filled, r.sourceOf, r.code, r.members, r.logs, r.obs)
    BY <1>3 DEF RowsTyped
  <2> QED BY <2>1 DEF RowsOf
<1> HIDE DEF q
<1>7. RowsTyped(q)
  BY <1>3, <1>4, <1>5, <1>6, RowsAre DEF RowsTyped
<1>8. RowsSound(q)
  BY <1>6, <1>7, StoredRows DEF RowsSound, Linked, LoggedTogether
<1> QED BY <1>1, <1>6, <1>8, StoredRows, WriteStored DEF Fits

LEMMA RunFeedStored ==
  ASSUME Stored, NEW f \in Feeds, NEW x \in Runs, RunFeed(f, x)
  PROVE  Stored' /\ work' = None
<1> DEFINE r == db.data.rows
           logged == Has(db.data, "ingestion_run_log_members")
           sources == SourcesOf(r, f)
           run == IF HasItem(db.data, "observations", "ingestion_run_log_id") THEN x ELSE None
           member(s) == IF HasItem(db.data, "observations", "ingestion_run_log_member_id")
                          THEN <<x, s>> ELSE None
           new(s) == [origin |-> x, source |-> s, run |-> run, member |-> member(s)]
           logs == IF logged THEN r.logs \cup {<<x, s>> : s \in sources} ELSE r.logs
           obs == r.obs \cup {new(s) : s \in sources}
           q == [r EXCEPT !.logs = logs, !.obs = obs]
<1>1. Write(q) /\ f \in DOMAIN r.sourceOf /\ \A o \in r.obs : o.origin # x
  BY DEF RunFeed
<1>2. RowsTyped(r) /\ Linked(r) /\ LoggedTogether(r) /\ (r.logs # {} => logged)
  BY StoredRows DEF Fits
<1>3. sources \subseteq Sources
  <2>1. r.sourceOf[f] \in Sources \cup {None} /\ r.members \subseteq Feeds \X Sources
    BY <1>1, <1>2 DEF RowsTyped
  <2> QED BY <2>1 DEF SourcesOf
<1>4. run \in {None, x} /\ \A s : member(s) \in {None, <<x, s>>}
  OBVIOUS
<1> HIDE DEF sources, run, member, logged
<1>5. \A o \in obs : o \in r.obs \/ \E s \in sources : o = new(s)
  OBVIOUS
<1>6. \A s : new(s).origin = x /\ new(s).source = s /\ new(s).run = run /\ new(s).member = member(s)
             /\ new(s) = [origin |-> new(s).origin, source |-> new(s).source,
                          run |-> new(s).run, member |-> new(s).member]
  OBVIOUS
<1> HIDE DEF new
<1>7. \A o \in obs : /\ o = [origin |-> o.origin, source |-> o.source,
                              run |-> o.run, member |-> o.member]
                     /\ o.origin \in Runs /\ o.source \in Sources
                     /\ o.run \in {None, o.origin} /\ o.member \in {None, <<o.origin, o.source>>}
  BY <1>2, <1>3, <1>4, <1>5, <1>6 DEF RowsTyped, Linked
<1>8. logs \subseteq Runs \X Sources /\ (logs # {} => logged)
  BY <1>2, <1>3 DEF RowsTyped
<1>9. ASSUME NEW o \in obs, NEW l \in logs, l[1] = o.origin PROVE <<o.origin, o.source>> \in logs
  <2>1. CASE o \in r.obs
    <3>1. l \in r.logs
      BY <1>1, <1>9, <2>1
    <3> QED BY <1>2, <1>9, <2>1, <3>1 DEF LoggedTogether
  <2>2. CASE \E s \in sources : o = new(s)
    <3>1. logged
      BY <1>8
    <3> QED BY <1>6, <2>2, <3>1
  <2> QED BY <1>5, <2>1, <2>2
<1> HIDE DEF logs, obs
<1>10. /\ q.values = r.values /\ q.filled = r.filled /\ q.sourceOf = r.sourceOf
       /\ q.members = r.members /\ q.logs = logs /\ q.obs = obs
       /\ q = [i \in {"values", "filled", "sourceOf", "code", "members", "logs", "obs"} |-> q[i]]
  <2>1. r = RowsOf(r.values, r.filled, r.sourceOf, r.code, r.members, r.logs, r.obs)
    BY <1>2 DEF RowsTyped
  <2> QED BY <2>1 DEF RowsOf
<1> HIDE DEF q
<1>11. RowsTyped(q) /\ Linked(q)
  BY <1>2, <1>7, <1>8, <1>10, RowsAre DEF RowsTyped, Linked
<1>12. LoggedTogether(q)
  BY <1>9, <1>10 DEF LoggedTogether
<1> QED BY <1>1, <1>8, <1>10, <1>11, <1>12, StoredRows, WriteStored DEF Fits, RowsSound, logged

-----------------------------------------------------------------------------
(* Commands *)

\* An open command has either come to a revision or been refused.
Opened ==
  work # None => /\ work = [dir |-> work.dir, rev |-> work.rev, data |-> work.data]
                 /\ work.rev \in 0..Latest /\ DataSound(work.data)
                 /\ work.data.ok => AtItsRevision(work)

ChainInv == Stored /\ Opened /\ BlockedOnlyByRows

LEMMA LikeFullest ==
  ASSUME NEW x, AtItsRevision(x)
  PROVE  Like(x.data, Fullest(x.rev), TRUE)
<1> DEFINE d == x.data
           at == AtRevision(x.rev)
<1>1. /\ x.rev \in 0..Latest /\ d.schema = at.schema /\ d.allowed = at.allowed
      /\ \A t \in d.rows.filled : Has(d, t)
      /\ \A c \in Governed : d.rows.values[c] \subseteq d.allowed[c]
  BY DEF AtItsRevision, Like, DataSound, Fits
<1>2. \A t \in d.rows.filled : t \in {f[1] : f \in at.schema} /\ Has(at, t)
  <2> SUFFICES ASSUME NEW t \in d.rows.filled
               PROVE  t \in {f[1] : f \in at.schema} /\ Has(at, t)
    OBVIOUS
  <2>1. <<t, "table", "">> \in at.schema
    BY <1>1 DEF Has
  <2>2. <<t, "table", "">>[1] = t
    OBVIOUS
  <2> QED BY <2>1, <2>2 DEF Has
<1>3. /\ Fullest(x.rev).schema = at.schema /\ Fullest(x.rev).allowed = at.allowed
      /\ Fullest(x.rev).rows.values = at.allowed
      /\ Fullest(x.rev).rows.filled = {t \in {f[1] : f \in at.schema} : Has(at, t)}
  BY <1>1, FullestSound
<1> HIDE DEF d, at
<1> QED BY <1>1, <1>2, <1>3 DEF Like, d, at

\* The command's data after a revision whose statements are ss, from n to m.
LEMMA RevisionStep ==
  ASSUME NEW n \in 0..Latest, NEW m \in 0..Latest, NEW ss \in Seq(Statements),
         Apply(AtRevision(n), ss) = AtRevision(m), NEW d, AtItsRevision([rev |-> n, data |-> d])
  PROVE  LET x == Apply(d, ss)
         IN  /\ DataSound(x)
             /\ x.ok => Like(x, AtRevision(m), FALSE)
             /\ ~x.ok => \E k \in DOMAIN ss : \E y : Refused(x, ss[k], y, FALSE)
             /\ ~x.ok /\ Apply(Fullest(n), ss).ok =>
                  \E k \in DOMAIN ss : \E y : Refused(x, ss[k], y, TRUE)
<1> DEFINE x == Apply(d, ss)
           at == [rev |-> n, data |-> d]
<1>1. at.rev = n /\ at.data = d
  OBVIOUS
<1>2. DataSound(d) /\ d.ok /\ Like(d, AtRevision(n), FALSE)
  BY <1>1 DEF AtItsRevision
<1>3. DataSound(AtRevision(n)) /\ AtRevision(m).ok
  BY ChainSound
<1>4. /\ DataSound(x)
      /\ x.ok => Like(x, AtRevision(m), FALSE)
      /\ ~x.ok => \E k \in DOMAIN ss : \E y : Refused(x, ss[k], y, FALSE)
  BY <1>2, <1>3, SideBySide
<1>5. ASSUME Apply(Fullest(n), ss).ok, ~x.ok
      PROVE  \E k \in DOMAIN ss : \E y : Refused(x, ss[k], y, TRUE)
  <2>1. Like(d, Fullest(n), TRUE) /\ DataSound(Fullest(n))
    BY <1>1, LikeFullest, FullestSound
  <2> QED BY <1>2, <1>5, <2>1, SideBySide
<1> QED BY <1>4, <1>5

\* Where only the lists are restricted, what is refused is a value that is not in one.
LEMMA RestrictedByValues ==
  ASSUME NEW x, NEW ss \in Seq(Statements), NEW lists, Restricts(ss, lists),
         \E k \in DOMAIN ss : \E y : Refused(x, ss[k], y, FALSE)
  PROVE  \E c \in Governed : ~(x.rows.values[c] \subseteq lists[c])
<1>1. PICK k \in DOMAIN ss : \E y : Refused(x, ss[k], y, FALSE)
  OBVIOUS
<1> DEFINE s == ss[k]
<1>2. s \in Statements
  OBVIOUS
<1>3. s.op \in {"check", "replace", "require"}
  BY <1>1, <1>2, OnlyTheRows
<1>4. s.op = "check" /\ s.values = lists[s.column]
  BY <1>3 DEF Restricts
<1>5. s.column \in Governed
  BY <1>2, <1>4, StatementForm
<1>6. ~(x.rows.values[s.column] \subseteq s.values)
  BY <1>1, <1>4 DEF Refused, Accepted
<1> QED BY <1>4, <1>5, <1>6

LEMMA StepUpInv ==
  ASSUME ChainInv, StepUp
  PROVE  Opened' /\ BlockedOnlyByRows' /\ UNCHANGED db
<1> DEFINE n == work.rev
           ss == Upgrades[n + 1]
           x == Apply(work.data, ss)
<1>1. /\ work' = [dir |-> "up", rev |-> n + 1, data |-> x] /\ UNCHANGED db
      /\ n \in 0..Latest /\ n < Latest /\ AtItsRevision(work)
  BY DEF StepUp, ChainInv, Opened
<1>2. n + 1 \in 1..Latest /\ n + 1 \in 0..Latest /\ (n + 1) - 1 = n
  BY <1>1 DEF Latest
<1>3. ss \in Seq(Statements) /\ Apply(AtRevision(n), ss) = AtRevision(n + 1)
  BY <1>2, StatementsAssumption, ChainAssumption
<1>4. AtItsRevision([rev |-> n, data |-> work.data])
  BY <1>1 DEF AtItsRevision
<1>5. /\ DataSound(x)
      /\ x.ok => Like(x, AtRevision(n + 1), FALSE)
      /\ ~x.ok => \E k \in DOMAIN ss : \E y : Refused(x, ss[k], y, FALSE)
      /\ ~x.ok /\ Apply(Fullest(n), ss).ok => \E k \in DOMAIN ss : \E y : Refused(x, ss[k], y, TRUE)
  BY <1>1, <1>2, <1>3, <1>4, RevisionStep
<1> HIDE DEF x
<1>6. /\ work'.dir = "up" /\ work'.rev = n + 1 /\ work'.data = x
      /\ work' = [dir |-> work'.dir, rev |-> work'.rev, data |-> work'.data]
  BY <1>1
<1>7. Opened'
  BY <1>2, <1>5, <1>6 DEF Opened, AtItsRevision
<1>8. ASSUME ~x.ok
      PROVE  n + 1 = 17 /\ \E c \in Governed : ~(x.rows.values[c] \subseteq AtRevision(n + 1).allowed[c])
  <2>1. CASE n + 1 \in RestrictUp
    <3>1. Restricts(ss, AtRevision(n + 1).allowed)
      BY <2>1, RestrictionsAssumption
    <3>2. n + 1 = 17
      BY <2>1 DEF RestrictUp
    <3> QED BY <1>3, <1>5, <1>8, <3>1, <3>2, RestrictedByValues
  <2>2. CASE n + 1 \notin RestrictUp
    <3>1. Apply(Fullest(n), ss).ok
      BY <1>2, <2>2, RestrictionsAssumption
    <3>2. PICK k \in DOMAIN ss : \E y : Refused(x, ss[k], y, TRUE)
      BY <1>5, <1>8, <3>1
    <3>3. ss[k] \in Statements
      BY <1>3
    <3>4. ss[k].op = "require" /\ ss[k].what # "a code for each tag"
      BY <3>2, <3>3, OnlyTheRows
    <3> QED BY <1>2, <3>4, RestrictionsAssumption
  <2> QED BY <2>1, <2>2
<1>9. BlockedOnlyByRows'
  BY <1>6, <1>8 DEF BlockedOnlyByRows
<1> QED BY <1>1, <1>7, <1>9

LEMMA StepDownInv ==
  ASSUME ChainInv, StepDown
  PROVE  Opened' /\ BlockedOnlyByRows' /\ UNCHANGED db
<1> DEFINE n == work.rev
           ss == Downgrades[n]
           x == Apply(work.data, ss)
<1>1. /\ work' = [dir |-> "down", rev |-> n - 1, data |-> x] /\ UNCHANGED db
      /\ n \in 0..Latest /\ n > 0 /\ AtItsRevision(work)
  BY DEF StepDown, ChainInv, Opened
<1>2. n \in 1..Latest /\ n - 1 \in 0..Latest /\ (n - 1) + 1 = n
  BY <1>1 DEF Latest
<1>3. ss \in Seq(Statements) /\ Apply(AtRevision(n), ss) = AtRevision(n - 1)
  BY <1>2, StatementsAssumption, ChainAssumption
<1>4. AtItsRevision([rev |-> n, data |-> work.data])
  BY <1>1 DEF AtItsRevision
<1>5. /\ DataSound(x)
      /\ x.ok => Like(x, AtRevision(n - 1), FALSE)
      /\ ~x.ok => \E k \in DOMAIN ss : \E y : Refused(x, ss[k], y, FALSE)
      /\ ~x.ok /\ Apply(Fullest(n), ss).ok => \E k \in DOMAIN ss : \E y : Refused(x, ss[k], y, TRUE)
  BY <1>1, <1>2, <1>3, <1>4, RevisionStep
<1> HIDE DEF x
<1>6. /\ work'.dir = "down" /\ work'.rev = n - 1 /\ work'.data = x
      /\ work' = [dir |-> work'.dir, rev |-> work'.rev, data |-> work'.data]
  BY <1>1
<1>7. Opened'
  BY <1>2, <1>5, <1>6 DEF Opened, AtItsRevision
<1>8. ASSUME ~x.ok
      PROVE  \/ /\ n \in {8, 9, 10, 18, 20}
                /\ \E c \in Governed : ~(x.rows.values[c] \subseteq AtRevision(n - 1).allowed[c])
             \/ /\ n = 4
                /\ ~FeedsHaveSources(x.rows) \/ ~CodesKnown(x.rows) \/ ~CodesUnique(x.rows)
  <2>1. CASE n \in RestrictDown
    <3>1. Restricts(ss, AtRevision(n - 1).allowed)
      BY <2>1, RestrictionsAssumption
    <3>2. \E c \in Governed : ~(x.rows.values[c] \subseteq AtRevision(n - 1).allowed[c])
      BY <1>3, <1>5, <1>8, <3>1, RestrictedByValues
    <3> QED BY <2>1, <3>2 DEF RestrictDown
  <2>2. CASE n \notin RestrictDown
    <3>1. Apply(Fullest(n), ss).ok
      BY <1>2, <2>2, RestrictionsAssumption
    <3>2. PICK k \in DOMAIN ss : \E y : Refused(x, ss[k], y, TRUE)
      BY <1>5, <1>8, <3>1
    <3>3. ss[k] \in Statements
      BY <1>3
    <3>4. ss[k].op = "require" /\ ss[k].what # "a code for each tag"
      BY <3>2, <3>3, OnlyTheRows
    <3>5. n = 4
      BY <1>2, <3>4, RestrictionsAssumption
    <3>6. ~Required(x.rows, ss[k].what)
      BY <3>2, <3>4 DEF Refused, Accepted
    <3>7. ss[k].what \in {"a source for each feed", "a code for each source",
                          "one source for each code"}
      BY <3>3, <3>4, StatementForm
    <3>8. ~FeedsHaveSources(x.rows) \/ ~CodesKnown(x.rows) \/ ~CodesUnique(x.rows)
      BY <3>6, <3>7 DEF Required
    <3> QED BY <3>5, <3>8
  <2> QED BY <2>1, <2>2
<1>9. BlockedOnlyByRows'
  BY <1>2, <1>6, <1>8 DEF BlockedOnlyByRows
<1> QED BY <1>1, <1>7, <1>9

LEMMA FirstRevision ==
  ASSUME Init
  PROVE  ChainInv
<1>1. 0 \in 0..Latest /\ AtRevision(0) = NewDatabase
  BY ChainAssumption DEF Latest
<1>2. DataSound(NewDatabase) /\ NewDatabase.ok
  BY <1>1, ChainSound
<1>3. db = [rev |-> 0, data |-> NewDatabase] /\ work = None
  BY DEF Init
<1>4. db.rev = 0 /\ db.data = NewDatabase /\ db = [rev |-> db.rev, data |-> db.data]
  BY <1>3
<1>5. Like(NewDatabase, NewDatabase, FALSE)
  BY <1>2 DEF Like
<1>6. Stored
  BY <1>1, <1>2, <1>4, <1>5 DEF Stored, AtItsRevision
<1> QED BY <1>3, <1>6 DEF ChainInv, Opened, BlockedOnlyByRows

LEMMA ChainStep ==
  ASSUME ChainInv, Next
  PROVE  ChainInv'
<1>1. Stored /\ Opened /\ BlockedOnlyByRows
  BY DEF ChainInv
<1>2. ASSUME UNCHANGED db PROVE Stored'
  BY <1>1, <1>2 DEF Stored, AtItsRevision
<1>3. ASSUME work' = None PROVE Opened' /\ BlockedOnlyByRows'
  BY <1>3 DEF Opened, BlockedOnlyByRows
<1>4. ASSUME NEW dir \in {"up", "down"}, Begin(dir) PROVE ChainInv'
  <2>1. work' = [dir |-> dir, rev |-> db.rev, data |-> db.data] /\ UNCHANGED db
    BY <1>4 DEF Begin
  <2>2. /\ work'.dir = dir /\ work'.rev = db.rev /\ work'.data = db.data
        /\ work' = [dir |-> work'.dir, rev |-> work'.rev, data |-> work'.data]
    BY <2>1
  <2>3. AtItsRevision(db)
    BY <1>1 DEF Stored
  <2>4. Opened'
    BY <2>2, <2>3 DEF Opened, AtItsRevision
  <2>5. BlockedOnlyByRows'
    BY <2>2, <2>3 DEF BlockedOnlyByRows, AtItsRevision
  <2> QED BY <1>2, <2>1, <2>4, <2>5 DEF ChainInv
<1>5. CASE StepUp
  BY <1>2, <1>5, StepUpInv DEF ChainInv
<1>6. CASE StepDown
  BY <1>2, <1>6, StepDownInv DEF ChainInv
<1>7. CASE Commit
  <2>1. db' = [rev |-> work.rev, data |-> work.data] /\ work' = None /\ AtItsRevision(work)
    BY <1>1, <1>7 DEF Commit, Opened
  <2>2. db'.rev = work.rev /\ db'.data = work.data /\ db' = [rev |-> db'.rev, data |-> db'.data]
    BY <2>1
  <2>3. Stored'
    BY <2>1, <2>2 DEF Stored, AtItsRevision
  <2> QED BY <1>3, <2>1, <2>3 DEF ChainInv
<1>8. CASE Rollback
  BY <1>2, <1>3, <1>8 DEF Rollback, ChainInv
<1>9. CASE \E w \in Written : Propose(w[1], w[2])
  BY <1>1, <1>3, <1>9, ProposeStored DEF ChainInv
<1>10. CASE \E t \in {"concepts", "series_families", "indicators", "tags"} : Classify(t)
  BY <1>1, <1>3, <1>10, ClassifyStored DEF ChainInv
<1>11. CASE \E f \in Feeds, ss \in SUBSET Sources :
              \E codes \in [ss -> Codes \cup {None}] : AddFeed(f, ss, codes)
  BY <1>1, <1>3, <1>11, AddFeedStored DEF ChainInv
<1>12. CASE \E f \in Feeds, r \in Runs : RunFeed(f, r)
  BY <1>1, <1>3, <1>12, RunFeedStored DEF ChainInv
<1> QED BY <1>4, <1>5, <1>6, <1>7, <1>8, <1>9, <1>10, <1>11, <1>12 DEF Next

LEMMA ChainInvCorrect == MigrationSpec => []ChainInv
<1>1. ASSUME ChainInv, UNCHANGED migrationVars PROVE ChainInv'
  BY <1>1 DEF ChainInv, Stored, Opened, AtItsRevision, BlockedOnlyByRows, migrationVars
<1>2. ChainInv /\ [Next]_migrationVars => ChainInv'
  BY <1>1, ChainStep
<1> QED BY <1>2, FirstRevision, PTL DEF MigrationSpec

-----------------------------------------------------------------------------
(* What the revisions promise *)

\* Any way up and down the chain, over any rows the application stored in between,
\* leaves the tables and value lists of the revision the database says it is at, and
\* at the head those of the models and enums.
THEOREM SchemasCorrect == MigrationSpec => []SchemaOfRevision
<1>1. ASSUME NEW x, AtItsRevision(x)
      PROVE  /\ x.data.schema = AtRevision(x.rev).schema
             /\ x.data.allowed = AtRevision(x.rev).allowed
  BY <1>1 DEF AtItsRevision, Like
<1>2. ChainInv => SchemaOfRevision
  <2> SUFFICES ASSUME ChainInv PROVE SchemaOfRevision
    OBVIOUS
  <2>1. AtItsRevision(db) /\ (work # None /\ work.data.ok => AtItsRevision(work))
    BY DEF ChainInv, Stored, Opened
  <2>2. \A d \in {db} \cup (IF work # None /\ work.data.ok THEN {work} ELSE {}) : AtItsRevision(d)
    BY <2>1
  <2>3. db.rev = Latest =>
          /\ {f[1] : f \in db.data.schema} = Tables \cup {"latest_observations", "langgraph"}
          /\ db.data.allowed = Enums
    BY <1>1, <2>1, ChainAssumption
  <2> QED BY <1>1, <2>2, <2>3 DEF SchemaOfRevision
<1> QED BY <1>2, ChainInvCorrect, PTL

\* An observation is never given the run or the member log of another run or source,
\* also by the backfills of 0006 up and down.
THEOREM ProvenanceCorrect == MigrationSpec => []ProvenanceNeverWrong
<1>1. ChainInv => ProvenanceNeverWrong
  <2> SUFFICES ASSUME ChainInv PROVE ProvenanceNeverWrong
    OBVIOUS
  <2>1. DataSound(db.data) /\ (work # None => DataSound(work.data))
    BY DEF ChainInv, Stored, Opened, AtItsRevision
  <2>2. \A d \in {db} \cup (IF work # None THEN {work} ELSE {}) : DataSound(d.data)
    BY <2>1
  <2> QED BY <2>2 DEF ProvenanceNeverWrong, DataSound, RowsSound, Linked
<1> QED BY <1>1, ChainInvCorrect, PTL

\* A revision that stops, stops for rows its target schema cannot hold, and only the
\* revisions that narrow a list, or 0004 on the way down, do.
THEOREM RefusalsCorrect == MigrationSpec => []BlockedOnlyByRows
BY ChainInvCorrect, PTL DEF ChainInv

-----------------------------------------------------------------------------
(* The category tree *)

USE TreeAssumption

-----------------------------------------------------------------------------
(* The inductive invariant *)

Requested == {Idle} \cup [op : {"delete"}, node : Nodes]
               \cup [op : {"post", "patch"}, node : Nodes \cup {NoNode}, series : Series]

BootTyped(x) ==
  /\ x = [pc |-> x.pc, i |-> x.i, minted |-> x.minted, attached |-> x.attached]
  /\ x.pc \in Pcs /\ x.i \in 1..Len(Specs)
  /\ DOMAIN x.minted \subseteq Nodes /\ x.minted \in [DOMAIN x.minted -> Nodes]
  /\ DOMAIN x.attached \subseteq Series /\ x.attached \in [DOMAIN x.attached -> Nodes]

Shapes ==
  /\ kind \in [Nodes -> Kinds \cup {"absent"}]
  /\ up \in [Nodes -> Nodes \cup {NoNode}]
  /\ cat \in [Series -> Nodes \cup {NoNode, NoSeries}]
  /\ demoted \subseteq Nodes /\ writes \in 0..MaxWrites
  /\ req \in [Requests -> Requested]
  /\ boot = [b \in Bootstraps |-> boot[b]]
  /\ \A b \in Bootstraps : BootTyped(boot[b])

\* A node that is there and is, or was, a concept: what a series may be on.
Sound(n) == kind[n] = "concept" \/ n \in demoted

\* What a bootstrap can refer to until it commits.
Known(b, n) == MintedBy(b, n) \/ Exists(n)
Held(b, n) == MintedBy(b, n) \/ Sound(n)

\* What is committed.
DemotedExist == \A n \in demoted : Exists(n)
EdgesExist == \A n \in Nodes : up[n] # NoNode => Exists(n) /\ Exists(up[n])
SeriesOnSound == \A s \in Series : cat[s] \in Nodes => Sound(cat[s])

\* What a request has read.
Checked ==
  \A r \in Requests : req[r].op \in {"post", "patch"} /\ req[r].node # NoNode => Sound(req[r].node)

\* What bootstraps have flushed, and what they are about to.
MintedNew ==
  \A b \in Bootstraps : \A n \in DOMAIN boot[b].minted :
    /\ kind[n] = "absent" /\ Known(b, boot[b].minted[n])
    /\ \A d \in Bootstraps \ {b} : n \notin DOMAIN boot[d].minted
AttachedHeld ==
  \A b \in Bootstraps : \A s \in DOMAIN boot[b].attached : Held(b, boot[b].attached[s])
AtSpec ==
  \A b \in Bootstraps :
    /\ boot[b].pc = "mint" => Known(b, Spec(b).parent)
    /\ boot[b].pc \in {"series", "insert", "update"} => Held(b, Spec(b).concept)

\* What sessions hold of what is committed: a node held as a concept is or was one.
HeldRecords == [kind : [Nodes -> Kinds \cup {"absent"}], cat : [Series -> Nodes \cup {NoNode, NoSeries}]]
SoundlyHeld(x) == /\ \A n \in Nodes : x.kind[n] = "concept" => Sound(n)
                  /\ \A s \in Series : x.cat[s] \in Nodes => Exists(x.cat[s])
Loaded == held \in [Bootstraps -> HeldRecords] /\ \A b \in Bootstraps : SoundlyHeld(held[b])

Committed == DemotedExist /\ EdgesExist /\ SeriesOnSound /\ Checked
Flushed == MintedNew /\ AttachedHeld /\ AtSpec
Inv == Shapes /\ Committed /\ Flushed /\ Loaded

\* The specs are of nodes and series.
LEMMA SpecsTyped ==
  ASSUME NEW b, BootTyped(boot[b])
  PROVE  Spec(b).concept \in Nodes /\ Spec(b).parent \in Nodes /\ Spec(b).series \in Series
<1>1. boot[b].i \in 1..Len(Specs)
  BY DEF BootTyped
<1> DEFINE Rows == [concept : Nodes, parent : Nodes, series : Series]
<1>2. Specs[boot[b].i] \in Rows
  <2>1. Specs \in Seq(Rows)
    OBVIOUS
  <2> HIDE DEF Rows
  <2> QED BY ONLY <1>1, <2>1
<1> QED BY <1>2 DEF Spec

\* The node of a seed, its kind and its parent.
LEMMA SeedsTyped ==
  ASSUME NEW n \in Nodes, NEW kinds, NEW edges
  PROVE  /\ SeedKinds(kinds)[n] \in Kinds \/ SeedKinds(kinds)[n] = kinds[n]
         /\ \/ SeedEdges(edges)[n] = edges[n]
            \/ SeedEdges(edges)[n] = NoNode
            \/ /\ SeedEdges(edges)[n] \in Nodes
               /\ SeedKinds(kinds)[SeedEdges(edges)[n]] \in Kinds
               /\ SeedKinds(kinds)[n] \in Kinds
<1> DEFINE Seeded(m) == \E s \in Seeds : s.node = m
           Seed(m) == CHOOSE s \in Seeds : s.node = m
<1>1. ASSUME NEW m \in Nodes, Seeded(m)
      PROVE  Seed(m) \in Seeds /\ SeedKinds(kinds)[m] = Seed(m).kind /\ Seed(m).kind \in Kinds
  <2>1. Seed(m) \in Seeds
    BY <1>1
  <2>2. SeedKinds(kinds)[m] = Seed(m).kind
    BY <1>1 DEF SeedKinds
  <2> HIDE DEF Seed
  <2> QED BY <2>1, <2>2 DEF Kinds
<1>2. ~Seeded(n) => SeedKinds(kinds)[n] = kinds[n]
  BY DEF SeedKinds
<1>3. ASSUME SeedEdges(edges)[n] # edges[n], SeedEdges(edges)[n] # NoNode
      PROVE  /\ SeedEdges(edges)[n] \in Nodes /\ Seeded(SeedEdges(edges)[n]) /\ Seeded(n)
  <2>1. Seeded(n) /\ SeedEdges(edges)[n] = Seed(n).parent
    BY <1>3 DEF SeedEdges
  <2>2. Seed(n) \in Seeds
    BY <1>1, <2>1
  <2> HIDE DEF Seed
  <2> QED BY <1>3, <2>1, <2>2
<1> HIDE DEF Seeded
<1> QED BY <1>1, <1>2, <1>3

\* A database seeded with the taxonomy.
LEMMA InitInv == TreeInit => Inv
<1> SUFFICES ASSUME TreeInit PROVE Inv
  OBVIOUS
<1>1. \A n \in Nodes : kind[n] \in Kinds \cup {"absent"}
  BY SeedsTyped DEF TreeInit
<1>2. \A n \in Nodes : up[n] \in Nodes \cup {NoNode} /\ (up[n] # NoNode => Exists(n) /\ Exists(up[n]))
  <2> SUFFICES ASSUME NEW n \in Nodes, up[n] # NoNode
               PROVE  up[n] \in Nodes /\ Exists(n) /\ Exists(up[n])
    OBVIOUS
  <2> DEFINE kinds == [m \in Nodes |-> "absent"]
             edges == [m \in Nodes |-> NoNode]
  <2>1. kind = SeedKinds(kinds) /\ up = SeedEdges(edges) /\ edges[n] = NoNode
    BY DEF TreeInit
  <2> HIDE DEF kinds, edges
  <2> QED BY <2>1, SeedsTyped DEF Exists
<1>3. BootTyped(Fresh) /\ DOMAIN Fresh.minted = {} /\ DOMAIN Fresh.attached = {} /\ Fresh.pc = "idle"
  BY DEF Fresh, BootTyped, Pcs
<1>4. Shapes
  <2>1. kind \in [Nodes -> Kinds \cup {"absent"}] /\ up \in [Nodes -> Nodes \cup {NoNode}]
    BY <1>1, <1>2 DEF TreeInit, SeedKinds, SeedEdges
  <2>2. boot = [b \in Bootstraps |-> Fresh] /\ req \in [Requests -> Requested]
    BY DEF TreeInit, Requested
  <2>3. \A b \in Bootstraps : BootTyped(boot[b])
    BY <1>3, <2>2
  <2>4. boot = [b \in Bootstraps |-> boot[b]]
    BY <2>2
  <2>5. /\ cat \in [Series -> Nodes \cup {NoNode, NoSeries}]
        /\ demoted \subseteq Nodes /\ writes \in 0..MaxWrites
    BY DEF TreeInit
  <2> QED BY <2>1, <2>2, <2>3, <2>4, <2>5 DEF Shapes
<1>5. Committed
  BY <1>2 DEF TreeInit, Committed, DemotedExist, EdgesExist, SeriesOnSound, Checked, Idle
<1>6. Flushed
  BY <1>3 DEF TreeInit, Flushed, MintedNew, AttachedHeld, AtSpec
<1>7. Loaded
  BY DEF TreeInit, Loaded, HeldRecords, SoundlyHeld, Unheld
<1> QED BY <1>4, <1>5, <1>6, <1>7 DEF Inv

-----------------------------------------------------------------------------
(* Steps that leave bootstraps alone *)

\* Kinds change so that no row goes, none that is flushed by a bootstrap is
\* touched, and what was a concept is remembered.
KindsGrow ==
  /\ kind' \in [Nodes -> Kinds \cup {"absent"}] /\ demoted' \subseteq Nodes
  /\ \A n \in Nodes : Exists(n) => Exists(n)'
  /\ \A n \in Nodes : Sound(n) => Sound(n)'
  /\ \A n \in demoted' : n \in demoted \/ Exists(n)'
  /\ \A n \in Nodes : kind'[n] # kind[n] => Exists(n) \/ NodeFree(n)

\* Then what bootstraps know stays as it is.
LEMMA FlushedKept ==
  ASSUME Inv, boot' = boot, KindsGrow
  PROVE  Flushed'
<1> USE DEF Inv, Flushed, Known, Held, MintedBy, KindsGrow
<1>1. \A b \in Bootstraps : BootTyped(boot[b])
  BY DEF Shapes
<1>2. \A b \in Bootstraps : Spec(b).parent \in Nodes /\ Spec(b).concept \in Nodes
  BY <1>1, SpecsTyped
<1>3. MintedNew'
  <2> SUFFICES ASSUME NEW b \in Bootstraps, NEW n \in DOMAIN boot[b].minted
               PROVE  /\ kind'[n] = "absent"
                      /\ MintedBy(b, boot[b].minted[n]) \/ Exists(boot[b].minted[n])'
                      /\ \A d \in Bootstraps \ {b} : n \notin DOMAIN boot[d].minted
    BY DEF MintedNew
  <2>1. n \in Nodes /\ boot[b].minted[n] \in Nodes
    BY <1>1 DEF BootTyped
  <2>2. kind[n] = "absent" /\ ~NodeFree(n) /\ ~Exists(n)
    BY <2>1 DEF MintedNew, NodeFree, Exists, Kinds
  <2> QED BY <2>1, <2>2 DEF MintedNew
<1>4. AttachedHeld'
  <2> SUFFICES ASSUME NEW b \in Bootstraps, NEW s \in DOMAIN boot[b].attached
               PROVE  MintedBy(b, boot[b].attached[s]) \/ Sound(boot[b].attached[s])'
    BY DEF AttachedHeld
  <2>1. boot[b].attached[s] \in Nodes
    BY <1>1 DEF BootTyped
  <2> QED BY <2>1 DEF AttachedHeld
<1>5. AtSpec'
  BY <1>2 DEF AtSpec, Spec
<1> QED BY <1>3, <1>4, <1>5

\* So does what is committed, if edges and series stay.
LEMMA CommittedKept ==
  ASSUME Inv, KindsGrow, UNCHANGED <<cat, req>>,
         \A n \in Nodes : up'[n] # NoNode => up'[n] = up[n] \/ (kind'[n] \in Kinds /\ kind'[up'[n]] \in Kinds)
  PROVE  Committed'
<1> USE DEF Inv, Committed, KindsGrow
<1>1. DemotedExist'
  BY DEF DemotedExist, Shapes
<1>2. EdgesExist'
  <2> SUFFICES ASSUME NEW n \in Nodes, up'[n] # NoNode, up'[n] = up[n]
               PROVE  kind'[n] \in Kinds /\ kind'[up[n]] \in Kinds
    BY DEF EdgesExist, Exists
  <2>1. up[n] \in Nodes /\ Exists(n) /\ Exists(up[n])
    BY DEF EdgesExist, Shapes
  <2> QED BY <2>1 DEF Exists
<1>3. SeriesOnSound'
  BY DEF SeriesOnSound
<1>4. Checked'
  <2> SUFFICES ASSUME NEW r \in Requests, req[r].op \in {"post", "patch"}, req[r].node # NoNode
               PROVE  Sound(req[r].node)'
    BY DEF Checked
  <2>1. req[r].node \in Nodes
    BY DEF Shapes, Requested, Idle
  <2>2. Sound(req[r].node)
    BY DEF Checked
  <2> QED BY <2>1, <2>2
<1> QED BY <1>1, <1>2, <1>3, <1>4

\* And what sessions hold.
LEMMA LoadedKept ==
  ASSUME Inv, KindsGrow, UNCHANGED held
  PROVE  Loaded'
BY DEF Inv, KindsGrow, Loaded, HeldRecords, SoundlyHeld

\* The seed and the routes of categories.
LEMMA KindsInv ==
  ASSUME Inv, SeedCategories \/ \E n \in Nodes, k \in Kinds : PostCategory(n, k) \/ PatchKind(n, k)
  PROVE  Inv'
<1>1. Shapes /\ UNCHANGED <<cat, req, boot, held>> /\ writes' \in 0..MaxWrites
  BY DEF Inv, Shapes, SeedCategories, PostCategory, PatchKind, Route
<1>2. KindsGrow
  <2> USE DEF KindsGrow
  <2>1. CASE SeedCategories
    <3>1. \A n \in Nodes : kind'[n] = SeedKinds(kind)[n] /\ (kind'[n] \in Kinds \/ kind'[n] = kind[n])
      BY <2>1, SeedsTyped DEF SeedCategories
    <3>2. kind' \in [Nodes -> Kinds \cup {"absent"}]
      BY <1>1, <2>1, <3>1 DEF SeedCategories, SeedKinds, Shapes
    <3>3. demoted' = demoted \cup {n \in Nodes : kind[n] = "concept" /\ kind'[n] = "topic"}
      BY <2>1 DEF SeedCategories
    <3>4. \A n \in Nodes : kind'[n] # kind[n] => NodeFree(n)
      BY <2>1, <3>1 DEF SeedCategories
    <3> QED BY <1>1, <3>1, <3>2, <3>3, <3>4 DEF Shapes, Exists, Sound, Kinds
  <2>2. ASSUME NEW n \in Nodes, NEW k \in Kinds, PostCategory(n, k) PROVE KindsGrow
    BY <1>1, <2>2 DEF PostCategory, Shapes, Exists, Sound, Kinds, Inv, Committed, DemotedExist
  <2>3. ASSUME NEW n \in Nodes, NEW k \in Kinds, PatchKind(n, k) PROVE KindsGrow
    BY <1>1, <2>3 DEF PatchKind, Shapes, Exists, Sound, Kinds
  <2> QED BY <2>1, <2>2, <2>3
<1>3. /\ \A n \in Nodes : up'[n] \in Nodes \cup {NoNode}
      /\ \A n \in Nodes : up'[n] # NoNode => up'[n] = up[n] \/ (kind'[n] \in Kinds /\ kind'[up'[n]] \in Kinds)
      /\ up' = [n \in Nodes |-> up'[n]]
  <2>1. CASE SeedCategories
    <3>1. kind' = SeedKinds(kind) /\ up' = SeedEdges(up)
      BY <2>1 DEF SeedCategories
    <3>2. \A n \in Nodes : \/ up'[n] = up[n] \/ up'[n] = NoNode
                           \/ up'[n] \in Nodes /\ kind'[up'[n]] \in Kinds /\ kind'[n] \in Kinds
      BY <3>1, SeedsTyped
    <3>3. up' = [n \in Nodes |-> up'[n]]
      BY <3>1 DEF SeedEdges
    <3> QED BY <1>1, <3>2, <3>3 DEF Exists, Shapes
  <2>2. CASE ~SeedCategories
    <3>1. up' = up
      BY <2>2 DEF PostCategory, PatchKind
    <3> QED BY <1>1, <3>1 DEF Shapes
  <2> QED BY <2>1, <2>2
<1>4. Shapes'
  <2>1. up' \in [Nodes -> Nodes \cup {NoNode}]
    BY <1>3
  <2> QED BY <1>1, <1>2, <2>1 DEF KindsGrow, Shapes, BootTyped
<1> QED BY <1>1, <1>2, <1>3, <1>4, FlushedKept, CommittedKept, LoadedKept DEF Inv

\* The routes of edges: both ends are there.
LEMMA EdgesInv ==
  ASSUME Inv, \/ \E p, c \in Nodes : PostEdge(p, c)
              \/ \E c, p, d \in Nodes : PatchEdge(c, p, d)
              \/ \E c \in Nodes : DeleteEdge(c)
  PROVE  Inv'
<1>1. Shapes /\ UNCHANGED <<kind, demoted, cat, req, boot, held>> /\ writes' \in 0..MaxWrites
  BY DEF Inv, Shapes, PostEdge, PatchEdge, DeleteEdge, Route
<1>2. KindsGrow
  BY <1>1 DEF KindsGrow, Shapes, Exists, Sound
<1>3. /\ up' \in [Nodes -> Nodes \cup {NoNode}]
      /\ \A n \in Nodes : up'[n] # NoNode => up'[n] = up[n] \/ (kind[n] \in Kinds /\ kind[up'[n]] \in Kinds)
  BY <1>1 DEF Shapes, PostEdge, PatchEdge, DeleteEdge, Exists
<1>4. Shapes'
  BY <1>1, <1>3 DEF Shapes, BootTyped
<1>5. \A n \in Nodes : up'[n] # NoNode => up'[n] = up[n] \/ (kind'[n] \in Kinds /\ kind'[up'[n]] \in Kinds)
  BY <1>1, <1>3
<1> QED BY <1>1, <1>2, <1>4, <1>5, FlushedKept, CommittedKept, LoadedKept DEF Inv

\* What a request remembers to attach a series to has been a concept.
ReadsSound ==
  /\ req' \in [Requests -> Requested]
  /\ \A r \in Requests : \/ req'[r] = req[r]
                         \/ req'[r].op \in {"post", "patch"} /\ req'[r].node # NoNode => Sound(req'[r].node)

\* A request that reads, or attaches to the node it has read.
LEMMA RequestsInv ==
  ASSUME Inv, \/ \E r \in Requests, n \in Nodes : FetchToDelete(r, n)
              \/ \E r \in Requests, s \in Series, n \in Nodes \cup {NoNode} : CheckAttachment(r, s, n)
              \/ \E r \in Requests : CommitAttachment(r)
  PROVE  Inv'
<1>1. Shapes /\ UNCHANGED <<kind, up, demoted, boot, held>> /\ writes' \in 0..MaxWrites
  BY DEF Inv, Shapes, FetchToDelete, CheckAttachment, CommitAttachment, Route
<1>2. KindsGrow
  BY <1>1 DEF KindsGrow, Shapes, Exists, Sound
<1>3. Flushed'
  BY <1>1, <1>2, FlushedKept
<1>4. DemotedExist' /\ EdgesExist'
  BY <1>1 DEF Inv, Committed, DemotedExist, EdgesExist, Exists
<1>5. ReadsSound
  <2> USE DEF ReadsSound
  <2>1. ASSUME NEW r \in Requests, NEW n \in Nodes, FetchToDelete(r, n) PROVE ReadsSound
    BY <1>1, <2>1 DEF FetchToDelete, Shapes, Requested
  <2>2. ASSUME NEW r \in Requests, NEW s \in Series, NEW n \in Nodes \cup {NoNode}, CheckAttachment(r, s, n)
        PROVE  ReadsSound
    <3> DEFINE read == [op |-> IF cat[s] = NoSeries THEN "post" ELSE "patch", node |-> n, series |-> s]
    <3>1. read \in Requested /\ read.node = n
      BY DEF Requested
    <3>2. n # NoNode => Sound(n)
      BY <2>2 DEF CheckAttachment, Attachable, Sound
    <3>3. req' = [req EXCEPT ![r] = read]
      BY <2>2 DEF CheckAttachment
    <3> HIDE DEF read
    <3> QED BY <1>1, <3>1, <3>2, <3>3 DEF Shapes
  <2>3. ASSUME NEW r \in Requests, CommitAttachment(r) PROVE ReadsSound
    BY <1>1, <2>3 DEF CommitAttachment, Shapes, Requested, Idle
  <2> QED BY <2>1, <2>2, <2>3
<1>6. Checked'
  BY <1>1, <1>5 DEF Inv, Committed, Checked, ReadsSound, Sound
<1>7. cat' \in [Series -> Nodes \cup {NoNode, NoSeries}] /\ SeriesOnSound'
  <2> DEFINE Attaches == cat' \in [Series -> Nodes \cup {NoNode, NoSeries}] /\ SeriesOnSound'
  <2>1. CASE UNCHANGED cat
    BY <1>1, <2>1 DEF Inv, Committed, Shapes, SeriesOnSound, Sound
  <2>2. ASSUME NEW r \in Requests, CommitAttachment(r) PROVE Attaches
    <3>1. /\ req[r].series \in Series /\ req[r].node \in Nodes \cup {NoNode}
          /\ req[r].node # NoNode => Sound(req[r].node)
      BY <1>1, <2>2 DEF CommitAttachment, Shapes, Requested, Idle, Inv, Committed, Checked
    <3>2. cat' = cat \/ cat' = [cat EXCEPT ![req[r].series] = req[r].node]
      BY <2>2 DEF CommitAttachment
    <3> QED BY <1>1, <3>1, <3>2 DEF Inv, Committed, Shapes, SeriesOnSound, Sound
  <2> QED BY <2>1, <2>2 DEF FetchToDelete, CheckAttachment
<1>8. Shapes'
  BY <1>1, <1>5, <1>7 DEF Shapes, ReadsSound, BootTyped
<1>9. Loaded'
  BY <1>1, <1>2, LoadedKept
<1> QED BY <1>3, <1>4, <1>6, <1>7, <1>8, <1>9 DEF Inv, Committed

\* A row that goes takes along what requests and bootstraps were about to do with
\* it, and nobody's committed or flushed row refers to it.
LEMMA DeletionInv == ASSUME Inv, NEW r \in Requests, DeleteNode(r) PROVE Inv'
<1> DEFINE n == req[r].node
<1>1. Shapes /\ UNCHANGED <<cat, writes>> /\ n \in Nodes
  BY DEF Inv, Shapes, DeleteNode, Requested, Idle
<1> HIDE DEF n
<1>2. CASE /\ req' = [req EXCEPT ![r] = Idle]
           /\ UNCHANGED <<kind, up, boot, held, demoted>>
  <2>1. KindsGrow
    BY <1>1, <1>2 DEF KindsGrow, Shapes, Exists, Sound
  <2>2. Shapes'
    BY <1>1, <1>2 DEF Shapes, BootTyped, Requested
  <2>3. DemotedExist' /\ EdgesExist' /\ SeriesOnSound'
    BY <1>1, <1>2 DEF Inv, Committed, DemotedExist, EdgesExist, SeriesOnSound, Exists, Sound
  <2>4. Checked'
    BY <1>1, <1>2 DEF Inv, Committed, Checked, Shapes, Sound, Idle
  <2> QED BY <1>2, <2>1, <2>2, <2>3, <2>4, FlushedKept, LoadedKept DEF Inv, Committed
<1>3. CASE /\ ~Referred(n) /\ ~Restricted(n) /\ RowGone(n)
           /\ up' = [up EXCEPT ![n] = NoNode]
  <2>1. /\ kind' = [kind EXCEPT ![n] = "absent"] /\ demoted' = demoted \ {n}
        /\ \A m \in Nodes \ {n} : (Exists(m) => kind'[m] \in Kinds) /\ (Sound(m) => Sound(m)')
    BY <1>1, <1>3 DEF RowGone, Shapes, Exists, Sound
  <2>2. \A q \in Requests : req'[q] = Idle \/ (req'[q] = req[q] /\ req[q].node # n)
    BY <1>3 DEF RowGone
  <2>3. \A b \in Bootstraps :
          /\ boot'[b] = IF Needs(b, n) THEN [boot[b] EXCEPT !.pc = "failing"] ELSE boot[b]
          /\ BootTyped(boot[b])
    BY <1>1, <1>3 DEF RowGone, Shapes
  <2>4. \A b \in Bootstraps : /\ BootTyped(boot'[b]) /\ boot'[b].i = boot[b].i
                              /\ boot'[b].minted = boot[b].minted /\ boot'[b].attached = boot[b].attached
                              /\ boot'[b].pc = "failing" \/ (boot'[b].pc = boot[b].pc /\ ~Needs(b, n))
    BY <2>3 DEF BootTyped, Pcs
  <2>5. Shapes'
    <3>1. boot' = [b \in Bootstraps |-> boot'[b]]
      BY <1>3 DEF RowGone
    <3>2. req' \in [Requests -> Requested]
      BY <1>1, <1>3 DEF RowGone, Shapes, Requested
    <3>3. kind' \in [Nodes -> Kinds \cup {"absent"}] /\ up' \in [Nodes -> Nodes \cup {NoNode}]
      BY <1>1, <1>3, <2>1 DEF Shapes
    <3> QED BY <1>1, <2>1, <2>4, <3>1, <3>2, <3>3 DEF Shapes
  <2>6. DemotedExist'
    BY <1>1, <2>1 DEF Inv, Committed, DemotedExist, Exists, Shapes
  <2>7. EdgesExist'
    BY <1>1, <1>3, <2>1 DEF Inv, Committed, EdgesExist, Exists, Shapes, Restricted, IsParent
  <2>8. SeriesOnSound'
    BY <1>1, <1>3, <2>1 DEF Inv, Committed, SeriesOnSound, Sound, Restricted, Attached
  <2>9. Checked'
    <3> SUFFICES ASSUME NEW q \in Requests, req'[q].op \in {"post", "patch"}, req'[q].node # NoNode
                 PROVE  kind'[req'[q].node] = "concept" \/ req'[q].node \in demoted'
      BY DEF Checked, Sound
    <3>1. req'[q] = req[q] /\ req[q].node # n
      BY <2>2 DEF Idle
    <3>2. req[q].node \in Nodes
      BY <1>1, <3>1 DEF Shapes, Requested, Idle
    <3>3. Sound(req[q].node)
      BY <3>1 DEF Inv, Committed, Checked
    <3> QED BY <2>1, <3>1, <3>2, <3>3 DEF Sound
  <2>10. \A b \in Bootstraps : \A m \in Nodes \ {n} :
           /\ MintedBy(b, m)' <=> MintedBy(b, m)
           /\ Known(b, m) => Known(b, m)'
           /\ Held(b, m) => Held(b, m)'
    BY <2>1, <2>4 DEF Known, Held, MintedBy, Exists, Sound
  <2>11. MintedNew'
    <3> SUFFICES ASSUME NEW b \in Bootstraps, NEW m \in DOMAIN boot[b].minted
                 PROVE  /\ kind'[m] = "absent"
                        /\ boot[b].minted[m] \in DOMAIN boot[b].minted \/ kind'[boot[b].minted[m]] \in Kinds
                        /\ \A d \in Bootstraps \ {b} : m \notin DOMAIN boot[d].minted
      BY <2>4 DEF MintedNew, Known, MintedBy, Exists
    <3>1. m \in Nodes /\ boot[b].minted[m] \in Nodes /\ boot[b].minted[m] # n
      BY <1>3, <2>3 DEF BootTyped, Referred
    <3>2. kind[m] = "absent" /\ Known(b, boot[b].minted[m])
      BY DEF Inv, Flushed, MintedNew
    <3>3. \A d \in Bootstraps \ {b} : m \notin DOMAIN boot[d].minted
      BY DEF Inv, Flushed, MintedNew
    <3> QED BY <1>1, <2>1, <3>1, <3>2, <3>3 DEF Known, MintedBy, Exists, Shapes
  <2>12. AttachedHeld'
    <3> SUFFICES ASSUME NEW b \in Bootstraps, NEW s \in DOMAIN boot[b].attached
                 PROVE  \/ boot[b].attached[s] \in DOMAIN boot[b].minted
                        \/ kind'[boot[b].attached[s]] = "concept" \/ boot[b].attached[s] \in demoted'
      BY <2>4 DEF AttachedHeld, Held, MintedBy, Sound
    <3>1. boot[b].attached[s] \in Nodes /\ boot[b].attached[s] # n
      BY <1>3, <2>3 DEF BootTyped, Referred
    <3>2. Held(b, boot[b].attached[s])
      BY DEF Inv, Flushed, AttachedHeld
    <3> QED BY <2>1, <3>1, <3>2 DEF Held, MintedBy, Sound
  <2>13. AtSpec'
    <3> SUFFICES ASSUME NEW b \in Bootstraps
                 PROVE  /\ boot'[b].pc = "mint" => Known(b, Spec(b).parent)'
                        /\ boot'[b].pc \in {"series", "insert", "update"} => Held(b, Spec(b).concept)'
      BY DEF AtSpec
    <3>1. Spec(b)' = Spec(b) /\ Spec(b).parent \in Nodes /\ Spec(b).concept \in Nodes
      BY <2>3, <2>4, SpecsTyped DEF Spec
    <3>2. ASSUME boot'[b].pc = "mint" PROVE Known(b, Spec(b).parent)'
      <4>1. Spec(b).parent # n /\ Known(b, Spec(b).parent)
        BY <2>4, <3>2 DEF Needs, Inv, Flushed, AtSpec
      <4> QED BY <2>1, <2>4, <3>1, <4>1 DEF Known, MintedBy, Exists
    <3>3. ASSUME boot'[b].pc \in {"series", "insert", "update"} PROVE Held(b, Spec(b).concept)'
      <4>1. Held(b, Spec(b).concept) /\ (Spec(b).concept # n \/ MintedBy(b, Spec(b).concept))
        BY <2>4, <3>3 DEF Needs, Inv, Flushed, AtSpec
      <4> QED BY <2>1, <2>4, <3>1, <4>1 DEF Held, MintedBy, Sound
    <3> QED BY <3>2, <3>3
  <2>14. Loaded'
    <3>1. ASSUME NEW b \in Bootstraps
          PROVE  held'[b] \in HeldRecords /\ SoundlyHeld(held[b])'
      <4>1. held[b] \in HeldRecords /\ SoundlyHeld(held[b])
        BY DEF Inv, Loaded
      <4>2. held'[b] = [kind |-> [held[b].kind EXCEPT ![n] = "absent"],
                        cat |-> [s \in Series |-> IF held[b].cat[s] = n THEN NoNode ELSE held[b].cat[s]]]
        BY <1>3 DEF RowGone
      <4>3. held'[b] \in HeldRecords
        BY <1>1, <4>1, <4>2 DEF HeldRecords, Kinds
      <4>4. \A m \in Nodes : held'[b].kind[m] = "concept" => m # n /\ Sound(m)
        BY <1>1, <4>1, <4>2 DEF HeldRecords, SoundlyHeld
      <4>5. \A s \in Series : held'[b].cat[s] \in Nodes => held'[b].cat[s] # n /\ Exists(held'[b].cat[s])
        BY <1>1, <4>1, <4>2 DEF HeldRecords, SoundlyHeld
      <4>6. \A m \in Nodes : held'[b].kind[m] = "concept" => Sound(m)'
        BY <2>1, <4>4
      <4>7. \A s \in Series : held'[b].cat[s] \in Nodes => kind'[held'[b].cat[s]] \in Kinds
        BY <2>1, <4>5
      <4> QED BY <4>3, <4>6, <4>7 DEF SoundlyHeld, Exists
    <3>2. held' = [b \in Bootstraps |-> held'[b]]
      BY <1>3 DEF RowGone
    <3> QED BY <3>1, <3>2 DEF Loaded
  <2> QED BY <2>5, <2>6, <2>7, <2>8, <2>9, <2>11, <2>12, <2>13, <2>14 DEF Inv, Committed, Flushed
<1> QED BY <1>2, <1>3 DEF DeleteNode, n

-----------------------------------------------------------------------------
(* Bootstraps *)

\* What a session loads is committed, and it lets go of all of it at its end.
LEMMA SessionLoads ==
  ASSUME Inv, NEW b \in Bootstraps,
         StartBootstrap(b) \/ FindConcept(b) \/ MintConcept(b) \/ FindSeries(b) \/ WriteSeries(b) \/ Fail(b)
  PROVE  Loaded'
<1>1. Shapes /\ UNCHANGED <<kind, demoted>> /\ Loaded
  BY DEF Inv, StartBootstrap, FindConcept, MintConcept, FindSeries, WriteSeries, Fail, Keep, Flush
<1>2. CASE UNCHANGED held
  BY <1>1, <1>2 DEF Loaded, SoundlyHeld, Sound, Exists
<1>3. ASSUME NEW x \in HeldRecords, SoundlyHeld(x), held' = [held EXCEPT ![b] = x]
      PROVE  Loaded'
  <2>1. held' \in [Bootstraps -> HeldRecords]
    BY <1>1, <1>3 DEF Loaded
  <2>2. ASSUME NEW d \in Bootstraps PROVE SoundlyHeld(held'[d])
    BY <1>1, <1>3, <2>2 DEF Loaded
  <2> QED BY <1>1, <2>1, <2>2 DEF Loaded, SoundlyHeld, Sound, Exists
<1>4. CASE StartBootstrap(b)
  <2> DEFINE x == [kind |-> [n \in Nodes |-> IF Attached(n) THEN kind[n] ELSE "absent"], cat |-> cat]
  <2>1. held' = [held EXCEPT ![b] = x]
    BY <1>4 DEF StartBootstrap
  <2>2. x \in HeldRecords
    BY <1>1 DEF Shapes, HeldRecords
  <2>3. SoundlyHeld(x)
    BY DEF Inv, Committed, SeriesOnSound, DemotedExist, SoundlyHeld, Sound, Exists, Kinds
  <2> HIDE DEF x
  <2> QED BY <1>3, <2>1, <2>2, <2>3
<1>5. ASSUME NEW n, Reload(b, n) PROVE Loaded'
  <2> DEFINE f == [m \in Nodes |-> IF m = n THEN kind[m] ELSE held[b].kind[m]]
             x == [kind |-> f, cat |-> held[b].cat]
  <2>1. held[b] \in HeldRecords /\ SoundlyHeld(held[b])
    BY <1>1 DEF Loaded
  <2>2. f \in [Nodes -> Kinds \cup {"absent"}]
    BY <1>1, <2>1 DEF Shapes, HeldRecords
  <2>3. x \in HeldRecords
    BY <2>1, <2>2 DEF HeldRecords
  <2>4. SoundlyHeld(x)
    BY <2>1 DEF SoundlyHeld, Sound
  <2>5. held' = [held EXCEPT ![b].kind = f]
    BY <1>5 DEF Reload
  <2> HIDE DEF f
  <2>6. held' = [held EXCEPT ![b] = x]
    <3> DEFINE y == held[b]
    <3>1. y = [kind |-> y.kind, cat |-> y.cat]
      BY <2>1 DEF HeldRecords
    <3>2. held' = [held EXCEPT ![b] = [y EXCEPT !.kind = f]]
      BY <1>1, <2>5 DEF Loaded
    <3> HIDE DEF y
    <3>3. [y EXCEPT !.kind = f] = [kind |-> f, cat |-> y.cat]
      BY ONLY <3>1
    <3> QED BY <3>2, <3>3 DEF y
  <2> QED BY <1>3, <2>3, <2>4, <2>6
<1>6. CASE Fail(b)
  <2>1. Unheld \in HeldRecords /\ SoundlyHeld(Unheld)
    BY DEF Unheld, HeldRecords, SoundlyHeld
  <2> QED BY <1>3, <1>6, <2>1 DEF Fail
<1> QED BY <1>2, <1>4, <1>5, <1>6 DEF FindConcept, MintConcept, FindSeries, WriteSeries, Keep

\* A bootstrap that flushes changes nothing but itself: what it has flushed and
\* is about to refer to is all there is to show.
LEMMA FlushInv ==
  ASSUME Inv, Loaded', NEW b \in Bootstraps, NEW x, BootTyped(x), Flush(b),
         boot' = [boot EXCEPT ![b] = x],
         \A n \in DOMAIN x.minted :
           \/ n \in DOMAIN boot[b].minted /\ x.minted[n] = boot[b].minted[n]
           \/ kind[n] = "absent" /\ NodeFree(n) /\ (x.minted[n] \in DOMAIN x.minted \/ Exists(x.minted[n])),
         DOMAIN boot[b].minted \subseteq DOMAIN x.minted \/ (x.minted = << >> /\ x.attached = << >>),
         \A s \in DOMAIN x.attached :
           \/ s \in DOMAIN boot[b].attached /\ x.attached[s] = boot[b].attached[s]
           \/ x.attached[s] \in DOMAIN x.minted \/ Sound(x.attached[s]),
         x.pc = "mint" => Specs[x.i].parent \in DOMAIN x.minted \/ Exists(Specs[x.i].parent),
         x.pc \in {"series", "insert", "update"} =>
           Specs[x.i].concept \in DOMAIN x.minted \/ Sound(Specs[x.i].concept)
  PROVE  Inv'
<1>1. Shapes /\ UNCHANGED <<kind, up, cat, req, demoted, writes>>
  BY DEF Inv, Flush
<1>2. boot'[b] = x /\ \A d \in Bootstraps \ {b} : boot'[d] = boot[d]
  BY <1>1 DEF Shapes
<1>3. Shapes'
  <2>1. \A d \in Bootstraps : BootTyped(boot'[d])
    BY <1>1, <1>2 DEF Shapes
  <2>2. boot' = [d \in Bootstraps |-> boot'[d]]
    BY <1>1 DEF Shapes
  <2> QED BY <1>1, <2>1, <2>2 DEF Shapes
<1>4. Committed'
  BY <1>1 DEF Inv, Committed, DemotedExist, EdgesExist, SeriesOnSound, Checked, Exists, Sound
<1>5. MintedNew'
  <2> SUFFICES ASSUME NEW d \in Bootstraps, NEW n \in DOMAIN boot'[d].minted
               PROVE  /\ kind[n] = "absent"
                      /\ boot'[d].minted[n] \in DOMAIN boot'[d].minted \/ Exists(boot'[d].minted[n])
                      /\ \A e \in Bootstraps \ {d} : n \notin DOMAIN boot'[e].minted
    BY <1>1 DEF MintedNew, Known, MintedBy, Exists
  <2>1. CASE d = b /\ x.minted # << >>
    BY <1>2, <2>1 DEF Inv, Flushed, MintedNew, Known, MintedBy, NodeFree
  <2>2. CASE d # b
    BY <1>2, <2>2 DEF Inv, Flushed, MintedNew, Known, MintedBy, NodeFree
  <2> QED BY <1>2, <2>1, <2>2
<1>6. AttachedHeld'
  BY <1>1, <1>2 DEF Inv, Flushed, AttachedHeld, Held, MintedBy, Sound
<1>7. AtSpec'
  BY <1>1, <1>2 DEF Inv, Flushed, AtSpec, Known, Held, MintedBy, Spec, Exists, Sound
<1> QED BY <1>3, <1>4, <1>5, <1>6, <1>7 DEF Inv, Flushed

\* A pc, or the next spec, is all that changes.
LEMMA NextSpecTyped ==
  ASSUME NEW b, BootTyped(boot[b]), boot[b].pc # "commit"
  PROVE  /\ BootTyped(Next1(b)) /\ Next1(b).pc \in {"commit", "concept"}
         /\ Next1(b).minted = boot[b].minted /\ Next1(b).attached = boot[b].attached
<1>1. boot[b].i \in 1..Len(Specs)
  BY DEF BootTyped
<1>2. Len(Specs) \in Nat
  OBVIOUS
<1>3. CASE boot[b].i = Len(Specs)
  BY <1>3 DEF Next1, BootTyped, Pcs
<1>4. CASE boot[b].i # Len(Specs)
  <2>1. boot[b].i + 1 \in 1..Len(Specs)
    BY <1>1, <1>2, <1>4
  <2> QED BY <1>4, <2>1 DEF Next1, BootTyped, Pcs
<1> QED BY <1>3, <1>4

\* Every statement of a bootstrap.
LEMMA BootstrapInv ==
  ASSUME Inv, NEW b \in Bootstraps,
         StartBootstrap(b) \/ FindConcept(b) \/ MintConcept(b) \/ FindSeries(b) \/ WriteSeries(b) \/ Fail(b)
  PROVE  Inv'
<1>0. Loaded'
  BY SessionLoads
<1>1. Shapes /\ BootTyped(boot[b]) /\ boot[b] = boot[b]
  BY DEF Inv, Shapes
<1>2. Spec(b).concept \in Nodes /\ Spec(b).parent \in Nodes /\ Spec(b).series \in Series
  BY <1>1, SpecsTyped
<1>3. /\ boot[b].pc = "mint" => Known(b, Spec(b).parent)
      /\ boot[b].pc \in {"series", "insert", "update"} => Held(b, Spec(b).concept)
  BY DEF Inv, Flushed, AtSpec
<1>4. ASSUME NEW pc \in Pcs, Goto(b, pc), Flush(b),
             pc = "mint" => Known(b, Spec(b).parent),
             pc \in {"series", "insert", "update"} => Held(b, Spec(b).concept)
      PROVE  Inv'
  <2> DEFINE x == [boot[b] EXCEPT !.pc = pc]
  <2>1. /\ BootTyped(x) /\ x.pc = pc /\ x.i = boot[b].i
        /\ x.minted = boot[b].minted /\ x.attached = boot[b].attached
    BY <1>1 DEF BootTyped
  <2>2. boot' = [boot EXCEPT ![b] = x]
    BY <1>1, <1>4 DEF Goto, Shapes
  <2> HIDE DEF x
  <2> QED BY <1>0, <1>4, <2>1, <2>2, FlushInv DEF Known, Held, MintedBy, Spec
<1>5. CASE StartBootstrap(b)
  BY <1>4, <1>5 DEF StartBootstrap, Pcs
<1>6. CASE FindConcept(b)
  <2>1. PICK pc : /\ pc \in {"series", "failing", "mint"} /\ Goto(b, pc) /\ Flush(b)
                  /\ pc = "series" => KindHeldBy(b, Spec(b).concept) = "concept"
                  /\ pc = "mint" => KindSeenBy(b, Spec(b).parent) \in Kinds
    <3> DEFINE own == KindHeldBy(b, Spec(b).concept)
               above == KindSeenBy(b, Spec(b).parent)
    <3>1. Goto(b, CASE own = "concept" -> "series" [] own = "topic" -> "failing"
                    [] OTHER -> IF above \in Kinds THEN "mint" ELSE "failing") /\ Flush(b)
      BY <1>6 DEF FindConcept, Keep
    <3> HIDE DEF own, above
    <3>2. CASE own = "concept"
      <4>1. Goto(b, "series")
        BY ONLY <3>1, <3>2
      <4> QED BY <3>1, <3>2, <4>1 DEF own
    <3>3. CASE own = "topic"
      <4>1. Goto(b, "failing")
        BY ONLY <3>1, <3>3
      <4> QED BY <3>1, <4>1
    <3>4. CASE own \notin {"concept", "topic"} /\ above \in Kinds
      <4>1. Goto(b, "mint")
        BY ONLY <3>1, <3>4
      <4> QED BY <3>1, <3>4, <4>1 DEF above
    <3>5. CASE own \notin {"concept", "topic"} /\ above \notin Kinds
      <4>1. Goto(b, "failing")
        BY ONLY <3>1, <3>5
      <4> QED BY <3>1, <4>1
    <3> QED BY <3>2, <3>3, <3>4, <3>5
  <2>2. \A n \in Nodes : KindHeldBy(b, n) = "concept" => Held(b, n)
    BY DEF KindHeldBy, KindSeenBy, Held, Sound, Inv, Loaded, SoundlyHeld
  <2>3. \A n : KindSeenBy(b, n) \in Kinds => Known(b, n)
    BY DEF KindSeenBy, Known, Exists
  <2> QED BY <1>2, <1>4, <2>1, <2>2, <2>3 DEF Pcs
<1>7. CASE MintConcept(b)
  <2>1. CASE Exists(Spec(b).concept)
    BY <1>4, <1>7, <2>1 DEF MintConcept, Keep, Pcs
  <2>2. CASE ~Exists(Spec(b).concept)
    <3> DEFINE n == Spec(b).concept
               minted == With(boot[b].minted, n, Spec(b).parent)
               x == [boot[b] EXCEPT !.pc = "series", !.minted = minted]
    <3>1. /\ boot[b].pc = "mint" /\ NodeFree(n) /\ Flush(b)
          /\ boot' = [boot EXCEPT ![b].pc = "series", ![b].minted = minted]
      BY <1>7, <2>2 DEF MintConcept, Keep
    <3>2. kind[n] = "absent"
      BY <1>1, <1>2, <2>2 DEF Exists, Shapes
    <3>3. /\ DOMAIN minted = DOMAIN boot[b].minted \cup {n} /\ minted \in [DOMAIN minted -> Nodes]
          /\ minted[n] = Spec(b).parent /\ DOMAIN minted \subseteq Nodes
          /\ \A m \in DOMAIN boot[b].minted \ {n} : minted[m] = boot[b].minted[m]
      <4> DEFINE f == boot[b].minted
      <4>1. DOMAIN f \subseteq Nodes /\ f \in [DOMAIN f -> Nodes]
        BY <1>1 DEF BootTyped
      <4>2. minted = With(f, n, Spec(b).parent)
        OBVIOUS
      <4> HIDE DEF f, minted, n
      <4>3. n \in Nodes
        BY <1>2 DEF n
      <4>4. /\ DOMAIN minted = DOMAIN f \cup {n} /\ minted \in [DOMAIN minted -> Nodes]
            /\ minted[n] = Spec(b).parent /\ DOMAIN minted \subseteq Nodes
            /\ \A m \in DOMAIN f \ {n} : minted[m] = f[m]
        <5> DEFINE parent == Spec(b).parent
        <5>1. parent \in Nodes /\ minted = With(f, n, parent)
          BY <1>2, <4>2
        <5> HIDE DEF parent
        <5>2. minted[n] = parent /\ DOMAIN minted = DOMAIN f \cup {n} /\ DOMAIN minted \subseteq Nodes
              /\ minted \in [DOMAIN minted -> Nodes] /\ \A m \in DOMAIN f \ {n} : minted[m] = f[m]
          BY ONLY <4>1, <4>3, <5>1 DEF With
        <5> QED BY <5>2 DEF parent
      <4> QED BY <4>4 DEF f
    <3> HIDE DEF minted
    <3>4. /\ BootTyped(x) /\ x.pc = "series" /\ x.i = boot[b].i
          /\ x.minted = minted /\ x.attached = boot[b].attached
      <4>1. x = [pc |-> "series", i |-> boot[b].i, minted |-> minted, attached |-> boot[b].attached]
        <5> DEFINE y == boot[b]
        <5>1. y = [pc |-> y.pc, i |-> y.i, minted |-> y.minted, attached |-> y.attached]
          BY <1>1 DEF BootTyped
        <5>2. x = [y EXCEPT !.pc = "series", !.minted = minted]
          OBVIOUS
        <5> HIDE DEF y, x
        <5>3. x = [pc |-> "series", i |-> y.i, minted |-> minted, attached |-> y.attached]
          BY ONLY <5>1, <5>2
        <5> QED BY <5>3 DEF y
      <4> HIDE DEF x
      <4> QED BY <1>1, <3>3, <4>1 DEF BootTyped, Pcs
    <3>5. boot' = [boot EXCEPT ![b] = x]
      BY <1>1, <3>1 DEF Shapes
    <3> HIDE DEF x
    <3>6. \A m \in DOMAIN x.minted :
            \/ m \in DOMAIN boot[b].minted /\ x.minted[m] = boot[b].minted[m]
            \/ kind[m] = "absent" /\ NodeFree(m) /\ (x.minted[m] \in DOMAIN x.minted \/ Exists(x.minted[m]))
      BY <1>3, <3>1, <3>2, <3>3, <3>4 DEF Known, MintedBy
    <3>7. Specs[x.i].concept \in DOMAIN x.minted
      BY <3>3, <3>4 DEF Spec
    <3> QED BY <1>0, <3>1, <3>3, <3>4, <3>5, <3>6, <3>7, FlushInv
  <2> QED BY <2>1, <2>2
<1>8. ASSUME boot' = [boot EXCEPT ![b] = Next1(b)], boot[b].pc # "commit", Flush(b)
      PROVE  Inv'
  <2>1. /\ BootTyped(Next1(b)) /\ Next1(b).pc \in {"commit", "concept"}
        /\ Next1(b).minted = boot[b].minted /\ Next1(b).attached = boot[b].attached
    BY <1>1, <1>8, NextSpecTyped
  <2> QED BY <1>0, <1>8, <2>1, FlushInv
<1>9. CASE FindSeries(b)
  <2> DEFINE seen == SeriesHeldBy(b, Spec(b).series)
  <2>1. /\ boot[b].pc = "series" /\ Flush(b)
        /\ boot' = [boot EXCEPT ![b] =
             CASE seen = NoSeries -> [boot[b] EXCEPT !.pc = "insert"]
               [] seen = Spec(b).concept -> Next1(b)
               [] OTHER -> [boot[b] EXCEPT !.pc = "update"]]
    BY <1>9 DEF FindSeries
  <2> HIDE DEF seen
  <2>2. CASE seen = NoSeries
    <3>1. boot' = [boot EXCEPT ![b] = [boot[b] EXCEPT !.pc = "insert"]]
      <4>1. seen # Spec(b).concept
        BY <1>2, <2>2
      <4> QED BY <2>1, <2>2, <4>1
    <3>2. Goto(b, "insert")
      BY <1>1, <3>1 DEF Goto, Shapes
    <3> QED BY <1>3, <1>4, <2>1, <3>2 DEF Pcs
  <2>3. CASE seen # NoSeries /\ seen = Spec(b).concept
    <3>1. boot' = [boot EXCEPT ![b] = Next1(b)]
      BY <2>1, <2>3
    <3> QED BY <1>8, <2>1, <3>1
  <2>4. CASE seen # NoSeries /\ seen # Spec(b).concept
    <3>1. boot' = [boot EXCEPT ![b] = [boot[b] EXCEPT !.pc = "update"]]
      BY <2>1, <2>4
    <3>2. Goto(b, "update")
      BY <1>1, <3>1 DEF Goto, Shapes
    <3> QED BY <1>3, <1>4, <2>1, <3>2 DEF Pcs
  <2> QED BY <2>2, <2>3, <2>4
<1>10. CASE WriteSeries(b)
  <2>1. CASE boot[b].pc = "insert" /\ cat[Spec(b).series] # NoSeries
    BY <1>4, <1>10, <2>1 DEF WriteSeries, Pcs
  <2>2. CASE ~(boot[b].pc = "insert" /\ cat[Spec(b).series] # NoSeries)
    <3> DEFINE s == Spec(b).series
               attached == With(boot[b].attached, s, Spec(b).concept)
               x == [Next1(b) EXCEPT !.attached = attached]
    <3>1. /\ boot[b].pc \in {"insert", "update"} /\ Flush(b)
          /\ boot' = [boot EXCEPT ![b] = [Next1(b) EXCEPT !.attached = With(@, s, Spec(b).concept)]]
      BY <1>10, <2>2 DEF WriteSeries
    <3>2. /\ BootTyped(Next1(b)) /\ Next1(b).pc \in {"commit", "concept"}
          /\ Next1(b).minted = boot[b].minted /\ Next1(b).attached = boot[b].attached
      BY <1>1, <3>1, NextSpecTyped
    <3>3. /\ DOMAIN attached = DOMAIN boot[b].attached \cup {s} /\ attached \in [DOMAIN attached -> Nodes]
          /\ attached[s] = Spec(b).concept /\ DOMAIN attached \subseteq Series
          /\ \A r \in DOMAIN boot[b].attached \ {s} : attached[r] = boot[b].attached[r]
      <4> DEFINE f == boot[b].attached
      <4>1. DOMAIN f \subseteq Series /\ f \in [DOMAIN f -> Nodes]
        BY <1>1 DEF BootTyped
      <4>2. attached = With(f, s, Spec(b).concept)
        OBVIOUS
      <4> HIDE DEF f, attached, s
      <4>3. s \in Series
        BY <1>2 DEF s
      <4>4. /\ DOMAIN attached = DOMAIN f \cup {s} /\ attached \in [DOMAIN attached -> Nodes]
            /\ attached[s] = Spec(b).concept /\ DOMAIN attached \subseteq Series
            /\ \A m \in DOMAIN f \ {s} : attached[m] = f[m]
        <5> DEFINE concept == Spec(b).concept
        <5>1. concept \in Nodes /\ attached = With(f, s, concept)
          BY <1>2, <4>2
        <5> HIDE DEF concept
        <5>2. attached[s] = concept /\ DOMAIN attached = DOMAIN f \cup {s} /\ DOMAIN attached \subseteq Series
              /\ attached \in [DOMAIN attached -> Nodes] /\ \A m \in DOMAIN f \ {s} : attached[m] = f[m]
          BY ONLY <4>1, <4>3, <5>1 DEF With
        <5> QED BY <5>2 DEF concept
      <4> QED BY <4>4 DEF f
    <3>4. boot' = [boot EXCEPT ![b] = x]
      BY <3>1, <3>2
    <3> HIDE DEF attached
    <3>5. /\ BootTyped(x) /\ x.pc \in {"commit", "concept"}
          /\ x.minted = boot[b].minted /\ x.attached = attached
      BY <3>2, <3>3 DEF BootTyped
    <3> HIDE DEF x
    <3>6. \A r \in DOMAIN x.attached :
            \/ r \in DOMAIN boot[b].attached /\ x.attached[r] = boot[b].attached[r]
            \/ x.attached[r] \in DOMAIN x.minted \/ Sound(x.attached[r])
      BY <1>3, <3>1, <3>3, <3>5 DEF Held, MintedBy
    <3> QED BY <1>0, <3>1, <3>4, <3>5, <3>6, FlushInv
  <2> QED BY <2>1, <2>2
<1>11. CASE Fail(b)
  <2>1. /\ BootTyped(Over) /\ Over.pc = "done" /\ Over.minted = << >> /\ Over.attached = << >>
        /\ DOMAIN Over.minted = {} /\ DOMAIN Over.attached = {}
    BY DEF Over, Fresh, BootTyped, Pcs
  <2> QED BY <1>0, <1>11, <2>1, FlushInv DEF Fail
<1> QED BY <1>5, <1>6, <1>7, <1>9, <1>10, <1>11

\* What a commit makes of the rows.
LEMMA CommitRows ==
  ASSUME Inv, NEW b \in Bootstraps, CommitBootstrap(b)
  PROVE  /\ \A n \in Nodes : kind'[n] = IF MintedBy(b, n) THEN "concept" ELSE kind[n]
         /\ \A n \in Nodes : up'[n] = IF MintedBy(b, n) THEN boot[b].minted[n] ELSE up[n]
         /\ \A s \in Series : cat'[s] = IF AttachedBy(b, s) THEN boot[b].attached[s] ELSE cat[s]
         /\ kind' \in [Nodes -> Kinds \cup {"absent"}]
         /\ up' \in [Nodes -> Nodes \cup {NoNode}]
         /\ cat' \in [Series -> Nodes \cup {NoNode, NoSeries}]
<1> DEFINE minted == boot[b].minted
           attached == boot[b].attached
<1>1. /\ DOMAIN minted \subseteq Nodes /\ minted \in [DOMAIN minted -> Nodes]
      /\ DOMAIN attached \subseteq Series /\ attached \in [DOMAIN attached -> Nodes]
      /\ kind \in [Nodes -> Kinds \cup {"absent"}] /\ up \in [Nodes -> Nodes \cup {NoNode}]
      /\ cat \in [Series -> Nodes \cup {NoNode, NoSeries}]
  BY DEF Inv, Shapes, BootTyped
<1>2. /\ kind' = [n \in Nodes |-> IF n \in DOMAIN minted THEN "concept" ELSE kind[n]]
      /\ up' = Overlay(minted, up) /\ cat' = Overlay(attached, cat)
  BY DEF CommitBootstrap, KindSeenBy, MintedBy
<1> HIDE DEF minted, attached
<1>3. up' = [n \in Nodes |-> IF n \in DOMAIN minted THEN minted[n] ELSE up[n]]
  <2>1. DOMAIN minted \cup DOMAIN up = Nodes
    BY <1>1
  <2> QED BY <1>2, <2>1 DEF Overlay
<1>4. cat' = [s \in Series |-> IF s \in DOMAIN attached THEN attached[s] ELSE cat[s]]
  <2>1. DOMAIN attached \cup DOMAIN cat = Series
    BY <1>1
  <2> QED BY <1>2, <2>1 DEF Overlay
<1>5. /\ kind' \in [Nodes -> Kinds \cup {"absent"}]
      /\ up' \in [Nodes -> Nodes \cup {NoNode}]
      /\ cat' \in [Series -> Nodes \cup {NoNode, NoSeries}]
  BY <1>1, <1>2, <1>3, <1>4 DEF Kinds
<1> QED BY <1>2, <1>3, <1>4, <1>5 DEF MintedBy, AttachedBy, minted, attached

\* The commit: minted nodes are there under a parent that is there, attached
\* series on concepts, and nobody else's minted node is touched.
LEMMA CommitInv == ASSUME Inv, NEW b \in Bootstraps, CommitBootstrap(b) PROVE Inv'
<1>1. /\ \A n \in Nodes : kind'[n] = IF MintedBy(b, n) THEN "concept" ELSE kind[n]
      /\ \A n \in Nodes : up'[n] = IF MintedBy(b, n) THEN boot[b].minted[n] ELSE up[n]
      /\ \A s \in Series : cat'[s] = IF AttachedBy(b, s) THEN boot[b].attached[s] ELSE cat[s]
  BY CommitRows
<1>2. /\ Shapes /\ boot' = [boot EXCEPT ![b] = Over] /\ UNCHANGED <<req, demoted, writes>>
      /\ held' = [held EXCEPT ![b] = Unheld]
      /\ BootTyped(Over) /\ Over.pc = "done" /\ DOMAIN Over.minted = {} /\ DOMAIN Over.attached = {}
  BY DEF Inv, CommitBootstrap, Over, Fresh, BootTyped, Pcs
<1>3. boot'[b] = Over /\ \A d \in Bootstraps \ {b} : boot'[d] = boot[d] /\ BootTyped(boot[d])
  BY <1>2 DEF Shapes
<1>4. Shapes'
  <2>1. \A d \in Bootstraps : BootTyped(boot'[d])
    BY <1>2, <1>3
  <2>2. boot' = [d \in Bootstraps |-> boot'[d]]
    BY <1>2 DEF Shapes
  <2> QED BY <1>2, <2>1, <2>2, CommitRows DEF Shapes
<1>5. \A n \in Nodes : /\ Known(b, n) => kind'[n] \in Kinds
                       /\ Held(b, n) => kind'[n] = "concept" \/ n \in demoted
                       /\ Exists(n) => kind'[n] \in Kinds
                       /\ Sound(n) => kind'[n] = "concept" \/ n \in demoted
  BY <1>1 DEF Known, Held, Exists, Sound, Kinds
<1>6. DemotedExist'
  BY <1>2, <1>5 DEF Inv, Committed, DemotedExist, Exists, Shapes
<1>7. EdgesExist'
  <2> SUFFICES ASSUME NEW n \in Nodes, up'[n] # NoNode
               PROVE  kind'[n] \in Kinds /\ kind'[up'[n]] \in Kinds
    BY DEF EdgesExist, Exists
  <2>1. CASE MintedBy(b, n)
    <3>1. boot[b].minted[n] \in Nodes /\ Known(b, boot[b].minted[n])
      BY <1>2, <2>1 DEF Shapes, BootTyped, MintedBy, Inv, Flushed, MintedNew
    <3> QED BY <1>1, <1>5, <2>1, <3>1 DEF Kinds
  <2>2. CASE ~MintedBy(b, n)
    <3>1. up[n] \in Nodes /\ Exists(n) /\ Exists(up[n]) /\ up'[n] = up[n]
      BY <1>1, <1>2, <2>2 DEF Inv, Committed, EdgesExist, Shapes
    <3> QED BY <1>5, <3>1
  <2> QED BY <2>1, <2>2
<1>8. SeriesOnSound'
  <2> SUFFICES ASSUME NEW s \in Series, cat'[s] \in Nodes
               PROVE  kind'[cat'[s]] = "concept" \/ cat'[s] \in demoted
    BY <1>2 DEF SeriesOnSound, Sound
  <2>1. CASE AttachedBy(b, s)
    BY <1>1, <1>5, <2>1 DEF AttachedBy, Inv, Flushed, AttachedHeld
  <2>2. CASE ~AttachedBy(b, s)
    BY <1>1, <1>5, <2>2 DEF Inv, Committed, SeriesOnSound
  <2> QED BY <2>1, <2>2
<1>9. Checked'
  <2> SUFFICES ASSUME NEW r \in Requests, req[r].op \in {"post", "patch"}, req[r].node # NoNode
               PROVE  kind'[req[r].node] = "concept" \/ req[r].node \in demoted
    BY <1>2 DEF Checked, Sound
  <2>1. req[r].node \in Nodes /\ Sound(req[r].node)
    BY <1>2 DEF Shapes, Requested, Idle, Inv, Committed, Checked
  <2> QED BY <1>5, <2>1
<1>10. MintedNew'
  <2> SUFFICES ASSUME NEW d \in Bootstraps \ {b}, NEW n \in DOMAIN boot[d].minted
               PROVE  /\ kind'[n] = "absent"
                      /\ boot[d].minted[n] \in DOMAIN boot[d].minted \/ kind'[boot[d].minted[n]] \in Kinds
                      /\ \A e \in Bootstraps \ {d} : n \notin DOMAIN boot'[e].minted
    BY <1>2, <1>3 DEF MintedNew, Known, MintedBy, Exists
  <2>1. n \in Nodes /\ boot[d].minted[n] \in Nodes
    BY <1>3 DEF BootTyped
  <2>2. /\ kind[n] = "absent" /\ Known(d, boot[d].minted[n])
        /\ \A e \in Bootstraps \ {d} : n \notin DOMAIN boot[e].minted
    BY DEF Inv, Flushed, MintedNew
  <2>3. kind'[n] = "absent"
    BY <1>1, <2>1, <2>2 DEF MintedBy
  <2>4. \A e \in Bootstraps \ {d} : n \notin DOMAIN boot'[e].minted
    BY <1>2, <1>3, <2>2
  <2> QED BY <1>5, <2>1, <2>2, <2>3, <2>4 DEF Known, MintedBy
<1>11. AttachedHeld'
  <2> SUFFICES ASSUME NEW d \in Bootstraps \ {b}, NEW s \in DOMAIN boot[d].attached
               PROVE  \/ boot[d].attached[s] \in DOMAIN boot[d].minted
                      \/ kind'[boot[d].attached[s]] = "concept" \/ boot[d].attached[s] \in demoted
    BY <1>2, <1>3 DEF AttachedHeld, Held, MintedBy, Sound
  <2>1. boot[d].attached[s] \in Nodes /\ Held(d, boot[d].attached[s])
    BY <1>3 DEF BootTyped, Inv, Flushed, AttachedHeld
  <2> QED BY <1>5, <2>1 DEF Held, MintedBy
<1>12. AtSpec'
  <2> SUFFICES ASSUME NEW d \in Bootstraps \ {b}
               PROVE  /\ boot[d].pc = "mint" =>
                           Spec(d).parent \in DOMAIN boot[d].minted \/ kind'[Spec(d).parent] \in Kinds
                      /\ boot[d].pc \in {"series", "insert", "update"} =>
                           \/ Spec(d).concept \in DOMAIN boot[d].minted
                           \/ kind'[Spec(d).concept] = "concept" \/ Spec(d).concept \in demoted
    BY <1>2, <1>3 DEF AtSpec, Known, Held, MintedBy, Exists, Sound, Spec
  <2>1. Spec(d).parent \in Nodes /\ Spec(d).concept \in Nodes
    BY <1>3, SpecsTyped
  <2>2. /\ boot[d].pc = "mint" => Known(d, Spec(d).parent)
        /\ boot[d].pc \in {"series", "insert", "update"} => Held(d, Spec(d).concept)
    BY DEF Inv, Flushed, AtSpec
  <2> QED BY <1>5, <2>1, <2>2 DEF Known, Held, MintedBy
<1>13. Loaded'
  <2>1. Unheld \in HeldRecords /\ \A n \in Nodes : Unheld.kind[n] = "absent"
        /\ \A s \in Series : Unheld.cat[s] = NoSeries
    BY DEF Unheld, HeldRecords
  <2>2. held \in [Bootstraps -> HeldRecords] /\ \A d \in Bootstraps : SoundlyHeld(held[d])
    BY DEF Inv, Loaded
  <2>3. held' \in [Bootstraps -> HeldRecords] /\ held'[b] = Unheld
        /\ \A d \in Bootstraps \ {b} : held'[d] = held[d]
    BY <1>2, <2>1, <2>2
  <2>4. ASSUME NEW d \in Bootstraps
        PROVE  /\ \A n \in Nodes : held'[d].kind[n] = "concept" => kind'[n] = "concept" \/ n \in demoted
               /\ \A s \in Series : held'[d].cat[s] \in Nodes => kind'[held'[d].cat[s]] \in Kinds
    <3>1. CASE d = b
      BY <2>1, <2>3, <3>1
    <3>2. CASE d # b
      BY <1>5, <2>2, <2>3, <3>2 DEF SoundlyHeld
    <3> QED BY <3>1, <3>2
  <2> QED BY <1>2, <2>3, <2>4 DEF Loaded, SoundlyHeld, Sound, Exists
<1> QED BY <1>4, <1>6, <1>7, <1>8, <1>9, <1>10, <1>11, <1>12, <1>13 DEF Inv, Committed, Flushed

-----------------------------------------------------------------------------
(* What follows *)

\* Every step, or none, keeps the invariant.
LEMMA StepInv == Inv /\ [TreeNext]_treeVars => Inv'
<1> SUFFICES ASSUME Inv, [TreeNext]_treeVars PROVE Inv'
  OBVIOUS
<1>1. CASE UNCHANGED treeVars
  <2>1. Shapes'
    BY <1>1 DEF treeVars, Inv, Shapes, BootTyped
  <2>2. Committed'
    BY <1>1 DEF treeVars, Inv, Committed, DemotedExist, EdgesExist, SeriesOnSound, Checked, Exists, Sound
  <2>3. KindsGrow
    BY <1>1 DEF treeVars, Inv, Shapes, KindsGrow, Exists, Sound
  <2> QED BY <1>1, <2>1, <2>2, <2>3, FlushedKept, LoadedKept DEF treeVars, Inv
<1>2. CASE RouteStep
  BY <1>2, KindsInv, EdgesInv, RequestsInv DEF RouteStep
<1>3. CASE \E r \in Requests : Respond(r)
  BY <1>3, DeletionInv, RequestsInv DEF Respond
<1>4. CASE \E b \in Bootstraps : StartBootstrap(b) \/ Bootstrap(b) \/ Fail(b)
  BY <1>4, BootstrapInv, CommitInv DEF Bootstrap
<1> QED BY <1>1, <1>2, <1>3, <1>4 DEF TreeNext

\* The invariant holds in every reachable state.
LEMMA InvCorrect == TreeSpec => []Inv
BY InitInv, StepInv, PTL DEF TreeSpec

\* Whatever is deleted while rows that refer to it are being written, no edge and
\* no series refers to a node that is gone.
THEOREM TypeCorrect == TreeSpec => []TypeOK
<1>1. Inv => TypeOK
  <2> SUFFICES ASSUME Inv PROVE TypeOK
    OBVIOUS
  <2>1. \A r \in Requests : req[r] = Idle \/ req[r].op \in {"delete", "post", "patch"}
    BY DEF Inv, Shapes, Requested
  <2>2. \A s \in Series : cat[s] \in Nodes => Exists(cat[s])
    BY DEF Inv, Committed, SeriesOnSound, DemotedExist, Sound, Exists, Kinds
  <2>3. held \in [Bootstraps -> [kind : [Nodes -> Kinds \cup {"absent"}],
                                 cat : [Series -> Nodes \cup {NoNode, NoSeries}]]]
    BY DEF Inv, Loaded, HeldRecords
  <2> QED BY <2>1, <2>2, <2>3 DEF Inv, Shapes, BootTyped, Committed, EdgesExist, TypeOK
<1> QED BY <1>1, InvCorrect, PTL

\* However requests, seeds and bootstraps interleave with their checks, a series
\* is on a topic only where the topic was a concept.
THEOREM SeriesOnConcepts == TreeSpec => []TopicSeriesOnlyByDemotion
<1>1. Inv => TopicSeriesOnlyByDemotion
  BY DEF Inv, Committed, SeriesOnSound, Sound, TopicSeriesOnlyByDemotion
<1> QED BY <1>1, InvCorrect, PTL

\* Only the deletion of a node takes a row of the tree away.
LEMMA OthersStay ==
  ASSUME Inv, [TreeNext]_treeVars, NEW n \in Nodes, Exists(n), kind'[n] = "absent"
  PROVE  \E r \in Requests : DeleteNode(r) /\ RowGone(n) /\ n = req[r].node /\ ~Restricted(n)
<1>1. Shapes
  BY DEF Inv
<1>2. CASE SeedCategories
  BY <1>1, <1>2, SeedsTyped DEF SeedCategories, Exists, Kinds
<1>3. ASSUME NEW m \in Nodes, NEW k \in Kinds, PostCategory(m, k) \/ PatchKind(m, k) PROVE FALSE
  BY <1>1, <1>3 DEF PostCategory, PatchKind, Exists, Kinds, Shapes
<1>4. ASSUME NEW b \in Bootstraps, CommitBootstrap(b) PROVE FALSE
  BY <1>4, CommitRows DEF Exists, Kinds
<1>5. ASSUME UNCHANGED kind PROVE FALSE
  BY <1>5 DEF Exists, Kinds
<1>6. ASSUME NEW r \in Requests, DeleteNode(r)
      PROVE  RowGone(n) /\ n = req[r].node /\ ~Restricted(n)
  BY <1>1, <1>5, <1>6 DEF DeleteNode, RowGone, Exists, Kinds, Shapes
<1>7. CASE RouteStep
  BY <1>2, <1>3, <1>5, <1>7 DEF RouteStep, PostEdge, PatchEdge, DeleteEdge, FetchToDelete, CheckAttachment
<1>8. CASE \E r \in Requests : Respond(r)
  BY <1>5, <1>6, <1>8 DEF Respond, CommitAttachment
<1>9. CASE \E b \in Bootstraps : StartBootstrap(b) \/ Bootstrap(b) \/ Fail(b)
  BY <1>4, <1>5, <1>9 DEF StartBootstrap, Bootstrap, Fail, FindConcept, MintConcept, FindSeries, WriteSeries, Keep, Flush
<1> QED BY <1>5, <1>7, <1>8, <1>9 DEF TreeNext, treeVars

\* A deletion makes no root of another node and detaches no series, although the
\* row was fetched a request's time before it goes.
THEOREM DeletionCorrect == TreeSpec => DeletionTakesOnlyTheNode
<1>1. Inv /\ [TreeNext]_treeVars =>
        [\A n \in Nodes : Exists(n) /\ kind'[n] = "absent" =>
           /\ \A c \in Nodes \ {n} : up'[c] = up[c]
           /\ cat' = cat]_treeVars
  <2> SUFFICES ASSUME Inv, [TreeNext]_treeVars, NEW n \in Nodes, Exists(n), kind'[n] = "absent"
               PROVE  (\A c \in Nodes \ {n} : up'[c] = up[c]) /\ cat' = cat
    OBVIOUS
  <2>1. PICK r \in Requests : DeleteNode(r) /\ RowGone(n) /\ n = req[r].node /\ ~Restricted(n)
    BY OthersStay
  <2>2. up' = [up EXCEPT ![n] = NoNode] /\ cat' = cat
    BY <2>1 DEF DeleteNode
  <2> QED BY <2>2 DEF Inv, Shapes
<1> QED BY <1>1, InvCorrect, PTL DEF TreeSpec, DeletionTakesOnlyTheNode

-----------------------------------------------------------------------------
(* A concept is minted for a series *)

\* Of every minted concept, the spec: its series is attached already, or the
\* bootstrap is at it.
Underway == {"series", "insert", "update", "failing"}
MintedFor(n, i, x) ==
  /\ Specs[i].concept = n
  /\ \/ Specs[i].series \in DOMAIN x.attached /\ x.attached[Specs[i].series] = n
     \/ i = x.i /\ x.pc \in Underway
MintedForSeries ==
  \A b \in Bootstraps : \A n \in DOMAIN boot[b].minted :
    \E i \in 1..Len(Specs) : MintedFor(n, i, boot[b])

\* A bootstrap that goes on: what it has minted has its series or is at it.
LEMMA MintingInv ==
  ASSUME Inv, MintedForSeries, NEW b \in Bootstraps, NEW x, boot' = [boot EXCEPT ![b] = x],
         \A n \in DOMAIN x.minted : \E i \in 1..Len(Specs) : MintedFor(n, i, x)
  PROVE  MintedForSeries'
<1>1. boot'[b] = x /\ \A d \in Bootstraps \ {b} : boot'[d] = boot[d]
  BY DEF Inv, Shapes
<1> QED BY <1>1 DEF MintedForSeries

\* The statements of a bootstrap.
LEMMA MintingStep ==
  ASSUME Inv, MintedForSeries, NEW b \in Bootstraps,
         StartBootstrap(b) \/ Bootstrap(b) \/ Fail(b)
  PROVE  MintedForSeries'
<1>1. Shapes /\ BootTyped(boot[b])
  BY DEF Inv, Shapes
<1>2. \A n \in DOMAIN boot[b].minted : \E i \in 1..Len(Specs) : MintedFor(n, i, boot[b])
  BY DEF MintedForSeries
<1>3. boot[b].i \in 1..Len(Specs) /\ Len(Specs) \in Nat
  BY <1>1 DEF BootTyped
<1>4. ASSUME NEW pc \in Pcs, Goto(b, pc), boot[b].pc \in Underway => pc \in Underway
      PROVE  MintedForSeries'
  <2> DEFINE x == [boot[b] EXCEPT !.pc = pc]
  <2>1. x.pc = pc /\ x.i = boot[b].i /\ x.minted = boot[b].minted /\ x.attached = boot[b].attached
    BY <1>1 DEF BootTyped
  <2>2. boot' = [boot EXCEPT ![b] = x]
    BY <1>1, <1>4 DEF Goto, Shapes
  <2> HIDE DEF x
  <2> QED BY <1>2, <1>4, <2>1, <2>2, MintingInv DEF MintedFor
<1>5. ASSUME boot' = [boot EXCEPT ![b] = Over] PROVE MintedForSeries'
  <2>1. DOMAIN Over.minted = {}
    BY DEF Over, Fresh
  <2> QED BY <1>5, <2>1, MintingInv
<1>6. CASE StartBootstrap(b)
  BY <1>4, <1>6 DEF StartBootstrap, Pcs, Underway
<1>7. CASE FindConcept(b)
  <2>1. \E pc \in {"series", "failing", "mint"} : Goto(b, pc)
    BY <1>7 DEF FindConcept
  <2>2. boot[b].pc = "concept"
    BY <1>7 DEF FindConcept
  <2> QED BY <1>4, <2>1, <2>2 DEF Pcs, Underway
<1>8. CASE MintConcept(b)
  <2>1. CASE Exists(Spec(b).concept)
    BY <1>4, <1>8, <2>1 DEF MintConcept, Pcs, Underway
  <2>2. CASE ~Exists(Spec(b).concept)
    <3> DEFINE n == Spec(b).concept
               minted == With(boot[b].minted, n, Spec(b).parent)
               x == [boot[b] EXCEPT !.pc = "series", !.minted = minted]
    <3>1. boot[b].pc = "mint" /\ boot' = [boot EXCEPT ![b].pc = "series", ![b].minted = minted]
      BY <1>8, <2>2 DEF MintConcept
    <3>2. DOMAIN minted = DOMAIN boot[b].minted \cup {n}
      BY DEF With
    <3> HIDE DEF minted
    <3>3. x.pc = "series" /\ x.i = boot[b].i /\ x.minted = minted /\ x.attached = boot[b].attached
      BY <1>1 DEF BootTyped
    <3>4. boot' = [boot EXCEPT ![b] = x]
      BY <1>1, <3>1 DEF Shapes
    <3> HIDE DEF x
    <3>5. \A m \in DOMAIN boot[b].minted : \E i \in 1..Len(Specs) : MintedFor(m, i, x)
      BY <1>2, <3>1, <3>3 DEF MintedFor, Underway
    <3>6. MintedFor(n, boot[b].i, x)
      BY <3>3 DEF MintedFor, Spec, Underway
    <3> QED BY <1>3, <3>2, <3>3, <3>4, <3>5, <3>6, MintingInv
  <2> QED BY <2>1, <2>2
<1>9. CASE FindSeries(b)
  <2> DEFINE seen == SeriesHeldBy(b, Spec(b).series)
  <2>1. /\ boot[b].pc = "series" /\ Flush(b)
        /\ boot' = [boot EXCEPT ![b] =
             CASE seen = NoSeries -> [boot[b] EXCEPT !.pc = "insert"]
               [] seen = Spec(b).concept -> Next1(b)
               [] OTHER -> [boot[b] EXCEPT !.pc = "update"]]
    BY <1>9 DEF FindSeries
  <2> HIDE DEF seen
  <2>2. CASE boot' = [boot EXCEPT ![b] = [boot[b] EXCEPT !.pc = "insert"]]
    BY <1>1, <1>4, <2>1, <2>2 DEF Goto, Shapes, Pcs, Underway
  <2>3. CASE boot' = [boot EXCEPT ![b] = [boot[b] EXCEPT !.pc = "update"]]
    BY <1>1, <1>4, <2>1, <2>3 DEF Goto, Shapes, Pcs, Underway
  <2>4. CASE seen = Spec(b).concept /\ seen # NoSeries /\ boot' = [boot EXCEPT ![b] = Next1(b)]
    <3>1. Next1(b).minted = boot[b].minted /\ Next1(b).attached = boot[b].attached
      BY <1>1, <2>1, NextSpecTyped
    <3>2. ASSUME NEW n \in DOMAIN boot[b].minted PROVE \E i \in 1..Len(Specs) : MintedFor(n, i, Next1(b))
      <4>1. PICK i \in 1..Len(Specs) : MintedFor(n, i, boot[b])
        BY <1>2, <3>2
      <4>2. CASE Specs[i].series \in DOMAIN boot[b].attached /\ boot[b].attached[Specs[i].series] = n
        BY <3>1, <4>1, <4>2 DEF MintedFor
      <4>3. CASE i = boot[b].i /\ ~(Specs[i].series \in DOMAIN boot[b].attached /\ boot[b].attached[Specs[i].series] = n)
        <5>1. Spec(b) = Specs[i] /\ Spec(b).concept = n /\ Spec(b).series \in Series /\ n \in Nodes
          BY <1>1, <4>1, <4>3, SpecsTyped DEF Spec, MintedFor
        <5>2. n \in {held[b].cat[Spec(b).series], cat[Spec(b).series]}
          BY <2>4, <4>3, <5>1 DEF seen, SeriesHeldBy, AttachedBy
        <5>3. Exists(n)
          <6>1. cat[Spec(b).series] = n => Exists(n)
            BY <5>1 DEF Inv, Committed, SeriesOnSound, DemotedExist, Sound, Exists, Kinds
          <6>2. held[b].cat[Spec(b).series] = n => Exists(n)
            BY <5>1 DEF Inv, Loaded, SoundlyHeld
          <6> QED BY <5>2, <6>1, <6>2
        <5>4. ~Exists(n)
          BY <3>2 DEF Inv, Flushed, MintedNew, Exists, Kinds
        <5> QED BY <5>3, <5>4
      <4> QED BY <4>1, <4>2, <4>3 DEF MintedFor
    <3> QED BY <2>4, <3>1, <3>2, MintingInv
  <2> DEFINE next == CASE seen = NoSeries -> [boot[b] EXCEPT !.pc = "insert"]
                       [] seen = Spec(b).concept -> Next1(b)
                       [] OTHER -> [boot[b] EXCEPT !.pc = "update"]
  <2>5. CASE seen = NoSeries
    <3>1. seen # Spec(b).concept
      BY <1>1, <2>5, SpecsTyped
    <3>2. next = [boot[b] EXCEPT !.pc = "insert"]
      BY ONLY <2>5, <3>1
    <3> QED BY <2>1, <2>2, <3>2
  <2>6. CASE seen # NoSeries /\ seen = Spec(b).concept
    <3>1. next = Next1(b)
      BY ONLY <2>6
    <3> QED BY <2>1, <2>4, <2>6, <3>1
  <2>7. CASE seen # NoSeries /\ seen # Spec(b).concept
    <3>1. next = [boot[b] EXCEPT !.pc = "update"]
      BY ONLY <2>7
    <3> QED BY <2>1, <2>3, <3>1
  <2> QED BY <2>5, <2>6, <2>7
<1>10. CASE WriteSeries(b)
  <2>1. CASE boot[b].pc = "insert" /\ cat[Spec(b).series] # NoSeries
    BY <1>4, <1>10, <2>1 DEF WriteSeries, Pcs, Underway
  <2>2. CASE ~(boot[b].pc = "insert" /\ cat[Spec(b).series] # NoSeries)
    <3> DEFINE s == Spec(b).series
               attached == With(boot[b].attached, s, Spec(b).concept)
               x == [Next1(b) EXCEPT !.attached = attached]
    <3>1. /\ boot[b].pc \in {"insert", "update"}
          /\ boot' = [boot EXCEPT ![b] = [Next1(b) EXCEPT !.attached = With(@, s, Spec(b).concept)]]
      BY <1>10, <2>2 DEF WriteSeries
    <3>2. BootTyped(Next1(b)) /\ Next1(b).minted = boot[b].minted /\ Next1(b).attached = boot[b].attached
      BY <1>1, <3>1, NextSpecTyped
    <3>3. /\ attached[s] = Spec(b).concept /\ s \in DOMAIN attached
          /\ \A r \in DOMAIN boot[b].attached \ {s} : r \in DOMAIN attached /\ attached[r] = boot[b].attached[r]
      BY DEF With
    <3>4. boot' = [boot EXCEPT ![b] = x]
      BY <3>1, <3>2
    <3> HIDE DEF attached
    <3>5. x.minted = boot[b].minted /\ x.attached = attached
      BY <3>2 DEF BootTyped
    <3> HIDE DEF x
    <3>6. ASSUME NEW n \in DOMAIN boot[b].minted PROVE \E i \in 1..Len(Specs) : MintedFor(n, i, x)
      <4>1. PICK i \in 1..Len(Specs) : MintedFor(n, i, boot[b])
        BY <1>2, <3>6
      <4>2. CASE i = boot[b].i
        BY <3>3, <3>5, <4>1, <4>2 DEF MintedFor, Spec
      <4>3. CASE i # boot[b].i
        <5>1. Specs[i].series # s
          BY ONLY <1>3, <4>3, SpecsAssumption DEF Spec, s
        <5>2. Specs[i].series \in DOMAIN boot[b].attached /\ boot[b].attached[Specs[i].series] = n
          BY <4>1, <4>3 DEF MintedFor
        <5> QED BY <3>3, <3>5, <4>1, <5>1, <5>2 DEF MintedFor
      <4> QED BY <4>2, <4>3
    <3> QED BY <3>4, <3>5, <3>6, MintingInv
  <2> QED BY <2>1, <2>2
<1> QED BY <1>5, <1>6, <1>7, <1>8, <1>9, <1>10 DEF Bootstrap, CommitBootstrap, Fail

\* A node that goes makes those that need it fail, which they do at their spec.
LEMMA MintingKept ==
  ASSUME Inv, MintedForSeries, RouteStep \/ (\E r \in Requests : Respond(r))
  PROVE  MintedForSeries'
<1>1. CASE UNCHANGED boot
  BY <1>1 DEF MintedForSeries, MintedFor
<1>2. ASSUME NEW n, RowGone(n) PROVE MintedForSeries'
  <2>1. ASSUME NEW b \in Bootstraps
        PROVE  /\ boot'[b].i = boot[b].i
               /\ boot'[b].minted = boot[b].minted /\ boot'[b].attached = boot[b].attached
               /\ boot[b].pc \in Underway => boot'[b].pc \in Underway
    <3>1. boot[b] \in [pc : Pcs, i : 1..Len(Specs), minted : {boot[b].minted}, attached : {boot[b].attached}]
      BY DEF Inv, Shapes, BootTyped
    <3> QED BY <1>2, <3>1 DEF RowGone, Underway
  <2> QED BY <2>1 DEF MintedForSeries, MintedFor
<1>3. RouteStep => UNCHANGED boot
  BY DEF RouteStep, SeedCategories, PostCategory, PatchKind, PostEdge, PatchEdge, DeleteEdge,
         FetchToDelete, CheckAttachment
<1>4. ASSUME NEW r \in Requests, Respond(r) PROVE MintedForSeries'
  BY <1>1, <1>2, <1>4 DEF Respond, DeleteNode, CommitAttachment
<1> QED BY <1>1, <1>3, <1>4

\* So it is in every state, beside the invariant.
LEMMA MintingCorrect == TreeSpec => [](Inv /\ MintedForSeries)
<1>1. TreeInit => Inv /\ MintedForSeries
  BY InitInv DEF TreeInit, Fresh, MintedForSeries
<1>2. Inv /\ MintedForSeries /\ [TreeNext]_treeVars => (Inv /\ MintedForSeries)'
  <2> SUFFICES ASSUME Inv, MintedForSeries, [TreeNext]_treeVars PROVE MintedForSeries'
    BY StepInv
  <2>1. CASE UNCHANGED treeVars
    BY <2>1 DEF treeVars, MintedForSeries, MintedFor
  <2>2. CASE RouteStep \/ (\E r \in Requests : Respond(r))
    BY <2>2, MintingKept
  <2>3. ASSUME NEW b \in Bootstraps, StartBootstrap(b) \/ Bootstrap(b) \/ Fail(b) PROVE MintedForSeries'
    BY <2>3, MintingStep
  <2> QED BY <2>1, <2>2, <2>3 DEF TreeNext
<1> QED BY <1>1, <1>2, PTL DEF TreeSpec

\* Only the commit of its own bootstrap makes a minted node of the tables, unless
\* a route or the seed writes it.
LEMMA OwnCommit ==
  ASSUME Inv, [TreeNext]_treeVars, NEW b \in Bootstraps, NEW n \in DOMAIN boot[b].minted,
         kind'[n] # kind[n], writes' = writes
  PROVE  CommitBootstrap(b)
<1>1. kind[n] = "absent" /\ n \in Nodes /\ \A d \in Bootstraps \ {b} : ~MintedBy(d, n)
  BY DEF Inv, Flushed, MintedNew, MintedBy, Shapes, BootTyped
<1>2. kind \in [Nodes -> Kinds \cup {"absent"}] /\ writes \in Nat
  BY DEF Inv, Shapes
<1>3. ~UNCHANGED kind
  OBVIOUS
<1>4. ASSUME NEW m, RowGone(m) PROVE FALSE
  BY <1>1, <1>2, <1>4 DEF RowGone
<1>5. ~RouteStep
  BY <1>2, <1>3 DEF RouteStep, SeedCategories, PostCategory, PatchKind, PostEdge, PatchEdge, DeleteEdge,
                    FetchToDelete, CheckAttachment, Route
<1>6. \A r \in Requests : ~Respond(r)
  BY <1>3, <1>4 DEF Respond, DeleteNode, CommitAttachment
<1>7. PICK d \in Bootstraps : CommitBootstrap(d)
  BY <1>3, <1>5, <1>6 DEF TreeNext, treeVars, StartBootstrap, Bootstrap, Fail, FindConcept, MintConcept,
                          FindSeries, WriteSeries, Keep, Flush
<1>8. d = b
  BY <1>1, <1>7, CommitRows
<1> QED BY <1>7, <1>8

\* A concept that accretes appears under its parent and together with the series
\* it was minted for, however many bootstraps and routes race for it.
THEOREM MintedTogether == TreeSpec => MintedWithItsSeries
<1>1. Inv /\ MintedForSeries /\ [TreeNext]_treeVars =>
        [\A b \in Bootstraps : \A n \in DOMAIN boot[b].minted :
           ~Exists(n) /\ kind'[n] # kind[n] =>
             \/ writes' # writes
             \/ /\ up'[n] = boot[b].minted[n]
                /\ \E i \in 1..Len(Specs) :
                     Specs[i].concept = n /\ cat'[Specs[i].series] = n]_treeVars
  <2> SUFFICES ASSUME Inv, MintedForSeries, [TreeNext]_treeVars,
                      NEW b \in Bootstraps, NEW n \in DOMAIN boot[b].minted,
                      kind'[n] # kind[n], writes' = writes
               PROVE  /\ up'[n] = boot[b].minted[n]
                      /\ \E i \in 1..Len(Specs) :
                           Specs[i].concept = n /\ cat'[Specs[i].series] = n
    OBVIOUS
  <2>1. CommitBootstrap(b)
    BY OwnCommit
  <2>2. n \in Nodes /\ DOMAIN boot[b].attached \subseteq Series
    BY DEF Inv, Shapes, BootTyped
  <2>3. up'[n] = boot[b].minted[n]
    BY <2>1, <2>2, CommitRows DEF MintedBy
  <2>4. PICK i \in 1..Len(Specs) : MintedFor(n, i, boot[b])
    BY DEF MintedForSeries
  <2>5. Specs[i].series \in DOMAIN boot[b].attached /\ boot[b].attached[Specs[i].series] = n
    BY <2>1, <2>4 DEF MintedFor, CommitBootstrap, Underway
  <2>6. cat'[Specs[i].series] = n
    BY <2>1, <2>2, <2>5, CommitRows DEF AttachedBy
  <2> QED BY <2>3, <2>4, <2>6 DEF MintedFor
<1> QED BY <1>1, MintingCorrect, PTL DEF TreeSpec, MintedWithItsSeries

-----------------------------------------------------------------------------
(* Walks that end go on to end *)

\* Following what a bootstrap has minted from parent to parent leads out of it:
\* each concept was put under one that was there or minted before.
LeadsOut(minted) ==
  \A S \in SUBSET DOMAIN minted : S # {} => \E m \in S : minted[m] \notin S
MintedLeadOut == \A b \in Bootstraps : LeadsOut(boot[b].minted)

\* A concept is minted under a parent that is known, which it is not itself.
LEMMA LeadsOutOn ==
  ASSUME NEW minted, LeadsOut(minted), NEW n, NEW p, n # p, n \notin DOMAIN minted,
         \A m \in DOMAIN minted : minted[m] # n
  PROVE  LeadsOut(With(minted, n, p))
<1> DEFINE more == With(minted, n, p)
<1>1. /\ DOMAIN more = DOMAIN minted \cup {n} /\ more[n] = p
      /\ \A m \in DOMAIN minted : more[m] = minted[m]
  BY DEF With
<1> HIDE DEF more
<1>2. SUFFICES ASSUME NEW S \in SUBSET DOMAIN more, S # {}, \A m \in S : more[m] \in S
               PROVE  FALSE
  BY DEF LeadsOut, more
<1> DEFINE T == S \ {n}
<1>3. T \in SUBSET DOMAIN minted
  BY <1>1
<1>4. T # {}
  BY <1>1, <1>2
<1>5. \A m \in T : minted[m] \in T
  BY <1>1, <1>2, <1>3
<1> QED BY <1>3, <1>4, <1>5 DEF LeadsOut

\* Only MintConcept adds to what a bootstrap has minted.
LEMMA LeadsOutStep ==
  ASSUME Inv, MintedLeadOut, [TreeNext]_treeVars
  PROVE  MintedLeadOut'
<1>1. /\ boot = [b \in Bootstraps |-> boot[b]]
      /\ \A b \in Bootstraps : BootTyped(boot[b])
  BY DEF Inv, Shapes
<1>2. LeadsOut(<< >>) /\ Over.minted = << >>
  BY DEF LeadsOut, Over, Fresh
<1>3. ASSUME \A b \in Bootstraps : boot'[b].minted \in {boot[b].minted, << >>}
      PROVE  MintedLeadOut'
  BY <1>2, <1>3 DEF MintedLeadOut
<1>4. ASSUME UNCHANGED boot PROVE MintedLeadOut'
  BY <1>3, <1>4
<1>5. ASSUME NEW b \in Bootstraps, NEW x, boot' = [boot EXCEPT ![b] = x],
             x.minted \in {boot[b].minted, << >>}
      PROVE  MintedLeadOut'
  BY <1>1, <1>3, <1>5
<1>6. ASSUME NEW n, RowGone(n) PROVE MintedLeadOut'
  <2>1. ASSUME NEW b \in Bootstraps PROVE boot'[b].minted = boot[b].minted
    <3>1. boot'[b] = IF Needs(b, n) THEN [boot[b] EXCEPT !.pc = "failing"] ELSE boot[b]
      BY <1>6 DEF RowGone
    <3> QED BY <1>1, <3>1 DEF BootTyped
  <2> QED BY <1>3, <2>1
<1>7. RouteStep => UNCHANGED boot
  BY DEF RouteStep, SeedCategories, PostCategory, PatchKind, PostEdge, PatchEdge, DeleteEdge,
         FetchToDelete, CheckAttachment
<1>8. ASSUME NEW r \in Requests, Respond(r) PROVE MintedLeadOut'
  BY <1>4, <1>6, <1>8 DEF Respond, DeleteNode, CommitAttachment
<1>9. ASSUME NEW b \in Bootstraps, StartBootstrap(b) \/ Bootstrap(b) \/ Fail(b)
      PROVE  MintedLeadOut'
  <2>1. ASSUME NEW pc, Goto(b, pc) PROVE MintedLeadOut'
    <3>1. boot' = [boot EXCEPT ![b] = [boot[b] EXCEPT !.pc = pc]]
      BY <1>1, <2>1 DEF Goto
    <3>2. [boot[b] EXCEPT !.pc = pc].minted = boot[b].minted
      BY <1>1 DEF BootTyped
    <3> QED BY <1>5, <3>1, <3>2
  <2>2. CASE StartBootstrap(b) \/ FindConcept(b)
    BY <2>1, <2>2 DEF StartBootstrap, FindConcept
  <2>3. CASE MintConcept(b)
    <3> DEFINE n == Spec(b).concept
               p == Spec(b).parent
    <3>1. NodeFree(n) /\ boot[b].pc = "mint"
      BY <2>3 DEF MintConcept
    <3>2. CASE Exists(n)
      BY <2>1, <2>3, <3>2 DEF MintConcept
    <3>3. CASE ~Exists(n)
      <4>1. boot' = [boot EXCEPT ![b].pc = "series", ![b].minted = With(@, n, p)]
        BY <2>3, <3>3 DEF MintConcept
      <4>2. n \notin DOMAIN boot[b].minted
        BY <3>1 DEF NodeFree, MintedBy
      <4>3. n # p
        BY <3>1, <3>3, <4>2 DEF Inv, Flushed, AtSpec, Known, MintedBy
      <4>4. \A m \in DOMAIN boot[b].minted : boot[b].minted[m] # n
        BY <3>3, <4>2 DEF Inv, Flushed, MintedNew, Known, MintedBy
      <4>5. LeadsOut(With(boot[b].minted, n, p))
        BY <4>2, <4>3, <4>4, LeadsOutOn DEF MintedLeadOut
      <4>6. /\ boot'[b].minted = With(boot[b].minted, n, p)
            /\ \A d \in Bootstraps \ {b} : boot'[d] = boot[d]
        <5> DEFINE minted == With(boot[b].minted, n, p)
        <5>1. boot' = [boot EXCEPT ![b] = [boot[b] EXCEPT !.pc = "series", !.minted = minted]]
          BY <1>1, <4>1
        <5> HIDE DEF minted
        <5>2. [boot[b] EXCEPT !.pc = "series", !.minted = minted].minted = minted
          BY <1>1 DEF BootTyped
        <5> QED BY <1>1, <5>1, <5>2 DEF minted
      <4> QED BY <4>5, <4>6 DEF MintedLeadOut
    <3> QED BY <3>2, <3>3
  <2>4. CASE FindSeries(b)
    <3>1. boot[b].pc = "series" /\ Next1(b).minted = boot[b].minted
      BY <1>1, <2>4, NextSpecTyped DEF FindSeries
    <3> DEFINE seen == SeriesHeldBy(b, Spec(b).series)
               x == CASE seen = NoSeries -> [boot[b] EXCEPT !.pc = "insert"]
                      [] seen = Spec(b).concept -> Next1(b)
                      [] OTHER -> [boot[b] EXCEPT !.pc = "update"]
    <3>2. boot' = [boot EXCEPT ![b] = x]
      BY <2>4 DEF FindSeries
    <3> HIDE DEF seen
    <3>3. x.minted = boot[b].minted
      <4>1. /\ [boot[b] EXCEPT !.pc = "insert"].minted = boot[b].minted
            /\ [boot[b] EXCEPT !.pc = "update"].minted = boot[b].minted
        BY <1>1 DEF BootTyped
      <4>2. x \in {[boot[b] EXCEPT !.pc = "insert"], Next1(b), [boot[b] EXCEPT !.pc = "update"]}
        <5>1. CASE seen = NoSeries
          <6>1. seen # Spec(b).concept
            BY <1>1, <5>1, SpecsTyped
          <6>2. x = [boot[b] EXCEPT !.pc = "insert"]
            BY ONLY <5>1, <6>1
          <6> QED BY <6>2
        <5>2. CASE seen # NoSeries /\ seen = Spec(b).concept
          <6>1. x = Next1(b)
            BY ONLY <5>2
          <6> QED BY <6>1
        <5>3. CASE seen # NoSeries /\ seen # Spec(b).concept
          <6>1. x = [boot[b] EXCEPT !.pc = "update"]
            BY ONLY <5>3
          <6> QED BY <6>1
        <5> QED BY <5>1, <5>2, <5>3
      <4> HIDE DEF x
      <4> QED BY <3>1, <4>1, <4>2
    <3> HIDE DEF x
    <3> QED BY <1>5, <3>2, <3>3
  <2>5. CASE WriteSeries(b)
    <3>1. boot[b].pc \in {"insert", "update"}
      BY <2>5 DEF WriteSeries
    <3>2. BootTyped(Next1(b)) /\ Next1(b).minted = boot[b].minted
      BY <1>1, <3>1, NextSpecTyped
    <3> DEFINE x == [Next1(b) EXCEPT !.attached = With(@, Spec(b).series, Spec(b).concept)]
    <3>3. x.minted = boot[b].minted
      BY <3>2 DEF BootTyped
    <3>4. CASE boot' = [boot EXCEPT ![b] = x]
      BY <1>5, <3>3, <3>4
    <3> QED BY <2>1, <2>5, <3>4 DEF WriteSeries
  <2>6. CASE CommitBootstrap(b) \/ Fail(b)
    BY <1>2, <1>5, <2>6 DEF CommitBootstrap, Fail
  <2> QED BY <1>9, <2>2, <2>3, <2>4, <2>5, <2>6 DEF Bootstrap
<1> QED BY <1>4, <1>7, <1>8, <1>9 DEF TreeNext, treeVars

\* A set that walks stay in after the commit of a bootstrap has lost nothing but
\* minted nodes, which lead out of it, or was one before.
LEMMA CommitClosesNone ==
  ASSUME Inv, MintedLeadOut, NEW b \in Bootstraps, CommitBootstrap(b),
         \A n \in Nodes : WalkEnds(n),
         NEW S \in SUBSET Nodes, NEW n \in S, \A m \in S : up'[m] \in S
  PROVE  FALSE
<1> DEFINE minted == boot[b].minted
           T == S \ DOMAIN minted
<1>1. \A m \in Nodes : up'[m] = IF m \in DOMAIN minted THEN minted[m] ELSE up[m]
  BY CommitRows DEF MintedBy
<1>2. \A m \in T : up[m] \in T
  <2> SUFFICES ASSUME NEW m \in T PROVE up[m] \notin DOMAIN minted
    BY <1>1
  <2>1. up[m] \in S /\ up[m] # NoNode
    BY <1>1
  <2>2. Exists(up[m])
    BY <2>1 DEF Inv, Committed, EdgesExist
  <2> QED BY <2>2 DEF Inv, Flushed, MintedNew, Exists, Kinds
<1>3. T = {}
  BY <1>2 DEF WalkEnds, StaysIn
<1>4. S \in SUBSET DOMAIN minted /\ \A m \in S : minted[m] \in S
  BY <1>1, <1>3
<1> QED BY <1>4 DEF MintedLeadOut, LeadsOut

\* Only a route call or the seed can close a cycle, on which the walks of the
\* routes would not end: what a bootstrap commits hangs below what was there.
THEOREM WalksStillEnd == TreeSpec => BootstrapsCloseNoCycle
<1>1. TreeInit => MintedLeadOut
  BY DEF TreeInit, Fresh, MintedLeadOut, LeadsOut
<1>2. Inv /\ MintedLeadOut /\ [TreeNext]_treeVars => MintedLeadOut'
  BY LeadsOutStep
<1>3. Inv /\ MintedLeadOut /\ [TreeNext]_treeVars =>
        [(\A n \in Nodes : WalkEnds(n)) /\ writes' = writes =>
           \A n \in Nodes : WalkEnds(n)']_treeVars
  <2> SUFFICES ASSUME Inv, MintedLeadOut, TreeNext,
                      \A n \in Nodes : WalkEnds(n), writes' = writes,
                      NEW S \in SUBSET Nodes, NEW n \in S, \A m \in S : up'[m] \in S
               PROVE  FALSE
    BY DEF WalkEnds, StaysIn, treeVars
  <2>1. ASSUME \A m \in Nodes : up'[m] \in {up[m], NoNode} PROVE FALSE
    <3>1. \A m \in S : up[m] \in S
      BY <2>1
    <3> QED BY <3>1 DEF WalkEnds, StaysIn
  <2>2. ~RouteStep
    <3>1. writes \in Nat
      BY DEF Inv, Shapes
    <3> QED BY <3>1 DEF RouteStep, SeedCategories, PostCategory, PatchKind, PostEdge, PatchEdge,
                        DeleteEdge, FetchToDelete, CheckAttachment, Route
  <2>3. ASSUME NEW r \in Requests, Respond(r) PROVE FALSE
    BY <2>1, <2>3 DEF Respond, DeleteNode, CommitAttachment, Inv, Shapes
  <2>4. ASSUME NEW b \in Bootstraps, CommitBootstrap(b) PROVE FALSE
    BY <2>4, CommitClosesNone
  <2>5. ASSUME UNCHANGED up PROVE FALSE
    BY <2>1, <2>5
  <2> QED BY <2>2, <2>3, <2>4, <2>5 DEF TreeNext, StartBootstrap, Bootstrap, Fail, FindConcept,
                                        MintConcept, FindSeries, WriteSeries, Keep, Flush
<1> QED BY <1>1, <1>2, <1>3, InvCorrect, PTL DEF TreeSpec, BootstrapsCloseNoCycle
=============================================================================
