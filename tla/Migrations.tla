------------------------------ MODULE Migrations ------------------------------
(***************************************************************************)
(* The chain of schema revisions (alembic/versions) and the commands that  *)
(* walk it: macrodb db migrate, up or down, every revision of a command in *)
(* one transaction (alembic/env.py), on databases that hold rows.          *)
(*                                                                         *)
(* A revision is the sequence of its statements.  The schema is a set of   *)
(* facts <<table, item, referenced>>: the tables, and of their columns,    *)
(* keys and indexes those that a later revision touches; the others come   *)
(* and go with their table.  The governed columns are those whose CHECK    *)
(* lists change.                                                           *)
(***************************************************************************)
EXTENDS Naturals, FiniteSets, Sequences

CONSTANTS Feeds, Sources, Codes, Runs, None,
          Written,     \* <<column, value>> the application may store
          MaxStores    \* bound: stores by the application

Governed == {"target_type", "action", "validation_status", "proposal_type"}

ASSUME MigrationsAssumption ==
  /\ MaxStores \in Nat /\ None \notin Codes \cup Runs /\ IsFiniteSet(Sources)
  /\ Written \subseteq Governed \X STRING

VARIABLES db,      \* committed: revision and data
          work,    \* the open command: direction, revision and data, or None
          stores
migrationVars == <<db, work, stores>>

Latest == 21
-------------------------------------------------------------------------------
(* Statements *)

Create(t, refs, items) == [op |-> "create", table |-> t, refs |-> refs, items |-> items]
DropTable(t) == [op |-> "drop_table", table |-> t]
Add(t, items) == [op |-> "add", table |-> t, items |-> items]
Drop(t, items) == [op |-> "drop", table |-> t, items |-> items]
AddKey(t, name, u) == [op |-> "add_key", table |-> t, name |-> name, ref |-> u]
RenameTable(t, u) == [op |-> "rename_table", table |-> t, to |-> u]
Rename(t, old, new) == [op |-> "rename", table |-> t, from |-> old, to |-> new]
Check(c, vs) == [op |-> "check", column |-> c, values |-> vs]
Replace(c, old, new) == [op |-> "replace", column |-> c, from |-> old, to |-> new]
Require(what) == [op |-> "require", what |-> what]
Move(what) == [op |-> "move", what |-> what]

Statements ==
  [op : {"create"}, table : STRING, refs : SUBSET (STRING \X STRING), items : SUBSET STRING]
  \cup [op : {"drop_table"}, table : STRING]
  \cup [op : {"add", "drop"}, table : STRING, items : SUBSET STRING]
  \cup [op : {"add_key"}, table : STRING, name : STRING, ref : STRING]
  \cup [op : {"rename_table"}, table : STRING, to : STRING]
  \cup [op : {"rename"}, table : STRING, from : STRING, to : STRING]
  \cup [op : {"check"}, column : Governed, values : SUBSET STRING]
  \cup [op : {"replace"}, column : Governed, from : STRING, to : STRING]
  \cup [op : {"require"}, what : {"a source for each feed", "a code for each source",
                                 "one source for each code", "a code for each tag"}]
  \cup [op : {"move"}, what : {"source of the first member", "only member log of the run",
                              "run of the member log", "no tags"}]

NoRows == [values |-> [c \in Governed |-> {}], filled |-> {}, sourceOf |-> [f \in {} |-> None],
           code |-> [s \in {} |-> None], members |-> {}, logs |-> {}, obs |-> {}]
NewDatabase == [schema |-> {}, allowed |-> [c \in Governed |-> {}], rows |-> NoRows, ok |-> TRUE]

Has(d, t) == <<t, "table", "">> \in d.schema
HasItem(d, t, i) == \E f \in d.schema : f[1] = t /\ f[2] = i
ReferredTo(d, t) == \E f \in d.schema : f[3] = t /\ f[1] # t

\* What rows and the schema must be like for PostgreSQL to accept a statement.
FeedsHaveSources(r) == \A f \in DOMAIN r.sourceOf : r.sourceOf[f] # None
CodesKnown(r) == \A s \in DOMAIN r.code : r.code[s] # None
CodesUnique(r) == \A s, q \in DOMAIN r.code : r.code[s] = r.code[q] /\ r.code[s] # None => s = q

Required(r, what) ==
  CASE what = "a source for each feed" -> FeedsHaveSources(r)
    [] what = "a code for each source" -> CodesKnown(r)
    [] what = "one source for each code" -> CodesUnique(r)
    [] what = "a code for each tag" -> "tags" \notin r.filled

Accepted(d, s) ==
  CASE s.op = "create" -> ~Has(d, s.table) /\ \A u \in s.refs : u[2] = s.table \/ Has(d, u[2])
    [] s.op = "drop_table" -> Has(d, s.table) /\ ~ReferredTo(d, s.table)
    [] s.op = "add" -> Has(d, s.table) /\ \A i \in s.items : ~HasItem(d, s.table, i)
    [] s.op = "drop" -> /\ \A i \in s.items : HasItem(d, s.table, i)
                        /\ ~\E f \in d.schema : f[2] = "view" /\ f[3] = s.table
    [] s.op = "add_key" -> Has(d, s.table) /\ Has(d, s.ref) /\ ~HasItem(d, s.table, s.name)
    [] s.op = "rename_table" -> Has(d, s.table) /\ ~Has(d, s.to)
    [] s.op = "rename" -> HasItem(d, s.table, s.from) /\ ~HasItem(d, s.table, s.to)
    [] s.op = "check" -> d.rows.values[s.column] \subseteq s.values
    [] s.op = "replace" -> s.from \in d.rows.values[s.column] => s.to \in d.allowed[s.column]
    [] s.op = "require" -> Required(d.rows, s.what)
    [] s.op = "move" -> TRUE

\* Mutant: any member log of the run.
MemberOfRun(r, o) ==
  LET logs == {l \in r.logs : l[1] = o.run}
  IN IF logs # {} THEN CHOOSE l \in logs : TRUE ELSE o.member

\* The one member log of the run (0006).
OnlyMemberOfRun(r, o) ==
  LET logs == {l \in r.logs : l[1] = o.run}
  IN IF Cardinality(logs) = 1 THEN CHOOSE l \in logs : TRUE ELSE o.member

\* The first member of the feed by execution order, creation and id (0004).
FirstMember(r, f) ==
  IF \E m \in r.members : m[1] = f THEN (CHOOSE m \in r.members : m[1] = f)[2] ELSE None

Moved(r, what) ==
  CASE what = "source of the first member" ->
         [r EXCEPT !.sourceOf = [f \in DOMAIN @ |-> FirstMember(r, f)]]
    [] what = "only member log of the run" ->
         [r EXCEPT !.obs = {[o EXCEPT !.member = OnlyMemberOfRun(r, o)] : o \in @}]
    [] what = "run of the member log" ->
         [r EXCEPT !.obs = {[o EXCEPT !.run = IF o.member = None THEN None ELSE o.member[1]] : o \in @}]
    [] what = "no tags" -> [r EXCEPT !.filled = @ \ {"tags", "series_tags", "concept_tags"}]

NewSchema(d, s) ==
  CASE s.op = "create" -> d.schema \cup {<<s.table, "table", "">>}
                            \cup {<<s.table, i, "">> : i \in s.items}
                            \cup {<<s.table, u[1], u[2]>> : u \in s.refs}
    [] s.op = "drop_table" -> {f \in d.schema : f[1] # s.table}
    [] s.op = "add" -> d.schema \cup {<<s.table, i, "">> : i \in s.items}
    [] s.op = "drop" -> {f \in d.schema : ~(f[1] = s.table /\ f[2] \in s.items)}
    [] s.op = "add_key" -> d.schema \cup {<<s.table, s.name, s.ref>>}
    [] s.op = "rename_table" ->
         LET as(t) == IF t = s.table THEN s.to ELSE t IN {<<as(f[1]), f[2], as(f[3])>> : f \in d.schema}
    [] s.op = "rename" ->
         {IF f[1] = s.table /\ f[2] = s.from THEN <<f[1], s.to, f[3]>> ELSE f : f \in d.schema}
    [] OTHER -> d.schema

NewRows(d, s) ==
  CASE s.op = "replace" ->
         [d.rows EXCEPT !.values[s.column] = IF s.from \in @ THEN (@ \ {s.from}) \cup {s.to} ELSE @]
    [] s.op = "rename_table" ->
         [d.rows EXCEPT !.filled = {IF t = s.table THEN s.to ELSE t : t \in @}]
    [] s.op = "move" -> Moved(d.rows, s.what)
    [] OTHER -> d.rows

NewAllowed(d, s) ==
  IF s.op = "check" THEN [d.allowed EXCEPT ![s.column] = s.values] ELSE d.allowed

\* What is dropped takes its data along.
Kept(d) ==
  LET has(t) == Has(d, t)
      run(o) == IF HasItem(d, "observations", "ingestion_run_log_id") THEN o.run ELSE None
      member(o) == IF HasItem(d, "observations", "ingestion_run_log_member_id") THEN o.member ELSE None
      source(f) == IF HasItem(d, "ingestion_feeds", "series_source_id") THEN d.rows.sourceOf[f] ELSE None
      kept(t, set) == IF has(t) THEN set ELSE {}
  IN [schema |-> d.schema,
      allowed |-> IF has("change_proposals") THEN d.allowed ELSE NewDatabase.allowed,
      rows |-> [values |-> IF has("change_proposals") THEN d.rows.values ELSE NoRows.values,
                filled |-> {t \in d.rows.filled : has(t)},
                sourceOf |-> IF has("ingestion_feeds")
                               THEN [f \in DOMAIN d.rows.sourceOf |-> source(f)]
                               ELSE NoRows.sourceOf,
                code |-> IF has("series_sources") THEN d.rows.code ELSE NoRows.code,
                members |-> kept("ingestion_feed_members", d.rows.members),
                logs |-> kept("ingestion_run_log_members", d.rows.logs),
                obs |-> kept("observations",
                          {[origin |-> o.origin, source |-> o.source,
                            run |-> run(o), member |-> member(o)] : o \in d.rows.obs})],
      ok |-> d.ok]

Execute(d, s) ==
  IF ~d.ok THEN d
  ELSE IF ~Accepted(d, s) THEN [d EXCEPT !.ok = FALSE]
  ELSE Kept([schema |-> NewSchema(d, s), allowed |-> NewAllowed(d, s),
             rows |-> NewRows(d, s), ok |-> TRUE])

Apply(d, statements) ==
  LET after[i \in 0..Len(statements)] == IF i = 0 THEN d ELSE Execute(after[i - 1], statements[i])
  IN after[Len(statements)]
-------------------------------------------------------------------------------
(* Value lists *)

CatalogTargets == {"series", "series_sources", "ingestion_feeds", "file", "function", "test",
  "providers", "provider_catalogs", "derived_series", "derivation_inputs", "geographies",
  "geography_memberships"}
FamilyTargets == {"series_families", "series_family_members"}
IndicatorTargets == {"indicators", "indicator_variants"}
Targets1 == CatalogTargets \cup FamilyTargets \cup {"concepts", "tags"}
Targets9 == Targets1 \cup {"credential_ref"}
Targets10 == Targets9 \cup {"enum_value"}
Targets14 == (Targets10 \ FamilyTargets) \cup IndicatorTargets
Targets17 == CatalogTargets \cup {"credential_ref", "enum_value"}
Targets18 == Targets17 \cup {"categories"}
Targets20 == Targets18 \cup {"source_groups"}

Actions1 == {"insert", "update", "deactivate", "create_file", "modify_file", "run_test", "validate"}
Actions8 == Actions1 \cup {"suggest_human_apply"}
Actions9 == Actions8 \cup {"suggest_credential_provisioning"}
Actions10 == Actions9 \cup {"suggest_enum_addition"}

Statuses1 == {"pending", "passed", "failed", "warning", "not_required"}
Statuses8 == Statuses1 \cup {"pending_human_apply", "applied_by_operator"}
Statuses9 == Statuses8 \cup {"declined_by_operator"}

Proposals17 == {"add_provider_series", "add_derived_series", "code_and_db_change",
                "schema_change", "mixed"}
Proposals1 == Proposals17 \cup {"add_family", "add_concept"}
Proposals14 == Proposals17 \cup {"add_indicator", "add_concept"}
-------------------------------------------------------------------------------
(* Revisions *)

Key(u) == <<"fk", u>>
Plain(t, refs) == Create(t, {Key(u) : u \in refs}, {})

View == Create("latest_observations", {<<"view", "observations">>}, {})
NoView == DropTable("latest_observations")

ReferenceTables0001 == <<
  Plain("change_proposals", {"change_proposals"}), Plain("concepts", {}),
  Plain("geographies", {"geographies"}), Plain("providers", {}), Create("tags", {}, {"uq_tags_name"}),
  Plain("change_proposal_items", {"change_proposals"}),
  Plain("geography_memberships", {"geographies"}), Plain("provider_catalogs", {"providers"}),
  Plain("series", {"geographies", "series"}),
  Check("proposal_type", Proposals1), Check("target_type", Targets1),
  Check("action", Actions1), Check("validation_status", Statuses1) >>
SeriesTables0001 == <<
  Create("series_families", {<<"series_families_concept_id_fkey", "concepts">>,
                             <<"series_families_geography_id_fkey", "geographies">>},
         {"series_families_pkey", "uq_series_families_code"}),
  Plain("derived_series", {"series"}),
  Create("series_family_members", {<<"series_family_members_family_id_fkey", "series_families">>,
                                   <<"series_family_members_series_id_fkey", "series">>},
         {"series_family_members_pkey", "uq_series_family_members_series_id",
          "family_id", "variant", "is_primary"}),
  Create("series_sources", {Key("provider_catalogs"), Key("series")},
         {"external_code NOT NULL", "uq_series_sources_catalog_external_code"}),
  Plain("series_tags", {"series", "tags"}),
  Plain("computation_run_logs", {"derived_series"}),
  Plain("derivation_inputs", {"derived_series", "series"}),
  Create("ingestion_feeds", {<<"ingestion_feeds_series_source_id_fkey", "series_sources">>},
         {"series_source_id", "series_source_id NOT NULL"}),
  Plain("ingestion_run_logs", {"ingestion_feeds"}),
  Create("observations", {Key("computation_run_logs"), Key("series"),
                          <<"observations_ingestion_run_log_id_fkey", "ingestion_run_logs">>},
         {"ingestion_run_log_id"}) >>
Upgrade0001 == ReferenceTables0001 \o SeriesTables0001
Downgrade0001 == [i \in 1..19 |-> DropTable(
  <<"observations", "ingestion_run_logs", "ingestion_feeds", "derivation_inputs",
    "computation_run_logs", "series_tags", "series_sources", "series_family_members",
    "derived_series", "series_families", "series", "provider_catalogs", "geography_memberships",
    "change_proposal_items", "tags", "providers", "geographies", "concepts", "change_proposals">>[i])]

Upgrade0002 == << View >>
Downgrade0002 == << NoView >>

Upgrade0003 == << Create("series_hierarchy_edges", {Key("series")},
  {"ck_series_hierarchy_edges_no_self_edge", "uq_series_hierarchy_edges_parent_child"}) >>
Downgrade0003 == << DropTable("series_hierarchy_edges") >>

Upgrade0004 == <<
  Add("series_sources", {"ref_url"}),
  Drop("series_sources", {"uq_series_sources_catalog_external_code"}),
  Drop("series_sources", {"external_code NOT NULL"}),
  Drop("ingestion_feeds", {"ingestion_feeds_series_source_id_fkey"}),
  Drop("ingestion_feeds", {"series_source_id", "series_source_id NOT NULL"}),
  Create("ingestion_feed_members", {Key("ingestion_feeds"), Key("series_sources")},
         {"uq_ingestion_feed_members_series_source_id"}) >>
Downgrade0004 == <<
  Add("ingestion_feeds", {"series_source_id"}), Move("source of the first member"),
  Require("a source for each feed"), Add("ingestion_feeds", {"series_source_id NOT NULL"}),
  AddKey("ingestion_feeds", "ingestion_feeds_series_source_id_fkey", "series_sources"),
  DropTable("ingestion_feed_members"),
  Require("a code for each source"), Add("series_sources", {"external_code NOT NULL"}),
  Require("one source for each code"),
  Add("series_sources", {"uq_series_sources_catalog_external_code"}),
  Drop("series_sources", {"ref_url"}) >>

Upgrade0005 == << Create("ingestion_run_log_members",
  {Key("ingestion_feed_members"), Key("ingestion_run_logs")},
  {"uq_ingestion_run_log_members_run_member"}) >>
Downgrade0005 == << DropTable("ingestion_run_log_members") >>

Upgrade0006 == <<
  Add("observations", {"ingestion_run_log_member_id"}),
  AddKey("observations", "observations_ingestion_run_log_member_id_fkey", "ingestion_run_log_members"),
  Move("only member log of the run"), NoView,
  Drop("observations", {"observations_ingestion_run_log_id_fkey"}),
  Drop("observations", {"ingestion_run_log_id"}), View >>
Downgrade0006 == <<
  Add("observations", {"ingestion_run_log_id"}),
  AddKey("observations", "observations_ingestion_run_log_id_fkey", "ingestion_run_logs"),
  Move("run of the member log"), NoView,
  Drop("observations", {"observations_ingestion_run_log_member_id_fkey"}),
  Drop("observations", {"ingestion_run_log_member_id"}), View >>

\* The schema langgraph, with its four tables, indexes and grants.
Upgrade0007 == << Plain("langgraph", {}) >>
Downgrade0007 == << DropTable("langgraph") >>

\* A VARCHAR is made as wide as the longest value before its CHECK is replaced on
\* the way up, and after it on the way down.
Upgrade0008 == << Add("change_proposals", {"source_agent_session_id", "applied_by"}),
  Check("action", Actions8), Check("validation_status", Statuses8) >>
Downgrade0008 == << Check("validation_status", Statuses1), Check("action", Actions1),
  Drop("change_proposals", {"source_agent_session_id", "applied_by"}) >>

Upgrade0009 == << Add("providers", {"auth_scheme", "rate_limit_config"}),
  Check("action", Actions9), Check("target_type", Targets9), Check("validation_status", Statuses9) >>
Downgrade0009 == << Check("validation_status", Statuses8), Check("target_type", Targets1),
  Check("action", Actions8), Drop("providers", {"auth_scheme", "rate_limit_config"}) >>

Upgrade0010 == << Check("action", Actions10), Check("target_type", Targets10),
  Check("validation_status", Statuses9) >>
Downgrade0010 == << Check("validation_status", Statuses9), Check("target_type", Targets9),
  Check("action", Actions9) >>

Upgrade0011 == << Add("series", {"alt_name"}) >>
Downgrade0011 == << Drop("series", {"alt_name"}) >>

Embedding(t) == {"embedding", "embedding_model", "embedding_input_hash",
  CASE t = "concepts" -> "ix_concepts_embedding_hnsw" [] t = "series" -> "ix_series_embedding_hnsw"
    [] t = "series_families" -> "ix_series_families_embedding_hnsw"}
Upgrade0012 == << Add("concepts", Embedding("concepts")),
  Add("series_families", Embedding("series_families")), Add("series", Embedding("series")) >>
Downgrade0012 == << Drop("series", Embedding("series")),
  Drop("series_families", Embedding("series_families")), Drop("concepts", Embedding("concepts")) >>

\* What 0013 renames, and the names it gives.
FamilyNames == <<"series_families_pkey", "uq_series_families_code", "series_families_concept_id_fkey",
  "series_families_geography_id_fkey", "ix_series_families_embedding_hnsw">>
IndicatorNames == <<"indicators_pkey", "uq_indicators_code", "indicators_concept_id_fkey",
  "indicators_geography_id_fkey", "ix_indicators_embedding_hnsw">>
MemberNames == <<"family_id", "variant", "is_primary", "series_family_members_pkey",
  "uq_series_family_members_series_id", "series_family_members_family_id_fkey",
  "series_family_members_series_id_fkey">>
VariantNames == <<"indicator_id", "label", "is_default", "indicator_variants_pkey",
  "uq_indicator_variants_series_id", "indicator_variants_indicator_id_fkey",
  "indicator_variants_series_id_fkey">>
Renames(t, old, new) == [i \in DOMAIN old |-> Rename(t, old[i], new[i])]

Upgrade0013 ==
  << RenameTable("series_families", "indicators"),
     RenameTable("series_family_members", "indicator_variants") >>
  \o Renames("indicator_variants", MemberNames, VariantNames)
  \o Renames("indicators", FamilyNames, IndicatorNames)
Downgrade0013 ==
  Renames("indicator_variants", VariantNames, MemberNames)
  \o Renames("indicators", IndicatorNames, FamilyNames)
  \o << RenameTable("indicator_variants", "series_family_members"),
        RenameTable("indicators", "series_families") >>

\* Widen, move the rows, tighten.
Upgrade0014 == <<
  Check("target_type", Targets10 \cup Targets14), Check("proposal_type", Proposals1 \cup Proposals14),
  Replace("target_type", "series_families", "indicators"),
  Replace("target_type", "series_family_members", "indicator_variants"),
  Replace("proposal_type", "add_family", "add_indicator"),
  Check("target_type", Targets14), Check("proposal_type", Proposals14) >>
Downgrade0014 == <<
  Check("target_type", Targets10 \cup Targets14), Check("proposal_type", Proposals1 \cup Proposals14),
  Replace("target_type", "indicators", "series_families"),
  Replace("target_type", "indicator_variants", "series_family_members"),
  Replace("proposal_type", "add_indicator", "add_family"),
  Check("target_type", Targets10), Check("proposal_type", Proposals1) >>

Upgrade0015 == << Add("tags", {"code"}), Move("no tags"), Require("a code for each tag"),
  Add("tags", {"code NOT NULL"}), Drop("tags", {"uq_tags_name"}), Add("tags", {"uq_tags_code"}) >>
Downgrade0015 == << Drop("tags", {"uq_tags_code"}), Move("no tags"), Add("tags", {"uq_tags_name"}),
  Drop("tags", {"code", "code NOT NULL"}) >>

ConceptTags == Plain("concept_tags", {"concepts", "tags"})
Upgrade0016 == << DropTable("series_tags"), ConceptTags >>
Downgrade0016 == << DropTable("concept_tags"), Plain("series_tags", {"series", "tags"}) >>

Upgrade0017 == << DropTable("concept_tags"), DropTable("indicator_variants"), DropTable("indicators"),
  DropTable("concepts"), DropTable("tags"),
  Check("target_type", Targets17), Check("proposal_type", Proposals17) >>
\* The spine is created again, empty, at the shape it had.
Downgrade0017 == << Check("target_type", Targets14), Check("proposal_type", Proposals14),
  Plain("concepts", {}), Add("concepts", Embedding("concepts")),
  Create("tags", {}, {"code", "code NOT NULL", "uq_tags_code"}),
  Create("indicators", {<<"indicators_concept_id_fkey", "concepts">>,
                        <<"indicators_geography_id_fkey", "geographies">>},
         {"indicators_pkey", "uq_indicators_code"}),
  Add("indicators", {"embedding", "embedding_model", "embedding_input_hash",
                     "ix_indicators_embedding_hnsw"}),
  ConceptTags,
  Create("indicator_variants", {<<"indicator_variants_indicator_id_fkey", "indicators">>,
                                <<"indicator_variants_series_id_fkey", "series">>},
         {"indicator_variants_pkey", "uq_indicator_variants_series_id",
          "indicator_id", "label", "is_default"}) >>

Upgrade0018 == << Create("categories", {}, {"uq_categories_code"}),
  Add("categories", {"embedding", "embedding_model", "embedding_input_hash",
                     "ix_categories_embedding_hnsw"}),
  Create("category_edges", {Key("categories")}, {"uq_category_edges_child_category_id"}),
  Check("target_type", Targets18) >>
Downgrade0018 == << Check("target_type", Targets17), DropTable("category_edges"), DropTable("categories") >>

Upgrade0019 == << Add("series", {"category_id", "is_default"}),
  AddKey("series", "fk_series_category_id_categories", "categories") >>
Downgrade0019 == << Drop("series", {"fk_series_category_id_categories"}),
  Drop("series", {"is_default", "category_id"}) >>

Upgrade0020 == << Plain("source_groups", {"provider_catalogs", "source_groups"}),
  Plain("source_group_members", {"source_groups", "series_sources"}), Check("target_type", Targets20) >>
Downgrade0020 == << Check("target_type", Targets18),
  DropTable("source_group_members"), DropTable("source_groups") >>

Upgrade0021 == << Drop("series", {"is_default"}) >>
Downgrade0021 == << Add("series", {"is_default"}) >>

Upgrades == << Upgrade0001, Upgrade0002, Upgrade0003, Upgrade0004, Upgrade0005, Upgrade0006,
  Upgrade0007, Upgrade0008, Upgrade0009, Upgrade0010, Upgrade0011, Upgrade0012, Upgrade0013,
  Upgrade0014, Upgrade0015, Upgrade0016, Upgrade0017, Upgrade0018, Upgrade0019, Upgrade0020,
  Upgrade0021 >>
Downgrades == << Downgrade0001, Downgrade0002, Downgrade0003, Downgrade0004, Downgrade0005,
  Downgrade0006, Downgrade0007, Downgrade0008, Downgrade0009, Downgrade0010, Downgrade0011,
  Downgrade0012, Downgrade0013, Downgrade0014, Downgrade0015, Downgrade0016, Downgrade0017,
  Downgrade0018, Downgrade0019, Downgrade0020, Downgrade0021 >>
-------------------------------------------------------------------------------
(* Commands and writes *)

\* The database as each revision leaves it when nothing is stored, from the base on.
Chain ==
  LET made[n \in 0..Latest] ==
        IF n = 0 THEN <<NewDatabase>>
        ELSE LET before == made[n - 1] IN Append(before, Apply(before[n], Upgrades[n]))
  IN made[Latest]
AtRevision(n) == Chain[n + 1]

Init == /\ db = [rev |-> 0, data |-> NewDatabase]
        /\ work = None
        /\ stores = 0

Begin(dir) ==
  /\ work = None
  /\ work' = [dir |-> dir, rev |-> db.rev, data |-> db.data]
  /\ UNCHANGED <<db, stores>>

StepUp ==
  /\ work # None
  /\ work.dir = "up" /\ work.data.ok /\ work.rev < Latest
  /\ work' = [dir |-> "up", rev |-> work.rev + 1, data |-> Apply(work.data, Upgrades[work.rev + 1])]
  /\ UNCHANGED <<db, stores>>

StepDown ==
  /\ work # None
  /\ work.dir = "down" /\ work.data.ok /\ work.rev > 0
  /\ work' = [dir |-> "down", rev |-> work.rev - 1, data |-> Apply(work.data, Downgrades[work.rev])]
  /\ UNCHANGED <<db, stores>>

\* Mutant: without the transaction of the command.
CommitAnyway ==
  /\ work # None
  /\ db' = [rev |-> work.rev, data |-> work.data]
  /\ work' = None
  /\ UNCHANGED stores

\* The command's target is the revision at which it commits.
Commit ==
  /\ work # None
  /\ work.data.ok
  /\ db' = [rev |-> work.rev, data |-> work.data]
  /\ work' = None
  /\ UNCHANGED stores

\* A statement refused, or the process gone: nothing of the command stays.
Rollback ==
  /\ work # None
  /\ work' = None
  /\ UNCHANGED <<db, stores>>

\* Between two commands the application stores what the committed schema takes.
Write(rows) ==
  /\ work = None
  /\ stores < MaxStores
  /\ rows # db.data.rows
  /\ db' = [db EXCEPT !.data.rows = rows]
  /\ stores' = stores + 1
  /\ UNCHANGED work

\* Mutant: a column without its CHECK.
ProposeAny(c, v) == Write([db.data.rows EXCEPT !.values[c] = @ \cup {v}])

Propose(c, v) ==
  /\ v \in db.data.allowed[c]
  /\ Write([db.data.rows EXCEPT !.values[c] = @ \cup {v}])

Classify(t) ==
  /\ Has(db.data, t)
  /\ Write([db.data.rows EXCEPT !.filled = @ \cup {t}])

\* A feed for sources that are in no feed; before 0004 for exactly one.
AddFeed(f, ss, codes) ==
  LET rows == db.data.rows
      old == HasItem(db.data, "ingestion_feeds", "series_source_id")
      new == [rows EXCEPT
        !.sourceOf = [g \in DOMAIN @ \cup {f} |->
                        IF g # f THEN @[g] ELSE IF old THEN CHOOSE s \in ss : TRUE ELSE None],
        !.code = [s \in DOMAIN @ \cup ss |-> IF s \in ss THEN codes[s] ELSE @[s]],
        !.members = IF old THEN @ ELSE @ \cup {<<f, s>> : s \in ss}]
  IN /\ Has(db.data, "ingestion_feeds")
     /\ f \notin DOMAIN rows.sourceOf
     /\ ss \cap DOMAIN rows.code = {}
     /\ old => Cardinality(ss) = 1 /\ CodesKnown(new) /\ CodesUnique(new)
     /\ Write(new)

SourcesOf(rows, f) ==
  {m[2] : m \in {m \in rows.members : m[1] = f}}
    \cup (IF rows.sourceOf[f] = None THEN {} ELSE {rows.sourceOf[f]})

\* A run stores an observation of each source, with whatever link to the run the
\* schema has, and a log for each member once there are member logs.
RunFeed(f, r) ==
  LET rows == db.data.rows
      logged == Has(db.data, "ingestion_run_log_members")
      has(i) == HasItem(db.data, "observations", i)
  IN /\ Has(db.data, "observations")
     /\ f \in DOMAIN rows.sourceOf
     /\ \A o \in rows.obs : o.origin # r
     /\ Write([rows EXCEPT
          !.logs = IF logged THEN @ \cup {<<r, s>> : s \in SourcesOf(rows, f)} ELSE @,
          !.obs = @ \cup {[origin |-> r, source |-> s,
                           run |-> IF has("ingestion_run_log_id") THEN r ELSE None,
                           member |-> IF has("ingestion_run_log_member_id") THEN <<r, s>> ELSE None] :
                             s \in SourcesOf(rows, f)}])

Next ==
  \/ \E dir \in {"up", "down"} : Begin(dir)
  \/ StepUp \/ StepDown \/ Commit \/ Rollback
  \/ \E w \in Written : Propose(w[1], w[2])
  \/ \E t \in {"concepts", "series_families", "indicators", "tags"} : Classify(t)
  \/ \E f \in Feeds, ss \in SUBSET Sources : \E codes \in [ss -> Codes \cup {None}] : AddFeed(f, ss, codes)
  \/ \E f \in Feeds, r \in Runs : RunFeed(f, r)

MigrationSpec == Init /\ [][Next]_migrationVars
-------------------------------------------------------------------------------
(* Properties *)

\* What the models and enums of this commit declare.
Tables == {"categories", "category_edges", "change_proposal_items", "change_proposals",
  "computation_run_logs", "derivation_inputs", "derived_series", "geographies",
  "geography_memberships", "ingestion_feed_members", "ingestion_feeds",
  "ingestion_run_log_members", "ingestion_run_logs", "observations", "provider_catalogs",
  "providers", "series", "series_hierarchy_edges", "series_sources", "source_group_members",
  "source_groups"}
Enums == [target_type |-> {"categories", "series", "series_sources", "ingestion_feeds", "file",
            "function", "test", "providers", "provider_catalogs", "derived_series",
            "derivation_inputs", "geographies", "source_groups", "geography_memberships",
            "credential_ref", "enum_value"},
          action |-> {"insert", "update", "deactivate", "create_file", "modify_file", "run_test",
            "validate", "suggest_human_apply", "suggest_credential_provisioning",
            "suggest_enum_addition"},
          validation_status |-> {"pending", "passed", "failed", "warning", "not_required",
            "pending_human_apply", "applied_by_operator", "declined_by_operator"},
          proposal_type |-> {"add_provider_series", "add_derived_series", "code_and_db_change",
            "schema_change", "mixed"}]

\* Whatever way up and down the chain a database came by, and whatever it holds, its
\* schema and value lists are those of its revision; at the head, those of the models.
SchemaOfRevision ==
  /\ \A d \in {db} \cup (IF work # None /\ work.data.ok THEN {work} ELSE {}) :
       /\ d.data.schema = AtRevision(d.rev).schema
       /\ d.data.allowed = AtRevision(d.rev).allowed
  /\ db.rev = Latest =>
       /\ {f[1] : f \in db.data.schema} = Tables \cup {"latest_observations", "langgraph"}
       /\ db.data.allowed = Enums

\* An observation's link to its run (0001-0005) and to its member log (0006 on) may be
\* lost on the way through 0006, and is never that of another run or source.
ProvenanceNeverWrong ==
  \A d \in {db} \cup (IF work # None THEN {work} ELSE {}) : \A o \in d.data.rows.obs :
    /\ o.run \in {None, o.origin}
    /\ o.member \in {None, <<o.origin, o.source>>}

\* A revision is refused only for rows its older or newer schema cannot hold: the
\* proposals that name the retired spine (0017), the values 0008-0010, 0018 and 0020
\* brought on the way down, and at 0004 down a feed or code that has no old form.
BlockedOnlyByRows ==
  work # None /\ ~work.data.ok =>
    LET rows == work.data.rows
        unknown == \E c \in Governed : ~(rows.values[c] \subseteq AtRevision(work.rev).allowed[c])
    IN IF work.dir = "up" THEN work.rev = 17 /\ unknown
       ELSE \/ work.rev + 1 \in {8, 9, 10, 18, 20} /\ unknown
            \/ /\ work.rev + 1 = 4
               /\ ~FeedsHaveSources(rows) \/ ~CodesKnown(rows) \/ ~CodesUnique(rows)
-------------------------------------------------------------------------------
(* What the chain does whatever is stored: closed statements about its text, that *)
(* TLC computes, and from which the properties are proved for every database.     *)

ASSUME StatementsAssumption ==
  \A n \in 1..Latest : Upgrades[n] \in Seq(Statements) /\ Downgrades[n] \in Seq(Statements)

\* On a database without rows every revision is accepted, and its downgrade undoes it;
\* the head is what the models declare.
ASSUME ChainAssumption ==
  /\ AtRevision(0) = NewDatabase
  /\ \A n \in 0..Latest :
       /\ AtRevision(n) = [schema |-> AtRevision(n).schema, allowed |-> AtRevision(n).allowed,
                           rows |-> NoRows, ok |-> TRUE]
       /\ AtRevision(n).allowed \in [Governed -> SUBSET STRING]
  /\ \A n \in 1..Latest : /\ Apply(AtRevision(n - 1), Upgrades[n]) = AtRevision(n)
                          /\ Apply(AtRevision(n), Downgrades[n]) = AtRevision(n - 1)
  /\ {f[1] : f \in AtRevision(Latest).schema} = Tables \cup {"latest_observations", "langgraph"}
  /\ AtRevision(Latest).allowed = Enums

\* The database of a revision with every value its lists allow, and rows in every table.
Fullest(n) ==
  LET at == AtRevision(n)
  IN [schema |-> at.schema, allowed |-> at.allowed,
      rows |-> [values |-> at.allowed, filled |-> {t \in {f[1] : f \in at.schema} : Has(at, t)},
                sourceOf |-> NoRows.sourceOf, code |-> NoRows.code,
                members |-> {}, logs |-> {}, obs |-> {}],
      ok |-> TRUE]

\* The revisions that restrict a value list to less than the rows may hold.
RestrictUp == {17}
RestrictDown == {8, 9, 10, 18, 20}

\* Restricts(ss, lists): the statements say nothing of rows but that they keep to lists.
Restricts(ss, lists) ==
  \A i \in DOMAIN ss :
    /\ ss[i].op \notin {"replace", "require"}
    /\ ss[i].op = "check" => ss[i].values = lists[ss[i].column]

\* The others are accepted on the fullest database, and but for 0004 on the way down
\* require of rows only what they have seen to.
ASSUME RestrictionsAssumption ==
  /\ \A n \in 1..Latest \ RestrictUp : Apply(Fullest(n - 1), Upgrades[n]).ok
  /\ \A n \in 1..Latest \ RestrictDown : Apply(Fullest(n), Downgrades[n]).ok
  /\ \A n \in RestrictUp : Restricts(Upgrades[n], AtRevision(n).allowed)
  /\ \A n \in RestrictDown : Restricts(Downgrades[n], AtRevision(n - 1).allowed)
  /\ \A n \in 1..Latest : \A i \in DOMAIN Upgrades[n] :
       Upgrades[n][i].op = "require" => Upgrades[n][i].what = "a code for each tag"
  /\ \A n \in 1..Latest \ {4} : \A i \in DOMAIN Downgrades[n] : Downgrades[n][i].op # "require"
===============================================================================
