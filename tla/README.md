# Verification of macro_foundry

macro_foundry keeps a catalog of macroeconomic series in PostgreSQL, ingests
observations for them, and lets agents and operators extend the catalog under
governance. This directory holds TLA+ models of the parts whose correctness depends
on more than one actor or more than one step, the TLC configurations that check
them, and TLAPS proofs about them. Paths below are relative to
`src/src/macro_foundry/` unless they start with `docs/`, `CONTEXT.md` or `alembic/`.

- `MC*.tla` and `*.cfg`: small instances for TLC (`tlc -config X.cfg M`).
- `*Proofs.tla`: theorems (`tlapm M.tla`).
- `PROJECT.json`: runs, the seeded defect every property is known to catch, the
  source lines of every definition, hazards and theorems.
- Definitions commented `Mutant` are those seeded defects; nothing else uses them.

## 1. Inventory

| Component | State | Operations | Modelled |
|---|---|---|---|
| Feed execution (`ingestion/runtime/runner.py`) | `ingestion_run_logs`, `ingestion_run_log_members`, `observations` | `execute_feed` in its callers' transactions | `FeedExecution`, `AuditedStore` |
| Observation store (`models/observation.py`, view `latest_observations`, `backend/api/observations.py`) | rows keyed by series, period, vintage | upsert of a feed; the bulk route | `ObservationStore`; the bulk route in `FredPreset` |
| Selectors, calendar, clients (`ingestion/runtime/selectors/`, `calendar.py`, `ingestion/providers/`) | none | `extract`, `prepare_request_params`, period arithmetic | `Selectors`, `Calendar`, `LzString` |
| Governance (`models/governance.py`, `mcp/write_tools.py`) | `change_proposals`, `change_proposal_items` | draft, suggest, decide, apply, mark outcome | partly: `ChangeProposals`; not `mark_proposal_outcome`, `apply_credential_gap_resolutions` |
| Registration, embeddings (`services/`, `cli/embeddings.py`) | embedding columns of series and concepts | register, refresh, backfill | `Embeddings`, `ChangeProposals`, `CategoryTree` |
| MCP server (`mcp/server.py`) | a session per call | `with_read`, `with_write` | partly: its transactions |
| Category tree (`models/category.py`, `backend/api/categories.py`) | categories, edges, `series.category_id` | routes, walks, accretion, attachment | `CategoryTree` |
| Series API, hierarchy edges, derived series | series, edges | CRUD | partly: as the tree, the embeddings and the preset see them |
| CRUD generator (`backend/crud.py`) | none of its own | create, read, patch, delete | partly: in the models of the tables it writes |
| FRED bootstrap (`bootstrap/fred_us_macro.py`) | catalog rows, feeds, overlap windows | prepare, import, reset | `FredPreset`; accretion in `CategoryTree` |
| Seeds (`seed/`) | reference data | seed and reset of five targets | `Seeds`; the taxonomy in `CategoryTree` |
| Migrations (`alembic/`) | the schema | 21 revisions, up and down | partly: `Migrations` |
| Gated onboarding (`depreciated_omit_this_agent/`, `cli/onboard.py`) | a checkpointed thread | 21 graph nodes, CLI loop | partly: `Onboarding`, `GatedApproval` |
| Scoping agent (`onboarding_agent/onboarding_scope.py`) | `AgentState` of a thread | three-node graph | partly: `ScopingGraph` |
| CLI, configuration, sessions | none | the transactions commands open | partly: in the models of the commands |
| Admin pages (`backend/admin/`) | none | forms over the same tables | not modelled |

How they interact. Everything meets in the database. `execute_feed` is called by the
MCP tool and the bootstrap inside a transaction of theirs.
`apply_approved_proposal` calls `register_series`, which embeds. The bootstrap calls
`register_concept_node`, `ensure_series_embedding_current` and `execute_feed`. Seeds,
the backfill, the routes and operators change the same rows without knowing of each other.
Nothing takes an explicit lock (the asyncio lock of `registration.py` serialises the
calls on one session only); sessions run at READ COMMITTED.

What is hard, therefore: reads that are old when they are acted on (the newest vintage,
the approval, the kind of a category, a row of a table without a unique key),
transactions that stay open over network calls, exceptions that leave one item of several
done, the identity map that keeps values a session loaded long ago, rows locked in
different orders, and sessions of an agent that end anywhere and are resumed over a
checkpoint. `PROJECT.json` lists these hazards line by line.

What makes each component correct:

- *Feeds*: a stored value names an attempt that observed it; a committed run log is
  final and covers every active member; nothing of a run is visible before all of it;
  the store answers "what did we know on day d"; runs end.
- *Governance*: a proposal is applied whole and together with its series; a series
  never changes owner.
- *Onboarding*: nothing is written but what an operator approved as it stands and both
  reviews saw; a package does not report a failed run; a message ends.
- *Embeddings*: an embedding that describes another text or comes from another model
  is found by the backfill's predicate, and repaired by a backfill.
- *Category tree*: series hang on concepts; a deletion takes one node; a concept appears
  with its parent and its series; walks end; bootstraps that race all end.
- *FRED preset*: the newest stored value is the provider's wherever the import has asked;
  a reset takes everything or nothing.
- *Seeds*: no target is left empty; a row without a unique key is not seeded twice.
- *Migrations*: the schema depends on the revision only; no observation is linked to a run
  that did not store it; only rows that cannot be held refuse a revision.
- *Selectors*: every selected row becomes one observation or the call fails; periods do not
  overlap; the service reads the query that was written.
- *Scoping*: the verification loop is bounded; every message is answered; a conflict
  does not reach a later message.

## 2. The models

### Feeds: `ObservationStore`, `FeedExecution`, `FeedExecutionHistory`, `AuditedStore`

`ObservationStore` is the table as a function from (series, period, vintage) to a row or
`NoRow`, the overlay by which a transaction reads its own writes, and the latest-view.
`FeedExecution` runs several calls of `execute_feed` for one feed.

| Action | Code |
|---|---|
| `Begin`, `RejectFeed` | load the feed, sort its active members, flush the run log as SUCCESS; the `ValueError`s |
| `RecordFailedMember` | invalid selector config or provider error: a failed member log |
| `ReadMember` | extract, read the newest vintage per period, drop unchanged values, flush the member log |
| `UpsertRow` | the next row of `INSERT ... ON CONFLICT DO UPDATE`, waiting for row locks |
| `Finish` | status and totals of the run log |
| `Commit` | the caller's commit |
| `Raise` | an exception out of a selector, or a key proposed twice; the caller does not commit |
| `Crash`, `BreakDeadlock` | the process dies; PostgreSQL aborts one of a ring of waiters |

The latest-vintage read sees committed rows and the run's own writes, but a row the session
loaded through the `lazy="selectin"` chain of the feed keeps the value it was loaded with
(`Seen`). Assumption: the session is fresh when `execute_feed` is called, as it is in the MCP tool.
The FRED bootstrap calls it in a session that has loaded the series with its observations before; that
caller is modelled in `FredPreset`. Abstracted: timestamps, notes, code version, cadence, period ends.

`FeedExecutionHistory` adds two history variables, the runs another commit overlapped and
whether all commits so far were uncontended, in date order and plain snapshots; they are
the hypotheses of the properties that an overlapped or back-dated run does not have.
`AuditedStore` is the abstract specification: readers see `Publish(r)` steps only, each of
which adds one final run log with consistent member logs, and rows attributed to it.
`FeedExecution` implements it, with the committed tables as they are.

### Governance: `ChangeProposals`

Operators draft inserts (`DraftInsert`), decide and revoke (`ReadForPatch`, then
`WritePatch`, because the route reads the row and writes it later); onboarding tools add
suggestions to a proposal in any status (`RecordSuggestion`). An executor checks the status
(`CheckApproved`), reads the items (`ReadItems`), registers the inserts in order of creation
(`Register`, each as long as an embedding call), flushes the status (`FlushApplied`) and
commits (`CommitApply`), or fails and leaves nothing (`ApplyFails`). Unique codes make a
second insert wait for, then fail on, the first. Assumption: operators follow the documented
lifecycle, though the route would accept any status.

### Gated onboarding: `Onboarding`, `GatedApproval`

The package is retired (ADR 0023 replaces it by the scoping agent) but is the largest
control flow of the repository, and the command that runs it is still there. A node of the
graph is one action: what it returns is merged into the channels `ch`, which are the
checkpoint. A session starts (`StartSession`), the operator writes (`SendMessage`), nodes
run (`RunNode`), the command leaves the invocation (`AfterInvoke`), saves and exits
(`SaveAndExit`) or dies at any node (`ProcessDies`), and the thread is resumed from the first node
over the channels it left. A proposal is the number of its draft and whether a small edit
renamed it. The open transaction `tx` belongs to the command's session and is gone with it;
`selectors` and `packages` are files and stay. `OperatorActs` is what an operator does to
credentials and enums out of band; it is taken while no process runs, which loses nothing,
because a process reads its environment when it starts.

`GatedApproval` is the promise of the human gate: one proposal is under discussion, an
approval is of exactly it and outstanding until it is used by the write or lost with it, and
only what was written is packaged. `Onboarding` implements it with a mapping (`Gate`) from
position and channels to `granted` and from the transaction to `written`.

### Embeddings: `Embeddings`

The text a vector is made of is the row's own fields and the name of its context (the
geography of a series, the parent of a concept); the hash stands for the text. Operators
edit rows and contexts and embed nothing (`EditRow`, `EditContext`, `CreateRow`). A job is a
backfill, or a refresh of one series by the bootstrap: it loads rows (`LoadRows`), composes
an UPDATE per stale row (`Compose`), flushes batches that come back (`FlushRow`) and commits
one table after the other (`CommitTable`). A registration composes, waits and inserts
(`RegisterCompose`, `RegisterCommit`). `UpdateOf` has the detail that matters: SQLAlchemy
writes only columns whose new value differs from the *loaded* one. `moved` and `blind` are
history variables: what others changed since a job loaded, and rows whose last UPDATE moved
them to the current model, left the hash out, and came after such a change. Assumptions: no
hash collisions; the running processes share one `EMBEDDING_MODEL`; rows are not deleted and
concepts not moved to another parent.

### Category tree: `CategoryTree`

Nodes (topics and concepts), at most one parent each, and the node of each series. Three
kinds of writer: the routes (`PostCategory`, `PatchKind`, `PostEdge`, `PatchEdge`,
`DeleteEdge`, and the two that read before they write, `FetchToDelete`/`DeleteNode` and
`CheckAttachment`/`CommitAttachment`), the taxonomy seed (`SeedCategories`), and bootstraps,
which take the curated specs in order (`FindConcept`, `MintConcept`, `FindSeries`,
`WriteSeries`) and commit all of them or nothing (`CommitBootstrap`, `Fail`). A bootstrap goes on with
what its session loaded: its first statement loads the geography with its series and their nodes
(`StartBootstrap`), and a later query returns these as they were then (`KindHeldBy`, `SeriesHeldBy`), until
a series is loaded anew for its embedding (`Reload`). The series are those of this geography, and what is
held stays held. A row inserted under a
unique code or referred to by an open transaction makes others wait (`NodeFree`,
`SeriesFree`, `Referred`). A fetched node is deleted with the edges that were loaded with it: the
session nulls the foreign keys of loaded children, which the NOT NULL columns refuse.
`demoted` is a history variable: nodes that were a concept and are a topic, on which a series may
be left. The walks of the routes are a UNION ALL without a cycle check: a walk goes on forever exactly
if it never leaves some set of nodes (`StaysIn`, `WalkEnds`).

### FRED bootstrap: `FredPreset`

One series of the preset with its lanes (a source, a feed and a member that are made and
deleted together, and are named after the bootstrap that makes them, since each makes at most one), the
provider that releases and revises, imports, triggered runs, route calls and one reset, statement by
statement. An import finds or makes the rows (`FindSeries`, `FindSource` and the steps that insert), resolves the
period from which to ask (`ObservationStart`: an overlap back from the newest stored
period), fetches, compares and upserts. The look-up of the series loads its sources and observations into the
session (`held`), a source that is new since then comes with the rows of its runs (`RowsOfLane`), and all this is before the
request to the provider. The comparison asks which rows there are, but those the session holds have the values they
were loaded with (`Seen`, `Known`). A bootstrap whose series is deleted before it refers to it fails (`Bereft`). A reset reads the ids and deletes observations, member
and run logs, feeds, sources and series one table after the other. `behind` is a history
variable: periods in which the store may differ from the provider, because it has changed them since the last import
asked for them or an import left them behind (`LeftBehind`: behind the window, written under an older date or
beside other writers, or compared with a row that others have overwritten since it was loaded). The store
is the one of `ObservationStore`. The bulk route, the only route that writes observations, is
two actions: `CheckPosted` reads the request (of several rows with one key the first counts, what
refers to nothing is left out), `UpsertPosted` writes what was accepted, after whatever
others committed in between, and is refused as a whole if a reference has gone. The
counts of its answer are kept nowhere and left out.

### Seeds: `Seeds`

`macrodb seed` as the program its options select (`Program`) from the list of the 13 statements a reset
and a seed consist of (`Statements`), executed in order (`todo` holds those that are left) in one
transaction (`Upsert`, `Delete`, `Empty`, `Read`, `Write`, `End`), beside other seeds and the routes.
Categories, geographies and providers have a unique key and are upserted; memberships and
catalogs have none and are read first, written later. A statement waits for the row locks
of others (`WaitsFor`); a ring is broken by aborting one (`Deadlock`); a command fails or is
killed anywhere. Abstractions: one curated row stands for those that every statement treats
alike, and a statement locks its rows at once.

### Migrations: `Migrations`

The 21 revisions as sequences of statements, in both directions, executed by a command that
goes up or down in one transaction (`alembic/env.py`), on databases that hold rows: proposals
with values of the governed columns, rows of the retired spine, feeds with their sources,
runs and observations. The schema is the set of tables and of those columns, keys and
indexes that a later revision touches. `Accepted` says when PostgreSQL refuses a statement, `Execute`
what it does, `Kept` what a DROP TABLE or ALTER TABLE takes with it; `Apply` is a whole revision and
`Chain` the database each revision leaves when nothing is stored. Stores between commands are bounded
by `MaxStores`. Widths of VARCHAR columns are abstracted. Rows are written between
commands only: a revision takes an exclusive lock on what it changes.

What the model keeps of the chain, as the code has it: 0004 up drops the sources of feeds
without making members, so a downgrade of those feeds is refused; the link of an observation
whose run has no or several member logs is lost in 0006; 0015, 0016 and 0017 delete rows by
design.

### Selectors: `Selectors`, `Calendar`, `LzString`

`extract` of the four selectors reads the rows of an answer one by one (`ReadRow`), each row as
what the selector finds in it, and returns (`Return`). Dates, values and vintages are abstracted to the way in which they
are written, which decides whether a selector reads them; one it cannot read ends the call. `Calendar` is the arithmetic of periods
on real dates, leap years included. `LzString` is CenStatD's compression, one character at a
time, and the decompression of the service (external), one code at a time. Characters have one byte, as in
what `json.dumps` writes, so the code of two-byte characters (1) is never written. `FeedExecution`
takes the outcomes of these calls as its inputs.

### Scoping: `ScopingGraph`

The nodes `clarify_with_user`, `verify_identifier` and `write_series_brief` over the state
that the thread keeps between messages. Model answers are nondeterministic; texts are
abstracted to the turn they were written in; a failing model call ends the turn and keeps
what completed nodes wrote.

## 3. The runs

| Run | Instance | Shows |
|---|---|---|
| `feed_outcomes` | 2 runs, a primary and a backup member of one series, 2 days; success, refusal, exception, duplicate key, inactive members, crashes | `ProvenanceSound`, `AuditComplete`, `ImplementsAuditedStore`, `CountsAreReal`, `UncontendedRunIsLatest` |
| `feed_snapshots` | 3 interleaved runs over 3 days, a value and its revision | `PointInTime`, `OnlyRevisionsStored`, `RevisionsAppend` |
| `feed_liveness` | runs that upsert the same rows in equal and in opposite orders | `NoCircularWait`, `EveryRunEnds` |
| `proposals` | 2 proposals, 3 items, 2 codes, 2 executors, 1 pending PATCH | `AppliedAsAWhole`, `RegisteredOnce`, `SeriesComeWithTheirProposal` |
| `onboarding` | 2 messages, 2 drafts, a provider and an enum that may be missing, 15 supersteps, cost and review caps within reach | `ReviewedAsApproved`, `PackagesHaveARun`, `ImplementsGatedApproval`, `EveryMessageEnds` |
| `embeddings` | a series and a concept, 2 names, 2 jobs, 2 edits, an earlier model | `StalenessDetectableUnlessBlind`, `BackfillRepairs` |
| `catalog` | 2 bootstraps of 2 concepts and series under a 2-level taxonomy, 1 pending request, 3 route calls | `TopicSeriesOnlyByDemotion`, `DeletionTakesOnlyTheNode`, `MintedWithItsSeries`, `BootstrapsCloseNoCycle`, `EveryBootstrapEnds` |
| `fred_preset` | 2 imports, a triggered run, a reset, 3 periods, 1 release, 1 bulk request of two rows or other route call | `TypeOK` (with every foreign key), `CurrentUnlessBehind`, `ResetIsAllOrNothing`, `ResetEnds` |
| `seeds` | 2 runs of 6 kinds (full, with reset, restricted, dry), 2 route calls | `SharedTargetSerializes`, `NoTargetEmptied`, `EveryRunEnds` |
| `migrations` | all 21 revisions; a feed, 2 sources, a code, a run, 11 governed values, 2 stores; and what the chain does on the empty and on the fullest database of each revision | `SchemaOfRevision`, `ProvenanceNeverWrong`, `BlockedOnlyByRows` |
| `selectors` | 4 selectors, answers of 2 rows odd in one way, every frequency; texts over 2 and 3 characters and a query as serialized | `ExtractsTheSelectedRows`, `PeriodsPartitionDates`, `QueryReadBack` |
| `scoping` | 5 messages, cap 2 | `BouncesBounded`, `ConflictOutlivesOnlyGivenUp`, `EveryMessageAnswered` |

Bounds and why they are enough. The feed properties are about pairs of writers of one key;
two runs give every interleaving of a pair, a third (`feed_snapshots`) gives "value, revision,
earlier value again" over three days. Two periods are needed for lock order, two members for
partial failure and for two sources of one series. Two executors and two proposals that share a
code are the smallest case in which one waits for the other; the third item gives a proposal
with two inserts. Two drafts and two messages are what it takes to approve one draft, redraft, and
resume a thread with an approval, a script and a run of the earlier one; 15 supersteps let the
longest approved path end and the unbounded loops of the graph be cut. One row per table and batch
is enough for the backfill because rows do not interact but through the order of the tables; a
second edit lets a row or its context change again, or change back. Two bootstraps with two shared
concepts can each hold what the other waits for; three route calls demote a node, move it and close a
cycle. For the preset, three periods let an overlap of one leave a period behind; two
imports and a reset are the smallest ring. Two seeds with two route calls give a duplicate, its
deletion and a reset in between. Two rows of an answer are enough because a row's reading depends
on no other row but through the failure of the whole. Texts of up to 7 characters over 2 codes and up to 4 over 3
pass the first two widenings of the code width, and the serialized query passes the later ones. The
cap of 2 with 5 messages lets the counter pass the cap and stay there.

`MaxEdits`, `MaxTurns`, `MaxWrites`, `MaxStores`, `MaxReleases`, `MaxRoutes`, `MaxMessages`, `MaxDrafts` and the sets
of runs, executors, jobs and bootstraps are the bounds on behaviour; the proofs hold for any value of them.

Two properties state their exceptions. `NoCircularWait` holds of runs whose payloads list periods in calendar
order and among whose active members no two feed one series. Either condition is needed: with a payload in
another order, or with a run that imports a series by another member than the rest, two runs lock the same rows
in opposite orders, and PostgreSQL fails one (`feed_liveness` has such runs, and `EveryRunEnds` covers them).
`NoTargetEmptied` names two ways in which a committed reset does leave a target empty: `--only geographies`
takes the memberships along by cascade, and a reset that finds a row which was added after it emptied the table
inserts none, although a route may delete that row before the reset commits (it takes three route calls,
one more than the run `seeds` has: the attempt at the proof found it, not the run).

`CHECK_DEADLOCK FALSE` is set where the system may come to rest: all runs ended, no edits left,
the user stops writing. That nobody waits forever is stated where it matters (`NoCircularWait`,
`EveryRunEnds`, `EveryMessageAnswered`, `EveryMessageEnds`, `EveryBootstrapEnds`, `ResetEnds`).

Fairness. Weak fairness of each process's own steps, everywhere for the same reason: the event loop
resumes a coroutine that can continue, and PostgreSQL's deadlock detector acts on a ring of waiters
(it runs after `deadlock_timeout`). So `Work(r)` of a feed run, `Bootstrap(b)` and `Respond(r)`
of the catalog, `Work(j)` and `ResetWork` of the preset, `Step(r)` of a seed, the next node of the two
graphs (LangGraph schedules it; the model clients have timeouts). Starting anything, crashing, failing,
a provider's release, an operator's message or act are never fair. In `Onboarding` the fair action is
the disjunction of running the node and of the process ending, since nothing obliges it to stay alive;
the recursion limit of LangGraph is what ends an invocation.

## 4. What is proved

All proofs hold for every value of the constants: any number of series, members, runs, items, executors, rows,
jobs, messages, drafts, nodes, bootstraps, seeds, stores. They use only the named assumptions:

- on constants (`MembersAssumption`, `TreeAssumption`, `PresetAssumption`, `SelectorsAssumption`,
  `SeedsAssumption`, `MigrationsAssumption`, ...): finiteness or numbering, that `NULL`-like values differ from the
  rest, that the parent of a seeded node is seeded, that no series has two specs, that serialized queries are of one-byte characters. TLC evaluates them in the runs.
- on the text of the revisions (`StatementsAssumption`, `ChainAssumption`, `RestrictionsAssumption`, at the end of
  `Migrations`). These are closed: no constant of an instance occurs in them but `None`, and that only as a value
  outside of an empty table. They say what 42 given sequences of statements do on 44 given databases, which is
  a computation and not an argument, so TLC does it in every run of the module and the proofs go on from there.

| Module | Theorems | Argument |
|---|---|---|
| `FeedExecutionProofs` | `TypeCorrect`; `InductiveCorrect`, `ProvenanceIsSound`, `AuditIsComplete`, `Refinement` | `Inductive` adds to the two properties what an *open* run must satisfy for its commit to keep them: `Accounted` (drafts and tally agree), `Finalised` (the drafted status is the one the drafts call for), `Attributed` (a written row names a drafted success that observed it), `AtRest` (nothing is left of an ended run). Without it the properties say nothing of uncommitted work, and `Commit` could not be shown to keep them. |
| | `NoRingOfWaits` | runs attempt members in one order and lock rows in payload order, so whoever is waited for is further on than the waiter; in a ring of waits the run that is furthest on would wait for one still further |
| | `HistoryCorrect`, `HistoryReadsBack`, `HistoryStoresRevisions`, `HistoryAppends`, `UncontendedIsLatest`, `CountsCorrect` | `HistoryInductive`: what an uncontended open run has seen is what is committed, so what it holds are the revisions of exactly what it observed. In an orderly history all dates before the newest are closed, hence reading back, appending and "every vintage differs from the one before" go through a commit together. Counts: a member log's counts are totals over its upserted rows, and totals over disjoint parts add. |
| `ChangeProposalsProofs` | `TypeCorrect`, `ProposalsAppliedWhole`, `SeriesKept`, `SeriesAppearWithProposal` | items are numbered without gaps, so what an executor has read is closed under "drafted before" (`ReadsPrefix`) although items may be added later; a code held by one executor is held by no other and not committed (`HoldsCodes`) |
| `OnboardingProofs` | `TypeCorrect`, `ReviewedCorrect`, `PackagesCorrect`, `GateCorrect` | by stages of the graph: the proposal under discussion is the latest draft (`LatestDraft`); what is about to be approved was scripted, validated and reviewed as it is (`Vetted`); what is executed is in the open transaction (`Executing`); the thread's run log is of an earlier draft until the latest one is run (`RunOfDraft`). The refinement has one step per node, and most of them are a stutter or `Revise` of the gate. |
| | `ScopingTyped`, `BackEdgeBounded`, `ConflictGivenUp` | the scoping graph: bounces are counted, and a conflict in the slot is accounted for at every node |
| `EmbeddingsProofs` | `TypeCorrect`, `PassedOverIsCurrent`, `BackfillRepairsRows`, `OneModelDetectable` | `Described`: outside `blind`, a vector is that of the hash and model beside it; `JobSound`: what a job loaded, composed or found current still holds for rows not in `moved`, and rows never lose the current model, so a left-out model column is right. Without an earlier model (`OldModels = {}`) whatever is stale has another hash (`OneModelInv`), so every UPDATE writes it and no row is exempt |
| `CatalogProofs` | `TypeCorrect`, `SeriesOnConcepts`, `DeletionCorrect`, `MintedTogether`, `WalksStillEnd` | the tree. `Committed`: edges and series refer to nodes that are there, series to nodes that are or were concepts, and so do requests after their check. `Flushed`: a minted node is not in the tables and nobody else's, its parent is known to its bootstrap, what a bootstrap has attached or is at is held by it. Both are needed together: the commit turns the second into the first, and a deletion may not break either. `Loaded`: a node that a session holds as a concept is or was one, and its series are on nodes that are there. `MintedTogether` adds that each minted node has its series or its bootstrap is at it (`MintedForSeries`). `WalksStillEnd`: from a minted node the way up leads out of every set of minted nodes (`MintedLeadOut`), so a commit closes no cycle. |
| | `SchemasCorrect`, `ProvenanceCorrect`, `RefusalsCorrect` | the schema. A revision runs side by side on the database at hand and on one TLC has computed (`SideBySide`): `Like` keeps their schemas and lists equal, and whatever one accepts and the other refuses is refused for its rows. Against the empty database of the revision this gives the schema; against the fullest one, that revisions that narrow nothing are never refused for values or rows. Links: what 0006 finds for an observation whose run has exactly one member log is its own, because a run that has logs has one for each of its observations (`LoggedTogether`). |
| `FredPresetProofs` | `PresetCorrect`, `PresetTyped`, `PresetIsCurrent`, `ResetRemovesAll` | a deleted feed is locked and every source that is there has a run log, so a reset that got as far as the series has seen every source (`ResetInv`, `LanesInv`); the window of an import whose source is still there covers the overlap (`Covers`), its answer is what the provider serves but for what was released since (`AnswerOf`), and what it will write is this answer's revision of what its session knows (`Prepared`), which is what the store says except in periods that `LeftBehind` names |
| `SelectorsProofs` | `PeriodContainsItsDate`, `PeriodsPart`, `CallsAreRead`, `EverySelectedRow`, `ListingsPart` | for every date a period's bounds are dates and contain it, and every day of a period has this period, so two periods of one frequency, weekly apart, that share a day are equal; a call has observed exactly the selected rows among those it has read, in their order (`CallInv`) |
| | `RequestsAreCompressed`, `QueriesReadBack` | the two sides of the compression in step, see below |
| `SeedsProofs` | `SeedsCorrect`, `SeedsSerialize`, `SeedsKeepTargets` | a run's statements left are an end of its program and what it holds is what those before have written; no two open runs have written one row, so of two runs that upsert a common target the second reads the list after the first has ended, and finds its row |

The compressed query. Compressor and decompressor build one dictionary, the second a code later, and both must widen
their codes at the same one. `Compressor` is what holds of the first alone: every code is below the size, the characters
of every string are strings, a character that waits to be announced begins no other string, and size and codes left add up to
the next power of two, so every code fits its width. `InStep` relates the two when all that is written has been read:
equal widths and counts, every string with its code in the entries but for the characters to be announced and the string
that the last one read begins (`KnownRead` shows why a decompressor that meets this string's code can make it up).
The decompressor runs after the compressor has ended, on bits some of which are written later, so the invariant of the
compression (`Follows`) quantifies over all ways to go on: over every sequence of bits that begins with those written so far
there is a set of decompressors, from the first to one in step, that have read nothing but the text. Once the query is
finished this set, with the end mark's, is closed under `Decompress` (`Serves`), which is the invariant while the service
reads. Below this are the lemmas on numbers: `TwoTo`, halving and doubling are recursions over `0..n`, each shown to be
what its equations say by a least counterexample (`Recursion`), and then bits written the lowest first and read the highest
first give the value again (`ValueReadBack`), and six bits a character the same bits (`CharsReadBack`).

TLC checked each invariant, or the property it is for, before it was proved. Each proof has a lemma per action or
stage, and a frame lemma for the actors a step does not touch (`RunFrame`, `JobKept`, `Quiet`).

Every safety invariant and action property of the runs is proved. Only model-checked is liveness (`EveryRunEnds` of feeds and
of seeds, `EveryBootstrapEnds`, `ResetEnds`, `EveryMessageEnds`, `EveryMessageAnswered`): fairness and ENABLED are out of
TLAPS' reach. So is induction over data by the library's theorems; the inductions that were needed, along the statements of a
revision, the rows of an answer or the bits of a value, are done by a least counterexample, which exists because < is
well-founded on the naturals, or by an invariant of the steps.

## 5. Disagreements between code and documents

Met while modelling; the models follow the code.

Feeds
1. `CONTEXT.md` has every attempt leave a run log. An exception of a selector leaves `execute_feed`
   (`runner.py:78`), the caller does not commit, and the flushed run log is gone with it.
2. `CONTEXT.md` (vintages) has both versions stored. A provider vintage equal to the newest
   stored value is skipped whatever its own date (`runner.py:156`), so a read as of that date misses it.
3. `mcp/server.py:171` passes no payload to `trigger_feed_execution`, so every execution an agent
   triggers is refused. `Start` stands for the callers that pass one.

Governance
4. `docs/series_onboarding_workflow.md` lets the operator revoke an approval until the rows are committed. The status
   is compared once, before the embedding calls, and overwritten with APPLIED (`mcp/write_tools.py:121`).
   ADRs 0014 and 0016 also set the proposal of a suggestion to `applied` or `rejected` with its item;
   `mark_proposal_outcome` (`mcp/write_tools.py:371`) and the admin action stamp `applied_at` and leave the status.

Embeddings
5. ADR 0020 calls staleness mechanically detectable. After a change of the embedding model: a job loads a
   row whose hash is right and whose model is old; another embeds the row's edited text and commits;
   the first writes its vector of the old text and leaves out the hash, which equals what it loaded
   (`services/embeddings.py:150`). The row then has the current model, the hash of the new text
   and the vector of the old one, and no backfill looks at it again. These are the rows in `blind`;
   as long as there was one model there are none (`OneModelDetectable`).

Scoping
6. A comment in `onboarding_scope.py` says that neither branch can leak the flag to the next turn. A conflict
   found at the cap is stored on the way to the brief (`:206`), and the next message is clarified with it.

Category tree
7. ADR 0025 has a strict tree. Edges a->b and b->a are each accepted (`models/category.py:60`), the
   seed can put a node back under a parent that is below it by now (`seed/runners/categories.py:78`), and
   the walks do not end on a cycle (`backend/api/categories.py:56`).

FRED bootstrap
8. `docs/fred_bootstrap_plan.md` lets an operator override the overlap of a feed; the next bootstrap writes its own
   value over it (`fred_us_macro.py:917`).
9. A bootstrap compares an answer with the rows it loaded before it asked (`registration.py:141`, `runner.py:156`). If another
   writer replaces one of them in place meanwhile and the provider serves the old value, the row is skipped as
   unchanged and the store keeps the other value until a later bootstrap whose window covers the period.
10. A bootstrap re-activates what an operator deactivated. Bootstraps that race can insert two sources for
   one code. A stored observation of a future period, which the routes accept, moves the import window
   past periods that were never asked for. A reset deletes feeds that never ran although another
   series has a member in them.

Seeds
11. `docs/architecture.md` calls re-running a seed safe. Two seeds with `--only geography_memberships`
    or `--only provider_catalogs` at once, or two POSTs, make duplicates, after which every later
    seed raises. `SharedTargetSerializes` says that runs which upsert a common target first do not.
12. `--reset --only geographies` takes the memberships with it by cascade and does not seed them again.

Selectors
13. `ingestion/runtime/README.md` names the World Bank, whose answers are arrays, among the providers `json_path`
    suits, and calls silently writing zero rows the worst outcome. No path reaches into an array (`json_path.py:96`)
    and no error is looked for in one (`:122`): such an answer, an error's included, counts as empty. A decimal NaN (`json_path.py:115`) equals nothing stored, so it is a new vintage in every run. e-Stat's annual and
    fiscal codes and dates with dashes raise and end the whole run. `prepare_request_params` has no
    caller in `src/`.

Gated onboarding
14. Refusing a credential gap returns to `research`, where ADR 0016 has it end. `executor.py` promises
    "exactly once"; the command never commits, so packaged rows are rolled back while the package stays. The
    cap on script retries of the docstring is not counted. `review_cycle` is off by one between bundles,
    `permit_further_cycle` leads to END, a probe that answers `{"ok": False}` is taken as passed, and
    `checkpoint_position` and `abort_reason` are never cleared. A failed test unlinks the selector of that
    name even if it was there before. The default wiring injects no verifier, resolver or uniqueness checker and
    imports a package that is gone (`macro_foundry.agent`), so the graph runs only with injected ones.

## 6. Not modelled, and why

- `mark_proposal_outcome` and `apply_credential_gap_resolutions` stamp items an operator applied by hand.
  `propose_create_series` is disabled in the code, `bootstrap/debug_smoke.py` only raises.
- Admin pages are forms over the same tables; their one action (`backend/admin/views/governance.py:104`) stamps
  suggestions as `mark_proposal_outcome` does.
- Settings, logging, listing routes and MCP read tools change no state of their own; validation in
  schemas is part of the actions whose inputs it limits.
- Prompts, notebooks, retrieval, and the HTTP of clients are language-model and network I/O: their answers are
  nondeterministic inputs. Curated data (`seed/data/`) is represented by one row per kind of treatment.
- Computed series have routes of plain rows and, in this commit, no computation.

## 7. Plan

What exists was built in this order: the feed core with its refinement; scoping; proposals;
embeddings; onboarding; category tree; FRED preset; migrations; selectors and calendar; seeds; then the
proofs of their safety properties. Worth doing next, in this order:

1. `mark_proposal_outcome` and `apply_credential_gap_resolutions` in `ChangeProposals`, and their proofs.
2. `FredPreset` composed with `FeedExecution` for several members, instead of its one-member run: a refinement
   whose mapping takes a job of the preset to a run of the feed.
