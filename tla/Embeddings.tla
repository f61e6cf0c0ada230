------------------------------ MODULE Embeddings ------------------------------
(***************************************************************************)
(* Embeddings of series and concepts.  A row is embedded when it is        *)
(* registered; operators edit rows and what the recipe takes from others   *)
(* (the geography of a series, the parent of a concept) without embedding  *)
(* anything; macrodb embeddings backfill and the bootstrap find the rows   *)
(* whose embedding no longer describes them and embed those again.         *)
(*                                                                         *)
(* A job loads rows, waits for the embedding service, and then writes only *)
(* the columns whose new value differs from the value it loaded: an UPDATE *)
(* of SQLAlchemy's unit of work.                                           *)
(***************************************************************************)
EXTENDS Integers, FiniteSets

CONSTANTS Rows,        \* series and concept nodes
          TableOf,     \* 1: series, 2: categories
          Contexts,    \* geographies and parent categories
          ContextOf,   \* the one a row's recipe names
          Names,       \* what may be written in a row or a context
          Jobs,        \* backfills and embed-on-write calls
          Current,     \* EMBEDDING_MODEL of the running program
          OldModels,   \* models that earlier releases embedded rows with
          None,        \* NULL
          Keep,        \* a column an UPDATE leaves out
          MaxEdits     \* bound on the edits of operators

Tables == {1, 2}
Models == OldModels \cup {Current}
\* The composed text: the row's own fields and the name of its context.
Texts == Names \X Names
Vectors == Texts \X Models

\* embedding, embedding_model, embedding_input_hash; the hash stands for its text.
Columns == [vector : Vectors \cup {None}, model : Models \cup {None}, hash : Texts \cup {None}]
Updates == [vector : Vectors, model : {Current, Keep}, hash : Texts \cup {Keep}]
Unembedded == [vector |-> None, model |-> None, hash |-> None]
Embedded(text, model) == [vector |-> <<text, model>>, model |-> model, hash |-> text]
Loads == [own : Names, columns : Columns]

ASSUME TablesAssumption == TableOf \in [Rows -> Tables] /\ ContextOf \in [Rows -> Contexts]
ASSUME NoneAssumption ==
  /\ None \notin Names /\ None \notin Models /\ None \notin Texts /\ None \notin Vectors
  /\ None \notin Loads /\ None \notin Updates
ASSUME KeepAssumption == Keep \notin Texts /\ Keep \notin Models
ASSUME ModelsAssumption == Current \notin OldModels
ASSUME MaxEditsAssumption == MaxEdits \in Nat

VARIABLES own,       \* own fields of each row, None: no such row
          name,      \* name of each context
          stored,    \* committed embedding columns
          edits,     \* edits of operators so far
          pc,        \* where each job is
          loaded,    \* the rows a job has read
          update,    \* the UPDATE it has composed for each stale row
          flushed,   \* rows it has written and not committed
          moved,     \* rows that others have changed since it read them
          blind      \* rows whose last UPDATE moved them to the current model,
                     \* left the hash out and came after such a change

catalog == <<own, name, stored, edits>>
jobs == <<pc, loaded, update, flushed>>
history == <<moved, blind>>
vars == <<catalog, jobs, history>>

Exists(r) == own[r] # None
TextOf(r) == <<own[r], name[ContextOf[r]]>>

\* The predicate of a backfill, and the only one there is.
Stale(columns, text) ==
  columns.vector = None \/ columns.model # Current \/ columns.hash # text

\* A backfill embeds and commits the tables one after the other.
Embedding == [k \in Tables |-> IF k = 1 THEN "embedding series" ELSE "embedding categories"]
Phases == {"idle", "loaded", "registering", "done", "failed", Embedding[1], Embedding[2]}

TypeOK ==
  /\ own \in [Rows -> Names \cup {None}]
  /\ name \in [Contexts -> Names]
  /\ stored \in [Rows -> Columns]
  /\ edits \in 0..MaxEdits
  /\ pc \in [Jobs -> Phases]
  /\ loaded \in [Jobs -> [Rows -> Loads \cup {None}]]
  /\ update \in [Jobs -> [Rows -> Updates \cup {None}]]
  /\ flushed \in [Jobs -> SUBSET Rows]
  /\ moved \in [Jobs -> SUBSET Rows]
  /\ blind \subseteq Rows
  /\ \A r \in Rows : ~Exists(r) => stored[r] = Unembedded

Nobody == [j \in Jobs |-> [r \in Rows |-> None]]

\* A catalog some release has embedded completely, or rows nobody embedded yet.
Init ==
  /\ name \in [Contexts -> Names]
  /\ own \in [Rows -> Names \cup {None}]
  /\ stored \in [Rows -> {Unembedded} \cup {Embedded(t, m) : t \in Texts, m \in Models}]
  /\ \A r \in Rows : stored[r] # Unembedded => Exists(r) /\ stored[r].hash = TextOf(r)
  /\ edits = 0
  /\ pc = [j \in Jobs |-> "idle"]
  /\ loaded = Nobody
  /\ update = Nobody
  /\ flushed = [j \in Jobs |-> {}]
  /\ moved = [j \in Jobs |-> {}]
  /\ blind = {}

-----------------------------------------------------------------------------
(* Operators: rows and contexts change, embeddings do not. *)

Locked(r) == \E j \in Jobs : r \in flushed[j]

\* Rows R have changed under the other jobs.
MovedFor(R, others) == [j \in Jobs |-> IF j \in others THEN moved[j] \cup R ELSE moved[j]]

EditRow(r, n) ==
  /\ edits < MaxEdits
  /\ Exists(r) /\ n \in Names \ {own[r]}
  /\ ~Locked(r)
  /\ own' = [own EXCEPT ![r] = n]
  /\ edits' = edits + 1
  /\ moved' = MovedFor({r}, Jobs)
  /\ UNCHANGED <<name, stored, jobs, blind>>

EditContext(c, n) ==
  /\ edits < MaxEdits
  /\ n \in Names \ {name[c]}
  /\ name' = [name EXCEPT ![c] = n]
  /\ edits' = edits + 1
  /\ moved' = MovedFor({r \in Rows : ContextOf[r] = c}, Jobs)
  /\ UNCHANGED <<own, stored, jobs, blind>>

\* POST /series and POST /categories embed nothing.
CreateRow(r, n) ==
  /\ edits < MaxEdits
  /\ ~Exists(r) /\ n \in Names
  /\ own' = [own EXCEPT ![r] = n]
  /\ edits' = edits + 1
  /\ moved' = MovedFor({r}, Jobs)
  /\ UNCHANGED <<name, stored, jobs, blind>>

-----------------------------------------------------------------------------
(* Jobs *)

\* A backfill loads every row, an embed-on-write refresh one series.
Scopes == {Rows} \cup {{r} : r \in {q \in Rows : TableOf[q] = 1}}

LoadRows(j, scope) ==
  /\ pc[j] = "idle"
  /\ pc' = [pc EXCEPT ![j] = "loaded"]
  /\ loaded' = [loaded EXCEPT ![j] = [r \in Rows |->
       IF r \in scope /\ Exists(r) THEN [own |-> own[r], columns |-> stored[r]] ELSE None]]
  /\ moved' = [moved EXCEPT ![j] = {r \in Rows : r \notin scope \/ ~Exists(r)}]
  /\ UNCHANGED <<catalog, update, flushed, blind>>

\* Mutant: the model a vector comes from is not recorded.
UpdateForgettingModel(columns, text) ==
  [vector |-> <<text, Current>>, model |-> Keep,
   hash |-> IF columns.hash = text THEN Keep ELSE text]

\* Columns that keep the value they were loaded with are left out.
UpdateOf(columns, text) ==
  [vector |-> <<text, Current>>,
   model |-> IF columns.model = Current THEN Keep ELSE Current,
   hash |-> IF columns.hash = text THEN Keep ELSE text]

\* The names of the contexts are read by a statement of their own.
Compose(j) ==
  /\ pc[j] = "loaded"
  /\ update' = [update EXCEPT ![j] = [r \in Rows |->
       IF loaded[j][r] = None THEN None
       ELSE LET text == <<loaded[j][r].own, name[ContextOf[r]]>>
                columns == loaded[j][r].columns
            IN  IF Stale(columns, text) THEN UpdateOf(columns, text) ELSE None]]
  /\ pc' = [pc EXCEPT ![j] = Embedding[1]]
  /\ loaded' = [loaded EXCEPT ![j] = Nobody[j]]
  /\ UNCHANGED <<catalog, flushed, history>>

Pending(j, k) == {r \in Rows : TableOf[r] = k /\ update[j][r] # None}

\* A batch (here of one row) comes back from the service and is flushed.
FlushRow(j, k, r) ==
  /\ pc[j] = Embedding[k]
  /\ r \in Pending(j, k) \ flushed[j]
  /\ ~Locked(r)
  /\ flushed' = [flushed EXCEPT ![j] = @ \cup {r}]
  /\ UNCHANGED <<catalog, pc, loaded, update, history>>

Written(old, new) == IF new = Keep THEN old ELSE new
Overwritten(columns, u) ==
  [vector |-> u.vector,
   model |-> Written(columns.model, u.model),
   hash |-> Written(columns.hash, u.hash)]

\* Mutant: the hash is taken from the row when it is written, not when it was read.
RowHashedOnWrite(j, r) == [Overwritten(stored[r], update[j][r]) EXCEPT !.hash = TextOf(r)]

RowWritten(j, r) == Overwritten(stored[r], update[j][r])

\* The series are committed before the categories are embedded.
CommitTable(j, k) ==
  /\ pc[j] = Embedding[k]
  /\ Pending(j, k) = flushed[j]
  /\ stored' = [r \in Rows |->
       IF r \in flushed[j] THEN RowWritten(j, r) ELSE stored[r]]
  /\ moved' = MovedFor(flushed[j], Jobs \ {j})
  /\ blind' = (blind \ flushed[j])
                \cup {r \in flushed[j] \cap moved[j] : update[j][r].hash = Keep}
  /\ flushed' = [flushed EXCEPT ![j] = {}]
  /\ update' = [update EXCEPT ![j] = [r \in Rows |-> IF TableOf[r] = k THEN None ELSE @[r]]]
  /\ pc' = [pc EXCEPT ![j] = IF k = 1 THEN Embedding[2] ELSE "done"]
  /\ UNCHANGED <<own, name, edits, loaded>>

\* register_series, register_concept_node: the context is read, then the text embedded.
RegisterCompose(j, r, n) ==
  /\ pc[j] = "idle"
  /\ ~Exists(r)
  /\ pc' = [pc EXCEPT ![j] = "registering"]
  /\ loaded' = [loaded EXCEPT ![j][r] =
       [own |-> n, columns |-> Embedded(<<n, name[ContextOf[r]]>>, Current)]]
  /\ UNCHANGED <<catalog, update, flushed, history>>

\* The unique code refuses a row that was created meanwhile.
RegisterCommit(j) ==
  /\ pc[j] = "registering"
  /\ \E r \in Rows :
       /\ loaded[j][r] # None
       /\ ~Exists(r)
       /\ own' = [own EXCEPT ![r] = loaded[j][r].own]
       /\ stored' = [stored EXCEPT ![r] = loaded[j][r].columns]
       /\ moved' = MovedFor({r}, Jobs \ {j})
  /\ pc' = [pc EXCEPT ![j] = "done"]
  /\ loaded' = [loaded EXCEPT ![j] = Nobody[j]]
  /\ UNCHANGED <<name, edits, update, flushed, blind>>

\* The service refuses twice, a batch has the wrong size, the code is taken, the
\* database breaks a deadlock, the process dies.
JobFails(j) ==
  /\ pc[j] \notin {"idle", "done", "failed"}
  /\ pc' = [pc EXCEPT ![j] = "failed"]
  /\ loaded' = [loaded EXCEPT ![j] = Nobody[j]]
  /\ update' = [update EXCEPT ![j] = Nobody[j]]
  /\ flushed' = [flushed EXCEPT ![j] = {}]
  /\ UNCHANGED <<catalog, history>>

-----------------------------------------------------------------------------
Edit ==
  \/ \E r \in Rows, n \in Names : EditRow(r, n) \/ CreateRow(r, n)
  \/ \E c \in Contexts, n \in Names : EditContext(c, n)

Work(j) ==
  \/ \E scope \in Scopes : LoadRows(j, scope)
  \/ Compose(j)
  \/ \E k \in Tables, r \in Rows : FlushRow(j, k, r)
  \/ \E k \in Tables : CommitTable(j, k)
  \/ \E r \in Rows, n \in Names : RegisterCompose(j, r, n)
  \/ RegisterCommit(j)
  \/ JobFails(j)

Next == Edit \/ \E j \in Jobs : Work(j)

Spec == Init /\ [][Next]_vars

-----------------------------------------------------------------------------
\* A row the predicate calls current has the vector of its own text, computed by
\* the current model.
Detectable(r) ==
  Exists(r) /\ ~Stale(stored[r], TextOf(r)) => stored[r].vector = <<TextOf(r), Current>>

\* "Staleness is mechanically detectable" (ADR 0020): it is, through
\* registrations, edits, concurrent jobs and failed ones, except where a job moved
\* a row to a new model without looking at it again.
StalenessDetectableUnlessBlind == \A r \in Rows \ blind : Detectable(r)

\* A backfill repairs what it finds stale: when it commits a table, every row of
\* it that nobody else has changed since is current.
BackfillRepairs ==
  [][\A j \in Jobs, k \in Tables :
       pc[j] = Embedding[k] /\ pc'[j] \notin {Embedding[k], "failed"} =>
         \A r \in Rows : TableOf[r] = k /\ r \notin moved[j] =>
           Exists(r) /\ ~Stale(stored'[r], TextOf(r))]_vars
===============================================================================
