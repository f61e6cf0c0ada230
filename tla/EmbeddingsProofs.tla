--------------------------- MODULE EmbeddingsProofs ---------------------------
(***************************************************************************)
(* Proofs about embeddings, for any catalog and any number of jobs, edits  *)
(* and releases: staleness is detectable wherever no UPDATE was blind, and *)
(* a backfill repairs every row that others left alone; with one model,    *)
(* staleness is detectable everywhere.                                     *)
(***************************************************************************)
EXTENDS Embeddings, TLAPS

\* The vector of a row is that of the text and the model its columns name.
Described(r) == stored[r].vector # None => stored[r].vector = <<stored[r].hash, stored[r].model>>

\* A row that was read still exists, keeps the current model once it has it, and
\* is as it was read unless others have changed it.
LoadedSound(j) ==
  pc[j] = "loaded" => \A r \in Rows :
    /\ r \notin moved[j] => loaded[j][r] # None
    /\ loaded[j][r] # None =>
         /\ Exists(r)
         /\ loaded[j][r].columns.model = Current => stored[r].model = Current
         /\ r \notin moved[j] =>
              loaded[j][r].columns = stored[r] /\ loaded[j][r].own = own[r]

RegisterSound(j) ==
  pc[j] = "registering" => \A r \in Rows : loaded[j][r] # None =>
    loaded[j][r].columns.vector = <<loaded[j][r].columns.hash, loaded[j][r].columns.model>>

\* What an UPDATE leaves out is what the row holds, unless others have changed it.
UpdateSound(j) == \A r \in Rows : update[j][r] # None =>
  LET u == update[j][r] IN
  /\ Exists(r)
  /\ u.vector = <<u.vector[1], Current>>
  /\ u.hash \in {u.vector[1], Keep}
  /\ u.model = Keep => stored[r].model = Current
  /\ r \notin moved[j] =>
       /\ u.vector[1] = TextOf(r)
       /\ u.hash = Keep => stored[r].hash = u.vector[1]

\* A row a job found current and nobody has changed is current.
FoundCurrent(j) == \A k \in Tables : pc[j] = Embedding[k] =>
  \A r \in Rows : TableOf[r] >= k /\ r \notin moved[j] /\ update[j][r] = None =>
    Exists(r) /\ ~Stale(stored[r], TextOf(r))

PhaseSound(j) == \A r \in Rows :
  /\ pc[j] = "idle" => loaded[j][r] = None
  /\ update[j][r] # None => pc[j] \in {Embedding[1], Embedding[2]}
  /\ pc[j] = Embedding[2] /\ update[j][r] # None => TableOf[r] = 2
  /\ r \in flushed[j] =>
       \E k \in Tables : pc[j] = Embedding[k] /\ TableOf[r] = k /\ update[j][r] # None

JobSound(j) ==
  LoadedSound(j) /\ RegisterSound(j) /\ UpdateSound(j) /\ FoundCurrent(j) /\ PhaseSound(j)

Inv ==
  /\ TypeOK
  /\ \A r \in Rows \ blind : Described(r)
  /\ \A j \in Jobs : JobSound(j)

-----------------------------------------------------------------------------
\* The phases are different strings.
LEMMA PhasesDiffer ==
  /\ Embedding[1] = "embedding series" /\ Embedding[2] = "embedding categories"
  /\ Tables = {1, 2}
BY DEF Embedding, Tables

\* Whatever the catalog starts with was embedded completely or not at all.
LEMMA InitInv == Init => Inv
<1> SUFFICES ASSUME Init PROVE Inv
  OBVIOUS
<1> USE TablesAssumption, NoneAssumption, KeepAssumption, MaxEditsAssumption
<1>1. stored \in [Rows -> Columns]
  BY DEF Init, Columns, Unembedded, Embedded, Vectors
<1>2. TypeOK
  BY <1>1 DEF Init, TypeOK, Phases, Nobody
<1>3. \A r \in Rows : Described(r)
  BY DEF Init, Described, Unembedded, Embedded
<1>4. \A j \in Jobs : JobSound(j)
  BY PhasesDiffer DEF Init, JobSound, LoadedSound, RegisterSound, UpdateSound, FoundCurrent,
     PhaseSound, Nobody
<1> QED BY <1>2, <1>3, <1>4 DEF Inv

\* A step that leaves a job's own state alone leaves it sound, if what the step
\* changes in the rows R is marked as moved and loses neither a row nor the model.
LEMMA JobKept ==
  ASSUME Inv, NEW i \in Jobs, NEW R \in SUBSET Rows,
         pc'[i] = pc[i], loaded'[i] = loaded[i], update'[i] = update[i],
         flushed'[i] = flushed[i], moved'[i] = moved[i] \cup R,
         \A r \in Rows \ R : own'[r] = own[r] /\ TextOf(r)' = TextOf(r) /\ stored'[r] = stored[r],
         \A r \in Rows : Exists(r) =>
           Exists(r)' /\ (stored[r].model = Current => stored'[r].model = Current)
  PROVE  JobSound(i)'
<1>1. JobSound(i)
  BY DEF Inv
<1>2. LoadedSound(i)'
  BY <1>1 DEF JobSound, LoadedSound
<1>3. RegisterSound(i)'
  BY <1>1 DEF JobSound, RegisterSound
<1>4. UpdateSound(i)'
  BY <1>1 DEF JobSound, UpdateSound
<1>5. FoundCurrent(i)'
  BY <1>1 DEF JobSound, FoundCurrent
<1>6. PhaseSound(i)'
  BY <1>1 DEF JobSound, PhaseSound
<1> QED BY <1>2, <1>3, <1>4, <1>5, <1>6 DEF JobSound

\* What an edit of the rows R does.
Edited(R) ==
  /\ moved' = MovedFor(R, Jobs)
  /\ \A r \in Rows \ R : own'[r] = own[r] /\ TextOf(r)' = TextOf(r)
  /\ \A r \in Rows : Exists(r) => Exists(r)'
  /\ UNCHANGED <<stored, jobs, blind>>
  /\ own' \in [Rows -> Names \cup {None}] /\ name' \in [Contexts -> Names]
  /\ edits' \in 0..MaxEdits

\* An edit takes nothing from a job but what it marks as moved.
LEMMA EditStep ==
  ASSUME Inv, Edit
  PROVE  Inv'
<1> USE TablesAssumption, NoneAssumption, MaxEditsAssumption
<1>1. PICK R \in SUBSET Rows : Edited(R)
  <2>1. ASSUME NEW r \in Rows, NEW n \in Names, EditRow(r, n) \/ CreateRow(r, n)
        PROVE  Edited({r})
    BY <2>1 DEF Edited, EditRow, CreateRow, Inv, TypeOK, Exists, TextOf
  <2>2. ASSUME NEW c \in Contexts, NEW n \in Names, EditContext(c, n)
        PROVE  Edited({r \in Rows : ContextOf[r] = c})
    BY <2>2 DEF Edited, EditContext, Inv, TypeOK, Exists, TextOf
  <2>3. \A r \in Rows : {r} \in SUBSET Rows
    OBVIOUS
  <2>4. \A c \in Contexts : {r \in Rows : ContextOf[r] = c} \in SUBSET Rows
    OBVIOUS
  <2> QED BY <2>1, <2>2, <2>3, <2>4 DEF Edit
<1>2. \A j \in Jobs : moved'[j] = moved[j] \cup R
  BY <1>1 DEF Edited, MovedFor
<1>3. TypeOK'
  BY <1>1, <1>2 DEF Edited, Inv, TypeOK, jobs, MovedFor, Exists
<1>4. \A r \in Rows \ blind' : Described(r)'
  BY <1>1 DEF Edited, Inv, Described
<1>5. \A j \in Jobs : JobSound(j)'
  BY <1>1, <1>2, JobKept DEF Edited, jobs
<1> QED BY <1>3, <1>4, <1>5 DEF Inv

\* A job that reads starts with what the rows hold.
LEMMA LoadRowsStep ==
  ASSUME Inv, NEW j \in Jobs, NEW scope \in Scopes, LoadRows(j, scope)
  PROVE  Inv'
<1> USE NoneAssumption, PhasesDiffer
<1>1. UNCHANGED <<own, name, stored, edits, update, flushed, blind>>
  BY DEF LoadRows, catalog
<1>2. /\ pc[j] = "idle" /\ pc'[j] = "loaded"
      /\ \A i \in Jobs \ {j} : UNCHANGED <<pc[i], loaded[i], moved[i]>>
      /\ moved'[j] = {r \in Rows : r \notin scope \/ ~Exists(r)}
  BY DEF LoadRows, Inv, TypeOK
<1>3. \A r \in Rows : loaded'[j][r] =
        IF r \in scope /\ Exists(r) THEN [own |-> own[r], columns |-> stored[r]] ELSE None
  BY DEF LoadRows, Inv, TypeOK
<1>4. \A r \in Rows : Exists(r) => [own |-> own[r], columns |-> stored[r]] \in Loads
  BY DEF Inv, TypeOK, Loads, Exists
<1>5. TypeOK'
  <2>1. loaded' \in [Jobs -> [Rows -> Loads \cup {None}]]
    BY <1>4 DEF LoadRows, Inv, TypeOK
  <2>2. pc' \in [Jobs -> Phases] /\ moved' \in [Jobs -> SUBSET Rows]
    BY DEF LoadRows, Inv, TypeOK, Phases
  <2> QED BY <1>1, <2>1, <2>2 DEF Inv, TypeOK, Exists
<1>6. \A r \in Rows \ blind' : Described(r)'
  BY <1>1 DEF Inv, Described
<1>7. \A i \in Jobs \ {j} : JobSound(i)'
  <2>1. ASSUME NEW i \in Jobs \ {j} PROVE JobSound(i)'
    BY <1>1, <1>2, JobKept, {} \in SUBSET Rows DEF TextOf, Exists
  <2> QED BY <2>1
<1>8. JobSound(j)'
  <2>1. \A r \in Rows : update[j][r] = None /\ r \notin flushed[j]
    BY <1>2 DEF Inv, JobSound, PhaseSound
  <2>2. ASSUME NEW r \in Rows, r \in scope, Exists(r)
        PROVE  /\ loaded'[j][r] # None /\ loaded'[j][r].own = own[r]
               /\ loaded'[j][r].columns = stored[r]
    <3>1. loaded'[j][r] = [own |-> own[r], columns |-> stored[r]]
      BY <1>3, <2>2
    <3>2. loaded'[j][r] # None
      BY <1>4, <2>2, <3>1
    <3>3. loaded'[j][r].own = own[r] /\ loaded'[j][r].columns = stored[r]
      BY ONLY <3>1
    <3> QED BY <3>2, <3>3
  <2>3. ASSUME NEW r \in Rows, ~(r \in scope /\ Exists(r))
        PROVE  loaded'[j][r] = None /\ r \in moved'[j]
    BY <1>2, <1>3, <2>3
  <2>4. LoadedSound(j)'
    BY <1>1, <2>2, <2>3 DEF LoadedSound, Exists
  <2> QED BY <1>1, <1>2, <2>1, <2>4 DEF JobSound, RegisterSound, UpdateSound, FoundCurrent,
             PhaseSound
<1> QED BY <1>5, <1>6, <1>7, <1>8 DEF Inv

\* A job that fails forgets what it read and wrote.
LEMMA JobFailsStep ==
  ASSUME Inv, NEW j \in Jobs, JobFails(j)
  PROVE  Inv'
<1> USE NoneAssumption, PhasesDiffer
<1>1. UNCHANGED <<own, name, stored, edits, moved, blind>>
  BY DEF JobFails, catalog, history
<1>2. /\ pc'[j] = "failed"
      /\ \A r \in Rows : loaded'[j][r] = None /\ update'[j][r] = None /\ r \notin flushed'[j]
      /\ \A i \in Jobs \ {j} : UNCHANGED <<pc[i], loaded[i], update[i], flushed[i]>>
  BY DEF JobFails, Inv, TypeOK, Nobody
<1>3. TypeOK'
  BY <1>1 DEF JobFails, Inv, TypeOK, Nobody, Phases, Exists
<1>4. \A r \in Rows \ blind' : Described(r)'
  BY <1>1 DEF Inv, Described
<1>5. ASSUME NEW i \in Jobs \ {j} PROVE JobSound(i)'
  BY <1>1, <1>2, JobKept, {} \in SUBSET Rows DEF TextOf, Exists
<1>6. JobSound(j)'
  BY <1>1, <1>2 DEF JobSound, LoadedSound, RegisterSound, UpdateSound, FoundCurrent, PhaseSound
<1> QED BY <1>3, <1>4, <1>5, <1>6 DEF Inv

\* A row is read, and its text embedded, before it exists.
LEMMA RegisterComposeStep ==
  ASSUME Inv, NEW j \in Jobs, NEW r \in Rows, NEW n \in Names, RegisterCompose(j, r, n)
  PROVE  Inv'
<1> USE NoneAssumption, PhasesDiffer, TablesAssumption
<1> DEFINE row == [own |-> n, columns |-> Embedded(<<n, name[ContextOf[r]]>>, Current)]
<1>1. UNCHANGED <<own, name, stored, edits, update, flushed, moved, blind>>
  BY DEF RegisterCompose, catalog, history
<1>2. row \in Loads /\ row.columns.vector = <<row.columns.hash, row.columns.model>>
  BY DEF Loads, Columns, Embedded, Vectors, Texts, Models, Inv, TypeOK
<1>3. /\ pc[j] = "idle" /\ pc'[j] = "registering"
      /\ loaded'[j] = [loaded[j] EXCEPT ![r] = row]
      /\ \A i \in Jobs \ {j} : UNCHANGED <<pc[i], loaded[i]>>
  BY DEF RegisterCompose, Inv, TypeOK
<1>4. TypeOK'
  <2>1. loaded' \in [Jobs -> [Rows -> Loads \cup {None}]]
    BY <1>2, <1>3 DEF RegisterCompose, Inv, TypeOK
  <2>2. pc' \in [Jobs -> Phases]
    BY DEF RegisterCompose, Inv, TypeOK, Phases
  <2> QED BY <1>1, <2>1, <2>2 DEF Inv, TypeOK, Exists
<1>5. \A q \in Rows \ blind' : Described(q)'
  BY <1>1 DEF Inv, Described
<1>6. ASSUME NEW i \in Jobs \ {j} PROVE JobSound(i)'
  BY <1>1, <1>3, JobKept, {} \in SUBSET Rows DEF TextOf, Exists
<1>7. JobSound(j)'
  <2>1. \A q \in Rows : update[j][q] = None /\ q \notin flushed[j] /\ loaded[j][q] = None
    BY <1>3 DEF Inv, JobSound, PhaseSound
  <2>2. \A q \in Rows : loaded'[j][q] # None => loaded'[j][q] = row
    BY <1>3, <2>1 DEF Inv, TypeOK
  <2>3. RegisterSound(j)'
    BY <1>2, <2>2 DEF RegisterSound
  <2> QED BY <1>1, <1>3, <2>1, <2>3 DEF JobSound, LoadedSound, UpdateSound, FoundCurrent,
             PhaseSound
<1> QED BY <1>4, <1>5, <1>6, <1>7 DEF Inv

\* What an UPDATE of a row holds.
LEMMA UpdateOfText ==
  ASSUME NEW columns, NEW text \in Texts
  PROVE  /\ UpdateOf(columns, text) \in Updates
         /\ UpdateOf(columns, text) # None
         /\ UpdateOf(columns, text).vector = <<text, Current>>
         /\ UpdateOf(columns, text).model = (IF columns.model = Current THEN Keep ELSE Current)
         /\ UpdateOf(columns, text).hash = (IF columns.hash = text THEN Keep ELSE text)
<1> DEFINE vector == <<text, Current>>
           model == IF columns.model = Current THEN Keep ELSE Current
           hash == IF columns.hash = text THEN Keep ELSE text
<1>1. vector \in Vectors /\ model \in {Current, Keep} /\ hash \in Texts \cup {Keep}
  BY DEF Vectors, Models
<1>2. UpdateOf(columns, text) = [vector |-> vector, model |-> model, hash |-> hash]
  BY DEF UpdateOf
<1> HIDE DEF vector, model, hash
<1>3. UpdateOf(columns, text) \in Updates
  BY <1>1, <1>2 DEF Updates
<1>4. /\ UpdateOf(columns, text).vector = vector
      /\ UpdateOf(columns, text).model = model
      /\ UpdateOf(columns, text).hash = hash
  BY <1>2
<1> QED BY <1>3, <1>4, NoneAssumption DEF vector, model, hash

\* A job composes an UPDATE from what it read and from what the contexts are now.
LEMMA ComposeStep ==
  ASSUME Inv, NEW j \in Jobs, Compose(j)
  PROVE  Inv'
<1> USE NoneAssumption, KeepAssumption, PhasesDiffer, TablesAssumption
<1> DEFINE text(r) == <<loaded[j][r].own, name[ContextOf[r]]>>
           columns(r) == loaded[j][r].columns
<1>1. UNCHANGED <<own, name, stored, edits, flushed, moved, blind>>
  BY DEF Compose, catalog, history
<1>2. /\ pc[j] = "loaded" /\ pc'[j] = Embedding[1]
      /\ \A i \in Jobs \ {j} : UNCHANGED <<pc[i], loaded[i], update[i]>>
      /\ \A r \in Rows : loaded'[j][r] = None
  BY DEF Compose, Inv, TypeOK, Nobody
<1>3. \A r \in Rows : update'[j][r] =
        IF loaded[j][r] # None /\ Stale(columns(r), text(r))
        THEN UpdateOf(columns(r), text(r)) ELSE None
  BY DEF Compose, Inv, TypeOK
<1>4. \A r \in Rows : loaded[j][r] # None => columns(r) \in Columns /\ text(r) \in Texts
  <2>1. ASSUME NEW r \in Rows, loaded[j][r] # None
        PROVE  columns(r) \in Columns /\ text(r) \in Texts
    <3>1. loaded[j][r] \in Loads /\ name[ContextOf[r]] \in Names
      <4>1. loaded[j] \in [Rows -> Loads \cup {None}]
        BY DEF Inv, TypeOK
      <4>2. name \in [Contexts -> Names] /\ ContextOf[r] \in Contexts
        BY DEF Inv, TypeOK
      <4> QED BY <2>1, <4>1, <4>2
    <3>2. loaded[j][r].own \in Names /\ columns(r) \in Columns
      BY <3>1 DEF Loads
    <3> QED BY <3>1, <3>2 DEF Texts
  <2> HIDE DEF columns, text
  <2> QED BY ONLY <2>1
<1>5. \A r \in Rows : loaded[j][r] # None => UpdateOf(columns(r), text(r)) \in Updates
  <2>1. ASSUME NEW r \in Rows, loaded[j][r] # None
        PROVE  UpdateOf(columns(r), text(r)) \in Updates
    <3>1. text(r) \in Texts
      BY <1>4, <2>1
    <3> HIDE DEF columns, text
    <3> QED BY ONLY <3>1, UpdateOfText
  <2> HIDE DEF columns, text
  <2> QED BY ONLY <2>1
<1>6. TypeOK'
  <2>1. update' \in [Jobs -> [Rows -> Updates \cup {None}]]
    BY <1>5 DEF Compose, Inv, TypeOK
  <2>2. pc' \in [Jobs -> Phases] /\ loaded' \in [Jobs -> [Rows -> Loads \cup {None}]]
    BY DEF Compose, Inv, TypeOK, Phases, Nobody
  <2> QED BY <1>1, <2>1, <2>2 DEF Inv, TypeOK, Exists
<1>7. \A r \in Rows \ blind' : Described(r)'
  BY <1>1 DEF Inv, Described
<1>8. ASSUME NEW i \in Jobs \ {j} PROVE JobSound(i)'
  BY <1>1, <1>2, JobKept, {} \in SUBSET Rows DEF TextOf, Exists
<1>9. JobSound(j)'
  <2>1. LoadedSound(j)
    BY DEF Inv, JobSound
  <2>2. ASSUME NEW r \in Rows, update'[j][r] # None
        PROVE  /\ loaded[j][r] # None /\ Exists(r)
               /\ update'[j][r].vector = <<text(r), Current>>
               /\ update'[j][r].model = (IF columns(r).model = Current THEN Keep ELSE Current)
               /\ update'[j][r].hash = (IF columns(r).hash = text(r) THEN Keep ELSE text(r))
    <3>1. loaded[j][r] # None /\ update'[j][r] = UpdateOf(columns(r), text(r))
      BY <1>3, <2>2
    <3>2. text(r) \in Texts
      BY <1>4, <3>1
    <3>3. Exists(r)
      BY <1>2, <2>1, <3>1 DEF LoadedSound
    <3>4. update'[j][r] = UpdateOf(columns(r), text(r)) /\ text(r) \in Texts
      BY <3>1, <3>2
    <3> HIDE DEF columns, text
    <3>5. /\ update'[j][r].vector = <<text(r), Current>>
          /\ update'[j][r].model = (IF columns(r).model = Current THEN Keep ELSE Current)
          /\ update'[j][r].hash = (IF columns(r).hash = text(r) THEN Keep ELSE text(r))
      BY ONLY <3>4, UpdateOfText
    <3> QED BY <3>1, <3>3, <3>5
  <2>3. ASSUME NEW r \in Rows, r \notin moved[j]
        PROVE  /\ loaded[j][r] # None /\ Exists(r)
               /\ columns(r) = stored[r] /\ text(r) = TextOf(r)
    BY <1>2, <2>1, <2>3 DEF LoadedSound, TextOf
  <2>4. ASSUME NEW r \in Rows, r \notin moved[j], update'[j][r] = None
        PROVE  ~Stale(stored[r], TextOf(r))
    BY <1>3, <1>5, <2>3, <2>4
  <2>5. LoadedSound(j)' /\ RegisterSound(j)'
    BY <1>2 DEF LoadedSound, RegisterSound
  <2>6. UpdateSound(j)'
    <3>1. ASSUME NEW r \in Rows, update'[j][r] # None, update'[j][r].model = Keep
          PROVE  stored[r].model = Current
      BY <1>2, <2>1, <2>2, <3>1 DEF LoadedSound, Models
    <3>2. ASSUME NEW r \in Rows, update'[j][r] # None, r \notin moved[j],
                 update'[j][r].hash = Keep
          PROVE  stored[r].hash = text(r)
      BY <1>4, <2>2, <2>3, <3>2
    <3>3. ASSUME NEW r \in Rows, update'[j][r] # None
          PROVE  /\ update'[j][r].vector[1] = text(r)
                 /\ update'[j][r].vector = <<update'[j][r].vector[1], Current>>
                 /\ update'[j][r].hash \in {text(r), Keep}
                 /\ r \notin moved[j] => text(r) = TextOf(r)
      <4>1. update'[j][r].vector = <<text(r), Current>>
        BY <2>2, <3>3
      <4>2. update'[j][r].hash \in {text(r), Keep}
        BY <2>2, <3>3
      <4>3. r \notin moved[j] => text(r) = TextOf(r)
        BY <2>3
      <4> HIDE DEF text
      <4> QED BY ONLY <4>1, <4>2, <4>3
    <3> HIDE DEF text, columns
    <3> QED BY <1>1, <2>2, <3>1, <3>2, <3>3 DEF UpdateSound, Exists, TextOf
  <2>7. FoundCurrent(j)'
    BY <1>1, <1>2, <2>3, <2>4 DEF FoundCurrent, Exists, TextOf, Stale
  <2>8. PhaseSound(j)'
    BY <1>1, <1>2, PhasesDiffer DEF Inv, JobSound, PhaseSound
  <2> QED BY <2>5, <2>6, <2>7, <2>8 DEF JobSound
<1> QED BY <1>6, <1>7, <1>8, <1>9 DEF Inv

\* A flushed row is a pending one of the table being embedded.
LEMMA FlushRowStep ==
  ASSUME Inv, NEW j \in Jobs, NEW k \in Tables, NEW r \in Rows, FlushRow(j, k, r)
  PROVE  Inv'
<1>1. UNCHANGED <<own, name, stored, edits, pc, loaded, update, moved, blind>>
  BY DEF FlushRow, catalog, history
<1>2. /\ flushed'[j] = flushed[j] \cup {r}
      /\ \A i \in Jobs \ {j} : flushed'[i] = flushed[i]
      /\ pc[j] = Embedding[k] /\ TableOf[r] = k /\ update[j][r] # None
  BY DEF FlushRow, Pending, Inv, TypeOK
<1>3. TypeOK'
  <2>1. flushed' \in [Jobs -> SUBSET Rows]
    BY DEF FlushRow, Inv, TypeOK
  <2> QED BY <1>1, <2>1 DEF Inv, TypeOK, Exists
<1>4. \A q \in Rows \ blind' : Described(q)'
  BY <1>1 DEF Inv, Described
<1>5. ASSUME NEW i \in Jobs PROVE JobSound(i)'
  <2>1. JobSound(i)
    BY DEF Inv
  <2>2. PhaseSound(i)'
    BY <1>1, <1>2, <2>1 DEF JobSound, PhaseSound
  <2> QED BY <1>1, <2>1, <2>2 DEF JobSound, LoadedSound, RegisterSound, UpdateSound,
             FoundCurrent, Exists, TextOf, Stale
<1> QED BY <1>3, <1>4, <1>5 DEF Inv

\* What a row holds once an UPDATE of it is committed.
LEMMA RowWrittenHolds ==
  ASSUME Inv, NEW j \in Jobs, NEW r \in Rows, update[j][r] # None
  PROVE  /\ Exists(r) /\ RowWritten(j, r) \in Columns
         /\ RowWritten(j, r).vector = <<update[j][r].vector[1], Current>>
         /\ RowWritten(j, r).vector # None
         /\ RowWritten(j, r).model = Current
         /\ RowWritten(j, r).hash =
              (IF update[j][r].hash = Keep THEN stored[r].hash ELSE update[j][r].vector[1])
<1> DEFINE u == update[j][r]
           old == stored[r]
           model == Written(old.model, u.model)
           hash == Written(old.hash, u.hash)
<1>1. UpdateSound(j) /\ u \in Updates /\ old \in Columns
  BY DEF Inv, JobSound, TypeOK
<1>2. /\ Exists(r) /\ u.vector = <<u.vector[1], Current>>
      /\ u.hash \in {u.vector[1], Keep}
      /\ u.model = Keep => old.model = Current
  BY <1>1 DEF UpdateSound
<1>3. u.vector \in Vectors /\ u.model \in {Current, Keep} /\ u.hash \in Texts \cup {Keep}
  BY <1>1 DEF Updates
<1>4. old.model \in Models \cup {None} /\ old.hash \in Texts \cup {None}
  BY <1>1 DEF Columns
<1>5. model = Current /\ model \in Models
  BY <1>2, <1>3, KeepAssumption DEF Written, Models
<1>6. hash = (IF u.hash = Keep THEN old.hash ELSE u.vector[1]) /\ hash \in Texts \cup {None}
  BY <1>2, <1>3, <1>4 DEF Written
<1>7. RowWritten(j, r) = [vector |-> u.vector, model |-> model, hash |-> hash]
  BY DEF RowWritten, Overwritten
<1> HIDE DEF u, old, model, hash
<1>8. RowWritten(j, r) \in Columns
  BY ONLY <1>3, <1>5, <1>6, <1>7 DEF Columns
<1>9. /\ RowWritten(j, r).vector = u.vector /\ RowWritten(j, r).model = model
      /\ RowWritten(j, r).hash = hash
  BY ONLY <1>7
<1>10. u.vector # None
  BY <1>3, NoneAssumption
<1> USE DEF u, old
<1> QED BY ONLY <1>2, <1>5, <1>6, <1>8, <1>9, <1>10

\* What a commit writes is described by its columns, or the row is marked blind; the
\* other jobs find it moved.
LEMMA CommitTableStep ==
  ASSUME Inv, NEW j \in Jobs, NEW k \in Tables, CommitTable(j, k)
  PROVE  Inv'
<1> USE NoneAssumption, PhasesDiffer, TablesAssumption
<1> DEFINE R == flushed[j]
<1>1. UNCHANGED <<own, name, edits, loaded>> /\ R \in SUBSET Rows
  BY DEF CommitTable, Inv, TypeOK
<1>2. /\ pc[j] = Embedding[k] /\ pc'[j] = (IF k = 1 THEN Embedding[2] ELSE "done")
      /\ R = {r \in Rows : TableOf[r] = k /\ update[j][r] # None}
      /\ \A i \in Jobs \ {j} : /\ UNCHANGED <<pc[i], update[i], flushed[i]>>
                               /\ moved'[i] = moved[i] \cup R
      /\ moved'[j] = moved[j] /\ flushed'[j] = {}
      /\ \A r \in Rows : update'[j][r] = IF TableOf[r] = k THEN None ELSE update[j][r]
  BY DEF CommitTable, Pending, MovedFor, Inv, TypeOK
<1>3. /\ \A r \in Rows \ R : stored'[r] = stored[r]
      /\ \A r \in R : stored'[r] = RowWritten(j, r)
      /\ blind' = (blind \ R) \cup {r \in R \cap moved[j] : update[j][r].hash = Keep}
  BY <1>1 DEF CommitTable
<1>4. \A r \in R : update[j][r] # None
  BY <1>2
<1>5. ASSUME NEW r \in R
      PROVE  /\ Exists(r) /\ stored'[r] \in Columns
             /\ stored'[r].vector = <<update[j][r].vector[1], Current>>
             /\ stored'[r].model = Current
             /\ stored'[r].hash =
                  (IF update[j][r].hash = Keep THEN stored[r].hash ELSE update[j][r].vector[1])
  <2>1. stored'[r] = RowWritten(j, r) /\ r \in Rows /\ update[j][r] # None
    BY <1>1, <1>3, <1>4
  <2>2. /\ Exists(r) /\ RowWritten(j, r) \in Columns
        /\ RowWritten(j, r).vector = <<update[j][r].vector[1], Current>>
        /\ RowWritten(j, r).model = Current
        /\ RowWritten(j, r).hash =
             (IF update[j][r].hash = Keep THEN stored[r].hash ELSE update[j][r].vector[1])
    BY <2>1, RowWrittenHolds
  <2> QED BY ONLY <2>1, <2>2
<1>6. TypeOK'
  <2>1. stored' \in [Rows -> Columns]
    <3>1. \A r \in Rows : stored'[r] \in Columns
      BY <1>3, <1>5 DEF Inv, TypeOK
    <3>2. stored' = [r \in Rows |-> stored'[r]]
      BY DEF CommitTable
    <3> QED BY <3>1, <3>2
  <2>2. pc' \in [Jobs -> Phases] /\ flushed' \in [Jobs -> SUBSET Rows]
    BY DEF CommitTable, Inv, TypeOK, Phases
  <2>3. moved' \in [Jobs -> SUBSET Rows] /\ blind' \subseteq Rows
    BY <1>1, <1>3 DEF CommitTable, MovedFor, Inv, TypeOK
  <2>4. update' \in [Jobs -> [Rows -> Updates \cup {None}]]
    <3>1. update'[j] \in [Rows -> Updates \cup {None}]
      BY DEF CommitTable, Inv, TypeOK
    <3> QED BY <3>1 DEF CommitTable, Inv, TypeOK
  <2>5. \A r \in Rows : ~Exists(r)' => stored'[r] = Unembedded
    BY <1>1, <1>3, <1>5 DEF Inv, TypeOK, Exists
  <2>6. Unembedded' = Unembedded
    BY DEF Unembedded
  <2> QED BY <1>1, <2>1, <2>2, <2>3, <2>4, <2>5, <2>6 DEF Inv, TypeOK
<1>7. ASSUME NEW r \in Rows \ blind' PROVE Described(r)'
  <2>1. CASE r \notin R
    BY <1>3, <2>1 DEF Inv, Described
  <2>2. CASE r \in R
    <3>1. r \notin moved[j] \/ update[j][r].hash # Keep
      BY <1>3, <2>2
    <3>2. stored'[r].hash = update[j][r].vector[1]
      BY <1>4, <1>5, <2>2, <3>1 DEF Inv, JobSound, UpdateSound
    <3> QED BY <1>5, <2>2, <3>2 DEF Described
  <2> QED BY <2>1, <2>2
<1>8. ASSUME NEW i \in Jobs \ {j} PROVE JobSound(i)'
  <2>1. \A r \in Rows : stored[r].model = Current => stored'[r].model = Current
    BY <1>3, <1>5
  <2> QED BY <1>1, <1>2, <1>3, <2>1, JobKept DEF TextOf, Exists
<1>9. JobSound(j)'
  <2>1. UpdateSound(j) /\ FoundCurrent(j) /\ PhaseSound(j)
    BY DEF Inv, JobSound
  <2>2. LoadedSound(j)' /\ RegisterSound(j)'
    BY <1>2 DEF LoadedSound, RegisterSound
  <2>3. \A r \in Rows : update'[j][r] # None =>
          r \notin R /\ update'[j][r] = update[j][r] /\ stored'[r] = stored[r]
    BY <1>2, <1>3
  <2>4. UpdateSound(j)'
    <3>1. \A r \in Rows : Exists(r)' = Exists(r) /\ TextOf(r)' = TextOf(r)
      BY <1>1 DEF Exists, TextOf
    <3>2. ASSUME NEW r \in Rows, update'[j][r] # None
          PROVE  /\ Exists(r)
                 /\ update[j][r].vector = <<update[j][r].vector[1], Current>>
                 /\ update[j][r].hash \in {update[j][r].vector[1], Keep}
                 /\ update[j][r].model = Keep => stored[r].model = Current
                 /\ r \notin moved[j] =>
                      /\ update[j][r].vector[1] = TextOf(r)
                      /\ update[j][r].hash = Keep => stored[r].hash = update[j][r].vector[1]
      BY <2>1, <2>3, <3>2 DEF UpdateSound
    <3>3. UNCHANGED moved[j]
      BY <1>2
    <3> QED BY ONLY <2>3, <3>1, <3>2, <3>3 DEF UpdateSound
  <2>5. FoundCurrent(j)'
    <3>1. ASSUME NEW r \in Rows, k = 1, TableOf[r] >= 2, r \notin moved[j], update'[j][r] = None
          PROVE  Exists(r) /\ ~Stale(stored[r], TextOf(r)) /\ stored'[r] = stored[r]
      <4>1. TableOf[r] >= 1 /\ TableOf[r] # 1 /\ update[j][r] = None /\ r \notin R
        <5>1. TableOf[r] \in {1, 2} /\ TableOf[r] >= 2
          BY <3>1
        <5>2. TableOf[r] = 2
          BY ONLY <5>1
        <5>3. update[j][r] = None
          BY <1>2, <3>1, <5>2
        <5>4. r \notin R
          BY <1>4, <5>3
        <5> HIDE DEF R
        <5> QED BY ONLY <5>2, <5>3, <5>4
      <4> QED BY <1>2, <1>3, <2>1, <3>1, <4>1 DEF FoundCurrent
    <3>2. \A r \in Rows : Exists(r)' = Exists(r) /\ TextOf(r)' = TextOf(r)
      BY <1>1 DEF Exists, TextOf
    <3>3. ASSUME NEW q \in Tables, pc'[j] = Embedding[q] PROVE k = 1 /\ q = 2
      BY <1>2, <3>3
    <3>4. ASSUME NEW q \in Tables, pc'[j] = Embedding[q],
                 NEW r \in Rows, TableOf[r] >= q, r \notin moved'[j], update'[j][r] = None
          PROVE  Exists(r)' /\ ~Stale(stored'[r], TextOf(r)')
      BY <1>2, <3>1, <3>2, <3>3, <3>4
    <3>5. \A c, t : Stale(c, t)' = Stale(c, t)
      BY DEF Stale
    <3> QED BY <3>4, <3>5 DEF FoundCurrent, Stale
  <2>6. PhaseSound(j)'
    <3>1. ASSUME NEW r \in Rows, update'[j][r] # None
          PROVE  k = 1 /\ TableOf[r] = 2
      <4>1. TableOf[r] # k /\ update[j][r] # None /\ TableOf[r] \in {1, 2}
        BY <1>2, <3>1
      <4>2. k = 1
        BY <1>2, <2>1, <4>1 DEF PhaseSound
      <4> QED BY <4>1, <4>2
    <3>2. pc'[j] # "idle" /\ flushed'[j] = {} /\ (k = 1 => pc'[j] = Embedding[2])
      BY <1>2
    <3> QED BY <3>1, <3>2 DEF PhaseSound
  <2> QED BY <2>2, <2>4, <2>5, <2>6 DEF JobSound
<1> QED BY <1>6, <1>7, <1>8, <1>9 DEF Inv

\* A registered row is embedded with the text its hash stands for.
LEMMA RegisterCommitStep ==
  ASSUME Inv, NEW j \in Jobs, RegisterCommit(j)
  PROVE  Inv'
<1> USE NoneAssumption, PhasesDiffer, TablesAssumption
<1>1. UNCHANGED <<name, edits, update, flushed, blind>>
  BY DEF RegisterCommit
<1>2. PICK r \in Rows :
        /\ loaded[j][r] # None /\ ~Exists(r)
        /\ own' = [own EXCEPT ![r] = loaded[j][r].own]
        /\ stored' = [stored EXCEPT ![r] = loaded[j][r].columns]
        /\ moved' = MovedFor({r}, Jobs \ {j})
  BY DEF RegisterCommit
<1>3. /\ pc[j] = "registering" /\ pc'[j] = "done"
      /\ \A q \in Rows : loaded'[j][q] = None
      /\ \A i \in Jobs \ {j} : UNCHANGED <<pc[i], loaded[i]>> /\ moved'[i] = moved[i] \cup {r}
  <2>1. pc \in [Jobs -> Phases] /\ loaded \in [Jobs -> [Rows -> Loads \cup {None}]]
    BY DEF Inv, TypeOK
  <2>2. /\ pc[j] = "registering" /\ pc' = [pc EXCEPT ![j] = "done"]
        /\ loaded' = [loaded EXCEPT ![j] = Nobody[j]]
    BY DEF RegisterCommit
  <2>3. \A q \in Rows : Nobody[j][q] = None
    BY DEF Nobody
  <2>4. \A i \in Jobs \ {j} : moved'[i] = moved[i] \cup {r}
    BY <1>2 DEF MovedFor
  <2> HIDE DEF Nobody
  <2> QED BY ONLY <2>1, <2>2, <2>3, <2>4
<1>4. loaded[j][r].own \in Names /\ loaded[j][r].columns \in Columns
  <2>1. loaded[j][r] \in Loads
    <3>1. loaded[j] \in [Rows -> Loads \cup {None}]
      BY DEF Inv, TypeOK
    <3> QED BY <1>2, <3>1
  <2> QED BY ONLY <2>1 DEF Loads
<1>5. /\ own'[r] = loaded[j][r].own /\ own'[r] # None /\ stored'[r] = loaded[j][r].columns
      /\ \A q \in Rows \ {r} : own'[q] = own[q] /\ stored'[q] = stored[q]
  BY <1>2, <1>4 DEF Inv, TypeOK
<1>6. TypeOK'
  <2>1. own' \in [Rows -> Names \cup {None}] /\ stored' \in [Rows -> Columns]
    BY <1>2, <1>4 DEF Inv, TypeOK
  <2>2. pc' \in [Jobs -> Phases] /\ loaded' \in [Jobs -> [Rows -> Loads \cup {None}]]
    BY DEF RegisterCommit, Inv, TypeOK, Phases, Nobody
  <2>3. moved' \in [Jobs -> SUBSET Rows]
    BY <1>2 DEF MovedFor, Inv, TypeOK
  <2>4. \A q \in Rows : ~Exists(q)' => stored'[q] = Unembedded
    BY <1>5 DEF Inv, TypeOK, Exists
  <2>5. Unembedded' = Unembedded
    BY DEF Unembedded
  <2> QED BY <1>1, <2>1, <2>2, <2>3, <2>4, <2>5 DEF Inv, TypeOK
<1>7. ASSUME NEW q \in Rows \ blind' PROVE Described(q)'
  <2>1. RegisterSound(j)
    BY DEF Inv, JobSound
  <2>2. CASE q = r
    <3> DEFINE columns == loaded[j][r].columns
    <3>1. columns.vector = <<columns.hash, columns.model>>
      BY <1>2, <1>3, <2>1 DEF RegisterSound
    <3>2. stored'[q] = columns
      BY <1>5, <2>2
    <3> HIDE DEF columns
    <3> QED BY ONLY <3>1, <3>2 DEF Described
  <2>3. CASE q # r
    BY <1>1, <1>5, <2>3 DEF Inv, Described
  <2> QED BY <2>2, <2>3
<1>8. ASSUME NEW i \in Jobs \ {j} PROVE JobSound(i)'
  <2>1. \A q \in Rows \ {r} :
          own'[q] = own[q] /\ TextOf(q)' = TextOf(q) /\ stored'[q] = stored[q]
    BY <1>1, <1>5 DEF TextOf
  <2>2. \A q \in Rows : Exists(q) =>
          Exists(q)' /\ (stored[q].model = Current => stored'[q].model = Current)
    BY <1>2, <1>5 DEF Exists
  <2>3. {r} \in SUBSET Rows
    OBVIOUS
  <2> QED BY <1>1, <1>3, <2>1, <2>2, <2>3, JobKept
<1>9. JobSound(j)'
  <2>1. \A q \in Rows : update[j][q] = None /\ q \notin flushed[j]
    BY <1>3 DEF Inv, JobSound, PhaseSound
  <2> QED BY <1>1, <1>3, <2>1 DEF JobSound, LoadedSound, RegisterSound, UpdateSound,
             FoundCurrent, PhaseSound
<1> QED BY <1>6, <1>7, <1>8, <1>9 DEF Inv

-----------------------------------------------------------------------------
LEMMA InvStep == Inv /\ [Next]_vars => Inv'
<1> SUFFICES ASSUME Inv, [Next]_vars PROVE Inv'
  OBVIOUS
<1>1. ASSUME Edit PROVE Inv'
  BY <1>1, EditStep
<1>2. ASSUME NEW j \in Jobs, Work(j) PROVE Inv'
  <2>1. ASSUME NEW scope \in Scopes, LoadRows(j, scope) PROVE Inv'
    BY <2>1, LoadRowsStep
  <2>2. ASSUME Compose(j) PROVE Inv'
    BY <2>2, ComposeStep
  <2>3. ASSUME NEW k \in Tables, NEW r \in Rows, FlushRow(j, k, r) PROVE Inv'
    BY <2>3, FlushRowStep
  <2>4. ASSUME NEW k \in Tables, CommitTable(j, k) PROVE Inv'
    BY <2>4, CommitTableStep
  <2>5. ASSUME NEW r \in Rows, NEW n \in Names, RegisterCompose(j, r, n) PROVE Inv'
    BY <2>5, RegisterComposeStep
  <2>6. ASSUME RegisterCommit(j) PROVE Inv'
    BY <2>6, RegisterCommitStep
  <2>7. ASSUME JobFails(j) PROVE Inv'
    BY <2>7, JobFailsStep
  <2> QED BY <1>2, <2>1, <2>2, <2>3, <2>4, <2>5, <2>6, <2>7 DEF Work
<1>3. ASSUME UNCHANGED vars PROVE Inv'
  BY <1>3 DEF vars, catalog, jobs, history, Inv, TypeOK, Exists, Unembedded, Described, JobSound,
     LoadedSound, RegisterSound, UpdateSound, FoundCurrent, PhaseSound, TextOf, Stale
<1> QED BY <1>1, <1>2, <1>3 DEF Next

LEMMA InvAlways == Spec => []Inv
<1>1. Init => Inv
  BY InitInv
<1>2. Inv /\ [Next]_vars => Inv'
  BY InvStep
<1> QED BY <1>1, <1>2, PTL DEF Spec

\* The catalog and every job are what their columns and their code allow.
THEOREM TypeCorrect == Spec => []TypeOK
<1>1. Inv => TypeOK
  BY DEF Inv
<1> QED BY <1>1, InvAlways, PTL

\* Whatever registrations, edits, backfills and failures do, a row the backfill would
\* pass over has the vector of its text and of the current model, unless its last
\* UPDATE moved it to that model without its hash after others had changed it.
THEOREM PassedOverIsCurrent == Spec => []StalenessDetectableUnlessBlind
<1>1. Inv => StalenessDetectableUnlessBlind
  BY DEF Inv, Described, StalenessDetectableUnlessBlind, Detectable, Stale
<1> QED BY <1>1, InvAlways, PTL

Repaired == \A j \in Jobs, k \in Tables :
  pc[j] = Embedding[k] /\ pc'[j] \notin {Embedding[k], "failed"} =>
    \A r \in Rows : TableOf[r] = k /\ r \notin moved[j] =>
      Exists(r) /\ ~Stale(stored'[r], TextOf(r))

\* Only the commit of a table takes a job on from embedding it.
LEMMA LeavesByCommit ==
  ASSUME Inv, [Next]_vars, NEW j \in Jobs, NEW k \in Tables,
         pc[j] = Embedding[k], pc'[j] \notin {Embedding[k], "failed"}
  PROVE  CommitTable(j, k)
<1> USE PhasesDiffer
<1>1. pc'[j] # pc[j]
  OBVIOUS
<1>2. ~UNCHANGED vars /\ ~Edit
  BY <1>1 DEF vars, jobs, Edit, EditRow, CreateRow, EditContext
<1>3. ASSUME NEW i \in Jobs, Work(i), i # j PROVE FALSE
  BY <1>1, <1>3 DEF Work, LoadRows, Compose, FlushRow, CommitTable, RegisterCompose,
     RegisterCommit, JobFails, Inv, TypeOK
<1>4. ASSUME Work(j) PROVE \E q \in Tables : CommitTable(j, q)
  <2>1. ~(\E scope \in Scopes : LoadRows(j, scope)) /\ ~Compose(j)
    BY DEF LoadRows, Compose
  <2>2. ~(\E r \in Rows, n \in Names : RegisterCompose(j, r, n)) /\ ~RegisterCommit(j)
    BY DEF RegisterCompose, RegisterCommit
  <2>3. ~(\E q \in Tables, r \in Rows : FlushRow(j, q, r))
    BY <1>1 DEF FlushRow
  <2>4. ~JobFails(j)
    BY DEF JobFails, Inv, TypeOK
  <2> QED BY <1>4, <2>1, <2>2, <2>3, <2>4 DEF Work
<1>5. PICK q \in Tables : CommitTable(j, q)
  BY <1>2, <1>3, <1>4 DEF Next
<1>6. Embedding[q] = Embedding[k]
  BY <1>5 DEF CommitTable
<1>7. q = k
  BY <1>6
<1> QED BY <1>5, <1>7

LEMMA CommitRepairs == Inv /\ [Next]_vars => Repaired
<1> SUFFICES ASSUME Inv, [Next]_vars, NEW j \in Jobs, NEW k \in Tables,
                    pc[j] = Embedding[k], pc'[j] \notin {Embedding[k], "failed"},
                    NEW r \in Rows, TableOf[r] = k, r \notin moved[j]
             PROVE  Exists(r) /\ ~Stale(stored'[r], TextOf(r))
  BY DEF Repaired
<1>1. CommitTable(j, k)
  BY LeavesByCommit
<1>2. /\ flushed[j] = {q \in Rows : TableOf[q] = k /\ update[j][q] # None}
      /\ stored'[r] = (IF r \in flushed[j] THEN RowWritten(j, r) ELSE stored[r])
  BY <1>1 DEF CommitTable, Pending
<1>3. UpdateSound(j) /\ FoundCurrent(j)
  BY DEF Inv, JobSound
<1>4. CASE update[j][r] = None
  <2>1. stored'[r] = stored[r]
    BY <1>2, <1>4
  <2>2. TableOf[r] >= k
    BY TablesAssumption DEF Tables
  <2> QED BY <1>3, <1>4, <2>1, <2>2 DEF FoundCurrent
<1>5. CASE update[j][r] # None
  <2>1. stored'[r] = RowWritten(j, r)
    BY <1>2, <1>5
  <2>2. /\ RowWritten(j, r).vector # None /\ RowWritten(j, r).model = Current
        /\ RowWritten(j, r).hash =
             (IF update[j][r].hash = Keep THEN stored[r].hash ELSE update[j][r].vector[1])
    BY <1>5, RowWrittenHolds
  <2>3. /\ Exists(r) /\ update[j][r].vector[1] = TextOf(r)
        /\ update[j][r].hash = Keep => stored[r].hash = update[j][r].vector[1]
    BY <1>3, <1>5 DEF UpdateSound
  <2>4. RowWritten(j, r).hash = TextOf(r)
    BY <2>2, <2>3
  <2> QED BY ONLY <2>1, <2>2, <2>3, <2>4 DEF Stale
<1> QED BY <1>4, <1>5

\* When a backfill commits a table, every row of it that others have not changed since
\* it was read is current: those it embedded, by columns its UPDATE left out, and those
\* it passed over.
THEOREM BackfillRepairsRows == Spec => BackfillRepairs
<1>1. Inv /\ [Next]_vars => [Repaired]_vars
  BY CommitRepairs
<1> QED BY <1>1, InvAlways, PTL DEF Spec, BackfillRepairs, Repaired

-----------------------------------------------------------------------------
(* One model *)

\* Columns of a row that was never embedded, or that only the current model embedded.
Whole(columns) ==
  IF columns.vector = None THEN columns.hash = None
  ELSE columns.model = Current /\ columns.hash # None

\* With one model what is stale has another hash, so an UPDATE always writes the hash.
OneModelInv ==
  /\ \A r \in Rows : Whole(stored[r])
  /\ \A j \in Jobs, r \in Rows :
       /\ loaded[j][r] # None => Whole(loaded[j][r].columns)
       /\ update[j][r] # None => update[j][r].hash # Keep
  /\ blind = {}

LEMMA EmbeddedIsWhole ==
  ASSUME NEW text \in Texts
  PROVE  Whole(Embedded(text, Current))
<1>1. <<text, Current>> # None /\ text # None
  BY NoneAssumption DEF Vectors, Models
<1> QED BY <1>1 DEF Whole, Embedded

LEMMA OneModelInit ==
  ASSUME OldModels = {}, Init
  PROVE  OneModelInv
<1>1. ASSUME NEW r \in Rows PROVE Whole(stored[r])
  <2>1. CASE stored[r] = Unembedded
    BY <2>1 DEF Whole, Unembedded
  <2>2. ASSUME NEW t \in Texts, NEW m \in Models, stored[r] = Embedded(t, m) PROVE Whole(stored[r])
    BY <2>2, EmbeddedIsWhole DEF Models
  <2> QED BY <2>1, <2>2 DEF Init
<1>2. \A j \in Jobs, r \in Rows : loaded[j][r] = None /\ update[j][r] = None
  BY DEF Init, Nobody
<1> QED BY <1>1, <1>2 DEF OneModelInv, Init

LEMMA OneModelCommit ==
  ASSUME Inv, OneModelInv, NEW j \in Jobs, NEW k \in Tables, CommitTable(j, k)
  PROVE  OneModelInv'
<1>1. /\ flushed[j] = {r \in Rows : TableOf[r] = k /\ update[j][r] # None}
      /\ stored' = [r \in Rows |-> IF r \in flushed[j] THEN RowWritten(j, r) ELSE stored[r]]
      /\ UNCHANGED loaded
  BY DEF CommitTable, Pending
<1>2. blind' = {}
  BY <1>1 DEF CommitTable, OneModelInv
<1>3. \A i \in Jobs, r \in Rows : update'[i][r] \in {None, update[i][r]}
  BY DEF CommitTable, Inv, TypeOK
<1>4. ASSUME NEW r \in Rows PROVE Whole(stored'[r])
  <2>1. CASE r \in flushed[j]
    <3>1. update[j][r] # None /\ stored'[r] = RowWritten(j, r) /\ update[j][r].hash # Keep
      BY <1>1, <2>1 DEF OneModelInv
    <3>2. /\ RowWritten(j, r).vector # None /\ RowWritten(j, r).model = Current
          /\ RowWritten(j, r).hash = update[j][r].vector[1]
      BY <3>1, RowWrittenHolds
    <3>3. update[j][r].vector \in Vectors
      BY <3>1 DEF Inv, TypeOK, Updates
    <3>4. update[j][r].vector[1] # None
      BY <3>3, NoneAssumption DEF Vectors
    <3> QED BY <3>1, <3>2, <3>4 DEF Whole
  <2>2. CASE r \notin flushed[j]
    BY <1>1, <2>2 DEF OneModelInv
  <2> QED BY <2>1, <2>2
<1> QED BY <1>1, <1>2, <1>3, <1>4 DEF OneModelInv

LEMMA OneModelCompose ==
  ASSUME Inv, OneModelInv, NEW j \in Jobs, Compose(j)
  PROVE  OneModelInv'
<1>1. UNCHANGED <<stored, blind>>
  BY DEF Compose, catalog, history
<1>2. \A i \in Jobs, r \in Rows : loaded'[i][r] \in {None, loaded[i][r]}
  BY DEF Compose, Inv, TypeOK, Nobody
<1>3. ASSUME NEW r \in Rows, update'[j][r] # None PROVE update'[j][r].hash # Keep
  <2> DEFINE text == <<loaded[j][r].own, name[ContextOf[r]]>>
             columns == loaded[j][r].columns
  <2>1. loaded[j][r] # None /\ Stale(columns, text) /\ update'[j][r] = UpdateOf(columns, text)
    BY <1>3 DEF Compose, Inv, TypeOK
  <2>2. text \in Texts /\ Whole(columns)
    BY <2>1, TablesAssumption DEF Inv, TypeOK, Loads, Texts, OneModelInv
  <2>3. columns.hash # text
    BY <2>1, <2>2, NoneAssumption DEF Stale, Whole
  <2>4. UpdateOf(columns, text).hash = text
    BY <2>2, <2>3, UpdateOfText
  <2> QED BY <2>1, <2>2, <2>4, KeepAssumption
<1>4. \A i \in Jobs \ {j} : update'[i] = update[i]
  BY DEF Compose, Inv, TypeOK
<1> QED BY <1>1, <1>2, <1>3, <1>4 DEF OneModelInv

LEMMA OneModelStep ==
  ASSUME Inv, OneModelInv, [Next]_vars
  PROVE  OneModelInv'
<1>1. ASSUME UNCHANGED <<stored, loaded, update, blind>> PROVE OneModelInv'
  BY <1>1 DEF OneModelInv
<1>2. ASSUME Edit PROVE OneModelInv'
  BY <1>1, <1>2 DEF Edit, EditRow, EditContext, CreateRow, jobs
<1>3. ASSUME NEW j \in Jobs, NEW scope \in Scopes, LoadRows(j, scope) PROVE OneModelInv'
  <2>1. UNCHANGED <<stored, update, blind>>
    BY <1>3 DEF LoadRows, catalog
  <2>2. \A i \in Jobs \ {j} : loaded'[i] = loaded[i]
    BY <1>3 DEF LoadRows, Inv, TypeOK
  <2>3. \A r \in Rows : loaded'[j][r] # None => loaded'[j][r].columns = stored[r]
    BY <1>3 DEF LoadRows, Inv, TypeOK
  <2> QED BY <2>1, <2>2, <2>3 DEF OneModelInv
<1>4. ASSUME NEW j \in Jobs, NEW r \in Rows, NEW n \in Names, RegisterCompose(j, r, n)
      PROVE  OneModelInv'
  <2> DEFINE text == <<n, name[ContextOf[r]]>>
  <2>1. UNCHANGED <<stored, update, blind>>
    BY <1>4 DEF RegisterCompose, catalog, history
  <2>2. text \in Texts
    BY TablesAssumption DEF Inv, TypeOK, Texts
  <2>3. \A i \in Jobs, q \in Rows :
          \/ loaded'[i][q] = loaded[i][q]
          \/ loaded'[i][q] = [own |-> n, columns |-> Embedded(text, Current)]
    BY <1>4 DEF RegisterCompose, Inv, TypeOK
  <2> QED BY <2>1, <2>2, <2>3, EmbeddedIsWhole DEF OneModelInv
<1>5. ASSUME NEW j \in Jobs, RegisterCommit(j) PROVE OneModelInv'
  <2>1. UNCHANGED <<update, blind>>
    BY <1>5 DEF RegisterCommit
  <2>2. \A i \in Jobs, r \in Rows : loaded'[i][r] \in {None, loaded[i][r]}
    BY <1>5 DEF RegisterCommit, Inv, TypeOK, Nobody
  <2>3. PICK r \in Rows : /\ loaded[j][r] # None
                          /\ stored' = [stored EXCEPT ![r] = loaded[j][r].columns]
    BY <1>5 DEF RegisterCommit
  <2>4. \A q \in Rows : Whole(stored'[q])
    BY <2>3 DEF OneModelInv, Inv, TypeOK
  <2> QED BY <2>1, <2>2, <2>4 DEF OneModelInv
<1>6. ASSUME NEW j \in Jobs, JobFails(j) PROVE OneModelInv'
  <2>1. UNCHANGED <<stored, blind>>
    BY <1>6 DEF JobFails, catalog, history
  <2>2. \A i \in Jobs, r \in Rows : /\ loaded'[i][r] \in {None, loaded[i][r]}
                                    /\ update'[i][r] \in {None, update[i][r]}
    BY <1>6 DEF JobFails, Inv, TypeOK, Nobody
  <2> QED BY <2>1, <2>2 DEF OneModelInv
<1>7. ASSUME NEW j \in Jobs, NEW k \in Tables, NEW r \in Rows, FlushRow(j, k, r) PROVE OneModelInv'
  BY <1>1, <1>7 DEF FlushRow, catalog, history
<1>8. ASSUME UNCHANGED vars PROVE OneModelInv'
  BY <1>1, <1>8 DEF vars, catalog, jobs, history
<1> QED BY <1>2, <1>3, <1>4, <1>5, <1>6, <1>7, <1>8, OneModelCommit, OneModelCompose DEF Next, Work

\* Where no release has embedded a row with another model than the running programs
\* do, the predicate of the backfill finds every row whose vector does not describe it,
\* as ADR 0020 has it: through registrations, edits, concurrent jobs and failed ones.
THEOREM OneModelDetectable ==
  ASSUME OldModels = {}
  PROVE  Spec => [](\A r \in Rows : Detectable(r))
<1>1. Init => OneModelInv
  BY OneModelInit
<1>2. Inv /\ OneModelInv /\ [Next]_vars => OneModelInv'
  BY OneModelStep
<1>3. Inv /\ OneModelInv => \A r \in Rows : Detectable(r)
  BY DEF Inv, OneModelInv, Described, Detectable, Stale
<1> QED BY <1>1, <1>2, <1>3, InvAlways, PTL DEF Spec
===============================================================================
