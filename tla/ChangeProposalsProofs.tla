------------------------ MODULE ChangeProposalsProofs ------------------------
(***************************************************************************)
(* Proofs about change proposals, for any number of proposals, items,      *)
(* operators and executors: typing, and that however many executors apply  *)
(* the same or competing proposals, a series stays with the item it was    *)
(* registered for and a proposal is applied as a whole.                    *)
(***************************************************************************)
EXTENDS ChangeProposals, TLAPS

\* What an executor has read is closed under "drafted before", and it registers
\* that in the order of drafting.
ReadsPrefix(e) ==
  \A i \in todo[e] \cup made[e] :
    /\ item[i].proposal = applying[e]
    /\ \A j \in Inserts :
         j < i /\ item[j].proposal = applying[e] => j \in todo[e] \cup made[e]

\* What it has registered is its own: nobody else holds or has committed a
\* series with one of these codes.
HoldsCodes(e) ==
  \A i \in made[e] :
    /\ series[item[i].code] = Nothing
    /\ \A q \in Executors : \A j \in made[q] :
         item[j].code = item[i].code => q = e /\ j = i

Phases(e) ==
  /\ pc[e] \in {"idle", "done", "failed", "checked"} => todo[e] = {} /\ made[e] = {}
  /\ pc[e] = "flushed" => todo[e] = {}

\* Items are numbered without gaps in the order of drafting.
Numbered ==
  \A i, j \in Items : j < i /\ item[i] # Nothing => item[j] # Nothing

\* A committed series is owned by an insert that exists.
Owned == \A c \in Codes : series[c] # Nothing => series[c] \in Inserts

Inv ==
  /\ TypeOK
  /\ Numbered
  /\ Owned
  /\ \A e \in Executors : ReadsPrefix(e) /\ HoldsCodes(e) /\ Phases(e)
  /\ AppliedAsAWhole

-----------------------------------------------------------------------------
\* What the items and the series say of each other depends on nothing else.
LEMMA CatalogUnchanged ==
  ASSUME Inv, UNCHANGED <<item, series>>
  PROVE  Numbered' /\ Owned' /\ AppliedAsAWhole'
<1>1. Inserts' = Inserts
  BY DEF Inserts
<1> QED BY <1>1 DEF Inv, Numbered, Owned, AppliedAsAWhole, Applied

\* The catalog starts empty.
LEMMA InitInv == Init => Inv
<1> SUFFICES ASSUME Init PROVE Inv
  OBVIOUS
<1>1. Inserts = {}
  BY NothingAssumption DEF Init, Inserts, InsertItems
<1>2. TypeOK
  BY <1>1 DEF Init, TypeOK
<1> QED
  BY <1>1, <1>2 DEF Init, Inv, Numbered, Owned, ReadsPrefix, HoldsCodes, Phases,
                    AppliedAsAWhole

\* Drafting an item changes no item that exists, and nothing is drafted before
\* an item that exists.
LEMMA AddItemStep ==
  ASSUME Inv, NEW i \in Items, NEW new \in InsertItems \cup SuggestItems,
         AddItem(i, new)
  PROVE  Inv'
<1> USE NothingAssumption, ItemsAssumption
<1>1. item[i] = Nothing /\ i \notin Inserts
  BY DEF AddItem, IsNextItem, Inserts, InsertItems
<1>2. \A j \in Inserts : j < i /\ j # i
  BY <1>1 DEF Inserts, InsertItems, Inv, Numbered
<1>3. item'[i] = new /\ \A j \in Items : j # i => item'[j] = item[j]
  BY DEF AddItem, Inv, TypeOK
<1>4. Inserts \subseteq Inserts' /\ Inserts' \subseteq Inserts \cup {i}
  BY <1>1, <1>3 DEF Inserts
<1>5. TypeOK'
  BY <1>4 DEF AddItem, Inv, TypeOK, requests, executors, Statuses, SuggestItems,
              InsertItems
<1>6. \A e \in Executors : todo[e] \cup made[e] \subseteq Inserts
  BY DEF Inv, TypeOK
<1>7. ASSUME NEW e \in Executors PROVE ReadsPrefix(e)'
  <2>1. UNCHANGED <<applying, todo, made>>
    BY DEF AddItem, executors
  <2>2. ASSUME NEW k \in todo[e] \cup made[e]
        PROVE  item'[k].proposal = applying[e]
    BY <1>1, <1>3, <1>6 DEF Inv, ReadsPrefix, Inserts
  <2>3. ASSUME NEW k \in todo[e] \cup made[e], NEW j \in Inserts',
               j < k, item'[j].proposal = applying[e]
        PROVE  j \in todo[e] \cup made[e]
    <3>1. k \in Inserts /\ k < i
      BY <1>2, <1>6
    <3>2. i \in Int /\ j \in Int /\ k \in Int
      BY <3>1 DEF Inserts
    <3>3. j # i
      BY <2>3, <3>1, <3>2
    <3>4. j \in Items /\ j \in Inserts
      BY <1>4, <3>3 DEF Inserts
    <3>5. item[j].proposal = applying[e]
      BY <1>3, <2>3, <3>3, <3>4
    <3> QED BY <2>3, <3>4, <3>5 DEF Inv, ReadsPrefix
  <2> QED BY <2>1, <2>2, <2>3 DEF ReadsPrefix
<1>8. \A e \in Executors : HoldsCodes(e)' /\ Phases(e)'
  BY <1>1, <1>3, <1>6 DEF AddItem, Inv, HoldsCodes, Phases, executors
<1>9. AppliedAsAWhole'
  <2> SUFFICES ASSUME NEW k \in Inserts', NEW j \in Inserts',
                      j < k, item'[k].proposal = item'[j].proposal, Applied(k)'
               PROVE  Applied(j)'
    BY DEF AppliedAsAWhole
  <2>1. series' = series /\ series[item'[k].code] = k
    BY DEF AddItem, Applied
  <2>2. k \in Inserts
    BY <1>3, <2>1 DEF Inv, Owned, Inserts, InsertItems
  <2>3. j \in Inserts /\ j # i /\ k # i
    BY <1>2, <1>4, <2>2 DEF Inserts
  <2>4. Applied(j)
    BY <1>3, <2>1, <2>2, <2>3 DEF Inv, AppliedAsAWhole, Applied, Inserts
  <2> QED BY <1>3, <1>4, <2>1, <2>3, <2>4 DEF Applied, Inserts
<1>10. Numbered' /\ Owned'
  BY <1>3, <1>4 DEF Inv, Numbered, Owned, AddItem, IsNextItem
<1> QED BY <1>5, <1>7, <1>8, <1>9, <1>10 DEF Inv

\* Deciding a proposal changes statuses and nothing an executor depends on.
LEMMA DecideStep ==
  ASSUME Inv, NEW o \in Operators,
         WritePatch(o) \/ \E p \in Proposals, to \in Statuses : ReadForPatch(o, p, to)
  PROVE  Inv'
<1>1. UNCHANGED <<item, series, executors>>
  BY DEF WritePatch, ReadForPatch
<1>2. Inserts' = Inserts
  BY <1>1 DEF Inserts
<1>3. TypeOK'
  <2>1. patch' \in [Operators -> (Proposals \X Statuses) \cup {Nothing}]
    <3>1. CASE WritePatch(o)
      BY <3>1 DEF WritePatch, Inv, TypeOK
    <3>2. ASSUME NEW p \in Proposals, NEW to \in Statuses, ReadForPatch(o, p, to)
          PROVE  patch' \in [Operators -> (Proposals \X Statuses) \cup {Nothing}]
      BY <3>2 DEF ReadForPatch, Inv, TypeOK
    <3> QED BY <3>1, <3>2
  <2>2. CASE WritePatch(o)
    <3>1. patch[o] \in Proposals \X Statuses
      BY <2>2 DEF WritePatch, Inv, TypeOK
    <3>2. status' \in [Proposals -> Statuses \cup {Nothing}]
      BY <2>2, <3>1 DEF WritePatch, Inv, TypeOK
    <3> QED BY <1>1, <1>2, <2>1, <3>2 DEF Inv, TypeOK, executors
  <2>3. CASE ~WritePatch(o)
    <3>1. status' = status
      BY <2>3 DEF ReadForPatch
    <3> QED BY <1>1, <1>2, <2>1, <3>1 DEF Inv, TypeOK, executors
  <2> QED BY <2>2, <2>3
<1>4. \A e \in Executors : ReadsPrefix(e)' /\ HoldsCodes(e)' /\ Phases(e)'
  BY <1>1, <1>2 DEF Inv, ReadsPrefix, HoldsCodes, Phases, executors
<1>5. Numbered' /\ Owned' /\ AppliedAsAWhole'
  BY <1>1, CatalogUnchanged
<1> QED BY <1>3, <1>4, <1>5 DEF Inv

\* Picking an approved proposal up leaves an executor with empty hands.
LEMMA CheckApprovedStep ==
  ASSUME Inv, NEW e \in Executors, NEW p \in Proposals, CheckApproved(e, p)
  PROVE  Inv'
<1>1. UNCHANGED <<status, item, series, patch, todo, made>>
  BY DEF CheckApproved, requests
<1>2. Inserts' = Inserts
  BY <1>1 DEF Inserts
<1>3. TypeOK'
  BY <1>1, <1>2 DEF CheckApproved, Inv, TypeOK
<1>4. todo[e] = {} /\ made[e] = {}
  BY DEF CheckApproved, Inv, Phases
<1>5. \A q \in Executors : ReadsPrefix(q)' /\ HoldsCodes(q)' /\ Phases(q)'
  BY <1>1, <1>2, <1>4 DEF CheckApproved, Inv, TypeOK, ReadsPrefix, HoldsCodes, Phases
<1>6. Numbered' /\ Owned' /\ AppliedAsAWhole'
  BY <1>1, CatalogUnchanged
<1> QED BY <1>3, <1>5, <1>6 DEF Inv

\* Every insert of the proposal is read, so what is read is a prefix.
LEMMA ReadItemsStep ==
  ASSUME Inv, NEW e \in Executors, ReadItems(e)
  PROVE  Inv'
<1>1. UNCHANGED <<status, item, series, patch, applying, made>>
  BY DEF ReadItems, requests
<1>2. Inserts' = Inserts /\ Inserts \subseteq Items
  BY <1>1 DEF Inserts
<1>3. TypeOK'
  BY <1>1, <1>2 DEF ReadItems, Inv, TypeOK
<1>4. made[e] = {}
  BY DEF ReadItems, Inv, Phases
<1>5. \A q \in Executors : ReadsPrefix(q)'
  BY <1>1, <1>2, <1>4 DEF ReadItems, Inv, TypeOK, ReadsPrefix
<1>6. \A q \in Executors : HoldsCodes(q)' /\ Phases(q)'
  BY <1>1 DEF ReadItems, Inv, TypeOK, HoldsCodes, Phases
<1>7. Numbered' /\ Owned' /\ AppliedAsAWhole'
  BY <1>1, CatalogUnchanged
<1> QED BY <1>3, <1>5, <1>6, <1>7 DEF Inv

\* The unique code makes the executor the only holder of the series it inserts.
LEMMA RegisterStep ==
  ASSUME Inv, NEW e \in Executors, NEW i \in Items, Register(e, i)
  PROVE  Inv'
<1>1. UNCHANGED <<status, item, series, patch, pc, applying>>
  BY DEF Register, requests
<1>2. Inserts' = Inserts
  BY <1>1 DEF Inserts
<1>3. i \in todo[e] /\ pc[e] = "applying" /\ CodeFree(e, item[i].code)
  BY DEF Register, IsNextInsert
<1>4. /\ made' = [made EXCEPT ![e] = made[e] \cup {i}]
      /\ todo' = [todo EXCEPT ![e] = todo[e] \ {i}]
  BY DEF Register
<1>5. TypeOK'
  BY <1>1, <1>2, <1>3, <1>4 DEF Inv, TypeOK
<1>6. \A q \in Executors : todo'[q] \cup made'[q] = todo[q] \cup made[q]
  BY <1>3, <1>4 DEF Inv, TypeOK
<1>7. \A q \in Executors : ReadsPrefix(q)'
  BY <1>1, <1>2, <1>6 DEF Inv, ReadsPrefix
<1>8. \A q \in Executors : \A j \in made[q] : item[j].code # item[i].code
  BY <1>3 DEF CodeFree, CodesOf
<1>9. \A q \in Executors : HoldsCodes(q)'
  <2>1. \A q \in Executors : \A j \in made'[q] : j \in made[q] \/ (q = e /\ j = i)
    BY <1>4 DEF Inv, TypeOK
  <2>2. series[item[i].code] = Nothing
    BY <1>3 DEF CodeFree
  <2> QED BY <1>1, <1>8, <2>1, <2>2 DEF Inv, HoldsCodes
<1>10. \A q \in Executors : Phases(q)'
  BY <1>1, <1>3, <1>4 DEF Inv, TypeOK, Phases
<1>11. Numbered' /\ Owned' /\ AppliedAsAWhole'
  BY <1>1, CatalogUnchanged
<1> QED BY <1>5, <1>7, <1>9, <1>10, <1>11 DEF Inv

\* Writing the proposal's row waits for nothing but its lock.
LEMMA FlushStep ==
  ASSUME Inv, NEW e \in Executors, FlushApplied(e)
  PROVE  Inv'
<1>1. UNCHANGED <<status, item, series, patch, applying, todo, made>>
  BY DEF FlushApplied, requests
<1>2. Inserts' = Inserts
  BY <1>1 DEF Inserts
<1>3. TypeOK'
  BY <1>1, <1>2 DEF FlushApplied, Inv, TypeOK
<1>4. \A q \in Executors : ReadsPrefix(q)' /\ HoldsCodes(q)' /\ Phases(q)'
  BY <1>1, <1>2 DEF FlushApplied, Inv, TypeOK, ReadsPrefix, HoldsCodes, Phases
<1>5. Numbered' /\ Owned' /\ AppliedAsAWhole'
  BY <1>1, CatalogUnchanged
<1> QED BY <1>3, <1>4, <1>5 DEF Inv

\* What a commit does to the series: every insert of the executor becomes the
\* owner of its code, which nobody owned; every other code keeps its owner.
LEMMA CommitSeries ==
  ASSUME Inv, NEW e \in Executors, CommitApply(e)
  PROVE  /\ \A i \in made[e] : series[item[i].code] = Nothing /\ series'[item[i].code] = i
         /\ \A c \in Codes : series'[c] # series[c] =>
              \E i \in made[e] : c = item[i].code /\ series'[c] = i
<1>1. series' = [c \in Codes |->
        IF c \in CodesOf(e) THEN CHOOSE i \in made[e] : item[i].code = c ELSE series[c]]
  BY DEF CommitApply, Publish
<1>2. \A i \in made[e] : i \in Inserts /\ item[i].code \in Codes
  BY DEF Inv, TypeOK, Inserts, InsertItems
<1>3. \A i, j \in made[e] : item[i].code = item[j].code => i = j
  BY DEF Inv, HoldsCodes
<1>4. ASSUME NEW i \in made[e]
      PROVE  series'[item[i].code] = i
  <2>1. item[i].code \in CodesOf(e)
    BY DEF CodesOf
  <2>2. (CHOOSE j \in made[e] : item[j].code = item[i].code) = i
    BY <1>3
  <2> QED BY <1>1, <1>2, <2>1, <2>2
<1>5. \A i \in made[e] : series[item[i].code] = Nothing
  BY DEF Inv, HoldsCodes
<1>6. ASSUME NEW c \in Codes, series'[c] # series[c]
      PROVE  \E i \in made[e] : c = item[i].code /\ series'[c] = i
  BY <1>1, <1>4, <1>6 DEF CodesOf
<1> QED BY <1>4, <1>5, <1>6

\* Committing publishes a prefix of the proposal that is all of its inserts read.
LEMMA CommitStep ==
  ASSUME Inv, NEW e \in Executors, CommitApply(e)
  PROVE  Inv'
<1> USE NothingAssumption, ItemsAssumption
<1>1. UNCHANGED <<item, patch, applying>> /\ pc[e] = "flushed"
  BY DEF CommitApply, Publish, requests
<1>2. Inserts' = Inserts
  BY <1>1 DEF Inserts
<1>3. /\ todo' = [todo EXCEPT ![e] = {}] /\ made' = [made EXCEPT ![e] = {}]
      /\ pc' = [pc EXCEPT ![e] = "done"]
  BY DEF CommitApply, Publish
<1>4. todo[e] = {}
  BY <1>1 DEF Inv, Phases
<1>5. \A c \in Codes : series'[c] \in Items \cup {Nothing}
  BY CommitSeries DEF Inv, TypeOK
<1>6. TypeOK'
  <2>1. series' \in [Codes -> Items \cup {Nothing}]
    BY <1>5 DEF CommitApply, Publish
  <2>2. status' \in [Proposals -> Statuses \cup {Nothing}]
    BY DEF CommitApply, Publish, Inv, TypeOK, Statuses
  <2> QED BY <1>1, <1>2, <1>3, <2>1, <2>2 DEF Inv, TypeOK
<1>7. \A q \in Executors : ReadsPrefix(q)'
  BY <1>1, <1>2, <1>3 DEF Inv, TypeOK, ReadsPrefix
<1>8. ASSUME NEW q \in Executors PROVE HoldsCodes(q)'
  <2>1. CASE q = e
    BY <1>3, <2>1 DEF HoldsCodes, Inv, TypeOK
  <2>2. CASE q # e
    <3>1. made'[q] = made[q]
      BY <1>3, <2>2 DEF Inv, TypeOK
    <3>2. \A i \in made[q] : item[i].code \in Codes /\ series[item[i].code] = Nothing
      BY DEF Inv, TypeOK, HoldsCodes, Inserts, InsertItems
    <3>3. \A i \in made[q], j \in made[e] : item[j].code # item[i].code
      BY <2>2 DEF Inv, HoldsCodes
    <3>4. \A i \in made[q] : series'[item[i].code] = Nothing
      BY <3>2, <3>3, CommitSeries
    <3>5. \A r \in Executors : made'[r] \subseteq made[r]
      BY <1>3 DEF Inv, TypeOK
    <3> QED BY <1>1, <3>1, <3>4, <3>5 DEF Inv, HoldsCodes
  <2> QED BY <2>1, <2>2
<1>9. \A q \in Executors : Phases(q)'
  BY <1>3 DEF Inv, TypeOK, Phases
<1>10. AppliedAsAWhole'
  <2> SUFFICES ASSUME NEW i \in Inserts, NEW j \in Inserts,
                      j < i, item[i].proposal = item[j].proposal, Applied(i)'
               PROVE  Applied(j)'
    BY <1>1, <1>2 DEF AppliedAsAWhole
  <2>1. item[i].code \in Codes /\ item[j].code \in Codes /\ i # Nothing /\ j # Nothing
    BY DEF Inserts, InsertItems
  <2>2. series'[item[i].code] = i
    BY <1>1 DEF Applied
  <2>3. CASE series[item[i].code] = i
    <3>1. series[item[j].code] = j
      BY <2>3 DEF Applied, Inv, AppliedAsAWhole
    <3>2. series'[item[j].code] = j
      BY <2>1, <3>1, CommitSeries
    <3> QED BY <1>1, <1>2, <3>2 DEF Applied
  <2>4. CASE series[item[i].code] # i
    <3>1. i \in made[e]
      BY <2>1, <2>2, <2>4, CommitSeries
    <3>2. j \in made[e]
      BY <1>4, <3>1 DEF Inv, ReadsPrefix
    <3> QED BY <1>1, <1>2, <3>2, CommitSeries DEF Applied
  <2> QED BY <2>3, <2>4
<1>11. Owned'
  BY <1>2, CommitSeries DEF Inv, TypeOK, Owned
<1>12. Numbered'
  BY <1>1 DEF Inv, Numbered
<1> QED BY <1>6, <1>7, <1>8, <1>9, <1>10, <1>11, <1>12 DEF Inv

\* A failed apply leaves nothing behind.
LEMMA FailStep ==
  ASSUME Inv, NEW e \in Executors, ApplyFails(e)
  PROVE  Inv'
<1>1. /\ UNCHANGED <<status, item, series, patch, applying>>
      /\ todo' = [todo EXCEPT ![e] = {}] /\ made' = [made EXCEPT ![e] = {}]
      /\ pc' = [pc EXCEPT ![e] = "failed"]
  BY DEF ApplyFails, requests
<1>2. Inserts' = Inserts
  BY <1>1 DEF Inserts
<1>3. TypeOK'
  BY <1>1, <1>2 DEF Inv, TypeOK
<1>4. \A q \in Executors : ReadsPrefix(q)' /\ Phases(q)'
  BY <1>1, <1>2 DEF Inv, TypeOK, ReadsPrefix, Phases
<1>5. \A q \in Executors : HoldsCodes(q)'
  <2>1. \A q \in Executors : made'[q] \subseteq made[q]
    BY <1>1 DEF Inv, TypeOK
  <2> QED BY <1>1, <2>1 DEF Inv, HoldsCodes
<1>6. Numbered' /\ Owned' /\ AppliedAsAWhole'
  BY <1>1, CatalogUnchanged
<1> QED BY <1>3, <1>4, <1>5, <1>6 DEF Inv

-----------------------------------------------------------------------------
\* Every step of an operator, a tool or an executor preserves the invariant.
LEMMA InvStep == Inv /\ [Next]_vars => Inv'
<1> SUFFICES ASSUME Inv, [Next]_vars PROVE Inv'
  OBVIOUS
<1>1. CASE \E i \in Items, new \in InsertItems : DraftInsert(i, new)
  BY <1>1, AddItemStep DEF DraftInsert
<1>2. CASE \E i \in Items, new \in SuggestItems : RecordSuggestion(i, new)
  BY <1>2, AddItemStep DEF RecordSuggestion
<1>3. CASE \E o \in Operators : \/ WritePatch(o)
                                \/ \E p \in Proposals, to \in Statuses : ReadForPatch(o, p, to)
  BY <1>3, DecideStep
<1>4. ASSUME NEW e \in Executors, Execute(e) PROVE Inv'
  BY <1>4, CheckApprovedStep, ReadItemsStep, RegisterStep, FlushStep, CommitStep,
     FailStep DEF Execute
<1>5. CASE UNCHANGED vars
  <2>1. Inserts' = Inserts /\ UNCHANGED <<item, series>>
    BY <1>5 DEF Inserts, vars
  <2> QED BY <1>5, <2>1, CatalogUnchanged DEF vars, requests, executors, Inv, TypeOK,
             ReadsPrefix, HoldsCodes, Phases
<1> QED BY <1>1, <1>2, <1>3, <1>4, <1>5 DEF Next, Operate

\* The strengthened invariant holds in every reachable state.
LEMMA InvAlways == Spec => []Inv
BY InitInv, InvStep, PTL DEF Spec

\* The rows and the executors' working sets keep their types, and an executor
\* only ever works on inserts.
THEOREM TypeCorrect == Spec => []TypeOK
<1>1. Inv => TypeOK
  BY DEF Inv
<1> QED BY <1>1, InvAlways, PTL

\* A proposal is applied as a whole, whoever applies it and whatever is
\* redrafted, decided or revoked meanwhile.
THEOREM ProposalsAppliedWhole == Spec => []AppliedAsAWhole
<1>1. Inv => AppliedAsAWhole
  BY DEF Inv
<1> QED BY <1>1, InvAlways, PTL

\* Registered series are never taken over by another item.
THEOREM SeriesKept == Spec => RegisteredOnce
<1>1. ASSUME Inv, [Next]_vars
      PROVE  [\A c \in Codes : series[c] # Nothing => series'[c] = series[c]]_vars
  <2>1. CASE UNCHANGED series
    BY <2>1
  <2>2. ASSUME NEW e \in Executors, CommitApply(e)
        PROVE  \A c \in Codes : series[c] # Nothing => series'[c] = series[c]
    BY <1>1, <2>2, CommitSeries
  <2>3. CASE Operate
    BY <2>1, <2>3 DEF Operate, DraftInsert, RecordSuggestion, AddItem, ReadForPatch,
                      WritePatch
  <2>4. ASSUME NEW e \in Executors, Execute(e), ~CommitApply(e)
        PROVE  UNCHANGED series
    BY <2>4 DEF Execute, CheckApproved, ReadItems, Register, FlushApplied, ApplyFails
  <2> QED BY <1>1, <2>1, <2>2, <2>3, <2>4 DEF Next, vars
<1> QED BY <1>1, InvAlways, PTL DEF Spec, RegisteredOnce

\* Series appear only in the step that makes their proposal applied.
THEOREM SeriesAppearWithProposal == Spec => SeriesComeWithTheirProposal
<1>1. ASSUME Inv, [Next]_vars
      PROVE  [\A c \in Codes : series'[c] # series[c] =>
                status'[item[series'[c]].proposal] = "applied"]_vars
  <2>1. ASSUME NEW e \in Executors, CommitApply(e), NEW c \in Codes, series'[c] # series[c]
        PROVE  status'[item[series'[c]].proposal] = "applied"
    <3>1. PICK i \in made[e] : c = item[i].code /\ series'[c] = i
      BY <1>1, <2>1, CommitSeries
    <3>2. item[i].proposal = applying[e] /\ applying[e] \in Proposals
      BY <1>1 DEF Inv, TypeOK, ReadsPrefix, Inserts, InsertItems
    <3>3. status'[applying[e]] = "applied"
      BY <1>1, <2>1, <3>2 DEF CommitApply, Publish, Inv, TypeOK
    <3> QED BY <3>1, <3>2, <3>3
  <2>2. CASE UNCHANGED series
    BY <2>2
  <2>3. CASE Operate
    BY <2>2, <2>3 DEF Operate, DraftInsert, RecordSuggestion, AddItem, ReadForPatch,
                      WritePatch
  <2>4. ASSUME NEW e \in Executors, Execute(e), ~CommitApply(e)
        PROVE  UNCHANGED series
    BY <2>4 DEF Execute, CheckApproved, ReadItems, Register, FlushApplied, ApplyFails
  <2> QED BY <1>1, <2>1, <2>2, <2>3, <2>4 DEF Next, vars
<1> QED BY <1>1, InvAlways, PTL DEF Spec, SeriesComeWithTheirProposal
=============================================================================
