--------------------------- MODULE ChangeProposals ---------------------------
(***************************************************************************)
(* Governance: change proposals, their items, and the series that applying *)
(* an approved proposal registers.  Operators draft and decide proposals   *)
(* through the CRUD routes, the onboarding tools add suggestions, and      *)
(* executors (calls of apply_approved_proposal) register the inserts of an *)
(* approved proposal inside one transaction that is long, because every    *)
(* series waits for an embedding service.                                  *)
(*                                                                         *)
(* A route or tool reads a row and writes it later without locking it in   *)
(* between; PostgreSQL locks it from the write to the commit.              *)
(***************************************************************************)
EXTENDS Integers, FiniteSets

CONSTANTS Proposals, Codes,   \* proposals; codes of the series they propose
          Items,              \* items, numbered in order of creation
          Executors,          \* calls of apply_approved_proposal
          Operators,          \* PATCH requests an operator has under way
          Nothing             \* no item, no code, no proposal

ASSUME ItemsAssumption == Items \subseteq Int /\ IsFiniteSet(Items)
Statuses == {"proposed", "approved", "applied", "rejected"}

\* action = insert of a series, or one of the suggest_* actions.
InsertItems == [proposal : Proposals, action : {"insert"}, code : Codes]
SuggestItems == [proposal : Proposals, action : {"suggest"}, code : {Nothing}]

ASSUME NothingAssumption ==
  /\ Nothing \notin Items /\ Nothing \notin Codes /\ Nothing \notin Proposals
  /\ Nothing \notin Statuses /\ Nothing \notin InsertItems /\ Nothing \notin SuggestItems

\* The lifecycle operators follow: decide, and revoke an approval not applied yet.
Decisions == {<<"proposed", "approved">>, <<"proposed", "rejected">>,
              <<"approved", "proposed">>, <<"approved", "rejected">>}

VARIABLES status,     \* committed status of each proposal
          item,       \* committed items
          series,     \* committed series by code: the item it was registered for
          patch,      \* what each PATCH request is about to write
          pc,         \* where each executor is
          applying,   \* the proposal it applies
          todo,       \* inserts it has read and not registered
          made        \* inserts it registered and has not committed

requests == <<patch>>
executors == <<pc, applying, todo, made>>
vars == <<status, item, series, requests, executors>>

Inserts == {i \in Items : item[i] \in InsertItems}

\* The series committed for an item, which is also the item's target_id.
Applied(i) == i \in Inserts /\ series[item[i].code] = i

TypeOK ==
  /\ status \in [Proposals -> Statuses \cup {Nothing}]
  /\ item \in [Items -> InsertItems \cup SuggestItems \cup {Nothing}]
  /\ series \in [Codes -> Items \cup {Nothing}]
  /\ patch \in [Operators -> (Proposals \X Statuses) \cup {Nothing}]
  /\ pc \in [Executors -> {"idle", "checked", "applying", "flushed", "done", "failed"}]
  /\ applying \in [Executors -> Proposals \cup {Nothing}]
  /\ todo \in [Executors -> SUBSET Items]
  /\ made \in [Executors -> SUBSET Items]
  /\ \A e \in Executors : todo[e] \cup made[e] \subseteq Inserts

Init ==
  /\ status = [p \in Proposals |-> Nothing]
  /\ item = [i \in Items |-> Nothing]
  /\ series = [c \in Codes |-> Nothing]
  /\ patch = [o \in Operators |-> Nothing]
  /\ pc = [e \in Executors |-> "idle"]
  /\ applying = [e \in Executors |-> Nothing]
  /\ todo = [e \in Executors |-> {}]
  /\ made = [e \in Executors |-> {}]

-----------------------------------------------------------------------------
(* Drafting and deciding *)

\* i is the item the next insert creates.
IsNextItem(i) ==
  item[i] = Nothing /\ \A j \in Items : j < i => item[j] # Nothing

\* A proposal that is new is created with status proposed.
AddItem(i, new) ==
  /\ IsNextItem(i)
  /\ item' = [item EXCEPT ![i] = new]
  /\ status' = [status EXCEPT ![new.proposal] = IF @ = Nothing THEN "proposed" ELSE @]
  /\ UNCHANGED <<series, requests, executors>>

\* An operator drafts an insert; a decided proposal is not redrafted.
DraftInsert(i, new) ==
  /\ new \in InsertItems
  /\ status[new.proposal] \in {Nothing, "proposed"}
  /\ AddItem(i, new)

\* A tool records a suggestion, on a proposal of its own or on a given one
\* whatever its status.
RecordSuggestion(i, new) ==
  /\ new \in SuggestItems
  /\ AddItem(i, new)

\* The executor has written the proposal's row and not committed.
HoldsProposal(e, p) == pc[e] = "flushed" /\ applying[e] = p

ReadForPatch(o, p, to) ==
  /\ patch[o] = Nothing
  /\ <<status[p], to>> \in Decisions
  /\ patch' = [patch EXCEPT ![o] = <<p, to>>]
  /\ UNCHANGED <<status, item, series, executors>>

\* The status that was read is not compared again.
WritePatch(o) ==
  /\ patch[o] # Nothing
  /\ \A e \in Executors : ~HoldsProposal(e, patch[o][1])
  /\ status' = [status EXCEPT ![patch[o][1]] = patch[o][2]]
  /\ patch' = [patch EXCEPT ![o] = Nothing]
  /\ UNCHANGED <<item, series, executors>>

-----------------------------------------------------------------------------
(* apply_approved_proposal *)

CheckApproved(e, p) ==
  /\ pc[e] = "idle"
  /\ status[p] = "approved"
  /\ pc' = [pc EXCEPT ![e] = "checked"]
  /\ applying' = [applying EXCEPT ![e] = p]
  /\ UNCHANGED <<status, item, series, requests, todo, made>>

\* Only inserts are materialised; the rest is skipped.
ReadItems(e) ==
  /\ pc[e] = "checked"
  /\ pc' = [pc EXCEPT ![e] = "applying"]
  /\ todo' = [todo EXCEPT ![e] = {i \in Inserts : item[i].proposal = applying[e]}]
  /\ UNCHANGED <<status, item, series, requests, applying, made>>

IsNextInsert(e, i) ==
  pc[e] = "applying" /\ i \in todo[e] /\ \A j \in todo[e] : i <= j

\* Codes of series are unique, so an open transaction that has inserted a code
\* makes every other insert of it wait.
CodesOf(e) == {item[i].code : i \in made[e]}
CodeFree(e, c) ==
  /\ series[c] = Nothing
  /\ \A q \in Executors : c \notin CodesOf(q)

\* Mutants: a code that is taken is skipped; the existing series is taken over.
RegisterSkippingTaken(e, i) ==
  /\ IsNextInsert(e, i)
  /\ todo' = [todo EXCEPT ![e] = @ \ {i}]
  /\ made' = IF CodeFree(e, item[i].code) THEN [made EXCEPT ![e] = @ \cup {i}] ELSE made
  /\ UNCHANGED <<status, item, series, requests, pc, applying>>
RegisterTakingOver(e, i) ==
  /\ IsNextInsert(e, i)
  /\ made' = [made EXCEPT ![e] = @ \cup {i}]
  /\ todo' = [todo EXCEPT ![e] = @ \ {i}]
  /\ UNCHANGED <<status, item, series, requests, pc, applying>>

\* register_series of the next insert: resolved, embedded and inserted.
Register(e, i) ==
  /\ IsNextInsert(e, i)
  /\ CodeFree(e, item[i].code)
  /\ made' = [made EXCEPT ![e] = @ \cup {i}]
  /\ todo' = [todo EXCEPT ![e] = @ \ {i}]
  /\ UNCHANGED <<status, item, series, requests, pc, applying>>

\* The status is written over whatever it has become since it was checked.
FlushApplied(e) ==
  /\ pc[e] = "applying"
  /\ todo[e] = {}
  /\ \A q \in Executors : ~HoldsProposal(q, applying[e])
  /\ pc' = [pc EXCEPT ![e] = "flushed"]
  /\ UNCHANGED <<status, item, series, requests, applying, todo, made>>

Publish(e, to) ==
  /\ status' = [status EXCEPT ![applying[e]] = to]
  /\ series' = [c \in Codes |->
       IF c \in CodesOf(e) THEN CHOOSE i \in made[e] : item[i].code = c ELSE series[c]]
  /\ pc' = [pc EXCEPT ![e] = "done"]
  /\ todo' = [todo EXCEPT ![e] = {}]
  /\ made' = [made EXCEPT ![e] = {}]
  /\ UNCHANGED <<item, requests, applying>>

\* Mutant: every registered series is committed on its own.
CommitEachSeries(e) ==
  \/ pc[e] = "flushed" /\ Publish(e, "applied")
  \/ pc[e] = "applying" /\ made[e] # {} /\ Publish(e, status[applying[e]])

CommitApply(e) == pc[e] = "flushed" /\ Publish(e, "applied")

\* An exception (a code that is taken, a missing geography, a category that is
\* no concept, a failed embedding, a deadlock) rolls the savepoint back and
\* leaves the tool without a commit; so does a crash.
ApplyFails(e) ==
  /\ pc[e] \in {"checked", "applying", "flushed"}
  /\ pc' = [pc EXCEPT ![e] = "failed"]
  /\ todo' = [todo EXCEPT ![e] = {}]
  /\ made' = [made EXCEPT ![e] = {}]
  /\ UNCHANGED <<status, item, series, requests, applying>>

-----------------------------------------------------------------------------
Operate ==
  \/ \E i \in Items, new \in InsertItems : DraftInsert(i, new)
  \/ \E i \in Items, new \in SuggestItems : RecordSuggestion(i, new)
  \/ \E o \in Operators, p \in Proposals, to \in Statuses : ReadForPatch(o, p, to)
  \/ \E o \in Operators : WritePatch(o)

Execute(e) ==
  \/ \E p \in Proposals : CheckApproved(e, p)
  \/ ReadItems(e)
  \/ \E i \in Items : Register(e, i)
  \/ FlushApplied(e)
  \/ CommitApply(e)
  \/ ApplyFails(e)

Next == Operate \/ \E e \in Executors : Execute(e)

Spec == Init /\ [][Next]_vars

-----------------------------------------------------------------------------
\* A series is never taken over: once registered for an item it stays that
\* item's, however many executors apply the same or competing proposals.
RegisteredOnce ==
  [][\A c \in Codes : series[c] # Nothing => series'[c] = series[c]]_vars

\* A proposal is applied as a whole: when one of its inserts is registered, so
\* is every insert drafted before it (ADR 0011, apply_catalog "writes approved
\* catalog/feed rows transactionally").
AppliedAsAWhole ==
  \A i, j \in Inserts :
    j < i /\ item[i].proposal = item[j].proposal /\ Applied(i) => Applied(j)

\* A reader who sees a new series sees the proposal it belongs to as applied.
SeriesComeWithTheirProposal ==
  [][\A c \in Codes : series'[c] # series[c] =>
       status'[item[series'[c]].proposal] = "applied"]_vars
=============================================================================
