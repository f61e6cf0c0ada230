-------------------------- MODULE OnboardingProofs --------------------------
(***************************************************************************)
(* Proofs about the two graphs that onboard series: the scoping            *)
(* conversation, for every cap and any number of user messages, and the    *)
(* gated graph, for any number of messages, drafts, sessions, providers    *)
(* and enums.                                                              *)
(***************************************************************************)
EXTENDS Onboarding, ScopingGraph, TLAPS

-----------------------------------------------------------------------------
(* The scoping conversation *)

\* Each trip of the back-edge was counted, and none was allowed past the cap.
BounceInv == ScopingTypeOK /\ bounces <= attempts /\ bounces <= MaxAttempts

\* A conflict in the slot is accounted for: it was given up on, or its turn
\* failed, or it was found in this turn and is on its way to the user.
ConflictInv ==
  \/ conflict \in {Empty, unresolved} \cup broken
  \/ node = "clarify" /\ conflict = turn

ScopingInv == BounceInv /\ ConflictInv

\* A conversation starts without a conflict and without a bounce.
LEMMA ScopingInit == Init => ScopingInv
<1> SUFFICES ASSUME Init PROVE ScopingInv
  OBVIOUS
<1>1. 0 \in Turns /\ 0 \in 0..(MaxAttempts + 1) /\ 0 <= MaxAttempts
  BY BoundsAssumption DEF Turns
<1>2. ScopingTypeOK
  BY <1>1 DEF Init, ScopingTypeOK, Empty
<1>3. BounceInv
  BY <1>1, <1>2 DEF Init, BounceInv
<1>4. ConflictInv
  BY DEF Init, ConflictInv, Empty
<1> QED BY <1>3, <1>4 DEF ScopingInv

\* ScopingInv is inductive.
LEMMA ScopingStep == ScopingInv /\ [Next]_vars => ScopingInv'
<1> SUFFICES ASSUME ScopingInv, [Next]_vars PROVE ScopingInv'
  OBVIOUS
<1> USE BoundsAssumption
    DEF ScopingInv, BounceInv, ConflictInv, ScopingTypeOK, Turns, ScopingNodes, Empty, state, history
<1>1. CASE UserMessage
  BY <1>1 DEF UserMessage
<1>2. ASSUME NEW need \in BOOLEAN, Clarify(need) PROVE ScopingInv'
  BY <1>2 DEF Clarify
<1>3. ASSUME NEW found \in BOOLEAN, Verify(found) PROVE ScopingInv'
  <2>1. attempts' \in 0..(MaxAttempts + 1) /\ attempts' >= attempts
    BY <1>3 DEF Verify, NextAttempt, Saturated
  <2>2. CASE found /\ MayBounce
    <3>1. attempts' = attempts + 1 /\ attempts' <= MaxAttempts
      BY <1>3, <2>2 DEF Verify, NextAttempt, Saturated, MayBounce
    <3>2. bounces' = bounces + 1
      BY <1>3, <2>2, <3>1 DEF Verify, Saturated
    <3> QED BY <1>3, <2>1, <2>2, <3>1, <3>2 DEF Verify
  <2>3. CASE ~(found /\ MayBounce)
    <3>1. bounces' = bounces /\ node' = "brief" /\ conflict' \in {Empty, unresolved'}
      BY <1>3, <2>3 DEF Verify
    <3>2. /\ turn' = turn /\ asked' = asked /\ brief' = brief /\ broken' = broken
          /\ unresolved' \in Turns /\ conflict' \in Turns
      BY <1>3, <2>3 DEF Verify
    <3> QED BY <2>1, <3>1, <3>2
  <2> QED BY <2>2, <2>3
<1>4. CASE WriteBrief
  BY <1>4 DEF WriteBrief
<1>5. CASE ModelFails
  BY <1>5 DEF ModelFails
<1>6. CASE UNCHANGED vars
  BY <1>6 DEF vars
<1> QED BY <1>1, <1>2, <1>3, <1>4, <1>5, <1>6 DEF Next, RunScopingNode

\* ScopingInv holds of every conversation.
LEMMA ScopingInvCorrect == Spec => []ScopingInv
<1> QED BY ScopingInit, ScopingStep, PTL DEF Spec

\* The channels of the graph and the histories keep their types; the counter of
\* attempts, which nothing resets, stays in the range it saturates in.
THEOREM ScopingTyped == Spec => []ScopingTypeOK
<1>1. ScopingInv => ScopingTypeOK
  BY DEF ScopingInv, BounceInv
<1> QED BY <1>1, ScopingInvCorrect, PTL

\* The back-edge from verification to clarification is taken at most
\* MaxAttempts times in a conversation, however long and whatever is answered.
THEOREM BackEdgeBounded == Spec => []BouncesBounded
<1>1. ScopingInv => BouncesBounded
  BY DEF ScopingInv, BounceInv, BouncesBounded
<1> QED BY <1>1, ScopingInvCorrect, PTL

\* Between two messages the conflict slot holds nothing but a conflict the
\* graph gave up on at the cap, or one whose turn a model call cut short.
THEOREM ConflictGivenUp == Spec => []ConflictOutlivesOnlyGivenUp
<1>1. ScopingInv => ConflictOutlivesOnlyGivenUp
  BY DEF ScopingInv, ConflictInv, ConflictOutlivesOnlyGivenUp
<1> QED BY <1>1, ScopingInvCorrect, PTL

-----------------------------------------------------------------------------
(* The gated graph *)

USE OnboardingAssumption

-----------------------------------------------------------------------------
(* Types *)

\* A thread starts with typed channels.
LEMMA InitTyped == OnboardingInit => TypeOK
<1> SUFFICES ASSUME OnboardingInit PROVE TypeOK
  OBVIOUS
<1>1. ch \in Channels
  BY DEF OnboardingInit, Channels, Texts, Gate1Outcomes, Gate2Outcomes, NoRun, RunStatus
<1>2. tx \in Rows /\ operator \in Outside /\ env \in Outside
  BY DEF OnboardingInit, NoRows, Rows, Nothing, Outside
<1>3. at \in Nodes \cup {"prompt", "returned", "down"} /\ steps \in 0..RecursionLimit /\ messages \in 0..MaxMessages
  BY DEF OnboardingInit
<1> QED BY <1>1, <1>2, <1>3 DEF OnboardingInit, TypeOK

\* The nodes that neither write rows nor save a package.
LEMMA RecordTyped ==
  ASSUME TypeOK, NEW n \in Nodes, Runs(n), NEW c \in Channels,
         NEW next \in Nodes \cup {END}, Record(c, next)
  PROVE  TypeOK'
<1>1. steps' \in 0..RecursionLimit
  BY DEF TypeOK, Runs, Record, Checkpoint
<1> QED BY <1>1 DEF TypeOK, Record, Checkpoint, END, Runs

\* A model call charged leaves the other channels alone.
LEMMA ChargedTyped == ASSUME NEW c \in Channels PROVE Charged(c) \in Channels
<1>1. [c EXCEPT !.spent = IF @ < CostCap THEN @ + 1 ELSE @].spent \in 0..CostCap
  BY DEF Channels
<1> QED BY <1>1 DEF Charged, Channels

\* Whatever the gates and edges choose is a node or the end.
LEMMA EdgesTyped ==
  ASSUME NEW c
  PROVE  /\ EdgeFromResearch(c) \in Nodes /\ EdgeFromCredentialGapWait(c) \in Nodes \cup {END}
         /\ EdgeFromDraft(c) \in Nodes /\ EdgeFromEnumGapWait(c) \in Nodes \cup {END}
         /\ EdgeFromValidate(c) \in Nodes \cup {END} /\ EdgeFromGate1(c) \in Nodes \cup {END}
         /\ EdgeFromSmallEdit(c) \in Nodes /\ EdgeFromGate2(c) \in Nodes \cup {END}
BY DEF Nodes, END, EdgeFromResearch, EdgeFromCredentialGapWait, EdgeFromDraft, EdgeFromEnumGapWait,
       EdgeFromValidate, EdgeFromGate1, EdgeFromSmallEdit, EdgeFromGate2

\* Whatever becomes of the gaps, the channels are typed and the proposal and the
\* run are the same as before.
LEMMA EnumGapRecorded ==
  ASSUME ch \in Channels, EnumGapWait
  PROVE  \E c \in Channels :
           /\ Record(c, EdgeFromEnumGapWait(c))
           /\ c.proposal = ch.proposal /\ c.drafts = ch.drafts /\ c.run = ch.run
<1> DEFINE verified == VerifiedGaps(ch.enumGaps \ ch.enumRes)
           pending  == (ch.enumGaps \ ch.enumRes) \ verified
           c0       == [ch EXCEPT !.enumRes = @ \cup verified]
           resolved == [c0 EXCEPT !.enumGaps = {}]
           coerced  == [c0 EXCEPT !.enumGaps = {}, !.enumRes = @ \cup pending,
                                  !.hints = @ \cup pending]
           refused  == [c0 EXCEPT !.enumRes = @ \cup pending, !.aborted = TRUE]
           later    == [c0 EXCEPT !.paused = TRUE]
           Same(c)  == /\ c \in Channels /\ c.proposal = ch.proposal
                       /\ c.drafts = ch.drafts /\ c.run = ch.run
<1>1. \E c \in {resolved, coerced, refused, later} : Record(c, EdgeFromEnumGapWait(c))
  BY DEF EnumGapWait
<1>2. ch.enumGaps \subseteq EnumPaths /\ ch.enumRes \subseteq EnumPaths
  BY DEF Channels
<1>3. verified \subseteq EnumPaths /\ pending \subseteq EnumPaths
  BY <1>2 DEF VerifiedGaps
<1> HIDE DEF verified, pending
<1>4. Same(c0)
  BY <1>3 DEF Channels
<1> HIDE DEF c0
<1>5. Same(resolved) /\ Same(coerced) /\ Same(refused) /\ Same(later)
  <2>1. c0.enumRes \cup pending \in SUBSET EnumPaths /\ c0.hints \cup pending \in SUBSET EnumPaths
    BY <1>3, <1>4 DEF Channels
  <2>2. Same(resolved) /\ Same(later)
    BY <1>4 DEF Channels
  <2>3. Same(coerced)
    BY <1>4, <2>1 DEF Channels
  <2>4. Same(refused)
    BY <1>4, <2>1 DEF Channels
  <2> QED BY <2>2, <2>3, <2>4
<1> HIDE DEF resolved, coerced, refused, later
<1>6. PICK c \in {resolved, coerced, refused, later} : Record(c, EdgeFromEnumGapWait(c))
  BY <1>1
<1>7. Same(c)
  BY <1>5
<1> QED BY ONLY <1>6, <1>7

\* A node that drafts, reviews or asks returns typed channels.
LEMMA DiscussionTyped ==
  ASSUME TypeOK
  PROVE  /\ Research => TypeOK'
         /\ CredentialGapWait => TypeOK'
         /\ GatherReferenceMetadata => TypeOK'
         /\ ClassifyExtractionMode => TypeOK'
         /\ DraftProposal => TypeOK'
         /\ EnumGapWait => TypeOK'
<1> USE DEF Nodes
<1>1. ch \in Channels /\ tx \in Rows
  BY DEF TypeOK
<1>2. ASSUME Research PROVE TypeOK'
  <2>1. PICK gaps \in SUBSET Providers :
          LET c == Charged([ch EXCEPT !.credGaps = gaps]) IN Record(c, EdgeFromResearch(c))
    BY <1>2 DEF Research
  <2>2. [ch EXCEPT !.credGaps = gaps] \in Channels
    BY <1>1 DEF Channels
  <2> QED BY <1>2, <2>1, <2>2, ChargedTyped, EdgesTyped, RecordTyped DEF Research
<1>3. ASSUME CredentialGapWait PROVE TypeOK'
  <2> DEFINE Resolved == [ch EXCEPT !.credRes = ch.credGaps]
             Refused == [ch EXCEPT !.credRes = {Aborted}]
  <2>1. Resolved \in Channels /\ Refused \in Channels
    BY <1>1 DEF Channels
  <2>2. CASE Record(Resolved, EdgeFromCredentialGapWait(Resolved))
    BY <1>3, <2>1, <2>2, EdgesTyped, RecordTyped DEF CredentialGapWait
  <2>3. CASE Record(Refused, EdgeFromCredentialGapWait(Refused))
    BY <1>3, <2>1, <2>3, EdgesTyped, RecordTyped DEF CredentialGapWait
  <2>4. ASSUME NEW p \in ch.credGaps, RecordCredentialGap(p),
               Checkpoint(ch, EdgeFromCredentialGapWait(ch)), UNCHANGED <<selectors, packages>>
        PROVE  TypeOK'
    <3>1. p \in Providers
      BY <1>1 DEF Channels
    <3>2. tx' \in Rows
      BY <1>1, <2>4, <3>1 DEF RecordCredentialGap, Rows
    <3>3. at' \in Nodes \cup {END} /\ steps' \in 0..RecursionLimit
      BY <1>3, <2>4, EdgesTyped DEF CredentialGapWait, Runs, Checkpoint, TypeOK
    <3> QED BY <2>4, <3>2, <3>3 DEF Checkpoint, TypeOK, END
  <2> QED BY <1>3, <2>2, <2>3, <2>4 DEF CredentialGapWait
<1>4. ASSUME GatherReferenceMetadata PROVE TypeOK'
  BY <1>1, <1>4, RecordTyped DEF GatherReferenceMetadata
<1>5. ASSUME ClassifyExtractionMode PROVE TypeOK'
  <2>1. PICK m \in {"config_only", "custom_python"} : Record([ch EXCEPT !.mode = m], "draft_proposal")
    BY <1>5 DEF ClassifyExtractionMode
  <2>2. [ch EXCEPT !.mode = m] \in Channels
    BY <1>1 DEF Channels
  <2> QED BY <1>5, <2>1, <2>2, RecordTyped DEF ClassifyExtractionMode
<1>6. ASSUME DraftProposal PROVE TypeOK'
  <2> DEFINE Proposed(gaps) ==
               IF gaps = {} THEN [draft |-> ch.drafts + 1, renamed |-> FALSE] ELSE NoProposal
             Drafted(gaps) ==
               [ch EXCEPT !.drafts = ch.drafts + 1, !.enumGaps = gaps, !.proposal = Proposed(gaps)]
  <2>1. PICK gaps \in SUBSET Reportable :
          LET c == Charged(Drafted(gaps)) IN Record(c, EdgeFromDraft(c))
    BY <1>6 DEF DraftProposal
  <2>2. ch.drafts + 1 \in 1..MaxDrafts
    BY <1>1, <1>6 DEF DraftProposal, Channels
  <2>3. Proposed(gaps) \in Proposals \cup {NoProposal}
    BY <2>2 DEF Proposals
  <2> HIDE DEF Proposed
  <2>4. Drafted(gaps) \in Channels
    <3>1. ch.drafts + 1 \in 0..MaxDrafts /\ gaps \in SUBSET EnumPaths
      BY <2>2 DEF Reportable
    <3> QED BY <1>1, <2>3, <3>1 DEF Channels
  <2> HIDE DEF Drafted
  <2> QED BY <1>6, <2>1, <2>4, ChargedTyped, EdgesTyped, RecordTyped DEF DraftProposal
<1>7. ASSUME EnumGapWait PROVE TypeOK'
  <2>1. PICK c \in Channels : Record(c, EdgeFromEnumGapWait(c))
    BY <1>1, <1>7, EnumGapRecorded
  <2> QED BY <1>7, <2>1, EdgesTyped, RecordTyped DEF EnumGapWait
<1> QED BY <1>2, <1>3, <1>4, <1>5, <1>6, <1>7

-----------------------------------------------------------------------------
(* The inductive invariant: what is true of the draft at each stage *)

Scripting == {"draft_script", "validate_script"}
Approval == {"unapproval_window", "apply_catalog"}
Reviewed == {"gate_1_wait", "apply_small_edit"} \cup Approval
Checking == {"governance_review", "data_correctness_review"} \cup Reviewed
Following == {"monitor_first_run", "test_review", "emit_package"}
Executed == {"trigger_first_run"} \cup Following

\* The proposal under discussion is the latest draft, and there is one from the
\* draft on.
LatestDraft ==
  /\ ch.proposal # NoProposal => ch.proposal.draft = ch.drafts
  /\ at \in Scripting \cup Checking \cup Executed => ch.proposal # NoProposal

\* The script, its validation and the reviews are those of the latest draft.
Vetted ==
  /\ at = "validate_script" => ch.script = ch.drafts
  /\ at \in Checking /\ ch.mode = "custom_python" => ch.validation = "ok" /\ ch.script = ch.drafts
  /\ at \in {"data_correctness_review"} \cup Reviewed => ch.governed = ch.drafts
  /\ at \in Reviewed => ch.checked = ch.drafts
  /\ at \in Approval => ch.outcome1 = "approve"

\* What is executed is written in the open transaction.
Executing == at \in Executed => ch.catalog = ch.proposal /\ ch.catalog \in tx.series

\* The thread's run log is of an earlier draft until the latest one is run, and
\* the transaction knows the status of every run it holds.
RunOfDraft ==
  /\ \A r \in tx.runs : r.status # "unknown"
  /\ ch.run.feed # NoProposal => ch.run.feed.draft <= ch.drafts
  /\ at \in Scripting \cup Checking \cup {"trigger_first_run"} /\ ch.run.feed # NoProposal =>
       ch.run.feed.draft < ch.drafts
  /\ at \in Following =>
       /\ ch.run.feed # NoProposal
       /\ ch.run.feed.draft < ch.drafts \/ \E r \in tx.runs : r.feed = ch.run.feed
  /\ at \in {"test_review", "emit_package"} /\ ch.run.status = "unknown" =>
       ch.run.feed.draft < ch.drafts
  /\ at = "emit_package" /\ ch.verdict # "failed" => ch.run.status # "failed"

Inv == TypeOK /\ LatestDraft /\ Vetted /\ Executing /\ RunOfDraft /\ PackagesHaveARun

\* A new thread has drafted nothing.
LEMMA InitInv == OnboardingInit => Inv
<1> SUFFICES ASSUME OnboardingInit PROVE Inv
  OBVIOUS
<1> USE DEF OnboardingInit, NoRun, NoProposal, NoRows, Scripting, Approval, Reviewed, Checking, Following, Executed
<1>1. LatestDraft /\ Vetted /\ Executing /\ RunOfDraft /\ PackagesHaveARun
  BY DEF LatestDraft, Vetted, Executing, RunOfDraft, PackagesHaveARun
<1> QED BY <1>1, InitTyped DEF Inv

Stages == Scripting \cup Checking \cup Executed

\* Ways on that lead to no stage of a draft, or out of the graph: nothing but
\* the channels that no invariant is about has changed.
LEMMA Elsewhere ==
  ASSUME Inv, TypeOK', at' \notin Stages, UNCHANGED packages,
         ch'.proposal = ch.proposal, ch'.drafts = ch.drafts, ch'.run = ch.run,
         tx'.runs \subseteq tx.runs
  PROVE  Inv'
<1> USE DEF Stages, Scripting, Approval, Reviewed, Checking, Following, Executed
<1>1. LatestDraft'
  BY DEF Inv, LatestDraft
<1>2. Vetted' /\ Executing'
  BY DEF Vetted, Executing
<1>3. RunOfDraft'
  BY DEF Inv, RunOfDraft
<1>4. PackagesHaveARun'
  BY DEF Inv, PackagesHaveARun
<1> QED BY <1>1, <1>2, <1>3, <1>4 DEF Inv

\* The session's loop and everything outside it.
LEMMA SessionInv ==
  ASSUME Inv, StartSession \/ SendMessage \/ SaveAndExit \/ AfterInvoke \/ ProcessDies \/ OperatorActs
  PROVE  Inv'
<1> USE DEF Stages, Scripting, Approval, Reviewed, Checking, Following, Executed
<1>1. TypeOK
  BY DEF Inv
<1>2. NoRows \in Rows /\ NoRows.runs = {}
  BY DEF NoRows, Rows
<1>3. CASE StartSession
  <2>1. TypeOK'
    BY <1>1, <1>3 DEF StartSession, TypeOK
  <2> QED BY <1>3, <2>1, Elsewhere DEF StartSession
<1>4. CASE SendMessage
  <2>1. PICK t \in Texts : ch' = [ch EXCEPT !.text = t]
    BY <1>4 DEF SendMessage
  <2>2. ch' \in Channels /\ ch'.proposal = ch.proposal /\ ch'.drafts = ch.drafts /\ ch'.run = ch.run
    BY <1>1, <2>1 DEF TypeOK, Channels
  <2>3. TypeOK'
    BY <1>1, <1>4, <2>2 DEF SendMessage, TypeOK, Nodes
  <2> QED BY <1>4, <2>2, <2>3, Elsewhere DEF SendMessage
<1>5. CASE SaveAndExit
  <2>1. TypeOK'
    BY <1>1, <1>2, <1>5 DEF SaveAndExit, EndProcess, TypeOK
  <2> QED BY <1>2, <1>5, <2>1, Elsewhere DEF SaveAndExit, EndProcess
<1>6. CASE AfterInvoke
  <2>1. TypeOK'
    BY <1>1, <1>2, <1>6 DEF AfterInvoke, EndProcess, TypeOK
  <2> QED BY <1>2, <1>6, <2>1, Elsewhere DEF AfterInvoke, EndProcess
<1>7. CASE ProcessDies
  <2>1. TypeOK'
    BY <1>1, <1>2, <1>7 DEF ProcessDies, EndProcess, TypeOK
  <2> QED BY <1>2, <1>7, <2>1, Elsewhere DEF ProcessDies, EndProcess
<1>8. CASE OperatorActs
  <2>1. operator' \in Outside
    <3>1. CASE \E x \in Providers : operator' = [operator EXCEPT !.creds = @ \cup {x}]
      BY <1>1, <3>1 DEF TypeOK, Outside
    <3>2. CASE \E x \in EnumPaths : operator' = [operator EXCEPT !.enums = @ \cup {x}]
      BY <1>1, <3>2 DEF TypeOK, Outside
    <3> QED BY <1>8, <3>1, <3>2 DEF OperatorActs
  <2>2. TypeOK'
    BY <1>1, <1>8, <2>1 DEF OperatorActs, TypeOK
  <2> QED BY <1>8, <2>2, Elsewhere DEF OperatorActs
<1> QED BY <1>3, <1>4, <1>5, <1>6, <1>7, <1>8

\* Research and the gaps: the proposal stays what it was, and no stage of it is
\* entered.
LEMMA ResearchInv ==
  ASSUME Inv, Research \/ CredentialGapWait \/ GatherReferenceMetadata \/ ClassifyExtractionMode \/ EnumGapWait
  PROVE  Inv'
<1> USE DEF Stages, Scripting, Approval, Reviewed, Checking, Following, Executed
<1>1. TypeOK /\ ch \in Channels
  BY DEF Inv, TypeOK
<1>2. TypeOK'
  BY <1>1, DiscussionTyped
<1>3. at' \notin Stages
  BY DEF Research, CredentialGapWait, GatherReferenceMetadata, ClassifyExtractionMode, EnumGapWait,
         Record, Checkpoint, END, EdgeFromResearch, EdgeFromCredentialGapWait, EdgeFromEnumGapWait
<1>4. UNCHANGED packages /\ tx'.runs = tx.runs
  <2>1. ASSUME NEW x, RecordCredentialGap(x) PROVE tx'.runs = tx.runs
    BY <1>1, <2>1 DEF RecordCredentialGap, TypeOK, Rows
  <2> QED BY <2>1 DEF Research, CredentialGapWait, GatherReferenceMetadata, ClassifyExtractionMode,
                      EnumGapWait, Record
<1>5. ch'.proposal = ch.proposal /\ ch'.drafts = ch.drafts /\ ch'.run = ch.run
  <2>1. CASE Research
    BY <1>1, <2>1 DEF Research, Record, Checkpoint, Charged, Channels
  <2>2. CASE CredentialGapWait
    BY <1>1, <2>2 DEF CredentialGapWait, Record, Checkpoint, Channels
  <2>3. CASE GatherReferenceMetadata
    BY <2>3 DEF GatherReferenceMetadata, Record, Checkpoint
  <2>4. CASE ClassifyExtractionMode
    BY <1>1, <2>4 DEF ClassifyExtractionMode, Record, Checkpoint, Channels
  <2>5. CASE EnumGapWait
    BY <1>1, <2>5, EnumGapRecorded DEF Record, Checkpoint
  <2> QED BY <2>1, <2>2, <2>3, <2>4, <2>5
<1> QED BY <1>2, <1>3, <1>4, <1>5, Elsewhere

\* Drafting: a new draft is ahead of the run and of everything vetted before.
LEMMA DraftInv == ASSUME Inv, DraftProposal PROVE Inv'
<1> USE DEF Scripting, Approval, Reviewed, Checking, Following, Executed
<1>1. TypeOK /\ ch \in Channels /\ TypeOK'
  BY DiscussionTyped DEF Inv, TypeOK
<1>2. PICK gaps \in SUBSET Reportable :
        LET n == ch.drafts + 1
            c == Charged([ch EXCEPT !.drafts = n, !.enumGaps = gaps,
                   !.proposal = IF gaps = {} THEN [draft |-> n, renamed |-> FALSE] ELSE NoProposal])
        IN Record(c, EdgeFromDraft(c))
  BY DEF DraftProposal
<1>3. /\ ch'.drafts = ch.drafts + 1 /\ ch'.run = ch.run
      /\ ch'.proposal = IF gaps = {} THEN [draft |-> ch.drafts + 1, renamed |-> FALSE] ELSE NoProposal
      /\ ch'.enumGaps = gaps /\ at' = EdgeFromDraft(ch') /\ UNCHANGED <<tx, packages>>
      /\ ch'.mode = ch.mode
  BY <1>1, <1>2 DEF Record, Checkpoint, Charged, Channels
<1>4. /\ at' \in {"enum_gap_wait", "draft_script", "governance_review"}
      /\ at' # "enum_gap_wait" => gaps = {}
      /\ at' = "governance_review" => ch.mode # "custom_python"
  BY <1>3 DEF EdgeFromDraft
<1>5. LatestDraft'
  BY <1>1, <1>3, <1>4 DEF LatestDraft, NoProposal, Channels
<1>6. Vetted' /\ Executing'
  BY <1>3, <1>4 DEF Vetted, Executing
<1>7. RunOfDraft'
  <2>1. ch.drafts \in Nat /\ (ch.run.feed # NoProposal => ch.run.feed.draft \in Nat)
    BY <1>1 DEF Channels, Proposals
  <2> QED BY <1>3, <1>4, <2>1 DEF Inv, RunOfDraft
<1>8. PackagesHaveARun'
  BY <1>3 DEF Inv, PackagesHaveARun
<1> QED BY <1>1, <1>5, <1>6, <1>7, <1>8 DEF Inv

\* A stage that changes nothing but what the invariant says of its own stage.
Kept == /\ ch'.proposal = ch.proposal /\ ch'.drafts = ch.drafts /\ ch'.run = ch.run
        /\ ch'.mode = ch.mode /\ ch'.catalog = ch.catalog
        /\ UNCHANGED <<tx, packages>>

LEMMA KeptInv ==
  ASSUME Inv, TypeOK', Kept, at \in Scripting \cup Checking,
         at' \in Scripting \cup Checking \cup {END}, Vetted'
  PROVE  Inv'
<1> USE DEF Scripting, Approval, Reviewed, Checking, Following, Executed, Kept
<1>1. LatestDraft'
  BY DEF Inv, LatestDraft, END
<1>2. Executing'
  BY DEF Executing, END
<1>3. RunOfDraft'
  BY DEF Inv, RunOfDraft, END
<1>4. PackagesHaveARun'
  BY DEF Inv, PackagesHaveARun
<1> QED BY <1>1, <1>2, <1>3, <1>4 DEF Inv

\* The script is drafted for, validated for and reviewed with the latest draft.
LEMMA VettingInv ==
  ASSUME Inv, DraftScript \/ ValidateScript \/ GovernanceReview \/ DataCorrectnessReview
  PROVE  Inv'
<1> USE DEF Scripting, Approval, Reviewed, Checking, Following, Executed, Kept, Nodes
<1>1. TypeOK /\ ch \in Channels
  BY DEF Inv, TypeOK
<1>2. ch.drafts \in 0..MaxDrafts /\ ch.cycle \in Nat
  BY <1>1 DEF Channels
<1>3. CASE DraftScript
  <2> DEFINE c == [ch EXCEPT !.script = ch.drafts]
  <2>1. c \in Channels
    BY <1>1, <1>2 DEF Channels
  <2>2. TypeOK'
    BY <1>1, <1>3, <2>1, ChargedTyped, RecordTyped DEF DraftScript
  <2>3. Kept /\ ch'.script = ch.drafts /\ at' = "validate_script" /\ at = "draft_script"
    BY <1>1, <1>3 DEF DraftScript, Record, Checkpoint, Charged, Channels, Runs
  <2>4. Vetted'
    BY <2>3 DEF Vetted
  <2> QED BY <2>2, <2>3, <2>4, KeptInv
<1>4. CASE ValidateScript
  <2>1. PICK v \in {"ok", "failed"} :
          LET c == [ch EXCEPT !.validation = v] IN Record(c, EdgeFromValidate(c))
    BY <1>4 DEF ValidateScript
  <2>2. [ch EXCEPT !.validation = v] \in Channels
    BY <1>1 DEF Channels
  <2>3. TypeOK'
    BY <1>1, <1>4, <2>1, <2>2, EdgesTyped, RecordTyped DEF ValidateScript
  <2>4. Kept /\ ch'.validation = v /\ ch'.script = ch.script /\ at' = EdgeFromValidate(ch') /\ at = "validate_script"
    BY <1>1, <1>4, <2>1 DEF ValidateScript, Record, Checkpoint, Channels, Runs
  <2>5. at' \in {"governance_review", "draft_script", END} /\ (at' = "governance_review" => ch'.validation = "ok")
    <3>1. at' = EdgeFromValidate(ch')
      BY <2>4
    <3>2. CASE ch'.validation = "ok"
      BY ONLY <3>1, <3>2 DEF EdgeFromValidate
    <3>3. CASE ch'.validation # "ok"
      <4>1. at' = IF ch'.cycle < ReviewCap THEN "draft_script" ELSE END
        BY ONLY <3>1, <3>3 DEF EdgeFromValidate
      <4> QED BY ONLY <4>1, <3>3 DEF END
    <3> QED BY <3>2, <3>3
  <2>6. Vetted'
    BY <2>4, <2>5 DEF Inv, Vetted, END
  <2> QED BY <2>3, <2>4, <2>5, <2>6, KeptInv
<1>5. CASE GovernanceReview
  <2>1. ch.proposal # NoProposal /\ ch.proposal.draft = ch.drafts /\ at = "governance_review"
    BY <1>5 DEF GovernanceReview, Runs, Inv, LatestDraft
  <2>2. [ch EXCEPT !.cycle = @ + 1, !.governed = ch.proposal.draft] \in Channels
    <3>1. ch.cycle + 1 \in Nat /\ ch.proposal.draft \in 0..MaxDrafts
      BY <1>2, <2>1
    <3> QED BY <1>1, <3>1 DEF Channels
  <2>3. TypeOK'
    BY <1>1, <1>5, <2>2, ChargedTyped, RecordTyped DEF GovernanceReview
  <2>4. /\ Kept /\ ch'.governed = ch.drafts /\ ch'.script = ch.script /\ ch'.validation = ch.validation
        /\ at' = "data_correctness_review"
    BY <1>1, <1>5, <2>1 DEF GovernanceReview, Record, Checkpoint, Charged, Channels
  <2>5. Vetted'
    BY <2>1, <2>4 DEF Inv, Vetted
  <2> QED BY <2>1, <2>3, <2>4, <2>5, KeptInv
<1>6. CASE DataCorrectnessReview
  <2>1. ch.proposal # NoProposal /\ ch.proposal.draft = ch.drafts /\ at = "data_correctness_review"
    BY <1>6 DEF DataCorrectnessReview, Runs, Inv, LatestDraft
  <2>2. [ch EXCEPT !.checked = ch.proposal.draft] \in Channels
    BY <1>1, <1>2, <2>1 DEF Channels
  <2>3. TypeOK'
    BY <1>1, <1>6, <2>2, ChargedTyped, RecordTyped DEF DataCorrectnessReview
  <2>4. /\ Kept /\ ch'.checked = ch.drafts /\ ch'.governed = ch.governed /\ ch'.script = ch.script
        /\ ch'.validation = ch.validation /\ at' = "gate_1_wait"
    BY <1>1, <1>6, <2>1 DEF DataCorrectnessReview, Record, Checkpoint, Charged, Channels
  <2>5. Vetted'
    BY <2>1, <2>4 DEF Inv, Vetted
  <2> QED BY <2>1, <2>3, <2>4, <2>5, KeptInv
<1> QED BY <1>3, <1>4, <1>5, <1>6

\* The gates, and the corrections between them.
LEMMA GatesInv ==
  ASSUME Inv, Gate1Wait \/ ApplySmallEdit \/ UnapprovalWindow
  PROVE  Inv'
<1> USE DEF Scripting, Approval, Reviewed, Checking, Following, Executed, Stages, Nodes
<1>1. TypeOK /\ ch \in Channels
  BY DEF Inv, TypeOK
<1>2. at \in Reviewed /\ ch.proposal # NoProposal /\ ch.proposal.draft = ch.drafts
  BY DEF Gate1Wait, ApplySmallEdit, UnapprovalWindow, Runs, Inv, LatestDraft
<1> DEFINE Same == /\ ch'.script = ch.script /\ ch'.validation = ch.validation
                   /\ ch'.governed = ch.governed /\ ch'.checked = ch.checked
<1>3. CASE Gate1Wait
  <2>1. PICK o \in Gate1Options :
          LET c == [ch EXCEPT !.outcome1 = o, !.approved = @ \/ o = "approve",
                              !.applied = @ /\ o # "approve"]
          IN Record(c, EdgeFromGate1(c))
    BY <1>3 DEF Gate1Wait
  <2>2. o \in Gate1Outcomes
    BY DEF Gate1Options, Gate1Outcomes
  <2>3. [ch EXCEPT !.outcome1 = o, !.approved = @ \/ o = "approve",
                   !.applied = @ /\ o # "approve"] \in Channels
    <3> DEFINE approved == ch.approved \/ o = "approve"
               applied  == ch.applied /\ o # "approve"
    <3>1. approved \in BOOLEAN /\ applied \in BOOLEAN
      OBVIOUS
    <3> HIDE DEF approved, applied
    <3>2. [ch EXCEPT !.outcome1 = o, !.approved = approved, !.applied = applied] \in Channels
      BY <1>1, <2>2, <3>1 DEF Channels
    <3> QED BY <3>2 DEF approved, applied
  <2>4. TypeOK'
    BY <1>1, <1>3, <2>1, <2>3, EdgesTyped, RecordTyped DEF Gate1Wait
  <2>5. Kept /\ Same /\ ch'.outcome1 = o /\ at' = EdgeFromGate1(ch')
    BY <1>1, <2>1 DEF Record, Checkpoint, Channels, Kept
  <2>6. /\ at' \in {"unapproval_window", "draft_proposal", "apply_small_edit", END}
        /\ at' = "unapproval_window" => o = "approve"
    BY <2>5 DEF EdgeFromGate1, END
  <2>7. CASE at' = "draft_proposal"
    BY <2>4, <2>5, <2>7, Elsewhere DEF Kept
  <2>8. CASE at' # "draft_proposal"
    <3>1. Vetted'
      BY <1>2, <2>5, <2>6, <2>8 DEF Inv, Vetted, Kept, END
    <3> QED BY <1>2, <2>4, <2>5, <2>6, <2>8, <3>1, KeptInv
  <2> QED BY <2>7, <2>8
<1>4. CASE ApplySmallEdit
  <2> DEFINE edited  == Edited(ch.proposal)
             cleared == [ch EXCEPT !.outcome1 = "none", !.challenged = FALSE]
             clean   == [cleared EXCEPT !.proposal = edited]
             dispute == [ch EXCEPT !.proposal = edited, !.challenged = TRUE]
             Near(c) == /\ c \in Channels /\ c.proposal \in Proposals /\ c.proposal.draft = ch.drafts
                        /\ c.drafts = ch.drafts /\ c.run = ch.run /\ c.mode = ch.mode
                        /\ c.script = ch.script /\ c.validation = ch.validation
                        /\ c.governed = ch.governed /\ c.checked = ch.checked
  <2>1. PICK c \in {clean, cleared, dispute} : Record(c, EdgeFromSmallEdit(c))
    BY <1>4 DEF ApplySmallEdit
  <2>2. edited \in Proposals /\ edited.draft = ch.drafts
    BY <1>1, <1>2 DEF Edited, Proposals, Channels
  <2>3. ch.proposal \in Proposals
    BY <1>1, <1>2 DEF Channels
  <2> HIDE DEF edited
  <2>4. Near(cleared)
    BY <1>1, <1>2, <2>3 DEF Channels, Gate1Outcomes
  <2>5. Near(clean)
    BY <2>2, <2>4 DEF Channels
  <2>6. Near(dispute)
    BY <1>1, <1>2, <2>2 DEF Channels
  <2> HIDE DEF clean, cleared, dispute
  <2>7. Near(c)
    BY <2>4, <2>5, <2>6
  <2>8. TypeOK'
    BY <1>1, <1>4, <2>1, <2>7, EdgesTyped, RecordTyped DEF ApplySmallEdit
  <2>9. at' \in {"dangerous_correction_plan", "gate_1_wait"} /\ ch' = c /\ UNCHANGED <<tx, packages>>
    BY <2>1 DEF Record, Checkpoint, EdgeFromSmallEdit
  <2>10. Near(ch')
    BY <2>7, <2>9
  <2>11. ch'.proposal # NoProposal
    BY <2>10 DEF Proposals, NoProposal
  <2>12. LatestDraft'
    BY <2>9, <2>10, <2>11 DEF LatestDraft
  <2>13. Vetted'
    BY <1>2, <2>9, <2>10 DEF Inv, Vetted
  <2>14. Executing' /\ RunOfDraft' /\ PackagesHaveARun'
    BY <1>2, <2>9, <2>10 DEF Inv, Executing, RunOfDraft, PackagesHaveARun
  <2> QED BY <2>8, <2>12, <2>13, <2>14 DEF Inv
<1>5. CASE UnapprovalWindow
  <2>1. [ch EXCEPT !.applied = FALSE] \in Channels
    BY <1>1 DEF Channels
  <2>2. TypeOK'
    BY <1>1, <1>5, <2>1, RecordTyped DEF UnapprovalWindow
  <2>3. Kept /\ Same /\ ch'.outcome1 = ch.outcome1 /\ at = "unapproval_window" /\ at' = "apply_catalog"
    BY <1>1, <1>5 DEF UnapprovalWindow, Record, Checkpoint, Channels, Kept, Runs
  <2>4. Vetted'
    BY <2>3 DEF Inv, Vetted, Kept
  <2> QED BY <2>2, <2>3, <2>4, KeptInv
<1> QED BY <1>3, <1>4, <1>5

\* The dangerous corrections lead to no stage of the draft.
LEMMA CorrectionInv ==
  ASSUME Inv, DangerousCorrectionPlan \/ Gate2Wait \/ DangerousCorrectionExecutor
  PROVE  Inv'
<1> USE DEF Scripting, Approval, Reviewed, Checking, Following, Executed, Stages, Nodes
<1>1. TypeOK /\ ch \in Channels /\ ch.plan \in 0..MaxDrafts
  BY DEF Inv, TypeOK, Channels
<1>2. CASE DangerousCorrectionPlan
  <2>1. [ch EXCEPT !.plan = @ + 1] \in Channels
    <3>1. ch.plan + 1 \in 0..MaxDrafts
      BY <1>1, <1>2 DEF DangerousCorrectionPlan
    <3> QED BY <1>1, <3>1 DEF Channels
  <2>2. TypeOK'
    BY <1>1, <1>2, <2>1, RecordTyped DEF DangerousCorrectionPlan
  <2>3. Kept /\ at' = "gate_2_wait"
    BY <1>1, <1>2 DEF DangerousCorrectionPlan, Record, Checkpoint, Channels, Kept
  <2> QED BY <2>2, <2>3, Elsewhere DEF Kept
<1>3. CASE Gate2Wait
  <2>1. PICK o \in Gate2Outcomes \ {"none"} :
          LET c == [ch EXCEPT !.outcome2 = o, !.approved2 = @ \/ o = "approve"] IN Record(c, EdgeFromGate2(c))
    BY <1>3 DEF Gate2Wait
  <2>2. [ch EXCEPT !.outcome2 = o, !.approved2 = @ \/ o = "approve"] \in Channels
    <3>1. (ch.approved2 \/ o = "approve") \in BOOLEAN
      OBVIOUS
    <3> QED BY <1>1, <3>1 DEF Channels
  <2>3. TypeOK'
    BY <1>1, <1>3, <2>1, <2>2, EdgesTyped, RecordTyped DEF Gate2Wait
  <2>4. Kept /\ at' = EdgeFromGate2(ch')
    BY <1>1, <2>1 DEF Record, Checkpoint, Channels, Kept
  <2>5. at' \notin Stages
    BY <2>4 DEF EdgeFromGate2, END
  <2> QED BY <2>3, <2>4, <2>5, Elsewhere DEF Kept
<1>4. CASE DangerousCorrectionExecutor
  <2>1. [ch EXCEPT !.repaired = IF ch.approved2 THEN ch.plan ELSE @] \in Channels
    <3>1. (IF ch.approved2 THEN ch.plan ELSE ch.repaired) \in 0..MaxDrafts
      BY <1>1 DEF Channels
    <3> QED BY <1>1, <3>1 DEF Channels
  <2>2. TypeOK'
    BY <1>1, <1>4, <2>1, RecordTyped DEF DangerousCorrectionExecutor
  <2>3. Kept /\ at' = END
    BY <1>1, <1>4 DEF DangerousCorrectionExecutor, Record, Checkpoint, Channels, Kept
  <2> QED BY <2>2, <2>3, Elsewhere DEF Kept, END
<1> QED BY <1>2, <1>3, <1>4

\* The write: the latest draft is in the transaction, and the thread's run is of
\* an earlier one.
LEMMA ApplyInv == ASSUME Inv, ApplyCatalog PROVE Inv'
<1> USE DEF Scripting, Approval, Reviewed, Checking, Following, Executed, Nodes
<1>1. TypeOK /\ ch \in Channels /\ tx \in Rows /\ at = "apply_catalog"
  BY DEF Inv, TypeOK, ApplyCatalog, Runs
<1>2. ch.proposal \in Proposals /\ ch.proposal # NoProposal /\ ch.proposal.draft = ch.drafts
  BY <1>1 DEF Inv, LatestDraft, Channels
<1>3. /\ ch' = [ch EXCEPT !.applied = TRUE, !.catalog = ch.proposal] /\ at' = "trigger_first_run"
      /\ tx' = [tx EXCEPT !.series = @ \cup {ch.proposal}, !.credentials = @ \cup ResolvedProviders(ch)]
      /\ steps' = steps + 1 /\ steps < RecursionLimit /\ UNCHANGED <<messages, operator, env, packages>>
  BY DEF ApplyCatalog, Checkpoint, Runs
<1>4. ch' \in Channels
  BY <1>1, <1>2, <1>3 DEF Channels
<1>5. /\ ch'.proposal = ch.proposal /\ ch'.drafts = ch.drafts /\ ch'.run = ch.run
      /\ ch'.catalog = ch.proposal
  BY <1>1, <1>3 DEF Channels
<1>6. tx' \in Rows /\ tx'.series = tx.series \cup {ch.proposal} /\ tx'.runs = tx.runs
  <2>1. ResolvedProviders(ch) \subseteq Providers
    BY <1>1 DEF ResolvedProviders, Channels
  <2> HIDE DEF ResolvedProviders
  <2> QED BY <1>1, <1>2, <1>3, <2>1 DEF Rows
<1>7. selectors' \subseteq 1..MaxDrafts
  BY <1>1 DEF ApplyCatalog, Promote, TypeOK, Channels
<1>8. TypeOK'
  BY <1>1, <1>3, <1>4, <1>6, <1>7 DEF TypeOK
<1>9. LatestDraft' /\ Vetted' /\ Executing'
  BY <1>2, <1>3, <1>5, <1>6 DEF LatestDraft, Vetted, Executing
<1>10. RunOfDraft' /\ PackagesHaveARun'
  BY <1>1, <1>3, <1>5, <1>6 DEF Inv, RunOfDraft, PackagesHaveARun
<1> QED BY <1>8, <1>9, <1>10 DEF Inv

\* The first run: kept if the thread has one, else of what was just written.
LEMMA TriggerInv == ASSUME Inv, TriggerFirstRun PROVE Inv'
<1> USE DEF Scripting, Approval, Reviewed, Checking, Following, Executed, Nodes
<1>1. TypeOK /\ ch \in Channels /\ tx \in Rows /\ at = "trigger_first_run"
  BY DEF Inv, TypeOK, TriggerFirstRun, Runs
<1>2. /\ ch.proposal \in Proposals /\ ch.proposal # NoProposal /\ ch.proposal.draft = ch.drafts
      /\ ch.catalog = ch.proposal /\ ch.catalog \in tx.series
  BY <1>1 DEF Inv, LatestDraft, Executing, Channels
<1>3. CASE ch.run.feed # NoProposal /\ Record(ch, "monitor_first_run")
  <2>1. TypeOK'
    BY <1>1, <1>3, RecordTyped DEF TriggerFirstRun
  <2>2. ch' = ch /\ at' = "monitor_first_run" /\ UNCHANGED <<tx, packages>>
    BY <1>3 DEF Record, Checkpoint
  <2>3. LatestDraft' /\ Vetted' /\ Executing'
    BY <1>2, <2>2 DEF LatestDraft, Vetted, Executing
  <2>4. RunOfDraft' /\ PackagesHaveARun'
    BY <1>1, <1>3, <2>2 DEF Inv, RunOfDraft, PackagesHaveARun
  <2> QED BY <2>1, <2>3, <2>4 DEF Inv
<1>4. CASE ~(ch.run.feed # NoProposal /\ Record(ch, "monitor_first_run"))
  <2>1. PICK x \in RunStatus \ {"unknown"} :
          LET run == [feed |-> ch.catalog, status |-> x]
          IN /\ tx' = [tx EXCEPT !.runs = @ \cup {run}]
             /\ Checkpoint([ch EXCEPT !.run = run], "monitor_first_run")
    BY <1>4 DEF TriggerFirstRun
  <2> DEFINE run == [feed |-> ch.catalog, status |-> x]
  <2>2. run \in [feed : Proposals, status : RunStatus] /\ run.feed = ch.catalog /\ run.status # "unknown"
    BY <1>2
  <2>3. run \in [feed : Proposals \cup {NoProposal}, status : RunStatus]
    BY <2>2
  <2>4. /\ tx' = [tx EXCEPT !.runs = @ \cup {run}] /\ ch' = [ch EXCEPT !.run = run]
        /\ at' = "monitor_first_run" /\ steps' = steps + 1 /\ steps < RecursionLimit
        /\ UNCHANGED <<messages, operator, env, selectors, packages>>
    BY <1>4, <2>1 DEF TriggerFirstRun, Checkpoint, Runs
  <2> HIDE DEF run
  <2>5. tx' \in Rows /\ tx'.series = tx.series /\ tx'.runs = tx.runs \cup {run}
    BY <1>1, <2>2, <2>4 DEF Rows
  <2>6. ch' \in Channels /\ ch'.run = run
    BY <1>1, <2>3, <2>4 DEF Channels
  <2>7. ch'.proposal = ch.proposal /\ ch'.drafts = ch.drafts /\ ch'.catalog = ch.catalog
    BY <1>1, <2>4 DEF Channels
  <2>8. TypeOK'
    BY <1>1, <2>4, <2>5, <2>6 DEF TypeOK
  <2>9. LatestDraft' /\ Vetted' /\ Executing'
    BY <1>2, <2>4, <2>5, <2>7 DEF LatestDraft, Vetted, Executing
  <2>10. RunOfDraft'
    <3>1. ch'.run.feed = ch.catalog /\ ch'.run.feed # NoProposal /\ ch'.run.feed.draft = ch'.drafts
      BY <1>2, <2>2, <2>6, <2>7
    <3>2. ch'.drafts \in Nat
      BY <2>6 DEF Channels
    <3>3. \A r \in tx'.runs : r.status # "unknown"
      BY <2>2, <2>5 DEF Inv, RunOfDraft
    <3>4. \E r \in tx'.runs : r.feed = ch'.run.feed
      BY <2>5, <2>6
    <3> QED BY <2>4, <3>1, <3>2, <3>3, <3>4 DEF RunOfDraft
  <2>11. PackagesHaveARun'
    BY <2>4 DEF Inv, PackagesHaveARun
  <2> QED BY <2>8, <2>9, <2>10, <2>11 DEF Inv
<1> QED BY <1>3, <1>4

\* The run read back is of the same feed; it is unknown only when the open
\* transaction does not hold it, and then it is of an earlier draft.
LEMMA MonitorInv == ASSUME Inv, MonitorFirstRun PROVE Inv'
<1> USE DEF Scripting, Approval, Reviewed, Checking, Following, Executed, Nodes
<1>1. TypeOK /\ ch \in Channels /\ tx \in Rows /\ at = "monitor_first_run"
  BY DEF Inv, TypeOK, MonitorFirstRun, Runs
<1>2. PICK r \in LogsRead(ch.run) : Record([ch EXCEPT !.run = r], "test_review")
  BY DEF MonitorFirstRun
<1>3. ch.run.feed # NoProposal /\ ch.run \in [feed : Proposals \cup {NoProposal}, status : RunStatus]
  BY <1>1 DEF Inv, RunOfDraft, Channels
<1>4. /\ r \in [feed : Proposals \cup {NoProposal}, status : RunStatus] /\ r.feed = ch.run.feed
      /\ r.status = "unknown" => r.feed.draft < ch.drafts
  <2> DEFINE found == {l \in tx.runs : l.feed = ch.run.feed}
  <2>1. CASE found = {}
    <3>1. r = [ch.run EXCEPT !.status = "unknown"]
      BY <2>1 DEF LogsRead
    <3>2. ch.run.feed.draft < ch.drafts
      BY <1>1, <2>1 DEF Inv, RunOfDraft
    <3> QED BY <1>3, <3>1, <3>2 DEF RunStatus
  <2>2. CASE found # {}
    <3>1. r \in found
      BY <2>2 DEF LogsRead
    <3>2. r.status # "unknown"
      BY <3>1 DEF Inv, RunOfDraft
    <3> QED BY <1>1, <3>1, <3>2 DEF Rows
  <2> QED BY <2>1, <2>2
<1>5. [ch EXCEPT !.run = r] \in Channels
  BY <1>1, <1>4 DEF Channels
<1>6. TypeOK'
  BY <1>1, <1>2, <1>5, RecordTyped DEF MonitorFirstRun
<1>7. /\ ch'.run = r /\ ch'.proposal = ch.proposal /\ ch'.drafts = ch.drafts /\ ch'.catalog = ch.catalog
      /\ at' = "test_review" /\ UNCHANGED <<tx, packages>>
  BY <1>1, <1>2 DEF Record, Checkpoint, Channels
<1>8. LatestDraft' /\ Vetted' /\ Executing' /\ PackagesHaveARun'
  BY <1>1, <1>7 DEF Inv, LatestDraft, Vetted, Executing, PackagesHaveARun
<1>9. RunOfDraft'
  BY <1>1, <1>4, <1>7 DEF Inv, RunOfDraft
<1> QED BY <1>6, <1>8, <1>9 DEF Inv

\* A failed run is always a failed review.
LEMMA ReviewInv == ASSUME Inv, TestReview PROVE Inv'
<1> USE DEF Scripting, Approval, Reviewed, Checking, Following, Executed, Nodes
<1>1. TypeOK /\ ch \in Channels /\ at = "test_review"
  BY DEF Inv, TypeOK, TestReview, Runs
<1>2. PICK v \in Verdicts(ch.run.status) : Record([ch EXCEPT !.verdict = v], "emit_package")
  BY DEF TestReview
<1>3. v \in {"passed", "failed"} /\ (ch.run.status = "failed" => v = "failed")
  <2>1. CASE ch.run.status = "failed"
    BY ONLY <1>2, <2>1 DEF Verdicts
  <2>2. CASE ch.run.status = "partial"
    BY ONLY <1>2, <2>2 DEF Verdicts
  <2>3. CASE ch.run.status \notin {"failed", "partial"}
    <3>1. Verdicts(ch.run.status) = {"passed"}
      BY ONLY <2>3 DEF Verdicts
    <3> QED BY ONLY <1>2, <2>3, <3>1
  <2> QED BY <2>1, <2>2, <2>3
<1>4. [ch EXCEPT !.verdict = v] \in Channels
  BY <1>1, <1>3 DEF Channels
<1>5. TypeOK'
  BY <1>1, <1>2, <1>4, RecordTyped DEF TestReview
<1>6. /\ ch'.run = ch.run /\ ch'.proposal = ch.proposal /\ ch'.drafts = ch.drafts
      /\ ch'.catalog = ch.catalog /\ ch'.verdict = v
      /\ at' = "emit_package" /\ UNCHANGED <<tx, packages>>
  BY <1>1, <1>2 DEF Record, Checkpoint, Channels
<1>7. LatestDraft' /\ Vetted' /\ Executing' /\ PackagesHaveARun'
  BY <1>1, <1>6 DEF Inv, LatestDraft, Vetted, Executing, PackagesHaveARun
<1>8. RunOfDraft'
  <2>1. ch'.verdict # "failed" => ch'.run.status # "failed"
    BY <1>3, <1>6
  <2> QED BY <1>1, <1>6, <2>1 DEF Inv, RunOfDraft
<1> QED BY <1>5, <1>7, <1>8 DEF Inv

\* What is packaged is the latest draft, with its run or an earlier one.
LEMMA EmitInv == ASSUME Inv, EmitPackage PROVE Inv'
<1> USE DEF Scripting, Approval, Reviewed, Checking, Following, Executed, Nodes
<1> DEFINE package == [catalog |-> ch.catalog, run |-> ch.run]
<1>1. TypeOK /\ ch \in Channels /\ at = "emit_package" /\ ch.verdict # "failed"
  BY DEF Inv, TypeOK, EmitPackage, Runs
<1>2. /\ packages' = packages \cup {package} /\ ch' = ch /\ at' = END /\ steps' = steps + 1
      /\ steps < RecursionLimit /\ UNCHANGED <<messages, operator, env, tx, selectors>>
  BY DEF EmitPackage, SavePackage, Checkpoint, Runs
<1>3. /\ ch.proposal # NoProposal /\ ch.proposal.draft = ch.drafts /\ ch.catalog = ch.proposal
      /\ ch.run.feed # NoProposal
  BY <1>1 DEF Inv, LatestDraft, Executing, RunOfDraft
<1>4. package \in [catalog : Proposals, run : [feed : Proposals, status : RunStatus]]
  BY <1>1, <1>3 DEF Channels
<1>5. TypeOK'
  BY <1>1, <1>2, <1>4 DEF TypeOK, END
<1>6. PackagesHaveARun'
  <2>1. /\ ch.run.status # "failed" /\ ch.run.feed.draft <= ch.drafts
        /\ ch.run.status = "unknown" => ch.run.feed.draft < ch.drafts
    BY <1>1, <1>3 DEF Inv, RunOfDraft
  <2> QED BY <1>2, <1>3, <2>1 DEF Inv, PackagesHaveARun
<1>7. LatestDraft' /\ Vetted' /\ Executing' /\ RunOfDraft'
  BY <1>2 DEF Inv, LatestDraft, Vetted, Executing, RunOfDraft, END
<1> QED BY <1>5, <1>6, <1>7 DEF Inv

\* Every step, or none, keeps the invariant.
LEMMA StepInv == Inv /\ [OnboardingNext]_onboardingVars => Inv'
<1> SUFFICES ASSUME Inv, [OnboardingNext]_onboardingVars PROVE Inv'
  OBVIOUS
<1>1. CASE UNCHANGED onboardingVars
  <2> QED BY <1>1 DEF onboardingVars, Inv, TypeOK, LatestDraft, Vetted, Executing, RunOfDraft, PackagesHaveARun
<1>2. CASE RunNode
  BY <1>2, ResearchInv, DraftInv, VettingInv, GatesInv, CorrectionInv, ApplyInv, TriggerInv,
     MonitorInv, ReviewInv, EmitInv DEF RunNode
<1>3. CASE OnboardingNext /\ ~RunNode
  BY <1>3, SessionInv DEF OnboardingNext
<1> QED BY <1>1, <1>2, <1>3

\* The invariant holds in every reachable state.
LEMMA InvCorrect == OnboardingSpec => []Inv
BY InitInv, StepInv, PTL DEF OnboardingSpec

-----------------------------------------------------------------------------
(* What follows *)

\* Every state of the graph, its checkpoint, its transaction and its packages
\* is well typed.
THEOREM TypeCorrect == OnboardingSpec => []TypeOK
<1>1. Inv => TypeOK
  BY DEF Inv
<1> QED BY <1>1, InvCorrect, PTL

\* However many drafts, redrafts, renames, refused scripts and resumed sessions
\* came before, what an approval carries out was reviewed, and its script drafted
\* and validated, as it is.
THEOREM ReviewedCorrect == OnboardingSpec => []ReviewedAsApproved
<1>1. Inv => ReviewedAsApproved
  BY DEF Inv, LatestDraft, Vetted, ReviewedAsApproved, Scripting, Checking, Reviewed, Approval
<1> QED BY <1>1, InvCorrect, PTL

\* No package reports a failed run, nor an unknown run of the draft it packages.
THEOREM PackagesCorrect == OnboardingSpec => []PackagesHaveARun
<1>1. Inv => PackagesHaveARun
  BY DEF Inv
<1> QED BY <1>1, InvCorrect, PTL

-----------------------------------------------------------------------------
(* The graph implements its human gate *)

\* Between approvals, a step that changes neither the proposal nor what is
\* written or packaged is none of the gate's.
LEMMA Quiet ==
  ASSUME at \notin Approval, at' \notin Approval, ch'.proposal = ch.proposal,
         tx'.series = tx.series, UNCHANGED packages
  PROVE  UNCHANGED Gate!gateVars
BY DEF Approval, Gate!gateVars

\* The session's loop: an end of the process loses what was not committed.
LEMMA SessionGated ==
  ASSUME Inv, StartSession \/ SendMessage \/ SaveAndExit \/ AfterInvoke \/ ProcessDies \/ OperatorActs
  PROVE  [Gate!GateNext]_Gate!gateVars
<1> USE DEF Approval
<1>1. ch \in Channels
  BY DEF Inv, TypeOK
<1>2. CASE StartSession \/ OperatorActs
  BY <1>2, Quiet DEF StartSession, OperatorActs
<1>3. CASE SendMessage
  <2>1. ch'.proposal = ch.proposal
    BY <1>1, <1>3 DEF SendMessage, Channels
  <2> QED BY <1>3, <2>1, Quiet DEF SendMessage
<1>4. CASE AfterInvoke /\ ~EndProcess
  BY <1>4, Quiet DEF AfterInvoke
<1>5. CASE EndProcess /\ UNCHANGED <<ch, packages>>
  <2>1. tx'.series = {} /\ at' \notin Approval
    BY <1>5 DEF EndProcess, NoRows
  <2>2. Gate!Lose
    BY <1>5, <2>1 DEF Gate!Lose
  <2> QED BY <2>2 DEF Gate!GateNext
<1> QED BY <1>2, <1>3, <1>4, <1>5 DEF SaveAndExit, AfterInvoke, ProcessDies

\* The nodes that leave the proposal and its approval as they are.
LEMMA QuietNodes ==
  ASSUME Inv,
         \/ Research \/ CredentialGapWait \/ GatherReferenceMetadata \/ ClassifyExtractionMode
         \/ EnumGapWait \/ DraftScript \/ ValidateScript \/ GovernanceReview \/ DataCorrectnessReview
         \/ DangerousCorrectionPlan \/ Gate2Wait \/ DangerousCorrectionExecutor
         \/ TriggerFirstRun \/ MonitorFirstRun \/ TestReview
  PROVE  UNCHANGED Gate!gateVars
<1> USE DEF Approval
<1>1. ch \in Channels /\ tx \in Rows
  BY DEF Inv, TypeOK
<1>2. at \notin Approval /\ UNCHANGED packages
  BY DEF Research, CredentialGapWait, GatherReferenceMetadata, ClassifyExtractionMode, EnumGapWait,
         DraftScript, ValidateScript, GovernanceReview, DataCorrectnessReview, DangerousCorrectionPlan,
         Gate2Wait, DangerousCorrectionExecutor, TriggerFirstRun, MonitorFirstRun, TestReview,
         Record, Runs
<1>3. CASE Research \/ CredentialGapWait \/ GatherReferenceMetadata \/ ClassifyExtractionMode \/ EnumGapWait
  <2>1. at' \notin Approval
    BY <1>3 DEF Research, CredentialGapWait, GatherReferenceMetadata, ClassifyExtractionMode, EnumGapWait,
           Record, Checkpoint, END, EdgeFromResearch, EdgeFromCredentialGapWait, EdgeFromEnumGapWait
  <2>2. tx'.series = tx.series
    <3>1. ASSUME NEW x, RecordCredentialGap(x) PROVE tx'.series = tx.series
      BY <1>1, <3>1 DEF RecordCredentialGap, Rows
    <3> QED BY <1>3, <3>1 DEF Research, CredentialGapWait, GatherReferenceMetadata,
                              ClassifyExtractionMode, EnumGapWait, Record
  <2>3. ch'.proposal = ch.proposal
    <3>1. CASE Research
      BY <1>1, <3>1 DEF Research, Record, Checkpoint, Charged, Channels
    <3>2. CASE CredentialGapWait
      BY <1>1, <3>2 DEF CredentialGapWait, Record, Checkpoint, Channels
    <3>3. CASE GatherReferenceMetadata
      BY <3>3 DEF GatherReferenceMetadata, Record, Checkpoint
    <3>4. CASE ClassifyExtractionMode
      BY <1>1, <3>4 DEF ClassifyExtractionMode, Record, Checkpoint, Channels
    <3>5. CASE EnumGapWait
      BY <1>1, <3>5, EnumGapRecorded DEF Record, Checkpoint
    <3> QED BY <1>3, <3>1, <3>2, <3>3, <3>4, <3>5
  <2> QED BY <1>2, <2>1, <2>2, <2>3, Quiet
<1>4. CASE DraftScript \/ GovernanceReview \/ DataCorrectnessReview
  <2>1. ch'.proposal = ch.proposal
    BY <1>1, <1>4 DEF DraftScript, GovernanceReview, DataCorrectnessReview, Record, Checkpoint, Charged, Channels
  <2> QED BY <1>2, <1>4, <2>1, Quiet DEF DraftScript, GovernanceReview, DataCorrectnessReview, Record, Checkpoint
<1>5. CASE ValidateScript
  <2>1. ch'.proposal = ch.proposal
    BY <1>1, <1>5 DEF ValidateScript, Record, Checkpoint, Channels
  <2>2. at' \notin Approval /\ UNCHANGED tx
    BY <1>5 DEF ValidateScript, Record, Checkpoint, EdgeFromValidate, END
  <2> QED BY <1>2, <2>1, <2>2, Quiet
<1>6. CASE DangerousCorrectionPlan \/ DangerousCorrectionExecutor
  <2>1. ch'.proposal = ch.proposal
    BY <1>1, <1>6 DEF DangerousCorrectionPlan, DangerousCorrectionExecutor, Record, Checkpoint, Channels
  <2> QED BY <1>2, <1>6, <2>1, Quiet DEF DangerousCorrectionPlan, DangerousCorrectionExecutor, Record, Checkpoint, END
<1>7. CASE Gate2Wait
  <2>1. ch'.proposal = ch.proposal
    BY <1>1, <1>7 DEF Gate2Wait, Record, Checkpoint, Channels
  <2>2. at' \notin Approval /\ UNCHANGED tx
    BY <1>7 DEF Gate2Wait, Record, Checkpoint, EdgeFromGate2, END
  <2> QED BY <1>2, <2>1, <2>2, Quiet
<1>8. CASE TriggerFirstRun
  <2>1. ch'.proposal = ch.proposal /\ at' \notin Approval
    BY <1>1, <1>8 DEF TriggerFirstRun, Record, Checkpoint, Channels
  <2>2. tx'.series = tx.series
    BY <1>1, <1>8 DEF TriggerFirstRun, Record, Rows
  <2> QED BY <1>2, <2>1, <2>2, Quiet
<1>9. CASE MonitorFirstRun \/ TestReview
  <2>1. ch'.proposal = ch.proposal
    BY <1>1, <1>9 DEF MonitorFirstRun, TestReview, Record, Checkpoint, Channels
  <2> QED BY <1>2, <1>9, <2>1, Quiet DEF MonitorFirstRun, TestReview, Record, Checkpoint
<1> QED BY <1>3, <1>4, <1>5, <1>6, <1>7, <1>8, <1>9

\* A draft or a small edit revises the proposal, when nothing is approved.
LEMMA RevisionGated ==
  ASSUME Inv, DraftProposal \/ ApplySmallEdit
  PROVE  Gate!Revise
<1> USE DEF Approval
<1>1. at \notin Approval /\ at' \notin Approval /\ UNCHANGED <<tx, packages>>
  BY DEF DraftProposal, ApplySmallEdit, Runs, Record, Checkpoint, EdgeFromDraft, EdgeFromSmallEdit
<1>2. Inv'
  BY DraftInv, GatesInv
<1>3. ch'.proposal \in Proposals \cup {NoProposal}
  BY <1>2 DEF Inv, TypeOK, Channels
<1>4. \/ {ch'.proposal} \ {NoProposal} = {}
      \/ \E p \in Proposals : {ch'.proposal} \ {NoProposal} = {p}
  BY <1>3
<1> QED BY <1>1, <1>4 DEF Gate!Revise

\* The gate: an approval grants the proposal under discussion, anything else
\* leaves no approval.
LEMMA Gate1Gated ==
  ASSUME Inv, Gate1Wait
  PROVE  Gate!Grant \/ UNCHANGED Gate!gateVars
<1>1. ch \in Channels /\ ch.proposal # NoProposal /\ at = "gate_1_wait"
  BY DEF Inv, TypeOK, LatestDraft, Gate1Wait, Runs, Checking, Reviewed
<1>2. /\ ch'.proposal = ch.proposal /\ at' = EdgeFromGate1(ch') /\ UNCHANGED <<tx, packages>>
  BY <1>1 DEF Gate1Wait, Record, Checkpoint, Channels
<1>3. CASE ch'.outcome1 = "approve"
  <2>1. at' = "unapproval_window"
    BY <1>2, <1>3 DEF EdgeFromGate1
  <2> QED BY <1>1, <1>2, <1>3, <2>1 DEF Gate!Grant
<1>4. CASE ch'.outcome1 # "approve"
  <2>1. at' \notin Approval
    BY <1>2, <1>4 DEF EdgeFromGate1, END, Approval
  <2> QED BY <1>1, <1>2, <2>1, Quiet DEF Approval
<1> QED BY <1>3, <1>4

\* What is written is what was approved; what is packaged was written.
LEMMA WritesGated ==
  ASSUME Inv
  PROVE  /\ UnapprovalWindow => UNCHANGED Gate!gateVars
         /\ ApplyCatalog => Gate!Write
         /\ EmitPackage => Gate!Package
<1>1. ch \in Channels /\ tx \in Rows
  BY DEF Inv, TypeOK
<1>2. ASSUME UnapprovalWindow PROVE UNCHANGED Gate!gateVars
  <2>1. /\ ch'.proposal = ch.proposal /\ ch'.outcome1 = ch.outcome1 /\ UNCHANGED <<tx, packages>>
        /\ at = "unapproval_window" /\ at' = "apply_catalog"
    BY <1>1, <1>2 DEF UnapprovalWindow, Runs, Record, Checkpoint, Channels
  <2> QED BY <2>1 DEF Gate!gateVars
<1>3. ASSUME ApplyCatalog PROVE Gate!Write
  <2>1. at = "apply_catalog" /\ at' = "trigger_first_run" /\ ch.outcome1 = "approve" /\ ch.proposal # NoProposal
    BY <1>3 DEF Inv, Vetted, LatestDraft, ApplyCatalog, Runs, Checkpoint, Approval, Reviewed, Checking
  <2>2. /\ ch'.proposal = ch.proposal /\ UNCHANGED packages
        /\ tx'.series = tx.series \cup {ch.proposal}
    BY <1>1, <1>3 DEF ApplyCatalog, Checkpoint, Channels, Rows
  <2> QED BY <2>1, <2>2 DEF Gate!Write
<1>4. ASSUME EmitPackage PROVE Gate!Package
  <2>1. /\ at = "emit_package" /\ at' = END /\ ch' = ch /\ UNCHANGED tx
        /\ packages' = packages \cup {[catalog |-> ch.catalog, run |-> ch.run]}
    BY <1>4 DEF EmitPackage, Runs, Checkpoint, SavePackage
  <2>2. ch.catalog \in tx.series
    BY <2>1 DEF Inv, Executing, Executed, Following
  <2>3. {p.catalog : p \in packages'} = {p.catalog : p \in packages} \cup {ch.catalog}
    <3> DEFINE package == [catalog |-> ch.catalog, run |-> ch.run]
    <3>1. package.catalog = ch.catalog /\ packages' = packages \cup {package}
      BY <2>1
    <3> HIDE DEF package
    <3>2. \A x : (\E p \in packages' : x = p.catalog) <=> x = ch.catalog \/ \E p \in packages : x = p.catalog
      BY ONLY <3>1
    <3> QED BY ONLY <3>2
  <2> QED BY <2>1, <2>2, <2>3 DEF Gate!Package, END
<1> QED BY <1>2, <1>3, <1>4

\* The gated graph implements the human gate: nothing reaches the catalog but
\* under an outstanding approval of it, and only what is written is packaged.
THEOREM GateCorrect == OnboardingSpec => ImplementsGatedApproval
<1>1. OnboardingInit => Gate!GateInit
  BY DEF OnboardingInit, NoRows, Gate!GateInit
<1>2. Inv /\ [OnboardingNext]_onboardingVars => [Gate!GateNext]_Gate!gateVars
  <2> SUFFICES ASSUME Inv, [OnboardingNext]_onboardingVars PROVE [Gate!GateNext]_Gate!gateVars
    OBVIOUS
  <2>1. CASE UNCHANGED onboardingVars
    BY <2>1 DEF onboardingVars, Gate!gateVars
  <2>2. CASE RunNode
    BY <2>2, QuietNodes, RevisionGated, Gate1Gated, WritesGated DEF RunNode, Gate!GateNext
  <2>3. CASE OnboardingNext /\ ~RunNode
    BY <2>3, SessionGated DEF OnboardingNext
  <2> QED BY <2>1, <2>2, <2>3
<1> QED BY <1>1, <1>2, InvCorrect, PTL DEF OnboardingSpec, ImplementsGatedApproval, Gate!GateSpec
=============================================================================
