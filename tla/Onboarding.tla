------------------------------ MODULE Onboarding ------------------------------
(***************************************************************************)
(* The gated onboarding graph of the retired agent package (ADR 0011): the *)
(* CLI loop that feeds operator messages to a checkpointed LangGraph, its  *)
(* 21 nodes, the edges between them, and a process that may end at any     *)
(* point.  A node is one action; what it returns is merged into the        *)
(* channels "ch", which are the checkpoint, so they survive the process.   *)
(* Every message restarts the graph at its first node over the channels    *)
(* the earlier messages left.                                              *)
(*                                                                         *)
(* A proposal is the number of its draft and whether a small edit renamed  *)
(* it; LLM answers, pickers and probes are choices.                        *)
(***************************************************************************)
EXTENDS Naturals, FiniteSets

CONSTANTS Providers,       \* providers a message may need credentials for
          EnumPaths,       \* enums a draft may find a value missing in
          EnumSeams,       \* enum_gap_wait was built with its verifier and resolver
          UniqueChecker,   \* a uniqueness checker was injected
          RuntimeDir,      \* a directory to promote selectors to was injected
          ReviewCap,       \* 3 in the code
          RecursionLimit,  \* supersteps LangGraph allows one invocation
          CostCap,         \* --cost-cap, in LLM calls
          MaxMessages,     \* bound: operator messages over the thread's life
          MaxDrafts,       \* bound: drafts and plans over the thread's life
          Aborted          \* marks the resolution of a refused credential gap

ASSUME OnboardingAssumption ==
  /\ EnumSeams \in BOOLEAN /\ UniqueChecker \in BOOLEAN /\ RuntimeDir \in BOOLEAN
  /\ ReviewCap \in Nat /\ RecursionLimit \in Nat /\ CostCap \in Nat \ {0}
  /\ MaxMessages \in Nat /\ MaxDrafts \in Nat
  /\ Aborted \notin Providers

VARIABLES at,        \* the node to run next, "prompt", "returned" or "down"
          steps,     \* supersteps of the current or last invocation
          ch,        \* the graph's channels, as the last checkpoint has them
          messages,  \* operator messages so far
          operator,  \* what the operator has done out of band
          env,       \* the part of it this process loaded when it started
          tx,        \* rows in the open transaction of the CLI's session
          selectors, \* drafts whose selector was copied into the runtime
          packages   \* packages saved to disk

onboardingVars ==
  <<at, steps, ch, messages, operator, env, tx, selectors, packages>>

Nodes == {"research", "credential_gap_wait", "gather_reference_metadata",
          "classify_extraction_mode", "draft_proposal", "enum_gap_wait",
          "draft_script", "validate_script", "governance_review",
          "data_correctness_review", "gate_1_wait", "apply_small_edit",
          "dangerous_correction_plan", "gate_2_wait",
          "dangerous_correction_executor", "unapproval_window",
          "apply_catalog", "trigger_first_run", "monitor_first_run",
          "test_review", "emit_package"}

END == "returned"

Proposals == [draft : 1..MaxDrafts, renamed : BOOLEAN]
NoProposal == [draft |-> 0, renamed |-> FALSE]
RunStatus == {"success", "partial", "failed", "unknown"}
NoRun == [feed |-> NoProposal, status |-> "unknown"]
Texts == {"structural", "rename", "other"}
Gate1Outcomes == {"none", "approve", "reject", "request_changes",
                  "permit_further_cycle"}
Gate2Outcomes == {"none", "approve", "reject", "request_changes"}

Channels ==
  [text : Texts \cup {"none"},
   credGaps : SUBSET Providers, credRes : SUBSET (Providers \cup {Aborted}),
   mode : {"none", "config_only", "custom_python"},
   proposal : Proposals \cup {NoProposal}, drafts : 0..MaxDrafts,
   enumGaps : SUBSET EnumPaths, enumRes : SUBSET EnumPaths,
   hints : SUBSET EnumPaths, paused : BOOLEAN, aborted : BOOLEAN,
   script : 0..MaxDrafts, validation : {"none", "ok", "failed"},
   cycle : Nat, governed : 0..MaxDrafts, checked : 0..MaxDrafts,
   outcome1 : Gate1Outcomes, approved : BOOLEAN, applied : BOOLEAN,
   challenged : BOOLEAN, plan : 0..MaxDrafts,
   outcome2 : Gate2Outcomes, approved2 : BOOLEAN, repaired : 0..MaxDrafts,
   catalog : Proposals \cup {NoProposal},
   run : [feed : Proposals \cup {NoProposal}, status : RunStatus],
   verdict : {"none", "passed", "failed"}, spent : 0..CostCap]

Rows == [series : SUBSET Proposals, credentials : SUBSET Providers,
         gaps : SUBSET Providers,
         runs : SUBSET [feed : Proposals, status : RunStatus]]
NoRows == [series |-> {}, credentials |-> {}, gaps |-> {}, runs |-> {}]
Outside == [creds : SUBSET Providers, enums : SUBSET EnumPaths]
Nothing == [creds |-> {}, enums |-> {}]
-------------------------------------------------------------------------------
(* The CLI's loop and its process *)

OnboardingInit ==
  /\ at = "down" /\ steps = 0 /\ messages = 0
  /\ ch = [text |-> "none", credGaps |-> {}, credRes |-> {}, mode |-> "none",
           proposal |-> NoProposal, drafts |-> 0, enumGaps |-> {},
           enumRes |-> {}, hints |-> {}, paused |-> FALSE, aborted |-> FALSE,
           script |-> 0, validation |-> "none", cycle |-> 0, governed |-> 0,
           checked |-> 0, outcome1 |-> "none", approved |-> FALSE,
           applied |-> FALSE, challenged |-> FALSE, plan |-> 0,
           outcome2 |-> "none", approved2 |-> FALSE, repaired |-> 0,
           catalog |-> NoProposal, run |-> NoRun, verdict |-> "none",
           spent |-> 0]
  /\ operator = Nothing /\ env = Nothing /\ tx = NoRows
  /\ selectors = {} /\ packages = {}

\* A new session or --resume: the thread's channels are read back, the
\* environment is loaded once, and the cost so far is taken to be zero.
StartSession ==
  /\ at = "down" /\ at' = "prompt" /\ steps' = 0
  /\ env' = operator
  /\ UNCHANGED <<ch, messages, operator, tx, selectors, packages>>

\* An input discards what an unfinished invocation had left to run.
SendMessage ==
  /\ at = "prompt" /\ messages < MaxMessages
  /\ \E t \in Texts : ch' = [ch EXCEPT !.text = t]
  /\ messages' = messages + 1
  /\ at' = "research" /\ steps' = 0
  /\ UNCHANGED <<operator, env, tx, selectors, packages>>

\* The session is closed and nothing on this path has committed it.
EndProcess == at' = "down" /\ tx' = NoRows

SaveAndExit ==
  /\ at = "prompt" /\ EndProcess
  /\ UNCHANGED <<steps, ch, messages, operator, env, selectors, packages>>

AfterInvoke ==
  /\ at = "returned"
  /\ IF ch.spent >= CostCap THEN EndProcess ELSE at' = "prompt" /\ UNCHANGED tx
  /\ UNCHANGED <<steps, ch, messages, operator, env, selectors, packages>>

\* A node raises, the recursion limit is hit, or the process is killed:
\* nothing the current node returned is kept.
ProcessDies ==
  /\ at \in Nodes \cup {"returned"} /\ EndProcess
  /\ UNCHANGED <<steps, ch, messages, operator, env, selectors, packages>>

\* The operator sets a credential or widens an enum outside the session.  A
\* process sees it only when it starts, so it is enough to let him act then.
OperatorActs ==
  /\ at = "down"
  /\ \/ \E p \in Providers : operator' = [operator EXCEPT !.creds = @ \cup {p}]
     \/ \E e \in EnumPaths : operator' = [operator EXCEPT !.enums = @ \cup {e}]
  /\ UNCHANGED <<at, steps, ch, messages, env, tx, selectors, packages>>
-------------------------------------------------------------------------------
(* Running a node: its update is checkpointed and its edge is taken *)

Runs(node) == at = node /\ steps < RecursionLimit

\* Mutant: supersteps are not counted.
CheckpointUncounted(update, next) ==
  /\ ch' = update /\ at' = next /\ UNCHANGED <<steps, messages, operator, env>>

Checkpoint(update, next) ==
  /\ ch' = update /\ at' = next /\ steps' = steps + 1
  /\ UNCHANGED <<messages, operator, env>>

Record(update, next) ==
  Checkpoint(update, next) /\ UNCHANGED <<tx, selectors, packages>>

\* llm_calls is append-only; only its total against the cap matters here.
Charged(c) == [c EXCEPT !.spent = IF @ < CostCap THEN @ + 1 ELSE @]

EdgeFromResearch(c) ==
  IF c.credGaps # {} /\ c.credRes = {} THEN "credential_gap_wait"
  ELSE "gather_reference_metadata"

EdgeFromCredentialGapWait(c) ==
  IF c.aborted \/ c.credRes = {} THEN END ELSE "research"

\* Mutant: a redraft goes straight back to the gate.
EdgeFromRedraft(c) ==
  IF c.enumGaps # {} THEN "enum_gap_wait"
  ELSE IF c.mode = "custom_python" THEN "draft_script"
  ELSE IF c.cycle > 0 THEN "gate_1_wait" ELSE "governance_review"

EdgeFromDraft(c) ==
  IF c.enumGaps # {} THEN "enum_gap_wait"
  ELSE IF c.mode = "custom_python" THEN "draft_script" ELSE "governance_review"

EdgeFromEnumGapWait(c) == IF c.paused \/ c.aborted THEN END ELSE "draft_proposal"

EdgeFromValidate(c) ==
  IF c.validation = "ok" THEN "governance_review"
  ELSE IF c.cycle < ReviewCap THEN "draft_script" ELSE END

\* Mutant: the flag decides, which an earlier approval left set.
EdgeFromGate1Sticky(c) ==
  CASE c.approved -> "unapproval_window"
    [] c.outcome1 = "request_changes" /\ c.text = "structural" -> "draft_proposal"
    [] c.outcome1 = "request_changes" /\ c.text # "structural" -> "apply_small_edit"
    [] OTHER -> END

EdgeFromGate1(c) ==
  CASE c.outcome1 = "approve" -> "unapproval_window"
    [] c.outcome1 = "request_changes" ->
         IF c.text = "structural" THEN "draft_proposal" ELSE "apply_small_edit"
    [] OTHER -> END

EdgeFromSmallEdit(c) ==
  IF c.challenged THEN "dangerous_correction_plan" ELSE "gate_1_wait"

EdgeFromGate2(c) ==
  CASE c.outcome2 = "approve" -> "dangerous_correction_executor"
    [] c.outcome2 = "request_changes" -> "dangerous_correction_plan"
    [] OTHER -> END
-------------------------------------------------------------------------------
(* Research and drafting *)

Research ==
  /\ Runs("research")
  /\ \E gaps \in SUBSET Providers :
       LET c == Charged([ch EXCEPT !.credGaps = gaps])
       IN Record(c, EdgeFromResearch(c))

\* What a probe of the credentials this process loaded may find working.
ProbedOK(gaps) == SUBSET (gaps \cap env.creds)

RecordCredentialGap(p) == tx' = [tx EXCEPT !.gaps = @ \cup {p}]

\* Each provider's credential is looked up in what the process loaded and
\* probed; the first that is missing or fails asks the operator, who waits
\* (an audit row, and no resolution of the others either) or aborts.
CredentialGapWait ==
  /\ Runs("credential_gap_wait")
  /\ \E probed \in ProbedOK(ch.credGaps) :
       \/ /\ probed = ch.credGaps
          /\ LET c == [ch EXCEPT !.credRes = ch.credGaps]
             IN Record(c, EdgeFromCredentialGapWait(c))
       \/ \E p \in ch.credGaps \ probed :
            \/ /\ RecordCredentialGap(p)
               /\ Checkpoint(ch, EdgeFromCredentialGapWait(ch))
               /\ UNCHANGED <<selectors, packages>>
            \/ LET c == [ch EXCEPT !.credRes = {Aborted}]
               IN Record(c, EdgeFromCredentialGapWait(c))

GatherReferenceMetadata ==
  Runs("gather_reference_metadata") /\ Record(ch, "classify_extraction_mode")

ClassifyExtractionMode ==
  /\ Runs("classify_extraction_mode")
  /\ \E m \in {"config_only", "custom_python"} :
       Record([ch EXCEPT !.mode = m], "draft_proposal")

\* Paths the operator has coerced are not reported again.
Reportable == EnumPaths \ ch.hints

\* A draft with a missing enum value leaves no proposal.
DraftProposal ==
  /\ Runs("draft_proposal") /\ ch.drafts < MaxDrafts
  /\ \E gaps \in SUBSET Reportable :
       LET n == ch.drafts + 1
           c == Charged([ch EXCEPT !.drafts = n, !.enumGaps = gaps,
                  !.proposal = IF gaps = {} THEN [draft |-> n, renamed |-> FALSE]
                               ELSE NoProposal])
       IN Record(c, EdgeFromDraft(c))

\* Only a gap not resolved yet is looked up in the enum and the database.
VerifiedGaps(gaps) == IF EnumSeams THEN gaps \cap env.enums ELSE {}

\* Gaps resolved before count as resolved, whatever the resolution was; the
\* pause leaves checkpoint_position behind and nothing ever clears it.
EnumGapWait ==
  /\ Runs("enum_gap_wait")
  /\ LET verified == VerifiedGaps(ch.enumGaps \ ch.enumRes)
         pending  == (ch.enumGaps \ ch.enumRes) \ verified
         c0       == [ch EXCEPT !.enumRes = @ \cup verified]
         resolved == [c0 EXCEPT !.enumGaps = {}]
         coerced  == [c0 EXCEPT !.enumGaps = {}, !.enumRes = @ \cup pending,
                                !.hints = @ \cup pending]
         refused  == [c0 EXCEPT !.enumRes = @ \cup pending, !.aborted = TRUE]
         later    == [c0 EXCEPT !.paused = TRUE]
     IN \/ pending = {} /\ Record(resolved, EdgeFromEnumGapWait(resolved))
        \/ /\ pending # {}
           /\ \/ Record(later, EdgeFromEnumGapWait(later))
              \/ Record(refused, EdgeFromEnumGapWait(refused))
              \/ EnumSeams /\ Record(coerced, EdgeFromEnumGapWait(coerced))

DraftScript ==
  /\ Runs("draft_script")
  /\ Record(Charged([ch EXCEPT !.script = ch.drafts]), "validate_script")

ValidateScript ==
  /\ Runs("validate_script")
  /\ \E v \in {"ok", "failed"} :
       LET c == [ch EXCEPT !.validation = v] IN Record(c, EdgeFromValidate(c))

GovernanceReview ==
  /\ Runs("governance_review")
  /\ Record(Charged([ch EXCEPT !.cycle = @ + 1, !.governed = ch.proposal.draft]),
            "data_correctness_review")

DataCorrectnessReview ==
  /\ Runs("data_correctness_review")
  /\ Record(Charged([ch EXCEPT !.checked = ch.proposal.draft]), "gate_1_wait")
-------------------------------------------------------------------------------
(* The two gates *)

Gate1Options == {"approve", "reject"} \cup
  (IF ch.cycle >= ReviewCap THEN {"permit_further_cycle"} ELSE {"request_changes"})

Gate1Wait ==
  /\ Runs("gate_1_wait")
  /\ \E o \in Gate1Options :
       LET c == [ch EXCEPT !.outcome1 = o,
                           !.approved = @ \/ o = "approve",
                           !.applied = @ /\ o # "approve"]
       IN Record(c, EdgeFromGate1(c))

\* The instructions are the session's message: only a rename changes anything.
Edited(p) == IF ch.text = "rename" THEN [p EXCEPT !.renamed = TRUE] ELSE p

\* A collision is renamed or cancelled, which keeps the proposal as it was, or
\* challenged.
ApplySmallEdit ==
  /\ Runs("apply_small_edit")
  /\ LET edited  == Edited(ch.proposal)
         cleared == [ch EXCEPT !.outcome1 = "none", !.challenged = FALSE]
         clean   == [cleared EXCEPT !.proposal = edited]
         dispute == [ch EXCEPT !.proposal = edited, !.challenged = TRUE]
     IN \/ Record(clean, EdgeFromSmallEdit(clean))
        \/ /\ UniqueChecker
           /\ \/ Record(cleared, EdgeFromSmallEdit(cleared))
              \/ Record(dispute, EdgeFromSmallEdit(dispute))

DangerousCorrectionPlan ==
  /\ Runs("dangerous_correction_plan") /\ ch.plan < MaxDrafts
  /\ Record([ch EXCEPT !.plan = @ + 1], "gate_2_wait")

Gate2Wait ==
  /\ Runs("gate_2_wait")
  /\ \E o \in Gate2Outcomes \ {"none"} :
       LET c == [ch EXCEPT !.outcome2 = o, !.approved2 = @ \/ o = "approve"]
       IN Record(c, EdgeFromGate2(c))

DangerousCorrectionExecutor ==
  /\ Runs("dangerous_correction_executor")
  /\ Record([ch EXCEPT !.repaired = IF ch.approved2 THEN ch.plan ELSE @], END)
-------------------------------------------------------------------------------
(* After an approval *)

UnapprovalWindow ==
  Runs("unapproval_window") /\ Record([ch EXCEPT !.applied = FALSE], "apply_catalog")

ResolvedProviders(c) == c.credRes \ {Aborted}

\* The selector the state names is copied to the runtime before the catalog
\* is written; when its tests fail it is unlinked and the node raises, which
\* is a ProcessDies.
Promote(script) ==
  selectors' = IF RuntimeDir /\ script # 0 THEN selectors \cup {script} ELSE selectors

ApplyCatalog ==
  /\ Runs("apply_catalog") /\ ch.approved
  /\ Promote(ch.script)
  /\ tx' = [tx EXCEPT !.series = @ \cup {ch.proposal},
                      !.credentials = @ \cup ResolvedProviders(ch)]
  /\ Checkpoint([ch EXCEPT !.applied = TRUE, !.catalog = ch.proposal],
                "trigger_first_run")
  /\ UNCHANGED packages

\* A run log the state already names is kept, whichever feed it was of.
TriggerFirstRun ==
  /\ Runs("trigger_first_run")
  /\ \/ /\ ch.run.feed # NoProposal
        /\ Record(ch, "monitor_first_run")
     \/ /\ ch.run.feed = NoProposal /\ ch.applied /\ ch.catalog # NoProposal
        /\ \E s \in RunStatus \ {"unknown"} :
             LET run == [feed |-> ch.catalog, status |-> s]
             IN /\ tx' = [tx EXCEPT !.runs = @ \cup {run}]
                /\ Checkpoint([ch EXCEPT !.run = run], "monitor_first_run")
        /\ UNCHANGED <<selectors, packages>>

\* A run log that is not there any more is reported with status unknown.
LogsRead(run) ==
  LET found == {r \in tx.runs : r.feed = run.feed}
  IN IF found = {} THEN {[run EXCEPT !.status = "unknown"]} ELSE found

MonitorFirstRun ==
  /\ Runs("monitor_first_run")
  /\ \E r \in LogsRead(ch.run) : Record([ch EXCEPT !.run = r], "test_review")

\* Only a failed run, or an error text or diagnostic that says so, is hard.
Verdicts(status) ==
  CASE status = "failed"  -> {"failed"}
    [] status = "partial" -> {"passed", "failed"}
    [] OTHER -> {"passed"}

TestReview ==
  /\ Runs("test_review")
  /\ \E v \in Verdicts(ch.run.status) :
       Record([ch EXCEPT !.verdict = v], "emit_package")

SavePackage(package) == packages' = packages \cup {package}

\* Mutant: whatever the review says is packaged.
EmitPackageAnyway ==
  /\ Runs("emit_package")
  /\ SavePackage([catalog |-> ch.catalog, run |-> ch.run])
  /\ Checkpoint(ch, END)
  /\ UNCHANGED <<tx, selectors>>

\* A failed review is refused: the node raises, which is a ProcessDies.
EmitPackage ==
  /\ Runs("emit_package") /\ ch.verdict # "failed"
  /\ SavePackage([catalog |-> ch.catalog, run |-> ch.run])
  /\ Checkpoint(ch, END)
  /\ UNCHANGED <<tx, selectors>>
-------------------------------------------------------------------------------
RunNode == Research \/ CredentialGapWait \/ GatherReferenceMetadata
  \/ ClassifyExtractionMode \/ DraftProposal \/ EnumGapWait \/ DraftScript
  \/ ValidateScript \/ GovernanceReview \/ DataCorrectnessReview \/ Gate1Wait
  \/ ApplySmallEdit \/ DangerousCorrectionPlan \/ Gate2Wait
  \/ DangerousCorrectionExecutor \/ UnapprovalWindow \/ ApplyCatalog
  \/ TriggerFirstRun \/ MonitorFirstRun \/ TestReview \/ EmitPackage

OnboardingNext == StartSession \/ SendMessage \/ SaveAndExit \/ AfterInvoke
  \/ ProcessDies \/ OperatorActs \/ RunNode

OnboardingSpec == OnboardingInit /\ [][OnboardingNext]_onboardingVars

\* The event loop goes on: the next node runs or raises (a model call returns
\* or fails), and a returned invocation is left.
FairOnboardingSpec == OnboardingSpec
  /\ WF_onboardingVars(RunNode \/ AfterInvoke \/ ProcessDies)
-------------------------------------------------------------------------------
(* Properties *)

TypeOK ==
  /\ at \in Nodes \cup {"prompt", "returned", "down"}
  /\ steps \in 0..RecursionLimit /\ messages \in 0..MaxMessages
  /\ ch \in Channels
  /\ operator \in Outside /\ env \in Outside /\ tx \in Rows
  /\ selectors \subseteq 1..MaxDrafts
  /\ packages \subseteq
       [catalog : Proposals, run : [feed : Proposals, status : RunStatus]]

\* What the graph promises of its human gate (gate.py, executor.py): the
\* proposal is written only on an approval of it that is still outstanding.
\* An approval lives from gate_1_wait to apply_catalog, as the outcome of the
\* gate and not as gate_1_approved, which stays TRUE for the thread's life.
Gate == INSTANCE GatedApproval WITH
  Proposals <- Proposals,
  current   <- {ch.proposal} \ {NoProposal},
  granted   <- IF at \in {"unapproval_window", "apply_catalog"}
                  /\ ch.outcome1 = "approve"
               THEN {ch.proposal} \ {NoProposal} ELSE {},
  written   <- tx.series,
  packaged  <- {p.catalog : p \in packages}

ImplementsGatedApproval == Gate!GateSpec

\* Whatever drafts, sessions and refused scripts came before, the draft whose
\* approval is being executed is the one both reviews saw, and in the
\* custom_python mode the one whose script was drafted and passed (graph.py).
ReviewedAsApproved ==
  at \in {"unapproval_window", "apply_catalog"} =>
    /\ ch.governed = ch.proposal.draft /\ ch.checked = ch.proposal.draft
    /\ ch.mode = "custom_python" =>
         ch.validation = "ok" /\ ch.script = ch.proposal.draft

\* A saved package never reports a failed run, and one that reports a run log
\* nobody finds is of a draft whose feed was never run at all: the thread's
\* first run log is kept when a later draft is applied (executor.py).
PackagesHaveARun ==
  \A p \in packages :
    /\ p.run.status # "failed"
    /\ p.run.feed.draft <= p.catalog.draft
    /\ p.run.status = "unknown" => p.run.feed.draft < p.catalog.draft

\* An invocation ends although neither the loop of draft_script and
\* validate_script nor the one of gate_2_wait has a bound of its own.
EveryMessageEnds == at \in Nodes ~> at \in {"prompt", "down"}
===============================================================================
