---------------------------- MODULE ScopingGraph ----------------------------
(***************************************************************************)
(* The series-scoping conversation of the onboarding agent: a three-node   *)
(* graph (clarify_with_user, verify_identifier, write_series_brief) that   *)
(* runs once per user message, over a state that the conversation thread   *)
(* keeps from one message to the next.                                     *)
(*                                                                         *)
(* What a language model answers is a nondeterministic choice.  Texts are  *)
(* abstracted to the user turn they were written in, so that a text left   *)
(* over from an earlier turn can be told from a fresh one.                 *)
(***************************************************************************)
EXTENDS Integers

CONSTANTS MaxAttempts,  \* MAX_VERIFICATION_ATTEMPTS
          MaxTurns      \* bound on the user messages explored

ASSUME BoundsAssumption == MaxAttempts \in Nat /\ MaxTurns \in Nat

ScopingNodes == {"clarify", "verify", "brief"}
Empty == 0              \* the empty string, as a turn number

VARIABLES turn,         \* user messages so far
          node,         \* the node about to run; "end" between two messages
          conflict,     \* verification_conflict: the turn it was found in
          attempts,     \* verification_attempts, which saturates here
          asked,        \* need_clarification
          brief,        \* series_brief: the turn it was written in
          bounces,      \* history: trips of the back-edge, saturated like attempts
          unresolved,   \* history: the last turn sent past the cap
          broken        \* history: the turns a model call failed in

state == <<conflict, attempts, asked, brief>>
history == <<bounces, unresolved, broken>>
vars == <<turn, node, state, history>>

Turns == 0..MaxTurns

ScopingTypeOK ==
  /\ turn \in Turns
  /\ node \in ScopingNodes \cup {"end"}
  /\ conflict \in Turns
  /\ attempts \in 0..(MaxAttempts + 1)
  /\ asked \in BOOLEAN
  /\ brief \in Turns
  /\ bounces \in 0..(MaxAttempts + 1)
  /\ unresolved \in Turns
  /\ broken \subseteq Turns

Init ==
  /\ turn = 0
  /\ node = "end"
  /\ conflict = Empty
  /\ attempts = 0
  /\ asked = FALSE
  /\ brief = Empty
  /\ bounces = 0
  /\ unresolved = 0
  /\ broken = {}

\* A message starts the graph again on the state the thread kept.
UserMessage ==
  /\ node = "end"
  /\ turn < MaxTurns
  /\ turn' = turn + 1
  /\ node' = "clarify"
  /\ UNCHANGED <<state, history>>

\* Mutant: only the branch that asks clears the slot.
ClarifyKeepingSlot(need) ==
  /\ node = "clarify"
  /\ node' = IF need THEN "end" ELSE "verify"
  /\ conflict' = IF need THEN conflict ELSE Empty
  /\ asked' = need
  /\ UNCHANGED <<turn, attempts, brief, history>>

\* Either branch empties the conflict slot it put into its prompt.
Clarify(need) ==
  /\ node = "clarify"
  /\ node' = IF need THEN "end" ELSE "verify"
  /\ conflict' = Empty
  /\ asked' = need
  /\ UNCHANGED <<turn, attempts, brief, history>>

\* The counter is compared with the cap and never reset, so one value above the
\* cap stands for all of them.
Saturated(n) == IF n > MaxAttempts THEN n ELSE n + 1
NextAttempt == Saturated(attempts)

\* Mutants: the back-edge is taken whatever the count; one time too often.
BounceAlways == TRUE
BounceOnceMore == attempts <= MaxAttempts
MayBounce == NextAttempt <= MaxAttempts

Verify(found) ==
  /\ node = "verify"
  /\ attempts' = NextAttempt
  /\ conflict' = IF found THEN turn ELSE Empty
  /\ IF found /\ MayBounce
     THEN node' = "clarify" /\ bounces' = Saturated(bounces) /\ UNCHANGED unresolved
     ELSE /\ node' = "brief"
          /\ unresolved' = IF found THEN turn ELSE unresolved
          /\ UNCHANGED bounces
  /\ UNCHANGED <<turn, asked, brief, broken>>

WriteBrief ==
  /\ node = "brief"
  /\ node' = "end"
  /\ brief' = turn
  /\ UNCHANGED <<turn, conflict, attempts, asked, history>>

\* A model call raises: the invocation is over, and the thread keeps what the
\* nodes that completed have written.
ModelFails ==
  /\ node \in ScopingNodes
  /\ node' = "end"
  /\ broken' = broken \cup {turn}
  /\ UNCHANGED <<turn, state, bounces, unresolved>>

RunScopingNode ==
  \/ \E need \in BOOLEAN : Clarify(need)
  \/ \E found \in BOOLEAN : Verify(found)
  \/ WriteBrief

Next == UserMessage \/ RunScopingNode \/ ModelFails

Spec == Init /\ [][Next]_vars

\* langgraph runs the next node and every model call returns or raises; the user
\* is not obliged to write.
FairSpec == Spec /\ WF_vars(RunScopingNode)

-----------------------------------------------------------------------------
\* The back-edge is taken at most MaxAttempts times (module docstring: "bounded
\* by MAX_VERIFICATION_ATTEMPTS"), over the whole conversation and not per
\* message, because nothing resets the counter.
BouncesBounded == bounces <= MaxAttempts

\* Whatever the models answer, a message is answered: the graph reaches its end.
EveryMessageAnswered == node # "end" ~> node = "end"

\* A conflict outlives its message only when the graph gave up on it at the cap
\* or a model call failed right after it was found.
ConflictOutlivesOnlyGivenUp ==
  node = "end" /\ conflict # Empty => conflict \in {unresolved} \cup broken
=============================================================================
