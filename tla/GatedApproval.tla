---------------------------- MODULE GatedApproval ----------------------------
(***************************************************************************)
(* What the gated onboarding graph promises of its human gate, and nothing *)
(* of how its nodes reach it: a proposal is written to the catalog only    *)
(* while an approval of exactly that proposal is outstanding, an approval  *)
(* is used up by the write or lost with the proposal it was given to, and  *)
(* only what this transaction has written is packaged.                     *)
(***************************************************************************)
CONSTANT Proposals

VARIABLES current,    \* the proposal under discussion, {} or a singleton
          granted,    \* the approval outstanding: {} or current
          written,    \* proposals written in the open transaction
          packaged    \* proposals a package was saved for

gateVars == <<current, granted, written, packaged>>

GateInit == current = {} /\ granted = {} /\ written = {} /\ packaged = {}

\* The discussion moves on: whatever was approved is approved no longer.
Revise == /\ \/ current' = {}
             \/ \E p \in Proposals : current' = {p}
          /\ granted' = {}
          /\ UNCHANGED <<written, packaged>>

Grant == /\ current # {}
         /\ granted' = current
         /\ UNCHANGED <<current, written, packaged>>

Write == /\ granted # {}
         /\ granted = current
         /\ written' = written \cup granted
         /\ granted' = {}
         /\ UNCHANGED <<current, packaged>>

Package == /\ \E p \in written : packaged' = packaged \cup {p}
           /\ UNCHANGED <<current, granted, written>>

\* The process ends: its transaction is gone, and so is an unused approval.
Lose == written' = {} /\ granted' = {} /\ UNCHANGED <<current, packaged>>

GateNext == Revise \/ Grant \/ Write \/ Package \/ Lose

GateSpec == GateInit /\ [][GateNext]_gateVars
===============================================================================
