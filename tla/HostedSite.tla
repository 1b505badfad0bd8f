----------------------------- MODULE HostedSite -----------------------------
(* What is written around the hosted intake and market: the preparation of  *)
(* a run by the operator's bridge, the progress it publishes, and the       *)
(* assistant's budget. The three meet only in the intake and the market,    *)
(* which each takes to change at any time: a behaviour exercises one part.  *)
EXTENDS Preparation, Publications, AssistantBudget

VARIABLE part   \* the part this behaviour exercises

Init ==
    /\ QInit /\ PInit /\ BInit
    /\ part \in {"preparation", "progress", "budget"}

Next ==
    /\ UNCHANGED part
    /\ \/ part = "preparation" /\ QNext /\ UNCHANGED <<pvars, bvars>>
       \/ part = "progress" /\ PNext /\ UNCHANGED <<qvars, bvars>>
       \/ part = "budget" /\ BNext /\ UNCHANGED <<qvars, pvars>>

Spec == Init /\ [][Next]_<<qvars, pvars, bvars, part>>
=============================================================================
