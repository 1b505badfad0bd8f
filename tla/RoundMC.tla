------------------------------- MODULE RoundMC -------------------------------
(* Instances for TLC of the automatic round and of the connection it shares *)
(* with the health monitor and the operator. Round takes a lost connection  *)
(* as one of the exceptions of a step, and LedgerAccess a step as any that  *)
(* needs the ledger: a behaviour exercises one of the two.                  *)
EXTENDS RoundProperties, LedgerAccess

VARIABLE side   \* which of the two this behaviour exercises

Rounds == side = "round"
Connection == side = "connection"

MCInit ==
    /\ Init /\ AInit
    /\ \/ Rounds /\ ~enabled
       \/ Connection /\ site = "local"

MCNext ==
    /\ UNCHANGED side
    /\ \/ Rounds /\ Next /\ UNCHANGED avars
       \/ Connection /\ ANext /\ UNCHANGED vars

FairSpec ==
    /\ MCInit /\ [][MCNext]_<<vars, avars, side>>
    /\ SF_vars(Rounds /\ TickGoesOn) /\ WF_vars(Rounds /\ WorkerGoesOn)
    /\ WF_vars(Rounds /\ workerSaves)
    /\ WF_vars(Rounds /\ (signsLocally \/ bridgeGoesOn \/ signsOnBridge))
    /\ \A deadline \in Deadlines : WF_vars(Rounds /\ passes(deadline))
    /\ WF_avars(Connection /\ check) /\ WF_avars(Connection /\ asked)
    /\ \A t \in Tasks : WF_avars(Connection /\ Proceeds(t))
=============================================================================
