---------------------------- MODULE LedgerAccess ----------------------------
(* The one ledger connection of the local server (src/xrpl/adapter.ts,      *)
(* connect and prepare) and the three that use it: the health monitor       *)
(* (src/server/health.ts), whose checks take no lock, and the automatic     *)
(* round and the operator's ledger actions (src/server/index.ts), which     *)
(* run one at a time under processLock. The client reconnects by itself     *)
(* after a lost connection; adapter.connect is the only one to identify     *)
(* the server behind it. Which step of the round or the cycle is taken is   *)
(* left open: see Round.                                                    *)
EXTENDS Naturals

CONSTANTS
    MaxBuild,   \* bound on the builds the ledger server goes through
    MaxBreaks   \* bound on outages, lost connections, timeouts and restarts together

ASSUME BoundsAssumption == MaxBuild \in Nat /\ MaxBreaks \in Nat

VARIABLES
    node,           \* the ledger server: up?, its build, fit for this track?
    connected,      \* client.isConnected()
    reconnecting,   \* the client is trying to reconnect by itself
    identity,       \* the build in adapter.identity, 0 while undefined
    ledger,         \* HealthMonitor: the ledger's status, observed in the last 60 s?
    task,           \* what each of the three awaits, and whether that was cut off
    writer,         \* who holds processLock
    round,          \* the automatic round's job
    enabled,        \* TRACK1_MENTOR_OPEN_ENDED_TRIAL is set
    breaks

wire == <<connected, reconnecting>>
avars == <<node, wire, identity, ledger, task, writer, round, enabled, breaks>>

Tasks == {"check", "tick", "post"}
Connecting == {"dial", "identify", "amend"}
Requesting == {"identify", "amend", "ask", "wait"}
AtRest == [at |-> "idle", info |-> 0, cut |-> FALSE]
Unchecked == [status |-> "unchecked", fresh |-> FALSE]

AInit ==
    /\ node = [up |-> TRUE, build |-> 1, fit |-> TRUE]
    /\ connected = FALSE /\ reconnecting = FALSE
    /\ identity = 0
    /\ ledger = Unchecked
    /\ task = [t \in Tasks |-> AtRest]
    /\ writer = "none"
    /\ round = "running"
    /\ enabled \in BOOLEAN
    /\ breaks = 0

At(t, place) == task[t].at = place
Go(t, place) == task' = [task EXCEPT ![t] = [AtRest EXCEPT !.at = place]]
Answered(t) == connected /\ node.up /\ ~task[t].cut

\* HealthMonitor.snapshot: ready is taken back without a connection or after 60 s.
Ready == ledger.status = "ready" /\ connected /\ ledger.fresh

-----------------------------------------------------------------------------
(* How the three end.                                                       *)
\* A check ends for everyone who has joined it; an action that waited for it
\* starts, or is refused.
CheckEnds(status) ==
    LET starts == status = "ready" /\ connected'
    IN  /\ ledger' = [status |-> status, fresh |-> TRUE]
        /\ task' = [task EXCEPT !["check"] = AtRest,
              !["post"].at = IF @ # "joined" THEN @ ELSE IF starts THEN "work" ELSE "idle"]
        /\ writer' = IF At("post", "joined") /\ ~starts THEN "none" ELSE writer
        /\ UNCHANGED round

\* A tick and an action release the lock; a tick that throws pauses its round.
Ends(t, ok) ==
    /\ task' = [task EXCEPT ![t] = AtRest]
    /\ writer' = "none"
    /\ round' = IF t = "tick" /\ ~ok THEN "PAUSED" ELSE round
    /\ UNCHANGED ledger

Throws(t) == IF t = "check" THEN CheckEnds("unavailable") ELSE Ends(t, FALSE)

-----------------------------------------------------------------------------
(* adapter.connect, run by a check or by a tick.                            *)
dialled(t) ==
    /\ At(t, "dial") /\ node.up
    /\ connected' = TRUE /\ reconnecting' = FALSE
    /\ Go(t, "identify")
    /\ UNCHANGED <<node, identity, ledger, writer, round, enabled, breaks>>

identified(t) ==
    /\ At(t, "identify") /\ Answered(t) /\ node.fit
    /\ task' = [task EXCEPT ![t].at = "amend", ![t].info = node.build]
    /\ UNCHANGED <<node, wire, identity, ledger, writer, round, enabled, breaks>>

amended(t) ==
    /\ At(t, "amend") /\ Answered(t) /\ node.fit
    /\ identity' = task[t].info
    /\ Go(t, IF t = "check" THEN "ask" ELSE "work")
    /\ UNCHANGED <<node, wire, ledger, writer, round, enabled, breaks>>

\* The catch of connect disconnects, whoever else uses the connection.
connectFails(t) ==
    /\ connected' = FALSE
    /\ reconnecting' = (reconnecting /\ ~connected)
    /\ Throws(t)

\* An outage or a cut answer, an unfit server, or a timeout.
callFails(t) ==
    LET unfit == task[t].at \in {"identify", "amend"} /\ ~node.fit
        unanswered == IF At(t, "dial") THEN ~node.up ELSE ~Answered(t)
    IN  /\ task[t].at \in Connecting \cup Requesting
        /\ \/ (unfit \/ unanswered) /\ UNCHANGED breaks
           \/ breaks < MaxBreaks /\ breaks' = breaks + 1
        /\ IF task[t].at \in Connecting THEN connectFails(t) ELSE UNCHANGED wire /\ Throws(t)
        /\ UNCHANGED <<node, identity, enabled>>

-----------------------------------------------------------------------------
(* HealthMonitor.                                                           *)
\* Mutant: a connected client is taken to be identified.
ReadsFirstConnected == IF ~enabled THEN "idle" ELSE IF connected THEN "ask" ELSE "dial"

\* readLedger's first await.
ReadsFirst == IF ~enabled THEN "idle" ELSE IF connected /\ identity # 0 THEN "ask" ELSE "dial"

readLedger ==
    /\ ledger' = [ledger EXCEPT !.status = IF enabled THEN "checking" ELSE "blocked"]
    /\ identity' = IF ReadsFirst = "dial" THEN 0 ELSE identity

\* check, from its timer or the button: one at a time.
check ==
    /\ At("check", "idle")
    /\ readLedger
    /\ Go("check", ReadsFirst)
    /\ UNCHANGED <<node, wire, writer, round, enabled, breaks>>

\* Mutant: another build is not looked for.
matchesNetwork == node.fit

\* The answer's identity is the adapter's.
matches == node.fit /\ node.build = identity

asked ==
    /\ At("check", "ask") /\ Answered("check")
    /\ UNCHANGED <<node, wire, identity, enabled, breaks>>
    /\ CheckEnds(IF matches THEN "ready" ELSE "blocked")

ages ==
    /\ ledger.fresh /\ ledger' = [ledger EXCEPT !.fresh = FALSE]
    /\ UNCHANGED <<node, wire, identity, task, writer, round, enabled, breaks>>

-----------------------------------------------------------------------------
(* The holders of the lock.                                                 *)
\* automaticTick looks for a connection, not for an identity.
tick ==
    /\ writer = "none" /\ round # "PAUSED"
    /\ writer' = "tick"
    /\ Go("tick", IF connected THEN "work" ELSE "dial")
    /\ identity' = IF connected THEN identity ELSE 0
    /\ UNCHANGED <<node, wire, ledger, round, enabled, breaks>>

\* A ledger action of the operator joins the check that is under way, or
\* starts one; without the trial flag it is refused.
post ==
    /\ writer = "none" /\ enabled
    /\ writer' = "post"
    /\ IF At("check", "idle")
       THEN readLedger /\ task' = [task EXCEPT !["check"].at = ReadsFirst, !["post"].at = "joined"]
       ELSE UNCHANGED <<ledger, identity>> /\ Go("post", "joined")
    /\ UNCHANGED <<node, wire, round, enabled, breaks>>

\* assertCanOriginate, with readTrackEnvironment's own connection.
canOriginate == node.up /\ node.fit /\ node.build = identity

\* What a step prepares needs an identity, and a new loan or loan broker the
\* amendments now; a step may only look things up.
works(t) ==
    /\ At(t, "work")
    /\ \E step \in {"looks up", "prepares", "originates"} :
          LET allowed == /\ step # "looks up" => identity # 0
                         /\ step = "originates" => canOriginate
          IN  IF allowed THEN Go(t, "wait") /\ UNCHANGED <<ledger, writer, round>> ELSE Throws(t)
    /\ UNCHANGED <<node, wire, identity, enabled, breaks>>

finishes(t) ==
    /\ At(t, "wait") /\ Answered(t)
    /\ Ends(t, TRUE)
    /\ UNCHANGED <<node, wire, identity, enabled, breaks>>

\* A person sets the paused round going again.
resumes ==
    /\ writer = "none" /\ round = "PAUSED" /\ round' = "running"
    /\ UNCHANGED <<node, wire, identity, ledger, task, writer, enabled, breaks>>

-----------------------------------------------------------------------------
(* The client, the ledger server and the process.                           *)
Break == breaks < MaxBreaks /\ breaks' = breaks + 1
Cut == task' = [t \in Tasks |-> [task[t] EXCEPT !.cut = @ \/ task[t].at \in Requesting]]

\* A connection that is lost rejects the requests under way.
drops(outage) ==
    /\ Break /\ (connected \/ outage) /\ node.up
    /\ node' = [node EXCEPT !.up = ~outage]
    /\ connected' = FALSE /\ reconnecting' = (reconnecting \/ connected)
    /\ Cut
    /\ UNCHANGED <<identity, ledger, writer, round, enabled>>

reconnects ==
    /\ reconnecting /\ node.up
    /\ connected' = TRUE /\ reconnecting' = FALSE
    /\ UNCHANGED <<node, identity, ledger, task, writer, round, enabled, breaks>>

\* The server comes back, perhaps as another build or with other amendments.
returns ==
    /\ ~node.up
    /\ \E build \in node.build..MaxBuild, fit \in BOOLEAN :
          /\ fit \/ build > node.build
          /\ node' = [up |-> TRUE, build |-> build, fit |-> fit]
    /\ UNCHANGED <<wire, identity, ledger, task, writer, round, enabled, breaks>>

restarts ==
    /\ Break
    /\ connected' = FALSE /\ reconnecting' = FALSE /\ identity' = 0
    /\ ledger' = Unchecked /\ task' = [t \in Tasks |-> AtRest] /\ writer' = "none"
    /\ UNCHANGED <<node, round, enabled>>

Proceeds(t) == dialled(t) \/ identified(t) \/ amended(t) \/ callFails(t) \/ works(t) \/ finishes(t)

ANext ==
    \/ check \/ asked \/ ages
    \/ tick \/ post \/ resumes
    \/ \E t \in Tasks : Proceeds(t)
    \/ \E outage \in BOOLEAN : drops(outage)
    \/ reconnects \/ returns \/ restarts

ASpec == AInit /\ [][ANext]_avars

-----------------------------------------------------------------------------
(* Fairness (stated in RoundMC): every call is answered or times out, and   *)
(* the health timer goes on (DASHBOARD_LIVE_CHECKS, every 30 s).            *)

\* An operator's ledger action starts only over a connection to the very build
\* that adapter.connect has identified, on a server just seen fit, although
\* the client may have reconnected by itself, to a newer build too, and checks,
\* ticks and actions share the connection (index.ts:163-167, health.ts:49-56).
StartsIdentified ==
    [][ ~At("post", "work") /\ task'["post"].at = "work"
          => connected' /\ identity' = node.build /\ node.fit ]_avars

\* When the ledger stays up and fit, and is not another build than the one the
\* adapter knows, the monitor finds it ready again and again: no outage at any
\* step of a check or a tick leaves the connection unusable (health.ts:50).
ConnectionRecovers ==
    <>[](enabled /\ node.up /\ node.fit /\ identity \in {0, node.build}) => []<>Ready
=============================================================================
