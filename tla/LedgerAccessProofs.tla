-------------------------- MODULE LedgerAccessProofs --------------------------
(* Machine-checked proof about LedgerAccess, for any number of builds,      *)
(* outages, lost connections, timeouts and restarts.                        *)
EXTENDS LedgerAccess, TLAPS

Places == {"idle", "joined", "dial", "identify", "amend", "ask", "work", "wait"}

\* An operator's action never connects or asks by itself: it joins a check.
Typed ==
    /\ node \in [up : BOOLEAN, build : Nat, fit : BOOLEAN]
    /\ task \in [Tasks -> [at : Places, info : Nat, cut : BOOLEAN]]
    /\ task["post"].at \in {"idle", "joined", "work", "wait"}

\* What StartsIdentified says of one step.
Identified ==
    ~At("post", "work") /\ task'["post"].at = "work"
        => connected' /\ identity' = node.build /\ node.fit

\* Sending a task on changes no other task.
LEMMA GoEffect ==
    ASSUME Typed, NEW t \in Tasks, NEW place \in Places, Go(t, place)
    PROVE  /\ task' \in [Tasks -> [at : Places, info : Nat, cut : BOOLEAN]]
           /\ task'[t].at = place
           /\ \A other \in Tasks : other # t => task'[other] = task[other]
BY DEF Typed, Go, AtRest, Tasks, Places

\* The end of a check starts the action that has joined it only when the
\* check was good.
LEMMA CheckEndsEffect ==
    ASSUME Typed, NEW status, CheckEnds(status)
    PROVE  /\ task' \in [Tasks -> [at : Places, info : Nat, cut : BOOLEAN]]
           /\ task'["post"].at \in {"idle", "joined", "work", "wait"}
           /\ ~At("post", "work") /\ task'["post"].at = "work" => status = "ready" /\ connected'
<1> DEFINE starts == status = "ready" /\ connected'
           place == IF task["post"].at # "joined" THEN task["post"].at ELSE IF starts THEN "work" ELSE "idle"
<1>1. task' = [task EXCEPT !["check"] = AtRest, !["post"].at = place] BY DEF CheckEnds
<1>2. place \in {"idle", "joined", "work", "wait"} BY DEF Typed
<1> HIDE DEF place
<1>3. /\ task' \in [Tasks -> [at : Places, info : Nat, cut : BOOLEAN]]
      /\ task'["post"].at = place
  BY <1>1, <1>2 DEF Typed, AtRest, Tasks, Places
<1>4. place = "work" /\ ~At("post", "work") => starts BY DEF place, At
<1> QED BY <1>2, <1>3, <1>4

LEMMA EndsEffect ==
    ASSUME Typed, NEW t \in Tasks, NEW ok, Ends(t, ok)
    PROVE  /\ task' \in [Tasks -> [at : Places, info : Nat, cut : BOOLEAN]]
           /\ task'[t].at = "idle"
           /\ \A other \in Tasks : other # t => task'[other] = task[other]
BY DEF Typed, Ends, AtRest, Tasks, Places

\* Whoever throws starts no action.
LEMMA ThrowsEffect ==
    ASSUME Typed, NEW t \in Tasks, Throws(t), node' = node
    PROVE  Typed' /\ Identified
<1>1. CASE t = "check"
  <2>1. CheckEnds("unavailable") BY <1>1 DEF Throws
  <2> QED BY <2>1, CheckEndsEffect DEF Typed, Identified
<1>2. CASE t # "check"
  <2>1. Ends(t, FALSE) BY <1>2 DEF Throws
  <2> QED BY <2>1, EndsEffect DEF Typed, Identified, At, Tasks
<1> QED BY <1>1, <1>2

\* A task other than an action that goes on starts no action.
LEMMA OthersGoOn ==
    ASSUME Typed, NEW t \in Tasks \ {"post"}, NEW place \in Places, Go(t, place), node' = node
    PROVE  Typed' /\ Identified
BY GoEffect DEF Typed, Identified, At, Tasks

LEMMA StepIsIdentified == Typed /\ [ANext]_avars => Typed' /\ Identified
<1> SUFFICES ASSUME Typed, [ANext]_avars PROVE Typed' /\ Identified OBVIOUS
<1>1. CASE UNCHANGED avars BY <1>1 DEF avars, Typed, Identified, At
<1>2. CASE check
  <2>1. ReadsFirst \in Places BY DEF ReadsFirst, Places
  <2> QED BY <1>2, <2>1, OthersGoOn DEF check, Tasks
<1>3. CASE asked
  <2>1. CheckEnds(IF matches THEN "ready" ELSE "blocked") /\ node' = node /\ identity' = identity
    BY <1>3 DEF asked
  <2>2. Typed' BY <2>1, CheckEndsEffect DEF Typed
  <2>3. ~At("post", "work") /\ task'["post"].at = "work" => matches /\ connected'
    BY <2>1, CheckEndsEffect
  <2> QED BY <2>1, <2>2, <2>3 DEF Identified, matches
<1>4. CASE ages \/ resumes \/ reconnects
  BY <1>4 DEF ages, resumes, reconnects, Typed, Identified, At
<1>5. CASE tick
  <2>1. (IF connected THEN "work" ELSE "dial") \in Places BY DEF Places
  <2> QED BY <1>5, <2>1, OthersGoOn DEF tick, Tasks
<1>6. CASE post
  <2>1. CASE Go("post", "joined")
    BY <1>6, <2>1, GoEffect DEF post, Typed, Identified, Tasks, Places
  <2>2. CASE task' = [task EXCEPT !["check"].at = ReadsFirst, !["post"].at = "joined"]
    <3>1. ReadsFirst \in Places BY DEF ReadsFirst, Places
    <3>2. /\ task' \in [Tasks -> [at : Places, info : Nat, cut : BOOLEAN]]
          /\ task'["post"].at = "joined"
      BY <2>2, <3>1 DEF Typed, Tasks, Places
    <3> QED BY <1>6, <3>2 DEF post, Typed, Identified
  <2> QED BY <1>6, <2>1, <2>2 DEF post
<1>7. ASSUME NEW t \in Tasks, Proceeds(t) PROVE Typed' /\ Identified
  <2>1. CASE dialled(t)
    <3>1. t # "post" BY <2>1 DEF dialled, At, Typed
    <3> QED BY <2>1, <3>1, OthersGoOn DEF dialled, Places
  <2>2. CASE identified(t)
    <3>1. t # "post" BY <2>2 DEF identified, At, Typed
    <3>2. task' = [task EXCEPT ![t].at = "amend", ![t].info = node.build] /\ node' = node
      BY <2>2 DEF identified
    <3>3. /\ task' \in [Tasks -> [at : Places, info : Nat, cut : BOOLEAN]]
          /\ task'["post"] = task["post"]
      BY <3>1, <3>2 DEF Typed, Tasks, Places
    <3> QED BY <3>2, <3>3 DEF Typed, Identified, At
  <2>3. CASE amended(t)
    <3>1. t # "post" BY <2>3 DEF amended, At, Typed
    <3>2. (IF t = "check" THEN "ask" ELSE "work") \in Places BY DEF Places
    <3> QED BY <2>3, <3>1, <3>2, OthersGoOn DEF amended
  <2>4. CASE callFails(t)
    <3>1. Throws(t) /\ node' = node BY <2>4 DEF callFails, connectFails
    <3> QED BY <3>1, ThrowsEffect
  <2>5. CASE works(t)
    <3>1. node' = node BY <2>5 DEF works
    <3>2. CASE Throws(t) BY <3>1, <3>2, ThrowsEffect
    <3>3. CASE Go(t, "wait")
      BY <3>1, <3>3, GoEffect DEF Typed, Identified, At, Tasks, Places
    <3> QED BY <2>5, <3>2, <3>3 DEF works
  <2>6. CASE finishes(t)
    <3>1. Ends(t, TRUE) /\ node' = node BY <2>6 DEF finishes
    <3> QED BY <3>1, EndsEffect DEF Typed, Identified, At, Tasks
  <2> QED BY <1>7, <2>1, <2>2, <2>3, <2>4, <2>5, <2>6 DEF Proceeds
<1>8. ASSUME NEW outage \in BOOLEAN, drops(outage) PROVE Typed' /\ Identified
  <2>1. /\ task' \in [Tasks -> [at : Places, info : Nat, cut : BOOLEAN]]
        /\ task'["post"].at = task["post"].at
    BY <1>8 DEF drops, Cut, Typed, Tasks
  <2>2. node' \in [up : BOOLEAN, build : Nat, fit : BOOLEAN] BY <1>8 DEF drops, Typed
  <2> QED BY <2>1, <2>2 DEF Typed, Identified, At
<1>9. CASE returns
  <2>1. task' = task BY <1>9 DEF returns
  <2>2. node' \in [up : BOOLEAN, build : Nat, fit : BOOLEAN] BY <1>9, BoundsAssumption DEF returns, Typed
  <2> QED BY <2>1, <2>2 DEF Typed, Identified, At
<1>10. CASE restarts
  <2>1. node' = node /\ task' = [t \in Tasks |-> AtRest] BY <1>10 DEF restarts
  <2> QED BY <2>1 DEF Typed, Identified, AtRest, Tasks, Places
<1> QED BY <1>1, <1>2, <1>3, <1>4, <1>5, <1>6, <1>7, <1>8, <1>9, <1>10 DEF ANext

\* However often the connection breaks, returns by itself, or returns to
\* another build, an action that the operator posts starts only on the
\* identified server. The timer's ticks are not covered: they ask only whether
\* the client is connected (index.ts:38).
THEOREM ActionsStartIdentified == ASpec => StartsIdentified
<1>1. AInit => Typed BY DEF AInit, Typed, AtRest, Tasks, Places
<1>2. Typed /\ [ANext]_avars => Typed' BY StepIsIdentified
<1>3. Typed /\ [ANext]_avars => [Identified]_avars BY StepIsIdentified
<1> QED BY <1>1, <1>2, <1>3, PTL DEF ASpec, StartsIdentified, Identified
=============================================================================
