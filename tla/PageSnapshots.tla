---------------------------- MODULE PageSnapshots ----------------------------
(* What a page shows of the server's state: SnapshotCursor                  *)
(* (web/state-client.mjs) as used by refresh in web/customer.js and         *)
(* web/app.js, polling Dashboard.snapshot (src/server/dashboard.ts), which  *)
(* joins calls that arrive while one is being answered and counts its       *)
(* revisions anew after a restart. Polls overlap: a timer, a button, a      *)
(* change of source and a tab that becomes visible all start one.           *)
EXTENDS Naturals, FiniteSets

CONSTANTS
    MaxVersion,     \* bound on the changes of the records
    MaxRestarts,    \* bound on the restarts of the server
    MaxTickets      \* bound on the polls

VARIABLES
    records,        \* how often the records behind the live state have changed
    instance,       \* which start of the server this is
    revision,       \* Dashboard: last revision given out, over both modes
    fingerprints,   \* Dashboard: per mode, the content last answered and its revision
    flight,         \* Dashboard: per mode, the content being answered
    polls,          \* the page's polls under way
    cursor,         \* the page's SnapshotCursor
    state,          \* the page's state
    available,      \* the page's connection note
    source          \* the selected source

dashboard == <<instance, revision, fingerprints, flight>>
screen == <<cursor, state, available, source>>
svars == <<records, dashboard, polls, screen>>

Modes == {"live", "recorded"}
NoState == [mode |-> "none", instance |-> 0, revision |-> 0, content |-> 0]
Unread == [content |-> 0, revision |-> 0]

SInit ==
    /\ records = 1
    /\ instance = 1
    /\ revision = 0
    /\ fingerprints = [mode \in Modes |-> Unread]
    /\ flight = [mode \in Modes |-> 0]
    /\ polls = {}
    /\ cursor = [sequence |-> 0, mode |-> "live", instance |-> 0, acceptedMode |-> "none", revision |-> 0]
    /\ state = NoState
    /\ available = FALSE
    /\ source \in Modes

-----------------------------------------------------------------------------
(* The server.                                                              *)
recordsChange ==
    /\ records < MaxVersion
    /\ records' = records + 1
    /\ UNCHANGED <<dashboard, polls, screen>>

\* A new Dashboard has a new instanceId; the calls it was answering are lost.
restart ==
    /\ instance <= MaxRestarts
    /\ instance' = instance + 1
    /\ revision' = 0
    /\ fingerprints' = [mode \in Modes |-> Unread]
    /\ flight' = [mode \in Modes |-> 0]
    /\ polls' = {[poll EXCEPT !.at = IF @ = "server" THEN "lost" ELSE @] : poll \in polls}
    /\ UNCHANGED <<records, screen>>

\* snapshot: a call joins the one in flight, which read the records before.
arrives(poll) ==
    /\ poll \in polls /\ poll.at = "sent"
    /\ flight' = [flight EXCEPT ![poll.mode] =
          IF @ # 0 THEN @ ELSE IF poll.mode = "live" THEN records ELSE 1]
    /\ polls' = (polls \ {poll}) \cup {[poll EXCEPT !.at = "server"]}
    /\ UNCHANGED <<records, instance, revision, fingerprints, screen>>

\* read: another content gets the next revision; everyone joined is answered.
answers(mode) ==
    /\ flight[mode] # 0
    /\ LET same == fingerprints[mode].content = flight[mode]
           entry == IF same THEN fingerprints[mode]
                    ELSE [content |-> flight[mode], revision |-> revision + 1]
           answer == [mode |-> mode, instance |-> instance,
                      revision |-> entry.revision, content |-> entry.content]
       IN  /\ revision' = IF same THEN revision ELSE revision + 1
           /\ fingerprints' = [fingerprints EXCEPT ![mode] = entry]
           /\ polls' = {IF poll.at = "server" /\ poll.mode = mode
                        THEN [poll EXCEPT !.at = "answered", !.answer = answer] ELSE poll : poll \in polls}
    /\ flight' = [flight EXCEPT ![mode] = 0]
    /\ UNCHANGED <<records, instance, screen>>

-----------------------------------------------------------------------------
(* The page.                                                                *)
\* Mutant: an answer to an earlier poll is taken if its server is another one.
acceptsAnyTicket(poll) ==
    /\ poll.answer.mode = cursor.mode
    /\ ~(/\ cursor.instance = poll.answer.instance /\ cursor.acceptedMode = poll.answer.mode
         /\ poll.answer.revision < cursor.revision)

\* SnapshotCursor.accept.
accepts(poll) ==
    /\ poll.ticket = cursor.sequence
    /\ poll.answer.mode = cursor.mode
    /\ ~(/\ cursor.instance = poll.answer.instance /\ cursor.acceptedMode = poll.answer.mode
         /\ poll.answer.revision < cursor.revision)

\* SnapshotCursor.begin, and the request.
Begin(mode) ==
    /\ cursor.sequence < MaxTickets
    /\ cursor' = [cursor EXCEPT !.sequence = @ + 1, !.mode = mode]
    /\ polls' = polls \cup {[ticket |-> cursor.sequence + 1, mode |-> mode, at |-> "sent", answer |-> NoState]}

\* The timer, a button, a decision that was sent, or the tab becoming visible.
refresh ==
    /\ Begin(source)
    /\ UNCHANGED <<records, dashboard, state, available, source>>

sourceChanged(mode) ==
    /\ source' = mode
    /\ Begin(mode)
    /\ UNCHANGED <<records, dashboard, state, available>>

receives(poll) ==
    /\ poll \in polls /\ poll.at = "answered"
    /\ polls' = polls \ {poll}
    /\ IF accepts(poll)
       THEN /\ cursor' = [cursor EXCEPT !.instance = poll.answer.instance,
                             !.acceptedMode = poll.answer.mode, !.revision = poll.answer.revision]
            /\ state' = poll.answer
            /\ available' = TRUE
       ELSE UNCHANGED <<cursor, state, available>>
    /\ UNCHANGED <<records, dashboard, source>>

\* A timeout, an outage or an error; only the latest poll speaks for the page.
fails(poll) ==
    /\ poll \in polls
    /\ polls' = polls \ {poll}
    /\ available' = (available /\ poll.ticket # cursor.sequence)
    /\ UNCHANGED <<records, dashboard, cursor, state, source>>

SNext ==
    \/ recordsChange \/ restart
    \/ \E mode \in Modes : answers(mode) \/ sourceChanged(mode)
    \/ refresh
    \/ \E poll \in polls : arrives(poll) \/ receives(poll) \/ fails(poll)
=============================================================================
