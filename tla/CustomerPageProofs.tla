------------------------- MODULE CustomerPageProofs -------------------------
(* Machine-checked proofs about the pages, for any numbers of polls, reads, *)
(* restarts, reloads and posts, any request IDs and any agreements.         *)
EXTENDS CustomerPage, TLAPS

-----------------------------------------------------------------------------
(* The snapshots: what a page may still be answered is no older than what   *)
(* it shows.                                                                *)
Contents == [mode : Modes \cup {"none"}, instance : Nat, revision : Nat, content : Nat]
Polls == [ticket : Nat, mode : Modes, at : {"sent", "server", "answered", "lost"}, answer : Contents]

STyped ==
    /\ records \in Nat \ {0} /\ instance \in Nat /\ revision \in Nat
    /\ fingerprints \in [Modes -> [content : Nat, revision : Nat]]
    /\ flight \in [Modes -> Nat]
    /\ polls \subseteq Polls
    /\ cursor \in [sequence : Nat, mode : Modes, instance : Nat,
                   acceptedMode : Modes \cup {"none"}, revision : Nat]
    /\ state \in Contents

Newest(mode) == IF mode = "live" THEN records ELSE 1

\* What has been read of a mode is no newer than the records, nor than what the
\* server reads for the call it is answering now.
InTime(mode, content) ==
    /\ content <= Newest(mode)
    /\ flight[mode] # 0 => content <= flight[mode]

PollIsSound(poll) ==
    /\ poll.ticket <= cursor.sequence
    /\ poll.at = "answered" =>
          /\ poll.answer.mode = poll.mode
          /\ InTime(poll.mode, poll.answer.content)
          /\ poll.ticket = cursor.sequence /\ state.mode = poll.mode
                => state.content <= poll.answer.content

SSound ==
    /\ \A mode \in Modes : flight[mode] <= Newest(mode)
    /\ \A poll \in polls : PollIsSound(poll)
    /\ \A one, other \in polls : one.ticket = other.ticket => one = other
    /\ state.mode \in Modes => InTime(state.mode, state.content)

SInv == STyped /\ SSound

ShownNeverOlder == state.mode = state'.mode => state.content <= state'.content

LEMMA SInitIsSound == SInit => SInv
<1> SUFFICES ASSUME SInit PROVE SInv OBVIOUS
<1>1. STyped BY DEF SInit, STyped, Modes, NoState, Contents, Unread, Polls
<1>2. SSound BY DEF SInit, SSound, Newest, Modes, NoState
<1> QED BY <1>1, <1>2 DEF SInv

\* The records change while calls are answered.
LEMMA RecordsKeep == ASSUME SInv, recordsChange PROVE SInv' /\ ShownNeverOlder
<1>1. /\ records' = records + 1
      /\ UNCHANGED <<instance, revision, fingerprints, flight, polls, cursor, state>>
  BY DEF recordsChange, dashboard, screen
<1>2. STyped' BY <1>1 DEF SInv, STyped
<1>3. \A mode \in Modes : Newest(mode) \in Nat /\ Newest(mode) <= Newest(mode)' /\ flight[mode] \in Nat
  BY <1>1 DEF SInv, STyped, Newest
<1>4. \A mode \in Modes, content \in Nat : InTime(mode, content) => InTime(mode, content)'
  BY <1>1, <1>3, <1>2 DEF InTime, Newest, STyped
<1>5. SSound'
  <2>1. \A mode \in Modes : flight'[mode] <= Newest(mode)'
    BY <1>1, <1>2, <1>3 DEF SInv, SSound, STyped, Newest
  <2>2. ASSUME NEW poll \in polls PROVE PollIsSound(poll)'
    <3>1. PollIsSound(poll) /\ poll.mode \in Modes /\ poll.answer.content \in Nat
      BY DEF SInv, SSound, STyped, Polls, Contents
    <3> QED BY <1>1, <1>4, <3>1 DEF PollIsSound
  <2>3. state.mode \in Modes => InTime(state.mode, state.content)'
    BY <1>1, <1>4 DEF SInv, SSound, STyped, Contents
  <2> QED BY <1>1, <2>1, <2>2, <2>3 DEF SInv, SSound
<1>6. ShownNeverOlder BY <1>1 DEF ShownNeverOlder, SInv, STyped, Contents
<1> QED BY <1>2, <1>5, <1>6 DEF SInv

\* Polls that are sent, given up, or lost, while nothing new is shown.
LEMMA PollsKeep ==
    ASSUME SInv, STyped', UNCHANGED <<records, state>>,
           \A mode \in Modes : flight'[mode] = flight[mode] \/ flight'[mode] = 0
                                  \/ (flight[mode] = 0 /\ flight'[mode] = Newest(mode)),
           cursor'.sequence >= cursor.sequence,
           \A poll \in polls' :
              \/ poll \in polls
              \/ /\ poll.at # "answered" /\ poll.ticket <= cursor'.sequence
                 /\ \/ cursor.sequence < poll.ticket
                    \/ \E old \in polls \ polls' : old.ticket = poll.ticket,
           \A one, other \in polls' : one.ticket = other.ticket => one = other
    PROVE  SInv' /\ ShownNeverOlder
<1>1. \A mode \in Modes : Newest(mode)' = Newest(mode) /\ Newest(mode) \in Nat \ {0}
  BY DEF SInv, STyped, Newest
<1>2. \A mode \in Modes, content \in Nat : InTime(mode, content) => InTime(mode, content)'
  <2> SUFFICES ASSUME NEW mode \in Modes, NEW content \in Nat, InTime(mode, content)
               PROVE  InTime(mode, content)'
    OBVIOUS
  <2>1. flight[mode] \in Nat /\ flight'[mode] \in Nat BY DEF SInv, STyped
  <2>2. content <= Newest(mode)' BY <1>1 DEF InTime
  <2>3. flight'[mode] # 0 => content <= flight'[mode] BY <1>1, <2>1 DEF InTime
  <2> QED BY <2>2, <2>3 DEF InTime
<1>3. \A mode \in Modes : flight'[mode] <= Newest(mode)'
  BY <1>1 DEF SInv, SSound, STyped
<1>4. ASSUME NEW poll \in polls' PROVE PollIsSound(poll)'
  <2>1. CASE poll \in polls
    <3>1. PollIsSound(poll) /\ poll.mode \in Modes /\ poll.answer.content \in Nat /\ poll.ticket \in Nat
      BY <2>1 DEF SInv, SSound, STyped, Polls, Contents
    <3>2. cursor.sequence \in Nat /\ cursor'.sequence \in Nat BY DEF SInv, STyped
    <3> QED BY <1>2, <3>1, <3>2 DEF PollIsSound
  <2>2. CASE poll \notin polls BY <1>4, <2>2 DEF PollIsSound
  <2> QED BY <2>1, <2>2
<1>5. state.mode \in Modes => InTime(state.mode, state.content)'
  BY <1>2 DEF SInv, SSound, STyped, Contents
<1>6. SSound' BY <1>3, <1>4, <1>5 DEF SSound
<1>7. ShownNeverOlder BY DEF ShownNeverOlder, SInv, STyped, Contents
<1> QED BY <1>6, <1>7 DEF SInv

LEMMA RestartKeeps == ASSUME SInv, restart PROVE SInv' /\ ShownNeverOlder
<1> DEFINE gone(poll) == [poll EXCEPT !.at = IF @ = "server" THEN "lost" ELSE @]
<1>1. /\ instance' = instance + 1 /\ revision' = 0
      /\ fingerprints' = [mode \in Modes |-> Unread] /\ flight' = [mode \in Modes |-> 0]
      /\ polls' = {gone(poll) : poll \in polls}
      /\ UNCHANGED <<records, cursor, state>>
  BY DEF restart, screen
<1>2. \A poll \in polls :
         /\ gone(poll) \in Polls /\ gone(poll).ticket = poll.ticket
         /\ gone(poll).at = "answered" => gone(poll) = poll
         /\ gone(poll) # poll => poll.at = "server" /\ gone(poll).at = "lost"
  BY DEF SInv, STyped, Polls
<1>3. STyped' BY <1>1, <1>2 DEF SInv, STyped, Unread
<1> HIDE DEF gone
<1>4. \A one, other \in polls' : one.ticket = other.ticket => one = other
  <2> SUFFICES ASSUME NEW one \in polls, NEW other \in polls, gone(one).ticket = gone(other).ticket
               PROVE  gone(one) = gone(other)
    BY <1>1
  <2>1. one.ticket = other.ticket BY <1>2
  <2> QED BY <2>1 DEF SInv, SSound
<1>5. ASSUME NEW poll \in polls', poll \notin polls
      PROVE  /\ poll.at # "answered" /\ poll.ticket <= cursor'.sequence
             /\ \E old \in polls \ polls' : old.ticket = poll.ticket
  <2>1. PICK old \in polls : poll = gone(old) BY <1>1
  <2>2. poll.at = "lost" /\ old.at = "server" /\ poll.ticket = old.ticket BY <1>2, <1>5, <2>1
  <2>3. old \notin polls' BY <1>4, <1>5, <2>2
  <2> QED BY <1>1, <2>2, <2>3 DEF SInv, SSound, PollIsSound
<1>6. cursor'.sequence >= cursor.sequence BY <1>1 DEF SInv, STyped
<1>7. \A mode \in Modes : flight'[mode] = 0 BY <1>1
<1> QED BY <1>1, <1>3, <1>4, <1>5, <1>6, <1>7, PollsKeep

\* arrives only moves a poll to the server.
LEMMA ArrivesKeeps ==
    ASSUME SInv, NEW poll \in polls, arrives(poll) PROVE SInv' /\ ShownNeverOlder
<1> DEFINE next == [poll EXCEPT !.at = "server"]
<1>1. /\ poll.at = "sent"
      /\ flight' = [flight EXCEPT ![poll.mode] =
            IF @ # 0 THEN @ ELSE IF poll.mode = "live" THEN records ELSE 1]
      /\ polls' = (polls \ {poll}) \cup {next}
      /\ UNCHANGED <<records, instance, revision, fingerprints, cursor, state>>
  BY DEF arrives, screen
<1>2. next \in Polls /\ next.ticket = poll.ticket /\ next.at = "server" /\ poll \in Polls
  BY DEF SInv, STyped, Polls
<1> HIDE DEF next
<1>3. next # poll BY <1>1, <1>2
<1>4. poll.mode \in Modes /\ Newest(poll.mode) \in Nat BY <1>2 DEF Polls, SInv, STyped, Newest
<1>5. \A mode \in Modes :
         \/ flight'[mode] = flight[mode]
         \/ flight[mode] = 0 /\ flight'[mode] = Newest(mode)
  <2>1. flight \in [Modes -> Nat] BY DEF SInv, STyped
  <2> QED BY <1>1, <1>4, <2>1 DEF Newest
<1>6. STyped' BY <1>1, <1>2, <1>4 DEF SInv, STyped, Newest
<1>7. \A one, other \in polls' : one.ticket = other.ticket => one = other
  BY <1>1, <1>2 DEF SInv, SSound
<1>8. cursor'.sequence >= cursor.sequence BY <1>1 DEF SInv, STyped
<1>9. ASSUME NEW one \in polls', one \notin polls
      PROVE  /\ one.at # "answered" /\ one.ticket <= cursor'.sequence
             /\ \E old \in polls \ polls' : old.ticket = one.ticket
  <2>1. one = next BY <1>1, <1>9
  <2>2. poll \notin polls' BY <1>1, <1>3
  <2> QED BY <1>1, <1>2, <2>1, <2>2 DEF SInv, SSound, PollIsSound
<1> QED BY <1>1, <1>5, <1>6, <1>7, <1>8, <1>9, PollsKeep

LEMMA FailsKeeps ==
    ASSUME SInv, NEW poll \in polls, fails(poll) PROVE SInv' /\ ShownNeverOlder
<1>1. /\ polls' = polls \ {poll}
      /\ UNCHANGED <<records, instance, revision, fingerprints, flight, cursor, state>>
  BY DEF fails, dashboard
<1>2. STyped' BY <1>1 DEF SInv, STyped
<1>3. cursor'.sequence >= cursor.sequence BY <1>1 DEF SInv, STyped
<1> QED BY <1>1, <1>2, <1>3, PollsKeep DEF SInv, SSound

LEMMA BeginKeeps ==
    ASSUME SInv, NEW mode \in Modes, Begin(mode),
           UNCHANGED <<records, dashboard, state>>
    PROVE  SInv' /\ ShownNeverOlder
<1> DEFINE sent == [ticket |-> cursor.sequence + 1, mode |-> mode, at |-> "sent", answer |-> NoState]
<1>1. /\ polls' = polls \cup {sent}
      /\ cursor' = [cursor EXCEPT !.sequence = @ + 1, !.mode = mode]
      /\ UNCHANGED <<records, instance, revision, fingerprints, flight, state>>
  BY DEF Begin, dashboard
<1>2. /\ cursor.sequence \in Nat /\ cursor'.sequence = cursor.sequence + 1
      /\ cursor' \in [sequence : Nat, mode : Modes, instance : Nat,
                      acceptedMode : Modes \cup {"none"}, revision : Nat]
  <2>1. cursor \in [sequence : Nat, mode : Modes, instance : Nat,
                    acceptedMode : Modes \cup {"none"}, revision : Nat]
    BY DEF SInv, STyped
  <2> DEFINE next == cursor.sequence + 1
  <2>2. cursor' = [cursor EXCEPT !.sequence = next, !.mode = mode] BY <1>1
  <2>3. next \in Nat BY <2>1
  <2> HIDE DEF next
  <2>4. /\ cursor' \in [sequence : Nat, mode : Modes, instance : Nat,
                        acceptedMode : Modes \cup {"none"}, revision : Nat]
        /\ cursor'.sequence = next
    BY <2>1, <2>2, <2>3
  <2> QED BY <2>1, <2>4 DEF next
<1>3. sent \in Polls /\ sent.ticket = cursor.sequence + 1 /\ sent.at = "sent"
  BY <1>2 DEF Polls, NoState, Contents
<1> HIDE DEF sent
<1>4. \A poll \in polls : poll.ticket \in Nat /\ poll.ticket <= cursor.sequence
  BY DEF SInv, SSound, PollIsSound, STyped, Polls
<1>5. STyped' BY <1>1, <1>2, <1>3 DEF SInv, STyped
<1>6. \A one, other \in polls' : one.ticket = other.ticket => one = other
  BY <1>1, <1>2, <1>3, <1>4 DEF SInv, SSound
<1>7. \A poll \in polls' : poll \in polls \/ poll = sent BY <1>1
<1>8. sent.at # "answered" /\ sent.ticket <= cursor'.sequence /\ cursor.sequence < sent.ticket
  BY <1>2, <1>3
<1>9. cursor'.sequence >= cursor.sequence BY <1>2
<1> QED BY <1>1, <1>5, <1>6, <1>7, <1>8, <1>9, PollsKeep

\* The calls joined in one flight are answered with what it read.
LEMMA AnswersKeep ==
    ASSUME SInv, NEW mode \in Modes, answers(mode) PROVE SInv' /\ ShownNeverOlder
<1> DEFINE same == fingerprints[mode].content = flight[mode]
           entry == IF same THEN fingerprints[mode]
                    ELSE [content |-> flight[mode], revision |-> revision + 1]
           answer == [mode |-> mode, instance |-> instance,
                      revision |-> entry.revision, content |-> entry.content]
           given(poll) == IF poll.at = "server" /\ poll.mode = mode
                          THEN [poll EXCEPT !.at = "answered", !.answer = answer] ELSE poll
<1>1. /\ flight[mode] # 0 /\ flight' = [flight EXCEPT ![mode] = 0]
      /\ revision' = IF same THEN revision ELSE revision + 1
      /\ fingerprints' = [fingerprints EXCEPT ![mode] = entry]
      /\ polls' = {given(poll) : poll \in polls}
      /\ UNCHANGED <<records, instance, cursor, state>>
  BY DEF answers, screen
<1>2. /\ flight \in [Modes -> Nat] /\ entry \in [content : Nat, revision : Nat]
      /\ entry.content = flight[mode]
  BY DEF SInv, STyped
<1> HIDE DEF same, entry
<1>3. answer \in Contents /\ answer.mode = mode /\ answer.content = flight[mode]
  BY <1>2 DEF Contents, SInv, STyped
<1> HIDE DEF answer
<1>4. ASSUME NEW poll \in polls
      PROVE  /\ given(poll) \in Polls /\ given(poll).ticket = poll.ticket
             /\ given(poll).mode = poll.mode
             /\ \/ given(poll) = poll
                \/ given(poll).answer = answer /\ poll.mode = mode /\ given(poll).at = "answered"
  <2>1. poll \in Polls BY DEF SInv, STyped
  <2> QED BY <1>3, <2>1 DEF Polls
<1> HIDE DEF given
<1>5. STyped'
  <2>1. revision' \in Nat BY <1>1 DEF SInv, STyped
  <2>2. polls' \subseteq Polls BY <1>1, <1>4
  <2> QED BY <1>1, <1>2, <2>1, <2>2 DEF SInv, STyped
<1>6. \A other \in Modes : Newest(other)' = Newest(other) /\ Newest(other) \in Nat
  BY <1>1 DEF Newest, SInv, STyped
<1>7. /\ flight'[mode] = 0
      /\ \A other \in Modes : other # mode => flight'[other] = flight[other]
  BY <1>1, <1>2
<1>8. \A content : \A other \in Modes : InTime(other, content) => InTime(other, content)'
  BY <1>6, <1>7 DEF InTime
<1>9. \A other \in Modes : flight'[other] <= Newest(other)'
  BY <1>6, <1>7 DEF SInv, SSound
<1>10. ASSUME NEW poll \in polls, NEW now, now = given(poll) PROVE PollIsSound(now)'
  <2>1. PollIsSound(poll) /\ poll.mode \in Modes BY DEF SInv, SSound, STyped, Polls
  <2>2. CASE now = poll BY <1>1, <1>8, <2>1, <2>2 DEF PollIsSound
  <2>3. CASE now # poll
    <3>1. /\ now.answer.mode = mode /\ now.answer.content = flight[mode]
          /\ now.ticket = poll.ticket /\ now.mode = mode
      BY <1>3, <1>4, <1>10, <2>3
    <3>2. \A content : content = flight[mode] => InTime(mode, content)'
      BY <1>6, <1>7 DEF InTime, SInv, SSound
    <3>3. state.mode = mode => state.content <= flight[mode] BY <1>1 DEF SInv, SSound, InTime
    <3>4. poll.ticket <= cursor'.sequence BY <1>1, <2>1 DEF PollIsSound
    <3> QED BY <1>1, <3>1, <3>2, <3>3, <3>4 DEF PollIsSound
  <2> QED BY <2>2, <2>3
<1>11. SSound'
  <2>1. \A poll \in polls' : PollIsSound(poll)' BY <1>1, <1>10
  <2>2. \A one, other \in polls' : one.ticket = other.ticket => one = other
    BY <1>1, <1>4 DEF SInv, SSound
  <2>3. state.mode \in Modes => InTime(state.mode, state.content)'
    BY <1>1, <1>8 DEF SInv, SSound
  <2> QED BY <1>1, <1>9, <2>1, <2>2, <2>3 DEF SSound
<1>12. ShownNeverOlder BY <1>1 DEF ShownNeverOlder, SInv, STyped, Contents
<1> QED BY <1>5, <1>11, <1>12 DEF SInv

\* An answer that is accepted is to the last poll, so no older one follows it.
LEMMA ReceivesKeeps ==
    ASSUME SInv, NEW poll \in polls, receives(poll) PROVE SInv' /\ ShownNeverOlder
<1>1. /\ poll.at = "answered" /\ polls' = polls \ {poll}
      /\ UNCHANGED <<records, instance, revision, fingerprints, flight>>
  BY DEF receives, dashboard
<1>2. CASE UNCHANGED <<cursor, state>>
  <2>1. STyped' BY <1>1, <1>2 DEF SInv, STyped
  <2>2. cursor'.sequence >= cursor.sequence BY <1>2 DEF SInv, STyped
  <2> QED BY <1>1, <1>2, <2>1, <2>2, PollsKeep DEF SInv, SSound
<1>3. CASE ~UNCHANGED <<cursor, state>>
  <2>1. /\ poll.ticket = cursor.sequence /\ state' = poll.answer
        /\ cursor' = [cursor EXCEPT !.instance = poll.answer.instance,
                         !.acceptedMode = poll.answer.mode, !.revision = poll.answer.revision]
    BY <1>3 DEF receives, accepts
  <2>2. /\ poll \in Polls /\ PollIsSound(poll) /\ poll.answer \in Contents
        /\ poll.answer.mode = poll.mode /\ InTime(poll.mode, poll.answer.content)
        /\ poll.mode \in Modes
        /\ state.mode = poll.mode => state.content <= poll.answer.content
    BY <1>1, <2>1 DEF SInv, SSound, STyped, Polls, PollIsSound
  <2>3. /\ cursor' \in [sequence : Nat, mode : Modes, instance : Nat,
                        acceptedMode : Modes \cup {"none"}, revision : Nat]
        /\ cursor'.sequence = cursor.sequence
    BY <2>1, <2>2 DEF SInv, STyped, Contents
  <2>4. STyped' BY <1>1, <2>1, <2>2, <2>3 DEF SInv, STyped
  <2>5. \A content : \A mode \in Modes : InTime(mode, content) => InTime(mode, content)'
    BY <1>1 DEF InTime, Newest
  <2>6. \A mode \in Modes : flight'[mode] <= Newest(mode)'
    BY <1>1 DEF SInv, SSound, Newest
  <2>7. ASSUME NEW other \in polls' PROVE PollIsSound(other)'
    <3>1. /\ other \in polls /\ PollIsSound(other) /\ other.mode \in Modes
          /\ other.ticket # cursor.sequence
      BY <1>1, <2>1 DEF SInv, SSound, STyped, Polls
    <3> QED BY <2>3, <2>5, <3>1 DEF PollIsSound
  <2>8. InTime(state.mode, state.content)'
    BY <2>1, <2>2, <2>5
  <2>9. SSound' BY <1>1, <2>6, <2>7, <2>8 DEF SInv, SSound
  <2>10. ShownNeverOlder BY <2>1, <2>2 DEF ShownNeverOlder
  <2> QED BY <2>4, <2>9, <2>10 DEF SInv
<1> QED BY <1>2, <1>3

LEMMA SnapshotsKeep ==
    ASSUME SInv, source \in Modes, SNext \/ UNCHANGED svars
    PROVE  SInv' /\ source' \in Modes /\ ShownNeverOlder
<1>1. CASE refresh BY <1>1, BeginKeeps DEF refresh
<1>2. ASSUME NEW mode \in Modes, answers(mode) \/ sourceChanged(mode)
      PROVE  SInv' /\ ShownNeverOlder
  BY <1>2, AnswersKeep, BeginKeeps DEF sourceChanged
<1>3. ASSUME NEW poll \in polls, arrives(poll) \/ receives(poll) \/ fails(poll)
      PROVE  SInv' /\ ShownNeverOlder
  BY <1>3, ArrivesKeeps, ReceivesKeeps, FailsKeeps
<1>4. CASE UNCHANGED svars
  <2>1. UNCHANGED <<records, instance, revision, fingerprints, flight, polls, cursor, state, source>>
    BY <1>4 DEF svars, dashboard, screen
  <2>2. STyped' BY <2>1 DEF SInv, STyped
  <2>3. cursor'.sequence >= cursor.sequence BY <2>1 DEF SInv, STyped
  <2>4. \A one, other \in polls' : one.ticket = other.ticket => one = other
    BY <2>1 DEF SInv, SSound
  <2>5. \A mode \in Modes : flight'[mode] = flight[mode] BY <2>1
  <2>6. polls' = polls BY <2>1
  <2> QED BY <2>1, <2>2, <2>3, <2>4, <2>5, <2>6, PollsKeep
<1>5. source' \in Modes
  BY DEF SNext, svars, screen, recordsChange, restart, answers, sourceChanged, refresh,
         arrives, receives, fails
<1> QED BY <1>1, <1>2, <1>3, <1>4, <1>5, RecordsKeep, RestartKeeps DEF SNext

-----------------------------------------------------------------------------
(* The private side, one: what is read of the inbox.                        *)
Sessions == [role : Profiles \cup {"none"}, since : Nat]
Revisions == [Ids -> Nat]
Reads == [ticket : Nat, session : Sessions, at : {"sent", "answered"}, revisions : Revisions]

ITyped ==
    /\ inbox \in Revisions /\ reads \subseteq Reads /\ inboxSequence \in Nat
    /\ role \in Profiles /\ access \in Sessions
    /\ intake \in [role : Profiles \cup {"none"}, revisions : Revisions]

NoNewer(some, others) == \A id \in Ids : some[id] <= others[id]

\* The answer that would be taken is no older than what is shown.
ReadIsSound(read) ==
    /\ read.session.role \in Profiles \ {"lender"}
    /\ read.ticket <= inboxSequence
    /\ read.at = "answered" => NoNewer(read.revisions, inbox)
    /\ read.ticket # 0 /\ read.at = "answered" /\ currentInboxResponse(read)
          => (intake.role = access.role => NoNewer(intake.revisions, read.revisions))

\* The access form is under way only while no access is open.
ISound ==
    /\ \A read \in reads : ReadIsSound(read)
    /\ \A one, other \in reads : one.ticket = other.ticket => one = other
    /\ \A read \in reads : read.ticket = 0 => ~openDemo /\ access.role = "none"
    /\ access.role \in {"none", role} \ {"lender"}
    /\ intake.role \in {"none", access.role}
    /\ intake.role = "none" => intake.revisions = NoRevisions
    /\ NoNewer(intake.revisions, inbox)

IInv == ITyped /\ ISound

InboxNeverOlder == intake.role = intake'.role => NoNewer(intake.revisions, intake'.revisions)

LEMMA NoNewerOrder ==
    ASSUME NEW one \in Revisions, NEW two \in Revisions, NEW three \in Revisions,
           NoNewer(one, two), NoNewer(two, three)
    PROVE  NoNewer(one, three)
BY DEF NoNewer, Revisions

LEMMA NothingIsOldest ==
    NoRevisions \in Revisions /\ \A some \in Revisions : NoNewer(NoRevisions, some) /\ NoNewer(some, some)
BY DEF NoRevisions, Revisions, NoNewer

LEMMA IInitIsSound == RInit => IInv
<1> SUFFICES ASSUME RInit PROVE IInv OBVIOUS
<1>1. ITyped
  BY NothingIsOldest DEF RInit, ITyped, Profiles, NoInbox, NoAccess, Sessions
<1>2. ISound
  BY NothingIsOldest DEF RInit, ISound, Profiles, NoInbox, NoAccess
<1> QED BY <1>1, <1>2 DEF IInv

\* Requests are submitted and reviewed, here or elsewhere.
LEMMA InboxGrowsKeeps ==
    ASSUME IInv, inbox' \in Revisions, NoNewer(inbox, inbox'),
           UNCHANGED <<reads, inboxSequence, role, access, intake, openDemo>>
    PROVE  IInv' /\ InboxNeverOlder
<1>1. ITyped' BY DEF IInv, ITyped
<1>2. inbox \in Revisions /\ intake.revisions \in Revisions BY DEF IInv, ITyped
<1>3. ASSUME NEW read \in reads PROVE ReadIsSound(read)'
  <2>1. ReadIsSound(read) /\ read.revisions \in Revisions BY DEF IInv, ISound, ITyped, Reads
  <2>2. read.at = "answered" => NoNewer(read.revisions, inbox')
    BY <1>2, <2>1, NoNewerOrder DEF ReadIsSound
  <2> QED BY <2>1, <2>2 DEF ReadIsSound, NoNewer, currentInboxResponse
<1>4. NoNewer(intake.revisions, inbox') BY <1>2, NoNewerOrder DEF IInv, ISound
<1>5. ISound'
  BY <1>3, <1>4 DEF IInv, ISound, NoNewer
<1>6. InboxNeverOlder BY <1>2, NothingIsOldest DEF InboxNeverOlder
<1> QED BY <1>1, <1>5, <1>6 DEF IInv

\* Everything read is forgotten: another profile, a locked workspace, a reload.
LEMMA ForgetKeeps ==
    ASSUME IInv, access' = NoAccess, intake' = NoInbox, reads' \subseteq reads,
           inboxSequence' \in Nat, inboxSequence' >= inboxSequence, role' \in Profiles,
           UNCHANGED <<inbox, openDemo>>
    PROVE  IInv' /\ InboxNeverOlder
<1>1. ITyped' BY NothingIsOldest DEF IInv, ITyped, NoAccess, NoInbox, Sessions
<1>2. ASSUME NEW read \in reads' PROVE ReadIsSound(read)'
  <2>1. ReadIsSound(read) /\ read \in Reads /\ inboxSequence \in Nat BY DEF IInv, ISound, ITyped
  <2>2. read.session # access' BY <2>1 DEF ReadIsSound, NoAccess, Profiles
  <2> QED BY <2>1, <2>2 DEF ReadIsSound, Reads, currentInboxResponse
<1>3. ISound'
  BY <1>2, NothingIsOldest DEF IInv, ISound, ITyped, NoAccess, NoInbox
<1>4. InboxNeverOlder
  BY NothingIsOldest DEF InboxNeverOlder, IInv, ISound, ITyped, NoInbox
<1> QED BY <1>1, <1>3, <1>4 DEF IInv

LEMMA ServeInboxKeeps ==
    ASSUME IInv, NEW read \in reads, serveInbox(read) PROVE IInv' /\ InboxNeverOlder
<1> DEFINE next == [read EXCEPT !.at = "answered", !.revisions = inbox]
<1>1. /\ reads' = (reads \ {read}) \cup {next} /\ read.at = "sent"
      /\ UNCHANGED <<inbox, inboxSequence, role, access, intake, openDemo>>
  BY DEF serveInbox, private, fixed
<1>2. inbox \in Revisions /\ intake.revisions \in Revisions /\ read \in Reads /\ ReadIsSound(read)
  BY DEF IInv, ITyped, ISound
<1>3. /\ next \in Reads /\ next.ticket = read.ticket /\ next.session = read.session
      /\ next.revisions = inbox
  BY <1>2 DEF Reads
<1> HIDE DEF next
<1>4. ITyped' BY <1>1, <1>3 DEF IInv, ITyped
<1>5. ASSUME NEW one, one = next PROVE ReadIsSound(one)'
  <2>1. NoNewer(intake.revisions, inbox) /\ NoNewer(inbox, inbox)
    BY <1>2, NothingIsOldest DEF IInv, ISound
  <2> QED BY <1>1, <1>2, <1>3, <1>5, <2>1 DEF ReadIsSound, currentInboxResponse
<1>6. ASSUME NEW one \in reads PROVE ReadIsSound(one)'
  <2>1. ReadIsSound(one) BY DEF IInv, ISound
  <2> QED BY <1>1, <2>1 DEF ReadIsSound, currentInboxResponse
<1>7. ISound'
  BY <1>1, <1>3, <1>5, <1>6 DEF IInv, ISound
<1>8. InboxNeverOlder BY <1>1, <1>2, NothingIsOldest DEF InboxNeverOlder
<1> QED BY <1>4, <1>7, <1>8 DEF IInv

\* The answer that is taken is to the last read under the open access.
LEMMA IntakeLoadedKeeps ==
    ASSUME IInv, NEW read \in reads, intakeLoaded(read) PROVE IInv' /\ InboxNeverOlder
<1>1. /\ read.at = "answered" /\ read.ticket # 0 /\ reads' = reads \ {read}
      /\ intake' = IF currentInboxResponse(read)
                   THEN [role |-> read.session.role, revisions |-> read.revisions] ELSE intake
      /\ UNCHANGED <<inbox, inboxSequence, role, access, openDemo>>
  BY DEF intakeLoaded, fixed
<1>2. inbox \in Revisions /\ intake.revisions \in Revisions /\ read \in Reads /\ ReadIsSound(read)
  BY DEF IInv, ITyped, ISound
<1>3. ITyped' BY <1>1, <1>2 DEF IInv, ITyped, Reads, Sessions
<1>4. CASE currentInboxResponse(read)
  <2>1. /\ intake'.role = access.role /\ intake'.revisions = read.revisions
        /\ read.ticket = inboxSequence /\ access.role # "none"
        /\ NoNewer(read.revisions, inbox)
        /\ intake.role = access.role => NoNewer(intake.revisions, read.revisions)
    BY <1>1, <1>2, <1>4 DEF currentInboxResponse, ReadIsSound, Profiles
  <2>2. ASSUME NEW one \in reads' PROVE ReadIsSound(one)'
    <3>1. one \in reads /\ ReadIsSound(one) /\ one.ticket # inboxSequence
      BY <1>1, <2>1 DEF IInv, ISound
    <3> QED BY <1>1, <3>1 DEF ReadIsSound, currentInboxResponse
  <2>3. ISound' BY <1>1, <2>1, <2>2 DEF IInv, ISound
  <2>4. InboxNeverOlder BY <2>1 DEF InboxNeverOlder
  <2> QED BY <1>3, <2>3, <2>4 DEF IInv
<1>5. CASE ~currentInboxResponse(read)
  <2>1. ASSUME NEW one \in reads' PROVE ReadIsSound(one)'
    <3>1. ReadIsSound(one) BY <1>1 DEF IInv, ISound
    <3> QED BY <1>1, <1>5, <3>1 DEF ReadIsSound, currentInboxResponse
  <2>2. ISound' BY <1>1, <1>5, <2>1 DEF IInv, ISound
  <2>3. InboxNeverOlder BY <1>1, <1>2, <1>5, NothingIsOldest DEF InboxNeverOlder
  <2> QED BY <1>3, <2>2, <2>3 DEF IInv
<1> QED BY <1>4, <1>5

LEMMA IntakeFailsKeeps ==
    ASSUME IInv, NEW read \in reads, intakeFails(read) PROVE IInv' /\ InboxNeverOlder
<1>1. /\ reads' = reads \ {read}
      /\ UNCHANGED <<inbox, inboxSequence, role, access, intake, openDemo>>
  BY DEF intakeFails, fixed
<1>2. ITyped' BY <1>1 DEF IInv, ITyped
<1>3. ASSUME NEW one \in reads' PROVE ReadIsSound(one)'
  <2>1. ReadIsSound(one) BY <1>1 DEF IInv, ISound
  <2> QED BY <1>1, <2>1 DEF ReadIsSound, currentInboxResponse
<1>4. ISound' BY <1>1, <1>3 DEF IInv, ISound
<1>5. InboxNeverOlder BY <1>1, NothingIsOldest DEF InboxNeverOlder, IInv, ITyped
<1> QED BY <1>2, <1>4, <1>5 DEF IInv

\* A read is sent; an open demo may open the access with it.
LEMMA ReadSentKeeps ==
    ASSUME IInv, NEW read \in Reads, reads' = reads \cup {read}, read.at = "sent",
           read.session.role \in Profiles \ {"lender"},
           inboxSequence' \in Nat, access' \in Sessions,
           \/ read.ticket = inboxSequence + 1 /\ inboxSequence' = inboxSequence + 1
           \/ /\ read.ticket = 0 /\ Forms = {} /\ ~openDemo /\ access.role = "none"
              /\ inboxSequence' = inboxSequence,
           access' = access \/ (openDemo /\ access.role # role /\ access'.role = role /\ role # "lender"),
           UNCHANGED <<inbox, role, intake, openDemo>>
    PROVE  IInv' /\ InboxNeverOlder
<1>1. ITyped' BY DEF IInv, ITyped
<1>2. inboxSequence \in Nat /\ \A one \in reads : ReadIsSound(one) /\ one.ticket \in Nat
  BY DEF IInv, ITyped, ISound, Reads
<1>3. intake.role = access.role => access' = access \/ access.role = "none"
  BY DEF IInv, ISound
<1>4. access' # access => access.role = "none" /\ intake.role = "none" /\ access'.role # "none"
  BY DEF IInv, ISound, ITyped, Profiles
<1>5. ASSUME NEW one \in reads PROVE ReadIsSound(one)'
  BY <1>2, <1>4 DEF ReadIsSound, currentInboxResponse
<1>6. ReadIsSound(read)' BY <1>2 DEF ReadIsSound, currentInboxResponse
<1>7. \A one, other \in reads' : one.ticket = other.ticket => one = other
  BY <1>2 DEF IInv, ISound, ReadIsSound, Forms
<1>8. \A one \in reads' : one.ticket = 0 => ~openDemo' /\ access'.role = "none"
  BY <1>2 DEF IInv, ISound, ReadIsSound
<1>9. access'.role \in {"none", role'} \ {"lender"} /\ intake'.role \in {"none", access'.role}
  BY <1>4 DEF IInv, ISound
<1>10. ISound' BY <1>5, <1>6, <1>7, <1>8, <1>9 DEF IInv, ISound
<1>11. InboxNeverOlder BY NothingIsOldest DEF InboxNeverOlder, IInv, ITyped
<1> QED BY <1>1, <1>10, <1>11 DEF IInv

LEMMA RefreshedKeeps == ASSUME IInv, refreshed PROVE IInv' /\ InboxNeverOlder
<1>1. /\ \/ access' = access
         \/ /\ openDemo /\ access.role # role /\ role # "lender"
            /\ access' = [role |-> role, since |-> inboxSequence + 1]
      /\ UNCHANGED <<inbox, role, intake, openDemo>>
  BY DEF refreshed, fixed
<1>2. inboxSequence \in Nat /\ role \in Profiles /\ access \in Sessions BY DEF IInv, ITyped
<1>3. access' \in Sessions /\ (access' # access => access'.role = role /\ role # "lender")
  BY <1>1, <1>2 DEF Sessions
<1>4. CASE access'.role = role /\ role # "lender"
  <2> DEFINE read == Read(inboxSequence', access')
  <2>1. inboxSequence' = inboxSequence + 1 /\ reads' = reads \cup {read}
    BY <1>4 DEF refreshed
  <2>2. /\ read.ticket = inboxSequence' /\ read.session = access' /\ read.at = "sent"
        /\ read \in Reads
    BY <1>2, <1>3, <2>1, NothingIsOldest DEF Read, Reads
  <2> HIDE DEF read
  <2> QED BY <1>1, <1>2, <1>3, <1>4, <2>1, <2>2, ReadSentKeeps
<1>5. CASE ~(access'.role = role /\ role # "lender")
  <2>1. UNCHANGED <<reads, inboxSequence, access>> BY <1>3, <1>5 DEF refreshed
  <2>2. inbox \in Revisions BY DEF IInv, ITyped
  <2> QED BY <1>1, <2>1, <2>2, NothingIsOldest, InboxGrowsKeeps
<1> QED BY <1>4, <1>5

LEMMA AccessSentKeeps == ASSUME IInv, accessSent PROVE IInv' /\ InboxNeverOlder
<1>1. /\ access.role # role /\ role # "lender" /\ ~openDemo /\ Forms = {}
      /\ reads' = reads \cup {FormRead}
      /\ UNCHANGED <<inbox, inboxSequence, role, access, intake, openDemo>>
  BY DEF accessSent, hasAccess, private, fixed
<1>2. access.role = "none" /\ role \in Profiles /\ inboxSequence \in Nat /\ access \in Sessions
  BY <1>1 DEF IInv, ISound, ITyped
<1> DEFINE read == FormRead
<1>3. read \in Reads /\ read.ticket = 0 /\ read.at = "sent" /\ read.session.role = role
  BY <1>2, NothingIsOldest DEF FormRead, Read, Reads, Sessions
<1> HIDE DEF read
<1>4. reads' = reads \cup {read} BY <1>1 DEF read
<1> QED BY <1>1, <1>2, <1>3, <1>4, ReadSentKeeps

\* A form's answer opens the access, and no read was made under it yet.
LEMMA AccessOpenedKeeps ==
    ASSUME IInv, NEW read \in reads, accessOpened(read) PROVE IInv' /\ InboxNeverOlder
<1>1. /\ read.at = "answered" /\ read.ticket = 0 /\ reads' = reads \ {read}
      /\ UNCHANGED <<inbox, role, openDemo>>
      /\ IF role = read.session.role
         THEN /\ inboxSequence' = inboxSequence + 1
              /\ access' = [role |-> role, since |-> inboxSequence']
              /\ intake' = [role |-> role, revisions |-> read.revisions]
         ELSE UNCHANGED <<inboxSequence, access, intake>>
  BY DEF accessOpened, private, fixed
<1>2. /\ read \in Reads /\ ReadIsSound(read) /\ role \in Profiles /\ inboxSequence \in Nat
      /\ access.role = "none" /\ intake.role = "none" /\ access \in Sessions
  BY <1>1 DEF IInv, ISound, ITyped
<1>3. ITyped' BY <1>1, <1>2 DEF IInv, ITyped, Reads, Sessions
<1>4. ASSUME NEW one \in reads' PROVE ReadIsSound(one)'
  <2>1. ReadIsSound(one) /\ one \in Reads BY <1>1 DEF IInv, ISound, ITyped
  <2> QED BY <1>1, <1>2, <2>1 DEF ReadIsSound, currentInboxResponse, Reads
<1>5. \A one \in reads' : one.ticket # 0
  BY <1>1 DEF IInv, ISound
<1>6. NoNewer(intake'.revisions, inbox')
  BY <1>1, <1>2 DEF IInv, ISound, ReadIsSound
<1>7. ISound'
  BY <1>1, <1>2, <1>4, <1>5, <1>6 DEF IInv, ISound, ReadIsSound, Profiles
<1>8. InboxNeverOlder
  BY <1>1, <1>2, NothingIsOldest DEF InboxNeverOlder, IInv, ITyped, Profiles
<1> QED BY <1>3, <1>7, <1>8 DEF IInv

LEMMA EffectGrows ==
    ASSUME inbox \in Revisions, NEW request, Effect(request)
    PROVE  inbox' \in Revisions /\ NoNewer(inbox, inbox')
BY DEF Effect, Revisions, NoNewer

LEMMA InboxKeeps == ASSUME IInv, RNext \/ UNCHANGED rvars PROVE IInv' /\ InboxNeverOlder
<1>1. inbox \in Revisions /\ NoNewer(inbox, inbox) BY NothingIsOldest DEF IInv, ITyped
<1>2. CASE \/ \E id \in Ids : openIntake(id)
           \/ applyReview \/ openRequest \/ draftRequest \/ requestBack \/ requestClose \/ submit
           \/ submitSucceeds \/ submitFails \/ reviewAnswered \/ UNCHANGED rvars
  <2>1. UNCHANGED <<inbox, reads, inboxSequence, role, access, intake, openDemo>>
    BY <1>2 DEF openIntake, applyReview, openRequest, draftRequest, requestBack, requestClose,
                submit, submitSucceeds, submitFails, reviewAnswered, rvars, private, fixed
  <2> QED BY <1>1, <2>1, InboxGrowsKeeps
<1>3. CASE takesEffect \/ \E request \in late : takesEffectLate(request)
  <2>1. UNCHANGED <<reads, inboxSequence, role, access, intake, openDemo>>
    BY <1>3 DEF takesEffect, takesEffectLate, private, fixed
  <2>2. inbox' \in Revisions /\ NoNewer(inbox, inbox')
    BY <1>1, <1>3, EffectGrows DEF takesEffect, takesEffectLate
  <2> QED BY <2>1, <2>2, InboxGrowsKeeps
<1>4. ASSUME NEW id \in Ids, othersReview(id) PROVE IInv' /\ InboxNeverOlder
  <2>1. UNCHANGED <<reads, inboxSequence, role, access, intake, openDemo>>
    BY <1>4 DEF othersReview, private, fixed
  <2>2. inbox' \in Revisions /\ NoNewer(inbox, inbox')
    BY <1>1, <1>4 DEF othersReview, Revisions, NoNewer
  <2> QED BY <2>1, <2>2, InboxGrowsKeeps
<1>5. CASE accessLocked \/ reload \/ \E profile \in Profiles : profileChanges(profile)
  <2>1. /\ access' = NoAccess /\ intake' = NoInbox /\ reads' \subseteq reads
        /\ inboxSequence' \in {inboxSequence, inboxSequence + 1} /\ role' \in Profiles
        /\ UNCHANGED <<inbox, openDemo>>
    BY <1>5 DEF accessLocked, reload, profileChanges, Forget, fixed, IInv, ITyped
  <2>2. inboxSequence \in Nat BY DEF IInv, ITyped
  <2> QED BY <2>1, <2>2, ForgetKeeps
<1>6. ASSUME NEW read \in reads,
             serveInbox(read) \/ intakeLoaded(read) \/ intakeFails(read) \/ accessOpened(read)
      PROVE  IInv' /\ InboxNeverOlder
  BY <1>6, ServeInboxKeeps, IntakeLoadedKeeps, IntakeFailsKeeps, AccessOpenedKeeps
<1> QED BY <1>2, <1>3, <1>4, <1>5, <1>6, RefreshedKeeps, AccessSentKeeps DEF RNext

-----------------------------------------------------------------------------
(* The private side, two: what is sent.                                     *)
Posts ==
    [kind : {"none", "submit", "review"}, id : Ids \cup {"none"}, revision : Nat, shown : Nat,
     at : {"none", "sent", "done", "refused"}]

PTyped ==
    /\ post \in Posts /\ late \subseteq Posts
    /\ review \in [id : Ids \cup {"none"}, revision : Nat]
    /\ draft \in Ids \cup {"none"} /\ pending \in Ids \cup {"none"}

\* The pending copy is the one in storage and the one in an open dialog.
PSound ==
    /\ uncertain \subseteq {pending} \ {"none"}
    /\ stored = IF storage THEN pending ELSE "none"
    /\ dialog => pending \in {"none", draft}
    /\ sending /\ post.kind = "submit" => pending \in {"none", post.id}

\* A review names the version that was shown, and replaces no other.
ShowsWhatItReplaces(request) == request.kind = "review" => request.shown = request.revision
DSound ==
    /\ \A request \in late \cup {post} : ShowsWhatItReplaces(request)
    /\ \A decision \in decided : decision.shown = decision.replaced

PInv == PTyped /\ PSound /\ DSound

LEMMA PInitIsSound == RInit => PInv
BY DEF RInit, PInv, PTyped, PSound, DSound, ShowsWhatItReplaces, Posts, NoPost, NoReview

LEMMA EffectKeeps ==
    ASSUME PInv, NEW request \in late \cup {post}, Effect(request)
    PROVE  \A decision \in decided' : decision.shown = decision.replaced
<1>1. CASE UNCHANGED decided BY <1>1 DEF PInv, DSound
<1>2. CASE ~UNCHANGED decided
  <2>1. /\ request.kind = "review" /\ inbox[request.id] = request.revision
        /\ decided' = decided \cup {[shown |-> request.shown, replaced |-> inbox[request.id]]}
    BY <1>2 DEF Effect
  <2> QED BY <2>1 DEF PInv, DSound, ShowsWhatItReplaces
<1> QED BY <1>1, <1>2

\* A post is sent, from the dialog or from a review.
LEMMA SendKeeps ==
    ASSUME PInv, NEW kind \in {"submit", "review"}, NEW id \in Ids \cup {"none"},
           NEW version \in Nat, NEW shown \in Nat, Send(kind, id, version, shown),
           kind = "review" => shown = version
    PROVE  /\ post' \in Posts /\ late' = late /\ sending' = TRUE /\ ~sending
           /\ post'.kind = kind /\ post'.id = id
           /\ \A request \in late' \cup {post'} : ShowsWhatItReplaces(request)
<1> DEFINE sent == [kind |-> kind, id |-> id, revision |-> version, shown |-> shown, at |-> "sent"]
<1>1. post' = sent /\ late' = late /\ sending' = TRUE /\ ~sending BY DEF Send
<1>2. /\ sent \in Posts /\ sent.kind = kind /\ sent.id = id
      /\ sent.shown = shown /\ sent.revision = version
  BY DEF Posts
<1> HIDE DEF sent
<1> QED BY <1>1, <1>2 DEF PInv, DSound, ShowsWhatItReplaces

\* The page stops waiting.
LEMMA AbandonKeeps ==
    ASSUME PInv, Abandon
    PROVE  /\ post' \in Posts /\ late' \subseteq Posts /\ post'.kind = "none"
           /\ \A request \in late' \cup {post'} : ShowsWhatItReplaces(request)
BY DEF Abandon, PInv, PTyped, DSound, ShowsWhatItReplaces, Posts, NoPost

\* What is typed stays in the dialog, and what was sent is settled or kept.
LEMMA PostsKeep == ASSUME IInv, PInv, RNext \/ UNCHANGED rvars PROVE PInv'
<1>1. CASE \/ refreshed \/ accessSent \/ UNCHANGED rvars
           \/ \E read \in reads : serveInbox(read) \/ intakeFails(read) \/ accessOpened(read)
           \/ \E id \in Ids : othersReview(id)
  <2>1. UNCHANGED <<post, late, review, dialog, draft, pending, stored, uncertain, sending,
                    decided, storage>>
    BY <1>1 DEF refreshed, accessSent, serveInbox, intakeFails, accessOpened, othersReview, rvars,
                dialogs, submission, posting, fixed
  <2> QED BY <2>1 DEF PInv, PTyped, PSound, DSound
<1>2. CASE \/ accessLocked \/ openRequest \/ draftRequest \/ requestBack \/ requestClose
           \/ \E profile \in Profiles : profileChanges(profile)
           \/ \E id \in Ids : openIntake(id)
  <2>1. UNCHANGED <<post, late, pending, stored, uncertain, sending, decided, storage>>
    BY <1>2 DEF accessLocked, openRequest, draftRequest, requestBack, requestClose,
                profileChanges, openIntake, submission, posting, fixed
  <2>2. review' \in [id : Ids \cup {"none"}, revision : Nat]
    BY <1>2 DEF accessLocked, openRequest, draftRequest, requestBack, requestClose, closeReview,
                NoReview, profileChanges, openIntake, PInv, PTyped, IInv, ITyped, Revisions
  <2>3. draft' \in Ids \cup {"none"}
    BY <1>2 DEF accessLocked, openRequest, draftRequest, requestBack, requestClose, Fresh,
                profileChanges, openIntake, dialogs, PInv, PTyped
  <2>4. dialog' => pending \in {"none", draft'}
    BY <1>2 DEF accessLocked, openRequest, draftRequest, requestBack, requestClose,
                profileChanges, openIntake, PInv, PSound
  <2> QED BY <2>1, <2>2, <2>3, <2>4 DEF PInv, PTyped, PSound, DSound
<1>3. ASSUME NEW read \in reads, intakeLoaded(read) PROVE PInv'
  <2>1. UNCHANGED <<post, late, review, dialog, draft, sending, decided, storage>>
    BY <1>3 DEF intakeLoaded, dialogs, posting, fixed
  <2>2. \/ pending' = "none" /\ stored' = "none" /\ uncertain' = uncertain \ {pending}
        \/ UNCHANGED <<pending, stored, uncertain>>
    BY <1>3 DEF intakeLoaded, clearPending, submission
  <2> QED BY <2>1, <2>2 DEF PInv, PTyped, PSound, DSound
<1>4. CASE applyReview
  <2>1. /\ Send("review", review.id, review.revision, review.revision)
        /\ UNCHANGED <<review, dialog, draft, pending, stored, uncertain, decided, storage>>
    BY <1>4 DEF applyReview, dialogs, submission, fixed
  <2>2. review.id \in Ids \cup {"none"} /\ review.revision \in Nat BY DEF PInv, PTyped
  <2>3. /\ post' \in Posts /\ late' = late /\ post'.kind = "review"
        /\ \A request \in late' \cup {post'} : ShowsWhatItReplaces(request)
    BY <2>1, <2>2, SendKeeps
  <2> QED BY <2>1, <2>3 DEF PInv, PTyped, PSound, DSound, ShowsWhatItReplaces
<1>5. CASE submit
  <2>1. /\ dialog /\ draft # "none" /\ pending' = draft
        /\ stored' = IF storage THEN draft ELSE stored
        /\ uncertain' = uncertain \cup {draft}
        /\ Send("submit", draft, 0, 0)
        /\ UNCHANGED <<review, dialog, draft, decided, storage>>
    BY <1>5 DEF submit, dialogs, fixed
  <2>2. draft \in Ids \cup {"none"} BY DEF PInv, PTyped
  <2>3. /\ post' \in Posts /\ late' = late /\ post'.id = draft
        /\ \A request \in late' \cup {post'} : ShowsWhatItReplaces(request)
    BY <2>1, <2>2, SendKeeps
  <2> QED BY <2>1, <2>3 DEF PInv, PTyped, PSound, DSound, ShowsWhatItReplaces
<1>6. CASE takesEffect
  <2>1. /\ UNCHANGED <<late, review, dialog, draft, pending, stored, uncertain, sending, storage>>
        /\ \E at \in {"done", "refused"} : post' = [post EXCEPT !.at = at]
        /\ Effect(post) \/ UNCHANGED decided
    BY <1>6 DEF takesEffect, dialogs, submission, fixed
  <2>2. /\ post' \in Posts /\ post'.kind = post.kind /\ post'.id = post.id
        /\ post'.shown = post.shown /\ post'.revision = post.revision
    BY <2>1 DEF PInv, PTyped, Posts
  <2>3. \A decision \in decided' : decision.shown = decision.replaced
    BY <2>1, EffectKeeps DEF PInv, DSound
  <2> QED BY <2>1, <2>2, <2>3 DEF PInv, PTyped, PSound, DSound, ShowsWhatItReplaces
<1>7. ASSUME NEW request \in late, takesEffectLate(request) PROVE PInv'
  <2>1. /\ late' \subseteq late /\ Effect(request)
        /\ UNCHANGED <<post, review, dialog, draft, pending, stored, uncertain, sending, storage>>
    BY <1>7 DEF takesEffectLate, dialogs, submission, fixed
  <2>2. \A decision \in decided' : decision.shown = decision.replaced
    BY <2>1, EffectKeeps
  <2> QED BY <2>1, <2>2 DEF PInv, PTyped, PSound, DSound, ShowsWhatItReplaces
<1>8. CASE submitSucceeds
  <2>1. /\ sending /\ post.kind = "submit" /\ sending' = FALSE /\ post' = NoPost
        /\ pending' = "none" /\ stored' = "none" /\ uncertain' = uncertain \ {post.id}
        /\ draft' = "none" /\ dialog' = FALSE
        /\ UNCHANGED <<review, late, decided, storage>>
    BY <1>8 DEF submitSucceeds, clearPending, fixed
  <2>2. uncertain' = {} BY <2>1 DEF PInv, PSound
  <2> QED BY <2>1, <2>2 DEF PInv, PTyped, PSound, DSound, ShowsWhatItReplaces, NoPost, Posts
<1>9. CASE submitFails \/ reviewAnswered
  <2>1. /\ Abandon /\ sending' = FALSE /\ review' \in {review, NoReview}
        /\ UNCHANGED <<dialog, draft, pending, stored, uncertain, decided, storage>>
    BY <1>9 DEF submitFails, reviewAnswered, closeReview, dialogs, submission, fixed
  <2> QED BY <2>1, AbandonKeeps DEF PInv, PTyped, PSound, DSound, NoReview
<1>10. CASE reload
  <2>1. /\ Abandon /\ sending' = FALSE /\ review' = NoReview /\ dialog' = FALSE
        /\ draft' = "none" /\ pending' = stored
        /\ uncertain' = IF storage THEN uncertain ELSE {}
        /\ UNCHANGED <<stored, decided, storage>>
    BY <1>10 DEF reload, closeReview, fixed
  <2>2. pending' = IF storage THEN pending ELSE "none" BY <2>1 DEF PInv, PSound
  <2> QED BY <2>1, <2>2, AbandonKeeps DEF PInv, PTyped, PSound, DSound, NoReview
<1> QED BY <1>1, <1>2, <1>3, <1>4, <1>5, <1>6, <1>7, <1>8, <1>9, <1>10 DEF RNext

-----------------------------------------------------------------------------
(* The dialog for an exact action.                                          *)
Actions == {Approve(signer) : signer \in Signers} \cup {Submit}
SomeTerms == Terms \cup {"none"}
Servers ==
    [start : Nat, terms : Terms, approvals : SUBSET Signers, sent : BOOLEAN, ready : BOOLEAN]
Asked ==
    [terms : SomeTerms, action : Actions, shown : SomeTerms, ticked : BOOLEAN, answered : BOOLEAN]

ETyped ==
    /\ server \in Servers /\ ticked \in BOOLEAN
    /\ snapshot \in [start : Nat, terms : SomeTerms, offers : SUBSET Actions]
    /\ exact \in [start : Nat, terms : SomeTerms, action : Actions \cup {<<"none", "none">>}]
    /\ waiting \in Asked \cup {NoRequest}
    /\ abandoned \subseteq Asked

\* What is asked for was shown, and on a customer's page consented to.
AskedIsShown(request) == request.shown = request.terms /\ (desk \in Signers => request.ticked)
ESound ==
    /\ \A request \in abandoned \cup {waiting} : request # NoRequest => AskedIsShown(request)
    /\ \A approval \in approved :
          approval.shown = approval.is /\ (desk \in Signers => approval.ticked)

EInv == ETyped /\ ESound

LEMMA EInitIsSound == EInit => EInv
<1> SUFFICES ASSUME EInit PROVE EInv OBVIOUS
<1>1. server \in Servers
  <2>1. \A Start, Sent : Start \subseteq Nat /\ Sent \subseteq BOOLEAN =>
           [start : Start, terms : Terms, approvals : {{}}, sent : Sent, ready : BOOLEAN]
              \subseteq Servers
    BY DEF Servers
  <2>2. {1} \subseteq Nat /\ {FALSE} \subseteq BOOLEAN OBVIOUS
  <2> QED BY <2>1, <2>2 DEF EInit
<1>2. ETyped BY <1>1 DEF EInit, ETyped, Blank, NoDialog, SomeTerms
<1>3. ESound BY DEF EInit, ESound
<1> QED BY <1>2, <1>3 DEF EInv

LEMMA OffersAreActions == ASSUME EInv PROVE Offers \subseteq Actions
BY DEF Offers, withReadiness, Actions

\* The server compares the agreement of an approval with its record.
LEMMA HandleKeeps ==
    ASSUME EInv, NEW request \in Asked, AskedIsShown(request), Handle(request)
    PROVE  /\ server' \in Servers
           /\ \A approval \in approved' :
                 approval.shown = approval.is /\ (desk \in Signers => approval.ticked)
<1>1. server \in Servers BY DEF EInv, ETyped
<1>2. CASE UNCHANGED <<server, approved>> BY <1>1, <1>2 DEF EInv, ESound
<1>3. CASE server' = [server EXCEPT !.sent = TRUE] /\ UNCHANGED approved
  BY <1>1, <1>3 DEF EInv, ESound, Servers
<1>4. CASE /\ Accepts(request) /\ request.action # Submit
           /\ server' = [server EXCEPT !.approvals = @ \cup {request.action[2]}]
           /\ approved' = approved \cup {[shown |-> request.shown, ticked |-> request.ticked,
                                          is |-> server.terms]}
  <2>1. PICK signer \in Signers : request.action = Approve(signer)
    BY <1>4 DEF Asked, Actions
  <2>2. request.action[2] = signer BY <2>1 DEF Approve
  <2>3. request.terms = server.terms BY <1>4 DEF Accepts
  <2>4. server' \in Servers BY <1>1, <1>4, <2>2 DEF Servers
  <2> QED BY <1>4, <2>3, <2>4 DEF EInv, ESound, AskedIsShown
<1> QED BY <1>2, <1>3, <1>4 DEF Handle

LEMMA ActionsKeep == ASSUME EInv, ENext \/ UNCHANGED evars PROVE EInv'
<1>1. CASE handles
  <2>1. /\ waiting \in Asked /\ AskedIsShown(waiting) /\ Handle(waiting)
        /\ waiting' = [waiting EXCEPT !.answered = TRUE]
        /\ UNCHANGED <<desk, snapshot, exact, ticked, abandoned>>
    BY <1>1 DEF handles, EInv, ETyped, ESound, Shown, Dialog
  <2>2. /\ server' \in Servers
        /\ \A approval \in approved' :
              approval.shown = approval.is /\ (desk \in Signers => approval.ticked)
    BY <2>1, HandleKeeps
  <2>3. /\ waiting' \in Asked /\ waiting'.shown = waiting.shown
        /\ waiting'.terms = waiting.terms /\ waiting'.ticked = waiting.ticked
    BY <2>1 DEF Asked
  <2> QED BY <2>1, <2>2, <2>3 DEF EInv, ETyped, ESound, AskedIsShown
<1>2. ASSUME NEW request \in abandoned, handlesLate(request) PROVE EInv'
  <2>1. /\ request \in Asked /\ Handle(request) /\ abandoned' \subseteq abandoned
        /\ UNCHANGED <<desk, snapshot, exact, ticked, waiting>>
    BY <1>2 DEF handlesLate, EInv, ETyped, Shown, Dialog
  <2>2. AskedIsShown(request)
    BY <2>1 DEF EInv, ESound, NoRequest, Asked
  <2>3. /\ server' \in Servers
        /\ \A approval \in approved' :
              approval.shown = approval.is /\ (desk \in Signers => approval.ticked)
    BY <2>1, <2>2, HandleKeeps
  <2> QED BY <2>1, <2>3 DEF EInv, ETyped, ESound, AskedIsShown
<1>3. CASE starts
  <2>1. /\ abandoned' = {} /\ UNCHANGED <<desk, snapshot, exact, ticked, approved>>
        /\ waiting' = IF waiting = NoRequest THEN waiting ELSE [waiting EXCEPT !.answered = TRUE]
    BY <1>3 DEF starts, Shown, Dialog
  <2>2. PICK terms \in Terms :
            server' = IF terms = server.terms THEN [server EXCEPT !.start = @ + 1, !.ready = FALSE]
                      ELSE [start |-> server.start + 1, terms |-> terms, approvals |-> {},
                            sent |-> FALSE, ready |-> FALSE]
    BY <1>3 DEF starts
  <2>3. server' \in Servers
    <3>1. server \in Servers /\ server.start + 1 \in Nat BY DEF EInv, ETyped, Servers
    <3> DEFINE next == server.start + 1
    <3>2. CASE server' = [server EXCEPT !.start = next, !.ready = FALSE]
      <4> HIDE DEF next
      <4> QED BY <3>1, <3>2 DEF Servers, next
    <3>3. CASE server' = [start |-> next, terms |-> terms, approvals |-> {},
                          sent |-> FALSE, ready |-> FALSE]
      <4> HIDE DEF next
      <4> QED BY <3>1, <3>3 DEF Servers, next
    <3> QED BY <2>2, <3>2, <3>3
  <2>4. CASE waiting = NoRequest
    BY <2>1, <2>3, <2>4 DEF EInv, ETyped, ESound, AskedIsShown
  <2>5. CASE waiting # NoRequest
    <3>1. /\ waiting' \in Asked /\ waiting'.shown = waiting.shown
          /\ waiting'.terms = waiting.terms /\ waiting'.ticked = waiting.ticked
      BY <2>1, <2>5 DEF EInv, ETyped, Asked
    <3> QED BY <2>1, <2>3, <2>5, <3>1 DEF EInv, ETyped, ESound, AskedIsShown
  <2> QED BY <2>4, <2>5
<1>4. CASE worldChanges
  <2>1. UNCHANGED <<desk, snapshot, exact, ticked, waiting, abandoned, approved>>
    BY <1>4 DEF worldChanges, Shown, Dialog, Requests
  <2>2. server' \in Servers
    <3>1. server \in Servers BY DEF EInv, ETyped
    <3>2. CASE server' = [server EXCEPT !.ready = ~@]
      <4>1. \A flag \in BOOLEAN : [server EXCEPT !.ready = flag] \in Servers BY <3>1 DEF Servers
      <4>2. CASE server.ready = TRUE
        <5>1. (~server.ready) = FALSE BY <4>2
        <5> QED BY <3>2, <4>1, <5>1
      <4>3. CASE server.ready = FALSE
        <5>1. (~server.ready) = TRUE BY <4>3
        <5> QED BY <3>2, <4>1, <5>1
      <4>4. server.ready \in BOOLEAN BY <3>1 DEF Servers
      <4> QED BY <4>2, <4>3, <4>4
    <3>3. ASSUME NEW signer \in Signers, server' = [server EXCEPT !.approvals = @ \cup {signer}]
          PROVE  server' \in Servers
      BY <3>1, <3>3 DEF Servers
    <3> QED BY <1>4, <3>1, <3>2, <3>3 DEF worldChanges
  <2> QED BY <2>1, <2>2 DEF EInv, ETyped, ESound, AskedIsShown
<1>5. CASE refreshes
  <2>1. UNCHANGED <<server, desk, exact, ticked, waiting, abandoned, approved>>
    BY <1>5 DEF refreshes, Dialog, Requests
  <2>2. snapshot' \in [start : Nat, terms : SomeTerms, offers : SUBSET Actions]
    BY <1>5, OffersAreActions DEF refreshes, EInv, ETyped, Servers, SomeTerms
  <2> QED BY <2>1, <2>2 DEF EInv, ETyped, ESound, AskedIsShown
<1>6. CASE (\E action \in snapshot.offers : startReview(action)) \/ openLoan \/ ticks \/ cancelReview
  <2>1. UNCHANGED <<server, desk, snapshot, waiting, abandoned, approved>>
    BY <1>6 DEF startReview, openLoan, ticks, cancelReview, Shown, Requests
  <2>2. ticked' \in BOOLEAN
    BY <1>6 DEF startReview, openLoan, ticks, cancelReview, Close, EInv, ETyped
  <2>3. exact' \in [start : Nat, terms : SomeTerms, action : Actions \cup {<<"none", "none">>}]
    BY <1>6 DEF startReview, openLoan, ticks, cancelReview, Close, NoDialog, SomeTerms, EInv, ETyped
  <2> QED BY <2>1, <2>2, <2>3 DEF EInv, ETyped, ESound, AskedIsShown
<1>7. CASE confirmAction \/ applyLoan
  <2>1. /\ desk = "console" \/ ticked
        /\ exact.action \in snapshot.offers
        /\ waiting' = [terms |-> exact.terms, action |-> exact.action,
                       shown |-> exact.terms, ticked |-> ticked, answered |-> FALSE]
        /\ UNCHANGED <<server, desk, snapshot, exact, ticked, abandoned, approved>>
    BY <1>7 DEF confirmAction, applyLoan, Confirm, sameReview, Shown, Dialog
  <2>2. waiting' \in Asked /\ AskedIsShown(waiting)'
    BY <2>1 DEF EInv, ETyped, Asked, AskedIsShown, Signers
  <2> QED BY <2>1, <2>2 DEF EInv, ETyped, ESound, AskedIsShown
<1>8. CASE settles
  <2>1. /\ waiting' = NoRequest /\ waiting # NoRequest
        /\ abandoned' \in {abandoned, abandoned \cup {waiting}}
        /\ exact' = NoDialog /\ UNCHANGED <<server, desk, snapshot, ticked, approved>>
    BY <1>8 DEF settles, Close, Shown, Busy
  <2>2. exact' \in [start : Nat, terms : SomeTerms, action : Actions \cup {<<"none", "none">>}]
    BY <2>1 DEF NoDialog, SomeTerms
  <2> QED BY <2>1, <2>2 DEF EInv, ETyped, ESound, AskedIsShown
<1>9. CASE UNCHANGED evars
  BY <1>9 DEF evars, EInv, ETyped, ESound, AskedIsShown
<1> QED BY <1>1, <1>2, <1>3, <1>4, <1>5, <1>6, <1>7, <1>8, <1>9 DEF ENext

-----------------------------------------------------------------------------
(* What is read on demand: an answer under way is of its question, and no    *)
(* older than what is kept.                                                  *)
Keys == Loans \X Accounts
Observations == [loan : Loans \cup {"none"}, account : Accounts \cup {"none"}, index : Nat, balance : Nat]
Lookups == [key : Keys, at : {"sent", "ledger", "answered"}, answer : Observations]

WTyped ==
    /\ borrowers \in [Loans -> Accounts] /\ agreements \in [Loans -> Accounts]
    /\ validated \in Nat
    /\ readings \in [Keys -> [observation : Observations, busy : BOOLEAN]]
    /\ lookups \subseteq Lookups

\* An observation that may be kept under a key.
IsOf(observation, key) ==
    /\ observation # NoObservation =>
          /\ <<observation.loan, observation.account>> = key
          /\ observation.balance = Balance(observation.index)
    /\ observation.index <= validated

LookupIsSound(lookup) ==
    /\ readings[lookup.key].busy
    /\ lookup.at # "sent" => /\ lookup.answer.index <= validated
                             /\ readings[lookup.key].observation.index <= lookup.answer.index
    /\ lookup.at = "answered" => lookup.answer.balance = Balance(lookup.answer.index)

WSound ==
    /\ \A key \in Keys : IsOf(readings[key].observation, key)
    /\ \A lookup \in lookups : LookupIsSound(lookup)
    /\ \A one, other \in lookups : one.key = other.key => one = other

\* An answer of the guide, or a list of receipts, is of its own conversation or
\* request.
Drafts == [version : Nat, turn : Nat]

TalkIsSound ==
    /\ chat \in [version : Nat, turn : Nat, busy : BOOLEAN, draft : Drafts]
    /\ asks \subseteq Drafts
    /\ chat.draft \in {NoDraft} \cup [version : {chat.version}, turn : 1..chat.turn]
    /\ \A ask \in asks : /\ ask.version <= chat.version
                         /\ ask.version = chat.version => ask.turn \in 1..chat.turn

ListsAreSound ==
    /\ register.version \in Nat
    /\ register = [version |-> register.version, of |-> register.of, rows |-> register.rows]
    /\ register.rows \in {"none", "loading", "failed", register.of}
    /\ lists = {[version |-> list.version, loan |-> list.loan] : list \in lists}
    /\ \A list \in lists : /\ list.version \in Nat /\ list.version <= register.version
                           /\ list.version = register.version => list.loan = register.of

WInv == WTyped /\ WSound /\ TalkIsSound /\ ListsAreSound

NoReadingGoesBack ==
    \A key \in Keys : readings[key].observation.index <= readings'[key].observation.index

LEMMA WInitIsSound == WInit => WInv
<1> SUFFICES ASSUME WInit PROVE WInv OBVIOUS
<1>1. NoObservation \in Observations /\ NoObservation.index = 0 BY DEF NoObservation, Observations
<1>2. WTyped BY <1>1 DEF WInit, WTyped, Keys
<1>3. WSound BY <1>1 DEF WInit, WSound, IsOf, Keys
<1>4. TalkIsSound BY DEF WInit, TalkIsSound, Drafts, NoDraft
<1>5. ListsAreSound BY DEF WInit, ListsAreSound
<1> QED BY <1>2, <1>3, <1>4, <1>5 DEF WInv

\* The guide's conversation, whoever begins it anew.
LEMMA TalkKeeps ==
    ASSUME TalkIsSound,
           \/ UNCHANGED talk
           \/ UNCHANGED asks /\ chat' = Anew(chat.version + 1)
           \/ send
           \/ \E ask \in asks : chatAnswered(ask)
    PROVE  TalkIsSound'
<1> DEFINE Chats == [version : Nat, turn : Nat, busy : BOOLEAN, draft : Drafts]
<1>0. chat \in Chats /\ NoDraft \in Drafts BY DEF TalkIsSound, Drafts, NoDraft
<1>1. CASE UNCHANGED talk BY <1>1 DEF talk, TalkIsSound
<1>2. CASE UNCHANGED asks /\ chat' = Anew(chat.version + 1)
  <2> DEFINE next == chat.version + 1
  <2>1. next \in Nat /\ chat.version < next BY <1>0
  <2>2. chat' = [version |-> next, turn |-> 0, busy |-> FALSE, draft |-> NoDraft] BY <1>2 DEF Anew
  <2>3. \A ask \in asks : ask.version \in Nat /\ ask.version < next
    BY <1>0, <2>1 DEF TalkIsSound, Drafts
  <2> HIDE DEF next
  <2>4. chat' \in Chats /\ chat'.version = next /\ chat'.draft = NoDraft BY <1>0, <2>1, <2>2
  <2> QED BY <1>2, <2>3, <2>4, <2>1 DEF TalkIsSound
<1>3. CASE send
  <2> DEFINE next == chat.turn + 1
  <2>1. next \in Nat /\ next \in 1..next /\ 1..chat.turn \subseteq 1..next BY <1>0
  <2>2. /\ chat' = [chat EXCEPT !.busy = TRUE, !.turn = next]
        /\ asks' = asks \cup {[version |-> chat.version, turn |-> next]}
    BY <1>3 DEF send
  <2> HIDE DEF next
  <2>3. /\ chat' \in Chats /\ chat'.version = chat.version /\ chat'.turn = next
        /\ chat'.draft = chat.draft
    BY <1>0, <2>1, <2>2
  <2>4. [version |-> chat.version, turn |-> next] \in Drafts BY <1>0, <2>1 DEF Drafts
  <2>5. chat'.draft \in {NoDraft} \cup [version : {chat'.version}, turn : 1..chat'.turn]
    BY <2>1, <2>3 DEF TalkIsSound
  <2>6. \A ask \in asks' : /\ ask.version <= chat'.version
                           /\ ask.version = chat'.version => ask.turn \in 1..chat'.turn
    BY <1>0, <2>1, <2>2, <2>3 DEF TalkIsSound
  <2> QED BY <2>2, <2>3, <2>4, <2>5, <2>6 DEF TalkIsSound
<1>4. ASSUME NEW ask \in asks, chatAnswered(ask) PROVE TalkIsSound'
  <2>1. asks' = asks \ {ask} BY <1>4 DEF chatAnswered
  <2>2. CASE UNCHANGED chat BY <2>1, <2>2 DEF TalkIsSound
  <2>3. CASE chat' = [chat EXCEPT !.busy = FALSE]
    <3>1. /\ chat' \in Chats /\ chat'.version = chat.version
          /\ chat'.turn = chat.turn /\ chat'.draft = chat.draft
      BY <1>0, <2>3
    <3> QED BY <2>1, <3>1 DEF TalkIsSound
  <2>4. CASE ask.version = chat.version /\ chat' = [chat EXCEPT !.busy = FALSE, !.draft = ask]
    <3>1. ask \in Drafts /\ ask.turn \in 1..chat.turn BY <2>4 DEF TalkIsSound
    <3>2. /\ chat' \in Chats /\ chat'.version = chat.version
          /\ chat'.turn = chat.turn /\ chat'.draft = ask
      BY <1>0, <2>4, <3>1
    <3>3. ask \in [version : {chat.version}, turn : 1..chat.turn] BY <2>4, <3>1 DEF Drafts
    <3> QED BY <2>1, <3>2, <3>3 DEF TalkIsSound
  <2> QED BY <1>4, <2>2, <2>3, <2>4 DEF chatAnswered
<1> QED BY <1>1, <1>2, <1>3, <1>4

\* The list of receipts.
LEMMA ListsKeep ==
    ASSUME ListsAreSound,
           UNCHANGED receipts \/ showReceiptRegister \/ \E list \in lists : listSettles(list)
    PROVE  ListsAreSound'
<1>1. CASE UNCHANGED receipts BY <1>1 DEF receipts, ListsAreSound
<1>2. CASE showReceiptRegister
  <2> DEFINE next == register.version + 1
  <2>1. next \in Nat /\ register.version < next BY DEF ListsAreSound
  <2>2. /\ register' = [version |-> next, of |-> chosen,
                        rows |-> IF chosen = "none" THEN "none" ELSE "loading"]
        /\ lists' = lists \cup (IF chosen = "none" THEN {} ELSE {[version |-> next, loan |-> chosen]})
    BY <1>2 DEF showReceiptRegister
  <2>3. \A list \in lists : list.version \in Nat /\ list.version < next
    BY <2>1 DEF ListsAreSound
  <2> HIDE DEF next
  <2>4. lists' = {[version |-> list.version, loan |-> list.loan] : list \in lists'}
    BY <2>2 DEF ListsAreSound
  <2>5. \A list \in lists' : /\ list.version \in Nat /\ list.version <= next
                             /\ list.version = next => list.loan = chosen
    BY <2>1, <2>2, <2>3
  <2> QED BY <2>1, <2>2, <2>4, <2>5 DEF ListsAreSound
<1>3. ASSUME NEW list \in lists, listSettles(list) PROVE ListsAreSound'
  <2>1. lists' = lists \ {list} BY <1>3 DEF listSettles
  <2>2. /\ register' = [version |-> register.version, of |-> register.of, rows |-> register'.rows]
        /\ register'.rows \in {"none", "loading", "failed", register.of}
    BY <1>3 DEF listSettles, ListsAreSound
  <2>3. lists' = {[version |-> one.version, loan |-> one.loan] : one \in lists'}
    BY <2>1 DEF ListsAreSound
  <2> QED BY <2>1, <2>2, <2>3 DEF ListsAreSound
<1> QED BY <1>1, <1>2, <1>3

\* The observations, where no lookup settles.
LEMMA ReadingsKeep ==
    ASSUME WTyped, WSound, WTyped', validated <= validated',
           \A key \in Keys : readings'[key].observation = readings[key].observation,
           \A lookup \in lookups' : LookupIsSound(lookup)',
           \A one, other \in lookups' : one.key = other.key => one = other
    PROVE  WTyped' /\ WSound' /\ NoReadingGoesBack
<1>1. \A key \in Keys : readings[key].observation.index \in Nat BY DEF WTyped, Observations
<1>2. \A key \in Keys : IsOf(readings[key].observation, key)'
  BY <1>1 DEF WTyped, WSound, IsOf
<1> QED BY <1>1, <1>2 DEF WSound, NoReadingGoesBack

\* A lookup that settles, with something that may be kept.
LEMMA SettleKeeps ==
    ASSUME WTyped, WSound, NEW lookup \in lookups, NEW observation \in Observations,
           IsOf(observation, lookup.key),
           readings[lookup.key].observation.index <= observation.index,
           lookups' = lookups \ {lookup}, Settle(lookup.key, observation),
           UNCHANGED <<borrowers, agreements, validated>>
    PROVE  WTyped' /\ WSound' /\ NoReadingGoesBack
<1> DEFINE Kept == [observation : Observations, busy : BOOLEAN]
<1>1. lookup.key \in Keys /\ readings \in [Keys -> Kept] BY DEF WTyped, Lookups
<1>2. /\ readings' \in [Keys -> Kept]
      /\ readings'[lookup.key].observation = observation
      /\ \A key \in Keys : key # lookup.key => readings'[key] = readings[key]
  BY <1>1 DEF Settle
<1>3. WTyped' BY <1>2 DEF WTyped
<1>4. \A other \in lookups' : other.key # lookup.key /\ other.key \in Keys
  BY DEF WSound, WTyped, Lookups
<1>5. \A other \in lookups' : LookupIsSound(other)'
  BY <1>2, <1>4 DEF WSound, LookupIsSound
<1>6. \A key \in Keys : IsOf(readings[key].observation, key)'
  BY <1>2 DEF WSound, IsOf
<1>7. \A key \in Keys : readings[key].observation.index <= readings'[key].observation.index
  BY <1>1, <1>2 DEF Observations
<1> QED BY <1>3, <1>5, <1>6, <1>7 DEF WSound, NoReadingGoesBack

\* A lookup that moves on to another part of its way.
LEMMA LookupKeeps ==
    ASSUME WTyped, WSound, NEW lookup \in lookups, NEW next \in Lookups,
           next.key = lookup.key, LookupIsSound(next),
           lookups' = (lookups \ {lookup}) \cup {next},
           UNCHANGED <<borrowers, agreements, validated, readings>>
    PROVE  WTyped' /\ WSound' /\ NoReadingGoesBack
<1>1. WTyped' BY DEF WTyped
<1>2. \A one \in lookups' : LookupIsSound(one)' BY DEF WSound, LookupIsSound
<1>3. \A one, other \in lookups' : one.key = other.key => one = other BY DEF WSound
<1>4. validated <= validated' BY DEF WTyped
<1> QED BY <1>1, <1>2, <1>3, <1>4, ReadingsKeep

LEMMA WorldKeeps ==
    ASSUME WTyped, WSound, WTyped', validated <= validated', UNCHANGED wallets
    PROVE  WTyped' /\ WSound' /\ NoReadingGoesBack
<1>1. UNCHANGED <<readings, lookups>> BY DEF wallets
<1>2. \A lookup \in lookups : lookup.answer.index \in Nat BY DEF WTyped, Lookups, Observations
<1>3. \A lookup \in lookups' : LookupIsSound(lookup)' BY <1>1, <1>2 DEF WSound, LookupIsSound, WTyped
<1> QED BY <1>1, <1>3, ReadingsKeep DEF WSound

LEMMA ReadWalletKeeps == ASSUME WTyped, WSound, readWallet, chosen \in Loans
                         PROVE  WTyped' /\ WSound' /\ NoReadingGoesBack
<1> DEFINE key == <<chosen, agreements[chosen]>>
           sent == [key |-> key, at |-> "sent", answer |-> NoObservation]
           Kept == [observation : Observations, busy : BOOLEAN]
<1>1. /\ ~readings[key].busy
      /\ readings' = [readings EXCEPT ![key].busy = TRUE]
      /\ lookups' = lookups \cup {sent}
      /\ UNCHANGED <<borrowers, agreements, validated>>
  BY DEF readWallet
<1>2. key \in Keys /\ readings \in [Keys -> Kept] BY DEF WTyped, Keys
<1>3. NoObservation \in Observations BY DEF NoObservation, Observations
<1>4. sent \in Lookups /\ sent.key = key /\ sent.at = "sent" BY <1>2, <1>3 DEF Lookups
<1> HIDE DEF sent, key
<1>5. /\ readings' \in [Keys -> Kept] /\ readings'[key].busy
      /\ \A one \in Keys : /\ readings'[one].observation = readings[one].observation
                           /\ readings[one].busy => readings'[one].busy
  BY <1>1, <1>2
<1>6. WTyped' BY <1>1, <1>4, <1>5 DEF WTyped
<1>7. \A lookup \in lookups : lookup.key \in Keys /\ lookup.key # key
  BY <1>1 DEF WSound, LookupIsSound, WTyped, Lookups
<1>8. \A lookup \in lookups' : LookupIsSound(lookup)'
  BY <1>1, <1>4, <1>5, <1>7 DEF WSound, LookupIsSound
<1>9. \A one, other \in lookups' : one.key = other.key => one = other
  BY <1>1, <1>4, <1>7 DEF WSound
<1>10. validated <= validated' BY <1>1 DEF WTyped
<1> QED BY <1>5, <1>6, <1>8, <1>9, <1>10, ReadingsKeep

LEMMA LookupsKeep ==
    ASSUME WTyped, WSound, NEW lookup \in lookups,
           ledgerRead(lookup) \/ accountRead(lookup) \/ balanceArrives(lookup) \/ balanceFails(lookup)
    PROVE  WTyped' /\ WSound' /\ NoReadingGoesBack
<1>1. /\ lookup \in Lookups /\ lookup.key \in Keys /\ lookup.key[1] \in Loans
      /\ LookupIsSound(lookup)
  BY DEF WTyped, WSound, Lookups, Keys
<1>2. /\ readings[lookup.key].observation \in Observations
      /\ readings[lookup.key].observation.index <= validated
      /\ IsOf(readings[lookup.key].observation, lookup.key)
  BY <1>1 DEF WTyped, WSound, IsOf
<1>3. CASE ledgerRead(lookup)
  <2> DEFINE answer == [loan |-> lookup.key[1], account |-> borrowers[lookup.key[1]],
                        index |-> validated, balance |-> 0]
             next == [lookup EXCEPT !.at = "ledger", !.answer = answer]
  <2>1. answer \in Observations /\ answer.index = validated BY <1>1 DEF WTyped, Observations
  <2>2. /\ lookups' = (lookups \ {lookup}) \cup {next}
        /\ UNCHANGED <<borrowers, agreements, validated, readings>>
    BY <1>3 DEF ledgerRead
  <2> HIDE DEF answer
  <2>3. next \in Lookups /\ next.key = lookup.key /\ next.at = "ledger" /\ next.answer = answer
    BY <1>1, <2>1 DEF Lookups
  <2> HIDE DEF next
  <2>4. LookupIsSound(next) BY <1>1, <1>2, <2>1, <2>3 DEF LookupIsSound, WTyped
  <2> QED BY <2>2, <2>3, <2>4, LookupKeeps
<1>4. CASE accountRead(lookup)
  <2> DEFINE next == [lookup EXCEPT !.at = "answered", !.answer.balance = Balance(lookup.answer.index)]
  <2>1. /\ lookups' = (lookups \ {lookup}) \cup {next} /\ lookup.at = "ledger"
        /\ UNCHANGED <<borrowers, agreements, validated, readings>>
    BY <1>4 DEF accountRead
  <2>2. /\ next \in Lookups /\ next.key = lookup.key
        /\ next.answer.index = lookup.answer.index
        /\ next.answer.balance = Balance(lookup.answer.index)
    BY <1>1 DEF Lookups, Observations, Balance
  <2>3. LookupIsSound(next) BY <1>1, <2>1, <2>2 DEF LookupIsSound
  <2> HIDE DEF next
  <2> QED BY <2>1, <2>2, <2>3, LookupKeeps
<1>5. CASE balanceArrives(lookup)
  <2>1. CASE <<lookup.answer.loan, lookup.answer.account>> = lookup.key
    <3>1. /\ lookup.at = "answered" /\ lookups' = lookups \ {lookup} /\ Settle(lookup.key, lookup.answer)
          /\ UNCHANGED <<borrowers, agreements, validated>>
      BY <1>5, <2>1 DEF balanceArrives
    <3>2. IsOf(lookup.answer, lookup.key) /\ lookup.answer \in Observations
      BY <1>1, <2>1, <3>1 DEF IsOf, LookupIsSound, Lookups
    <3> QED BY <1>1, <3>1, <3>2, SettleKeeps DEF LookupIsSound
  <2>2. CASE <<lookup.answer.loan, lookup.answer.account>> # lookup.key
    <3>1. /\ lookups' = lookups \ {lookup} /\ Settle(lookup.key, readings[lookup.key].observation)
          /\ UNCHANGED <<borrowers, agreements, validated>>
      BY <1>5, <2>2 DEF balanceArrives
    <3> QED BY <1>2, <3>1, SettleKeeps DEF Observations
  <2> QED BY <2>1, <2>2
<1>6. CASE balanceFails(lookup)
  <2>1. /\ lookups' = lookups \ {lookup} /\ Settle(lookup.key, readings[lookup.key].observation)
        /\ UNCHANGED <<borrowers, agreements, validated>>
    BY <1>6 DEF balanceFails
  <2> QED BY <1>2, <2>1, SettleKeeps DEF Observations
<1> QED BY <1>3, <1>4, <1>5, <1>6

LEMMA ReadingsStep ==
    ASSUME WInv, chosen \in Loans \cup {"none"}, WNext \/ UNCHANGED wvars
    PROVE  WInv' /\ NoReadingGoesBack /\ chosen' \in Loans \cup {"none"}
<1> USE DEF WInv
<1>1. TalkIsSound'
  <2>1. \/ UNCHANGED talk
        \/ UNCHANGED asks /\ chat' = Anew(chat.version + 1)
        \/ send
        \/ \E ask \in asks : chatAnswered(ask)
    BY DEF WNext, wvars, ledgerCloses, directoryChanges, chooseRequest, snapshotShown, chatReset,
           readWallet, ledgerRead, accountRead, balanceArrives, balanceFails, showReceiptRegister,
           listSettles
  <2> QED BY <2>1, TalkKeeps
<1>2. ListsAreSound'
  <2>1. UNCHANGED receipts \/ showReceiptRegister \/ \E list \in lists : listSettles(list)
    BY DEF WNext, wvars, ledgerCloses, directoryChanges, chooseRequest, snapshotShown, chatReset,
           send, chatAnswered, readWallet, ledgerRead, accountRead, balanceArrives, balanceFails
  <2> QED BY <2>1, ListsKeep
<1>3. chosen' \in Loans \cup {"none"}
  BY DEF WNext, wvars, ledgerCloses, directoryChanges, chooseRequest, snapshotShown, chatReset,
         send, chatAnswered, readWallet, ledgerRead, accountRead, balanceArrives, balanceFails,
         showReceiptRegister, listSettles
<1>4. WTyped' /\ WSound' /\ NoReadingGoesBack
  <2>1. CASE readWallet
    <3>1. chosen \in Loans BY <2>1 DEF readWallet
    <3> QED BY <2>1, <3>1, ReadWalletKeeps
  <2>2. CASE \E lookup \in lookups :
                ledgerRead(lookup) \/ accountRead(lookup) \/ balanceArrives(lookup) \/ balanceFails(lookup)
    BY <2>2, LookupsKeep
  <2>3. CASE ledgerCloses
    <3>1. validated \in Nat /\ validated' = validated + 1
          /\ UNCHANGED <<borrowers, agreements, wallets, readings, lookups>>
      BY <2>3 DEF ledgerCloses, WTyped, wallets
    <3>2. WTyped' /\ validated <= validated' BY <3>1 DEF WTyped
    <3> QED BY <3>1, <3>2, WorldKeeps
  <2>4. CASE \E loan \in Loans : directoryChanges(loan)
    <3>1. /\ UNCHANGED <<validated, agreements, wallets, readings, lookups>>
          /\ borrowers' \in [Loans -> Accounts]
      BY <2>4 DEF directoryChanges, WTyped, wallets
    <3>2. WTyped' /\ validated <= validated' BY <3>1 DEF WTyped
    <3> QED BY <3>1, <3>2, WorldKeeps
  <2>5. CASE \/ \E loan \in Loans \cup {"none"} : chooseRequest(loan)
             \/ chatReset \/ send \/ \E ask \in asks : chatAnswered(ask)
             \/ showReceiptRegister \/ \E list \in lists : listSettles(list)
             \/ UNCHANGED wvars
    <3>1. UNCHANGED <<validated, borrowers, agreements, wallets, readings, lookups>>
      BY <2>5 DEF chooseRequest, chatReset, send, chatAnswered, showReceiptRegister, listSettles,
                  wvars, wallets
    <3>2. WTyped' /\ validated <= validated' BY <3>1 DEF WTyped
    <3> QED BY <3>1, <3>2, WorldKeeps
  <2>6. CASE snapshotShown
    <3>1. UNCHANGED <<validated, borrowers, wallets, readings, lookups>> /\ agreements' = borrowers
      BY <2>6 DEF snapshotShown, wallets
    <3>2. WTyped' /\ validated <= validated' BY <3>1 DEF WTyped
    <3> QED BY <3>1, <3>2, WorldKeeps
  <2> QED BY <2>1, <2>2, <2>3, <2>4, <2>5, <2>6 DEF WNext
<1> QED BY <1>1, <1>2, <1>3, <1>4

-----------------------------------------------------------------------------
(* The pages.                                                               *)
PageInv == /\ SInv /\ source \in Modes /\ IInv /\ PInv /\ EInv
           /\ WInv /\ chosen \in Loans \cup {"none"}

LEMMA InitIsSound == Init => PageInv
BY SInitIsSound, IInitIsSound, PInitIsSound, EInitIsSound, WInitIsSound DEF Init, PageInv, SInit, WInit

LEMMA StepKeeps ==
    ASSUME PageInv, [Next]_<<svars, rvars, evars, wvars, side>>
    PROVE  PageInv' /\ ShownNeverOlder /\ InboxNeverOlder /\ NoReadingGoesBack
<1>1. /\ SNext \/ UNCHANGED svars
      /\ RNext \/ UNCHANGED rvars
      /\ ENext \/ UNCHANGED evars
      /\ WNext \/ UNCHANGED wvars
  BY DEF Next
<1> QED BY <1>1, SnapshotsKeep, InboxKeeps, PostsKeep, ActionsKeep, ReadingsStep DEF PageInv

\* What every reachable state of the pages keeps.
THEOREM Consistency == Spec => []PageInv
<1>1. PageInv /\ [Next]_<<svars, rvars, evars, wvars, side>> => PageInv' BY StepKeeps
<1> QED BY InitIsSound, <1>1, PTL DEF Spec

\* Whatever the order of answers and however often the server restarts, a page
\* never replaces what it shows by something older.
THEOREM ShownNeverGoesBack == Spec => NeverShowsOlder
<1>1. PageInv /\ [Next]_<<svars, rvars, evars, wvars, side>> =>
         [/\ state.mode = state'.mode => state.content <= state'.content
          /\ intake.role = intake'.role
               => \A id \in Ids : intake.revisions[id] <= intake'.revisions[id]]_<<svars, rvars>>
  BY StepKeeps DEF ShownNeverOlder, InboxNeverOlder, NoNewer
<1> QED BY <1>1, Consistency, PTL DEF Spec, NeverShowsOlder

\* A submission of unknown outcome is the one that would be sent again.
THEOREM UncertainSubmissionsAreKept == Spec => []UncertainIsRemembered
<1>1. PageInv => UncertainIsRemembered
  BY DEF PageInv, PInv, PSound, UncertainIsRemembered
<1> QED BY <1>1, Consistency, PTL

\* Whoever reviews a request, or approves an agreement by its hashes, has seen
\* exactly what the decision is about. Submissions, which are posted by ID
\* alone, are not covered.
THEOREM DecisionsAreExact == Spec => []DecisionIsOfWhatIsShown
<1>1. PageInv => DecisionIsOfWhatIsShown
  BY DEF PageInv, PInv, DSound, EInv, ESound, DecisionIsOfWhatIsShown
<1> QED BY <1>1, Consistency, PTL

\* Nothing that was asked for on demand is taken for something else, nor does a
\* later observation replace one of a later ledger.
THEOREM LateAnswersBelong == Spec => AnswersBelong
<1>1. PageInv /\ [Next]_<<svars, rvars, evars, wvars, side>> =>
         [/\ \A key \in Loans \X Accounts :
                LET observation == readings'[key].observation
                IN  observation # NoObservation =>
                       /\ <<observation.loan, observation.account>> = key
                       /\ observation.balance = Balance(observation.index)
                       /\ readings[key].observation.index <= observation.index
          /\ chat'.draft \in {NoDraft} \cup [version : {chat'.version}, turn : 1..chat'.turn]
          /\ register'.rows \in {"none", "loading", "failed", register'.of}]_wvars
  <2> SUFFICES ASSUME PageInv, [Next]_<<svars, rvars, evars, wvars, side>>
               PROVE  /\ \A key \in Loans \X Accounts :
                            LET observation == readings'[key].observation
                            IN  observation # NoObservation =>
                                   /\ <<observation.loan, observation.account>> = key
                                   /\ observation.balance = Balance(observation.index)
                                   /\ readings[key].observation.index <= observation.index
                      /\ chat'.draft \in {NoDraft} \cup [version : {chat'.version}, turn : 1..chat'.turn]
                      /\ register'.rows \in {"none", "loading", "failed", register'.of}
    OBVIOUS
  <2>1. PageInv' /\ NoReadingGoesBack BY StepKeeps
  <2>2. \A key \in Keys : IsOf(readings[key].observation, key)' BY <2>1 DEF PageInv, WInv, WSound
  <2>3. TalkIsSound' /\ ListsAreSound' BY <2>1 DEF PageInv, WInv
  <2>4. /\ chat'.draft \in {NoDraft} \cup [version : {chat'.version}, turn : 1..chat'.turn]
        /\ register'.rows \in {"none", "loading", "failed", register'.of}
    BY <2>3 DEF TalkIsSound, ListsAreSound
  <2> QED BY <2>1, <2>2, <2>4 DEF IsOf, NoReadingGoesBack, Keys
<1> QED BY <1>1, Consistency, PTL DEF Spec, AnswersBelong
=============================================================================
