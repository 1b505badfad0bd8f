---------------------------- MODULE PageRequests ----------------------------
(* The private side of the customer's page (web/customer.js): the inbox of  *)
(* a role, a broker's review of a request, and a borrower's submission with *)
(* its draft, the pending copy kept in the browser's storage and its retry  *)
(* after an uncertain outcome. The server's intake is taken as what it      *)
(* promises: a submission is created once, and a review applies only to the *)
(* version it names. What the snapshots do to this side is one event here,  *)
(* see PageSnapshots. Dialogs are modal: what lies behind one cannot be     *)
(* used. The source is live; in an open demo the first refresh has          *)
(* succeeded before the access form could be opened.                        *)
EXTENDS Naturals, FiniteSets

CONSTANTS
    Ids,            \* client request IDs the page may draw
    MaxRevision,    \* reviews a request can go through (3 in the code)
    MaxReads,       \* bound on the inbox reads
    MaxPosts,       \* bound on the submissions and decisions sent
    MaxReloads      \* bound on reloads of the page

VARIABLES
    inbox,          \* the server's intake: per ID its revision, 0 while unknown
    reads,          \* the page's inbox reads under way
    post,           \* the POST the page is waiting for
    late,           \* POSTs nobody waits for that may still take effect
    role, access, intake, privateAvailable, inboxSequence, connected,
    review, dialog, draft, pending, sending,
    stored,         \* localStorage
    storage,        \* whether localStorage works in this browser
    openDemo,       \* whether the site opens the access of a role by itself
    uncertain,      \* IDs sent whose outcome the page has never seen (history)
    decided,        \* reviews that took effect: what was shown and what was replaced (history)
    posts, reloads  \* counted against the bounds

private == <<access, intake, privateAvailable>>
dialogs == <<review, dialog, draft>>
submission == <<pending, stored, uncertain>>
posting == <<post, late, sending, posts>>
fixed == <<storage, openDemo>>
rvars == <<inbox, reads, inboxSequence, role, connected, private, dialogs, submission, posting,
           decided, reloads, fixed>>

Profiles == {"borrower", "broker", "lender"}
NoRevisions == [id \in Ids |-> 0]
NoInbox == [role |-> "none", revisions |-> NoRevisions]
NoAccess == [role |-> "none", since |-> 0]
NoReview == [id |-> "none", revision |-> 0]
NoPost == [kind |-> "none", id |-> "none", revision |-> 0, shown |-> 0, at |-> "none"]

RInit ==
    /\ inbox = NoRevisions
    /\ reads = {} /\ inboxSequence = 0
    /\ role \in {"borrower", "broker"} /\ connected = FALSE
    /\ access = NoAccess /\ intake = NoInbox /\ privateAvailable = FALSE
    /\ review = NoReview /\ dialog = FALSE /\ draft = "none"
    /\ pending = "none" /\ stored = "none" /\ uncertain = {}
    /\ post = NoPost /\ late = {} /\ sending = FALSE /\ posts = 0
    /\ decided = {} /\ reloads = 0
    /\ storage \in BOOLEAN /\ openDemo \in BOOLEAN

hasAccess == access.role = role /\ role # "lender"
privateRequests == {id \in Ids : hasAccess /\ intake.revisions[id] > 0}
closeReview == review' = NoReview
clearPending == pending' = "none" /\ stored' = "none"

-----------------------------------------------------------------------------
(* The inbox.                                                               *)
Read(ticket, session) == [ticket |-> ticket, session |-> session, at |-> "sent", revisions |-> NoRevisions]
FormRead == Read(0, [role |-> role, since |-> 0])   \* the access form's own read
Forms == {read \in reads : read.ticket = 0}

\* Mutant: an answer is taken whenever its role is the open one.
currentForRole(read) == read.session.role = access.role

currentInboxResponse(read) == read.ticket = inboxSequence /\ read.session = access

\* refresh has ended: the connection is known, an open demo opens the access
\* of the role by itself, and the inbox is read again.
refreshed ==
    /\ inboxSequence < MaxReads
    /\ connected' \in BOOLEAN
    /\ access' = IF connected' /\ openDemo /\ role # "lender" /\ access.role # role
                 THEN [role |-> role, since |-> inboxSequence + 1] ELSE access
    /\ IF access'.role = role /\ role # "lender"
       THEN inboxSequence' = inboxSequence + 1 /\ reads' = reads \cup {Read(inboxSequence', access')}
       ELSE UNCHANGED <<inboxSequence, reads>>
    /\ UNCHANGED <<inbox, role, intake, privateAvailable, dialogs, submission, posting, decided, reloads, fixed>>

serveInbox(read) ==
    /\ read.at = "sent"
    /\ reads' = (reads \ {read}) \cup {[read EXCEPT !.at = "answered", !.revisions = inbox]}
    /\ UNCHANGED <<inbox, inboxSequence, role, connected, private, dialogs, submission, posting,
                   decided, reloads, fixed>>

\* A pending submission that is found in the inbox is settled.
intakeLoaded(read) ==
    /\ read.at = "answered" /\ read.ticket # 0
    /\ reads' = reads \ {read}
    /\ IF currentInboxResponse(read)
       THEN /\ intake' = [role |-> read.session.role, revisions |-> read.revisions]
            /\ privateAvailable' = TRUE
            /\ IF pending # "none" /\ read.revisions[pending] > 0
               THEN clearPending /\ uncertain' = uncertain \ {pending}
               ELSE UNCHANGED submission
       ELSE UNCHANGED <<intake, privateAvailable, submission>>
    /\ UNCHANGED <<inbox, inboxSequence, role, connected, access, dialogs, posting, decided, reloads, fixed>>

intakeFails(read) ==
    /\ reads' = reads \ {read}
    /\ privateAvailable' = (privateAvailable /\ ~currentInboxResponse(read))
    /\ UNCHANGED <<inbox, inboxSequence, role, connected, access, intake, dialogs, submission, posting,
                   decided, reloads, fixed>>

\* The access form is sent; its answer counts if the role is still selected.
accessSent ==
    /\ ~hasAccess /\ role # "lender" /\ ~openDemo /\ Forms = {}
    /\ reads' = reads \cup {FormRead}
    /\ UNCHANGED <<inbox, inboxSequence, role, connected, private, dialogs, submission, posting,
                   decided, reloads, fixed>>

accessOpened(read) ==
    /\ read.at = "answered" /\ read.ticket = 0 /\ inboxSequence < MaxReads
    /\ reads' = reads \ {read}
    /\ IF role = read.session.role
       THEN /\ inboxSequence' = inboxSequence + 1
            /\ access' = [role |-> role, since |-> inboxSequence']
            /\ intake' = [role |-> role, revisions |-> read.revisions]
            /\ privateAvailable' = TRUE
       ELSE UNCHANGED <<inboxSequence, private>>
    /\ UNCHANGED <<inbox, role, connected, dialogs, submission, posting, decided, reloads, fixed>>

Forget == access' = NoAccess /\ intake' = NoInbox /\ privateAvailable' = FALSE

\* Another profile, or the same one chosen again.
profileChanges(profile) ==
    /\ ~dialog /\ ~sending
    /\ role' = profile /\ Forget /\ closeReview
    /\ UNCHANGED <<inbox, reads, inboxSequence, connected, dialog, draft, submission, posting,
                   decided, reloads, fixed>>

\* The access button locks the workspace.
accessLocked ==
    /\ hasAccess /\ ~dialog /\ ~sending /\ inboxSequence < MaxReads
    /\ inboxSequence' = inboxSequence + 1
    /\ Forget /\ closeReview
    /\ UNCHANGED <<inbox, reads, role, connected, dialog, draft, submission, posting, decided, reloads, fixed>>

-----------------------------------------------------------------------------
(* A review of a request.                                                   *)
openIntake(id) ==
    /\ id \in privateRequests /\ ~dialog /\ ~sending
    /\ review' = [id |-> id, revision |-> intake.revisions[id]]
    /\ UNCHANGED <<inbox, reads, inboxSequence, role, connected, private, dialog, draft, submission, posting,
                   decided, reloads, fixed>>

Send(kind, id, revision, shown) ==
    /\ ~sending /\ posts < MaxPosts
    /\ posts' = posts + 1
    /\ sending' = TRUE
    /\ post' = [kind |-> kind, id |-> id, revision |-> revision, shown |-> shown, at |-> "sent"]
    /\ UNCHANGED late

\* Mutant: the version is taken from the newest inbox, not from the dialog.
applyReviewToNewest ==
    /\ review # NoReview /\ role = "broker" /\ hasAccess /\ privateAvailable
    /\ intake.revisions[review.id] < MaxRevision
    /\ Send("review", review.id, intake.revisions[review.id], review.revision)
    /\ UNCHANGED <<inbox, reads, inboxSequence, role, connected, private, dialogs, submission,
                   decided, reloads, fixed>>

\* intakeReviewMatches: what the dialog shows is still in the newest inbox.
applyReview ==
    /\ review # NoReview /\ role = "broker" /\ hasAccess /\ privateAvailable
    /\ intake.revisions[review.id] = review.revision /\ review.revision < MaxRevision
    /\ Send("review", review.id, review.revision, review.revision)
    /\ UNCHANGED <<inbox, reads, inboxSequence, role, connected, private, dialogs, submission,
                   decided, reloads, fixed>>

-----------------------------------------------------------------------------
(* A submission.                                                            *)
Fresh == {id \in Ids : /\ inbox[id] = 0
                       /\ id \notin {draft, pending, stored, post.id} \cup uncertain \cup {lost.id : lost \in late}}

\* Mutant: a new request always starts with empty fields.
openRequestAnew ==
    /\ role = "borrower" /\ ~dialog /\ ~sending
    /\ dialog' = TRUE /\ closeReview /\ draft' = "none"
    /\ UNCHANGED <<inbox, reads, inboxSequence, role, connected, private, submission, posting,
                   decided, reloads, fixed>>

\* openRequest: the dialog starts with the pending submission, if there is one.
openRequest ==
    /\ role = "borrower" /\ ~dialog /\ ~sending
    /\ dialog' = TRUE /\ closeReview /\ draft' = pending
    /\ UNCHANGED <<inbox, reads, inboxSequence, role, connected, private, submission, posting,
                   decided, reloads, fixed>>

\* The fields are entered in the dialog, or the assistant fills them in and
\* opens it while nothing is pending: a new ID is drawn.
draftRequest ==
    /\ role = "borrower" /\ ~sending
    /\ IF dialog THEN draft = "none" ELSE pending = "none"
    /\ draft' \in Fresh
    /\ dialog' = TRUE /\ closeReview
    /\ UNCHANGED <<inbox, reads, inboxSequence, role, connected, private, submission, posting,
                   decided, reloads, fixed>>

\* The back button, hidden while a submission is pending.
requestBack ==
    /\ dialog /\ ~sending /\ pending = "none"
    /\ draft' = "none"
    /\ UNCHANGED <<inbox, reads, inboxSequence, role, connected, private, review, dialog, submission, posting,
                   decided, reloads, fixed>>

\* The close button; what was entered stays.
requestClose ==
    /\ dialog /\ ~sending
    /\ dialog' = FALSE
    /\ UNCHANGED <<inbox, reads, inboxSequence, role, connected, private, review, draft, submission, posting,
                   decided, reloads, fixed>>

\* The pending copy is in memory, and in storage if that works, before it is sent.
submit ==
    /\ dialog /\ draft # "none"
    /\ hasAccess /\ connected /\ privateAvailable
    /\ pending' = draft
    /\ stored' = IF storage THEN draft ELSE stored
    /\ uncertain' = uncertain \cup {draft}
    /\ Send("submit", draft, 0, 0)
    /\ UNCHANGED <<inbox, reads, inboxSequence, role, connected, private, dialogs, decided, reloads, fixed>>

-----------------------------------------------------------------------------
(* The answer to a POST.                                                    *)
Effect(request) ==
    \/ /\ request.kind = "submit"
       /\ inbox' = [inbox EXCEPT ![request.id] = IF @ = 0 THEN 1 ELSE @]
       /\ UNCHANGED decided
    \/ /\ request.kind = "review" /\ inbox[request.id] = request.revision
       /\ inbox' = [inbox EXCEPT ![request.id] = @ + 1]
       /\ decided' = decided \cup {[shown |-> request.shown, replaced |-> inbox[request.id]]}

takesEffect ==
    /\ post.at = "sent"
    /\ \/ Effect(post) /\ post' = [post EXCEPT !.at = "done"]
       \/ post' = [post EXCEPT !.at = "refused"] /\ UNCHANGED <<inbox, decided>>
    /\ UNCHANGED <<reads, inboxSequence, role, connected, private, dialogs, submission, late, sending, posts,
                   reloads, fixed>>

takesEffectLate(request) ==
    /\ Effect(request)
    /\ late' = late \ {request}
    /\ UNCHANGED <<reads, inboxSequence, role, connected, private, dialogs, submission, post, sending, posts,
                   reloads, fixed>>

submitSucceeds ==
    /\ sending /\ post.kind = "submit" /\ post.at = "done"
    /\ sending' = FALSE /\ post' = NoPost
    /\ clearPending /\ uncertain' = uncertain \ {post.id}
    /\ draft' = "none" /\ dialog' = FALSE
    /\ UNCHANGED <<inbox, reads, inboxSequence, role, connected, private, review, late, posts,
                   decided, reloads, fixed>>

\* The page stops waiting; a request still under way may take effect later.
Abandon == post' = NoPost /\ late' = late \cup (IF post.at = "sent" THEN {post} ELSE {})

\* An error, an answer that is lost, or 15 s without one: the pending copy
\* stays, and the dialog offers it again.
submitFails ==
    /\ sending /\ post.kind = "submit"
    /\ sending' = FALSE /\ Abandon
    /\ UNCHANGED <<inbox, reads, inboxSequence, role, connected, private, dialogs, submission, posts,
                   decided, reloads, fixed>>

\* Whatever the answer, the dialog closes.
reviewAnswered ==
    /\ sending /\ post.kind = "review"
    /\ sending' = FALSE /\ Abandon /\ closeReview
    /\ UNCHANGED <<inbox, reads, inboxSequence, role, connected, private, dialog, draft, submission, posts,
                   decided, reloads, fixed>>

\* The tab is closed or reloaded at any time; only the storage remains, and
\* without it nobody can remember.
reload ==
    /\ reloads < MaxReloads
    /\ reloads' = reloads + 1
    /\ Forget /\ closeReview /\ Abandon
    /\ connected' = FALSE /\ dialog' = FALSE /\ draft' = "none" /\ sending' = FALSE
    /\ pending' = stored /\ uncertain' = IF storage THEN uncertain ELSE {}
    /\ reads' = {}
    /\ UNCHANGED <<inbox, inboxSequence, role, stored, posts, decided, fixed>>

\* Another broker, on another page.
othersReview(id) ==
    /\ inbox[id] \in 1..MaxRevision - 1
    /\ inbox' = [inbox EXCEPT ![id] = @ + 1]
    /\ UNCHANGED <<reads, inboxSequence, role, connected, private, dialogs, submission, posting,
                   decided, reloads, fixed>>

RNext ==
    \/ refreshed \/ accessSent \/ accessLocked
    \/ \E profile \in Profiles : profileChanges(profile)
    \/ \E read \in reads : serveInbox(read) \/ intakeLoaded(read) \/ intakeFails(read) \/ accessOpened(read)
    \/ \E id \in Ids : openIntake(id) \/ othersReview(id)
    \/ applyReview
    \/ openRequest \/ draftRequest \/ requestBack \/ requestClose \/ submit
    \/ takesEffect \/ submitSucceeds \/ submitFails \/ reviewAnswered
    \/ \E request \in late : takesEffectLate(request)
    \/ reload
=============================================================================
