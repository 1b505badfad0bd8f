---------------------------- MODULE PageReadings ----------------------------
(* What a page asks for on demand beside its snapshots: the balance of the  *)
(* borrower's wallet (web/wallet-panel.mjs, GET /api/requests/<id>/balance, *)
(* src/server/wallet.ts), the financing guide's draft (web/assistant.js)    *)
(* and the receipts of one request (web/receipt-register.js). Each answer   *)
(* may arrive after the person has chosen another request, after a newer    *)
(* one was asked for, or never; each of the three has a guard of its own.   *)
EXTENDS Naturals

CONSTANTS
    Loans,          \* request IDs with an agreement
    Accounts,       \* borrower accounts that agreements name
    MaxIndex,       \* bound on the validated ledgers
    MaxAsked        \* bound on what people ask for, and on changes of directory

VARIABLES
    borrowers,      \* per loan: the account in the server's agreement
    validated,      \* index of the last validated ledger
    agreements,     \* per loan: the account in the agreement the page shows
    chosen,         \* selectedLoanId
    readings,       \* WalletReadings: per loan and account
    lookups,        \* balance requests the page waits for
    chat,           \* the conversation
    asks,           \* its requests that have not settled
    register,       \* the list of receipts
    lists,          \* its requests that have not settled
    asked           \* counted against the bound

wallets == <<readings, lookups>>
talk == <<chat, asks>>
receipts == <<register, lists>>
wvars == <<borrowers, validated, agreements, chosen, wallets, talk, receipts, asked>>

NoObservation == [loan |-> "none", account |-> "none", index |-> 0, balance |-> 0]
NoDraft == [version |-> 0, turn |-> 0]

\* What an account holds as of a validated ledger: it changes with each.
Balance(index) == index

WInit ==
    /\ borrowers \in [Loans -> Accounts]
    /\ agreements = borrowers
    /\ validated = 1
    /\ chosen = "none"
    /\ readings = [key \in Loans \X Accounts |-> [observation |-> NoObservation, busy |-> FALSE]]
    /\ lookups = {}
    /\ chat = [version |-> 1, turn |-> 0, busy |-> FALSE, draft |-> NoDraft]
    /\ asks = {}
    /\ register = [version |-> 0, of |-> "none", rows |-> "none"]
    /\ lists = {}
    /\ asked = 0

Ask == asked < MaxAsked /\ asked' = asked + 1

-----------------------------------------------------------------------------
(* The world.                                                               *)
ledgerCloses ==
    /\ validated < MaxIndex
    /\ validated' = validated + 1
    /\ UNCHANGED <<borrowers, agreements, chosen, wallets, talk, receipts, asked>>

\* The server is started over another directory, see ExactReview.
directoryChanges(loan) ==
    /\ Ask
    /\ borrowers' \in {[borrowers EXCEPT ![loan] = account] : account \in Accounts}
    /\ UNCHANGED <<validated, agreements, chosen, wallets, talk, receipts>>

-----------------------------------------------------------------------------
(* The conversation.                                                        *)
\* intro and restore, when the context has changed or the chat was cleared; an
\* answer under way is aborted, and told apart by its version.
Anew(version) == [version |-> version, turn |-> 0, busy |-> FALSE, draft |-> NoDraft]

chatReset ==
    /\ Ask
    /\ chat' = Anew(chat.version + 1)
    /\ UNCHANGED <<borrowers, validated, agreements, chosen, wallets, asks, receipts>>

send ==
    /\ Ask
    /\ ~chat.busy
    /\ chat' = [chat EXCEPT !.busy = TRUE, !.turn = @ + 1]
    /\ asks' = asks \cup {[version |-> chat.version, turn |-> chat.turn + 1]}
    /\ UNCHANGED <<borrowers, validated, agreements, chosen, wallets, receipts>>

\* Mutant: an answer is taken also when the conversation has been begun anew.
chatAnsweredAlways(ask) ==
    /\ ask \in asks
    /\ asks' = asks \ {ask}
    /\ chat' \in {[chat EXCEPT !.busy = FALSE, !.draft = ask], [chat EXCEPT !.busy = FALSE]}
    /\ UNCHANGED <<borrowers, validated, agreements, chosen, wallets, receipts, asked>>

\* An answer with a valid draft, or an outage, a timeout or an invalid answer;
\* neither does anything to a later conversation.
chatAnswered(ask) ==
    /\ ask \in asks
    /\ asks' = asks \ {ask}
    /\ IF ask.version = chat.version
       THEN chat' \in {[chat EXCEPT !.busy = FALSE, !.draft = ask], [chat EXCEPT !.busy = FALSE]}
       ELSE UNCHANGED chat
    /\ UNCHANGED <<borrowers, validated, agreements, chosen, wallets, receipts, asked>>

-----------------------------------------------------------------------------
(* The page's choice.                                                       *)
\* chooseRequest, whose render brings the conversation to the new context.
chooseRequest(loan) ==
    /\ loan # chosen
    /\ Ask
    /\ chosen' = loan
    /\ chat' = Anew(chat.version + 1)
    /\ UNCHANGED <<borrowers, validated, agreements, wallets, asks, receipts>>

\* A snapshot of the server's records; from another instance it begins the
\* conversation anew.
snapshotShown ==
    /\ agreements # borrowers
    /\ agreements' = borrowers
    /\ chat' = Anew(chat.version + 1)
    /\ UNCHANGED <<borrowers, validated, chosen, wallets, asks, receipts, asked>>

-----------------------------------------------------------------------------
(* The balance.                                                             *)
Settle(key, observation) == readings' = [readings EXCEPT ![key] = [observation |-> observation, busy |-> FALSE]]

\* WalletReadings.read: one lookup at a time for what the page shows.
readWallet ==
    /\ chosen # "none"
    /\ LET key == <<chosen, agreements[chosen]>>
       IN  /\ ~readings[key].busy
           /\ readings' = [readings EXCEPT ![key].busy = TRUE]
           /\ lookups' = lookups \cup {[key |-> key, at |-> "sent", answer |-> NoObservation]}
    /\ Ask
    /\ UNCHANGED <<borrowers, validated, agreements, chosen, talk, receipts>>

\* The route takes the account from the agreement on record; readBorrowerWallet
\* asks for the validated ledger first.
ledgerRead(lookup) ==
    /\ lookup \in lookups /\ lookup.at = "sent"
    /\ LET loan == lookup.key[1]
           answer == [loan |-> loan, account |-> borrowers[loan], index |-> validated, balance |-> 0]
       IN  lookups' = (lookups \ {lookup}) \cup {[lookup EXCEPT !.at = "ledger", !.answer = answer]}
    /\ UNCHANGED <<borrowers, validated, agreements, chosen, readings, talk, receipts, asked>>

\* account_info, as of that ledger and of no later one.
accountRead(lookup) ==
    /\ lookup \in lookups /\ lookup.at = "ledger"
    /\ lookups' = (lookups \ {lookup}) \cup
          {[lookup EXCEPT !.at = "answered", !.answer.balance = Balance(lookup.answer.index)]}
    /\ UNCHANGED <<borrowers, validated, agreements, chosen, readings, talk, receipts, asked>>

\* The observation is kept only if it is of the agreement that was asked about.
balanceArrives(lookup) ==
    /\ lookup \in lookups /\ lookup.at = "answered"
    /\ lookups' = lookups \ {lookup}
    /\ Settle(lookup.key, IF <<lookup.answer.loan, lookup.answer.account>> = lookup.key
                          THEN lookup.answer ELSE readings[lookup.key].observation)
    /\ UNCHANGED <<borrowers, validated, agreements, chosen, talk, receipts, asked>>

\* An error, an outage or a timeout: the previous observation is retained.
balanceFails(lookup) ==
    /\ lookup \in lookups
    /\ lookups' = lookups \ {lookup}
    /\ Settle(lookup.key, readings[lookup.key].observation)
    /\ UNCHANGED <<borrowers, validated, agreements, chosen, talk, receipts, asked>>

-----------------------------------------------------------------------------
(* The receipts.                                                            *)
\* showReceiptRegister, on opening the page or its refresh button.
showReceiptRegister ==
    /\ Ask
    /\ register' = [version |-> register.version + 1, of |-> chosen,
                    rows |-> IF chosen = "none" THEN "none" ELSE "loading"]
    /\ lists' = lists \cup
          (IF chosen = "none" THEN {} ELSE {[version |-> register.version + 1, loan |-> chosen]})
    /\ UNCHANGED <<borrowers, validated, agreements, chosen, wallets, talk>>

\* The rows of the request that was asked for, or word that the list failed.
listSettles(list) ==
    /\ list \in lists
    /\ lists' = lists \ {list}
    /\ IF list.version = register.version
       THEN register' \in {[register EXCEPT !.rows = list.loan], [register EXCEPT !.rows = "failed"]}
       ELSE UNCHANGED register
    /\ UNCHANGED <<borrowers, validated, agreements, chosen, wallets, talk, asked>>

WNext ==
    \/ ledgerCloses \/ \E loan \in Loans : directoryChanges(loan)
    \/ \E loan \in Loans \cup {"none"} : chooseRequest(loan)
    \/ snapshotShown
    \/ chatReset \/ send \/ \E ask \in asks : chatAnswered(ask)
    \/ readWallet
    \/ \E lookup \in lookups :
          ledgerRead(lookup) \/ accountRead(lookup) \/ balanceArrives(lookup) \/ balanceFails(lookup)
    \/ showReceiptRegister \/ \E list \in lists : listSettles(list)
=============================================================================
