---------------------------- MODULE Preparation ----------------------------
(* How the operator's bridge prepares a reviewed request                    *)
(* (scripts/bridge.ts prepare, src/bridge/plan.ts): it binds a plan to the  *)
(* request and its match, takes the matched lender's wallet, has the other  *)
(* wallets provisioned by the event's faucet (Cycle.fund), and fixes the    *)
(* accounts in the cycle's record and the agreement. The market goes on     *)
(* meanwhile; the bridge may die anywhere and is run again. The native      *)
(* setup between record and agreement is Cycle.tla; here it may throw.      *)
EXTENDS Naturals, FiniteSets

CONSTANTS
    Matches,        \* proposals for this request, each with a lender of its own
    MaxStops        \* bound on crashes and failing calls

\* A proposal stands for its lender's wallet, which is none of the run's own.
ASSUME MatchesAssumption == Matches \cap {"none", "own", "faucet"} = {}

VARIABLES
    match,          \* the market: per proposal its decision
    lapsed,         \* proposals whose time is over
    plan,           \* plan.json
    wallet,         \* per role: the key on file and whether the faucet was asked
    response,       \* per role: whether the faucet's private response is on file
    provisioned,    \* per role: accounts the faucet has made
    validated,      \* per role: whether the last of them is on the ledger
    accounts,       \* the accounts in the cycle's record
    agreement,      \* the accounts and the match in the prepared agreement
    run,            \* the preparation in progress
    stops

market == <<match, lapsed>>
files == <<plan, wallet, response, accounts, agreement>>
faucet == <<provisioned, validated>>
qvars == <<market, files, faucet, run, stops>>

Roles == {"broker", "lender", "borrower"}
NoPlan == [bound |-> FALSE, match |-> "none"]
NoWallet == [key |-> "none", asked |-> FALSE]
NoAccounts == [role \in Roles |-> "none"]
NoRun == [pc |-> "idle", match |-> "none", role |-> "broker"]

\* A reviewed request; proposals for it may follow.
QInit ==
    /\ match = [m \in Matches |-> "none"] /\ lapsed = {}
    /\ plan = NoPlan
    /\ wallet = [role \in Roles |-> NoWallet]
    /\ response = [role \in Roles |-> FALSE]
    /\ provisioned = [role \in Roles |-> 0] /\ validated = [role \in Roles |-> FALSE]
    /\ accounts = NoAccounts
    /\ agreement = [accounts |-> NoAccounts, match |-> "none"]
    /\ run = NoRun
    /\ stops = 0

Known == {m \in Matches : match[m] # "none"}
Undeclined == {m \in Known : match[m] # "declined"}

-----------------------------------------------------------------------------
(* The market, see HostedMarket.                                            *)
MarketAlone == UNCHANGED <<files, faucet, run, stops>>

\* One proposal at a time. That the request has no published run is checked
\* on an earlier read, so a proposal may still come after the plan was bound.
proposed(m) ==
    /\ match[m] = "none" /\ Undeclined \subseteq lapsed
    /\ match' = [match EXCEPT ![m] = "pending"]
    /\ UNCHANGED lapsed /\ MarketAlone

decides(m) ==
    /\ match[m] = "pending" /\ m \notin lapsed
    /\ \E decision \in {"accepted", "declined"} : match' = [match EXCEPT ![m] = decision]
    /\ UNCHANGED lapsed /\ MarketAlone

lapses(m) ==
    /\ match[m] # "none" /\ lapsed' = lapsed \cup {m}
    /\ UNCHANGED match /\ MarketAlone

-----------------------------------------------------------------------------
(* prepare, one await at a time.                                            *)
At(pc) == run.pc = pc
Goto(pc) == run' = [run EXCEPT !.pc = pc]

\* Anything throws or the process dies: the files stay.
stopped ==
    /\ run # NoRun /\ stops < MaxStops
    /\ stops' = stops + 1
    /\ run' = NoRun
    /\ UNCHANGED <<market, files, faucet>>

\* A check that does not hold.
refuses(condition) ==
    /\ ~condition
    /\ run' = NoRun
    /\ UNCHANGED <<market, files, faucet, stops>>

begins ==
    /\ run = NoRun
    /\ Goto(IF plan.bound THEN "match" ELSE "plan")
    /\ UNCHANGED <<market, files, faucet, stops>>

\* bridgePlan without a proposal, matchedBridgePlan with an accepted one.
Plannable ==
    \/ Known = {}
    \/ \E m \in Matches : Undeclined = {m} /\ match[m] = "accepted" /\ m \notin lapsed

plans ==
    /\ At("plan")
    /\ \/ refuses(Plannable)
       \/ /\ Plannable
          /\ run' = [run EXCEPT !.pc = IF Known = {} THEN "bind" ELSE "lend",
                                !.match = IF Known = {} THEN "none" ELSE CHOOSE m \in Undeclined : TRUE]
          /\ UNCHANGED <<market, files, faucet, stops>>

\* The controlled wallet of the matched lender is copied into this run.
lends ==
    /\ At("lend")
    /\ \/ refuses(wallet["lender"].key \in {"none", run.match})
       \/ /\ wallet["lender"].key \in {"none", run.match}
          /\ wallet' = [wallet EXCEPT !["lender"] = [key |-> run.match, asked |-> TRUE]]
          /\ Goto("bind")
          /\ UNCHANGED <<market, plan, response, accounts, agreement, faucet, stops>>

binds ==
    /\ At("bind")
    /\ plan' = [bound |-> TRUE, match |-> run.match]
    /\ Goto("match")
    /\ UNCHANGED <<market, wallet, response, accounts, agreement, faucet, stops>>

\* The match of the plan is read again before anything is prepared from it.
Current == plan.match = "none" \/ (Undeclined = {plan.match} /\ plan.match \notin lapsed)

checksMatch ==
    /\ At("match")
    /\ \/ refuses(Current)
       \/ /\ Current
          /\ run' = [run EXCEPT !.pc = "fund", !.role = "broker"]
          /\ UNCHANGED <<market, files, faucet, stops>>

\* fund: a key is drawn first; it has no account on the event's ledger.
generates ==
    /\ At("fund") /\ wallet[run.role].key = "none"
    /\ wallet' = [wallet EXCEPT ![run.role].key = "own"]
    /\ UNCHANGED <<market, plan, response, accounts, agreement, faucet, run, stops>>

After(role) == CASE role = "broker" -> "lender" [] role = "lender" -> "borrower" [] OTHER -> "none"

Funded == wallet[run.role].key \notin {"none", "own"}

NextRole ==
    run' = IF After(run.role) = "none" THEN [run EXCEPT !.pc = "record"]
           ELSE [run EXCEPT !.pc = "fund", !.role = After(run.role)]

funded ==
    /\ At("fund") /\ Funded
    /\ NextRole
    /\ UNCHANGED <<market, files, faucet, stops>>

\* Mutant: that the faucet is asked is not saved before it is asked.
asksUnsaved ==
    /\ At("fund") /\ wallet[run.role].key = "own" /\ ~response[run.role]
    /\ Goto("ask")
    /\ UNCHANGED <<market, files, faucet, stops>>

\* The faucet is asked once; an unknown outcome is left to a person.
asks ==
    /\ At("fund") /\ wallet[run.role].key = "own" /\ ~response[run.role]
    /\ \/ refuses(~wallet[run.role].asked)
       \/ /\ ~wallet[run.role].asked
          /\ wallet' = [wallet EXCEPT ![run.role].asked = TRUE]
          /\ Goto("ask")
          /\ UNCHANGED <<market, plan, response, accounts, agreement, faucet, stops>>

\* It makes an account whose key is in the answer alone; the answer may be lost.
provisions ==
    /\ At("ask")
    /\ provisioned' = [provisioned EXCEPT ![run.role] = @ + 1]
    /\ UNCHANGED validated
    /\ Goto("answer")
    /\ UNCHANGED <<market, files, stops>>

saves ==
    /\ At("answer")
    /\ response' = [response EXCEPT ![run.role] = TRUE]
    /\ Goto("fund")
    /\ UNCHANGED <<market, plan, wallet, accounts, agreement, faucet, stops>>

\* The account appears on the ledger, which fund awaits for 30 s.
appears(role) ==
    /\ provisioned[role] > 0 /\ ~validated[role]
    /\ validated' = [validated EXCEPT ![role] = TRUE]
    /\ UNCHANGED <<market, files, provisioned, run, stops>>

adopts ==
    /\ At("fund") /\ wallet[run.role].key = "own" /\ response[run.role]
    /\ \/ refuses(validated[run.role])
       \/ /\ validated[run.role]
          /\ wallet' = [wallet EXCEPT ![run.role] = [key |-> "faucet", asked |-> TRUE]]
          /\ NextRole
          /\ UNCHANGED <<market, plan, response, accounts, agreement, faucet, stops>>

\* setup: the record keeps the accounts of its first preparation.
keepsAccounts ==
    /\ At("record")
    /\ accounts' = IF accounts = NoAccounts THEN [role \in Roles |-> wallet[role].key] ELSE accounts
    /\ Goto("terms")
    /\ UNCHANGED <<market, plan, wallet, response, agreement, faucet, stops>>

\* prepareRequest: the matched lender's account, or an agreement already made
\* for this plan.
Preserved == plan.match \in {"none", accounts["lender"]}

agrees ==
    /\ At("terms")
    /\ \/ refuses(Preserved)
       \/ /\ Preserved
          /\ agreement' = [accounts |-> accounts, match |-> plan.match]
          /\ run' = NoRun
          /\ UNCHANGED <<market, plan, wallet, response, accounts, faucet, stops>>

QNext ==
    \/ \E m \in Matches : proposed(m) \/ decides(m) \/ lapses(m)
    \/ stopped \/ begins \/ plans \/ lends \/ binds \/ checksMatch
    \/ generates \/ funded \/ asks \/ provisions \/ saves \/ adopts
    \/ \E role \in Roles : appears(role)
    \/ keepsAccounts \/ agrees

-----------------------------------------------------------------------------
\* The accounts people are asked to approve are those whose keys the run holds
\* and those of the match both sides accepted, however often preparation was
\* cut short; nobody is provisioned twice, and a matched lender never
\* (bridge.ts:35-50, cycle.ts:45-81, 145).
OneAccountPerRole ==
    /\ \A role \in Roles : provisioned[role] <= (IF role = "lender" /\ plan.match # "none" THEN 0 ELSE 1)
    /\ accounts # NoAccounts => \A role \in Roles : wallet[role].key = accounts[role]
    /\ agreement.accounts # NoAccounts =>
          /\ agreement.accounts = accounts /\ agreement.match = plan.match
          /\ plan.match # "none" => match[plan.match] = "accepted" /\ accounts["lender"] = plan.match
=============================================================================
