-------------------------- MODULE HostedSiteProofs --------------------------
(* Machine-checked proofs about HostedSite, for any proposals, any runs and  *)
(* any callers, however often they stop, retry or lose an answer: the        *)
(* preparation of a run, the published progress, and the assistant's budget. *)
EXTENDS HostedSite, FiniteSetTheorems, TLAPS

-----------------------------------------------------------------------------
(* The preparation: the inductive invariant.                                *)
Keys == Matches \cup {"none", "own", "faucet"}
Decisions == {"none", "pending", "accepted", "declined"}
Pcs == {"idle", "plan", "lend", "bind", "match", "fund", "ask", "answer", "record", "terms"}
Turns == [pc : Pcs, match : Matches \cup {"none"}, role : Roles]

Typed ==
    /\ match \in [Matches -> Decisions] /\ lapsed \subseteq Matches
    /\ plan \in [bound : BOOLEAN, match : Matches \cup {"none"}]
    /\ wallet \in [Roles -> [key : Keys, asked : BOOLEAN]]
    /\ response \in [Roles -> BOOLEAN] /\ validated \in [Roles -> BOOLEAN]
    /\ provisioned \in [Roles -> Nat]
    /\ accounts \in [Roles -> Keys]
    /\ agreement \in [accounts : [Roles -> Keys], match : Matches \cup {"none"}]
    /\ run \in Turns

\* The faucet is asked for a key of the run's own, which knows that it was.
WalletIsSound(role) ==
    LET mine == wallet[role]
    IN  /\ mine.key = "none" \/ ~mine.asked => provisioned[role] = 0
        /\ mine.key = "none" => ~mine.asked
        /\ mine.key \in Matches => provisioned[role] = 0
        /\ provisioned[role] <= 1

\* The lender of an accepted proposal provides the wallet of the plan.
Lends(m) == match[m] = "accepted" /\ wallet["lender"].key = m
PlanIsSound == plan.match # "none" => plan.bound /\ Lends(plan.match)

\* A wallet whose account is on the ledger.
Done(role) == wallet[role].key \notin {"none", "own"}

\* The record keeps the accounts of finished wallets, the agreement those of
\* the record.
AccountsAreSound ==
    /\ accounts # NoAccounts => \A role \in Roles : wallet[role].key = accounts[role] /\ Done(role)
    /\ agreement.accounts # NoAccounts =>
          /\ plan.bound /\ accounts = agreement.accounts /\ agreement.match = plan.match
          /\ plan.match \in {"none", accounts["lender"]}

Before(role) == CASE role = "broker" -> {} [] role = "lender" -> {"broker"} [] OTHER -> {"broker", "lender"}

\* What the preparation in progress has established.
PlaceIsRight ==
    /\ run.pc \in {"plan", "lend", "bind"} => ~plan.bound
    /\ run.pc \in {"match", "fund", "ask", "answer", "record", "terms"} => plan.bound
    /\ run.pc = "lend" => run.match \in Matches /\ match[run.match] = "accepted"
    /\ run.pc = "bind" /\ run.match # "none" => Lends(run.match)
    /\ run.pc \in {"fund", "ask", "answer"} => \A role \in Before(run.role) : Done(role)
    /\ run.pc = "ask" =>
          LET mine == wallet[run.role]
          IN  mine.key = "own" /\ mine.asked /\ provisioned[run.role] = 0
    /\ run.pc \in {"record", "terms"} => \A role \in Roles : Done(role)

IInv ==
    /\ Typed
    /\ \A role \in Roles : WalletIsSound(role)
    /\ PlanIsSound /\ AccountsAreSound /\ PlaceIsRight

-----------------------------------------------------------------------------
LEMMA InitIsSound == QInit => IInv
<1> SUFFICES ASSUME QInit PROVE IInv
  OBVIOUS
<1>1. /\ match = [m \in Matches |-> "none"] /\ lapsed = {} /\ plan = NoPlan
      /\ wallet = [role \in Roles |-> NoWallet] /\ response = [role \in Roles |-> FALSE]
      /\ provisioned = [role \in Roles |-> 0] /\ validated = [role \in Roles |-> FALSE]
      /\ accounts = NoAccounts /\ agreement = [accounts |-> NoAccounts, match |-> "none"]
      /\ run = NoRun
  BY DEF QInit
<1>2. Typed
  BY <1>1 DEF Typed, Turns, Pcs, Decisions, Keys, NoPlan, NoWallet, NoAccounts, NoRun, Roles
<1>3. \A role \in Roles : WalletIsSound(role)
  BY <1>1, MatchesAssumption DEF WalletIsSound, NoWallet
<1>4. PlanIsSound /\ AccountsAreSound /\ PlaceIsRight
  BY <1>1 DEF PlanIsSound, AccountsAreSound, PlaceIsRight, NoPlan, NoRun
<1> QED BY <1>2, <1>3, <1>4 DEF IInv

\* The market never takes an acceptance back.
LEMMA MarketKeeps ==
    ASSUME IInv, NEW m \in Matches, proposed(m) \/ decides(m) \/ lapses(m) PROVE IInv'
<1>1. UNCHANGED <<plan, wallet, response, accounts, agreement, provisioned, validated, run>>
  BY DEF proposed, decides, lapses, MarketAlone, files, faucet
<1>2. match' \in [Matches -> Decisions] /\ lapsed' \subseteq Matches
  BY DEF proposed, decides, lapses, IInv, Typed, Decisions
<1>3. \A other \in Matches : match[other] = "accepted" => match'[other] = "accepted"
  BY DEF proposed, decides, lapses, IInv, Typed
<1>4. Typed' BY <1>1, <1>2 DEF IInv, Typed
<1>5. \A role \in Roles : WalletIsSound(role)' BY <1>1 DEF IInv, WalletIsSound
<1>6. AccountsAreSound' BY <1>1 DEF IInv, AccountsAreSound, Done
<1>7. plan.match \in Matches \cup {"none"} /\ run.match \in Matches \cup {"none"}
  BY DEF IInv, Typed, Turns
<1>8. PlanIsSound' BY <1>1, <1>3, <1>7 DEF IInv, PlanIsSound, Lends
<1>9. PlaceIsRight' BY <1>1, <1>3, <1>7 DEF IInv, PlaceIsRight, Lends, Done
<1> QED BY <1>4, <1>5, <1>6, <1>8, <1>9 DEF IInv

\* A preparation that ends leaves the files to the next one.
LEMMA EndKeeps ==
    ASSUME IInv, run' = NoRun, UNCHANGED <<market, files, faucet>> PROVE IInv'
<1>1. UNCHANGED <<match, lapsed, plan, wallet, response, accounts, agreement, provisioned, validated>>
  BY DEF market, files, faucet
<1>2. Typed' BY <1>1 DEF IInv, Typed, Turns, Pcs, NoRun, Roles
<1>3. \A role \in Roles : WalletIsSound(role)' BY <1>1 DEF IInv, WalletIsSound
<1>4. PlanIsSound' /\ AccountsAreSound'
  BY <1>1 DEF IInv, PlanIsSound, Lends, AccountsAreSound, Done
<1>5. PlaceIsRight' BY DEF PlaceIsRight, NoRun
<1> QED BY <1>2, <1>3, <1>4, <1>5 DEF IInv

\* It goes on, with the files as they are.
LEMMA MoveKeeps ==
    ASSUME IInv, NEW turn, run' = turn, UNCHANGED <<market, files, faucet>>,
           turn \in Turns,
           turn.pc # "ask",
           turn.pc \in {"plan", "lend", "bind"} => ~plan.bound,
           turn.pc \in {"match", "fund", "answer", "record", "terms"} => plan.bound,
           turn.pc = "lend" => turn.match \in Matches /\ match[turn.match] = "accepted",
           turn.pc = "bind" /\ turn.match # "none" => Lends(turn.match),
           turn.pc \in {"fund", "answer"} => \A role \in Before(turn.role) : Done(role),
           turn.pc \in {"record", "terms"} => \A role \in Roles : Done(role)
    PROVE  IInv'
<1>1. UNCHANGED <<match, lapsed, plan, wallet, response, accounts, agreement, provisioned, validated>>
  BY DEF market, files, faucet
<1>2. Typed' BY <1>1 DEF IInv, Typed
<1>3. \A role \in Roles : WalletIsSound(role)' BY <1>1 DEF IInv, WalletIsSound
<1>4. PlanIsSound' /\ AccountsAreSound'
  BY <1>1 DEF IInv, PlanIsSound, Lends, AccountsAreSound, Done
<1>5. PlaceIsRight' BY <1>1 DEF PlaceIsRight, Lends, Done
<1> QED BY <1>2, <1>3, <1>4, <1>5 DEF IInv
LEMMA BeginsKeeps == ASSUME IInv, begins PROVE IInv'
<1>1. PICK turn : turn = [run EXCEPT !.pc = IF plan.bound THEN "match" ELSE "plan"] OBVIOUS
<1>2. run' = turn /\ UNCHANGED <<market, files, faucet>> BY <1>1 DEF begins, Goto
<1>3. plan.bound \in BOOLEAN BY DEF IInv, Typed
<1>4. turn.pc = (IF plan.bound THEN "match" ELSE "plan") /\ turn \in Turns
  <2>1. (IF plan.bound THEN "match" ELSE "plan") \in Pcs BY <1>3 DEF Pcs
  <2>2. run \in Turns BY DEF IInv, Typed
  <2> QED BY <1>1, <2>1, <2>2 DEF Turns
<1> QED BY <1>2, <1>3, <1>4, MoveKeeps

\* Only an accepted proposal is planned with.
LEMMA PlansKeeps == ASSUME IInv, plans PROVE IInv'
<1>1. CASE refuses(Plannable) BY <1>1, EndKeeps DEF refuses
<1>2. CASE ~refuses(Plannable)
  <2>1. /\ Plannable /\ UNCHANGED <<market, files, faucet>> /\ run.pc = "plan"
        /\ run' = [run EXCEPT !.pc = IF Known = {} THEN "bind" ELSE "lend",
                              !.match = IF Known = {} THEN "none" ELSE CHOOSE m \in Undeclined : TRUE]
    BY <1>2 DEF plans, At
  <2>2. ~plan.bound /\ UNCHANGED <<market, files, faucet>> BY <2>1 DEF IInv, PlaceIsRight
  <2>3. CASE Known = {}
    <3>1. PICK turn : turn = [run EXCEPT !.pc = "bind", !.match = "none"] OBVIOUS
    <3>2. run' = turn BY <2>1, <2>3, <3>1
    <3>3. run \in Turns BY DEF IInv, Typed
    <3>4. turn.pc = "bind" /\ turn.match = "none" /\ turn \in Turns
      BY <3>1, <3>3 DEF Turns, Pcs
    <3> QED BY <2>2, <3>2, <3>4, MoveKeeps
  <2>4. CASE Known # {}
    <3>1. PICK m \in Matches : Undeclined = {m} /\ match[m] = "accepted"
      BY <2>1, <2>4 DEF Plannable
    <3>2. (CHOOSE other \in Undeclined : TRUE) = m BY <3>1
    <3>3. PICK turn : turn = [run EXCEPT !.pc = "lend", !.match = m] OBVIOUS
    <3>4. run' = turn BY <2>1, <2>4, <3>2, <3>3
    <3>5. run \in Turns BY DEF IInv, Typed
    <3>6. turn.pc = "lend" /\ turn.match = m /\ turn \in Turns
      BY <3>3, <3>5 DEF Turns, Pcs
    <3> QED BY <2>2, <3>1, <3>4, <3>6, MoveKeeps
  <2> QED BY <2>3, <2>4
<1> QED BY <1>1, <1>2

\* The lender's wallet is taken before the faucet is asked for one, or not at all.
LEMMA LendsKeeps == ASSUME IInv, lends PROVE IInv'
<1>1. CASE refuses(wallet["lender"].key \in {"none", run.match}) BY <1>1, EndKeeps DEF refuses
<1>2. CASE ~refuses(wallet["lender"].key \in {"none", run.match})
  <2>1. /\ wallet["lender"].key \in {"none", run.match} /\ run.pc = "lend"
        /\ wallet' = [wallet EXCEPT !["lender"] = [key |-> run.match, asked |-> TRUE]]
        /\ run' = [run EXCEPT !.pc = "bind"]
        /\ UNCHANGED <<match, lapsed, plan, response, accounts, agreement, provisioned, validated>>
    BY <1>2 DEF lends, At, Goto, market, faucet
  <2>2. /\ run.match \in Matches /\ match[run.match] = "accepted" /\ ~plan.bound
        /\ wallet \in [Roles -> [key : Keys, asked : BOOLEAN]]
        /\ run.match \notin {"none", "own", "faucet"}
    BY <2>1, MatchesAssumption DEF IInv, PlaceIsRight, Typed
  <2>3. /\ wallet'["lender"].key = run.match /\ wallet'["lender"].asked = TRUE
        /\ wallet' \in [Roles -> [key : Keys, asked : BOOLEAN]]
        /\ \A role \in Roles : role # "lender" => wallet'[role] = wallet[role]
    BY <2>1, <2>2 DEF Roles, Keys
  <2>4. /\ run'.pc = "bind" /\ run'.match = run.match
        /\ run' \in Turns
    <3>1. run \in Turns BY DEF IInv, Typed
    <3> QED BY <2>1, <3>1 DEF Turns, Pcs
  <2>5. Typed' BY <2>1, <2>3, <2>4 DEF IInv, Typed
  <2>6. provisioned["lender"] = 0 BY <2>1, <2>2 DEF IInv, WalletIsSound, Roles
  <2>7. \A role \in Roles : WalletIsSound(role)'
    BY <2>1, <2>2, <2>3, <2>6 DEF IInv, WalletIsSound
  <2>8. plan.match = "none" BY <2>2 DEF IInv, PlanIsSound
  <2>9. PlanIsSound' BY <2>1, <2>8 DEF PlanIsSound
  <2>10. AccountsAreSound'
    <3>1. ASSUME accounts # NoAccounts, NEW role \in Roles
          PROVE  wallet'[role].key = accounts[role] /\ wallet'[role].key \notin {"none", "own"}
      <4>1. wallet[role].key = accounts[role] /\ wallet[role].key \notin {"none", "own"}
        BY <3>1 DEF IInv, AccountsAreSound, Done
      <4> QED BY <2>1, <2>2, <2>3, <4>1
    <3> QED BY <2>1, <2>2, <3>1 DEF IInv, AccountsAreSound, Done
  <2>11. PlaceIsRight' BY <2>1, <2>2, <2>3, <2>4 DEF PlaceIsRight, Lends
  <2> QED BY <2>5, <2>7, <2>9, <2>10, <2>11 DEF IInv
<1> QED BY <1>1, <1>2

\* A plan is bound once.
LEMMA BindsKeeps == ASSUME IInv, binds PROVE IInv'
<1>1. /\ run.pc = "bind" /\ plan' = [bound |-> TRUE, match |-> run.match]
      /\ run' = [run EXCEPT !.pc = "match"]
      /\ UNCHANGED <<match, lapsed, wallet, response, accounts, agreement, provisioned, validated>>
  BY DEF binds, At, Goto, market, faucet
<1>2. ~plan.bound /\ (run.match # "none" => Lends(run.match)) BY <1>1 DEF IInv, PlaceIsRight
<1>3. run.match \in Matches \cup {"none"} BY DEF IInv, Typed, Turns
<1>4. run'.pc = "match" /\ run' \in Turns
  <2>1. run \in Turns BY DEF IInv, Typed
  <2> QED BY <1>1, <2>1 DEF Turns, Pcs
<1>5. Typed' BY <1>1, <1>3, <1>4 DEF IInv, Typed
<1>6. \A role \in Roles : WalletIsSound(role)' BY <1>1 DEF IInv, WalletIsSound
<1>7. PlanIsSound' BY <1>1, <1>2 DEF PlanIsSound, Lends
<1>8. agreement.accounts = NoAccounts BY <1>2 DEF IInv, AccountsAreSound
<1>9. AccountsAreSound' BY <1>1, <1>8 DEF IInv, AccountsAreSound, Done
<1>10. PlaceIsRight' BY <1>1, <1>4 DEF PlaceIsRight
<1> QED BY <1>5, <1>6, <1>7, <1>9, <1>10 DEF IInv

LEMMA ChecksMatchKeeps == ASSUME IInv, checksMatch PROVE IInv'
<1>1. CASE refuses(Current) BY <1>1, EndKeeps DEF refuses
<1>2. CASE ~refuses(Current)
  <2>1. PICK turn : turn = [run EXCEPT !.pc = "fund", !.role = "broker"] OBVIOUS
  <2>2. run' = turn /\ UNCHANGED <<market, files, faucet>> /\ run.pc = "match"
    BY <1>2, <2>1 DEF checksMatch, At
  <2>3. run \in Turns BY DEF IInv, Typed
  <2>4. turn.pc = "fund" /\ turn.role = "broker" /\ turn \in Turns
    BY <2>1, <2>3 DEF Turns, Pcs, Roles
  <2>5. plan.bound BY <2>2 DEF IInv, PlaceIsRight
  <2>6. Before("broker") = {} BY DEF Before
  <2> QED BY <2>2, <2>4, <2>5, <2>6, MoveKeeps
<1> QED BY <1>1, <1>2

-----------------------------------------------------------------------------
(* Funding one role's wallet.                                               *)
\* A role's own key is drawn before anything was asked for it.
LEMMA GeneratesKeeps == ASSUME IInv, generates PROVE IInv'
<1>1. /\ run.pc = "fund" /\ wallet[run.role].key = "none"
      /\ wallet' = [wallet EXCEPT ![run.role].key = "own"]
      /\ UNCHANGED <<match, lapsed, plan, response, accounts, agreement, provisioned, validated, run>>
  BY DEF generates, At, market, faucet
<1>2. /\ run.role \in Roles
      /\ wallet \in [Roles -> [key : Keys, asked : BOOLEAN]]
  BY DEF IInv, Typed, Turns
<1>3. /\ wallet'[run.role].key = "own" /\ wallet'[run.role].asked = wallet[run.role].asked
      /\ wallet' \in [Roles -> [key : Keys, asked : BOOLEAN]]
      /\ \A role \in Roles : role # run.role => wallet'[role] = wallet[role]
  BY <1>1, <1>2 DEF Keys
<1>4. Typed' BY <1>1, <1>3 DEF IInv, Typed
<1>5. wallet[run.role].asked = FALSE /\ provisioned[run.role] = 0
  BY <1>1, <1>2 DEF IInv, WalletIsSound
<1>6. \A role \in Roles : WalletIsSound(role)'
  BY <1>1, <1>2, <1>3, <1>5, MatchesAssumption DEF IInv, WalletIsSound
<1>7. plan.match \in Matches \cup {"none"} BY DEF IInv, Typed
<1>8. PlanIsSound'
  <2>1. SUFFICES ASSUME plan.match # "none" PROVE plan.bound /\ match[plan.match] = "accepted" /\ wallet'["lender"].key = plan.match
    BY <1>1 DEF PlanIsSound, Lends
  <2>2. plan.bound /\ Lends(plan.match) BY <2>1 DEF IInv, PlanIsSound
  <2>3. run.role # "lender" BY <1>1, <2>1, <2>2 DEF Lends
  <2>4. "lender" \in Roles BY DEF Roles
  <2> QED BY <1>3, <2>2, <2>3, <2>4 DEF Lends
<1>9. ~Done(run.role) BY <1>1 DEF Done
<1>10. AccountsAreSound'
  <2>1. accounts = NoAccounts BY <1>2, <1>9 DEF IInv, AccountsAreSound
  <2>2. agreement.accounts = NoAccounts \/ (plan.bound /\ agreement.match = plan.match
          /\ accounts = agreement.accounts /\ plan.match \in {"none", accounts["lender"]})
    BY DEF IInv, AccountsAreSound
  <2> QED BY <1>1, <2>1, <2>2 DEF AccountsAreSound
<1>11. PlaceIsRight'
  <2>1. plan.bound /\ \A role \in Before(run.role) : Done(role)
    BY <1>1 DEF IInv, PlaceIsRight
  <2>2. run.role \notin Before(run.role) /\ Before(run.role) \subseteq Roles
    BY <1>2 DEF Before, Roles
  <2>3. \A role \in Before(run.role) : Done(role)'
    BY <1>3, <2>1, <2>2 DEF Done
  <2> QED BY <1>1, <2>1, <2>3 DEF PlaceIsRight
<1> QED BY <1>4, <1>6, <1>8, <1>10, <1>11 DEF IInv

\* The last role of the three is the borrower.
LEMMA RolesInOrder ==
    ASSUME NEW role \in Roles, \A other \in Before(role) : Done(other), Done(role)
    PROVE  /\ After(role) = "none" => \A other \in Roles : Done(other)
           /\ After(role) # "none" =>
                 After(role) \in Roles /\ \A other \in Before(After(role)) : Done(other)
BY DEF After, Before, Roles

\* A finished role leaves the turn to the next.
LEMMA FundedKeeps == ASSUME IInv, funded PROVE IInv'
<1>1. /\ run.pc = "fund" /\ Funded /\ NextRole /\ UNCHANGED <<market, files, faucet>>
  BY DEF funded, At
<1>2. run \in Turns /\ run.role \in Roles BY DEF IInv, Typed, Turns
<1>3. plan.bound /\ Done(run.role) /\ \A role \in Before(run.role) : Done(role)
  BY <1>1 DEF IInv, PlaceIsRight, Funded, Done
<1>4. CASE After(run.role) = "none"
  <2>1. PICK turn : turn = [run EXCEPT !.pc = "record"] OBVIOUS
  <2>2. run' = turn BY <1>1, <1>4, <2>1 DEF NextRole
  <2>3. turn.pc = "record" /\ turn \in Turns BY <1>2, <2>1 DEF Turns, Pcs
  <2>4. \A role \in Roles : Done(role) BY <1>2, <1>3, <1>4, RolesInOrder
  <2>5. UNCHANGED <<market, files, faucet>> BY <1>1
  <2> QED BY <1>3, <2>2, <2>3, <2>4, <2>5, MoveKeeps
<1>5. CASE After(run.role) # "none"
  <2>1. PICK turn : turn = [run EXCEPT !.pc = "fund", !.role = After(run.role)] OBVIOUS
  <2>2. run' = turn BY <1>1, <1>5, <2>1 DEF NextRole
  <2>3. After(run.role) \in Roles /\ \A other \in Before(After(run.role)) : Done(other)
    BY <1>2, <1>3, <1>5, RolesInOrder
  <2>4. turn.pc = "fund" /\ turn.role = After(run.role) /\ turn \in Turns
    BY <1>2, <2>1, <2>3 DEF Turns, Pcs
  <2>5. UNCHANGED <<market, files, faucet>> BY <1>1
  <2> QED BY <1>3, <2>2, <2>3, <2>4, <2>5, MoveKeeps
<1> QED BY <1>4, <1>5

\* That the faucet will be asked is saved before it is.
LEMMA AsksKeeps == ASSUME IInv, asks PROVE IInv'
<1>1. CASE refuses(~wallet[run.role].asked) BY <1>1, EndKeeps DEF refuses
<1>2. CASE ~refuses(~wallet[run.role].asked)
  <2>1. /\ run.pc = "fund" /\ wallet[run.role].key = "own" /\ ~wallet[run.role].asked
        /\ wallet' = [wallet EXCEPT ![run.role].asked = TRUE]
        /\ run' = [run EXCEPT !.pc = "ask"]
        /\ UNCHANGED <<match, lapsed, plan, response, accounts, agreement, provisioned, validated>>
    BY <1>2 DEF asks, At, Goto, market, faucet
  <2>2. /\ run \in Turns /\ run.role \in Roles
        /\ wallet \in [Roles -> [key : Keys, asked : BOOLEAN]]
    BY DEF IInv, Typed, Turns
  <2>3. /\ wallet'[run.role].key = "own" /\ wallet'[run.role].asked = TRUE
        /\ wallet' \in [Roles -> [key : Keys, asked : BOOLEAN]]
        /\ \A role \in Roles : wallet'[role].key = wallet[role].key
        /\ \A role \in Roles : role # run.role => wallet'[role] = wallet[role]
    BY <2>1, <2>2
  <2>4. run'.pc = "ask" /\ run'.role = run.role /\ run' \in Turns
    BY <2>1, <2>2 DEF Turns, Pcs
  <2>5. Typed' BY <2>1, <2>3, <2>4 DEF IInv, Typed
  <2>6. provisioned[run.role] = 0 BY <2>1, <2>2 DEF IInv, WalletIsSound
  <2>7. \A role \in Roles : WalletIsSound(role)'
    BY <2>1, <2>2, <2>3, <2>6, MatchesAssumption DEF IInv, WalletIsSound
  <2>8. "lender" \in Roles /\ \A role \in Roles : Before(role) \subseteq Roles BY DEF Roles, Before
  <2>9. PlanIsSound' BY <2>1, <2>3, <2>8 DEF IInv, PlanIsSound, Lends
  <2>10. AccountsAreSound' BY <2>1, <2>3 DEF IInv, AccountsAreSound, Done
  <2>11. PlaceIsRight'
    <3>1. plan.bound /\ \A role \in Before(run.role) : Done(role)
      BY <2>1 DEF IInv, PlaceIsRight
    <3>2. \A role \in Before(run.role) : Done(role)'
      BY <2>2, <2>3, <2>8, <3>1 DEF Done
    <3> QED BY <2>1, <2>3, <2>4, <2>6, <3>1, <3>2 DEF PlaceIsRight
  <2> QED BY <2>5, <2>7, <2>9, <2>10, <2>11 DEF IInv
<1> QED BY <1>1, <1>2

\* One account is made, for a key that had none.
LEMMA ProvisionsKeeps == ASSUME IInv, provisions PROVE IInv'
<1>1. /\ run.pc = "ask" /\ provisioned' = [provisioned EXCEPT ![run.role] = @ + 1]
      /\ run' = [run EXCEPT !.pc = "answer"]
      /\ UNCHANGED <<match, lapsed, plan, wallet, response, accounts, agreement, validated>>
  BY DEF provisions, At, Goto, market, files
<1>2. run \in Turns /\ run.role \in Roles /\ provisioned \in [Roles -> Nat]
  BY DEF IInv, Typed, Turns
<1>3. /\ plan.bound /\ wallet[run.role].key = "own" /\ wallet[run.role].asked
      /\ provisioned[run.role] = 0 /\ \A role \in Before(run.role) : Done(role)
  BY <1>1 DEF IInv, PlaceIsRight
<1>4. /\ provisioned'[run.role] = 1 /\ provisioned' \in [Roles -> Nat]
      /\ \A role \in Roles : role # run.role => provisioned'[role] = provisioned[role]
  BY <1>1, <1>2, <1>3
<1>5. run'.pc = "answer" /\ run'.role = run.role /\ run' \in Turns
  BY <1>1, <1>2 DEF Turns, Pcs
<1>6. Typed' BY <1>1, <1>4, <1>5 DEF IInv, Typed
<1>7. \A role \in Roles : WalletIsSound(role)'
  BY <1>1, <1>2, <1>3, <1>4, MatchesAssumption DEF IInv, WalletIsSound
<1>8. PlanIsSound' BY <1>1 DEF IInv, PlanIsSound, Lends
<1>9. AccountsAreSound' BY <1>1 DEF IInv, AccountsAreSound, Done
<1>10. PlaceIsRight' BY <1>1, <1>3, <1>5 DEF PlaceIsRight, Done
<1> QED BY <1>6, <1>7, <1>8, <1>9, <1>10 DEF IInv

\* The answer is saved.
LEMMA SavesKeeps == ASSUME IInv, saves PROVE IInv'
<1>1. /\ run.pc = "answer" /\ response' = [response EXCEPT ![run.role] = TRUE]
      /\ run' = [run EXCEPT !.pc = "fund"]
      /\ UNCHANGED <<match, lapsed, plan, wallet, accounts, agreement, provisioned, validated>>
  BY DEF saves, At, Goto, market, faucet
<1>2. run \in Turns /\ response \in [Roles -> BOOLEAN] BY DEF IInv, Typed
<1>3. plan.bound /\ \A role \in Before(run.role) : Done(role) BY <1>1 DEF IInv, PlaceIsRight
<1>4. run'.pc = "fund" /\ run'.role = run.role /\ run' \in Turns BY <1>1, <1>2 DEF Turns, Pcs
<1>5. Typed' BY <1>1, <1>2, <1>4 DEF IInv, Typed
<1>6. \A role \in Roles : WalletIsSound(role)' BY <1>1 DEF IInv, WalletIsSound
<1>7. PlanIsSound' /\ AccountsAreSound'
  BY <1>1 DEF IInv, PlanIsSound, Lends, AccountsAreSound, Done
<1>8. PlaceIsRight' BY <1>1, <1>3, <1>4 DEF PlaceIsRight, Done
<1> QED BY <1>5, <1>6, <1>7, <1>8 DEF IInv

\* An account on the ledger changes no file.
LEMMA AppearsKeeps == ASSUME IInv, NEW role \in Roles, appears(role) PROVE IInv'
<1>1. /\ validated' = [validated EXCEPT ![role] = TRUE]
      /\ UNCHANGED <<match, lapsed, plan, wallet, response, accounts, agreement, provisioned, run>>
  BY DEF appears, market, files
<1>2. Typed' BY <1>1 DEF IInv, Typed
<1>3. \A other \in Roles : WalletIsSound(other)' BY <1>1 DEF IInv, WalletIsSound
<1>4. PlanIsSound' /\ AccountsAreSound' /\ PlaceIsRight'
  BY <1>1 DEF IInv, PlanIsSound, Lends, AccountsAreSound, PlaceIsRight, Done
<1> QED BY <1>2, <1>3, <1>4 DEF IInv

\* The faucet's account takes the place of the key it was asked for.
LEMMA AdoptsKeeps == ASSUME IInv, adopts PROVE IInv'
<1>1. CASE refuses(validated[run.role]) BY <1>1, EndKeeps DEF refuses
<1>2. CASE ~refuses(validated[run.role])
  <2>1. /\ run.pc = "fund" /\ wallet[run.role].key = "own" /\ NextRole
        /\ wallet' = [wallet EXCEPT ![run.role] = [key |-> "faucet", asked |-> TRUE]]
        /\ UNCHANGED <<match, lapsed, plan, response, accounts, agreement, provisioned, validated>>
    BY <1>2 DEF adopts, At, market, faucet
  <2>2. /\ run \in Turns /\ run.role \in Roles
        /\ wallet \in [Roles -> [key : Keys, asked : BOOLEAN]]
    BY DEF IInv, Typed, Turns
  <2>3. /\ wallet'[run.role].key = "faucet" /\ wallet'[run.role].asked = TRUE
        /\ wallet' \in [Roles -> [key : Keys, asked : BOOLEAN]]
        /\ \A role \in Roles : role # run.role => wallet'[role] = wallet[role]
    BY <2>1, <2>2 DEF Keys
  <2>4. plan.bound /\ \A role \in Before(run.role) : Done(role)
    BY <2>1 DEF IInv, PlaceIsRight
  <2>5. \A role \in Roles : role = run.role \/ Done(role) => Done(role)'
    BY <2>2, <2>3 DEF Done
  <2>6. \A role \in Roles : WalletIsSound(role)'
    BY <2>1, <2>2, <2>3, MatchesAssumption DEF IInv, WalletIsSound
  <2>7. PlanIsSound'
    <3>1. SUFFICES ASSUME plan.match # "none"
                   PROVE  plan.bound /\ match[plan.match] = "accepted" /\ wallet'["lender"].key = plan.match
      BY <2>1 DEF PlanIsSound, Lends
    <3>2. plan.bound /\ Lends(plan.match) BY <3>1 DEF IInv, PlanIsSound
    <3>3. plan.match \in Matches BY <3>1 DEF IInv, Typed
    <3>4. run.role # "lender" BY <2>1, <3>2, <3>3, MatchesAssumption DEF Lends
    <3>5. "lender" \in Roles BY DEF Roles
    <3> QED BY <2>3, <3>2, <3>4, <3>5 DEF Lends
  <2>8. ~Done(run.role) BY <2>1 DEF Done
  <2>9. AccountsAreSound'
    <3>1. accounts = NoAccounts BY <2>2, <2>8 DEF IInv, AccountsAreSound
    <3>2. agreement.accounts = NoAccounts \/ (plan.bound /\ agreement.match = plan.match
            /\ accounts = agreement.accounts /\ plan.match \in {"none", accounts["lender"]})
      BY DEF IInv, AccountsAreSound
    <3> QED BY <2>1, <3>1, <3>2 DEF AccountsAreSound
  <2>10. Before(run.role) \subseteq Roles BY DEF Before, Roles
  <2>11. CASE After(run.role) = "none"
    <3>1. run'.pc = "record" /\ run' \in Turns
      BY <2>1, <2>2, <2>11 DEF NextRole, Turns, Pcs
    <3>2. \A role \in Roles : Done(role)'
      <4>1. \A role \in Roles : role = run.role \/ role \in Before(run.role)
        BY <2>2, <2>11 DEF After, Before, Roles
      <4> QED BY <2>4, <2>5, <2>10, <4>1
    <3>3. Typed' BY <2>1, <2>3, <3>1 DEF IInv, Typed
    <3>4. PlaceIsRight' BY <2>1, <2>4, <3>1, <3>2 DEF PlaceIsRight
    <3> QED BY <2>6, <2>7, <2>9, <3>3, <3>4 DEF IInv
  <2>12. CASE After(run.role) # "none"
    <3>1. After(run.role) \in Roles
      BY <2>2, <2>12 DEF After, Roles
    <3>2. run'.pc = "fund" /\ run'.role = After(run.role) /\ run' \in Turns
      BY <2>1, <2>2, <2>12, <3>1 DEF NextRole, Turns, Pcs
    <3>3. \A role \in Before(After(run.role)) : Done(role)'
      <4>1. \A role \in Before(After(run.role)) : role = run.role \/ role \in Before(run.role)
        BY <2>2, <2>12 DEF After, Before, Roles
      <4>2. Before(After(run.role)) \subseteq Roles BY DEF Before, Roles
      <4>3. \A role \in Before(After(run.role)) : Done(role)' BY <2>4, <2>5, <4>1, <4>2
      <4>4. run'.role = After(run.role) BY <3>2
      <4> QED BY <4>3
    <3>4. Typed' BY <2>1, <2>3, <3>2 DEF IInv, Typed
    <3>5. PlaceIsRight' BY <2>1, <2>4, <3>2, <3>3 DEF PlaceIsRight
    <3> QED BY <2>6, <2>7, <2>9, <3>4, <3>5 DEF IInv
  <2> QED BY <2>11, <2>12
<1> QED BY <1>1, <1>2

-----------------------------------------------------------------------------
(* The record and the agreement.                                            *)
\* The record takes the accounts of finished wallets, once.
LEMMA KeepsAccountsKeeps == ASSUME IInv, keepsAccounts PROVE IInv'
<1>1. /\ run.pc = "record" /\ run' = [run EXCEPT !.pc = "terms"]
      /\ accounts' = IF accounts = NoAccounts THEN [role \in Roles |-> wallet[role].key] ELSE accounts
      /\ UNCHANGED <<match, lapsed, plan, wallet, response, agreement, provisioned, validated>>
  BY DEF keepsAccounts, At, Goto, market, faucet
<1>2. /\ run \in Turns /\ accounts \in [Roles -> Keys]
      /\ wallet \in [Roles -> [key : Keys, asked : BOOLEAN]]
  BY DEF IInv, Typed
<1>3. plan.bound /\ \A role \in Roles : Done(role) BY <1>1 DEF IInv, PlaceIsRight
<1>4. run'.pc = "terms" /\ run' \in Turns BY <1>1, <1>2 DEF Turns, Pcs
<1>5. accounts' \in [Roles -> Keys] BY <1>1, <1>2
<1>6. Typed' BY <1>1, <1>4, <1>5 DEF IInv, Typed
<1>7. \A role \in Roles : WalletIsSound(role)' BY <1>1 DEF IInv, WalletIsSound
<1>8. PlanIsSound' BY <1>1 DEF IInv, PlanIsSound, Lends
<1>9. PlaceIsRight' BY <1>1, <1>3, <1>4 DEF PlaceIsRight, Done
<1>10. AccountsAreSound'
  <2>1. CASE accounts = NoAccounts
    <3>1. agreement.accounts = NoAccounts BY <2>1 DEF IInv, AccountsAreSound
    <3>2. \A role \in Roles : accounts'[role] = wallet[role].key BY <1>1, <2>1
    <3> QED BY <1>1, <1>3, <3>1, <3>2 DEF AccountsAreSound, Done
  <2>2. CASE accounts # NoAccounts
    <3>1. accounts' = accounts BY <1>1, <2>2
    <3> QED BY <1>1, <3>1 DEF IInv, AccountsAreSound, Done
  <2> QED BY <2>1, <2>2
<1> QED BY <1>6, <1>7, <1>8, <1>9, <1>10 DEF IInv

\* The agreement takes the accounts of the record, if they fit the plan.
LEMMA AgreesKeeps == ASSUME IInv, agrees PROVE IInv'
<1>1. CASE refuses(Preserved) BY <1>1, EndKeeps DEF refuses
<1>2. CASE ~refuses(Preserved)
  <2>1. /\ run.pc = "terms" /\ Preserved /\ run' = NoRun
        /\ agreement' = [accounts |-> accounts, match |-> plan.match]
        /\ UNCHANGED <<match, lapsed, plan, wallet, response, accounts, provisioned, validated>>
    BY <1>2 DEF agrees, At, market, faucet
  <2>2. plan.bound BY <2>1 DEF IInv, PlaceIsRight
  <2>3. accounts \in [Roles -> Keys] /\ plan.match \in Matches \cup {"none"} BY DEF IInv, Typed
  <2>4. agreement'.accounts = accounts /\ agreement'.match = plan.match BY <2>1
  <2>5. Typed' BY <2>1, <2>3 DEF IInv, Typed, Turns, Pcs, NoRun, Roles
  <2>6. \A role \in Roles : WalletIsSound(role)' BY <2>1 DEF IInv, WalletIsSound
  <2>7. PlanIsSound' BY <2>1 DEF IInv, PlanIsSound, Lends
  <2>8. AccountsAreSound'
    BY <2>1, <2>2, <2>4 DEF IInv, AccountsAreSound, Preserved, Done
  <2>9. PlaceIsRight' BY <2>1 DEF PlaceIsRight, NoRun
  <2> QED BY <2>5, <2>6, <2>7, <2>8, <2>9 DEF IInv
<1> QED BY <1>1, <1>2

\* Every step, of this part or of another.
LEMMA StepKeeps == ASSUME IInv, [Next]_<<qvars, pvars, bvars, part>> PROVE IInv'
<1>1. CASE UNCHANGED qvars
  <2>1. UNCHANGED <<match, lapsed, plan, wallet, response, accounts, agreement, provisioned, validated, run>>
    BY <1>1 DEF qvars, market, files, faucet
  <2>2. Typed' BY <2>1 DEF IInv, Typed
  <2>3. \A role \in Roles : WalletIsSound(role)' BY <2>1 DEF IInv, WalletIsSound
  <2>4. PlanIsSound' /\ AccountsAreSound' /\ PlaceIsRight'
    BY <2>1 DEF IInv, PlanIsSound, Lends, AccountsAreSound, PlaceIsRight, Done
  <2> QED BY <2>2, <2>3, <2>4 DEF IInv
<1>2. CASE QNext
  <2>1. CASE \E m \in Matches : proposed(m) \/ decides(m) \/ lapses(m)
    BY <2>1, MarketKeeps
  <2>2. CASE \E role \in Roles : appears(role) BY <2>2, AppearsKeeps
  <2>3. CASE stopped BY <2>3, EndKeeps DEF stopped
  <2>4. CASE begins BY <2>4, BeginsKeeps
  <2>5. CASE plans BY <2>5, PlansKeeps
  <2>6. CASE lends BY <2>6, LendsKeeps
  <2>7. CASE binds BY <2>7, BindsKeeps
  <2>8. CASE checksMatch BY <2>8, ChecksMatchKeeps
  <2>9. CASE generates BY <2>9, GeneratesKeeps
  <2>10. CASE funded BY <2>10, FundedKeeps
  <2>11. CASE asks BY <2>11, AsksKeeps
  <2>12. CASE provisions BY <2>12, ProvisionsKeeps
  <2>13. CASE saves BY <2>13, SavesKeeps
  <2>14. CASE adopts BY <2>14, AdoptsKeeps
  <2>15. CASE keepsAccounts BY <2>15, KeepsAccountsKeeps
  <2>16. CASE agrees BY <2>16, AgreesKeeps
  <2> QED BY <1>2, <2>1, <2>2, <2>3, <2>4, <2>5, <2>6, <2>7, <2>8, <2>9, <2>10, <2>11,
             <2>12, <2>13, <2>14, <2>15, <2>16 DEF QNext
<1> QED BY <1>1, <1>2 DEF Next

-----------------------------------------------------------------------------
LEMMA SoundImplies == IInv => OneAccountPerRole
<1> SUFFICES ASSUME IInv PROVE OneAccountPerRole
  OBVIOUS
<1>1. ASSUME NEW role \in Roles
      PROVE  provisioned[role] <= (IF role = "lender" /\ plan.match # "none" THEN 0 ELSE 1)
  <2>1. provisioned[role] \in Nat /\ provisioned[role] <= 1 BY DEF IInv, Typed, WalletIsSound
  <2>2. CASE role = "lender" /\ plan.match # "none"
    <3>1. wallet["lender"].key = plan.match BY <2>2 DEF IInv, PlanIsSound, Lends
    <3>2. plan.match \in Matches BY <2>2 DEF IInv, Typed
    <3> QED BY <2>2, <3>1, <3>2 DEF IInv, WalletIsSound
  <2> QED BY <2>1, <2>2
<1>2. accounts # NoAccounts => \A role \in Roles : wallet[role].key = accounts[role]
  BY DEF IInv, AccountsAreSound
<1>3. ASSUME agreement.accounts # NoAccounts
      PROVE  /\ agreement.accounts = accounts /\ agreement.match = plan.match
             /\ plan.match # "none" => match[plan.match] = "accepted" /\ accounts["lender"] = plan.match
  BY <1>3 DEF IInv, AccountsAreSound, PlanIsSound, Lends
<1> QED BY <1>1, <1>2, <1>3 DEF OneAccountPerRole

\* However often preparation is cut short and run again, each role has one
\* account, the run holds its key, the faucet made at most one for it, and a
\* matched lender's is the one the lender brought (bridge.ts:35-50).
THEOREM AccountsAreSingle == Spec => []OneAccountPerRole
<1>1. Init => IInv BY InitIsSound DEF Init
<1>2. IInv /\ [Next]_<<qvars, pvars, bvars, part>> => IInv' BY StepKeeps
<1>3. IInv => OneAccountPerRole BY SoundImplies
<1> QED BY <1>1, <1>2, <1>3, PTL DEF Spec

-----------------------------------------------------------------------------
(* The published progress. A put that can still take effect contains what   *)
(* is published, for every run; the put a bridge waits for contains its     *)
(* version, so once it has taken effect that version stays published.       *)
Documents == [revision : Nat, runs : SUBSET [run : Runs, version : Nat]]
Publishings == [writer : Runs, seen : Nat, content : Documents]
Bridges == [pc : {"idle", "read", "put"}, version : Nat, attempt : Nat, put : Publishings \cup {NoPut}]

ProgressTyped ==
    /\ progress \in Documents /\ etag \in Nat /\ now \in Nat
    /\ puts \subseteq Publishings /\ landed \subseteq Publishings
    /\ facts \in [Runs -> Nat] /\ confirmed \in [Runs -> Nat]
    /\ bridge \in [Runs -> Bridges]

Shows(document, name, least) ==
    \E entry \in document.runs : entry.run = name /\ least <= entry.version

\* Nothing in the document is ahead of the local records.
IsTrue(document) == \A entry \in document.runs : entry.version <= facts[entry.run]
OneEntryPerRun(document) == \A one, other \in document.runs : one.run = other.run => one = other
Includes(new, old) == \A entry \in old.runs : Shows(new, entry.run, entry.version)

MayFollow(new) ==
    /\ IsTrue(new) /\ OneEntryPerRun(new) /\ Includes(new, progress)
    /\ new.revision > progress.revision

PutsAreSound ==
    /\ \A put \in puts : put.seen <= etag /\ (put.seen = etag => MayFollow(put.content))
    /\ \A put \in landed : put.seen < etag

BridgeIsSound(name) ==
    LET mine == bridge[name]
    IN  /\ mine.pc # "idle" => mine.version = facts[name]
        /\ mine.pc = "put" =>
              /\ mine.put \in Publishings /\ mine.put.writer = name /\ mine.put.seen <= etag
              /\ Shows(mine.put.content, name, mine.version)
              /\ mine.put \in landed => Shows(progress, name, mine.version)
        /\ confirmed[name] > 0 => Shows(progress, name, confirmed[name])

ProgressInv ==
    /\ ProgressTyped /\ IsTrue(progress) /\ OneEntryPerRun(progress) /\ PutsAreSound
    /\ \A name \in Runs : BridgeIsSound(name)

-----------------------------------------------------------------------------
LEMMA ProgressStarts == PInit => ProgressInv
<1> SUFFICES ASSUME PInit PROVE ProgressInv
  OBVIOUS
<1>1. /\ progress = Empty /\ etag = 0 /\ puts = {} /\ landed = {} /\ now = 0
      /\ facts = [name \in Runs |-> 0] /\ confirmed = [name \in Runs |-> 0]
      /\ bridge = [name \in Runs |-> Resting]
  BY DEF PInit
<1>2. Empty \in Documents /\ Empty.runs = {} BY DEF Empty, Documents
<1>3. Resting \in Bridges /\ Resting.pc = "idle" BY DEF Resting, Bridges
<1>4. ProgressTyped BY <1>1, <1>2, <1>3 DEF ProgressTyped
<1>5. IsTrue(progress) /\ OneEntryPerRun(progress) BY <1>1, <1>2 DEF IsTrue, OneEntryPerRun
<1>6. PutsAreSound BY <1>1 DEF PutsAreSound
<1>7. \A name \in Runs : BridgeIsSound(name) BY <1>1, <1>3 DEF BridgeIsSound
<1> QED BY <1>4, <1>5, <1>6, <1>7 DEF ProgressInv

\* The document with a run's own facts may follow what is published.
LEMMA ReplacedMayFollow ==
    ASSUME ProgressInv, NEW name \in Runs
    PROVE  LET new == Replaced(progress, name, facts[name])
           IN  new \in Documents /\ MayFollow(new) /\ Shows(new, name, facts[name])
<1> DEFINE new == Replaced(progress, name, facts[name])
           entry == [run |-> name, version |-> facts[name]]
<1>1. /\ progress \in Documents /\ now \in Nat /\ facts[name] \in Nat /\ facts \in [Runs -> Nat]
      /\ IsTrue(progress) /\ OneEntryPerRun(progress)
  BY DEF ProgressInv, ProgressTyped
<1>2. progress.revision \in Nat /\ progress.runs \subseteq [run : Runs, version : Nat]
  BY <1>1 DEF Documents
<1>3. Later(progress.revision) \in Nat /\ Later(progress.revision) > progress.revision
  BY <1>1, <1>2 DEF Later
<1>4. /\ new.revision = Later(progress.revision)
      /\ new.runs = Others(progress.runs, name) \cup {entry}
  BY DEF Replaced
<1>5. entry \in [run : Runs, version : Nat] /\ entry.run = name /\ entry.version = facts[name]
  BY <1>1
<1>6. new \in Documents
  <2>1. new.runs \subseteq [run : Runs, version : Nat] BY <1>2, <1>4, <1>5 DEF Others
  <2> QED BY <1>3, <1>4, <2>1 DEF Replaced, Documents
<1> HIDE DEF new, entry
<1>7. IsTrue(new) BY <1>1, <1>4, <1>5 DEF IsTrue, Others
<1>8. OneEntryPerRun(new) BY <1>1, <1>4, <1>5 DEF OneEntryPerRun, Others
<1>9. Includes(new, progress)
  <2>1. SUFFICES ASSUME NEW old \in progress.runs PROVE Shows(new, old.run, old.version)
    BY DEF Includes
  <2>2. old.version \in Nat BY <1>2
  <2>3. CASE old.run = name
    <3>1. old.version <= facts[name] BY <1>1, <2>3 DEF IsTrue
    <3> QED BY <1>4, <1>5, <2>3, <3>1 DEF Shows
  <2>4. CASE old.run # name
    <3>1. old \in new.runs BY <1>4, <2>4 DEF Others
    <3> QED BY <2>2, <3>1 DEF Shows
  <2> QED BY <2>3, <2>4
<1>10. Shows(new, name, facts[name]) BY <1>1, <1>4, <1>5 DEF Shows
<1> QED BY <1>3, <1>4, <1>6, <1>7, <1>8, <1>9, <1>10 DEF MayFollow, new

\* A step of one bridge that changes neither the document nor its puts.
LEMMA BridgeChanges ==
    ASSUME ProgressInv, NEW name \in Runs,
           bridge' \in [Runs -> Bridges], confirmed' \in [Runs -> Nat], facts' \in [Runs -> Nat],
           \A other \in Runs : other # name =>
              bridge'[other] = bridge[other] /\ confirmed'[other] = confirmed[other] /\ facts'[other] = facts[other],
           facts[name] <= facts'[name],
           landed' \subseteq landed, UNCHANGED <<progress, etag, puts>>, now' \in Nat,
           bridge'[name].pc # "put", bridge'[name].pc # "idle" => bridge'[name].version = facts'[name],
           confirmed'[name] > 0 => Shows(progress, name, confirmed'[name])
    PROVE  ProgressInv'
<1>1. ProgressTyped' BY DEF ProgressInv, ProgressTyped
<1>2. \A document : document \in Documents /\ IsTrue(document) => IsTrue(document)'
  <2>1. SUFFICES ASSUME NEW document \in Documents, IsTrue(document), NEW entry \in document.runs
                 PROVE  entry.version <= facts'[entry.run]
    BY DEF IsTrue
  <2>2. entry.version \in Nat /\ entry.run \in Runs BY DEF Documents
  <2>3. facts[entry.run] \in Nat /\ facts'[entry.run] \in Nat BY <2>2 DEF ProgressInv, ProgressTyped
  <2>4. facts[entry.run] <= facts'[entry.run] BY <2>2, <2>3
  <2>5. entry.version <= facts[entry.run] BY <2>1 DEF IsTrue
  <2> QED BY <2>2, <2>3, <2>4, <2>5
<1>3. IsTrue(progress)' /\ OneEntryPerRun(progress)'
  BY <1>2 DEF ProgressInv, ProgressTyped, OneEntryPerRun, IsTrue
<1>4. PutsAreSound'
  <2>1. \A put \in puts : put.content \in Documents BY DEF ProgressInv, ProgressTyped, Publishings
  <2>2. \A put \in puts : MayFollow(put.content) => MayFollow(put.content)'
    BY <1>2, <2>1 DEF MayFollow, IsTrue, OneEntryPerRun, Includes, Shows
  <2> QED BY <2>2 DEF ProgressInv, PutsAreSound
<1>5. ASSUME NEW other \in Runs PROVE BridgeIsSound(other)'
  <2>1. CASE other = name BY <2>1 DEF BridgeIsSound, Shows
  <2>2. CASE other # name BY <2>2 DEF ProgressInv, BridgeIsSound, Shows
  <2> QED BY <2>1, <2>2
<1> QED BY <1>1, <1>3, <1>4, <1>5 DEF ProgressInv

\* A new put contains what is published and the run's own facts.
LEMMA PutSends ==
    ASSUME ProgressInv, NEW name \in Runs, readThenPut(name)
    PROVE  ProgressInv'
<1> DEFINE put == Store!Put(name, Replaced(progress, name, bridge[name].version))
<1>1. /\ bridge[name].pc = "read"
      /\ puts' = puts \cup {put} /\ landed' = {old \in landed : old.writer # put.writer}
      /\ bridge' = [bridge EXCEPT ![name].pc = "put", ![name].put = put]
      /\ UNCHANGED <<progress, etag, facts, confirmed, now>>
  BY DEF readThenPut, Store!Send
<1>2. ProgressTyped /\ bridge[name] \in Bridges /\ bridge[name].version = facts[name] /\ etag \in Nat
  BY <1>1 DEF ProgressInv, ProgressTyped, BridgeIsSound
<1>3. put.writer = name /\ put.seen = etag /\ put.content = Replaced(progress, name, facts[name])
  BY <1>2 DEF Store!Put
<1>4. put.content \in Documents /\ MayFollow(put.content) /\ Shows(put.content, name, facts[name])
  BY <1>3, ReplacedMayFollow
<1>5. put \in Publishings
  <2>1. put = [writer |-> name, seen |-> etag, content |-> put.content] BY DEF Store!Put
  <2> QED BY <1>2, <1>4, <2>1 DEF Publishings
<1> HIDE DEF put
<1>6. /\ bridge'[name] = [bridge[name] EXCEPT !.pc = "put", !.put = put]
      /\ \A other \in Runs : other # name => bridge'[other] = bridge[other]
  BY <1>1, <1>2 DEF ProgressTyped
<1>7. /\ bridge'[name].pc = "put" /\ bridge'[name].put = put
      /\ bridge'[name].version = facts[name] /\ bridge'[name] \in Bridges
  BY <1>2, <1>5, <1>6 DEF Bridges
<1>8. bridge' \in [Runs -> Bridges] BY <1>1, <1>2, <1>6, <1>7 DEF ProgressTyped
<1>9. ProgressTyped' BY <1>1, <1>2, <1>5, <1>8 DEF ProgressTyped
<1>10. IsTrue(progress)' /\ OneEntryPerRun(progress)'
  BY <1>1 DEF ProgressInv, IsTrue, OneEntryPerRun
<1>11. PutsAreSound'
  <2>1. PutsAreSound BY DEF ProgressInv
  <2>2. \A other \in puts' : other.seen <= etag /\ (other.seen = etag => MayFollow(other.content))
    BY <1>1, <1>2, <1>3, <1>4, <2>1 DEF PutsAreSound
  <2>3. \A document : MayFollow(document)' <=> MayFollow(document)
    BY <1>1 DEF MayFollow, IsTrue, OneEntryPerRun, Includes, Shows
  <2>4. \A old \in landed' : old.seen < etag BY <1>1, <2>1 DEF PutsAreSound
  <2>5. etag' = etag BY <1>1
  <2> QED BY <2>2, <2>3, <2>4, <2>5 DEF PutsAreSound, MayFollow, IsTrue, Includes, Shows, OneEntryPerRun
<1>12. ASSUME NEW other \in Runs PROVE BridgeIsSound(other)'
  <2>1. CASE other = name
    <3>1. put \notin landed' BY <1>1
    <3>2. confirmed[name] > 0 => Shows(progress, name, confirmed[name])
      BY DEF ProgressInv, BridgeIsSound
    <3>3. UNCHANGED <<progress, etag, facts, confirmed>> BY <1>1
    <3>4. put.seen <= etag BY <1>2, <1>3
    <3> QED BY <1>3, <1>4, <1>5, <1>7, <2>1, <3>1, <3>2, <3>3, <3>4 DEF BridgeIsSound, Shows
  <2>2. CASE other # name
    <3>1. BridgeIsSound(other) /\ bridge'[other] = bridge[other] /\ landed' \subseteq landed
      BY <1>1, <1>6, <2>2 DEF ProgressInv
    <3> QED BY <1>1, <3>1 DEF BridgeIsSound, Shows
  <2> QED BY <2>1, <2>2
<1> QED BY <1>9, <1>10, <1>11, <1>12 DEF ProgressInv

\* A put takes effect: what was published stays, and what its bridge waits for
\* is published.
LEMMA LandingFollows ==
    ASSUME ProgressInv, NEW put \in puts, Store!Lands(put), UNCHANGED <<facts, bridge, confirmed, now>>
    PROVE  ProgressInv' /\ Includes(progress', progress) /\ progress'.revision > progress.revision
<1>1. /\ put.seen = etag /\ puts' = {} /\ progress' = put.content
      /\ etag' = etag + 1 /\ landed' = landed \cup {put}
  BY DEF Store!Lands
<1>2. ProgressTyped /\ put \in Publishings /\ put.content \in Documents /\ etag \in Nat
  BY DEF ProgressInv, ProgressTyped, Publishings
<1>3. MayFollow(put.content) BY <1>1 DEF ProgressInv, PutsAreSound
<1>4. Includes(progress', progress) /\ progress'.revision > progress.revision
  BY <1>1, <1>3 DEF MayFollow
<1>5. ProgressTyped' BY <1>1, <1>2 DEF ProgressTyped
<1>6. IsTrue(progress)' /\ OneEntryPerRun(progress)'
  BY <1>1, <1>3 DEF MayFollow, IsTrue, OneEntryPerRun
<1>7. PutsAreSound'
  <2>1. \A other \in landed : other.seen \in Nat /\ other.seen < etag
    BY <1>2 DEF ProgressInv, PutsAreSound, ProgressTyped, Publishings
  <2> QED BY <1>1, <1>2, <2>1 DEF PutsAreSound
<1>8. ASSUME NEW name \in Runs, NEW least \in Nat, Shows(progress, name, least)
      PROVE  Shows(progress', name, least)
  <2>1. PICK entry \in progress.runs : entry.run = name /\ least <= entry.version
    BY <1>8 DEF Shows
  <2>2. PICK new \in progress'.runs : new.run = entry.run /\ entry.version <= new.version
    BY <1>4 DEF Includes, Shows
  <2>3. entry.version \in Nat /\ new.version \in Nat
    BY <1>1, <1>2 DEF ProgressTyped, Documents
  <2> QED BY <2>1, <2>2, <2>3 DEF Shows
<1>9. ASSUME NEW name \in Runs PROVE BridgeIsSound(name)'
  <2>1. BridgeIsSound(name) /\ bridge' = bridge /\ facts' = facts /\ confirmed' = confirmed
    BY DEF ProgressInv
  <2>2. bridge[name] \in Bridges /\ bridge[name].version \in Nat /\ confirmed[name] \in Nat
    BY <1>2 DEF ProgressTyped, Bridges
  <2>3. confirmed[name] > 0 => Shows(progress', name, confirmed[name])
    BY <1>8, <2>1, <2>2 DEF BridgeIsSound
  <2>4. ASSUME bridge[name].pc = "put"
        PROVE  /\ bridge[name].put.seen <= etag + 1
               /\ bridge[name].put \in landed' => Shows(progress', name, bridge[name].version)
    <3>1. /\ bridge[name].put \in Publishings /\ bridge[name].put.seen <= etag
          /\ Shows(bridge[name].put.content, name, bridge[name].version)
      BY <2>1, <2>4 DEF BridgeIsSound
    <3>2. bridge[name].put.seen \in Nat BY <3>1 DEF Publishings
    <3>3. bridge[name].put \in landed => Shows(progress', name, bridge[name].version)
      BY <1>8, <2>1, <2>2, <2>4 DEF BridgeIsSound
    <3> QED BY <1>1, <1>2, <3>1, <3>2, <3>3
  <2> QED BY <1>1, <2>1, <2>3, <2>4 DEF BridgeIsSound, Shows
<1> QED BY <1>4, <1>5, <1>6, <1>7, <1>9 DEF ProgressInv

\* A step changes the document as far as the last put allows, and confirms
\* what is published.
LEMMA ProgressStepKeeps ==
    ASSUME ProgressInv, [Next]_<<qvars, pvars, bvars, part>>
    PROVE  /\ ProgressInv'
           /\ progress' = progress \/ (Includes(progress', progress) /\ progress'.revision > progress.revision)
<1>1. CASE UNCHANGED pvars
  <2>1. UNCHANGED <<progress, etag, puts, landed, facts, bridge, confirmed, now>>
    BY <1>1 DEF pvars, store
  <2>2. ProgressTyped' BY <2>1 DEF ProgressInv, ProgressTyped
  <2>3. IsTrue(progress)' /\ OneEntryPerRun(progress)' BY <2>1 DEF ProgressInv, IsTrue, OneEntryPerRun
  <2>4. PutsAreSound'
    BY <2>1 DEF ProgressInv, PutsAreSound, MayFollow, IsTrue, OneEntryPerRun, Includes, Shows
  <2>5. \A name \in Runs : BridgeIsSound(name)' BY <2>1 DEF ProgressInv, BridgeIsSound, Shows
  <2> QED BY <2>1, <2>2, <2>3, <2>4, <2>5 DEF ProgressInv
<1>2. CASE PNext
  <2>1. /\ bridge \in [Runs -> Bridges] /\ facts \in [Runs -> Nat] /\ confirmed \in [Runs -> Nat]
        /\ now \in Nat /\ \A name \in Runs : bridge[name] \in Bridges /\ BridgeIsSound(name)
    BY DEF ProgressInv, ProgressTyped
  <2>2. Resting \in Bridges /\ Resting.pc = "idle" BY DEF Resting, Bridges
  <2>3. ASSUME NEW name \in Runs, steps(name) PROVE ProgressInv' /\ progress' = progress
    <3>1. /\ bridge[name].pc = "idle" /\ facts' = [facts EXCEPT ![name] = @ + 1]
          /\ UNCHANGED <<progress, etag, puts, landed, bridge, confirmed, now>>
      BY <2>3 DEF steps, store
    <3>2. /\ facts' \in [Runs -> Nat] /\ facts[name] <= facts'[name]
          /\ \A other \in Runs : other # name => facts'[other] = facts[other]
      BY <2>1, <3>1
    <3>3. confirmed'[name] > 0 => Shows(progress, name, confirmed'[name])
      BY <2>1, <3>1 DEF BridgeIsSound
    <3> QED BY <2>1, <3>1, <3>2, <3>3, BridgeChanges
  <2>4. ASSUME NEW name \in Runs, publish(name) PROVE ProgressInv' /\ progress' = progress
    <3> DEFINE new == [Resting EXCEPT !.pc = "read", !.version = facts[name]]
    <3>1. /\ bridge' = [bridge EXCEPT ![name] = new]
          /\ UNCHANGED <<progress, etag, puts, landed, facts, confirmed, now>>
      BY <2>4 DEF publish, store
    <3>2. new \in Bridges /\ new.pc = "read" /\ new.version = facts[name]
      BY <2>1 DEF Resting, Bridges
    <3> HIDE DEF new
    <3>3. /\ bridge' \in [Runs -> Bridges] /\ bridge'[name] = new
          /\ \A other \in Runs : other # name => bridge'[other] = bridge[other]
      BY <2>1, <3>1, <3>2
    <3>4. confirmed'[name] > 0 => Shows(progress, name, confirmed'[name])
      BY <2>1, <3>1 DEF BridgeIsSound
    <3>5. facts[name] <= facts'[name] BY <2>1, <3>1
    <3> QED BY <2>1, <3>1, <3>2, <3>3, <3>4, <3>5, BridgeChanges
  <2>5. ASSUME NEW name \in Runs, NEW known, Over(name, known),
               known => Shows(progress, name, bridge[name].version)
        PROVE  ProgressInv' /\ progress' = progress
    <3>1. /\ bridge' = [bridge EXCEPT ![name] = Resting]
          /\ confirmed' = [confirmed EXCEPT ![name] = IF known THEN bridge[name].version ELSE @]
          /\ landed' \subseteq landed
          /\ UNCHANGED <<progress, etag, puts, facts, now>>
      BY <2>5 DEF Over, Store!Forget
    <3>2. /\ bridge' \in [Runs -> Bridges] /\ bridge'[name] = Resting
          /\ \A other \in Runs : other # name => bridge'[other] = bridge[other]
      BY <2>1, <2>2, <3>1
    <3>3. bridge[name].version \in Nat BY <2>1 DEF Bridges
    <3>4. /\ confirmed' \in [Runs -> Nat]
          /\ confirmed'[name] = (IF known THEN bridge[name].version ELSE confirmed[name])
          /\ \A other \in Runs : other # name => confirmed'[other] = confirmed[other]
      BY <2>1, <3>1, <3>3
    <3>5. confirmed'[name] > 0 => Shows(progress, name, confirmed'[name])
      BY <2>1, <2>5, <3>4 DEF BridgeIsSound
    <3>6. facts[name] <= facts'[name] BY <2>1, <3>1
    <3> QED BY <2>1, <2>2, <3>1, <3>2, <3>4, <3>5, <3>6, BridgeChanges
  <2>6. ASSUME NEW name \in Runs, putConfirmed(name) PROVE ProgressInv' /\ progress' = progress
    <3>1. bridge[name].pc = "put" /\ bridge[name].put \in landed /\ Over(name, TRUE)
      BY <2>6 DEF putConfirmed
    <3> QED BY <2>1, <2>5, <3>1 DEF BridgeIsSound
  <2>7. ASSUME NEW name \in Runs, putFails(name), ~Over(name, FALSE)
        PROVE  ProgressInv' /\ progress' = progress
    <3>1. /\ bridge[name].pc = "put" /\ bridge' = [bridge EXCEPT ![name].pc = "read", ![name].attempt = @ + 1]
          /\ UNCHANGED <<progress, etag, puts, landed, facts, confirmed, now>>
      BY <2>7 DEF putFails, store
    <3>2. /\ bridge'[name] = [bridge[name] EXCEPT !.pc = "read", !.attempt = @ + 1]
          /\ \A other \in Runs : other # name => bridge'[other] = bridge[other]
      BY <2>1, <3>1
    <3> DEFINE more == bridge[name].attempt + 1
    <3>3. /\ bridge'[name] \in Bridges /\ bridge'[name].pc = "read"
          /\ bridge'[name].version = bridge[name].version
      <4>1. bridge[name] \in Bridges /\ more \in Nat BY <2>1 DEF Bridges
      <4>2. bridge'[name] = [bridge[name] EXCEPT !.pc = "read", !.attempt = more] BY <3>2
      <4> HIDE DEF more
      <4> QED BY <4>1, <4>2 DEF Bridges
    <3>4. bridge' \in [Runs -> Bridges] BY <2>1, <3>1, <3>2, <3>3
    <3>5. /\ bridge[name].version = facts[name]
          /\ confirmed'[name] > 0 => Shows(progress, name, confirmed'[name])
      BY <2>1, <3>1 DEF BridgeIsSound
    <3>6. facts[name] <= facts'[name] BY <2>1, <3>1
    <3> QED BY <2>1, <3>1, <3>2, <3>3, <3>4, <3>5, <3>6, BridgeChanges
  <2>8. ASSUME tick PROVE ProgressInv' /\ progress' = progress
    <3>1. now' = now + 1 /\ UNCHANGED <<progress, etag, puts, landed, facts, bridge, confirmed>>
      BY <2>8 DEF tick, store
    <3>2. ProgressTyped' BY <2>1, <3>1 DEF ProgressInv, ProgressTyped
    <3>3. IsTrue(progress)' /\ OneEntryPerRun(progress)' BY <3>1 DEF ProgressInv, IsTrue, OneEntryPerRun
    <3>4. PutsAreSound'
      BY <3>1 DEF ProgressInv, PutsAreSound, MayFollow, IsTrue, OneEntryPerRun, Includes, Shows
    <3>5. \A name \in Runs : BridgeIsSound(name)' BY <3>1 DEF ProgressInv, BridgeIsSound, Shows
    <3> QED BY <3>1, <3>2, <3>3, <3>4, <3>5 DEF ProgressInv
  <2>9. ASSUME NEW name \in Runs, readFails(name) \/ dies(name) PROVE ProgressInv' /\ progress' = progress
    BY <2>5, <2>9 DEF readFails, dies
  <2>10. ASSUME NEW name \in Runs, putFails(name) PROVE ProgressInv' /\ progress' = progress
    BY <2>5, <2>7, <2>10
  <2>11. ASSUME NEW name \in Runs, readThenPut(name) PROVE ProgressInv' /\ progress' = progress
    BY <2>11, PutSends DEF readThenPut, Store!Send
  <2>12. ASSUME putLands PROVE ProgressInv' /\ Includes(progress', progress) /\ progress'.revision > progress.revision
    BY <2>12, LandingFollows DEF putLands
  <2> QED BY <1>2, <2>3, <2>4, <2>6, <2>8, <2>9, <2>10, <2>11, <2>12 DEF PNext
<1> QED BY <1>1, <1>2 DEF Next

\* What the site shows is what the document's entries show.
LEMMA PublishedShows ==
    ASSUME NEW document \in Documents, NEW name, NEW least
    PROVE  (\E new \in {entry.version : entry \in {entry \in document.runs : entry.run = name}} : least <= new)
           <=> Shows(document, name, least)
BY DEF Shows

\* Through retries, late writes and restarted bridges, what the site shows of a
\* run never goes back, a confirmed publication is not lost to another run's
\* bridge, and each change has a later revision (runs.ts:15-20).
THEOREM PublicationsStand == Spec => PublishedStands
<1>1. Init => ProgressInv BY ProgressStarts DEF Init
<1>2. ProgressInv /\ [Next]_<<qvars, pvars, bvars, part>> => ProgressInv' BY ProgressStepKeeps
<1>3. ProgressInv /\ [Next]_<<qvars, pvars, bvars, part>> => [Stands]_pvars
  <2> SUFFICES ASSUME ProgressInv, [Next]_<<qvars, pvars, bvars, part>> PROVE Stands
    OBVIOUS
  <2>1. /\ ProgressInv'
        /\ progress' = progress \/ (Includes(progress', progress) /\ progress'.revision > progress.revision)
    BY ProgressStepKeeps
  <2>2. progress \in Documents /\ progress' \in Documents BY <2>1 DEF ProgressInv, ProgressTyped
  <2>3. Includes(progress', progress)
    <3>1. \A entry \in progress.runs : entry.version \in Nat BY <2>2 DEF Documents
    <3> QED BY <2>1, <3>1 DEF Includes, Shows
  <2>4. ASSUME NEW name \in Runs, NEW old \in Published(name)
        PROVE  \E new \in Published(name)' : old <= new
    <3>1. PICK entry \in progress.runs : entry.run = name /\ entry.version = old
      BY DEF Published
    <3>2. Shows(progress', name, old) BY <2>3, <3>1 DEF Includes
    <3> QED BY <2>2, <3>2, PublishedShows DEF Published
  <2>5. ASSUME NEW name \in Runs, confirmed'[name] > 0
        PROVE  \E new \in Published(name)' : confirmed'[name] <= new
    <3>1. Shows(progress', name, confirmed'[name])
      BY <2>1, <2>5 DEF ProgressInv, BridgeIsSound, Shows
    <3> QED BY <2>2, <3>1, PublishedShows DEF Published
  <2>6. ASSUME NEW name \in Runs, NEW new \in Published(name)' PROVE new <= facts'[name]
    <3>1. PICK entry \in progress'.runs : entry.run = name /\ entry.version = new
      BY DEF Published
    <3> QED BY <2>1, <3>1 DEF ProgressInv, IsTrue
  <2>7. \A one, other \in progress'.runs : one.run = other.run => one = other
    BY <2>1 DEF ProgressInv, OneEntryPerRun
  <2> QED BY <2>1, <2>4, <2>5, <2>6, <2>7 DEF Stands
<1> QED BY <1>1, <1>2, <1>3, PTL DEF Spec, PublishedStands

-----------------------------------------------------------------------------
(* The budget. A call is paid for when its write has taken effect, and made *)
(* later; what is made and what is paid for is on the shared count.         *)
Totals == [total : Nat, hours : [Hours -> Nat], sessions : [Sessions -> Nat]]
Countings == [writer : Callers, seen : Nat, content : Totals]
Reservations ==
    [pc : {"idle", "read", "put"}, session : Sessions \cup {"none"}, hour : Hours,
     attempt : Nat, put : Countings \cup {NoWrite}]

BudgetTyped ==
    /\ counts \in Totals /\ version \in Nat /\ hour \in Hours
    /\ writes \subseteq Countings /\ done \subseteq Countings
    /\ caller \in [Callers -> Reservations]

Paying == {c \in Callers : caller[c].pc = "put" /\ caller[c].put \in done}
PayingIn(h) == {c \in Paying : caller[c].hour = h}
PayingFor(s) == {c \in Paying : caller[c].session = s}
CallsIn(h) == {call \in granted : call.hour = h}
CallsFor(s) == {call \in granted : call.session = s}

Covered(calls, paying, sum) ==
    /\ IsFiniteSet(calls) /\ IsFiniteSet(paying)
    /\ Cardinality(calls) + Cardinality(paying) <= sum

AllCovered ==
    /\ Covered(granted, Paying, counts.total)
    /\ \A h \in Hours : Covered(CallsIn(h), PayingIn(h), counts.hours[h])
    /\ \A s \in Sessions : Covered(CallsFor(s), PayingFor(s), counts.sessions[s])

\* The calls are numbered from one.
Numbered == \A call \in granted : call.nr \in Nat /\ call.nr <= Cardinality(granted)

\* A total that counts at least what another counts, within the limits.
AtLeast(new, old) ==
    /\ old.total <= new.total
    /\ \A h \in Hours : old.hours[h] <= new.hours[h]
    /\ \A s \in Sessions : old.sessions[s] <= new.sessions[s]

WithinLimits(total) ==
    /\ total.total <= Limit.total
    /\ \A h \in Hours : total.hours[h] <= Limit.hour
    /\ \A s \in Sessions : total.sessions[s] <= Limit.session

\* A write that can still take effect leaves out no call counted so far, and
\* is within the limits; a write that took effect has an older etag.
WritesAreSound ==
    /\ \A put \in writes : put.seen <= version
    /\ \A put \in writes : put.seen = version => AtLeast(put.content, counts) /\ WithinLimits(put.content)
    /\ \A put \in done : put.seen < version

\* The write a reservation waits for is its own and counts its call.
CallerIsSound(c) ==
    /\ caller[c].pc # "idle" => caller[c].session \in Sessions
    /\ caller[c].pc = "put" =>
          /\ caller[c].put \in Countings /\ caller[c].put.writer = c /\ caller[c].put.seen <= version
          /\ caller[c].put.seen = version => caller[c].put.content = Counted(c)

BudgetInv ==
    /\ BudgetTyped /\ AllCovered /\ Numbered /\ WritesAreSound /\ WithinLimits(counts)
    /\ \A c \in Callers : CallerIsSound(c)

-----------------------------------------------------------------------------
(* What is covered stays covered.                                           *)
LEMMA CoveredLess ==
    ASSUME NEW calls, NEW paying, NEW sum \in Nat, NEW fewer, NEW more \in Nat,
           Covered(calls, paying, sum), fewer \subseteq paying, sum <= more
    PROVE  Covered(calls, fewer, more)
<1>1. IsFiniteSet(fewer) /\ Cardinality(fewer) <= Cardinality(paying)
  BY FS_Subset DEF Covered
<1>2. Cardinality(calls) \in Nat /\ Cardinality(fewer) \in Nat /\ Cardinality(paying) \in Nat
  BY <1>1, FS_CardinalityType DEF Covered
<1> QED BY <1>1, <1>2 DEF Covered

LEMMA CoveredOneMore ==
    ASSUME NEW calls, NEW paying, NEW sum \in Nat, NEW next, NEW c,
           Covered(calls, paying, sum), next \subseteq paying \cup {c}
    PROVE  Covered(calls, next, sum + 1)
<1>1. IsFiniteSet(paying) /\ IsFiniteSet(calls) BY DEF Covered
<1>2. IsFiniteSet(paying \cup {c}) /\ Cardinality(paying \cup {c}) <= Cardinality(paying) + 1
  <2>1. /\ IsFiniteSet(paying \cup {c})
        /\ Cardinality(paying \cup {c}) = Cardinality(paying) \/ Cardinality(paying \cup {c}) = Cardinality(paying) + 1
    BY <1>1, FS_AddElement
  <2>2. Cardinality(paying) \in Nat BY <1>1, FS_CardinalityType
  <2> QED BY <2>1, <2>2
<1>3. IsFiniteSet(next) /\ Cardinality(next) <= Cardinality(paying \cup {c}) BY <1>2, FS_Subset
<1>4. /\ Cardinality(calls) \in Nat /\ Cardinality(paying) \in Nat /\ Cardinality(next) \in Nat
      /\ Cardinality(paying \cup {c}) \in Nat
  BY <1>1, <1>2, <1>3, FS_CardinalityType
<1>5. Cardinality(calls) + Cardinality(paying) <= sum BY DEF Covered
<1>6. Cardinality(calls) + Cardinality(next) <= sum + 1 BY <1>2, <1>3, <1>4, <1>5
<1> QED BY <1>1, <1>3, <1>6 DEF Covered

LEMMA CoveredMoves ==
    ASSUME NEW calls, NEW paying, NEW sum \in Nat, NEW call, NEW c \in paying,
           Covered(calls, paying, sum)
    PROVE  Covered(calls \cup {call}, paying \ {c}, sum)
<1>1. IsFiniteSet(paying) /\ IsFiniteSet(calls) BY DEF Covered
<1>2. IsFiniteSet(paying \ {c}) /\ Cardinality(paying \ {c}) = Cardinality(paying) - 1
  BY <1>1, FS_RemoveElement
<1>3. /\ IsFiniteSet(calls \cup {call})
      /\ Cardinality(calls \cup {call}) = Cardinality(calls) \/ Cardinality(calls \cup {call}) = Cardinality(calls) + 1
  BY <1>1, FS_AddElement
<1>4. Cardinality(calls) \in Nat /\ Cardinality(paying) \in Nat BY <1>1, FS_CardinalityType
<1>5. Cardinality(calls) + Cardinality(paying) <= sum BY DEF Covered
<1>6. Cardinality(calls \cup {call}) + Cardinality(paying \ {c}) <= sum BY <1>2, <1>3, <1>4, <1>5
<1> QED BY <1>2, <1>3, <1>6 DEF Covered

-----------------------------------------------------------------------------
LEMMA BudgetStarts == BInit => BudgetInv
<1> SUFFICES ASSUME BInit PROVE BudgetInv
  OBVIOUS
<1>1. /\ counts = Zero /\ version = 0 /\ writes = {} /\ done = {} /\ hour = 0
      /\ caller = [c \in Callers |-> Quiet] /\ granted = {}
  BY DEF BInit
<1>2. 0 \in Hours BY BudgetAssumption DEF Hours
<1>3. Zero \in Totals BY DEF Zero, Totals
<1>4. Quiet \in Reservations BY <1>2 DEF Quiet, Reservations
<1>5. BudgetTyped BY <1>1, <1>2, <1>3, <1>4 DEF BudgetTyped
<1>6. \A c \in Callers : caller[c].pc = "idle" BY <1>1 DEF Quiet
<1>7. /\ Paying = {} /\ \A h : PayingIn(h) = {} /\ CallsIn(h) = {}
      /\ \A s : PayingFor(s) = {} /\ CallsFor(s) = {}
  BY <1>1, <1>6 DEF Paying, PayingIn, PayingFor, CallsIn, CallsFor
<1>8. Covered({}, {}, 0) BY FS_EmptySet DEF Covered
<1>9. AllCovered BY <1>1, <1>7, <1>8 DEF AllCovered, Zero
<1>10. WithinLimits(counts) BY <1>1, BudgetAssumption DEF WithinLimits, Zero
<1>11. Numbered /\ WritesAreSound BY <1>1 DEF Numbered, WritesAreSound
<1>12. \A c \in Callers : CallerIsSound(c) BY <1>6 DEF CallerIsSound
<1> QED BY <1>5, <1>9, <1>10, <1>11, <1>12 DEF BudgetInv

LEMMA CountedAdds ==
    ASSUME BudgetTyped, NEW c \in Callers, caller[c].session \in Sessions
    PROVE  LET h == caller[c].hour  s == caller[c].session
           IN  /\ Counted(c) \in Totals
               /\ Counted(c).total = counts.total + 1
               /\ Counted(c).hours[h] = counts.hours[h] + 1
               /\ \A other \in Hours : other # h => Counted(c).hours[other] = counts.hours[other]
               /\ Counted(c).sessions[s] = counts.sessions[s] + 1
               /\ \A other \in Sessions : other # s => Counted(c).sessions[other] = counts.sessions[other]
<1>1. counts \in Totals /\ caller[c].hour \in Hours BY DEF BudgetTyped, Reservations
<1>2. counts.hours \in [Hours -> Nat] /\ counts.sessions \in [Sessions -> Nat] /\ counts.total \in Nat
  BY <1>1 DEF Totals
<1> DEFINE hs == [counts.hours EXCEPT ![caller[c].hour] = @ + 1]
           ss == [counts.sessions EXCEPT ![caller[c].session] = @ + 1]
<1>3. Counted(c) = [total |-> counts.total + 1, hours |-> hs, sessions |-> ss]
  BY <1>1, <1>2 DEF Counted, Totals
<1>4. hs \in [Hours -> Nat] /\ ss \in [Sessions -> Nat] BY <1>1, <1>2
<1>5. Counted(c).total = counts.total + 1 /\ Counted(c).hours = hs /\ Counted(c).sessions = ss
  BY <1>3
<1>6. Counted(c) \in Totals BY <1>2, <1>3, <1>4 DEF Totals
<1> QED BY <1>1, <1>2, <1>5, <1>6

\* A reservation that ends without a call leaves the rest as it was.
LEMMA CallerChanges ==
    ASSUME BudgetInv, NEW c \in Callers, caller' \in [Callers -> Reservations],
           \A other \in Callers : other # c => caller'[other] = caller[other],
           caller'[c].pc # "put", caller'[c].pc # "idle" => caller'[c].session \in Sessions,
           done' \subseteq done,
           UNCHANGED <<counts, version, writes, hour, granted>>
    PROVE  BudgetInv'
<1>1. caller' \in [Callers -> Reservations]
      /\ \A other \in Callers : other # c => caller'[other] = caller[other]
  OBVIOUS
<1>2. done' \subseteq done
  OBVIOUS
<1>3. BudgetTyped' BY <1>1, <1>2 DEF BudgetInv, BudgetTyped
<1>4. Paying' \subseteq Paying BY <1>1, <1>2 DEF Paying
<1>5. \A h : PayingIn(h)' \subseteq PayingIn(h) /\ CallsIn(h)' = CallsIn(h)
  BY <1>1, <1>4 DEF PayingIn, CallsIn, Paying
<1>6. \A s : PayingFor(s)' \subseteq PayingFor(s) /\ CallsFor(s)' = CallsFor(s)
  BY <1>1, <1>4 DEF PayingFor, CallsFor, Paying
<1>7. AllCovered'
  <2>1. /\ counts' = counts /\ granted' = granted /\ counts.total \in Nat
        /\ \A h \in Hours : counts.hours[h] \in Nat
        /\ \A s \in Sessions : counts.sessions[s] \in Nat
    BY DEF BudgetInv, BudgetTyped, Totals
  <2>2. Covered(granted, Paying', counts.total)
    BY <1>4, <2>1, CoveredLess DEF BudgetInv, AllCovered
  <2>3. \A h \in Hours : Covered(CallsIn(h), PayingIn(h)', counts.hours[h])
    BY <1>5, <2>1, CoveredLess DEF BudgetInv, AllCovered
  <2>4. \A s \in Sessions : Covered(CallsFor(s), PayingFor(s)', counts.sessions[s])
    BY <1>6, <2>1, CoveredLess DEF BudgetInv, AllCovered
  <2> QED BY <1>5, <1>6, <2>1, <2>2, <2>3, <2>4 DEF AllCovered
<1>8. Numbered' BY DEF BudgetInv, Numbered
<1>9. WritesAreSound' BY <1>2 DEF BudgetInv, WritesAreSound, AtLeast, WithinLimits
<1>10. WithinLimits(counts)' BY DEF BudgetInv, WithinLimits
<1>11. ASSUME NEW other \in Callers PROVE CallerIsSound(other)'
  <2>1. CASE other = c BY <1>1, <2>1 DEF CallerIsSound
  <2>2. CASE other # c
    BY <1>1, <2>2 DEF BudgetInv, CallerIsSound, Counted
  <2> QED BY <2>1, <2>2
<1> QED BY <1>3, <1>7, <1>8, <1>9, <1>10, <1>11 DEF BudgetInv

\* A new write counts one more call, within the limits.
LEMMA CountSends ==
    ASSUME BudgetInv, NEW c \in Callers, count(c)
    PROVE  BudgetInv'
<1> DEFINE put == Budget!Put(c, Counted(c))
<1>1. /\ caller[c].pc = "read" /\ ~Exhausted(c)
      /\ writes' = writes \cup {put} /\ done' = {old \in done : old.writer # put.writer}
      /\ caller' = [caller EXCEPT ![c].pc = "put", ![c].put = put]
      /\ UNCHANGED <<counts, version, hour, granted>>
  BY DEF count, Budget!Send
<1>2. BudgetTyped /\ caller[c] \in Reservations /\ caller[c].session \in Sessions /\ CallerIsSound(c)
  BY <1>1 DEF BudgetInv, BudgetTyped, CallerIsSound
<1>3. put.writer = c /\ put.seen = version /\ put.content = Counted(c) BY DEF Budget!Put
<1>4. put \in Countings
  <2>1. Counted(c) \in Totals BY <1>2, CountedAdds
  <2>2. version \in Nat BY <1>2 DEF BudgetTyped
  <2> QED BY <2>1, <2>2 DEF Countings, Budget!Put
<1> HIDE DEF put
<1>5. /\ caller'[c] = [caller[c] EXCEPT !.pc = "put", !.put = put]
      /\ \A other \in Callers : other # c => caller'[other] = caller[other]
  BY <1>1, <1>2 DEF BudgetTyped
<1>6. /\ caller'[c].pc = "put" /\ caller'[c].put = put /\ caller'[c].hour = caller[c].hour
      /\ caller'[c].session = caller[c].session /\ caller'[c] \in Reservations
  BY <1>2, <1>4, <1>5 DEF Reservations
<1>7. BudgetTyped'
  <2>1. caller' \in [Callers -> Reservations] BY <1>1, <1>2, <1>5, <1>6 DEF BudgetTyped
  <2> QED BY <1>1, <1>2, <1>4, <2>1 DEF BudgetTyped
<1>8. /\ counts.total \in Nat
      /\ \A h \in Hours : counts.hours[h] \in Nat
      /\ \A s \in Sessions : counts.sessions[s] \in Nat
  BY <1>2 DEF BudgetTyped, Totals
<1>9. put \notin done' BY <1>1
<1>10. c \notin Paying' BY <1>6, <1>9 DEF Paying
<1>11. Paying' \subseteq Paying
  <2>1. done' \subseteq done BY <1>1
  <2> QED BY <1>5, <1>10, <2>1 DEF Paying
<1>12. \A h : PayingIn(h)' \subseteq PayingIn(h) /\ CallsIn(h)' = CallsIn(h)
  BY <1>1, <1>5, <1>10, <1>11 DEF PayingIn, CallsIn, Paying
<1>13. \A s : PayingFor(s)' \subseteq PayingFor(s) /\ CallsFor(s)' = CallsFor(s)
  BY <1>1, <1>5, <1>10, <1>11 DEF PayingFor, CallsFor, Paying
<1>14. AllCovered'
  <2>1. counts' = counts /\ granted' = granted BY <1>1
  <2>2. Covered(granted, Paying', counts.total)
    BY <1>8, <1>11, CoveredLess DEF BudgetInv, AllCovered
  <2>3. \A h \in Hours : Covered(CallsIn(h), PayingIn(h)', counts.hours[h])
    BY <1>8, <1>12, CoveredLess DEF BudgetInv, AllCovered
  <2>4. \A s \in Sessions : Covered(CallsFor(s), PayingFor(s)', counts.sessions[s])
    BY <1>8, <1>13, CoveredLess DEF BudgetInv, AllCovered
  <2> QED BY <1>12, <1>13, <2>1, <2>2, <2>3, <2>4 DEF AllCovered
<1>15. Numbered' BY <1>1 DEF BudgetInv, Numbered
<1>16. WithinLimits(counts)' BY <1>1 DEF BudgetInv, WithinLimits
<1>17. AtLeast(put.content, counts) /\ WithinLimits(put.content)
  <2> DEFINE h == caller[c].hour
             s == caller[c].session
  <2>1. h \in Hours /\ s \in Sessions BY <1>2 DEF Reservations
  <2>2. /\ counts.total + 1 <= Limit.total /\ counts.hours[h] + 1 <= Limit.hour
        /\ counts.sessions[s] + 1 <= Limit.session
    BY <1>1, <1>8, <2>1, BudgetAssumption DEF Exhausted
  <2>3. /\ Counted(c).total = counts.total + 1
        /\ Counted(c).hours[h] = counts.hours[h] + 1
        /\ \A other \in Hours : other # h => Counted(c).hours[other] = counts.hours[other]
        /\ Counted(c).sessions[s] = counts.sessions[s] + 1
        /\ \A other \in Sessions : other # s => Counted(c).sessions[other] = counts.sessions[other]
    BY <1>2, CountedAdds
  <2>4. WithinLimits(counts) BY DEF BudgetInv
  <2> HIDE DEF h, s
  <2>5. AtLeast(Counted(c), counts) BY <1>8, <2>1, <2>3 DEF AtLeast
  <2>6. WithinLimits(Counted(c)) BY <1>8, <2>1, <2>2, <2>3, <2>4 DEF WithinLimits
  <2> QED BY <1>3, <2>5, <2>6
<1>18. WritesAreSound'
  <2>1. \A other \in writes' : other = put \/ other \in writes BY <1>1
  <2>2. WritesAreSound BY DEF BudgetInv
  <2>3. version \in Nat BY <1>2 DEF BudgetTyped
  <2>4. \A other \in done' : other.seen < version BY <1>1, <2>2 DEF WritesAreSound
  <2>5. \A other \in writes' :
           other.seen <= version
           /\ (other.seen = version => AtLeast(other.content, counts) /\ WithinLimits(other.content))
    BY <1>3, <1>17, <2>1, <2>2, <2>3 DEF WritesAreSound
  <2>6. version' = version /\ counts' = counts BY <1>1
  <2> QED BY <2>4, <2>5, <2>6 DEF WritesAreSound, AtLeast, WithinLimits
<1>19. ASSUME NEW other \in Callers PROVE CallerIsSound(other)'
  <2>1. CASE other = c
    <3>1. Counted(c)' = Counted(c) BY <1>1, <1>6 DEF Counted
    <3>2. version \in Nat BY <1>2 DEF BudgetTyped
    <3> QED BY <1>1, <1>2, <1>3, <1>4, <1>6, <2>1, <3>1, <3>2 DEF CallerIsSound
  <2>2. CASE other # c
    <3>1. caller'[other] = caller[other] BY <1>5, <2>2
    <3>2. Counted(other)' = Counted(other) BY <1>1, <3>1 DEF Counted
    <3> QED BY <1>1, <3>1, <3>2 DEF BudgetInv, CallerIsSound
  <2> QED BY <2>1, <2>2
<1> QED BY <1>7, <1>14, <1>15, <1>16, <1>18, <1>19 DEF BudgetInv

\* A paid call is made: it was covered before.
LEMMA GrantMoves ==
    ASSUME BudgetInv, NEW c \in Callers, grant(c)
    PROVE  BudgetInv'
<1> DEFINE call == Paid(c)
<1>1. /\ caller[c].pc = "put" /\ caller[c].put \in done
      /\ caller' = [caller EXCEPT ![c] = Quiet]
      /\ granted' = granted \cup {call}
      /\ done' = {old \in done : old.writer # c}
      /\ UNCHANGED <<counts, version, writes, hour>>
  BY DEF grant, Answered, Budget!Forget
<1>2. BudgetTyped /\ caller[c] \in Reservations BY DEF BudgetInv, BudgetTyped
<1>3. call.nr = Cardinality(granted) + 1 /\ call.hour = caller[c].hour /\ call.session = caller[c].session
  BY DEF Paid
<1> HIDE DEF call
<1>4. caller'[c] = Quiet /\ \A other \in Callers : other # c => caller'[other] = caller[other]
  BY <1>1, <1>2 DEF BudgetTyped
<1>5. c \in Paying BY <1>1 DEF Paying
<1>6. Quiet.pc = "idle" /\ Quiet \in Reservations
  BY BudgetAssumption DEF Quiet, Reservations, Hours
<1>7. BudgetTyped'
  <2>1. caller' \in [Callers -> Reservations] BY <1>1, <1>2, <1>6 DEF BudgetTyped
  <2> QED BY <1>1, <1>2, <2>1 DEF BudgetTyped
<1>8. Paying' \subseteq Paying \ {c} BY <1>1, <1>4, <1>6 DEF Paying
<1>9. /\ counts.total \in Nat
      /\ \A h \in Hours : counts.hours[h] \in Nat
      /\ \A s \in Sessions : counts.sessions[s] \in Nat
  BY <1>2 DEF BudgetTyped, Totals
<1>10. AllCovered BY DEF BudgetInv
<1>11. Covered(granted', Paying', counts.total)
  <2>1. Covered(granted \cup {call}, Paying \ {c}, counts.total)
    BY <1>5, <1>9, <1>10, CoveredMoves DEF AllCovered
  <2> QED BY <1>1, <1>8, <1>9, <2>1, CoveredLess
<1>12. ASSUME NEW h \in Hours PROVE Covered(CallsIn(h)', PayingIn(h)', counts.hours[h])
  <2>1. Covered(CallsIn(h), PayingIn(h), counts.hours[h]) /\ counts.hours[h] \in Nat
    BY <1>9, <1>10 DEF AllCovered
  <2>2. PayingIn(h)' \subseteq PayingIn(h) \ {c} BY <1>4, <1>8 DEF PayingIn, Paying
  <2>3. CASE caller[c].hour = h
    <3>1. CallsIn(h)' = CallsIn(h) \cup {call} BY <1>1, <1>3, <2>3 DEF CallsIn
    <3>2. c \in PayingIn(h) BY <1>5, <2>3 DEF PayingIn
    <3>3. Covered(CallsIn(h) \cup {call}, PayingIn(h) \ {c}, counts.hours[h])
      BY <2>1, <3>2, CoveredMoves
    <3> QED BY <2>1, <2>2, <3>1, <3>3, CoveredLess
  <2>4. CASE caller[c].hour # h
    <3>1. CallsIn(h)' = CallsIn(h) BY <1>1, <1>3, <2>4 DEF CallsIn
    <3> QED BY <2>1, <2>2, <3>1, CoveredLess
  <2> QED BY <2>3, <2>4
<1>13. ASSUME NEW s \in Sessions PROVE Covered(CallsFor(s)', PayingFor(s)', counts.sessions[s])
  <2>1. Covered(CallsFor(s), PayingFor(s), counts.sessions[s]) /\ counts.sessions[s] \in Nat
    BY <1>9, <1>10 DEF AllCovered
  <2>2. PayingFor(s)' \subseteq PayingFor(s) \ {c} BY <1>4, <1>8 DEF PayingFor, Paying
  <2>3. CASE caller[c].session = s
    <3>1. CallsFor(s)' = CallsFor(s) \cup {call} BY <1>1, <1>3, <2>3 DEF CallsFor
    <3>2. c \in PayingFor(s) BY <1>5, <2>3 DEF PayingFor
    <3>3. Covered(CallsFor(s) \cup {call}, PayingFor(s) \ {c}, counts.sessions[s])
      BY <2>1, <3>2, CoveredMoves
    <3> QED BY <2>1, <2>2, <3>1, <3>3, CoveredLess
  <2>4. CASE caller[c].session # s
    <3>1. CallsFor(s)' = CallsFor(s) BY <1>1, <1>3, <2>4 DEF CallsFor
    <3> QED BY <2>1, <2>2, <3>1, CoveredLess
  <2> QED BY <2>3, <2>4
<1>14. AllCovered' BY <1>1, <1>11, <1>12, <1>13 DEF AllCovered
<1>15. Numbered'
  <2>1. IsFiniteSet(granted) BY <1>10 DEF AllCovered, Covered
  <2>2. Cardinality(granted) \in Nat BY <2>1, FS_CardinalityType
  <2>3. call \notin granted BY <1>3, <2>2 DEF BudgetInv, Numbered
  <2>4. Cardinality(granted') = Cardinality(granted) + 1 BY <1>1, <2>1, <2>3, FS_AddElement
  <2>5. \A old \in granted : old.nr \in Nat /\ old.nr <= Cardinality(granted) BY DEF BudgetInv, Numbered
  <2> QED BY <1>1, <1>3, <2>2, <2>4, <2>5 DEF Numbered
<1>16. WritesAreSound' BY <1>1 DEF BudgetInv, WritesAreSound, AtLeast, WithinLimits
<1>17. WithinLimits(counts)' BY <1>1 DEF BudgetInv, WithinLimits
<1>18. ASSUME NEW other \in Callers PROVE CallerIsSound(other)'
  <2>1. CASE other = c BY <1>4, <1>6, <2>1 DEF CallerIsSound
  <2>2. CASE other # c
    <3>1. caller'[other] = caller[other] BY <1>4, <2>2
    <3>2. Counted(other)' = Counted(other) BY <1>1, <3>1 DEF Counted
    <3> QED BY <1>1, <3>1, <3>2 DEF BudgetInv, CallerIsSound
  <2> QED BY <2>1, <2>2
<1> QED BY <1>7, <1>14, <1>15, <1>16, <1>17, <1>18 DEF BudgetInv

\* A write takes effect: at most the call it counts is paid for by it, and the
\* other writes under way no longer can.
LEMMA LandingCovers ==
    ASSUME BudgetInv, countLands
    PROVE  BudgetInv'
<1>1. PICK put \in writes :
        /\ put.seen = version /\ writes' = {} /\ counts' = put.content
        /\ version' = version + 1 /\ done' = done \cup {put}
        /\ UNCHANGED <<hour, caller, granted>>
  BY DEF countLands, Budget!Lands
<1>2. BudgetTyped /\ put \in Countings /\ version \in Nat /\ put.content \in Totals
  BY DEF BudgetInv, BudgetTyped, Countings
<1>3. WritesAreSound BY DEF BudgetInv
<1>4. AtLeast(put.content, counts) /\ WithinLimits(put.content) BY <1>1, <1>3 DEF WritesAreSound
<1>5. BudgetTyped' BY <1>1, <1>2 DEF BudgetTyped
<1>6. /\ counts.total \in Nat /\ counts'.total \in Nat
      /\ \A h \in Hours : counts.hours[h] \in Nat /\ counts'.hours[h] \in Nat
      /\ \A s \in Sessions : counts.sessions[s] \in Nat /\ counts'.sessions[s] \in Nat
  BY <1>1, <1>2 DEF BudgetTyped, Totals
<1>7. /\ counts.total <= counts'.total
      /\ \A h \in Hours : counts.hours[h] <= counts'.hours[h]
      /\ \A s \in Sessions : counts.sessions[s] <= counts'.sessions[s]
  BY <1>1, <1>4 DEF AtLeast
<1> DEFINE c == put.writer
           newlyPaid == caller[c].pc = "put" /\ caller[c].put = put
<1>8. c \in Callers BY <1>2 DEF Countings
<1>9. \A other \in Paying' : other \in Paying \/ (other = c /\ newlyPaid)
  <2>1. ASSUME NEW other \in Callers, caller[other].pc = "put", caller[other].put = put
        PROVE  other = c
    BY <2>1 DEF BudgetInv, CallerIsSound
  <2> QED BY <1>1, <2>1 DEF Paying
<1>10. AllCovered BY DEF BudgetInv
<1>11. granted' = granted /\ (\A h : CallsIn(h)' = CallsIn(h)) /\ (\A s : CallsFor(s)' = CallsFor(s))
  BY <1>1 DEF CallsIn, CallsFor
<1>12. ASSUME ~newlyPaid PROVE AllCovered'
  <2>1. Paying' \subseteq Paying BY <1>9, <1>12
  <2>2. \A h : PayingIn(h)' \subseteq PayingIn(h) BY <1>1, <2>1 DEF PayingIn
  <2>3. \A s : PayingFor(s)' \subseteq PayingFor(s) BY <1>1, <2>1 DEF PayingFor
  <2>4. Covered(granted, Paying', counts'.total)
    BY <1>6, <1>7, <1>10, <2>1, CoveredLess DEF AllCovered
  <2>5. \A h \in Hours : Covered(CallsIn(h), PayingIn(h)', counts'.hours[h])
    BY <1>6, <1>7, <1>10, <2>2, CoveredLess DEF AllCovered
  <2>6. \A s \in Sessions : Covered(CallsFor(s), PayingFor(s)', counts'.sessions[s])
    BY <1>6, <1>7, <1>10, <2>3, CoveredLess DEF AllCovered
  <2> QED BY <1>11, <2>4, <2>5, <2>6 DEF AllCovered
<1>13. ASSUME newlyPaid PROVE AllCovered'
  <2>1. Paying' \subseteq Paying \cup {c} BY <1>9
  <2>2. put.content = Counted(c) /\ caller[c].session \in Sessions
    BY <1>1, <1>8, <1>13 DEF BudgetInv, CallerIsSound
  <2>3. caller[c].hour \in Hours BY <1>2, <1>8 DEF BudgetTyped, Reservations
  <2>4. /\ counts'.total = counts.total + 1
        /\ counts'.hours[caller[c].hour] = counts.hours[caller[c].hour] + 1
        /\ counts'.sessions[caller[c].session] = counts.sessions[caller[c].session] + 1
    BY <1>1, <1>2, <1>8, <2>2, CountedAdds
  <2> HIDE DEF c, newlyPaid
  <2>5. Covered(granted, Paying', counts'.total)
    BY <1>6, <1>10, <2>1, <2>4, CoveredOneMore DEF AllCovered
  <2>6. ASSUME NEW h \in Hours PROVE Covered(CallsIn(h), PayingIn(h)', counts'.hours[h])
    <3>1. Covered(CallsIn(h), PayingIn(h), counts.hours[h]) BY <1>10 DEF AllCovered
    <3>2. CASE h = caller[c].hour
      <4>1. PayingIn(h)' \subseteq PayingIn(h) \cup {c} BY <1>1, <2>1 DEF PayingIn
      <4>2. counts'.hours[h] = counts.hours[h] + 1 /\ counts.hours[h] \in Nat
        BY <1>6, <2>4, <3>2
      <4> QED BY <3>1, <4>1, <4>2, CoveredOneMore
    <3>3. CASE h # caller[c].hour
      <4>1. PayingIn(h)' \subseteq PayingIn(h) BY <1>1, <2>1, <3>3 DEF PayingIn
      <4> QED BY <1>6, <1>7, <3>1, <4>1, CoveredLess
    <3> QED BY <3>2, <3>3
  <2>7. ASSUME NEW s \in Sessions PROVE Covered(CallsFor(s), PayingFor(s)', counts'.sessions[s])
    <3>1. Covered(CallsFor(s), PayingFor(s), counts.sessions[s]) BY <1>10 DEF AllCovered
    <3>2. CASE s = caller[c].session
      <4>1. PayingFor(s)' \subseteq PayingFor(s) \cup {c} BY <1>1, <2>1 DEF PayingFor
      <4>2. counts'.sessions[s] = counts.sessions[s] + 1 /\ counts.sessions[s] \in Nat
        BY <1>6, <2>4, <3>2
      <4> QED BY <3>1, <4>1, <4>2, CoveredOneMore
    <3>3. CASE s # caller[c].session
      <4>1. PayingFor(s)' \subseteq PayingFor(s) BY <1>1, <2>1, <3>3 DEF PayingFor
      <4> QED BY <1>6, <1>7, <3>1, <4>1, CoveredLess
    <3> QED BY <3>2, <3>3
  <2> QED BY <1>11, <2>5, <2>6, <2>7 DEF AllCovered
<1>14. Numbered' BY <1>1 DEF BudgetInv, Numbered
<1>15. WritesAreSound' BY <1>1, <1>2, <1>3 DEF WritesAreSound, BudgetTyped, Countings
<1>16. WithinLimits(counts)' BY <1>1, <1>4 DEF WithinLimits
<1>17. ASSUME NEW other \in Callers PROVE CallerIsSound(other)'
  <2>1. CallerIsSound(other) /\ caller' = caller BY <1>1 DEF BudgetInv
  <2>2. caller[other].pc = "put" => caller[other].put.seen \in Nat /\ caller[other].put.seen <= version
    BY <2>1 DEF CallerIsSound, Countings
  <2> QED BY <1>1, <1>2, <2>1, <2>2 DEF CallerIsSound
<1> QED BY <1>5, <1>12, <1>13, <1>14, <1>15, <1>16, <1>17 DEF BudgetInv

LEMMA BudgetStepKeeps == ASSUME BudgetInv, [Next]_<<qvars, pvars, bvars, part>> PROVE BudgetInv'
<1>1. CASE UNCHANGED bvars
  <2>1. UNCHANGED <<counts, version, writes, done, hour, caller, granted>>
    BY <1>1 DEF bvars, budget
  <2>2. Paying' = Paying /\ (\A h : PayingIn(h)' = PayingIn(h) /\ CallsIn(h)' = CallsIn(h))
    BY <2>1 DEF Paying, PayingIn, CallsIn
  <2>3. \A s : PayingFor(s)' = PayingFor(s) /\ CallsFor(s)' = CallsFor(s)
    BY <2>1 DEF Paying, PayingFor, CallsFor
  <2>4. BudgetTyped' BY <2>1 DEF BudgetInv, BudgetTyped
  <2>5. AllCovered' BY <2>1, <2>2, <2>3 DEF BudgetInv, AllCovered
  <2>6. Numbered' BY <2>1 DEF BudgetInv, Numbered
  <2>7. WritesAreSound' BY <2>1 DEF BudgetInv, WritesAreSound, AtLeast, WithinLimits
  <2>8. WithinLimits(counts)' BY <2>1 DEF BudgetInv, WithinLimits
  <2>9. \A c \in Callers : CallerIsSound(c)' BY <2>1 DEF BudgetInv, CallerIsSound, Counted
  <2> QED BY <2>4, <2>5, <2>6, <2>7, <2>8, <2>9 DEF BudgetInv
<1>2. CASE BNext
  <2>1. /\ hour \in Hours /\ caller \in [Callers -> Reservations]
        /\ \A c \in Callers : caller[c] \in Reservations /\ CallerIsSound(c)
    BY DEF BudgetInv, BudgetTyped
  <2>2. ASSUME NEW c \in Callers, NEW session \in Sessions, reserve(c, session) PROVE BudgetInv'
    <3> DEFINE r == [Quiet EXCEPT !.pc = "read", !.session = session, !.hour = hour]
    <3>1. r \in Reservations /\ r.pc = "read" /\ r.session = session
      BY <2>1 DEF Quiet, Reservations
    <3>2. caller' = [caller EXCEPT ![c] = r] /\ UNCHANGED <<counts, version, writes, done, hour, granted>>
      BY <2>2 DEF reserve, budget
    <3> HIDE DEF r
    <3>3. /\ caller' \in [Callers -> Reservations] /\ caller'[c] = r
          /\ \A other \in Callers : other # c => caller'[other] = caller[other]
      BY <2>1, <3>1, <3>2
    <3> QED BY <3>1, <3>2, <3>3, CallerChanges
  <2>3. ASSUME NEW c \in Callers, Answered(c, FALSE) PROVE BudgetInv'
    <3>1. Quiet.pc = "idle" /\ Quiet \in Reservations
      BY BudgetAssumption DEF Quiet, Reservations, Hours
    <3>2. /\ caller' = [caller EXCEPT ![c] = Quiet] /\ done' \subseteq done
          /\ UNCHANGED <<counts, version, writes, hour, granted>>
      BY <2>3 DEF Answered, Budget!Forget
    <3>3. /\ caller' \in [Callers -> Reservations] /\ caller'[c] = Quiet
          /\ \A other \in Callers : other # c => caller'[other] = caller[other]
      BY <2>1, <3>1, <3>2
    <3> QED BY <3>1, <3>2, <3>3, CallerChanges
  <2>4. ASSUME NEW c \in Callers, countFails(c), ~Answered(c, FALSE) PROVE BudgetInv'
    <3>1. /\ caller[c].pc = "put" /\ caller' = [caller EXCEPT ![c].pc = "read", ![c].attempt = @ + 1]
          /\ UNCHANGED <<counts, version, writes, done, hour, granted>>
      BY <2>4 DEF countFails, budget
    <3>2. /\ caller'[c] = [caller[c] EXCEPT !.pc = "read", !.attempt = @ + 1]
          /\ \A other \in Callers : other # c => caller'[other] = caller[other]
      BY <2>1, <3>1
    <3> DEFINE more == caller[c].attempt + 1
    <3>3. /\ caller'[c] \in Reservations /\ caller'[c].pc = "read"
          /\ caller'[c].session = caller[c].session
      <4>1. caller[c] \in Reservations /\ more \in Nat BY <2>1 DEF Reservations
      <4>2. caller'[c] = [caller[c] EXCEPT !.pc = "read", !.attempt = more] BY <3>2
      <4> HIDE DEF more
      <4> QED BY <4>1, <4>2 DEF Reservations
    <3>4. caller' \in [Callers -> Reservations] BY <2>1, <3>1, <3>2, <3>3
    <3>5. caller[c].session \in Sessions BY <2>1, <3>1 DEF CallerIsSound
    <3> QED BY <3>1, <3>2, <3>3, <3>4, <3>5, CallerChanges
  <2>5. ASSUME nextHour PROVE BudgetInv'
    <3>1. hour' = hour + 1 /\ hour < LastHour /\ UNCHANGED <<counts, version, writes, done, caller, granted>>
      BY <2>5 DEF nextHour, budget
    <3>2. Paying' = Paying /\ (\A h : PayingIn(h)' = PayingIn(h) /\ CallsIn(h)' = CallsIn(h))
      BY <3>1 DEF Paying, PayingIn, CallsIn
    <3>3. \A s : PayingFor(s)' = PayingFor(s) /\ CallsFor(s)' = CallsFor(s)
      BY <3>1 DEF Paying, PayingFor, CallsFor
    <3>4. hour' \in Hours BY <2>1, <3>1, BudgetAssumption DEF Hours
    <3>5. BudgetTyped' BY <3>1, <3>4 DEF BudgetInv, BudgetTyped
    <3>6. AllCovered' BY <3>1, <3>2, <3>3 DEF BudgetInv, AllCovered
    <3>7. Numbered' BY <3>1 DEF BudgetInv, Numbered
    <3>8. WritesAreSound' BY <3>1 DEF BudgetInv, WritesAreSound, AtLeast, WithinLimits
    <3>9. WithinLimits(counts)' BY <3>1 DEF BudgetInv, WithinLimits
    <3>10. \A c \in Callers : CallerIsSound(c)' BY <3>1 DEF BudgetInv, CallerIsSound, Counted
    <3> QED BY <3>5, <3>6, <3>7, <3>8, <3>9, <3>10 DEF BudgetInv
  <2>6. ASSUME NEW c \in Callers,
               (\E session \in Sessions : reserve(c, session)) \/ refuse(c) \/ count(c) \/ grant(c) \/ countFails(c)
        PROVE  BudgetInv'
    BY <2>2, <2>3, <2>4, <2>6, CountSends, GrantMoves DEF refuse
  <2> QED BY <1>2, <2>5, <2>6, LandingCovers DEF BNext
<1> QED BY <1>1, <1>2 DEF Next

\* However reservations race, lose their answers or span the hour, the paid
\* calls of the day, of each hour and of each session are on the shared count,
\* which never passes its limits (assistant-budget.ts:14-17).
THEOREM BudgetIsRespected == Spec => []GrantedWithinLimits
<1>1. Init => BudgetInv BY BudgetStarts DEF Init
<1>2. BudgetInv /\ [Next]_<<qvars, pvars, bvars, part>> => BudgetInv' BY BudgetStepKeeps
<1>3. BudgetInv => GrantedWithinLimits
  <2> SUFFICES ASSUME BudgetInv PROVE GrantedWithinLimits
    OBVIOUS
  <2>1. ASSUME NEW calls, NEW paying, NEW sum, Covered(calls, paying, sum), sum \in Nat
        PROVE  Cardinality(calls) <= sum
    <3>1. Cardinality(calls) \in Nat /\ Cardinality(paying) \in Nat
      BY <2>1, FS_CardinalityType DEF Covered
    <3> QED BY <2>1, <3>1 DEF Covered
  <2>2. /\ counts.total \in Nat
        /\ \A h \in Hours : counts.hours[h] \in Nat
        /\ \A s \in Sessions : counts.sessions[s] \in Nat
    BY DEF BudgetInv, BudgetTyped, Totals
  <2>3. /\ Cardinality(granted) <= counts.total
        /\ \A h \in Hours : Cardinality(CallsIn(h)) <= counts.hours[h]
        /\ \A s \in Sessions : Cardinality(CallsFor(s)) <= counts.sessions[s]
    BY <2>1, <2>2 DEF BudgetInv, AllCovered
  <2> QED BY <2>3 DEF BudgetInv, WithinLimits, GrantedWithinLimits, CallsIn, CallsFor
<1> QED BY <1>1, <1>2, <1>3, PTL DEF Spec
=============================================================================
