---------------------------- MODULE CycleProofs ----------------------------
(* Machine-checked proofs about Cycle, for any amounts and any number of    *)
(* crashes and failed writes.                                               *)
EXTENDS CycleView, TLAPS

-----------------------------------------------------------------------------
(* The inductive invariant: what the ledger, the journal, the record and    *)
(* the running handler's copies of both say of one another.                 *)
Bound(id) == journal[id].status # "ABSENT"
Corrected == journal["deposit"].result = "tecINSUFFICIENT_FUNDS"

\* The two amounts that a withdrawal of everything can ever be asked for.
Whole(amount) ==
    \/ amount = Deposit + Interest
    \/ amount = Interest /\ Succeeded("native-refusal")

\* An operation that was signed had all that it needs; the ledger decides only
\* on what was sent, and the journal repeats only what it decided.
JournalIsSound ==
    \A id \in Ids :
        /\ Bound(id) => Needs(id)
        /\ ~Bound(id) => journal[id] = Absent /\ id \notin sent
        /\ verdict[id] # "none" => id \in sent
        /\ journal[id].result # "none" => journal[id].result = verdict[id]

LedgerIsSound ==
    /\ request = "funded" => Succeeded("cover")
    /\ Bound("deposit-funded") => Corrected
    /\ Bound("withdraw") => Whole(journal["withdraw"].amount)
    /\ VaultAvailable >= 0

\* A record, on disk or in a handler's memory, that tells what happened.
IsTrue(rec) ==
    /\ \A id \in Ids : rec.steps[id] # "none" =>
          \/ rec.steps[id] = verdict[id]
          \/ id = "deposit" /\ rec.steps[id] = verdict["deposit-funded"]
    /\ rec.refusal # "none" => rec.refusal = verdict["native-refusal"]
    /\ rec.yield # "none" =>
          /\ journal["withdraw"].result = "tesSUCCESS"
          /\ rec.yield = Realised(journal["withdraw"].amount)

Extends(old, new) ==
    /\ old.vaultId => new.vaultId
    /\ old.loanBrokerId => new.loanBrokerId
    /\ old.requestId => new.requestId
    /\ old.refusal # "none" => new.refusal = old.refusal
    /\ old.yield # "none" => new.yield = old.yield
    /\ \A id \in Ids : old.steps[id] # "none" =>
          \/ new.steps[id] = old.steps[id]
          \/ id = "deposit" /\ new.steps["deposit-funded"] = "tesSUCCESS"

Flying == {"lookup", "bound", "submit", "store", "record", "after"}
Working == Flying \cup {"register"}

\* The operation in hand may be signed, and setup is at the deposit it chose.
OperationIsDue ==
    handler.pc \in Working =>
        /\ Needs(handler.id)
        /\ handler.id \in {"lender-topup", "deposit-funded"} => Corrected
        /\ handler.id = "deposit" => ~Bound("deposit-funded")
        /\ handler.op = "refusal" <=> handler.id = "native-refusal"
        /\ handler.id = "withdraw" => Whole(handler.amount)

\* The handler's copy of the record is true, and knows all that the file does.
CopyIsTrue == handler.pc # "idle" => IsTrue(handler.rec) /\ Extends(record, handler.rec)

\* Where the handler is and what it holds agree with the journal.
PlaceIsRight ==
    /\ handler.pc = "begin" => handler.op = "setup" /\ handler.id = "vault"
    /\ handler.pc = "create" => request = "none"
    /\ handler.pc \in Flying => Bound(handler.id)
    /\ handler.pc \in {"bound", "submit", "store"} => journal[handler.id].result = "none"
    /\ handler.pc = "store" =>
          /\ handler.file.status \in {"VALIDATED", "EXPIRED_UNRESOLVED", "VALIDATION_UNKNOWN"}
          /\ handler.file.amount = journal[handler.id].amount
          /\ handler.file.result # "none" => handler.file.result = verdict[handler.id]
    /\ handler.pc = "record" => journal[handler.id].result # "none"
    /\ handler.pc = "after" =>
          /\ handler.op # "refusal"
          /\ journal[handler.id].result = "tesSUCCESS"
          /\ handler.rec.steps[handler.id] = "tesSUCCESS"

IInv ==
    TypeOK /\ JournalIsSound /\ LedgerIsSound /\ IsTrue(record)
    /\ OperationIsDue /\ CopyIsTrue /\ PlaceIsRight

\* What no step takes back.
Grows ==
    /\ \A id \in Ids : verdict[id] # "none" => verdict'[id] = verdict[id]
    /\ request = "funded" => request' = "funded"
    /\ \A id \in Ids : Bound(id) => Bound(id)' /\ journal'[id].amount = journal[id].amount
    /\ \A id \in Ids : journal[id].result # "none" => journal'[id] = journal[id]

SameLedger == UNCHANGED <<request, sent, verdict>>
SameOperation ==
    /\ handler'.op = handler.op /\ handler'.id = handler.id
    /\ handler'.amount = handler.amount /\ handler'.rec = handler.rec

Pcs == {"idle", "begin", "create", "bind"} \cup Working

-----------------------------------------------------------------------------
(* What a handler is after it moved, and what growth preserves.             *)
LEMMA GotoMoves ==
    ASSUME handler \in Handlers, NEW pc \in Pcs, Goto(pc)
    PROVE  /\ handler' \in Handlers /\ handler'.pc = pc
           /\ SameOperation /\ handler'.file = handler.file
BY DEF Goto, Handlers, SameOperation, Pcs, Working, Flying

LEMMA StoreMoves ==
    ASSUME TypeOK, NEW status \in Statuses, NEW result \in Results \cup {"none"},
           Store(status, result)
    PROVE  /\ handler' \in Handlers /\ handler'.pc = "store"
           /\ SameOperation
           /\ handler'.file \in Operations
           /\ handler'.file.status = status /\ handler'.file.result = result
           /\ handler'.file.amount = journal[handler.id].amount
<1> DEFINE file == [journal[handler.id] EXCEPT !.status = status, !.result = result]
<1>1. handler \in Handlers /\ journal[handler.id] \in Operations BY DEF TypeOK, Handlers
<1>2. /\ file \in Operations /\ file.status = status /\ file.result = result
      /\ file.amount = journal[handler.id].amount
  BY <1>1 DEF Operations
<1>3. handler' = [handler EXCEPT !.pc = "store", !.file = file] BY DEF Store
<1> HIDE DEF file
<1> QED BY <1>1, <1>2, <1>3 DEF Handlers, SameOperation

LEMMA IdleIsAHandler == Idle \in Handlers /\ Idle.pc = "idle"
<1>1. Absent \in Operations BY DEF Absent, Operations, Statuses, Results
<1>2. NoRecord \in CycleRecords BY DEF NoRecord, CycleRecords, Results
<1> QED BY <1>1, <1>2 DEF Idle, Handlers, Ids

\* What an operation needs, it has for good.
LEMMA NeedsStay == ASSUME Grows, NEW id \in Ids, Needs(id) PROVE Needs(id)'
<1>1. /\ Succeeded("vault") => Succeeded("vault")'
      /\ Succeeded("broker") => Succeeded("broker")'
      /\ Succeeded("lender-topup") => Succeeded("lender-topup")'
      /\ Deposited => Deposited'
      /\ Repaid => Repaid'
  BY DEF Grows, Succeeded, Deposited, Repaid, Ids
<1>2. /\ request = "funded" => request' = "funded"
      /\ verdict["deposit"] # "none" => verdict'["deposit"] = verdict["deposit"]
      /\ verdict["repay"] # "none" => verdict'["repay"] = verdict["repay"]
  BY DEF Grows, Ids
<1>3. CASE id \in {"vault", "deposit", "lender-topup"} BY <1>1, <1>3 DEF Needs
<1>4. CASE id = "deposit-funded" BY <1>1, <1>2, <1>4 DEF Needs
<1>5. CASE id \in {"broker", "cover", "withdraw"} BY <1>1, <1>5 DEF Needs
<1>6. CASE id \in {"native-refusal", "repay", "repay-late"} BY <1>1, <1>2, <1>6 DEF Needs
<1> QED BY <1>3, <1>4, <1>5, <1>6 DEF Ids

LEMMA NothingGrows ==
    ASSUME UNCHANGED <<journal, request, verdict>>
    PROVE  Grows
BY DEF Grows, Bound

LEMMA FilesStaySound ==
    ASSUME IInv, UNCHANGED <<journal, record, request, sent, verdict>>
    PROVE  JournalIsSound' /\ LedgerIsSound' /\ IsTrue(record)' /\ Grows
<1>1. JournalIsSound'
  BY DEF IInv, JournalIsSound, Bound, Needs, Succeeded, Deposited, Repaid
<1>2. LedgerIsSound'
  BY DEF IInv, LedgerIsSound, Bound, Corrected, Whole, VaultAvailable, Succeeded, Deposited,
         Repaid, Withdrawn
<1>3. IsTrue(record)' BY DEF IInv, IsTrue
<1> QED BY <1>1, <1>2, <1>3, NothingGrows

\* An operation under way stays due, and its copy of the record true.
LEMMA OperationStaysDue ==
    ASSUME IInv, Grows, SameOperation, handler.pc \in Working, record' = record,
           Bound("deposit-funded")' => Bound("deposit-funded") \/ handler.id = "deposit-funded"
    PROVE  OperationIsDue' /\ CopyIsTrue'
<1>1. handler.id \in Ids BY DEF IInv, TypeOK, Handlers
<1>2. Needs(handler.id)'
  <2>1. Needs(handler.id) BY DEF IInv, OperationIsDue
  <2>2. handler'.id = handler.id BY DEF SameOperation
  <2> QED BY <1>1, <2>1, <2>2 DEF Grows, Needs, Succeeded, Deposited, Repaid, Ids
<1>3. OperationIsDue'
  BY <1>1, <1>2
  DEF IInv, OperationIsDue, SameOperation, Grows, Corrected, Whole, Succeeded, Ids
<1>4. CopyIsTrue'
  <2>1. IsTrue(handler.rec) /\ Extends(record, handler.rec)
    BY DEF IInv, CopyIsTrue, Working, Flying
  <2>2. handler'.rec = handler.rec BY DEF SameOperation
  <2>3. IsTrue(handler.rec)' BY <2>1, <2>2 DEF IsTrue, Grows, Ids
  <2>4. Extends(record, handler.rec)' BY <2>1, <2>2 DEF Extends
  <2> QED BY <2>3, <2>4 DEF CopyIsTrue
<1> QED BY <1>3, <1>4

\* A handler that ends leaves nothing to answer for.
LEMMA EndIsSound ==
    ASSUME handler' = Idle
    PROVE  OperationIsDue' /\ CopyIsTrue' /\ PlaceIsRight'
BY IdleIsAHandler DEF OperationIsDue, CopyIsTrue, PlaceIsRight, Working, Flying

-----------------------------------------------------------------------------
(* Steps that only move the handler or end it.                              *)
LEMMA StopKeeps ==
    ASSUME IInv, handler' = Idle, UNCHANGED <<journal, record, request, sent, verdict, passed>>,
           faults' \in Nat
    PROVE  IInv' /\ Grows
<1>1. TypeOK' BY IdleIsAHandler DEF IInv, TypeOK
<1> QED BY <1>1, FilesStaySound, EndIsSound DEF IInv

LEMMA MoveKeeps ==
    ASSUME IInv, SameOperation, handler' \in Handlers, handler.pc \in Working, PlaceIsRight',
           UNCHANGED <<journal, record, request, sent, verdict, passed, faults>>
    PROVE  IInv' /\ Grows
<1>1. TypeOK' BY DEF IInv, TypeOK
<1>2. Bound("deposit-funded")' = Bound("deposit-funded") BY DEF Bound
<1> QED BY <1>1, <1>2, FilesStaySound, OperationStaysDue DEF IInv

LEMMA RegisteredKeeps == ASSUME IInv, registered PROVE IInv' /\ Grows
<1>1. /\ handler.pc = "register" /\ Bound(handler.id) /\ Goto("lookup")
      /\ UNCHANGED <<journal, record, request, sent, verdict, passed, faults>>
  BY DEF registered, At, LedgerAlone, FilesAlone, Bound
<1>2. /\ handler' \in Handlers /\ handler'.pc = "lookup" /\ SameOperation
  BY <1>1, GotoMoves DEF IInv, TypeOK, Pcs, Working, Flying
<1>3. PlaceIsRight' BY <1>1, <1>2 DEF PlaceIsRight, Bound, SameOperation
<1> QED BY <1>1, <1>2, <1>3, MoveKeeps DEF Working

LEMMA AnsweredKeeps == ASSUME IInv, answered PROVE IInv' /\ Grows
<1>1. /\ handler.pc = "lookup" /\ journal[handler.id].result # "none" /\ Goto("record")
      /\ UNCHANGED <<journal, record, request, sent, verdict, passed, faults>>
  BY DEF answered, At, LedgerAlone, FilesAlone
<1>2. /\ handler' \in Handlers /\ handler'.pc = "record" /\ SameOperation
  BY <1>1, GotoMoves DEF IInv, TypeOK, Pcs, Working, Flying
<1>3. PlaceIsRight' BY <1>1, <1>2 DEF IInv, PlaceIsRight, Bound, SameOperation, Flying
<1> QED BY <1>1, <1>2, <1>3, MoveKeeps DEF Working, Flying

LEMMA LookupMissesKeeps == ASSUME IInv, lookupMisses PROVE IInv' /\ Grows
<1>1. /\ handler.pc = "lookup" /\ journal[handler.id].result = "none" /\ Goto("bound")
      /\ UNCHANGED <<journal, record, request, sent, verdict, passed, faults>>
  BY DEF lookupMisses, At, LedgerAlone, FilesAlone
<1>2. /\ handler' \in Handlers /\ handler'.pc = "bound" /\ SameOperation
  BY <1>1, GotoMoves DEF IInv, TypeOK, Pcs, Working, Flying
<1>3. PlaceIsRight' BY <1>1, <1>2 DEF IInv, PlaceIsRight, Bound, SameOperation, Flying
<1> QED BY <1>1, <1>2, <1>3, MoveKeeps DEF Working, Flying

\* What advance returns agrees with the ledger and the journal.
LEMMA ReturnIsRight ==
    ASSUME IInv, handler.pc \in Flying, journal[handler.id].result = "none",
           NEW status \in {"VALIDATED", "EXPIRED_UNRESOLVED", "VALIDATION_UNKNOWN"},
           NEW result \in Results \cup {"none"}, result # "none" => result = verdict[handler.id],
           Store(status, result), UNCHANGED <<journal, verdict>>
    PROVE  handler' \in Handlers /\ SameOperation /\ PlaceIsRight'
<1>1. status \in Statuses /\ TypeOK BY DEF Statuses, IInv
<1>2. /\ handler' \in Handlers /\ handler'.pc = "store" /\ SameOperation
      /\ handler'.file.status = status /\ handler'.file.result = result
      /\ handler'.file.amount = journal[handler.id].amount
  BY <1>1, StoreMoves
<1>3. PlaceIsRight' BY <1>2 DEF IInv, PlaceIsRight, Bound, SameOperation, Flying
<1> QED BY <1>2, <1>3

LEMMA LookupFindsKeeps == ASSUME IInv, lookupFinds PROVE IInv' /\ Grows
<1>1. /\ handler.pc = "lookup" /\ journal[handler.id].result = "none"
      /\ Store("VALIDATED", verdict[handler.id])
      /\ UNCHANGED <<journal, record, request, sent, verdict, passed, faults>>
  BY DEF lookupFinds, At, LedgerAlone, FilesAlone
<1>2. verdict[handler.id] \in Results \cup {"none"} BY DEF IInv, TypeOK, Handlers
<1>3. handler.pc \in Flying BY <1>1 DEF Flying
<1>4. handler' \in Handlers /\ SameOperation /\ PlaceIsRight'
  BY <1>1, <1>2, <1>3, ReturnIsRight
<1> QED BY <1>1, <1>3, <1>4, MoveKeeps DEF Working

LEMMA BoundPassedKeeps == ASSUME IInv, boundPassed PROVE IInv' /\ Grows
<1>1. /\ handler.pc = "bound" /\ Store("EXPIRED_UNRESOLVED", "none")
      /\ UNCHANGED <<journal, record, request, sent, verdict, passed, faults>>
  BY DEF boundPassed, At, LedgerAlone, FilesAlone
<1>2. handler.pc \in Flying /\ journal[handler.id].result = "none"
  BY <1>1 DEF IInv, PlaceIsRight, Flying
<1>3. handler' \in Handlers /\ SameOperation /\ PlaceIsRight' BY <1>1, <1>2, ReturnIsRight
<1> QED BY <1>1, <1>2, <1>3, MoveKeeps DEF Working

LEMMA AdvanceCatchesKeeps == ASSUME IInv, advanceCatches PROVE IInv' /\ Grows
<1>1. /\ handler.pc \in Flying /\ journal[handler.id].result = "none"
      /\ Store("VALIDATION_UNKNOWN", "none")
      /\ UNCHANGED <<journal, record, request, sent, verdict, passed, faults>>
  BY DEF advanceCatches, At, LedgerAlone, FilesAlone, Flying
<1>2. handler' \in Handlers /\ SameOperation /\ PlaceIsRight' BY <1>1, ReturnIsRight
<1> QED BY <1>1, <1>2, MoveKeeps DEF Working

-----------------------------------------------------------------------------
(* Steps that write the journal or send its blob.                           *)
LEMMA DecidedIsBound ==
    ASSUME IInv, NEW id \in Ids, verdict[id] # "none"
    PROVE  Bound(id)
BY DEF IInv, JournalIsSound

\* A journal that only grows leaves the ledger's books as they are.
LEMMA JournalKeepsBooks ==
    ASSUME IInv, Grows, UNCHANGED <<request, verdict>>
    PROVE  VaultAvailable' = VaultAvailable
<1>1. Succeeded("withdraw") => journal'["withdraw"].amount = journal["withdraw"].amount
  BY DecidedIsBound DEF Succeeded, Ids, Grows
<1> QED BY <1>1 DEF VaultAvailable, Succeeded, Deposited, Repaid, Withdrawn

\* Writing one operation keeps everything, when it says what the handler knows.
LEMMA WriteKeeps ==
    ASSUME IInv, NEW file \in Operations,
           journal' = [journal EXCEPT ![handler.id] = file],
           file.status # "ABSENT",
           Bound(handler.id) => file.amount = journal[handler.id].amount,
           ~Bound(handler.id) => handler.pc = "register" /\ file.amount = handler.amount,
           journal[handler.id].result # "none" => file = journal[handler.id],
           file.result # "none" => file.result = verdict[handler.id],
           handler.pc \in Working, handler' \in Handlers,
           SameOperation \/ handler' = Idle,
           handler'.pc \in Flying => PlaceIsRight',
           handler'.pc \in Flying \/ handler'.pc = "idle",
           UNCHANGED <<record, request, sent, verdict, passed, faults>>
    PROVE  IInv' /\ Grows
<1>1. handler.id \in Ids /\ journal \in [Ids -> Operations] BY DEF IInv, TypeOK, Handlers
<1>2. /\ journal' \in [Ids -> Operations] /\ journal'[handler.id] = file
      /\ \A id \in Ids : id # handler.id => journal'[id] = journal[id]
  BY <1>1
<1>3. Grows BY <1>1, <1>2 DEF Grows, Bound
<1>4. TypeOK' BY <1>2 DEF IInv, TypeOK
<1>5. OperationIsDue BY DEF IInv
<1>6. JournalIsSound'
  <2> SUFFICES ASSUME NEW id \in Ids
               PROVE  /\ Bound(id)' => Needs(id)'
                      /\ ~Bound(id)' => journal'[id] = Absent /\ id \notin sent'
                      /\ verdict'[id] # "none" => id \in sent'
                      /\ journal'[id].result # "none" => journal'[id].result = verdict'[id]
    BY DEF JournalIsSound, Absent
  <2>1. Needs(id) => Needs(id)' BY <1>3, NeedsStay
  <2>2. CASE id = handler.id
    <3>1. Needs(id) BY <1>5, <2>2 DEF OperationIsDue
    <3> QED BY <1>2, <2>1, <2>2, <3>1 DEF IInv, JournalIsSound, Bound
  <2>3. CASE id # handler.id BY <1>2, <2>1, <2>3 DEF IInv, JournalIsSound, Bound
  <2> QED BY <2>2, <2>3
<1>7. LedgerIsSound'
  <2>1. VaultAvailable' >= 0 BY <1>3, JournalKeepsBooks DEF IInv, LedgerIsSound
  <2>2. Corrected => Corrected' BY <1>3 DEF Grows, Corrected, Ids
  <2>3. Bound("deposit-funded")' => Corrected'
    BY <1>2, <1>5, <2>2 DEF IInv, LedgerIsSound, OperationIsDue, Bound, Ids
  <2>4. Bound("withdraw")' => Whole(journal["withdraw"].amount)'
    BY <1>2, <1>5 DEF IInv, LedgerIsSound, OperationIsDue, Bound, Whole, Succeeded, Ids
  <2> QED BY <2>1, <2>3, <2>4 DEF IInv, LedgerIsSound, Succeeded
<1>8. IsTrue(record)'
  BY <1>3 DEF IInv, IsTrue, Grows, Ids
<1>9. OperationIsDue' /\ CopyIsTrue' /\ PlaceIsRight'
  <2>1. CASE handler' = Idle BY <2>1, EndIsSound
  <2>2. CASE handler' # Idle
    <3>1. SameOperation BY <2>2
    <3>2. Bound("deposit-funded")' => Bound("deposit-funded") \/ handler.id = "deposit-funded"
      BY <1>2 DEF Bound, Ids
    <3>3. OperationIsDue' /\ CopyIsTrue' BY <1>3, <3>1, <3>2, OperationStaysDue
    <3>4. CASE handler'.pc = "idle" BY <3>3, <3>4 DEF PlaceIsRight, Flying
    <3> QED BY <3>3, <3>4
  <2> QED BY <2>1, <2>2
<1> QED BY <1>3, <1>4, <1>6, <1>7, <1>8, <1>9 DEF IInv

LEMMA SignOnceKeeps == ASSUME IInv, signOnce PROVE IInv' /\ Grows
<1> DEFINE file == Signed(handler.amount)
<1>1. /\ handler.pc = "register" /\ ~Bound(handler.id) /\ Goto("lookup")
      /\ journal' = [journal EXCEPT ![handler.id] = file]
      /\ UNCHANGED <<record, request, sent, verdict, passed, faults>>
  BY DEF signOnce, At, LedgerAlone, Bound
<1>2. handler.id \in Ids /\ handler.amount \in Int /\ journal \in [Ids -> Operations]
  BY DEF IInv, TypeOK, Handlers
<1>3. file \in Operations /\ file.status = "SIGNED" /\ file.amount = handler.amount /\ file.result = "none"
  BY <1>2 DEF Signed, Absent, Operations, Statuses
<1>4. journal[handler.id].result = "none" BY <1>1, <1>2 DEF IInv, JournalIsSound, Absent
<1>5. handler' \in Handlers /\ handler'.pc = "lookup" /\ SameOperation
  BY <1>1, GotoMoves DEF IInv, TypeOK, Pcs, Working, Flying
<1> HIDE DEF file
<1>6. journal'[handler.id] = file BY <1>1, <1>2
<1>7. PlaceIsRight' BY <1>3, <1>5, <1>6 DEF PlaceIsRight, Bound, SameOperation, Flying
<1> QED BY <1>1, <1>3, <1>4, <1>5, <1>7, WriteKeeps DEF Working, Flying

LEMMA SaveSubmittedKeeps == ASSUME IInv, saveSubmitted PROVE IInv' /\ Grows
<1> DEFINE file == [journal[handler.id] EXCEPT !.status = "SUBMITTED"]
<1>1. /\ handler.pc = "bound" /\ Goto("submit")
      /\ journal' = [journal EXCEPT ![handler.id].status = "SUBMITTED"]
      /\ UNCHANGED <<record, request, sent, verdict, passed, faults>>
  BY DEF saveSubmitted, At, LedgerAlone
<1>2. /\ handler.id \in Ids /\ journal \in [Ids -> Operations] /\ journal[handler.id] \in Operations
      /\ Bound(handler.id) /\ journal[handler.id].result = "none"
  BY <1>1 DEF IInv, TypeOK, Handlers, PlaceIsRight, Flying
<1>3. /\ file \in Operations /\ file.status = "SUBMITTED" /\ file.result = "none"
      /\ file.amount = journal[handler.id].amount
  BY <1>2 DEF Operations, Statuses
<1>4. journal' = [journal EXCEPT ![handler.id] = file] BY <1>1
<1>5. handler' \in Handlers /\ handler'.pc = "submit" /\ SameOperation
  BY <1>1, GotoMoves DEF IInv, TypeOK, Pcs, Working, Flying
<1> HIDE DEF file
<1>6. journal'[handler.id] = file BY <1>2, <1>4
<1>7. PlaceIsRight' BY <1>3, <1>5, <1>6 DEF PlaceIsRight, Bound, SameOperation, Flying
<1> QED BY <1>1, <1>2, <1>3, <1>4, <1>5, <1>7, WriteKeeps DEF Working, Flying

LEMMA StoreKeeps == ASSUME IInv, store PROVE IInv' /\ Grows
<1>1. /\ handler.pc = "store"
      /\ journal' = [journal EXCEPT ![handler.id] = handler.file]
      /\ UNCHANGED <<record, request, sent, verdict, passed, faults>>
      /\ \/ handler.file.result # "none" /\ Goto("record")
         \/ handler.file.result = "none" /\ Goto("lookup")
         \/ handler' = Idle
  BY DEF store, At, LedgerAlone
<1>2. /\ handler.id \in Ids /\ journal \in [Ids -> Operations] /\ handler.file \in Operations
      /\ Bound(handler.id) /\ journal[handler.id].result = "none"
      /\ handler.file.status # "ABSENT" /\ handler.file.amount = journal[handler.id].amount
      /\ handler.file.result # "none" => handler.file.result = verdict[handler.id]
  BY <1>1 DEF IInv, TypeOK, Handlers, PlaceIsRight, Flying
<1>3. journal'[handler.id] = handler.file BY <1>1, <1>2
<1>4. CASE handler' = Idle
  BY <1>1, <1>2, <1>4, IdleIsAHandler, WriteKeeps DEF Working, Flying
<1>5. CASE handler.file.result # "none" /\ Goto("record")
  <2>1. handler' \in Handlers /\ handler'.pc = "record" /\ SameOperation
    BY <1>5, GotoMoves DEF IInv, TypeOK, Pcs, Working, Flying
  <2>2. PlaceIsRight' BY <1>2, <1>3, <1>5, <2>1 DEF PlaceIsRight, Bound, SameOperation, Flying
  <2> QED BY <1>1, <1>2, <2>1, <2>2, WriteKeeps DEF Working, Flying
<1>6. CASE handler.file.result = "none" /\ Goto("lookup")
  <2>1. handler' \in Handlers /\ handler'.pc = "lookup" /\ SameOperation
    BY <1>6, GotoMoves DEF IInv, TypeOK, Pcs, Working, Flying
  <2>2. PlaceIsRight' BY <1>2, <1>3, <1>6, <2>1 DEF PlaceIsRight, Bound, SameOperation, Flying
  <2> QED BY <1>1, <1>2, <2>1, <2>2, WriteKeeps DEF Working, Flying
<1> QED BY <1>1, <1>4, <1>5, <1>6

\* The blob of the operation in hand is the only one that is sent.
LEMMA SubmitKeeps == ASSUME IInv, submit PROVE IInv' /\ Grows
<1>1. /\ handler.pc = "submit" /\ sent' \in {sent, sent \cup {handler.id}}
      /\ Store("VALIDATION_UNKNOWN", "none")
      /\ UNCHANGED <<journal, record, request, verdict, passed, faults>>
  BY DEF submit, At, FilesAlone
<1>2. /\ handler.pc \in Flying /\ journal[handler.id].result = "none"
      /\ Bound(handler.id) /\ handler.id \in Ids
  BY <1>1 DEF IInv, PlaceIsRight, Flying, TypeOK, Handlers
<1>3. handler' \in Handlers /\ SameOperation /\ PlaceIsRight' BY <1>1, <1>2, ReturnIsRight
<1>4. TypeOK' BY <1>1, <1>2, <1>3 DEF IInv, TypeOK
<1>5. JournalIsSound'
  BY <1>1, <1>2 DEF IInv, JournalIsSound, Bound, Needs, Succeeded, Deposited, Repaid
<1>6. LedgerIsSound'
  BY <1>1 DEF IInv, LedgerIsSound, Bound, Corrected, Whole, VaultAvailable, Succeeded, Deposited,
              Repaid, Withdrawn
<1>7. IsTrue(record)' BY <1>1 DEF IInv, IsTrue
<1>8. Grows BY <1>1, NothingGrows
<1>9. Bound("deposit-funded")' = Bound("deposit-funded") BY <1>1 DEF Bound
<1>10. OperationIsDue' /\ CopyIsTrue'
  BY <1>1, <1>2, <1>3, <1>8, <1>9, OperationStaysDue DEF Working
<1> QED BY <1>3, <1>4, <1>5, <1>6, <1>7, <1>8, <1>10 DEF IInv

-----------------------------------------------------------------------------
(* Steps that write the record.                                             *)
LEMMA RecordKeeps ==
    ASSUME IInv, NEW rec \in CycleRecords, IsTrue(rec), record' = rec,
           handler' \in Handlers, handler' = Idle \/ handler'.rec = rec,
           OperationIsDue', PlaceIsRight',
           UNCHANGED <<journal, request, sent, verdict, passed, faults>>
    PROVE  IInv' /\ Grows
<1>1. TypeOK' BY DEF IInv, TypeOK
<1>2. JournalIsSound'
  BY DEF IInv, JournalIsSound, Bound, Needs, Succeeded, Deposited, Repaid
<1>3. LedgerIsSound'
  BY DEF IInv, LedgerIsSound, Bound, Corrected, Whole, VaultAvailable, Succeeded, Deposited,
         Repaid, Withdrawn
<1>4. IsTrue(record)' BY DEF IsTrue
<1>5. CopyIsTrue'
  <2>1. CASE handler' = Idle BY <2>1, EndIsSound
  <2>2. CASE handler'.rec = rec BY <1>4, <2>2 DEF CopyIsTrue, IsTrue, Extends
  <2> QED BY <2>1, <2>2
<1> QED BY <1>1, <1>2, <1>3, <1>4, <1>5, NothingGrows DEF IInv

\* The operation in hand is as due as before while the files it needs stay.
LEMMA DueStays ==
    ASSUME IInv, handler.pc \in Working, UNCHANGED <<journal, request, verdict>>,
           handler'.op = handler.op, handler'.id = handler.id, handler'.amount = handler.amount
    PROVE  OperationIsDue'
<1>1. OperationIsDue BY DEF IInv
<1> QED
  BY <1>1 DEF OperationIsDue, Needs, Succeeded, Deposited, Repaid, Corrected, Whole, Bound

LEMMA BeginKeeps == ASSUME IInv, begin PROVE IInv' /\ Grows /\ Extends(record, record')
<1>1. /\ handler.pc = "begin" /\ record' = handler.rec /\ Goto("register")
      /\ UNCHANGED <<journal, request, sent, verdict, passed, faults>>
  BY DEF begin, At, Save, LedgerAlone
<1>2. /\ handler.rec \in CycleRecords /\ IsTrue(handler.rec) /\ Extends(record, handler.rec)
      /\ handler.op = "setup" /\ handler.id = "vault"
  BY <1>1 DEF IInv, TypeOK, Handlers, CopyIsTrue, PlaceIsRight
<1>3. handler' \in Handlers /\ handler'.pc = "register" /\ SameOperation
  BY <1>1, GotoMoves DEF IInv, TypeOK, Pcs, Working, Flying
<1>4. handler'.op = "setup" /\ handler'.id = "vault" /\ handler'.rec = handler.rec
  BY <1>2, <1>3 DEF SameOperation
<1>5. OperationIsDue' BY <1>4 DEF OperationIsDue, Needs
<1>6. PlaceIsRight' BY <1>3 DEF PlaceIsRight, Flying
<1> QED BY <1>1, <1>2, <1>3, <1>4, <1>5, <1>6, RecordKeeps

LEMMA BindKeeps == ASSUME IInv, bind PROVE IInv' /\ Grows /\ Extends(record, record')
<1>1. /\ handler.pc = "bind" /\ record' = handler.rec /\ handler' = Idle
      /\ UNCHANGED <<journal, request, sent, verdict, passed, faults>>
  BY DEF bind, At, Save, LedgerAlone
<1>2. handler.rec \in CycleRecords /\ IsTrue(handler.rec) /\ Extends(record, handler.rec)
  BY <1>1 DEF IInv, TypeOK, Handlers, CopyIsTrue
<1> QED BY <1>1, <1>2, EndIsSound, IdleIsAHandler, RecordKeeps

\* A result is put beside those on record and replaces none of them.
LEMMA ResultIsAdded ==
    ASSUME IInv, handler.pc = "record",
           NEW rec, rec = [handler.rec EXCEPT !.steps[handler.id] = journal[handler.id].result]
    PROVE  /\ rec \in CycleRecords /\ IsTrue(rec) /\ Extends(record, rec)
           /\ rec.steps[handler.id] = journal[handler.id].result
<1> DEFINE result == journal[handler.id].result
<1>1. /\ handler.rec \in CycleRecords /\ handler.id \in Ids /\ result \in Results
      /\ result = verdict[handler.id]
  BY DEF IInv, TypeOK, Handlers, Operations, PlaceIsRight, JournalIsSound
<1>2. /\ rec \in CycleRecords /\ rec.steps[handler.id] = result
      /\ \A id \in Ids : id # handler.id => rec.steps[id] = handler.rec.steps[id]
      /\ rec.vaultId = handler.rec.vaultId /\ rec.loanBrokerId = handler.rec.loanBrokerId
      /\ rec.requestId = handler.rec.requestId
      /\ rec.refusal = handler.rec.refusal /\ rec.yield = handler.rec.yield
  BY <1>1 DEF CycleRecords
<1>3. IsTrue(handler.rec) /\ Extends(record, handler.rec) /\ IsTrue(record)
  BY DEF IInv, CopyIsTrue
<1>4. IsTrue(rec) BY <1>1, <1>2, <1>3 DEF IsTrue
<1>5. handler.id = "deposit" => verdict["deposit-funded"] = "none"
  BY DEF IInv, OperationIsDue, Working, Flying, JournalIsSound, Ids
<1>6. Extends(record, rec)
  <2>1. \A id \in Ids : record.steps[id] # "none" =>
           \/ rec.steps[id] = record.steps[id]
           \/ id = "deposit" /\ rec.steps["deposit-funded"] = "tesSUCCESS"
    <3> SUFFICES ASSUME NEW id \in Ids, record.steps[id] # "none"
                 PROVE  \/ rec.steps[id] = record.steps[id]
                        \/ id = "deposit" /\ rec.steps["deposit-funded"] = "tesSUCCESS"
      OBVIOUS
    <3>1. CASE id = handler.id BY <1>1, <1>2, <1>3, <1>5, <3>1 DEF IsTrue
    <3>2. CASE id # handler.id /\ handler.id # "deposit-funded"
      BY <1>2, <1>3, <3>2 DEF Extends, Ids
    <3>3. CASE id # handler.id /\ handler.id = "deposit-funded"
      <4>1. handler.rec.steps["deposit-funded"] = "tesSUCCESS" => result = "tesSUCCESS"
        BY <1>1, <1>3, <3>3 DEF IsTrue, Ids
      <4> QED BY <1>2, <1>3, <3>3, <4>1 DEF Extends, Ids
    <3> QED BY <3>1, <3>2, <3>3
  <2> QED BY <1>2, <1>3, <2>1 DEF Extends
<1> QED BY <1>2, <1>4, <1>6

LEMMA RecordStepKeeps == ASSUME IInv, recordStep PROVE IInv' /\ Grows /\ Extends(record, record')
<1> DEFINE rec == [handler.rec EXCEPT !.steps[handler.id] = journal[handler.id].result]
<1>1. /\ handler.pc = "record" /\ record' = rec
      /\ UNCHANGED <<journal, request, sent, verdict, passed, faults>>
      /\ handler.op # "refusal"
      /\ \/ /\ journal[handler.id].result = "tesSUCCESS"
            /\ handler' = [handler EXCEPT !.pc = "after", !.rec = rec]
         \/ handler' = Idle
  BY DEF recordStep, At, Save, LedgerAlone
<1>2. /\ rec \in CycleRecords /\ IsTrue(rec) /\ Extends(record, rec)
      /\ rec.steps[handler.id] = journal[handler.id].result
  BY <1>1, ResultIsAdded
<1> HIDE DEF rec
<1>3. CASE handler' = Idle BY <1>1, <1>2, <1>3, EndIsSound, IdleIsAHandler, RecordKeeps
<1>4. CASE /\ journal[handler.id].result = "tesSUCCESS"
           /\ handler' = [handler EXCEPT !.pc = "after", !.rec = rec]
  <2>1. /\ handler' \in Handlers /\ handler'.pc = "after" /\ handler'.rec = rec
        /\ handler'.op = handler.op /\ handler'.id = handler.id /\ handler'.amount = handler.amount
    BY <1>2, <1>4 DEF IInv, TypeOK, Handlers
  <2>2. OperationIsDue' BY <1>1, <2>1, DueStays DEF Working, Flying
  <2>3. Bound(handler.id) BY <1>1 DEF IInv, PlaceIsRight, Flying
  <2>4. PlaceIsRight' BY <1>1, <1>2, <1>4, <2>1, <2>3 DEF PlaceIsRight, Bound
  <2> QED BY <1>1, <1>2, <2>1, <2>2, <2>4, RecordKeeps
<1> QED BY <1>1, <1>3, <1>4

LEMMA RecordRefusalKeeps ==
    ASSUME IInv, recordRefusal
    PROVE  IInv' /\ Grows /\ Extends(record, record')
<1> DEFINE rec == [handler.rec EXCEPT !.refusal = journal["native-refusal"].result]
<1>1. /\ handler.pc = "record" /\ handler.op = "refusal" /\ record' = rec /\ handler' = Idle
      /\ UNCHANGED <<journal, request, sent, verdict, passed, faults>>
  BY DEF recordRefusal, At, Save, LedgerAlone
<1>2. handler.id = "native-refusal" BY <1>1 DEF IInv, OperationIsDue, Working, Flying
<1>3. /\ handler.rec \in CycleRecords
      /\ journal["native-refusal"].result \in Results
      /\ journal["native-refusal"].result = verdict["native-refusal"]
  BY <1>1, <1>2 DEF IInv, TypeOK, Handlers, Operations, PlaceIsRight, JournalIsSound, Ids
<1>4. IsTrue(handler.rec) /\ Extends(record, handler.rec) /\ IsTrue(record)
  BY <1>1 DEF IInv, CopyIsTrue
<1>5. /\ rec \in CycleRecords /\ rec.refusal = journal["native-refusal"].result
      /\ rec.vaultId = handler.rec.vaultId /\ rec.loanBrokerId = handler.rec.loanBrokerId
      /\ rec.requestId = handler.rec.requestId /\ rec.steps = handler.rec.steps
      /\ rec.yield = handler.rec.yield
  BY <1>3 DEF CycleRecords
<1> HIDE DEF rec
<1>6. IsTrue(rec) BY <1>3, <1>4, <1>5 DEF IsTrue
<1>7. Extends(record, rec) BY <1>3, <1>4, <1>5 DEF Extends, IsTrue
<1> QED BY <1>1, <1>5, <1>6, <1>7, EndIsSound, IdleIsAHandler, RecordKeeps

\* What a handler adds once a step has succeeded is true as well.
LEMMA SuccessIsAdded ==
    ASSUME IInv, handler.pc = "after", NEW rec, rec = After(handler.id, handler.rec)
    PROVE  rec \in CycleRecords /\ IsTrue(rec) /\ Extends(record, rec)
<1> DEFINE old == handler.rec
<1>1. /\ old \in CycleRecords /\ handler.id \in Ids
      /\ IsTrue(old) /\ Extends(record, old) /\ IsTrue(record)
      /\ journal[handler.id].result = "tesSUCCESS" /\ verdict[handler.id] = "tesSUCCESS"
      /\ old.steps[handler.id] = "tesSUCCESS"
  BY DEF IInv, TypeOK, Handlers, CopyIsTrue, PlaceIsRight, JournalIsSound
<1> HIDE DEF old
<1>2. CASE handler.id = "vault"
  <2>1. rec = [old EXCEPT !.vaultId = TRUE] BY <1>2 DEF After, old
  <2>2. /\ rec \in CycleRecords /\ rec.vaultId = TRUE /\ rec.loanBrokerId = old.loanBrokerId
        /\ rec.requestId = old.requestId /\ rec.steps = old.steps
        /\ rec.refusal = old.refusal /\ rec.yield = old.yield
    BY <1>1, <2>1 DEF CycleRecords
  <2> QED BY <1>1, <2>2 DEF IsTrue, Extends
<1>3. CASE handler.id = "broker"
  <2>1. rec = [old EXCEPT !.loanBrokerId = TRUE] BY <1>3 DEF After, old
  <2>2. /\ rec \in CycleRecords /\ rec.loanBrokerId = TRUE /\ rec.vaultId = old.vaultId
        /\ rec.requestId = old.requestId /\ rec.steps = old.steps
        /\ rec.refusal = old.refusal /\ rec.yield = old.yield
    BY <1>1, <2>1 DEF CycleRecords
  <2> QED BY <1>1, <2>2 DEF IsTrue, Extends
<1>4. CASE handler.id = "deposit-funded"
  <2>1. rec = [old EXCEPT !.steps["deposit"] = "tesSUCCESS"] BY <1>4 DEF After, old
  <2> DEFINE steps == [old.steps EXCEPT !["deposit"] = "tesSUCCESS"]
  <2>2. old.steps \in [Ids -> Results \cup {"none"}] BY <1>1 DEF CycleRecords
  <2>3. /\ steps \in [Ids -> Results \cup {"none"}] /\ steps["deposit"] = "tesSUCCESS"
        /\ \A id \in Ids : id # "deposit" => steps[id] = old.steps[id]
    BY <2>2 DEF Results, Ids
  <2>4. rec = [old EXCEPT !.steps = steps] BY <2>1
  <2> HIDE DEF steps
  <2>5. /\ rec \in CycleRecords /\ rec.loanBrokerId = old.loanBrokerId /\ rec.vaultId = old.vaultId
        /\ rec.requestId = old.requestId /\ rec.steps = steps
        /\ rec.refusal = old.refusal /\ rec.yield = old.yield
    BY <1>1, <2>3, <2>4 DEF CycleRecords
  <2>6. /\ rec \in CycleRecords /\ rec.loanBrokerId = old.loanBrokerId /\ rec.vaultId = old.vaultId
        /\ rec.requestId = old.requestId
        /\ rec.refusal = old.refusal /\ rec.yield = old.yield
        /\ rec.steps["deposit"] = "tesSUCCESS"
        /\ \A id \in Ids : id # "deposit" => rec.steps[id] = old.steps[id]
    BY <2>3, <2>5
  <2>7. old.steps["deposit-funded"] = "tesSUCCESS" /\ verdict["deposit-funded"] = "tesSUCCESS"
    BY <1>1, <1>4
  <2>8. IsTrue(rec) BY <1>1, <2>6, <2>7 DEF IsTrue
  <2>9. Extends(record, rec) BY <1>1, <2>6, <2>7 DEF Extends, Ids
  <2> QED BY <2>6, <2>8, <2>9
<1>5. CASE handler.id = "withdraw"
  <2>1. rec = [old EXCEPT !.yield = Realised(journal["withdraw"].amount)] BY <1>5 DEF After, old
  <2>2. /\ rec \in CycleRecords /\ rec.loanBrokerId = old.loanBrokerId /\ rec.vaultId = old.vaultId
        /\ rec.requestId = old.requestId /\ rec.steps = old.steps
        /\ rec.refusal = old.refusal /\ rec.yield = Realised(journal["withdraw"].amount)
    BY <1>1, <2>1 DEF CycleRecords, Realised
  <2> QED BY <1>1, <1>5, <2>2 DEF IsTrue, Extends
<1>6. CASE handler.id \notin {"vault", "broker", "deposit-funded", "withdraw"}
  <2>1. rec = old BY <1>6 DEF After, old
  <2> QED BY <1>1, <2>1
<1> QED BY <1>2, <1>3, <1>4, <1>5, <1>6

\* Setup goes on with an operation that the ledger's verdicts allow.
LEMMA FollowerIsDue ==
    ASSUME IInv, handler.pc = "after", handler.id \notin LastOf
    PROVE  LET next == Follows(handler.id)
           IN  /\ next \in {"deposit", "lender-topup", "deposit-funded", "broker", "cover"}
               /\ Needs(next)
               /\ next \in {"lender-topup", "deposit-funded"} => Corrected
               /\ next = "deposit" => ~Bound("deposit-funded")
               /\ handler.op # "refusal"
<1>1. /\ handler.id \in Ids /\ Succeeded(handler.id)
      /\ handler.id \in {"lender-topup", "deposit-funded"} => Corrected
      /\ handler.op = "refusal" <=> handler.id = "native-refusal"
      /\ Corrected => verdict["deposit"] = "tecINSUFFICIENT_FUNDS"
      /\ Bound("deposit-funded") => Corrected
  BY DEF IInv, TypeOK, Handlers, PlaceIsRight, JournalIsSound, LedgerIsSound, OperationIsDue,
         Working, Flying, Succeeded, Corrected, Ids
<1>2. handler.id # "native-refusal"
  BY <1>1 DEF IInv, PlaceIsRight
<1>3. CASE handler.id = "vault"
  <2>1. CASE Corrected
    <3>1. Follows(handler.id) = "lender-topup" BY <1>3, <2>1 DEF Follows, Corrected
    <3> QED BY <1>1, <1>3, <2>1, <3>1 DEF Needs
  <2>2. CASE ~Corrected
    <3>1. Follows(handler.id) = "deposit" BY <1>3, <2>2 DEF Follows, Corrected
    <3> QED BY <1>1, <1>3, <2>2, <3>1 DEF Needs
  <2> QED BY <2>1, <2>2
<1>4. CASE handler.id = "lender-topup"
  <2>1. Follows(handler.id) = "deposit-funded" BY <1>4 DEF Follows
  <2> QED BY <1>1, <1>4, <2>1 DEF Needs
<1>5. CASE handler.id \in {"deposit", "deposit-funded"}
  <2>1. Follows(handler.id) = "broker" BY <1>5 DEF Follows
  <2> QED BY <1>1, <1>5, <2>1 DEF Needs, Deposited
<1>6. CASE handler.id = "broker"
  <2>1. Follows(handler.id) = "cover" BY <1>6 DEF Follows
  <2> QED BY <1>1, <1>6, <2>1 DEF Needs
<1> QED BY <1>1, <1>2, <1>3, <1>4, <1>5, <1>6 DEF Ids, LastOf

LEMMA AfterKeeps == ASSUME IInv, after PROVE IInv' /\ Grows /\ Extends(record, record')
<1> DEFINE rec == After(handler.id, handler.rec)
           next == Follows(handler.id)
<1>1. /\ handler.pc = "after" /\ record' = rec
      /\ UNCHANGED <<journal, request, sent, verdict, passed, faults>>
      /\ \/ handler' = Idle
         \/ /\ handler.id \notin LastOf
            /\ handler' = [handler EXCEPT !.id = next, !.pc = "register", !.rec = rec]
  BY DEF after, At, Save, LedgerAlone
<1>2. rec \in CycleRecords /\ IsTrue(rec) /\ Extends(record, rec) BY <1>1, SuccessIsAdded
<1>3. CASE handler' = Idle
  <2> HIDE DEF rec
  <2> QED BY <1>1, <1>2, <1>3, EndIsSound, IdleIsAHandler, RecordKeeps
<1>4. CASE /\ handler.id \notin LastOf
           /\ handler' = [handler EXCEPT !.id = next, !.pc = "register", !.rec = rec]
  <2>1. /\ next \in {"deposit", "lender-topup", "deposit-funded", "broker", "cover"}
        /\ Needs(next)
        /\ next \in {"lender-topup", "deposit-funded"} => Corrected
        /\ next = "deposit" => ~Bound("deposit-funded")
        /\ handler.op # "refusal"
    BY <1>1, <1>4, FollowerIsDue
  <2> HIDE DEF rec, next
  <2>2. /\ handler' \in Handlers /\ handler'.pc = "register" /\ handler'.rec = rec
        /\ handler'.op = handler.op /\ handler'.id = next
    BY <1>2, <1>4, <2>1 DEF IInv, TypeOK, Handlers, Ids
  <2>3. OperationIsDue'
    BY <1>1, <2>1, <2>2
    DEF OperationIsDue, Needs, Succeeded, Deposited, Repaid, Corrected, Bound
  <2>4. PlaceIsRight' BY <2>2 DEF PlaceIsRight, Flying
  <2> QED BY <1>1, <1>2, <2>2, <2>3, <2>4, RecordKeeps
<1> QED BY <1>1, <1>3, <1>4

-----------------------------------------------------------------------------
(* The calls, which read the record and choose what is due.                 *)
LEMMA StartKeeps ==
    ASSUME IInv,
           NEW op \in {"setup", "prepareRequest", "refusal", "repay", "withdraw"}, NEW id \in Ids,
           NEW pc \in {"begin", "create", "bind", "register"}, NEW amount \in Int,
           NEW rec \in CycleRecords, Start(op, id, pc, amount, rec),
           IsTrue(rec), Extends(record, rec),
           pc = "begin" => op = "setup" /\ id = "vault",
           pc = "create" => request = "none",
           pc = "register" =>
              /\ Needs(id) /\ id \notin {"lender-topup", "deposit-funded", "deposit"}
              /\ op = "refusal" <=> id = "native-refusal"
              /\ id = "withdraw" => Whole(amount)
    PROVE  IInv' /\ Grows /\ record' = record
<1>1. /\ handler' = [op |-> op, id |-> id, pc |-> pc, amount |-> amount, file |-> Absent, rec |-> rec]
      /\ UNCHANGED <<journal, record, request, sent, verdict, passed, faults>>
  BY DEF Start
<1>2. Absent \in Operations BY DEF Absent, Operations, Statuses, Results
<1>3. /\ handler' \in Handlers /\ handler'.op = op /\ handler'.id = id /\ handler'.pc = pc
      /\ handler'.amount = amount /\ handler'.rec = rec
  BY <1>1, <1>2 DEF Handlers
<1>4. TypeOK' BY <1>1, <1>3 DEF IInv, TypeOK
<1>5. JournalIsSound' /\ LedgerIsSound' /\ IsTrue(record)' /\ Grows BY <1>1, FilesStaySound
<1>6. OperationIsDue'
  BY <1>1, <1>3
  DEF OperationIsDue, Needs, Succeeded, Deposited, Repaid, Whole, Working, Flying
<1>7. CopyIsTrue' BY <1>1, <1>3 DEF CopyIsTrue, IsTrue, Extends
<1>8. PlaceIsRight' BY <1>1, <1>3 DEF PlaceIsRight, Flying
<1> QED BY <1>1, <1>4, <1>5, <1>6, <1>7, <1>8 DEF IInv

LEMMA RecordIsItself ==
    ASSUME IInv
    PROVE  record \in CycleRecords /\ IsTrue(record) /\ Extends(record, record)
BY DEF IInv, TypeOK, Extends

LEMMA SetupKeeps == ASSUME IInv, setup PROVE IInv' /\ Grows /\ record' = record
<1> DEFINE rec == [record EXCEPT !.exists = TRUE]
<1>1. Start("setup", "vault", "begin", 0, rec) BY DEF setup
<1>2. /\ rec \in CycleRecords /\ rec.vaultId = record.vaultId /\ rec.requestId = record.requestId
      /\ rec.loanBrokerId = record.loanBrokerId /\ rec.steps = record.steps
      /\ rec.refusal = record.refusal /\ rec.yield = record.yield
  BY RecordIsItself DEF CycleRecords
<1> HIDE DEF rec
<1>3. IsTrue(rec) /\ Extends(record, rec) BY <1>2, RecordIsItself DEF IsTrue, Extends
<1> QED BY <1>1, <1>2, <1>3, StartKeeps DEF Ids

LEMMA PrepareRequestKeeps ==
    ASSUME IInv, prepareRequest
    PROVE  IInv' /\ Grows /\ record' = record
<1> DEFINE rec == [record EXCEPT !.requestId = TRUE]
           pc == IF request = "none" THEN "create" ELSE "bind"
<1>1. Start("prepareRequest", "vault", pc, 0, rec) BY DEF prepareRequest
<1>2. /\ rec \in CycleRecords /\ rec.vaultId = record.vaultId /\ rec.requestId = TRUE
      /\ rec.loanBrokerId = record.loanBrokerId /\ rec.steps = record.steps
      /\ rec.refusal = record.refusal /\ rec.yield = record.yield
  BY RecordIsItself DEF CycleRecords
<1>3. pc \in {"create", "bind"} /\ (pc = "create" => request = "none") OBVIOUS
<1> HIDE DEF rec, pc
<1>4. IsTrue(rec) /\ Extends(record, rec) BY <1>2, RecordIsItself DEF IsTrue, Extends
<1> QED BY <1>1, <1>2, <1>3, <1>4, StartKeeps DEF Ids

\* Before a loan is funded, every step of the setup has succeeded.
LEMMA FundedIsDeposited == ASSUME IInv, request = "funded" PROVE Deposited
<1>1. Succeeded("cover") BY DEF IInv, LedgerIsSound
<1>2. Succeeded("broker")
  BY <1>1, DecidedIsBound DEF IInv, JournalIsSound, Needs, Succeeded, Ids
<1> QED BY <1>2, DecidedIsBound DEF IInv, JournalIsSound, Needs, Succeeded, Ids

LEMMA RefusalKeeps == ASSUME IInv, refusal PROVE IInv' /\ Grows /\ record' = record
<1>1. request = "funded" /\ Start("refusal", "native-refusal", "register", Deposit, record)
  BY DEF refusal
<1>2. Needs("native-refusal") BY <1>1, FundedIsDeposited DEF Needs
<1> QED BY <1>1, <1>2, RecordIsItself, AmountsAssumption, StartKeeps DEF Ids

LEMMA RepayKeeps == ASSUME IInv, repay PROVE IInv' /\ Grows /\ record' = record
<1> DEFINE id == IF journal["repay"].result = "tecEXPIRED" THEN "repay-late" ELSE "repay"
<1>1. request = "funded" /\ Start("repay", id, "register", Principal + Interest, record)
  BY DEF repay
<1>2. id \in {"repay", "repay-late"} OBVIOUS
<1>3. journal["repay"].result = "tecEXPIRED" => verdict["repay"] = "tecEXPIRED"
  BY DEF IInv, JournalIsSound, Ids
<1>4. Needs(id)
  <2>1. CASE journal["repay"].result = "tecEXPIRED" BY <1>1, <1>3, <2>1 DEF Needs
  <2>2. CASE journal["repay"].result # "tecEXPIRED"
    BY <1>1, <2>2, FundedIsDeposited DEF Needs
  <2> QED BY <2>1, <2>2
<1> HIDE DEF id
<1> QED BY <1>1, <1>2, <1>4, RecordIsItself, AmountsAssumption, StartKeeps DEF Ids

LEMMA WithdrawKeeps == ASSUME IInv, withdraw PROVE IInv' /\ Grows /\ record' = record
<1> DEFINE amount == IF journal["withdraw"].status = "ABSENT" THEN VaultAvailable
                     ELSE journal["withdraw"].amount
<1>1. RepaidOnRecord /\ Start("withdraw", "withdraw", "register", amount, record)
  BY DEF withdraw
<1>2. Repaid
  BY <1>1 DEF RepaidOnRecord, Repaid, IInv, IsTrue, Succeeded, Ids
<1>3. request = "funded"
  BY <1>2, DecidedIsBound DEF Repaid, Succeeded, IInv, JournalIsSound, Needs, Ids
<1>4. CASE journal["withdraw"].status = "ABSENT"
  <2>1. ~Succeeded("withdraw") BY <1>4, DecidedIsBound DEF Bound, Succeeded, Ids
  <2>2. VaultAvailable =
           Deposit + Interest - (IF Succeeded("native-refusal") THEN Deposit ELSE 0)
    BY <1>2, <1>3, <2>1, FundedIsDeposited, AmountsAssumption DEF VaultAvailable, Withdrawn
  <2>3. VaultAvailable \in Int /\ Whole(VaultAvailable)
    BY <2>2, AmountsAssumption DEF Whole
  <2> QED BY <1>1, <1>2, <1>4, <2>3, RecordIsItself, StartKeeps DEF Ids, Needs
<1>5. CASE journal["withdraw"].status # "ABSENT"
  <2>1. amount \in Int /\ Whole(amount)
    BY <1>5 DEF IInv, LedgerIsSound, Bound, TypeOK, Operations, Ids
  <2> HIDE DEF amount
  <2> QED BY <1>1, <1>2, <2>1, RecordIsItself, StartKeeps DEF Ids, Needs
<1> QED BY <1>4, <1>5

-----------------------------------------------------------------------------
(* The request, the process and the ledger.                                 *)
LEMMA CreateKeeps == ASSUME IInv, create PROVE IInv' /\ Grows /\ record' = record
<1>1. /\ handler.pc = "create" /\ request' = "prepared" /\ Goto("bind")
      /\ UNCHANGED <<journal, record, sent, verdict, passed, faults>>
  BY DEF create, At, LedgerAlone
<1>2. request = "none" BY <1>1 DEF IInv, PlaceIsRight
<1>3. handler' \in Handlers /\ handler'.pc = "bind" /\ handler'.rec = handler.rec
  BY <1>1, GotoMoves DEF IInv, TypeOK, Pcs, SameOperation
<1>4. TypeOK' BY <1>1, <1>3 DEF IInv, TypeOK
<1>5. Grows BY <1>1, <1>2 DEF Grows, Bound
<1>6. JournalIsSound'
  <2> SUFFICES ASSUME NEW id \in Ids
               PROVE  /\ Bound(id)' => Needs(id)'
                      /\ ~Bound(id)' => journal'[id] = Absent /\ id \notin sent'
                      /\ verdict'[id] # "none" => id \in sent'
                      /\ journal'[id].result # "none" => journal'[id].result = verdict'[id]
    BY DEF JournalIsSound, Absent
  <2>1. Needs(id) => Needs(id)' BY <1>5, NeedsStay
  <2> QED BY <1>1, <2>1 DEF IInv, JournalIsSound, Bound
<1>7. LedgerIsSound'
  BY <1>1, <1>2 DEF IInv, LedgerIsSound, Bound, Corrected, Whole, VaultAvailable, Succeeded,
                    Deposited, Repaid, Withdrawn
<1>8. IsTrue(record)' BY <1>1 DEF IInv, IsTrue
<1>9. OperationIsDue' /\ PlaceIsRight' BY <1>3 DEF OperationIsDue, PlaceIsRight, Working, Flying
<1>10. CopyIsTrue' BY <1>1, <1>3 DEF IInv, CopyIsTrue, IsTrue, Extends
<1> QED BY <1>1, <1>4, <1>5, <1>6, <1>7, <1>8, <1>9, <1>10 DEF IInv

\* What the ledger and the loan service do while a handler is anywhere.
LEMMA WorldKeeps ==
    ASSUME IInv, Grows, UNCHANGED <<journal, record, handler, sent>>, TypeOK',
           \A id \in Ids : verdict'[id] # "none" => id \in sent,
           request' = "funded" => Succeeded("cover"), VaultAvailable' >= 0,
           request' = request \/ handler.pc = "idle"
    PROVE  IInv'
<1>1. JournalIsSound'
  <2> SUFFICES ASSUME NEW id \in Ids
               PROVE  /\ Bound(id)' => Needs(id)'
                      /\ ~Bound(id)' => journal'[id] = Absent /\ id \notin sent'
                      /\ verdict'[id] # "none" => id \in sent'
                      /\ journal'[id].result # "none" => journal'[id].result = verdict'[id]
    BY DEF JournalIsSound, Absent
  <2>1. Needs(id) => Needs(id)' BY NeedsStay
  <2>2. journal[id].result # "none" => verdict'[id] = verdict[id]
    BY DEF IInv, JournalIsSound, Grows
  <2> QED BY <2>1, <2>2 DEF IInv, JournalIsSound, Bound
<1>2. LedgerIsSound'
  <2>1. Succeeded("cover") => Succeeded("cover")' BY DEF Grows, Succeeded, Ids
  <2>2. Bound("withdraw")' => Whole(journal["withdraw"].amount)'
    BY DEF IInv, LedgerIsSound, Bound, Whole, Grows, Succeeded, Ids
  <2> QED BY <2>1, <2>2 DEF IInv, LedgerIsSound, Bound, Corrected
<1>3. IsTrue(record)' BY DEF IInv, IsTrue, Grows, Ids
<1>4. OperationIsDue'
  <2>1. handler.id \in Ids BY DEF IInv, TypeOK, Handlers
  <2>2. Needs(handler.id) => Needs(handler.id)'
    <3> SUFFICES ASSUME NEW id, id = handler.id, Needs(id) PROVE Needs(id)'
      BY DEF Needs
    <3> QED BY <2>1, NeedsStay
  <2>3. Whole(handler.amount) => Whole(handler.amount)' BY DEF Whole, Grows, Succeeded, Ids
  <2> QED BY <2>2, <2>3 DEF IInv, OperationIsDue, Corrected, Bound
<1>5. CopyIsTrue' BY DEF IInv, CopyIsTrue, IsTrue, Extends, Grows, Ids
<1>6. PlaceIsRight'
  <2>1. handler.id \in Ids BY DEF IInv, TypeOK, Handlers
  <2>2. verdict[handler.id] # "none" => verdict'[handler.id] = verdict[handler.id]
    BY <2>1 DEF Grows
  <2> QED BY <2>2 DEF IInv, PlaceIsRight, Bound
<1> QED BY <1>1, <1>2, <1>3, <1>4, <1>5, <1>6 DEF IInv

LEMMA FundLoanKeeps == ASSUME IInv, fundLoan PROVE IInv' /\ Grows /\ record' = record
<1>1. /\ handler.pc = "idle" /\ request = "prepared" /\ request' = "funded"
      /\ Succeeded("cover") /\ VaultAvailable >= Principal
      /\ UNCHANGED <<journal, record, handler, sent, verdict, passed, faults>>
  BY DEF fundLoan
<1>2. Grows BY <1>1 DEF Grows, Bound
<1>3. TypeOK' BY <1>1 DEF IInv, TypeOK
<1>4. \A id \in Ids : verdict'[id] # "none" => id \in sent BY <1>1 DEF IInv, JournalIsSound
<1>5. Withdrawn \in Int /\ Withdrawn' = Withdrawn
  BY <1>1, AmountsAssumption DEF IInv, TypeOK, Operations, Withdrawn, Succeeded, Ids
<1>6. VaultAvailable' >= 0
  BY <1>1, <1>5, AmountsAssumption DEF VaultAvailable, Succeeded, Deposited, Repaid
<1> QED BY <1>1, <1>2, <1>3, <1>4, <1>6, WorldKeeps

\* The ledger never pays more out of the vault than is in it.
LEMMA ValidateKeeps ==
    ASSUME IInv, NEW id \in Ids, validate(id)
    PROVE  IInv' /\ Grows /\ record' = record
<1>1. PICK result \in Verdicts(id) : verdict' = [verdict EXCEPT ![id] = result]
  BY DEF validate
<1>2. /\ id \in sent /\ verdict[id] = "none"
      /\ UNCHANGED <<journal, record, request, handler, sent, passed, faults>>
  BY DEF validate, FilesAlone
<1>3. result \in Results BY <1>1 DEF Verdicts, Results
<1>4. /\ verdict' \in [Ids -> Results \cup {"none"}] /\ verdict'[id] = result
      /\ \A other \in Ids : other # id => verdict'[other] = verdict[other]
  BY <1>1, <1>3 DEF IInv, TypeOK
<1>5. TypeOK' BY <1>2, <1>4 DEF IInv, TypeOK
<1>6. Grows BY <1>2, <1>4 DEF Grows, Bound
<1>7. \A other \in Ids : verdict'[other] # "none" => other \in sent
  BY <1>2, <1>4 DEF IInv, JournalIsSound
<1>8. request' = "funded" => Succeeded("cover") BY <1>2 DEF IInv, LedgerIsSound
<1>9. VaultAvailable' >= 0
  <2>1. journal["withdraw"].amount \in Int BY DEF IInv, TypeOK, Operations, Ids
  <2>2. VaultAvailable >= 0 BY DEF IInv, LedgerIsSound
  <2>3. CASE id = "native-refusal"
    <3>1. result = "tesSUCCESS" => VaultAvailable >= Deposit BY <1>1, <2>3 DEF Verdicts
    <3> QED
      BY <1>2, <1>4, <2>1, <2>2, <2>3, <3>1, AmountsAssumption
      DEF VaultAvailable, Withdrawn, Succeeded, Deposited, Repaid, Ids
  <2>4. CASE id = "withdraw"
    <3>1. result = "tesSUCCESS" => VaultAvailable >= journal["withdraw"].amount
      BY <1>1, <2>4 DEF Verdicts
    <3> QED
      BY <1>2, <1>4, <2>1, <2>2, <2>4, <3>1, AmountsAssumption
      DEF VaultAvailable, Withdrawn, Succeeded, Deposited, Repaid, Ids
  <2>5. CASE id \notin {"native-refusal", "withdraw"}
    <3>1. Withdrawn' = Withdrawn /\ Withdrawn \in Int
      BY <1>2, <1>4, <2>1, <2>5, AmountsAssumption DEF Withdrawn, Succeeded, Ids
    <3>2. (Deposited => Deposited') /\ (Repaid => Repaid')
      BY <1>6 DEF Grows, Deposited, Repaid, Succeeded, Ids
    <3> QED BY <1>2, <2>2, <3>1, <3>2, AmountsAssumption DEF VaultAvailable
  <2> QED BY <2>3, <2>4, <2>5
<1> QED BY <1>2, <1>5, <1>6, <1>7, <1>8, <1>9, WorldKeeps

LEMMA BoundPassesKeeps ==
    ASSUME IInv, NEW id \in Ids, boundPasses(id)
    PROVE  IInv' /\ Grows /\ record' = record
<1>1. /\ passed' = passed \cup {id}
      /\ UNCHANGED <<journal, record, request, handler, sent, verdict, faults>>
  BY DEF boundPasses, FilesAlone
<1>2. TypeOK' BY <1>1 DEF IInv, TypeOK
<1>3. VaultAvailable' = VaultAvailable
  BY <1>1 DEF VaultAvailable, Succeeded, Deposited, Repaid, Withdrawn
<1>4. Grows BY <1>1, NothingGrows
<1> QED BY <1>1, <1>2, <1>3, <1>4, WorldKeeps DEF IInv, JournalIsSound, LedgerIsSound

LEMMA StopsKeep ==
    ASSUME IInv, stop \/ registerThrows
    PROVE  IInv' /\ Grows /\ record' = record
<1>1. /\ handler' = Idle /\ faults' \in Nat
      /\ UNCHANGED <<journal, record, request, sent, verdict, passed>>
  BY DEF stop, registerThrows, LedgerAlone, FilesAlone, IInv, TypeOK
<1> QED BY <1>1, StopKeeps

LEMMA StepKeeps ==
    ASSUME IInv, [Next]_vars
    PROVE  IInv' /\ Grows /\ Extends(record, record')
<1>1. CASE begin \/ bind \/ recordStep \/ recordRefusal \/ after
  BY <1>1, BeginKeeps, BindKeeps, RecordStepKeeps, RecordRefusalKeeps, AfterKeeps
<1>2. ASSUME IInv' /\ Grows, record' = record PROVE IInv' /\ Grows /\ Extends(record, record')
  BY <1>2 DEF Extends
<1>3. CASE setup \/ prepareRequest \/ refusal \/ repay \/ withdraw
  BY <1>2, <1>3, SetupKeeps, PrepareRequestKeeps, RefusalKeeps, RepayKeeps, WithdrawKeeps
<1>4. CASE signOnce \/ registered \/ registerThrows
  <2>1. record' = record BY <1>4 DEF signOnce, registered, registerThrows, FilesAlone
  <2> QED BY <1>2, <1>4, <2>1, SignOnceKeeps, RegisteredKeeps, StopsKeep
<1>5. CASE answered \/ lookupFinds \/ lookupMisses \/ boundPassed
  <2>1. record' = record
    BY <1>5 DEF answered, lookupFinds, lookupMisses, boundPassed, FilesAlone
  <2> QED BY <1>2, <1>5, <2>1, AnsweredKeeps, LookupFindsKeeps, LookupMissesKeeps, BoundPassedKeeps
<1>6. CASE saveSubmitted \/ submit \/ advanceCatches \/ store
  <2>1. record' = record
    BY <1>6 DEF saveSubmitted, submit, advanceCatches, store, FilesAlone
  <2> QED BY <1>2, <1>6, <2>1, SaveSubmittedKeeps, SubmitKeeps, AdvanceCatchesKeeps, StoreKeeps
<1>7. CASE create \/ stop \/ fundLoan BY <1>2, <1>7, CreateKeeps, StopsKeep, FundLoanKeeps
<1>8. CASE \E id \in Ids : validate(id) \/ boundPasses(id)
  BY <1>2, <1>8, ValidateKeeps, BoundPassesKeeps
<1>9. CASE UNCHANGED vars
  <2>1. UNCHANGED <<journal, record, request, handler, sent, verdict, passed, faults>>
    BY <1>9 DEF vars
  <2>2. TypeOK' BY <2>1 DEF IInv, TypeOK
  <2>3. VaultAvailable' = VaultAvailable
    BY <2>1 DEF VaultAvailable, Succeeded, Deposited, Repaid, Withdrawn
  <2>4. Grows BY <2>1, NothingGrows
  <2>5. IInv' BY <2>1, <2>2, <2>3, <2>4, WorldKeeps DEF IInv, JournalIsSound, LedgerIsSound
  <2> QED BY <1>2, <2>1, <2>4, <2>5
<1> QED BY <1>1, <1>3, <1>4, <1>5, <1>6, <1>7, <1>8, <1>9 DEF Next, Calls, Step

LEMMA InitIsSound == Init => IInv
<1> SUFFICES ASSUME Init PROVE IInv
  OBVIOUS
<1>1. /\ journal = [id \in Ids |-> Absent] /\ record = NoRecord /\ request = "none"
      /\ handler = Idle /\ sent = {} /\ verdict = [id \in Ids |-> "none"]
      /\ passed = {} /\ faults = 0
  BY DEF Init
<1>2. Absent \in Operations /\ Absent.status = "ABSENT" /\ Absent.result = "none"
  BY DEF Absent, Operations, Statuses
<1>3. /\ NoRecord \in CycleRecords /\ NoRecord.refusal = "none" /\ NoRecord.yield = "none"
      /\ \A id \in Ids : NoRecord.steps[id] = "none"
  BY DEF NoRecord, CycleRecords
<1>4. TypeOK BY <1>1, <1>2, <1>3, IdleIsAHandler DEF TypeOK
<1>5. \A id \in Ids : journal[id] = Absent /\ ~Bound(id) /\ verdict[id] = "none" /\ ~Succeeded(id)
  BY <1>1, <1>2 DEF Bound, Succeeded
<1>6. JournalIsSound BY <1>1, <1>2, <1>5 DEF JournalIsSound
<1>7. VaultAvailable = 0
  BY <1>1, <1>5 DEF VaultAvailable, Withdrawn, Deposited, Repaid, Ids
<1>8. LedgerIsSound BY <1>1, <1>5, <1>7 DEF LedgerIsSound, Ids
<1>9. IsTrue(record) BY <1>1, <1>3 DEF IsTrue
<1>10. OperationIsDue /\ CopyIsTrue /\ PlaceIsRight
  BY <1>1, IdleIsAHandler DEF OperationIsDue, CopyIsTrue, PlaceIsRight, Working, Flying
<1> QED BY <1>4, <1>6, <1>8, <1>9, <1>10 DEF IInv

-----------------------------------------------------------------------------
(* The results.                                                             *)

\* The journal, the record, the handler and the ledger agree in every state.
THEOREM Consistency == Spec => []IInv
BY InitIsSound, StepKeeps, PTL DEF Spec

\* Every variable keeps its type, for any amounts.
THEOREM TypeCorrect == Spec => []TypeOK
<1>1. IInv => TypeOK BY DEF IInv
<1> QED BY <1>1, Consistency, PTL

\* No operation reaches the ledger before those it depends on have succeeded.
THEOREM OperationsAreInOrder == Spec => []InOrder
<1>1. IInv => InOrder BY DEF IInv, TypeOK, JournalIsSound, InOrder
<1> QED BY <1>1, Consistency, PTL

\* The journal and the record repeat only what the ledger decided.
THEOREM EvidenceHolds == Spec => []EvidenceIsTrue
<1>1. IInv => EvidenceIsTrue BY DEF IInv, JournalIsSound, IsTrue, EvidenceIsTrue
<1> QED BY <1>1, Consistency, PTL

\* No step of any handler forgets what the record on disk knows.
THEOREM HistoryIsKept == Spec => RecordKeepsHistory
<1>1. IInv /\ [Next]_vars => Extends(record, record') BY StepKeeps
<1> QED BY <1>1, Consistency, PTL DEF Spec, RecordKeepsHistory, Extends

\* No retry, restart or expiry replaces the blob that was signed for an
\* operation, or the result it got.
THEOREM OneBlobForEver == Spec => OneBlob
<1> DEFINE Kept(id) == journal'[id].status \notin {"ABSENT", "SIGNED"} \/ journal'[id] = journal[id]
<1>1. ASSUME IInv, [Next]_vars, NEW id \in Ids, Bound(id) PROVE Kept(id)
  <2>1. handler.id \in Ids /\ journal \in [Ids -> Operations] BY <1>1 DEF IInv, TypeOK, Handlers
  <2>2. CASE signOnce BY <1>1, <2>1, <2>2 DEF signOnce, Bound
  <2>3. CASE saveSubmitted
    <3>1. journal' = [journal EXCEPT ![handler.id].status = "SUBMITTED"] BY <2>3 DEF saveSubmitted
    <3>2. journal'[handler.id].status = "SUBMITTED" BY <2>1, <3>1 DEF Operations
    <3>3. id # handler.id => journal'[id] = journal[id] BY <2>1, <3>1
    <3> QED BY <3>2, <3>3
  <2>4. CASE store
    <3>1. journal' = [journal EXCEPT ![handler.id] = handler.file] BY <2>4 DEF store
    <3>2. handler.file.status \notin {"ABSENT", "SIGNED"}
      BY <1>1, <2>4 DEF store, At, IInv, PlaceIsRight
    <3> QED BY <2>1, <3>1, <3>2
  <2>5. CASE Calls \/ stop \/ fundLoan \/ create
    BY <2>5 DEF Calls, setup, prepareRequest, refusal, repay, withdraw, Start, stop, fundLoan,
                create, FilesAlone
  <2>6. CASE begin \/ bind \/ recordStep \/ recordRefusal \/ after
    BY <2>6 DEF begin, bind, recordStep, recordRefusal, after, Save
  <2>7. CASE \/ registered \/ registerThrows \/ answered \/ lookupFinds \/ lookupMisses
             \/ boundPassed \/ submit \/ advanceCatches
    BY <2>7 DEF registered, registerThrows, answered, lookupFinds, lookupMisses, boundPassed,
                submit, advanceCatches, FilesAlone
  <2>8. CASE \E other \in Ids : validate(other) \/ boundPasses(other)
    BY <2>8 DEF validate, boundPasses, FilesAlone
  <2>9. CASE UNCHANGED vars BY <2>9 DEF vars
  <2> QED BY <1>1, <2>2, <2>3, <2>4, <2>5, <2>6, <2>7, <2>8, <2>9 DEF Next, Step
<1>2. IInv /\ [Next]_vars => [\A id \in Ids : journal[id].status # "ABSENT" =>
          /\ journal'[id].status \notin {"ABSENT", "SIGNED"} \/ journal'[id] = journal[id]
          /\ journal'[id].amount = journal[id].amount
          /\ journal[id].result # "none" => journal'[id] = journal[id]]_vars
  BY <1>1, StepKeeps DEF Grows, Bound
<1> QED BY <1>2, Consistency, PTL DEF Spec, OneBlob

\* A positive yield is earned and empties the vault, provided that the interest
\* is no more than the deposit: a refusal that moved the deposit after all would
\* otherwise leave proceeds that look like a profit.
THEOREM PositiveYieldIsEarned ==
    ASSUME Interest <= Deposit
    PROVE  Spec => []YieldIsEarned
<1>1. IInv => YieldIsEarned
  <2> SUFFICES ASSUME IInv, record.yield = "positive"
               PROVE  Repaid /\ Succeeded("withdraw") /\ ~Succeeded("native-refusal")
                      /\ VaultAvailable = 0
    BY DEF YieldIsEarned
  <2> DEFINE amount == journal["withdraw"].amount
  <2>1. Succeeded("withdraw") /\ amount > Deposit
    BY DEF IInv, IsTrue, Realised, JournalIsSound, Succeeded, Ids
  <2>2. Bound("withdraw") BY <2>1, DecidedIsBound DEF Succeeded, Ids
  <2>3. Repaid BY <2>2 DEF IInv, JournalIsSound, Needs, Ids
  <2>4. request = "funded"
    BY <2>3, DecidedIsBound DEF Repaid, Succeeded, IInv, JournalIsSound, Needs, Ids
  <2>5. Deposited BY <2>4, FundedIsDeposited
  <2>6. amount = Deposit + Interest
    BY <2>1, <2>2, AmountsAssumption DEF IInv, LedgerIsSound, Whole
  <2>7. VaultAvailable =
           Deposit + Interest - (IF Succeeded("native-refusal") THEN Deposit ELSE 0) - amount
    BY <2>1, <2>3, <2>4, <2>5, <2>6, AmountsAssumption DEF VaultAvailable, Withdrawn
  <2> QED BY <2>1, <2>3, <2>6, <2>7, AmountsAssumption DEF IInv, LedgerIsSound
<1> QED BY <1>1, Consistency, PTL
-----------------------------------------------------------------------------
(* What the operator is offered: the record knows the deposit by the time   *)
(* it knows anything that setup does later.                                 *)
DepositKnown(rec) == rec.steps["deposit"] = "tesSUCCESS"
LaterKnown(rec) == rec.steps["broker"] # "none" \/ rec.steps["cover"] # "none"
Complete(rec) == LaterKnown(rec) => DepositKnown(rec)

SetupIsKnown ==
    /\ Complete(record)
    /\ handler.pc # "idle" => Complete(handler.rec)
    /\ handler.pc \in Working /\ handler.id \in {"broker", "cover"} => DepositKnown(handler.rec)

\* A handler that only moves, starts on the record as it is, or ends.
LEMMA MovesKeepKnown ==
    ASSUME SetupIsKnown, record' = record,
           \/ handler' = Idle \/ handler' = handler
           \/ SameOperation /\ handler.pc \in Working
           \/ SameOperation /\ handler'.pc = "bind" /\ handler.pc = "create"
           \/ /\ handler'.id \notin {"broker", "cover"}
              /\ handler'.rec.steps = record.steps
    PROVE  SetupIsKnown'
<1>1. Complete(record)' BY DEF SetupIsKnown, Complete, LaterKnown, DepositKnown
<1>2. CASE handler' = Idle BY <1>1, <1>2, IdleIsAHandler DEF SetupIsKnown, Working, Flying
<1>3. CASE handler' = handler
  BY <1>1, <1>3 DEF SetupIsKnown, Complete, LaterKnown, DepositKnown
<1>4. CASE SameOperation /\ handler.pc \in Working
  BY <1>1, <1>4 DEF SetupIsKnown, Complete, LaterKnown, DepositKnown, SameOperation, Working, Flying
<1>5. CASE SameOperation /\ handler'.pc = "bind" /\ handler.pc = "create"
  BY <1>1, <1>5 DEF SetupIsKnown, Complete, LaterKnown, DepositKnown, SameOperation, Working, Flying
<1>6. CASE handler'.id \notin {"broker", "cover"} /\ handler'.rec.steps = record.steps
  BY <1>1, <1>6 DEF SetupIsKnown, Complete, LaterKnown, DepositKnown
<1> QED BY <1>2, <1>3, <1>4, <1>5, <1>6

LEMMA CallsKeepKnown == ASSUME IInv, SetupIsKnown, Calls PROVE SetupIsKnown'
<1>1. record \in CycleRecords BY RecordIsItself
<1>2. ASSUME NEW op, NEW id, id \notin {"broker", "cover"}, NEW pc, NEW amount, NEW rec,
             rec.steps = record.steps, Start(op, id, pc, amount, rec)
      PROVE  SetupIsKnown'
  <2>1. handler'.id = id /\ handler'.rec = rec /\ record' = record BY <1>2 DEF Start
  <2> QED BY <1>2, <2>1, MovesKeepKnown
<1>3. CASE setup
  <2> DEFINE rec == [record EXCEPT !.exists = TRUE]
  <2>1. Start("setup", "vault", "begin", 0, rec) BY <1>3 DEF setup
  <2>2. rec \in CycleRecords /\ rec.steps = record.steps BY <1>1 DEF CycleRecords
  <2> HIDE DEF rec
  <2> QED BY <1>2, <2>1, <2>2
<1>4. CASE prepareRequest
  <2> DEFINE rec == [record EXCEPT !.requestId = TRUE]
  <2>2. rec \in CycleRecords /\ rec.steps = record.steps BY <1>1 DEF CycleRecords
  <2>3. PICK pc : Start("prepareRequest", "vault", pc, 0, rec) BY <1>4 DEF prepareRequest
  <2> HIDE DEF rec
  <2> QED BY <1>2, <2>2, <2>3
<1>5. CASE refusal BY <1>2, <1>5 DEF refusal
<1>6. CASE repay
  <2>1. PICK id \in {"repay", "repay-late"} : Start("repay", id, "register", Principal + Interest, record)
    BY <1>6 DEF repay
  <2> QED BY <1>2, <2>1
<1>7. CASE withdraw
  <2>1. PICK amount : Start("withdraw", "withdraw", "register", amount, record)
    BY <1>7 DEF withdraw
  <2> QED BY <1>2, <2>1
<1> QED BY <1>3, <1>4, <1>5, <1>6, <1>7 DEF Calls

\* A result on record never replaces that of the deposit by another.
LEMMA RecordStepKeepsKnown == ASSUME IInv, SetupIsKnown, recordStep PROVE SetupIsKnown'
<1> DEFINE rec == [handler.rec EXCEPT !.steps[handler.id] = journal[handler.id].result]
<1>1. /\ handler.pc = "record" /\ record' = rec
      /\ \/ handler' = [handler EXCEPT !.pc = "after", !.rec = rec]
         \/ handler' = Idle
  BY DEF recordStep, At, Save
<1>2. /\ handler.rec \in CycleRecords /\ handler.id \in Ids /\ IsTrue(handler.rec)
      /\ journal[handler.id].result = verdict[handler.id]
      /\ journal[handler.id].result \in Results
  BY <1>1 DEF IInv, TypeOK, Handlers, Operations, CopyIsTrue, PlaceIsRight, JournalIsSound
<1>3. /\ rec \in CycleRecords /\ rec.steps[handler.id] = verdict[handler.id]
      /\ \A id \in Ids : id # handler.id => rec.steps[id] = handler.rec.steps[id]
  BY <1>2 DEF CycleRecords
<1>4. handler.id = "deposit" => verdict["deposit-funded"] = "none"
  BY <1>1 DEF IInv, OperationIsDue, Working, Flying, JournalIsSound, Ids
<1>5. /\ Complete(handler.rec)
      /\ handler.id \in {"broker", "cover"} => DepositKnown(handler.rec)
  BY <1>1 DEF SetupIsKnown, Working, Flying
<1> HIDE DEF rec
<1>6. DepositKnown(handler.rec) => DepositKnown(rec)
  BY <1>2, <1>3, <1>4 DEF DepositKnown, IsTrue, Ids
<1>7. Complete(rec) /\ (handler.id \in {"broker", "cover"} => DepositKnown(rec))
  BY <1>3, <1>5, <1>6 DEF Complete, LaterKnown, Ids
<1>8. Complete(record)' BY <1>1, <1>7 DEF Complete, LaterKnown, DepositKnown
<1>9. CASE handler' = Idle BY <1>8, <1>9, IdleIsAHandler DEF SetupIsKnown, Working, Flying
<1>10. CASE handler' = [handler EXCEPT !.pc = "after", !.rec = rec]
  <2>1. handler'.rec = rec /\ handler'.id = handler.id
    BY <1>10 DEF IInv, TypeOK, Handlers
  <2> QED BY <1>7, <1>8, <2>1 DEF SetupIsKnown, Complete, LaterKnown, DepositKnown
<1> QED BY <1>1, <1>9, <1>10

LEMMA AfterKeepsKnown == ASSUME IInv, SetupIsKnown, after PROVE SetupIsKnown'
<1> DEFINE rec == After(handler.id, handler.rec)
           next == Follows(handler.id)
<1>1. /\ handler.pc = "after" /\ record' = rec
      /\ \/ handler' = Idle
         \/ /\ handler.id \notin LastOf
            /\ handler' = [handler EXCEPT !.id = next, !.pc = "register", !.rec = rec]
  BY DEF after, At, Save
<1>2. /\ handler.rec \in CycleRecords /\ handler.id \in Ids
      /\ handler.rec.steps[handler.id] = "tesSUCCESS"
  BY <1>1 DEF IInv, TypeOK, Handlers, PlaceIsRight
<1>3. /\ Complete(handler.rec)
      /\ handler.id \in {"broker", "cover"} => DepositKnown(handler.rec)
  BY <1>1 DEF SetupIsKnown, Working, Flying
<1>4. /\ handler.id = "deposit-funded" => DepositKnown(rec)
      /\ handler.id # "deposit-funded" => rec.steps = handler.rec.steps
      /\ rec.steps["broker"] = handler.rec.steps["broker"]
      /\ rec.steps["cover"] = handler.rec.steps["cover"]
  BY <1>2 DEF After, CycleRecords, DepositKnown, Ids
<1> HIDE DEF rec
<1>5. Complete(rec) BY <1>3, <1>4 DEF Complete, LaterKnown, DepositKnown
<1>6. handler.id \notin LastOf /\ next \in {"broker", "cover"} => DepositKnown(rec)
  <2>1. SUFFICES ASSUME handler.id \notin LastOf, next \in {"broker", "cover"} PROVE DepositKnown(rec)
    OBVIOUS
  <2>2. handler.id \in {"vault", "deposit", "lender-topup", "deposit-funded", "broker"}
    BY <1>1, <1>2, <2>1 DEF IInv, PlaceIsRight, OperationIsDue, Working, Flying, Ids, LastOf
  <2>3. handler.id \in {"deposit", "deposit-funded", "broker"}
    BY <2>1, <2>2 DEF Follows
  <2> QED BY <1>2, <1>3, <1>4, <2>3 DEF DepositKnown
<1>7. Complete(record)' BY <1>1, <1>5 DEF Complete, LaterKnown, DepositKnown
<1>8. CASE handler' = Idle BY <1>7, <1>8, IdleIsAHandler DEF SetupIsKnown, Working, Flying
<1>9. CASE /\ handler.id \notin LastOf
           /\ handler' = [handler EXCEPT !.id = next, !.pc = "register", !.rec = rec]
  <2> HIDE DEF next
  <2>1. handler'.rec = rec /\ handler'.id = next
    BY <1>9 DEF IInv, TypeOK, Handlers
  <2> QED BY <1>5, <1>6, <1>7, <1>9, <2>1 DEF SetupIsKnown, Complete, LaterKnown, DepositKnown
<1> QED BY <1>1, <1>8, <1>9

LEMMA StepKeepsKnown == ASSUME IInv, SetupIsKnown, [Next]_vars PROVE SetupIsKnown'
<1>1. handler \in Handlers /\ TypeOK BY DEF IInv, TypeOK
<1>2. ASSUME NEW pc \in Pcs, Goto(pc) PROVE SameOperation /\ handler'.pc = pc
  BY <1>1, <1>2, GotoMoves
<1>3. ASSUME NEW status \in Statuses, NEW result \in Results \cup {"none"}, Store(status, result)
      PROVE  SameOperation
  BY <1>1, <1>3, StoreMoves
<1>4. CASE Calls BY <1>4, CallsKeepKnown
<1>5. CASE signOnce \/ registered \/ answered \/ lookupMisses \/ saveSubmitted
  <2>1. record' = record /\ handler.pc \in Working
    BY <1>5 DEF signOnce, registered, answered, lookupMisses, saveSubmitted, At, FilesAlone, Working, Flying
  <2>2. SameOperation
    BY <1>2, <1>5 DEF signOnce, registered, answered, lookupMisses, saveSubmitted, Pcs, Working, Flying
  <2> QED BY <2>1, <2>2, MovesKeepKnown
<1>6. CASE lookupFinds \/ boundPassed \/ submit \/ advanceCatches
  <2>1. record' = record /\ handler.pc \in Working
    BY <1>6 DEF lookupFinds, boundPassed, submit, advanceCatches, At, FilesAlone, Working, Flying
  <2>2. verdict[handler.id] \in Results \cup {"none"} BY <1>1 DEF TypeOK, Handlers
  <2>3. SameOperation
    BY <1>3, <1>6, <2>2 DEF lookupFinds, boundPassed, submit, advanceCatches, Statuses
  <2> QED BY <2>1, <2>3, MovesKeepKnown
<1>7. CASE store
  <2>1. record' = record /\ handler.pc \in Working BY <1>7 DEF store, At, Working, Flying
  <2>2. SameOperation \/ handler' = Idle BY <1>2, <1>7 DEF store, Pcs, Working, Flying
  <2> QED BY <2>1, <2>2, MovesKeepKnown
<1>8. CASE create
  <2>1. record' = record /\ handler.pc = "create" BY <1>8 DEF create, At
  <2>2. SameOperation /\ handler'.pc = "bind" BY <1>2, <1>8 DEF create, Pcs
  <2> QED BY <2>1, <2>2, MovesKeepKnown
<1>9. CASE registerThrows \/ stop \/ fundLoan \/ UNCHANGED vars \/ \E id \in Ids : validate(id) \/ boundPasses(id)
  <2>1. record' = record /\ (handler' = handler \/ handler' = Idle)
    BY <1>9 DEF registerThrows, stop, fundLoan, validate, boundPasses, FilesAlone, vars
  <2> QED BY <2>1, MovesKeepKnown
<1>10. CASE begin
  <2>1. /\ record' = handler.rec /\ handler.pc = "begin" /\ SameOperation /\ handler.id = "vault"
    BY <1>2, <1>10 DEF begin, At, Save, Pcs, Working, IInv, PlaceIsRight
  <2> QED BY <2>1 DEF SetupIsKnown, Complete, LaterKnown, DepositKnown, SameOperation
<1>11. CASE bind
  <2>1. record' = handler.rec /\ handler.pc = "bind" /\ handler' = Idle
    BY <1>11 DEF bind, At, Save
  <2> QED BY <2>1, IdleIsAHandler DEF SetupIsKnown, Complete, LaterKnown, DepositKnown, Working, Flying
<1>12. CASE recordRefusal
  <2>1. /\ record' = [handler.rec EXCEPT !.refusal = journal["native-refusal"].result]
        /\ handler.pc = "record" /\ handler' = Idle
    BY <1>12 DEF recordRefusal, At, Save
  <2>2. record'.steps = handler.rec.steps BY <1>1, <2>1 DEF Handlers, CycleRecords
  <2> QED BY <2>1, <2>2, IdleIsAHandler DEF SetupIsKnown, Complete, LaterKnown, DepositKnown, Working, Flying
<1>13. CASE recordStep BY <1>13, RecordStepKeepsKnown
<1>14. CASE after BY <1>14, AfterKeepsKnown
<1> QED BY <1>4, <1>5, <1>6, <1>7, <1>8, <1>9, <1>10, <1>11, <1>12, <1>13, <1>14 DEF Next, Step

\* The operator is offered an operation until the lender's position is
\* redeemed, except while the loan is being agreed and where a handler was cut
\* short at one of two places (dashboard.ts:58-69), for any amounts and faults.
THEOREM AlwaysOffered == Spec => []OfferedUntilRedeemed
<1>1. Init => SetupIsKnown
  <2> SUFFICES ASSUME Init PROVE SetupIsKnown OBVIOUS
  <2>1. record = NoRecord /\ handler.pc = "idle" BY IdleIsAHandler DEF Init
  <2>2. \A id \in Ids : NoRecord.steps[id] = "none" BY DEF NoRecord
  <2> QED BY <2>1, <2>2 DEF SetupIsKnown, Complete, LaterKnown, Ids, Working, Flying
<1>2. IInv /\ SetupIsKnown /\ [Next]_vars => SetupIsKnown' BY StepKeepsKnown
<1>3. IInv /\ SetupIsKnown => OfferedUntilRedeemed
  <2> SUFFICES ASSUME IInv, SetupIsKnown, cycleActions = {}, request # "prepared", ~CutShort
               PROVE  redeemed
    BY DEF OfferedUntilRedeemed
  <2>1. /\ StepSucceeded("cover")
        /\ ~(StepSucceeded("cover") /\ request = "none")
        /\ ~(funded /\ ~repaid)
        /\ ~(repaid /\ ~StepSucceeded("withdraw"))
    BY DEF cycleActions
  <2>2. request = "funded" BY <2>1 DEF IInv, TypeOK
  <2>3. StepSucceeded("withdraw") /\ record.yield # "none"
    BY <2>1, <2>2 DEF CutShort, funded
  <2>4. DepositKnown(record)
    BY <2>1 DEF SetupIsKnown, Complete, LaterKnown, StepSucceeded
  <2> QED BY <2>3, <2>4 DEF redeemed, deposited, StepSucceeded, DepositKnown
<1> QED BY <1>1, <1>2, <1>3, Consistency, PTL DEF Spec
=============================================================================
