----------------------------- MODULE BankProofs -----------------------------
(***************************************************************************)
(* Proofs about Bank for any submissions, bodies, accounts, pool size,      *)
(* numbers of attempts and of faults on either side.  The ledger's proofs   *)
(* hold of the ledger in it as they stand, since it takes only steps of     *)
(* Ledger; with LedgerPromise in between it is a TransferService, and what  *)
(* is proved of that holds as well.                                         *)
(***************************************************************************)
EXTENDS Bank, LedgerBooksProofs

(* A request's body is what its attempt carries. *)
BodiesAgree == call = [at \in Requests |-> Service!Payload(at)]

(* Double entry: an entry belongs to a row, a row has both of its entries. *)
DoubleEntry ==
    /\ \A e \in journal : Row(e.txn) \in transactions /\ e.txn \in Requests /\ e \in Entries(e.txn)
    /\ \A r \in Requests : Row(r) \in transactions => Entries(r) \subseteq journal

-----------------------------------------------------------------------------
(* The service has no hand in the ledger's books, and its requests do not   *)
(* change.                                                                  *)
LEMMA ServiceKeepsBooks ==
  ASSUME ServiceSteps
  PROVE  UNCHANGED <<vars, request>>
  <1>1. UNCHANGED back
    BY DEF ServiceSteps
  <1>2. ASSUME NEW s \in Submissions, Service!Handle(s)
        PROVE  UNCHANGED <<request, transactions, answer>>
    BY <1>2 DEF Service!Handle, Service!Decode, Service!FraudCheck, Service!LedgerAnswers,
         Service!CallFails, Service!Complete, Service!MarkFailed, Service!books
  <1>3. ASSUME NEW s \in Submissions, Service!Reserve(s) \/ Service!DatabaseFails(s)
        PROVE  UNCHANGED <<request, transactions, answer>>
    BY <1>3 DEF Service!Reserve, Service!DatabaseFails, Service!ReserveFails,
         Service!LookupFails, Service!CompleteFails, Service!MarkFailedFails, Service!books
  <1>4. ASSUME Service!Crash \/ Service!Sigterm \/ Service!Exit
        PROVE  UNCHANGED <<request, transactions, answer>>
    BY <1>4 DEF Service!Crash, Service!Sigterm, Service!Exit, Service!Killed, Service!books
  <1>5. UNCHANGED <<request, transactions, answer>>
    BY <1>2, <1>3, <1>4 DEF ServiceSteps
  <1> QED
    BY <1>1, <1>5 DEF vars, back

(* Every step of the bank is one of its ledger, or leaves that alone. *)
LEMMA StepOfLedger == [BankNext]_bank => [Next]_vars
  <1>1. ServiceSteps => UNCHANGED vars
    BY ServiceKeepsBooks
  <1>2. ASSUME NEW at \in Requests, Arrive(at) PROVE Next
    BY <1>2 DEF Arrive, Next
  <1>3. LedgerSteps => Next
    BY DEF LedgerSteps, Next
  <1>4. AllDone \/ UNCHANGED bank => UNCHANGED vars
    BY DEF AllDone, bank, back, vars
  <1> QED
    BY <1>1, <1>2, <1>3, <1>4 DEF BankNext

(* The ledger in the bank is a ledger: what is proved of Ledger holds here. *)
THEOREM BankHasLedger == BankSpec => Spec
  <1>1. BankInit => Init
    BY DEF BankInit
  <1> QED
    BY <1>1, StepOfLedger, PTL DEF BankSpec, Spec

(* No step of the ledger changes a body. *)
LEMMA LedgerKeepsCalls == [Next]_vars => UNCHANGED call
  BY DEF Next, Serve, Fail, Finished, vars, Receive, BeginOuter, Lookup, BeginInner,
         ConnectionTimeout, ReadFrom, ReadTo, Insert, InsertTooLong, Post, Debit, Commit,
         DeadlockAbort, Resolve, Finish, HookThrows, CommitUnacknowledged, InnerFails, OuterFails,
         HandleEvent, Crash

LEMMA BodiesStay == BodiesAgree /\ [BankNext]_bank => BodiesAgree'
  <1>1. [BankNext]_bank => UNCHANGED request
    BY ServiceKeepsBooks
       DEF BankNext, Arrive, LedgerSteps, AllDone, bank, front
  <1> QED
    BY <1>1, StepOfLedger, LedgerKeepsCalls DEF BodiesAgree, Service!Payload

LEMMA BankBodies == BankSpec => []BodiesAgree
  <1>1. BankInit => BodiesAgree
    BY DEF BankInit, BodiesAgree
  <1> QED
    BY <1>1, BodiesStay, PTL DEF BankSpec

-----------------------------------------------------------------------------
(* Only an arriving request becomes pending. *)
LEMMA OnlyArrivalsPend ==
  ASSUME IInv, LedgerSteps, NEW r \in Requests, answer[r] = "unsent"
  PROVE  answer'[r] # "pending"
  <1>1. ASSUME NEW q \in Requests, NEW a, Respond(q, a), a # "pending" PROVE answer'[r] # "pending"
    BY <1>1 DEF Respond, IInv, TypeOK
  <1>2. ASSUME NEW q \in Requests, AnswerFromExisting(q) PROVE answer'[r] # "pending"
    BY <1>1, <1>2 DEF AnswerFromExisting
  <1>3. CASE UNCHANGED answer
    BY <1>3
  <1>4. ASSUME NEW q \in Requests, Serve(q) PROVE answer'[r] # "pending"
    BY <1>1, <1>2, <1>3, <1>4
       DEF Serve, BeginOuter, Lookup, BeginInner, ConnectionTimeout, ReadFrom, ReadTo, Insert,
           InsertTooLong, Post, Debit, Commit, DeadlockAbort, Resolve, Finish
  <1>5. ASSUME NEW q \in Requests, Fail(q) \/ HandleEvent(q) PROVE answer'[r] # "pending"
    BY <1>1, <1>3, <1>5
       DEF Fail, HookThrows, CommitUnacknowledged, InnerFails, OuterFails, HandleEvent
  <1>6. CASE Crash
    BY <1>6 DEF Crash
  <1> QED
    BY <1>4, <1>5, <1>6 DEF LedgerSteps

(* Every step of the bank is one of the service: what the ledger does is    *)
(* what LedgerPromise lets it do.                                           *)
LEMMA StepOfService ==
  ASSUME IInv, BodiesAgree, BodiesAgree', [BankNext]_bank
  PROVE  [Service!Next]_(Service!vars)
  <1>0. /\ Requests = Service!Attempts
        /\ [at \in Service!Attempts |-> Service!Payload(at)] = call
        /\ [at \in Service!Attempts |-> Service!Payload(at)]' = call'
    BY BankAssumption DEF BodiesAgree, Service!Attempts
  <1>1. CASE ServiceSteps
    BY <1>1 DEF ServiceSteps, Service!Next
  <1>2. ASSUME NEW at \in Requests, Arrive(at) PROVE Service!Next
    <2>1. Service!Ledger!Send(at)
      BY <1>0, <1>2 DEF Arrive, Receive, IInv, AnswersFollowControl, store, Service!Ledger!Send
    <2>2. Service!Deliver(at)
      BY <1>2, <2>1 DEF Arrive, front, Service!Deliver
    <2> QED
      BY <1>0, <2>2 DEF Service!Next
  <1>3. CASE LedgerSteps
    <2>1. UNCHANGED front
      BY <1>3 DEF LedgerSteps
    <2>2. [Promise!Next]_(Promise!vars)
      BY <1>3, NextRefines DEF LedgerSteps, Next
    <2>3. ASSUME NEW r \in Requests, Promise!Send(r) PROVE FALSE
      BY <1>3, <2>3, OnlyArrivalsPend DEF Promise!Send, IInv, TypeOK
    <2>4. ASSUME NEW r \in Requests, Promise!Post(r) PROVE Service!Next
      <3>1. Service!Ledger!Post(r)
        BY <1>0, <2>4
           DEF Promise!Post, Promise!Acceptable, Promise!RefTaken, Promise!Row,
               Service!Ledger!Post, Service!Ledger!Acceptable, Service!Ledger!RefTaken,
               Service!Ledger!Row
      <3>2. Service!LedgerServes(r)
        BY <2>1, <3>1 DEF front, Service!LedgerServes
      <3> QED
        BY <1>0, <3>2 DEF Service!Next
    <2>5. ASSUME NEW r \in Requests, Promise!Reply(r) PROVE Service!Next
      <3>1. Service!Ledger!Justified(r) = Promise!Justified(r)
        BY <1>0
           DEF Promise!Justified, Promise!Answers, Promise!Refusals, Promise!Row, Promise!PostedAs,
               Promise!RefTaken, Promise!Acceptable,
               Service!Ledger!Justified, Service!Ledger!Answers, Service!Ledger!Refusals,
               Service!Ledger!Row, Service!Ledger!PostedAs, Service!Ledger!RefTaken,
               Service!Ledger!Acceptable
      <3>2. Service!Ledger!Reply(r)
        BY <1>0, <2>5, <3>1 DEF Promise!Reply, Service!Ledger!Reply
      <3>3. Service!LedgerServes(r)
        BY <2>1, <3>2 DEF front, Service!LedgerServes
      <3> QED
        BY <1>0, <3>3 DEF Service!Next
    <2>6. CASE Promise!Lose
      <3>1. Service!Ledger!Lose
        BY <1>0, <2>6 DEF Promise!Lose, Service!Ledger!Lose
      <3> QED
        BY <2>1, <3>1 DEF front, Service!LedgerCrashes, Service!Next
    <2>7. CASE UNCHANGED Promise!vars
      BY <2>1, <2>7 DEF Promise!vars, front, Service!vars
    <2> QED
      BY <2>2, <2>3, <2>4, <2>5, <2>6, <2>7 DEF Promise!Next
  <1>4. CASE AllDone \/ UNCHANGED bank
    BY <1>4 DEF AllDone, bank, front, Service!vars
  <1> QED
    BY <1>1, <1>2, <1>3, <1>4 DEF BankNext

(* The bank is a TransferService. *)
THEOREM BankIsService == BankSpec => ImplementsService
  <1>1. BankInit => Service!Init
    BY DEF BankInit
  <1>2. BankSpec => []IInv
    BY BankHasLedger, SpecIInv
  <1> QED
    BY <1>1, <1>2, BankBodies, StepOfService, PTL DEF BankSpec, ImplementsService, Service!Spec

-----------------------------------------------------------------------------
(* The same service once more, with what is proved of it. *)
Client ==
    INSTANCE TransferServiceProofs
      WITH Requests <- Bodies, Names <- Names \ {NoAccount}, MaxFaults <- MaxFailures,
           pc <- handler, reply <- answer, faults <- failures

LEMMA SameSpec == Service!Spec <=> Client!Spec
  BY PTL
     DEF Service!Spec, Client!Spec, Service!Init, Client!Init, Service!Next, Client!Next,
         Service!vars, Client!vars, Service!books, Client!books, Service!Attempts,
         Client!Attempts, Service!Attempt, Client!Attempt, Service!Payload, Client!Payload,
         Service!Charge, Client!Charge, Service!Unsent, Client!Unsent, Service!Relayed,
         Client!Relayed, Service!InHandler, Client!InHandler, Service!Key, Client!Key,
         Service!Goto, Client!Goto, Service!Decide, Client!Decide, Service!Mark, Client!Mark,
         Service!Fault, Client!Fault, Service!Launch, Client!Launch, Service!DecodeTransfer,
         Client!DecodeTransfer, Service!DecodeTopup, Client!DecodeTopup, Service!Approved,
         Client!Approved, Service!RetryOrGiveUp, Client!RetryOrGiveUp, Service!Killed,
         Client!Killed, Service!Reserve, Client!Reserve, Service!ReserveFails,
         Client!ReserveFails, Service!Decode, Client!Decode, Service!LookupFails,
         Client!LookupFails, Service!FraudCheck, Client!FraudCheck, Service!LedgerAnswers,
         Client!LedgerAnswers, Service!CallFails, Client!CallFails, Service!Complete,
         Client!Complete, Service!CompleteFails, Client!CompleteFails, Service!MarkFailed,
         Client!MarkFailed, Service!MarkFailedFails, Client!MarkFailedFails, Service!Deliver,
         Client!Deliver, Service!LedgerServes, Client!LedgerServes, Service!LedgerCrashes,
         Client!LedgerCrashes, Service!Crash, Client!Crash, Service!Sigterm, Client!Sigterm,
         Service!Exit, Client!Exit, Service!Finished, Client!Finished, Service!Handle,
         Client!Handle, Service!DatabaseFails, Client!DatabaseFails, Service!Ledger!Refusals,
         Client!Ledger!Refusals, Service!Ledger!Answers, Client!Ledger!Answers,
         Service!Ledger!Row, Client!Ledger!Row, Service!Ledger!Acceptable,
         Client!Ledger!Acceptable, Service!Ledger!PostedAs, Client!Ledger!PostedAs,
         Service!Ledger!RefTaken, Client!Ledger!RefTaken, Service!Ledger!Send,
         Client!Ledger!Send, Service!Ledger!Post, Client!Ledger!Post,
         Service!Ledger!Justified, Client!Ledger!Justified, Service!Ledger!Reply,
         Client!Ledger!Reply, Service!Ledger!Lose, Client!Ledger!Lose

(* Hence what is proved of TransferService holds of the service in here. *)
LEMMA BankIsClient == BankSpec => Client!Spec
  BY BankIsService, SameSpec DEF ImplementsService

LEMMA ClientAssumption == Client!TransferAssumption
  BY BankAssumption DEF Client!TransferAssumption, Client!Submission, Service!Submission

LEMMA ServicePromises ==
  BankSpec => [](Client!KeyMovesMoneyOnce /\ Client!CompletedKeysAreDecided)
  <1>1. Client!Spec => []Client!KeyMovesMoneyOnce
    BY ClientAssumption, Client!OneMovePerKey, PTL DEF Client!OneMovePerKey, Client!TransferAssumption
  <1>2. Client!Spec => []Client!CompletedKeysAreDecided
    BY ClientAssumption, Client!DecidedKeys, PTL DEF Client!DecidedKeys, Client!TransferAssumption
  <1> QED
    BY <1>1, <1>2, BankIsClient, PTL

-----------------------------------------------------------------------------
(* Entries come with their rows, and rows with both of their entries. *)
LEMMA NextDoubleEntry ==
  ASSUME IInv, DoubleEntry, [Next]_vars
  PROVE  DoubleEntry'
  <1>0. UNCHANGED call
    BY LedgerKeepsCalls
  <1>1. ASSUME NEW r \in Requests, Apply(r) PROVE DoubleEntry'
    <2>1. transactions' = transactions \cup {Row(r)} /\ journal' = journal \cup Entries(r)
      BY <1>1 DEF Apply
    <2>2. \A q \in Requests : Row(q)' = Row(q) /\ Entries(q)' = Entries(q)
      BY <1>0 DEF Row, Entries, Entry
    <2>3. \A e \in Entries(r) : e.txn = r
      BY DEF Entries, Entry
    <2>4. \A q \in Requests : Row(q) = Row(r) => q = r
      BY DEF Row
    <2> QED
      BY <2>1, <2>2, <2>3, <2>4 DEF DoubleEntry
  <1>2. CASE UNCHANGED store
    BY <1>0, <1>2 DEF store, DoubleEntry, Row, Entries, Entry
  <1> QED
    BY <1>1, <1>2, PostingOrReading DEF Posting

LEMMA BooksAreDouble == Spec => []DoubleEntry
  <1>1. Init => DoubleEntry
    BY DEF Init, DoubleEntry
  <1> QED
    BY <1>1, NextDoubleEntry, SpecIInv, PTL DEF Spec

(* From end to end: the submissions that share an Idempotency-Key debit an  *)
(* account once at most between them.  By the service's half of the         *)
(* argument their rows are one row; by the ledger's, a row has one debit.   *)
THEOREM OneDebitPerKey == BankSpec => []KeyDebitsOnce
  <1>1. ASSUME DoubleEntry, Client!KeyMovesMoneyOnce
        PROVE  KeyDebitsOnce
    <2> SUFFICES ASSUME NEW k \in Keys, NEW d \in Debits(k), NEW e \in Debits(k)
                 PROVE  d = e
      BY DEF KeyDebitsOnce
    <2>1. /\ Row(d.txn) \in transactions /\ d \in Entries(d.txn) /\ d.type = "DEBIT"
          /\ Row(e.txn) \in transactions /\ e \in Entries(e.txn) /\ e.type = "DEBIT"
          /\ request[d.txn[1]].key = request[e.txn[1]].key
      BY <1>1 DEF DoubleEntry, Debits
    <2>2. Row(d.txn) = Row(e.txn)
      BY <1>1, <2>1 DEF Client!KeyMovesMoneyOnce, Client!Key, Row
    <2>3. d.txn = e.txn
      BY <2>2 DEF Row
    <2> QED
      BY <2>1, <2>3 DEF Entries, Entry
  <1> QED
    BY <1>1, ServicePromises, BankHasLedger, BooksAreDouble, PTL

(* Whoever is told that the money has moved finds both sides of it in the   *)
(* journal: the service says so only of a row, and a row has its entries.   *)
THEOREM SuccessInJournal == BankSpec => []SuccessIsInTheBooks
  <1>1. ASSUME IInv, DoubleEntry, Client!CompletedKeysAreDecided
        PROVE  SuccessIsInTheBooks
    <2> SUFFICES ASSUME NEW s \in Submissions, Service!Told(s) = "success"
                 PROVE  \E r \in Requests : /\ call[r] = Service!Payload(<<s, 1>>)
                                            /\ Entries(r) \subseteq journal
      BY DEF SuccessIsInTheBooks
    <2>1. Client!Told(s) = "success"
      BY DEF Service!Told, Client!Told
    <2>2. PICK t \in transactions : t.call = Client!Payload(<<s, 1>>)
      BY <1>1, <2>1 DEF Client!CompletedKeysAreDecided
    <2>3. t.id \in Requests /\ t = Row(t.id)
      BY <1>1 DEF IInv, TypeOK, RowsOwned
    <2>4. call[t.id] = Service!Payload(<<s, 1>>)
      BY <2>2, <2>3
         DEF Row, Service!Payload, Client!Payload, Service!Charge, Client!Charge
    <2> QED
      BY <1>1, <2>3, <2>4 DEF DoubleEntry
  <1>2. BankSpec => []IInv
    BY BankHasLedger, SpecIInv
  <1> QED
    BY <1>1, <1>2, ServicePromises, BankHasLedger, BooksAreDouble, PTL
=============================================================================
