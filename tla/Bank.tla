-------------------------------- MODULE Bank --------------------------------
(***************************************************************************)
(* The transaction service and the ledger together: TransferService with    *)
(* the real Ledger in the place of LedgerPromise.  A request of the ledger  *)
(* is an attempt <<s, n>>, the n-th of submission s; its body is what the   *)
(* attempt carries, and the ledger's answer is what the service's client    *)
(* gets, if it still waits.                                                 *)
(***************************************************************************)
EXTENDS Ledger

CONSTANTS
    Submissions, Bodies, Users, Keys, NoAccount, AccountOf, External,
    FraudLimit, TopupLimit, MaxAttempts,   \* as in TransferService
    MaxFailures    \* bound on what fails in the service and its database

VARIABLES request, handler, tries, outcome, keys, server, failures

Service ==
    INSTANCE TransferService
      WITH Requests <- Bodies, Names <- Names \ {NoAccount}, MaxFaults <- MaxFailures,
           pc <- handler, reply <- answer, faults <- failures

ASSUME BankAssumption ==
    /\ Bodies \subseteq Service!Submission
    /\ Accounts \subseteq Names \ {NoAccount}
    /\ External \in Names \ {NoAccount}
    /\ AccountOf \in [Users -> (Accounts \ {External}) \cup {NoAccount}]
    /\ FraudLimit \in Nat
    /\ TopupLimit \in Nat
    /\ MaxAttempts \in Nat \ {0}
    /\ MaxFailures \in Nat
    /\ Requests = Service!Attempts
    /\ \A s \in Submissions, q \in Bodies : Service!Charge(s, q) \in Calls

(* What only the service sees, and what only the ledger sees. *)
front == <<request, handler, tries, outcome, keys, server, failures>>
back  == <<call, pc, seen, balance, journal, events, handled, faults>>

bank == <<front, back, transactions, answer>>

-----------------------------------------------------------------------------
BankInit ==
    /\ Service!Init
    /\ call = [at \in Requests |-> Service!Payload(at)]
    /\ Init

(* A step of a handler, its database or its process. *)
ServiceSteps ==
    /\ \/ \E s \in Submissions :
             Service!Reserve(s) \/ Service!Handle(s) \/ Service!DatabaseFails(s)
       \/ Service!Crash \/ Service!Sigterm \/ Service!Exit
    /\ UNCHANGED back

(* A launched attempt reaches the ledger, now or much later. *)
Arrive(at) ==
    /\ at[2] <= tries[at[1]]
    /\ Receive(at)
    /\ UNCHANGED front

(* A step of a thread of the ledger, its database or its process. *)
LedgerSteps ==
    /\ \/ \E at \in Requests : Serve(at) \/ Fail(at) \/ HandleEvent(at)
       \/ Crash
    /\ UNCHANGED front

AllDone ==
    /\ \A s \in Submissions : handler[s] = "done"
    /\ \A at \in Requests : pc[at] = "done" \/ at[2] > tries[at[1]]
    /\ events = {}
    /\ UNCHANGED bank

BankNext ==
    \/ ServiceSteps
    \/ \E at \in Requests : Arrive(at)
    \/ LedgerSteps
    \/ AllDone

BankSpec == BankInit /\ [][BankNext]_bank

(* Fairness is the service's: its handlers and timers go on.  The network  *)
(* and the ledger owe nothing.                                             *)
FairBankSpec == BankSpec /\ Service!Fairness

-----------------------------------------------------------------------------
(* The two halves fit: whatever the real ledger does behind it, with its    *)
(* threads, locks and crashes, the service sees no more than LedgerPromise  *)
(* allows, so that what is shown of TransferService holds here.             *)
ImplementsService == Service!Spec

Debits(k) == {e \in journal : e.type = "DEBIT" /\ request[e.txn[1]].key = k}

(* From end to end: the submissions that share an Idempotency-Key debit an *)
(* account once at most between them, whatever the two clients retry and   *)
(* whichever process stops where.                                          *)
KeyDebitsOnce ==
    \A k \in Keys : \A d, e \in Debits(k) : d = e

(* Whoever is told that the money has moved finds both sides of it in the  *)
(* journal, under one row and with the right amount.                       *)
SuccessIsInTheBooks ==
    \A s \in Submissions :
        Service!Told(s) = "success" =>
            \E r \in Requests :
                /\ call[r] = Service!Payload(<<s, 1>>)
                /\ Entries(r) \subseteq journal

(* Every handler answers, although its ledger may starve for connections,  *)
(* crash or never be reached: the retry loop and each wait are bounded.    *)
EveryHandlerAnswers == Service!EveryHandlerAnswers

(* As long as nothing fails in the service and its database, the key of a  *)
(* well-formed submission does not stay in_progress, whatever becomes of   *)
(* the ledger.                                                             *)
KeysSettle == Service!KeysSettle

(* The reports' reading of a safe retry, with a real ledger behind it: a   *)
(* transfer that is refused for want of funds has not been posted by an    *)
(* earlier attempt.                                                        *)
RefusedMeansUnposted == Service!RefusedMeansUnposted
=============================================================================
