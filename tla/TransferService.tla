--------------------------- MODULE TransferService ---------------------------
(***************************************************************************)
(* POST /transfer and POST /topup of the Go transaction service: handlers   *)
(* that reserve an Idempotency-Key in PostgreSQL, consult the fraud         *)
(* service, call the ledger with bounded retries and record how it ended.   *)
(*                                                                          *)
(* The ledger is the abstract LedgerPromise, which Ledger implements: one   *)
(* of its requests is one attempt of one submission.  An attempt its caller *)
(* has given up on may still arrive, and may still post.  (Bank has the     *)
(* ledger itself in this place.)                                            *)
(***************************************************************************)
EXTENDS Integers, FiniteSets

CONSTANTS
    Submissions,   \* HTTP requests to this service, client retries included
    Requests,      \* what they may carry
    Users,         \* users behind X-User-ID / X-User-Email
    Keys,          \* Idempotency-Key values
    References,    \* references chosen by clients
    Names,         \* well-formed account numbers
    Accounts,      \* account numbers that have a row
    NoAccount,     \* stands for "no row in accounts for this user"
    AccountOf,     \* the account of each user
    External,      \* the account "EXTERNAL" that top-ups are taken from
    FraudLimit,    \* FRAUD_REJECTION_LIMIT
    TopupLimit,    \* 10000000 in the code
    MaxAttempts,   \* HTTP_RETRY_COUNT
    MaxFaults      \* bound on database failures, crashes and SIGTERMs

(* Of a top-up's body only the amount counts. *)
Submission ==
    [kind : {"transfer", "topup"}, user : Users, key : Keys, readable : BOOLEAN,
     ref : References, from : Names, to : Names, amount : Nat]

ASSUME TransferAssumption ==
    /\ Requests \subseteq Submission
    /\ Accounts \subseteq Names
    /\ NoAccount \notin Names
    /\ External \in Names
    /\ AccountOf \in [Users -> (Accounts \ {External}) \cup {NoAccount}]
    /\ FraudLimit \in Nat
    /\ TopupLimit \in Nat
    /\ MaxAttempts \in Nat \ {0}
    /\ MaxFaults \in Nat

VARIABLES
    request,        \* what each submission carries
    pc,             \* where its handler is
    tries,          \* ledger attempts it has launched
    outcome,        \* the answer its handler has settled on
    keys,           \* idempotency_keys.status
    server,         \* "up", or "stopping" after SIGTERM
    transactions,   \* the ledger's committed rows
    reply,          \* what the ledger has answered to each attempt
    faults          \* faults injected so far

books == <<transactions, reply>>
vars == <<request, pc, tries, outcome, keys, server, transactions, reply, faults>>

Attempts == Submissions \X (1..MaxAttempts)

Attempt(s) == <<s, tries[s]>>

(* What submission s, carrying q, asks of the ledger.  The uuid in a       *)
(* top-up's reference is drawn once per submission, which stands for it    *)
(* here.                                                                   *)
Charge(s, q) ==
    IF q.kind = "topup"
    THEN [ref |-> s, from |-> External, to |-> AccountOf[q.user], amount |-> q.amount]
    ELSE [ref |-> q.ref, from |-> q.from, to |-> q.to, amount |-> q.amount]

(* The JSON body of an attempt. *)
Payload(at) == Charge(at[1], request[at[1]])

LedgerCall == [ref : References \cup Submissions, from : Names,
               to : Names \cup {NoAccount}, amount : Nat]

Ledger == INSTANCE LedgerPromise
            WITH Requests <- Attempts, Calls <- LedgerCall,
                 call <- [at \in Attempts |-> Payload(at)], answer <- reply

-----------------------------------------------------------------------------
InHandler == {"decode", "fraud", "call", "complete", "fail"}
PCs       == {"new", "done"} \cup InHandler
Statuses  == {"absent", "in_progress", "completed", "failed"}

(* Answers given without having called the ledger, and after it. *)
Unsent   == {"duplicateRequest", "malformed", "badRequest", "noAccount", "rejected"}
Relayed  == {"conflict"} \cup Ledger!Refusals
Outcomes == {"none", "success", "unavailable", "internal", "lost"} \cup Unsent \cup Relayed

Key(s) == request[s].key

Goto(s, l) == pc' = [pc EXCEPT ![s] = l]

(* The handler knows its answer and goes on to l, "done" being the writing *)
(* of the response.                                                        *)
Decide(s, l, o) ==
    /\ Goto(s, l)
    /\ outcome' = [outcome EXCEPT ![s] = o]

Mark(k, status) == keys' = [keys EXCEPT ![k] = status]

Fault == faults < MaxFaults /\ faults' = faults + 1

Init ==
    /\ request \in [Submissions -> Requests]
    /\ pc = [s \in Submissions |-> "new"]
    /\ tries = [s \in Submissions |-> 0]
    /\ outcome = [s \in Submissions |-> "none"]
    /\ keys = [k \in Keys |-> "absent"]
    /\ server = "up"
    /\ transactions = {}
    /\ reply = [at \in Attempts |-> "unsent"]
    /\ faults = 0

-----------------------------------------------------------------------------
(* Mutant: the handler marks the key of a duplicate as failed. *)
ReserveThenFail(s) ==
    /\ pc[s] = "new"
    /\ server = "up"
    /\ \/ keys[Key(s)] = "absent" /\ Mark(Key(s), "in_progress") /\ Decide(s, "decode", "none")
       \/ keys[Key(s)] # "absent" /\ Decide(s, "fail", "duplicateRequest") /\ UNCHANGED keys
    /\ UNCHANGED <<request, tries, server, books, faults>>

(* Mutant: a key may be taken again once it has failed. *)
ReserveAgain(s) ==
    /\ pc[s] = "new"
    /\ server = "up"
    /\ \/ /\ keys[Key(s)] \in {"absent", "failed"}
          /\ Mark(Key(s), "in_progress")
          /\ Decide(s, "decode", "none")
       \/ /\ keys[Key(s)] \notin {"absent", "failed"}
          /\ Decide(s, "done", "duplicateRequest")
          /\ UNCHANGED keys
    /\ UNCHANGED <<request, tries, server, books, faults>>

(* IdempotencyRepository.Start: the unique index decides. *)
Reserve(s) ==
    /\ pc[s] = "new"
    /\ server = "up"
    /\ \/ keys[Key(s)] = "absent" /\ Mark(Key(s), "in_progress") /\ Decide(s, "decode", "none")
       \/ keys[Key(s)] # "absent" /\ Decide(s, "done", "duplicateRequest") /\ UNCHANGED keys
    /\ UNCHANGED <<request, tries, server, books, faults>>

(* Start fails otherwise, before or after its INSERT took effect. *)
ReserveFails(s) ==
    /\ pc[s] = "new"
    /\ server = "up"
    /\ Fault
    /\ UNCHANGED keys \/ (keys[Key(s)] = "absent" /\ Mark(Key(s), "in_progress"))
    /\ Decide(s, "done", "internal")
    /\ UNCHANGED <<request, tries, server, books>>

(* A ledger attempt is launched: Deliver may bring it there any time later. *)
Launch(s) ==
    /\ Goto(s, "call")
    /\ tries' = [tries EXCEPT ![s] = @ + 1]
    /\ UNCHANGED outcome

(* Mutant: the fraud service is consulted after the ledger, if at all. *)
DecodeTransferUnchecked(s) ==
    /\ request[s].readable /\ request[s].kind = "transfer"
    /\ request[s].amount > 0 /\ request[s].from # request[s].to
    /\ Launch(s)

(* normalizeAndValidate; its refusal marks the key failed. *)
DecodeTransfer(s) ==
    /\ request[s].readable /\ request[s].kind = "transfer"
    /\ \/ /\ request[s].amount > 0 /\ request[s].from # request[s].to
          /\ Goto(s, "fraud")
          /\ UNCHANGED <<tries, outcome>>
       \/ /\ ~(request[s].amount > 0 /\ request[s].from # request[s].to)
          /\ Decide(s, "fail", "badRequest")
          /\ UNCHANGED tries

(* An amount out of range is answered with the key left in_progress, a     *)
(* user without account with the key failed.  What Topup validates after   *)
(* that holds already.                                                     *)
DecodeTopup(s) ==
    LET inRange == 0 < request[s].amount /\ request[s].amount <= TopupLimit
        account == AccountOf[request[s].user]
    IN  /\ request[s].readable /\ request[s].kind = "topup"
        /\ \/ ~inRange /\ Decide(s, "done", "badRequest") /\ UNCHANGED tries
           \/ inRange /\ account = NoAccount /\ Decide(s, "fail", "noAccount") /\ UNCHANGED tries
           \/ inRange /\ account # NoAccount /\ Launch(s)

(* A body that cannot be decoded is answered with the key left in_progress. *)
Decode(s) ==
    /\ pc[s] = "decode"
    /\ \/ ~request[s].readable /\ Decide(s, "done", "malformed") /\ UNCHANGED tries
       \/ DecodeTransfer(s)
       \/ DecodeTopup(s)
    /\ UNCHANGED <<request, keys, server, books, faults>>

(* The lookup of a top-up's account fails. *)
LookupFails(s) ==
    /\ pc[s] = "decode"
    /\ request[s].readable /\ request[s].kind = "topup"
    /\ 0 < request[s].amount /\ request[s].amount <= TopupLimit
    /\ Fault
    /\ Decide(s, "fail", "internal")
    /\ UNCHANGED <<request, tries, keys, server, books>>

(* The decision of the fraud service. *)
Approved(q) == q.amount <= FraudLimit

(* The fraud service keeps no state: its decision and all the retries it   *)
(* may take are one step, which may also end in an error.                  *)
FraudCheck(s) ==
    /\ pc[s] = "fraud"
    /\ \/ ~Approved(request[s]) /\ Decide(s, "complete", "rejected") /\ UNCHANGED tries
       \/ Approved(request[s]) /\ Launch(s)
       \/ Decide(s, "fail", "unavailable") /\ UNCHANGED tries
    /\ UNCHANGED <<request, keys, server, books, faults>>

(* Mutant: the retry loop forgets its bound. *)
RetryForever(s) ==
    /\ Goto(s, "call")
    /\ tries' = [tries EXCEPT ![s] = IF @ < MaxAttempts THEN @ + 1 ELSE @]
    /\ UNCHANGED outcome

(* Mutant: one attempt too many. *)
RetryOnceMore(s) ==
    \/ tries[s] <= MaxAttempts /\ Launch(s)
    \/ tries[s] > MaxAttempts /\ Decide(s, "fail", "unavailable") /\ UNCHANGED tries

(* postJSON after a network error, a timeout or a 5xx. *)
RetryOrGiveUp(s) ==
    \/ tries[s] < MaxAttempts /\ Launch(s)
    \/ tries[s] = MaxAttempts /\ Decide(s, "fail", "unavailable") /\ UNCHANGED tries

(* Mutant: any answer from the ledger counts as success. *)
AnyAnswerIsSuccess(s) ==
    LET a == reply[Attempt(s)]
    IN  /\ pc[s] = "call"
        /\ a \notin {"unsent", "pending", "lost"}
        /\ Decide(s, "complete", "success") /\ UNCHANGED tries
        /\ UNCHANGED <<request, keys, server, books, faults>>

(* Mutant: what the ledger refuses is answered without marking the key. *)
RelayUnmarked(s) ==
    LET a == reply[Attempt(s)]
    IN  /\ pc[s] = "call"
        /\ \/ a \in {"posted", "duplicate"} /\ Decide(s, "complete", "success") /\ UNCHANGED tries
           \/ a \in Relayed /\ Decide(s, "done", a) /\ UNCHANGED tries
           \/ a = "error" /\ RetryOrGiveUp(s)
        /\ UNCHANGED <<request, keys, server, books, faults>>

(* The answer to the present attempt arrives.  Of what is relayed the      *)
(* client gets the status only: the message becomes "Ledger service        *)
(* request failed".                                                        *)
LedgerAnswers(s) ==
    LET a == reply[Attempt(s)]
    IN  /\ pc[s] = "call"
        /\ \/ a \in {"posted", "duplicate"} /\ Decide(s, "complete", "success") /\ UNCHANGED tries
           \/ a \in Relayed /\ Decide(s, "fail", a) /\ UNCHANGED tries
           \/ a = "error" /\ RetryOrGiveUp(s)
        /\ UNCHANGED <<request, keys, server, books, faults>>

(* Whatever has become of the attempt, its connection broke or its 2 s are *)
(* over, or the client has gone and cancelled the context.                 *)
CallFails(s) ==
    /\ pc[s] = "call"
    /\ RetryOrGiveUp(s)
    /\ UNCHANGED <<request, keys, server, books, faults>>

(* Mutant: the key is left as it was. *)
CompleteUnmarked(s) ==
    /\ pc[s] = "complete"
    /\ Goto(s, "done")
    /\ UNCHANGED <<request, tries, outcome, keys, server, books, faults>>

Complete(s) ==
    /\ pc[s] = "complete"
    /\ Mark(Key(s), "completed")
    /\ Goto(s, "done")
    /\ UNCHANGED <<request, tries, outcome, server, books, faults>>

(* The money has moved, or the fraud service has refused, and the caller   *)
(* gets a 500.                                                             *)
CompleteFails(s) ==
    /\ pc[s] = "complete"
    /\ Fault
    /\ UNCHANGED keys \/ Mark(Key(s), "completed")
    /\ Decide(s, "done", "internal")
    /\ UNCHANGED <<request, tries, server, books>>

(* Fail: its own error is ignored. *)
MarkFailed(s) ==
    /\ pc[s] = "fail"
    /\ Mark(Key(s), "failed")
    /\ Goto(s, "done")
    /\ UNCHANGED <<request, tries, outcome, server, books, faults>>

MarkFailedFails(s) ==
    /\ pc[s] = "fail"
    /\ Fault
    /\ Goto(s, "done")
    /\ UNCHANGED <<request, tries, outcome, keys, server, books>>

-----------------------------------------------------------------------------
(* The network: a launched attempt reaches the ledger, now or much later. *)
Deliver(at) ==
    /\ at[2] <= tries[at[1]]
    /\ UNCHANGED <<request, pc, tries, outcome, keys, server, faults>>
    /\ Ledger!Send(at)

(* What the ledger does on its side. *)
LedgerServes(at) ==
    /\ UNCHANGED <<request, pc, tries, outcome, keys, server, faults>>
    /\ Ledger!Post(at) \/ Ledger!Reply(at)

(* The ledger's process ends: what was pending there is never answered. *)
LedgerCrashes ==
    /\ UNCHANGED <<request, pc, tries, outcome, keys, server, faults>>
    /\ Ledger!Lose

(* The process ends with every handler it was running and is started again. *)
Killed ==
    /\ pc' = [s \in Submissions |-> IF pc[s] = "new" THEN "new" ELSE "done"]
    /\ outcome' = [s \in Submissions |->
                     IF pc[s] \in InHandler THEN "lost" ELSE outcome[s]]
    /\ server' = "up"
    /\ UNCHANGED <<request, tries, keys, books>>

Crash == Fault /\ Killed

(* SIGTERM: Shutdown closes the listener ... *)
Sigterm ==
    /\ server = "up"
    /\ Fault
    /\ server' = "stopping"
    /\ UNCHANGED <<request, pc, tries, outcome, keys, books>>

(* ... so ListenAndServe returns, main returns, and nobody has waited for  *)
(* the handlers that are still running.                                    *)
Exit ==
    /\ server = "stopping"
    /\ Killed
    /\ UNCHANGED faults

Finished ==
    /\ \A s \in Submissions : pc[s] = "done"
    /\ UNCHANGED vars

(* What a handler does of its own accord once it has reserved its key. *)
Handle(s) ==
    Decode(s) \/ FraudCheck(s) \/ LedgerAnswers(s) \/ CallFails(s)
        \/ Complete(s) \/ MarkFailed(s)

DatabaseFails(s) ==
    ReserveFails(s) \/ LookupFails(s) \/ CompleteFails(s) \/ MarkFailedFails(s)

Next ==
    \/ \E s \in Submissions : Reserve(s) \/ Handle(s) \/ DatabaseFails(s)
    \/ \E at \in Attempts : Deliver(at) \/ LedgerServes(at)
    \/ LedgerCrashes \/ Crash \/ Sigterm \/ Exit
    \/ Finished

Spec == Init /\ [][Next]_vars

(* Goroutines keep running and the HTTP client's timer ends every call; the *)
(* network and the ledger owe nothing.                                      *)
Fairness == WF_vars(Exit) /\ \A s \in Submissions : WF_vars(Handle(s))

FairSpec == Spec /\ Fairness

-----------------------------------------------------------------------------
TypeOK ==
    /\ request \in [Submissions -> Requests]
    /\ pc \in [Submissions -> PCs]
    /\ tries \in [Submissions -> 0..MaxAttempts]
    /\ outcome \in [Submissions -> Outcomes]
    /\ keys \in [Keys -> Statuses]
    /\ server \in {"up", "stopping"}
    /\ transactions \subseteq [id : Attempts, call : LedgerCall]
    /\ reply \in [Attempts -> Ledger!Answers \cup {"unsent", "pending"}]
    /\ faults \in 0..MaxFaults

Told(s) == IF pc[s] = "done" THEN outcome[s] ELSE "none"

MovedMoney(s) == \E t \in transactions : t.id[1] = s

(* One Idempotency-Key moves money at most once, whatever is retried by    *)
(* the client or by this service, however late an attempt arrives, and     *)
(* wherever a process stops.                                               *)
KeyMovesMoneyOnce ==
    \A t, u \in transactions : Key(t.id[1]) = Key(u.id[1]) => t = u

(* A transfer the fraud service would reject is never in the books, and    *)
(* nothing is that has not reserved its key first.                         *)
FraudAndKeyBeforeLedger ==
    \A t \in transactions :
        LET q == request[t.id[1]]
        IN  /\ q.kind = "transfer" => q.amount <= FraudLimit
            /\ keys[q.key] # "absent"

(* A key is completed only when a submission that carried it is posted in  *)
(* the ledger, by itself or an earlier one, or is beyond the fraud limit;  *)
(* and a caller told so can rely on it.                                    *)
CompletedKeysAreDecided ==
    /\ \A k \in Keys :
          keys[k] = "completed" =>
            \E s \in Submissions :
                /\ Key(s) = k
                /\ \/ \E t \in transactions : t.call = Payload(<<s, 1>>)
                   \/ request[s].kind = "transfer" /\ request[s].amount > FraudLimit
    /\ \A s \in Submissions :
          /\ Told(s) \in {"success", "rejected"} => keys[Key(s)] = "completed"
          /\ Told(s) = "success" => \E t \in transactions : t.call = Payload(<<s, 1>>)
          /\ Told(s) \in Unsent => ~MovedMoney(s)

(* Once a key is completed or failed it stays so: no other handler, and no *)
(* later run of the process, touches it.                                   *)
SettledKeysStay ==
    [][\A k \in Keys : keys[k] \in {"completed", "failed"} => keys'[k] = keys[k]]_vars

(* A body that decodes, with an amount in range if it is a top-up's. *)
WellFormed(q) ==
    q.readable /\ (q.kind = "topup" => 0 < q.amount /\ q.amount <= TopupLimit)

(* As long as nothing fails in the service and its database, a key that is *)
(* left in_progress with no handler at work on it, and so is refused to    *)
(* every later request, is that of a body that does not decode or of a     *)
(* top-up out of range; and nothing was ever asked of the ledger under it, *)
(* so that a client who takes a new key risks no second payment.           *)
KeysLeftOpen ==
    faults = 0 =>
        \A k \in Keys :
            keys[k] = "in_progress" /\ (\A s \in Submissions : Key(s) = k => pc[s] \notin InHandler)
            => /\ \E s \in Submissions :
                     /\ Key(s) = k
                     /\ ~WellFormed(request[s])
                     /\ Told(s) \in {"malformed", "badRequest"}
               /\ \A s \in Submissions : Key(s) = k => tries[s] = 0

(* Every handler answers: the retry loop and each wait in it are bounded. *)
EveryHandlerAnswers ==
    \A s \in Submissions : pc[s] = "decode" ~> pc[s] = "done"

(* As long as nothing fails in the service and its database, the key of a  *)
(* well-formed submission does not stay in_progress, whatever the network  *)
(* and the ledger do.                                                      *)
KeysSettle ==
    \A s \in Submissions :
        pc[s] = "decode" /\ WellFormed(request[s])
            ~> faults > 0 \/ keys[Key(s)] \in {"completed", "failed"}

(* The reading of the reports under which a retry, this service's own       *)
(* included, safely returns the existing result: a transfer that is refused *)
(* for want of funds has not been posted by an earlier attempt.             *)
RefusedMeansUnposted ==
    \A s \in Submissions : Told(s) = "insufficient" => ~MovedMoney(s)

(* The comment in main.go: Shutdown finishes the active requests. *)
ShutdownFinishesRequests ==
    [][server = "stopping" /\ server' = "up"
         => \A s \in Submissions : pc[s] \in {"new", "done"}]_vars
=============================================================================
