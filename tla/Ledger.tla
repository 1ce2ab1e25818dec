------------------------------- MODULE Ledger -------------------------------
(***************************************************************************)
(* POST /ledger/transfer of the Kotlin ledger service: concurrent requests  *)
(* that each run an outer transaction (LedgerCommandService.transfer) and,  *)
(* inside it, a REQUIRES_NEW transaction (LedgerPostingExecutor), against   *)
(* one PostgreSQL database at READ COMMITTED and one connection pool.       *)
(*                                                                          *)
(* What a request has done inside its uncommitted transaction is read off   *)
(* its program counter: the reference it has inserted, the row lock it      *)
(* holds, the connections it occupies.                                      *)
(***************************************************************************)
EXTENDS Integers, FiniteSets, Functions

CONSTANTS
    Requests,     \* HTTP calls served, retries included
    References,   \* transfer references
    Names,        \* well-formed account numbers a body may carry
    Accounts,     \* account numbers that have a row
    Calls,        \* request bodies that arrive
    Opening,      \* opening balance of each account
    PoolSize,     \* connections in the HikariCP pool
    MaxFaults     \* bound on injected failures and crashes

TransferCall == [ref : References, from : Names, to : Names, amount : Nat]

ASSUME LedgerAssumption ==
    /\ IsFiniteSet(Requests)
    /\ Accounts \subseteq Names
    /\ Calls \subseteq TransferCall
    /\ Opening \in [Accounts -> Nat]
    /\ PoolSize \in Nat \ {0}
    /\ MaxFaults \in Nat

VARIABLES
    call,           \* the normalized command of each request
    pc,             \* where the thread serving each request is
    seen,           \* balances the inner transaction has read
    answer,         \* HTTP outcome of each request
    balance,        \* committed accounts.balance
    transactions,   \* committed ledger_transactions rows
    journal,        \* committed journal_entries rows
    events,         \* TransactionCompletedEvents queued for the async executor
    handled,        \* events whose side effect has run
    faults          \* failures injected so far

vars == <<call, pc, seen, answer, balance, transactions, journal, events,
          handled, faults>>

store == <<balance, transactions, journal>>

-----------------------------------------------------------------------------
(* Program counters, and what they say about the database. *)

Pending == {"post", "debit", "credit"}     \* reference inserted, not committed
Inner   == {"readFrom", "readTo", "insert"} \cup Pending
Outer   == {"lookup", "begin", "resolve", "violated", "finish"} \cup Inner
PCs     == {"new", "open", "done"} \cup Outer

(* Said of a request that has moved no money. *)
Refusals == {"invalid", "notFound", "insufficient", "violation"}
Answers  == {"posted", "duplicate", "conflict", "error", "lost"} \cup Refusals

Row(r) == [id |-> r, call |-> call[r]]

(* Mutant: debits stored as negative amounts. *)
SignedEntry(r, a, type) ==
    [txn |-> r, account |-> a, type |-> type,
     amount |-> IF type = "DEBIT" THEN 0 - call[r].amount ELSE call[r].amount]

Entry(r, a, type) ==
    [txn |-> r, account |-> a, type |-> type, amount |-> call[r].amount]

Entries(r) == {Entry(r, call[r].from, "DEBIT"), Entry(r, call[r].to, "CREDIT")}

Existing(r) == {t \in transactions : t.call.ref = call[r].ref}

(* Connections: one per outer transaction, a second per inner one. *)
InUse == Cardinality({r \in Requests : pc[r] \in Outer})
         + Cardinality({r \in Requests : pc[r] \in Inner})

ConnectionFree == InUse < PoolSize

(* s has updated its source row and keeps that row lock until it commits. *)
HoldsLock(s, a) == pc[s] = "credit" /\ call[s].from = a

Locked(r, a) == \E s \in Requests \ {r} : HoldsLock(s, a)

WaitsFor(r, s) == pc[r] = "credit" /\ HoldsLock(s, call[r].to)

(* PostgreSQL's detector: r is on a cycle of lock waits. *)
OnLockCycle(r) ==
    \E C \in SUBSET Requests :
        /\ r \in C
        /\ \A s \in C : (\E t \in C : WaitsFor(s, t)) /\ (\E t \in C : WaitsFor(t, s))

Valid(c) == c.amount > 0 /\ c.from # c.to

-----------------------------------------------------------------------------
Init ==
    /\ call \in [Requests -> Calls]
    /\ pc = [r \in Requests |-> "new"]
    /\ seen = [r \in Requests |-> [from |-> 0, to |-> 0]]
    /\ answer = [r \in Requests |-> "unsent"]
    /\ balance = Opening
    /\ transactions = {}
    /\ journal = {}
    /\ events = {}
    /\ handled = {}
    /\ faults = 0

Goto(r, l) == pc' = [pc EXCEPT ![r] = l]

(* The request ends: both transactions are over, the caller gets a. *)
Respond(r, a) ==
    /\ Goto(r, "done")
    /\ answer' = [answer EXCEPT ![r] = a]

(* Every action but Crash leaves the request bodies and the fault budget *)
(* alone, except where it says otherwise.                                *)
Fault == faults < MaxFaults /\ faults' = faults + 1

Receive(r) ==
    /\ pc[r] = "new"
    /\ Goto(r, "open")
    /\ answer' = [answer EXCEPT ![r] = "pending"]
    /\ UNCHANGED <<call, seen, store, events, handled, faults>>

(* @Transactional takes a connection, then normalize and validate run. *)
BeginOuter(r) ==
    /\ pc[r] = "open"
    /\ ConnectionFree
    /\ \/ Valid(call[r]) /\ Goto(r, "lookup") /\ UNCHANGED answer
       \/ ~Valid(call[r]) /\ Respond(r, "invalid")
    /\ UNCHANGED <<call, seen, store, events, handled, faults>>

(* toIdempotentResponse: a row with this reference is there. *)
AnswerFromExisting(r) ==
    \E t \in Existing(r) :
        Respond(r, IF t.call = call[r] THEN "duplicate" ELSE "conflict")

(* Mutant: no look at the reference before posting. *)
LookupAccountsOnly(r) ==
    /\ pc[r] = "lookup"
    /\ \/ ~({call[r].from, call[r].to} \subseteq Accounts) /\ Respond(r, "notFound")
       \/ {call[r].from, call[r].to} \subseteq Accounts /\ Goto(r, "begin") /\ UNCHANGED answer
    /\ UNCHANGED <<call, seen, store, events, handled, faults>>

Lookup(r) ==
    /\ pc[r] = "lookup"
    /\ \/ AnswerFromExisting(r)
       \/ /\ Existing(r) = {}
          /\ ~({call[r].from, call[r].to} \subseteq Accounts)
          /\ Respond(r, "notFound")
       \/ /\ Existing(r) = {}
          /\ {call[r].from, call[r].to} \subseteq Accounts
          /\ Goto(r, "begin")
          /\ UNCHANGED answer
    /\ UNCHANGED <<call, seen, store, events, handled, faults>>

(* REQUIRES_NEW needs a second connection while the first is held. *)
BeginInner(r) ==
    /\ pc[r] = "begin"
    /\ ConnectionFree
    /\ Goto(r, "readFrom")
    /\ UNCHANGED <<call, seen, answer, store, events, handled, faults>>

(* Mutant: the wait for a connection never ends. *)
WaitForever(r) == FALSE /\ UNCHANGED vars

(* HikariCP gives up: CannotCreateTransactionException is no              *)
(* DataAccessException, so it is not resolved and becomes a 500.          *)
ConnectionTimeout(r) ==
    /\ pc[r] \in {"open", "begin"}
    /\ ~ConnectionFree
    /\ Respond(r, "error")
    /\ UNCHANGED <<call, seen, store, events, handled, faults>>

ReadFrom(r) ==
    /\ pc[r] = "readFrom"
    /\ seen' = [seen EXCEPT ![r].from = balance[call[r].from]]
    /\ Goto(r, "readTo")
    /\ UNCHANGED <<call, answer, store, events, handled, faults>>

(* Mutant: no funds check. *)
ReadToUnchecked(r) ==
    /\ pc[r] = "readTo"
    /\ seen' = [seen EXCEPT ![r].to = balance[call[r].to]]
    /\ Goto(r, "insert")
    /\ UNCHANGED <<call, answer, store, events, handled, faults>>

(* The second read, then the funds check on the first one. *)
ReadTo(r) ==
    /\ pc[r] = "readTo"
    /\ seen' = [seen EXCEPT ![r].to = balance[call[r].to]]
    /\ \/ /\ seen[r].from < call[r].amount
          /\ Respond(r, "insufficient")
       \/ /\ seen[r].from >= call[r].amount
          /\ Goto(r, "insert")
          /\ UNCHANGED answer
    /\ UNCHANGED <<call, store, events, handled, faults>>

(* Mutant: no unique index on the reference. *)
InsertUnindexed(r) ==
    /\ pc[r] = "insert"
    /\ Goto(r, "post")
    /\ UNCHANGED <<call, seen, answer, store, events, handled, faults>>

(* saveAndFlush: the unique index makes the INSERT wait for an uncommitted *)
(* row with the same reference, and fail on a committed one.               *)
Insert(r) ==
    /\ pc[r] = "insert"
    /\ \A s \in Requests : pc[s] \in Pending => call[s].ref # call[r].ref
    /\ Goto(r, IF Existing(r) = {} THEN "post" ELSE "violated")
    /\ UNCHANGED <<call, seen, answer, store, events, handled, faults>>

(* The row does not fit its columns: the header that becomes its           *)
(* correlation_id may have any length, the column 128 characters.  The     *)
(* index is not even looked at.  A request comes here once at most, so     *)
(* that the choice stands for what its header holds.                       *)
InsertTooLong(r) ==
    /\ pc[r] = "insert"
    /\ Goto(r, "violated")
    /\ UNCHANGED <<call, seen, answer, store, events, handled, faults>>

(* Mutant: the listener is not bound to AFTER_COMMIT. *)
PostPublishing(r) ==
    /\ pc[r] = "post"
    /\ Goto(r, "debit")
    /\ events' = events \cup {r}
    /\ UNCHANGED <<call, seen, answer, store, handled, faults>>

(* The persistence hook returns, the journal rows and the new balances are *)
(* in the session; nothing more reaches the database before the flush.     *)
Post(r) ==
    /\ pc[r] = "post"
    /\ Goto(r, "debit")
    /\ UNCHANGED <<call, seen, answer, store, events, handled, faults>>

(* The hook throws something that is no DataAccessException. *)
HookThrows(r) ==
    /\ pc[r] = "post"
    /\ Fault
    /\ Respond(r, "error")
    /\ UNCHANGED <<call, seen, store, events, handled>>

(* Mutant: the source's UPDATE runs outside the transaction. *)
DebitAtOnce(r) ==
    /\ pc[r] = "debit"
    /\ ~Locked(r, call[r].from)
    /\ balance' = [balance EXCEPT ![call[r].from] = seen[r].from - call[r].amount]
    /\ Goto(r, "credit")
    /\ UNCHANGED <<call, seen, answer, transactions, journal, events, handled, faults>>

(* Flush at commit: UPDATE of the source row, then of the destination. *)
Debit(r) ==
    /\ pc[r] = "debit"
    /\ ~Locked(r, call[r].from)
    /\ Goto(r, "credit")
    /\ UNCHANGED <<call, seen, answer, store, events, handled, faults>>

(* The database side of the commit: the balances written are the ones      *)
(* computed from what was read, whatever has been committed since.         *)
Apply(r) ==
    /\ ~Locked(r, call[r].to)
    /\ balance' = [balance EXCEPT
                     ![call[r].from] = seen[r].from - call[r].amount,
                     ![call[r].to] = seen[r].to + call[r].amount]
    /\ transactions' = transactions \cup {Row(r)}
    /\ journal' = journal \cup Entries(r)

(* Mutant: the commit queues no event. *)
CommitSilently(r) ==
    /\ pc[r] = "credit"
    /\ Apply(r)
    /\ Goto(r, "finish")
    /\ UNCHANGED <<call, seen, answer, events, handled, faults>>

Commit(r) ==
    /\ pc[r] = "credit"
    /\ Apply(r)
    /\ events' = events \cup {r}
    /\ Goto(r, "finish")
    /\ UNCHANGED <<call, seen, answer, handled, faults>>

(* COMMIT takes effect but its acknowledgement is lost: AFTER_COMMIT       *)
(* listeners do not run and the exception is resolved on the outer         *)
(* connection.                                                             *)
CommitUnacknowledged(r) ==
    /\ pc[r] = "credit"
    /\ Fault
    /\ Apply(r)
    /\ Goto(r, "resolve")
    /\ UNCHANGED <<call, seen, answer, events, handled>>

(* Mutant: the victim's exception is swallowed. *)
DeadlockSwallowed(r) ==
    /\ pc[r] = "credit"
    /\ OnLockCycle(r)
    /\ Goto(r, "finish")
    /\ UNCHANGED <<call, seen, answer, store, events, handled, faults>>

(* Mutant: lock cycles are left alone. *)
DeadlockIgnored(r) == FALSE /\ UNCHANGED vars

(* Two postings that took their rows in opposite orders: one is aborted. *)
DeadlockAbort(r) ==
    /\ pc[r] = "credit"
    /\ OnLockCycle(r)
    /\ Goto(r, "resolve")
    /\ UNCHANGED <<call, seen, answer, store, events, handled, faults>>

(* Any other DataAccessException of the inner transaction rolls it back. *)
InnerFails(r) ==
    /\ pc[r] \in Inner
    /\ Fault
    /\ Goto(r, "resolve")
    /\ UNCHANGED <<call, seen, answer, store, events, handled>>

(* Mutant: the posting is tried again with the accounts it has read. *)
ResolveByRetrying(r) ==
    /\ pc[r] \in {"resolve", "violated"}
    /\ \/ AnswerFromExisting(r)
       \/ Existing(r) = {} /\ Goto(r, "insert") /\ UNCHANGED answer
    /\ UNCHANGED <<call, seen, store, events, handled, faults>>

(* Mutant: whatever violates a constraint is the same transfer. *)
ResolveAsDuplicate(r) ==
    /\ pc[r] \in {"resolve", "violated"}
    /\ \/ AnswerFromExisting(r)
       \/ Existing(r) = {} /\ Respond(r, IF pc[r] = "violated" THEN "duplicate" ELSE "error")
    /\ UNCHANGED <<call, seen, store, events, handled, faults>>

(* resolvePersistenceConflict: without a row it rethrows, and the handler  *)
(* of exceptions makes a 409 of a DataIntegrityViolationException and a    *)
(* 500 of the others.                                                      *)
Resolve(r) ==
    /\ pc[r] \in {"resolve", "violated"}
    /\ \/ AnswerFromExisting(r)
       \/ Existing(r) = {} /\ Respond(r, IF pc[r] = "violated" THEN "violation" ELSE "error")
    /\ UNCHANGED <<call, seen, store, events, handled, faults>>

(* The outer transaction commits and the response is written. *)
Finish(r) ==
    /\ pc[r] = "finish"
    /\ Respond(r, "posted")
    /\ UNCHANGED <<call, seen, store, events, handled, faults>>

(* The outer connection fails: 500, whatever the inner one has committed. *)
OuterFails(r) ==
    /\ pc[r] \in Outer \ Inner
    /\ Fault
    /\ Respond(r, "error")
    /\ UNCHANGED <<call, seen, store, events, handled>>

HandleEvent(r) ==
    /\ r \in events
    /\ events' = events \ {r}
    /\ handled' = handled \cup {r}
    /\ UNCHANGED <<call, pc, seen, answer, store, faults>>

(* The JVM dies and is started again: the open transactions roll back, the *)
(* callers hear nothing, the queued events are gone.                       *)
Crash ==
    /\ Fault
    /\ pc' = [r \in Requests |-> IF pc[r] = "new" THEN "new" ELSE "done"]
    /\ answer' = [r \in Requests |->
                    IF answer[r] = "pending" THEN "lost" ELSE answer[r]]
    /\ events' = {}
    /\ UNCHANGED <<call, seen, store, handled>>

Finished ==
    /\ \A r \in Requests : pc[r] = "done"
    /\ events = {}
    /\ UNCHANGED vars

(* The steps a serving thread, the pool or the database takes by itself. *)
Serve(r) ==
    \/ BeginOuter(r) \/ Lookup(r) \/ BeginInner(r) \/ ConnectionTimeout(r)
    \/ ReadFrom(r) \/ ReadTo(r) \/ Insert(r) \/ InsertTooLong(r) \/ Post(r)
    \/ Debit(r) \/ Commit(r) \/ DeadlockAbort(r) \/ Resolve(r) \/ Finish(r)

Fail(r) == HookThrows(r) \/ CommitUnacknowledged(r) \/ InnerFails(r) \/ OuterFails(r)

Next ==
    \/ \E r \in Requests : Receive(r) \/ Serve(r) \/ Fail(r) \/ HandleEvent(r)
    \/ Crash
    \/ Finished

Spec == Init /\ [][Next]_vars

(* Threads, the pool's timer and PostgreSQL's deadlock detector keep       *)
(* running; the async executor drains its queue.  Clients, faults and      *)
(* crashes owe nothing.                                                    *)
Fairness == \A r \in Requests : WF_vars(Serve(r)) /\ WF_vars(HandleEvent(r))

FairSpec == Spec /\ Fairness
-----------------------------------------------------------------------------
TypeOK ==
    /\ call \in [Requests -> Calls]
    /\ pc \in [Requests -> PCs]
    /\ seen \in [Requests -> [from : Int, to : Int]]
    /\ answer \in [Requests -> Answers \cup {"unsent", "pending"}]
    /\ balance \in [Accounts -> Int]
    /\ transactions \subseteq [id : Requests, call : Calls]
    /\ journal \subseteq [txn : Requests, account : Accounts,
                          type : {"DEBIT", "CREDIT"}, amount : Nat]
    /\ events \subseteq Requests
    /\ handled \subseteq Requests
    /\ faults \in 0..MaxFaults

(* However many copies of a transfer are served at once, and whichever of  *)
(* them fails half way, at most one row of ledger_transactions carries its *)
(* reference.                                                              *)
OnePostingPerReference ==
    \A t, u \in transactions : t.call.ref = u.call.ref => t = u

(* What a caller is told agrees with the books: "posted" means its own row *)
(* is there, duplicate=true that this very transfer is, the 409 "Reference *)
(* already used for a different transfer" that a different one has taken   *)
(* the reference, and a 400, a 404 or the 409 "The request violated a      *)
(* database constraint" (for which the reference may well be free) that    *)
(* this request has moved no money.                                        *)
AnswersAreJustified ==
    \A r \in Requests :
        /\ answer[r] = "posted" => Row(r) \in transactions
        /\ answer[r] = "duplicate" => \E t \in transactions : t.call = call[r]
        /\ answer[r] = "conflict" =>
              \E t \in transactions : t.call.ref = call[r].ref /\ t.call # call[r]
        /\ answer[r] \in Refusals => Row(r) \notin transactions

(* The stored balance never goes below zero (the CHECK of migration 007 is *)
(* never what stops a posting), even though the funds check uses a balance *)
(* that may be stale by the time it is overwritten.                        *)
BalanceNeverNegative == \A a \in Accounts : balance[a] >= 0

(* A side effect is queued or run only for a transfer whose commit took    *)
(* effect, and never twice.                                                *)
EventsFollowCommits ==
    /\ events \cup handled \subseteq {t.id : t \in transactions}
    /\ events \cap handled = {}

(* Sums over the journal. *)
Total(a, type) ==
    SumFunctionOnSet([e \in journal |-> e.amount],
                     {e \in journal : e.account = a /\ e.type = type})

(* However postings overlap and write over each other's balances, and      *)
(* wherever one of them fails, an account never holds less than it has     *)
(* paid out leaves it, nor more than it has been paid: a lost update is    *)
(* the loss of one of these two sides, and nothing beyond them.            *)
BalanceWithinFlows ==
    \A a \in Accounts :
        /\ Opening[a] - Total(a, "DEBIT") <= balance[a]
        /\ balance[a] <= Opening[a] + Total(a, "CREDIT")

(* r has read the balance of a and has not yet written it or given up. *)
HasRead(r, a) ==
    \/ a = call[r].from /\ pc[r] \in Inner \ {"readFrom"}
    \/ a = call[r].to /\ pc[r] \in Inner \ {"readFrom", "readTo"}

Overlap(a) == \E r, s \in Requests : r # s /\ HasRead(r, a) /\ HasRead(s, a)

(* accounts.balance of a is its opening balance plus its journal. *)
BooksAgree(a) == balance[a] = Opening[a] + Total(a, "CREDIT") - Total(a, "DEBIT")

(* A balance parts from its journal only through two postings that hold a  *)
(* read of that account at the same time: retries, refused and aborted     *)
(* postings, waits for a lock or a connection and whatever happens on      *)
(* other accounts never do it.                                             *)
DriftNeedsOverlap ==
    \A a \in Accounts : [](~Overlap(a)) => []BooksAgree(a)

(* No update is lost.  Nothing in the code sees to it: see Ledger_drift.   *)
BalanceMatchesJournal == \A a \in Accounts : BooksAgree(a)

(* A request that arrives after its transfer was posted is never refused   *)
(* for lack of funds, nor posted again: it is told duplicate=true, or that *)
(* the service failed.                                                     *)
LateRetryIsDuplicate ==
    \A r \in Requests :
        [](pc[r] = "new" /\ (\E t \in transactions : t.call = call[r])
            => [](answer[r] \in {"unsent", "pending", "duplicate", "error", "lost"}))

(* Every request that reaches the service is answered: lock cycles are     *)
(* broken and waits for a connection end.                                  *)
EveryRequestAnswered ==
    \A r \in Requests : pc[r] = "open" ~> pc[r] = "done"

(* As long as nothing fails (runs with MaxFaults = 0), the side effect of  *)
(* every posting is run.                                                   *)
EveryPostingHandled ==
    \A r \in Requests : pc[r] = "finish" ~> r \in handled

(* The ledger implements the abstract promise, step for step. *)
Promise == INSTANCE LedgerPromise
ImplementsPromise == Promise!Spec
=============================================================================
