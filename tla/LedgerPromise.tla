--------------------------- MODULE LedgerPromise ---------------------------
(***************************************************************************)
(* What the ledger service promises to whoever calls POST /ledger/transfer, *)
(* however many calls it serves at once and wherever it fails: a reference  *)
(* is posted at most once, all at once, and every answer it gives is        *)
(* justified by what is posted.  Balances are not part of the promise (see  *)
(* Ledger.tla for why they cannot be).                                      *)
(***************************************************************************)
CONSTANTS
    Requests,   \* the HTTP calls, retries included
    Calls,      \* request bodies: [ref, from, to, amount]
    Accounts    \* account numbers that exist

VARIABLES
    call,           \* the body each request carries
    transactions,   \* committed rows of ledger_transactions
    answer          \* what the caller of each request has been told

vars == <<call, transactions, answer>>

(* Said of a request that has moved no money. *)
Refusals == {"invalid", "notFound", "insufficient", "violation"}
Answers  == {"posted", "duplicate", "conflict", "error", "lost"} \cup Refusals

Row(r) == [id |-> r, call |-> call[r]]

Acceptable(c) == c.from \in Accounts /\ c.to \in Accounts /\ c.from # c.to

PostedAs(r) == \E t \in transactions : t.call = call[r]
RefTaken(r) == \E t \in transactions : t.call.ref = call[r].ref

Init ==
    /\ call \in [Requests -> Calls]
    /\ transactions = {}
    /\ answer = [r \in Requests |-> "unsent"]

Send(r) ==
    /\ answer[r] = "unsent"
    /\ answer' = [answer EXCEPT ![r] = "pending"]
    /\ UNCHANGED <<call, transactions>>

(* The one indivisible effect of a transfer. *)
Post(r) ==
    /\ answer[r] = "pending"
    /\ Acceptable(call[r])
    /\ ~RefTaken(r)
    /\ transactions' = transactions \cup {Row(r)}
    /\ UNCHANGED <<call, answer>>

(* The answers the present state of the books justifies giving to r.  The  *)
(* ledger has two 409s: "conflict" tells of another transfer under the     *)
(* reference, "violation" of some constraint, perhaps with nothing under   *)
(* the reference at all.                                                   *)
Justified(r) ==
    {a \in Answers \ {"lost"} :
        /\ a = "posted" => Row(r) \in transactions
        /\ a = "duplicate" => PostedAs(r)
        /\ a = "conflict" => RefTaken(r) /\ ~PostedAs(r)
        /\ a = "notFound" => ~Acceptable(call[r])
        /\ a \in Refusals => Row(r) \notin transactions}

Reply(r) ==
    /\ answer[r] = "pending"
    /\ \E a \in Justified(r) : answer' = [answer EXCEPT ![r] = a]
    /\ UNCHANGED <<call, transactions>>

(* The process dies: callers with a pending request hear nothing, whatever *)
(* was posted stays posted.                                                *)
Lose ==
    /\ \E S \in SUBSET {r \in Requests : answer[r] = "pending"} :
        answer' = [r \in Requests |-> IF r \in S THEN "lost" ELSE answer[r]]
    /\ UNCHANGED <<call, transactions>>

Next ==
    \/ \E r \in Requests : Send(r) \/ Post(r) \/ Reply(r)
    \/ Lose

Spec == Init /\ [][Next]_vars
=============================================================================
