---------------------------- MODULE LedgerProofs ----------------------------
(***************************************************************************)
(* Proofs about Ledger for any requests, bodies, accounts, pool size and    *)
(* number of faults.                                                        *)
(***************************************************************************)
EXTENDS Ledger, TLAPS

(* A command past validation moves something between two accounts; past    *)
(* the lookup both accounts exist.                                         *)
CommandsChecked ==
    \A r \in Requests :
        /\ pc[r] \in Outer => Valid(call[r])
        /\ pc[r] \in {"begin"} \cup Inner =>
              call[r].from \in Accounts /\ call[r].to \in Accounts

(* What a request has read is never negative, and past the funds check it  *)
(* covers the amount.                                                      *)
FundsChecked ==
    \A r \in Requests :
        /\ seen[r].from >= 0 /\ seen[r].to >= 0
        /\ pc[r] \in {"insert"} \cup Pending => seen[r].from >= call[r].amount

(* The unique index: a request with an uncommitted row is alone with its   *)
(* reference.                                                              *)
ReferenceReserved ==
    \A r \in Requests :
        pc[r] \in Pending =>
            /\ Existing(r) = {}
            /\ \A s \in Requests \ {r} :
                  pc[s] \in Pending => call[s].ref # call[r].ref

(* A committed row holds a valid transfer of a request that has committed  *)
(* and has not been refused.                                               *)
RowsOwned ==
    \A t \in transactions :
        /\ t = Row(t.id)
        /\ Valid(t.call)
        /\ pc[t.id] \in {"finish", "resolve", "done"}
        /\ answer[t.id] \notin Refusals

(* Where the thread is and what its caller knows. *)
AnswersFollowControl ==
    \A r \in Requests :
        /\ pc[r] = "new" => answer[r] = "unsent"
        /\ pc[r] \in {"open"} \cup Outer => answer[r] = "pending"
        /\ pc[r] = "done" => answer[r] \in Answers
        /\ pc[r] = "finish" => Row(r) \in transactions

IInv ==
    /\ TypeOK
    /\ CommandsChecked
    /\ FundsChecked
    /\ ReferenceReserved
    /\ RowsOwned
    /\ AnswersFollowControl
    /\ OnePostingPerReference
    /\ AnswersAreJustified
    /\ BalanceNeverNegative
    /\ EventsFollowCommits

-----------------------------------------------------------------------------
(* Initially nothing is posted and nobody has been answered. *)
LEMMA InitIInv == Init => IInv
  <1> SUFFICES ASSUME Init PROVE IInv
    OBVIOUS
  <1> USE LedgerAssumption DEF Init
  <1>1. TypeOK
    BY DEF TypeOK, PCs
  <1>2. CommandsChecked /\ FundsChecked /\ ReferenceReserved /\ RowsOwned
    BY DEF CommandsChecked, FundsChecked, ReferenceReserved, RowsOwned,
           Outer, Inner, Pending
  <1>3. AnswersFollowControl /\ OnePostingPerReference /\ AnswersAreJustified
    BY DEF AnswersFollowControl, OnePostingPerReference, AnswersAreJustified,
           Outer, Inner, Pending, Refusals
  <1>4. BalanceNeverNegative /\ EventsFollowCommits
    BY DEF BalanceNeverNegative, EventsFollowCommits
  <1> QED
    BY <1>1, <1>2, <1>3, <1>4 DEF IInv

(* A row whose id is r can only be there if r has committed. *)
LEMMA NoRowBeforeCommit ==
  ASSUME IInv, NEW r \in Requests, pc[r] \notin {"finish", "resolve", "done"}
  PROVE  Row(r) \notin transactions
  BY DEF IInv, RowsOwned, Row

(* Most actions only move one thread and perhaps answer its caller; the     *)
(* books stay as they are.  What such a step must respect to preserve IInv. *)
LEMMA ControlStep ==
  ASSUME IInv,
         NEW r \in Requests, NEW l \in PCs \ {"new"},
         NEW a \in Answers \cup {"pending"},
         pc' = [pc EXCEPT ![r] = l],
         answer' = [answer EXCEPT ![r] = a],
         seen' \in [Requests -> [from : Int, to : Int]],
         \A s \in Requests \ {r} : seen'[s] = seen[s],
         seen'[r].from >= 0, seen'[r].to >= 0,
         UNCHANGED <<call, store, events, handled>>,
         faults' \in 0..MaxFaults,
         l \in Outer => Valid(call[r]),
         l \in {"begin"} \cup Inner => call[r].from \in Accounts /\ call[r].to \in Accounts,
         l \in {"insert"} \cup Pending => seen'[r].from >= call[r].amount,
         l \in Pending => pc[r] \in Pending,
         l = "done" <=> a # "pending",
         l = "finish" => Row(r) \in transactions,
         Row(r) \in transactions => l \in {"finish", "resolve", "done"} /\ a \notin Refusals,
         a = "posted" => Row(r) \in transactions,
         a = "duplicate" => \E t \in transactions : t.call = call[r],
         a = "conflict" =>
            \E t \in transactions : t.call.ref = call[r].ref /\ t.call # call[r]
  PROVE  IInv'
  <1> USE DEF IInv, store
  <1>1. TypeOK'
    BY DEF TypeOK
  <1>2. CommandsChecked' /\ FundsChecked'
    BY DEF TypeOK, CommandsChecked, FundsChecked
  <1>3. ReferenceReserved'
    BY DEF TypeOK, ReferenceReserved, Existing
  <1>4. RowsOwned'
    BY DEF TypeOK, RowsOwned, Row
  <1>5. AnswersFollowControl'
    BY DEF TypeOK, AnswersFollowControl, Row, PCs, Outer, Inner, Pending
  <1>6. OnePostingPerReference' /\ BalanceNeverNegative' /\ EventsFollowCommits'
    BY DEF OnePostingPerReference, BalanceNeverNegative, EventsFollowCommits
  <1>7. AnswersAreJustified'
    BY DEF TypeOK, AnswersAreJustified, Row
  <1> QED
    BY <1>1, <1>2, <1>3, <1>4, <1>5, <1>6, <1>7

(* Answering from an existing row gives "duplicate" or "conflict", and both *)
(* are true.                                                                *)
LEMMA ExistingStep ==
  ASSUME IInv, NEW r \in Requests, pc[r] \in {"lookup", "resolve", "violated"},
         AnswerFromExisting(r),
         UNCHANGED <<call, seen, store, events, handled, faults>>
  PROVE  IInv'
  <1>1. PICK t \in Existing(r) :
          Respond(r, IF t.call = call[r] THEN "duplicate" ELSE "conflict")
    BY DEF AnswerFromExisting
  <1>2. t \in transactions /\ t.call.ref = call[r].ref
    BY DEF Existing
  <1>3. CASE t.call = call[r]
    <2>1. pc' = [pc EXCEPT ![r] = "done"] /\ answer' = [answer EXCEPT ![r] = "duplicate"]
      BY <1>1, <1>3 DEF Respond, Goto
    <2> QED
      BY <1>2, <1>3, <2>1, ControlStep
         DEF IInv, TypeOK, FundsChecked, PCs, Outer, Inner, Pending, Answers, Refusals
  <1>4. CASE t.call # call[r]
    <2>1. pc' = [pc EXCEPT ![r] = "done"] /\ answer' = [answer EXCEPT ![r] = "conflict"]
      BY <1>1, <1>4 DEF Respond, Goto
    <2> QED
      BY <1>2, <1>4, <2>1, ControlStep
         DEF IInv, TypeOK, FundsChecked, PCs, Outer, Inner, Pending, Answers, Refusals
  <1> QED
    BY <1>3, <1>4

(* The database effect of a commit, whichever way the thread goes on. *)
LEMMA ApplyStep ==
  ASSUME IInv, NEW r \in Requests, pc[r] = "credit", Apply(r),
         NEW l \in {"finish", "resolve"}, Goto(r, l),
         events' = events \/ events' = events \cup {r},
         UNCHANGED <<call, seen, answer, handled>>,
         faults' \in 0..MaxFaults
  PROVE  IInv'
  <1> USE DEF IInv, Goto
  <1>1. /\ Valid(call[r]) /\ call[r].from \in Accounts /\ call[r].to \in Accounts
        /\ call[r] \in Calls /\ call[r].amount \in Nat
        /\ seen[r].from \in Int /\ seen[r].to \in Int
        /\ seen[r].from >= call[r].amount /\ seen[r].to >= 0
    BY LedgerAssumption
       DEF TypeOK, CommandsChecked, FundsChecked, Outer, Inner, Pending, TransferCall
  <1>2. Existing(r) = {} /\ answer[r] = "pending"
    BY DEF ReferenceReserved, AnswersFollowControl, Pending, Outer, Inner
  <1>3. transactions' = transactions \cup {Row(r)}
    BY DEF Apply
  <1>4. TypeOK'
    <2>1. Entries(r) \subseteq [txn : Requests, account : Accounts,
                               type : {"DEBIT", "CREDIT"}, amount : Nat]
      BY <1>1 DEF Entries, Entry
    <2>2. Row(r) \in [id : Requests, call : Calls]
      BY <1>1 DEF Row
    <2>3. balance' \in [Accounts -> Int]
      BY <1>1 DEF Apply, TypeOK
    <2> QED
      BY <2>1, <2>2, <2>3 DEF Apply, TypeOK, PCs, Outer
  <1>5. CommandsChecked' /\ FundsChecked'
    BY <1>1 DEF TypeOK, CommandsChecked, FundsChecked, Outer, Inner, Pending
  <1>6. ReferenceReserved'
    BY <1>3 DEF TypeOK, ReferenceReserved, Existing, Row, Pending
  <1>7. RowsOwned'
    BY <1>1, <1>2, <1>3 DEF TypeOK, RowsOwned, Row, Refusals
  <1>8. AnswersFollowControl'
    BY <1>2, <1>3 DEF TypeOK, AnswersFollowControl, Row, Outer, Inner, Pending
  <1>9. OnePostingPerReference'
    BY <1>2, <1>3 DEF OnePostingPerReference, Existing, Row
  <1>10. AnswersAreJustified'
    BY <1>2, <1>3 DEF TypeOK, AnswersAreJustified, Row, Refusals
  <1>11. BalanceNeverNegative'
    BY <1>1 DEF TypeOK, BalanceNeverNegative, Apply
  <1>12. EventsFollowCommits'
    <2>1. r \notin handled
      BY DEF EventsFollowCommits, RowsOwned
    <2>2. /\ \A t \in transactions : t \in transactions'
          /\ Row(r) \in transactions' /\ Row(r).id = r
      BY <1>3 DEF Row
    <2> QED
      BY <2>1, <2>2 DEF EventsFollowCommits
  <1> QED
    BY <1>4, <1>5, <1>6, <1>7, <1>8, <1>9, <1>10, <1>11, <1>12

-----------------------------------------------------------------------------
(* Every step preserves IInv. *)
LEMMA NextIInv == IInv /\ [Next]_vars => IInv'
  <1> SUFFICES ASSUME IInv, [Next]_vars PROVE IInv'
    OBVIOUS
  <1> USE DEF store
  <1>0. ASSUME NEW r \in Requests
        PROVE  /\ pc[r] \in PCs /\ call[r] \in TransferCall
               /\ seen[r].from \in Int /\ seen[r].to \in Int
               /\ seen[r].from >= 0 /\ seen[r].to >= 0
               /\ seen \in [Requests -> [from : Int, to : Int]]
               /\ faults \in 0..MaxFaults
               /\ Fault => faults' \in 0..MaxFaults
               /\ pc[r] \in {"open"} \cup Outer =>
                    answer[r] = "pending" /\ [answer EXCEPT ![r] = "pending"] = answer
    BY LedgerAssumption
       DEF IInv, TypeOK, FundsChecked, AnswersFollowControl, Fault
  <1>1. ASSUME NEW r \in Requests, Receive(r) PROVE IInv'
    <2>1. Row(r) \notin transactions
      BY <1>1, NoRowBeforeCommit DEF Receive
    <2> QED
      BY <1>0, <1>1, <2>1, ControlStep DEF Receive, Goto, PCs, Outer, Inner, Pending
  <1>2. ASSUME NEW r \in Requests, BeginOuter(r) PROVE IInv'
    <2>1. Row(r) \notin transactions
      BY <1>2, NoRowBeforeCommit DEF BeginOuter
    <2>2. CASE Valid(call[r]) /\ Goto(r, "lookup") /\ UNCHANGED answer
      BY <1>0, <1>2, <2>1, <2>2, ControlStep
         DEF BeginOuter, Goto, PCs, Outer, Inner, Pending
    <2>3. CASE Respond(r, "invalid")
      BY <1>0, <1>2, <2>1, <2>3, ControlStep
         DEF BeginOuter, Respond, Goto, PCs, Outer, Inner, Pending, Answers, Refusals
    <2> QED
      BY <1>2, <2>2, <2>3 DEF BeginOuter
  <1>3. ASSUME NEW r \in Requests, Lookup(r) PROVE IInv'
    <2>1. Row(r) \notin transactions
      BY <1>3, NoRowBeforeCommit DEF Lookup
    <2>2. CASE AnswerFromExisting(r)
      BY <1>3, <2>2, ExistingStep DEF Lookup
    <2>3. CASE Respond(r, "notFound")
      BY <1>0, <1>3, <2>1, <2>3, ControlStep
         DEF Lookup, Respond, Goto, PCs, Outer, Inner, Pending, Answers, Refusals
    <2>4. CASE /\ {call[r].from, call[r].to} \subseteq Accounts
               /\ Goto(r, "begin") /\ UNCHANGED answer
      <3>1. Valid(call[r])
        BY <1>3 DEF Lookup, IInv, CommandsChecked, Outer
      <3> QED
        BY <1>0, <1>3, <2>1, <2>4, <3>1, ControlStep
           DEF Lookup, Goto, PCs, Outer, Inner, Pending
    <2> QED
      BY <1>3, <2>2, <2>3, <2>4 DEF Lookup
  <1>4. ASSUME NEW r \in Requests, BeginInner(r) PROVE IInv'
    <2>1. Row(r) \notin transactions
      BY <1>4, NoRowBeforeCommit DEF BeginInner
    <2>2. Valid(call[r]) /\ call[r].from \in Accounts /\ call[r].to \in Accounts
      BY <1>4 DEF BeginInner, IInv, CommandsChecked, Outer
    <2> QED
      BY <1>0, <1>4, <2>1, <2>2, ControlStep
         DEF BeginInner, Goto, PCs, Outer, Inner, Pending
  <1>5. ASSUME NEW r \in Requests, ConnectionTimeout(r) PROVE IInv'
    <2>1. Row(r) \notin transactions
      BY <1>5, NoRowBeforeCommit DEF ConnectionTimeout
    <2> QED
      BY <1>0, <1>5, <2>1, ControlStep
         DEF ConnectionTimeout, Respond, Goto, PCs, Outer, Inner, Pending, Answers, Refusals
  <1>6. ASSUME NEW r \in Requests, pc[r] \in Inner
        PROVE  Valid(call[r]) /\ call[r].from \in Accounts /\ call[r].to \in Accounts
    BY <1>6 DEF IInv, CommandsChecked, Outer
  <1>7. ASSUME NEW r \in Requests, ReadFrom(r) PROVE IInv'
    <2>1. Row(r) \notin transactions
      BY <1>7, NoRowBeforeCommit DEF ReadFrom
    <2>2. Valid(call[r]) /\ call[r].from \in Accounts /\ call[r].to \in Accounts
      BY <1>6, <1>7 DEF ReadFrom, Inner
    <2>3. balance[call[r].from] \in Int /\ balance[call[r].from] >= 0
      BY <2>2 DEF IInv, TypeOK, BalanceNeverNegative
    <2>4. /\ seen' \in [Requests -> [from : Int, to : Int]]
          /\ \A s \in Requests \ {r} : seen'[s] = seen[s]
          /\ seen'[r].from >= 0 /\ seen'[r].to >= 0
      BY <1>0, <1>7, <2>3 DEF ReadFrom
    <2> QED
      BY <1>0, <1>7, <2>1, <2>2, <2>4, ControlStep
         DEF ReadFrom, Goto, PCs, Outer, Inner, Pending
  <1>8. ASSUME NEW r \in Requests, ReadTo(r) PROVE IInv'
    <2>1. Row(r) \notin transactions
      BY <1>8, NoRowBeforeCommit DEF ReadTo
    <2>2. Valid(call[r]) /\ call[r].from \in Accounts /\ call[r].to \in Accounts
      BY <1>6, <1>8 DEF ReadTo, Inner
    <2>3. balance[call[r].to] \in Int /\ balance[call[r].to] >= 0
      BY <2>2 DEF IInv, TypeOK, BalanceNeverNegative
    <2>4. /\ seen' \in [Requests -> [from : Int, to : Int]]
          /\ \A s \in Requests \ {r} : seen'[s] = seen[s]
          /\ seen'[r].from = seen[r].from
          /\ seen'[r].from >= 0 /\ seen'[r].to >= 0
      BY <1>0, <1>8, <2>3 DEF ReadTo
    <2>5. CASE Respond(r, "insufficient")
      BY <1>0, <1>8, <2>1, <2>4, <2>5, ControlStep
         DEF ReadTo, Respond, Goto, PCs, Outer, Inner, Pending, Answers, Refusals
    <2>6. CASE /\ seen[r].from >= call[r].amount
               /\ Goto(r, "insert") /\ UNCHANGED answer
      BY <1>0, <1>8, <2>1, <2>2, <2>4, <2>6, ControlStep
         DEF ReadTo, Goto, PCs, Outer, Inner, Pending
    <2> QED
      BY <1>8, <2>5, <2>6 DEF ReadTo
  <1>9. ASSUME NEW r \in Requests, Insert(r) PROVE IInv'
    <2> USE DEF IInv, Insert, Goto
    <2>1. Valid(call[r]) /\ call[r].from \in Accounts /\ call[r].to \in Accounts
      BY <1>6, <1>9 DEF Inner
    <2>2. Row(r) \notin transactions
      BY <1>9, NoRowBeforeCommit
    <2>3. CASE Existing(r) # {}
      BY <1>0, <1>9, <2>1, <2>2, <2>3, ControlStep DEF PCs, Outer, Inner, Pending
    <2>4. CASE Existing(r) = {}
      <3>1. pc' = [pc EXCEPT ![r] = "post"]
        BY <1>9, <2>4
      <3>2. TypeOK' /\ CommandsChecked' /\ FundsChecked'
        BY <1>0, <1>9, <2>1, <3>1
           DEF TypeOK, CommandsChecked, FundsChecked, PCs, Outer, Inner, Pending
      <3>3. ReferenceReserved'
        BY <1>9, <2>4, <3>1 DEF TypeOK, ReferenceReserved, Existing
      <3>4. RowsOwned'
        BY <1>9, <3>1 DEF TypeOK, RowsOwned, Row
      <3>5. AnswersFollowControl'
        BY <1>0, <1>9, <3>1 DEF TypeOK, AnswersFollowControl, Row, PCs, Outer, Inner, Pending
      <3>6. OnePostingPerReference' /\ BalanceNeverNegative' /\ EventsFollowCommits'
        BY <1>9 DEF OnePostingPerReference, BalanceNeverNegative, EventsFollowCommits
      <3>7. AnswersAreJustified'
        BY <1>9 DEF AnswersAreJustified, Row
      <3> QED
        BY <3>2, <3>3, <3>4, <3>5, <3>6, <3>7
    <2> QED
      BY <2>3, <2>4
  <1>9a. ASSUME NEW r \in Requests, InsertTooLong(r) PROVE IInv'
    <2>1. Valid(call[r]) /\ Row(r) \notin transactions
      BY <1>6, <1>9a, NoRowBeforeCommit DEF InsertTooLong, Inner
    <2> QED
      BY <1>0, <1>9a, <2>1, ControlStep
         DEF InsertTooLong, Goto, PCs, Outer, Inner, Pending
  <1>10. ASSUME NEW r \in Requests, Post(r) \/ Debit(r) PROVE IInv'
    <2>1. Row(r) \notin transactions
      BY <1>10, NoRowBeforeCommit DEF Post, Debit
    <2>2. Valid(call[r]) /\ call[r].from \in Accounts /\ call[r].to \in Accounts
      BY <1>6, <1>10 DEF Post, Debit, Inner, Pending
    <2>3. seen[r].from >= call[r].amount
      BY <1>10 DEF IInv, FundsChecked, Post, Debit, Pending
    <2>4. CASE Post(r)
      BY <1>0, <2>1, <2>2, <2>3, <2>4, ControlStep
         DEF Post, Goto, PCs, Outer, Inner, Pending
    <2>5. CASE Debit(r)
      BY <1>0, <2>1, <2>2, <2>3, <2>5, ControlStep
         DEF Debit, Goto, PCs, Outer, Inner, Pending
    <2> QED
      BY <1>10, <2>4, <2>5
  <1>11. ASSUME NEW r \in Requests, HookThrows(r) PROVE IInv'
    <2>1. Row(r) \notin transactions
      BY <1>11, NoRowBeforeCommit DEF HookThrows
    <2> QED
      BY <1>0, <1>11, <2>1, ControlStep
         DEF HookThrows, Respond, Goto, PCs, Outer, Inner, Pending, Answers, Refusals
  <1>12. ASSUME NEW r \in Requests, Commit(r) \/ CommitUnacknowledged(r) PROVE IInv'
    BY <1>0, <1>12, ApplyStep DEF Commit, CommitUnacknowledged
  <1>13. ASSUME NEW r \in Requests, DeadlockAbort(r) \/ InnerFails(r) PROVE IInv'
    <2>1. pc[r] \in Inner
      BY <1>13 DEF DeadlockAbort, InnerFails, Inner, Pending
    <2>2. Row(r) \notin transactions
      BY <2>1, NoRowBeforeCommit DEF Inner, Pending
    <2>3. /\ pc' = [pc EXCEPT ![r] = "resolve"]
          /\ UNCHANGED <<call, seen, answer, store, events, handled>>
          /\ faults' \in 0..MaxFaults
      BY <1>0, <1>13 DEF DeadlockAbort, InnerFails, Goto
    <2>4. Valid(call[r]) /\ pc[r] \in Outer
      BY <1>6, <2>1 DEF Outer
    <2> QED
      BY <1>0, <2>2, <2>3, <2>4, ControlStep
         DEF PCs, Outer, Inner, Pending
  <1>14. ASSUME NEW r \in Requests, Resolve(r) PROVE IInv'
    <2>1. CASE AnswerFromExisting(r)
      BY <1>14, <2>1, ExistingStep DEF Resolve
    <2>2. ASSUME Existing(r) = {}, NEW a \in {"error", "violation"}, Respond(r, a)
          PROVE  IInv'
      <3>1. Row(r) \notin transactions
        BY <2>2 DEF Existing, Row
      <3> QED
        BY <1>0, <1>14, <2>2, <3>1, ControlStep
           DEF Resolve, Respond, Goto, PCs, Outer, Inner, Pending, Answers, Refusals
    <2> QED
      BY <1>14, <2>1, <2>2 DEF Resolve
  <1>15. ASSUME NEW r \in Requests, Finish(r) PROVE IInv'
    <2>1. Row(r) \in transactions
      BY <1>15 DEF Finish, IInv, AnswersFollowControl
    <2> QED
      BY <1>0, <1>15, <2>1, ControlStep
         DEF Finish, Respond, Goto, PCs, Outer, Inner, Pending, Answers, Refusals
  <1>16. ASSUME NEW r \in Requests, OuterFails(r) PROVE IInv'
    BY <1>0, <1>16, ControlStep
       DEF OuterFails, Respond, Goto, PCs, Outer, Inner, Pending, Answers, Refusals
  <1>17. ASSUME NEW r \in Requests, HandleEvent(r) PROVE IInv'
    <2> USE DEF IInv, HandleEvent
    <2>1. TypeOK' /\ EventsFollowCommits'
      BY <1>17 DEF TypeOK, EventsFollowCommits
    <2>2. CommandsChecked' /\ FundsChecked' /\ ReferenceReserved' /\ BalanceNeverNegative'
      BY <1>17 DEF CommandsChecked, FundsChecked, ReferenceReserved, Existing,
                   BalanceNeverNegative
    <2>3. RowsOwned' /\ OnePostingPerReference'
      BY <1>17 DEF RowsOwned, OnePostingPerReference, Row
    <2>4. AnswersFollowControl' /\ AnswersAreJustified'
      BY <1>17 DEF AnswersFollowControl, AnswersAreJustified, Row
    <2> QED
      BY <2>1, <2>2, <2>3, <2>4
  <1>18. CASE Crash
    <2> USE DEF IInv, Crash
    <2>1. TypeOK'
      BY <1>18, LedgerAssumption DEF TypeOK, PCs, Answers, Fault
    <2>2. /\ CommandsChecked' /\ FundsChecked' /\ ReferenceReserved'
      BY <1>18 DEF TypeOK, CommandsChecked, FundsChecked, ReferenceReserved,
                   Outer, Inner, Pending
    <2>3. RowsOwned'
      BY <1>18 DEF TypeOK, RowsOwned, Row, Refusals
    <2>4. AnswersFollowControl'
      BY <1>18 DEF TypeOK, AnswersFollowControl, PCs, Outer, Inner, Pending, Answers
    <2>5. OnePostingPerReference' /\ BalanceNeverNegative' /\ EventsFollowCommits'
      BY <1>18 DEF OnePostingPerReference, BalanceNeverNegative, EventsFollowCommits
    <2>6. AnswersAreJustified'
      BY <1>18 DEF TypeOK, AnswersAreJustified, Row, Refusals
    <2> QED
      BY <2>1, <2>2, <2>3, <2>4, <2>5, <2>6
  <1>19. CASE UNCHANGED vars
    BY <1>19 DEF vars, IInv, TypeOK, CommandsChecked, FundsChecked, ReferenceReserved,
                 RowsOwned, AnswersFollowControl, OnePostingPerReference,
                 AnswersAreJustified, BalanceNeverNegative, EventsFollowCommits,
                 Existing, Row
  <1> QED
    BY <1>1, <1>2, <1>3, <1>4, <1>5, <1>7, <1>8, <1>9, <1>9a, <1>10, <1>11, <1>12, <1>13,
       <1>14, <1>15, <1>16, <1>17, <1>18, <1>19
       DEF Next, Serve, Fail, Finished

LEMMA SpecIInv == Spec => []IInv
  BY InitIInv, NextIInv, PTL DEF Spec

-----------------------------------------------------------------------------
(* Every variable keeps its type. *)
THEOREM TypeCorrect == Spec => []TypeOK
  BY SpecIInv, PTL DEF IInv

(* The unique index and the re-read after a conflict are enough: no two     *)
(* rows of ledger_transactions ever share a reference.                      *)
THEOREM AtMostOnce == Spec => []OnePostingPerReference
  BY SpecIInv, PTL DEF IInv

(* No caller is told anything about its transfer that the books belie. *)
THEOREM JustifiedAnswers == Spec => []AnswersAreJustified
  BY SpecIInv, PTL DEF IInv

(* Stale reads never take a stored balance below zero. *)
THEOREM NoNegativeBalance == Spec => []BalanceNeverNegative
  BY SpecIInv, PTL DEF IInv

(* Side effects follow commits, once each. *)
THEOREM EventsAfterCommit == Spec => []EventsFollowCommits
  BY SpecIInv, PTL DEF IInv

-----------------------------------------------------------------------------
(* Refinement: committing is the promise's Post, answering its Reply, a     *)
(* crash its Lose; every other step leaves the promise's state alone.       *)
LEMMA InitRefines == Init => Promise!Init
  BY DEF Init, Promise!Init

(* Ending a request with an answer that the books justify is a Reply. *)
LEMMA RespondRefines ==
  ASSUME NEW r \in Requests, NEW a, answer[r] = "pending",
         Respond(r, a), UNCHANGED <<call, transactions>>,
         a \in Promise!Justified(r)
  PROVE  Promise!Next
  <1>1. Promise!Reply(r)
    BY DEF Promise!Reply, Respond
  <1> QED
    BY <1>1 DEF Promise!Next

LEMMA ExistingRefines ==
  ASSUME IInv, NEW r \in Requests, answer[r] = "pending", AnswerFromExisting(r),
         UNCHANGED <<call, transactions>>
  PROVE  Promise!Next
  <1>1. PICK t \in Existing(r) :
          Respond(r, IF t.call = call[r] THEN "duplicate" ELSE "conflict")
    BY DEF AnswerFromExisting
  <1>2. t \in transactions /\ t.call.ref = call[r].ref
    BY DEF Existing
  <1>3. CASE t.call = call[r]
    <2>1. "duplicate" \in Promise!Justified(r)
      BY <1>2, <1>3 DEF Promise!Justified, Promise!Answers, Promise!Refusals, Promise!PostedAs
    <2> QED
      BY <1>1, <1>3, <2>1, RespondRefines
  <1>4. CASE t.call # call[r]
    <2>1. ~ \E u \in transactions : u.call = call[r]
      BY <1>2, <1>4 DEF IInv, OnePostingPerReference
    <2>2. "conflict" \in Promise!Justified(r)
      BY <1>2, <2>1
         DEF Promise!Justified, Promise!Answers, Promise!Refusals, Promise!PostedAs,
             Promise!RefTaken
    <2> QED
      BY <1>1, <1>4, <2>2, RespondRefines
  <1> QED
    BY <1>3, <1>4

LEMMA NextRefines == IInv /\ [Next]_vars => [Promise!Next]_(Promise!vars)
  <1> SUFFICES ASSUME IInv, [Next]_vars PROVE [Promise!Next]_(Promise!vars)
    OBVIOUS
  <1> USE DEF store
  <1>0. ASSUME NEW r \in Requests
        PROVE  /\ pc[r] \in {"open"} \cup Outer => answer[r] = "pending"
               /\ pc[r] \in {"open", "lookup", "readTo"} =>
                     Promise!Row(r) \notin transactions
               /\ "error" \in Promise!Justified(r)
    BY NoRowBeforeCommit
       DEF IInv, AnswersFollowControl, Promise!Justified, Promise!Answers,
           Promise!Refusals, Row, Promise!Row
  <1>1. ASSUME NEW r \in Requests, Receive(r) PROVE Promise!Next
    <2>1. Promise!Send(r)
      BY <1>1 DEF Receive, Promise!Send, IInv, AnswersFollowControl
    <2> QED
      BY <2>1 DEF Promise!Next
  <1>2. ASSUME NEW r \in Requests, BeginOuter(r) PROVE [Promise!Next]_(Promise!vars)
    <2>1. CASE Respond(r, "invalid")
      <3>1. "invalid" \in Promise!Justified(r) /\ answer[r] = "pending"
        BY <1>0, <1>2 DEF BeginOuter, Promise!Justified, Promise!Answers, Promise!Refusals
      <3> QED
        BY <1>2, <2>1, <3>1, RespondRefines DEF BeginOuter
    <2> QED
      BY <1>2, <2>1 DEF BeginOuter, Promise!vars
  <1>3. ASSUME NEW r \in Requests, Lookup(r) PROVE [Promise!Next]_(Promise!vars)
    <2>0. answer[r] = "pending"
      BY <1>0, <1>3 DEF Lookup, Outer
    <2>1. CASE AnswerFromExisting(r)
      BY <1>3, <2>0, <2>1, ExistingRefines DEF Lookup
    <2>2. CASE ~({call[r].from, call[r].to} \subseteq Accounts) /\ Respond(r, "notFound")
      <3>1. "notFound" \in Promise!Justified(r)
        BY <1>0, <1>3, <2>2
           DEF Lookup, Promise!Justified, Promise!Answers, Promise!Refusals,
               Promise!Acceptable
      <3> QED
        BY <1>3, <2>0, <2>2, <3>1, RespondRefines DEF Lookup
    <2> QED
      BY <1>3, <2>1, <2>2 DEF Lookup, Promise!vars
  <1>4. ASSUME NEW r \in Requests,
               BeginInner(r) \/ ReadFrom(r) \/ Insert(r) \/ InsertTooLong(r) \/ Post(r)
                 \/ Debit(r) \/ DeadlockAbort(r) \/ InnerFails(r) \/ HandleEvent(r)
        PROVE  UNCHANGED Promise!vars
    BY <1>4 DEF BeginInner, ReadFrom, Insert, InsertTooLong, Post, Debit, DeadlockAbort,
                InnerFails, HandleEvent, Promise!vars
  <1>5. ASSUME NEW r \in Requests, ReadTo(r) PROVE [Promise!Next]_(Promise!vars)
    <2>1. CASE Respond(r, "insufficient")
      <3>1. "insufficient" \in Promise!Justified(r) /\ answer[r] = "pending"
        BY <1>0, <1>5
           DEF ReadTo, Outer, Inner, Promise!Justified, Promise!Answers, Promise!Refusals
      <3> QED
        BY <1>5, <2>1, <3>1, RespondRefines DEF ReadTo
    <2> QED
      BY <1>5, <2>1 DEF ReadTo, Promise!vars
  <1>6. ASSUME NEW r \in Requests,
               ConnectionTimeout(r) \/ HookThrows(r) \/ OuterFails(r)
        PROVE  Promise!Next
    <2>1. /\ answer[r] = "pending" /\ Respond(r, "error")
          /\ UNCHANGED <<call, transactions>>
      BY <1>0, <1>6 DEF ConnectionTimeout, HookThrows, OuterFails, Outer, Inner, Pending
    <2> QED
      BY <1>0, <2>1, RespondRefines
  <1>7. ASSUME NEW r \in Requests, Commit(r) \/ CommitUnacknowledged(r)
        PROVE  Promise!Next
    <2>1. /\ pc[r] = "credit" /\ Apply(r) /\ UNCHANGED <<call, answer>>
      BY <1>7 DEF Commit, CommitUnacknowledged
    <2>2. /\ answer[r] = "pending" /\ Existing(r) = {}
          /\ Valid(call[r]) /\ call[r].from \in Accounts /\ call[r].to \in Accounts
      BY <1>0, <2>1 DEF IInv, ReferenceReserved, CommandsChecked, Outer, Inner, Pending
    <2>3. Promise!Post(r)
      BY <2>1, <2>2
         DEF Promise!Post, Promise!Acceptable, Promise!RefTaken, Promise!Row, Apply,
             Row, Valid, Existing
    <2> QED
      BY <2>3 DEF Promise!Next
  <1>8. ASSUME NEW r \in Requests, Resolve(r) PROVE Promise!Next
    <2>0. answer[r] = "pending"
      BY <1>0, <1>8 DEF Resolve, Outer
    <2>1. CASE AnswerFromExisting(r)
      BY <1>8, <2>0, <2>1, ExistingRefines DEF Resolve
    <2>2. CASE Respond(r, "error")
      BY <1>0, <1>8, <2>0, <2>2, RespondRefines DEF Resolve
    <2>3. CASE Existing(r) = {} /\ Respond(r, "violation")
      <3>1. "violation" \in Promise!Justified(r)
        BY <2>3
           DEF Existing, Promise!Justified, Promise!Answers, Promise!Refusals, Promise!Row
      <3> QED
        BY <1>8, <2>0, <2>3, <3>1, RespondRefines DEF Resolve
    <2> QED
      BY <1>8, <2>1, <2>2, <2>3 DEF Resolve
  <1>9. ASSUME NEW r \in Requests, Finish(r) PROVE Promise!Next
    <2>1. "posted" \in Promise!Justified(r) /\ answer[r] = "pending"
      BY <1>0, <1>9
         DEF Finish, IInv, AnswersFollowControl, Outer, Row, Promise!Row,
             Promise!Justified, Promise!Answers, Promise!Refusals
    <2> QED
      BY <1>9, <2>1, RespondRefines DEF Finish
  <1>10. CASE Crash
    <2>1. Promise!Lose
      <3> DEFINE S == {r \in Requests : answer[r] = "pending"}
      <3>1. answer' = [r \in Requests |-> IF r \in S THEN "lost" ELSE answer[r]]
        BY <1>10 DEF Crash
      <3> QED
        BY <1>10, <3>1 DEF Crash, Promise!Lose
    <2> QED
      BY <2>1 DEF Promise!Next
  <1>11. CASE UNCHANGED vars
    BY <1>11 DEF vars, Promise!vars
  <1> QED
    BY <1>1, <1>2, <1>3, <1>4, <1>5, <1>6, <1>7, <1>8, <1>9, <1>10, <1>11
       DEF Next, Serve, Fail, Finished

(* The ledger implements the abstract promise, for every pool size and any  *)
(* number of faults.                                                        *)
THEOREM Refinement == Spec => ImplementsPromise
  BY InitRefines, NextRefines, SpecIInv, PTL DEF Spec, ImplementsPromise, Promise!Spec

-----------------------------------------------------------------------------
(* A retry that finds its transfer in the books can only look the reference *)
(* up, be told duplicate=true, fail or be lost.                             *)
AlreadyPosted(r) == \E t \in transactions : t.call = call[r]

RetryInHand(r) ==
    /\ AlreadyPosted(r)
    /\ pc[r] \in {"new", "open", "lookup", "done"}
    /\ answer[r] \in {"unsent", "pending", "duplicate", "error", "lost"}

(* Rows of the books stay, and no step changes a request's body. *)
LEMMA BooksGrow ==
  ASSUME IInv, [Next]_vars
  PROVE  transactions \subseteq transactions' /\ call' = call
  <1> USE DEF store
  <1>1. ASSUME NEW r \in Requests,
               Receive(r) \/ BeginOuter(r) \/ Lookup(r) \/ BeginInner(r)
                 \/ ConnectionTimeout(r) \/ ReadFrom(r) \/ ReadTo(r) \/ Insert(r)
                 \/ InsertTooLong(r) \/ Post(r) \/ Debit(r) \/ DeadlockAbort(r) \/ Resolve(r) \/ Finish(r)
                 \/ HookThrows(r) \/ InnerFails(r) \/ OuterFails(r) \/ HandleEvent(r)
        PROVE  UNCHANGED <<transactions, call>>
    BY <1>1
       DEF Receive, BeginOuter, Lookup, BeginInner, ConnectionTimeout, ReadFrom, ReadTo,
           Insert, InsertTooLong, Post, Debit, DeadlockAbort, Resolve, Finish, HookThrows,
           InnerFails, OuterFails, HandleEvent
  <1>2. ASSUME NEW r \in Requests, Commit(r) \/ CommitUnacknowledged(r)
        PROVE  transactions \subseteq transactions' /\ call' = call
    BY <1>2 DEF Commit, CommitUnacknowledged, Apply
  <1>3. Crash \/ UNCHANGED vars => UNCHANGED <<transactions, call>>
    BY DEF Crash, vars
  <1> QED
    BY <1>1, <1>2, <1>3 DEF Next, Serve, Fail, Finished

(* Once such a retry is in hand, no step of anyone takes it elsewhere. *)
LEMMA RetryStays ==
  ASSUME IInv, [Next]_vars, NEW r \in Requests, RetryInHand(r)
  PROVE  RetryInHand(r)'
  <1> USE DEF store
  <1>1. AlreadyPosted(r)'
    BY BooksGrow DEF RetryInHand, AlreadyPosted
  <1>2. Valid(call[r]) /\ Existing(r) # {} /\ \A t \in Existing(r) : t.call = call[r]
    BY DEF RetryInHand, AlreadyPosted, Existing, IInv, RowsOwned, OnePostingPerReference
  <1>3. pc \in [Requests -> PCs] /\ answer \in [Requests -> Answers \cup {"unsent", "pending"}]
    BY DEF IInv, TypeOK
  <1>4. ASSUME NEW q \in Requests, q # r,
               Receive(q) \/ Serve(q) \/ Fail(q) \/ HandleEvent(q)
        PROVE  pc'[r] = pc[r] /\ answer'[r] = answer[r]
    BY <1>3, <1>4
       DEF Receive, Serve, Fail, BeginOuter, Lookup, AnswerFromExisting, BeginInner,
           ConnectionTimeout, ReadFrom, ReadTo, Insert, InsertTooLong, Post, Debit, Commit,
           DeadlockAbort, Resolve, Finish, HookThrows, CommitUnacknowledged, InnerFails, OuterFails,
           HandleEvent, Respond, Goto
  <1>5. CASE Receive(r) \/ BeginOuter(r)
    <2>1. pc'[r] \in {"open", "lookup"} /\ answer'[r] \in {"pending", answer[r]}
      BY <1>2, <1>3, <1>5 DEF Receive, BeginOuter, Goto
    <2> QED
      BY <1>1, <2>1 DEF RetryInHand
  <1>6. CASE Lookup(r)
    <2>1. Respond(r, "duplicate")
      BY <1>2, <1>6 DEF Lookup, AnswerFromExisting
    <2> QED
      BY <1>1, <1>3, <2>1 DEF RetryInHand, Respond, Goto
  <1>7. CASE ConnectionTimeout(r) \/ OuterFails(r)
    BY <1>1, <1>3, <1>7 DEF RetryInHand, ConnectionTimeout, OuterFails, Respond, Goto
  <1>8. CASE HandleEvent(r) \/ UNCHANGED vars
    BY <1>1, <1>8 DEF RetryInHand, HandleEvent, vars
  <1>9. CASE Crash
    BY <1>1, <1>3, <1>9 DEF RetryInHand, Crash
  <1>10. ~(BeginInner(r) \/ ReadFrom(r) \/ ReadTo(r) \/ Insert(r) \/ InsertTooLong(r)
            \/ Post(r) \/ Debit(r) \/ Commit(r) \/ DeadlockAbort(r) \/ Resolve(r) \/ Finish(r) \/ HookThrows(r)
            \/ CommitUnacknowledged(r) \/ InnerFails(r))
    BY DEF RetryInHand, BeginInner, ReadFrom, ReadTo, Insert, InsertTooLong, Post, Debit, Commit,
           DeadlockAbort, Resolve, Finish, HookThrows, CommitUnacknowledged, InnerFails,
           Inner, Pending
  <1>11. ASSUME NEW q \in Requests, q # r,
                Receive(q) \/ Serve(q) \/ Fail(q) \/ HandleEvent(q)
         PROVE  RetryInHand(r)'
    BY <1>1, <1>4, <1>11 DEF RetryInHand
  <1> QED
    BY <1>5, <1>6, <1>7, <1>8, <1>9, <1>10, <1>11 DEF Next, Serve, Fail, Finished

(* From its arrival on, such a retry never gets any other answer. *)
LEMMA LateRetry ==
  ASSUME NEW r \in Requests
  PROVE  Spec => [](pc[r] = "new" /\ (\E t \in transactions : t.call = call[r])
            => [](answer[r] \in {"unsent", "pending", "duplicate", "error", "lost"}))
  <1>1. IInv /\ pc[r] = "new" /\ (\E t \in transactions : t.call = call[r]) => RetryInHand(r)
    BY DEF IInv, AnswersFollowControl, RetryInHand, AlreadyPosted
  <1>2. IInv /\ RetryInHand(r) /\ [Next]_vars => RetryInHand(r)'
    BY RetryStays
  <1>3. RetryInHand(r) => answer[r] \in {"unsent", "pending", "duplicate", "error", "lost"}
    BY DEF RetryInHand
  <1> QED
    BY <1>1, <1>2, <1>3, SpecIInv, PTL DEF Spec

(* A copy of a posted transfer that arrives late is told duplicate=true, or *)
(* that the service failed: never that funds are missing.                   *)
THEOREM LateRetriesAreDuplicates == Spec => LateRetryIsDuplicate
  BY LateRetry DEF LateRetryIsDuplicate
=============================================================================
