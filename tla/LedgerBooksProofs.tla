-------------------------- MODULE LedgerBooksProofs --------------------------
(***************************************************************************)
(* Proofs about the balances and the journal of Ledger, for any requests,   *)
(* bodies, accounts, pool size and number of faults: how far a balance can  *)
(* part from its journal, and what it takes for it to part at all.          *)
(***************************************************************************)
EXTENDS LedgerProofs, SumTheorems

(* Where a request inside its inner transaction stands. *)
LEMMA Parties ==
  ASSUME IInv, NEW r \in Requests, pc[r] \in Inner
  PROVE  /\ call[r].from \in Accounts /\ call[r].to \in Accounts
         /\ call[r].from # call[r].to
         /\ call[r].amount \in Nat
         /\ seen[r].from \in Int /\ seen[r].to \in Int
  BY LedgerAssumption
     DEF IInv, TypeOK, CommandsChecked, Valid, Outer, TransferCall

(* The commit of r, acknowledged or not. *)
Posting(r) ==
    /\ pc[r] = "credit"
    /\ Apply(r)
    /\ UNCHANGED <<call, seen>>
    /\ \E l \in {"finish", "resolve"} : Goto(r, l)

(* Balances in hand after a step were in hand before it, or have just been  *)
(* read.                                                                    *)
ReadsKept ==
    \A s \in Requests :
        /\ pc'[s] \in Inner \ {"readFrom"} =>
              \/ pc[s] \in Inner \ {"readFrom"} /\ seen'[s].from = seen[s].from
              \/ call[s].from \in Accounts /\ seen'[s].from = balance[call[s].from]
        /\ pc'[s] \in Inner \ {"readFrom", "readTo"} =>
              \/ pc[s] \in Inner \ {"readFrom", "readTo"} /\ seen'[s].to = seen[s].to
              \/ call[s].to \in Accounts /\ seen'[s].to = balance[call[s].to]

(* A step of the ledger is a posting or leaves the books alone. *)
LEMMA PostingOrReading ==
  ASSUME IInv, [Next]_vars
  PROVE  \/ \E r \in Requests : Posting(r)
         \/ UNCHANGED <<store, call>> /\ ReadsKept
  <1> USE DEF store
  <1>0. pc \in [Requests -> PCs] /\ seen \in [Requests -> [from : Int, to : Int]]
    BY DEF IInv, TypeOK
  <1>1. ASSUME NEW r \in Requests, Receive(r) \/ BeginOuter(r) \/ Lookup(r)
                 \/ ConnectionTimeout(r) \/ InsertTooLong(r) \/ HookThrows(r)
                 \/ DeadlockAbort(r) \/ InnerFails(r) \/ Resolve(r) \/ Finish(r)
                 \/ OuterFails(r) \/ BeginInner(r)
        PROVE  UNCHANGED <<store, call>> /\ ReadsKept
    <2>1. PICK l \in (PCs \ Inner) \cup {"readFrom"} : pc' = [pc EXCEPT ![r] = l]
      BY <1>1
         DEF Receive, BeginOuter, Lookup, AnswerFromExisting, ConnectionTimeout, InsertTooLong,
             HookThrows, DeadlockAbort, InnerFails, Resolve, Finish, OuterFails, BeginInner,
             Respond, Goto, PCs, Outer, Inner, Pending
    <2>2. UNCHANGED <<call, seen, store>>
      BY <1>1
         DEF Receive, BeginOuter, Lookup, ConnectionTimeout, InsertTooLong, HookThrows,
             DeadlockAbort, InnerFails, Resolve, Finish, OuterFails, BeginInner
    <2> QED
      BY <1>0, <2>1, <2>2 DEF ReadsKept
  <1>2. ASSUME NEW r \in Requests, ReadFrom(r) PROVE UNCHANGED <<store, call>> /\ ReadsKept
    <2>1. /\ pc[r] = "readFrom" /\ pc' = [pc EXCEPT ![r] = "readTo"] /\ UNCHANGED <<store, call>>
          /\ seen'[r].from = balance[call[r].from]
          /\ \A s \in Requests \ {r} : seen'[s] = seen[s]
      BY <1>0, <1>2 DEF ReadFrom, Goto
    <2>2. call[r].from \in Accounts
      BY <2>1, Parties DEF Inner
    <2> QED
      BY <1>0, <2>1, <2>2 DEF ReadsKept, Inner, Pending
  <1>3. ASSUME NEW r \in Requests, ReadTo(r) PROVE UNCHANGED <<store, call>> /\ ReadsKept
    <2>1. /\ pc[r] = "readTo" /\ UNCHANGED <<store, call>>
          /\ seen'[r].from = seen[r].from /\ seen'[r].to = balance[call[r].to]
          /\ \A s \in Requests \ {r} : seen'[s] = seen[s]
      BY <1>0, <1>3 DEF ReadTo
    <2>2. PICK l \in {"insert", "done"} : pc' = [pc EXCEPT ![r] = l]
      BY <1>3 DEF ReadTo, Respond, Goto
    <2>3. call[r].to \in Accounts
      BY <2>1, Parties DEF Inner
    <2> QED
      BY <1>0, <2>1, <2>2, <2>3 DEF ReadsKept, Inner, Pending
  <1>4. ASSUME NEW r \in Requests, Insert(r) \/ Post(r) \/ Debit(r)
        PROVE  UNCHANGED <<store, call>> /\ ReadsKept
    <2>1. /\ UNCHANGED <<call, seen, store>>
          /\ pc[r] \in Inner \ {"readFrom", "readTo"}
      BY <1>4 DEF Insert, Post, Debit, Inner, Pending
    <2>2. PICK l \in PCs : pc' = [pc EXCEPT ![r] = l]
      BY <1>4 DEF Insert, Post, Debit, Goto, PCs, Outer, Inner, Pending
    <2> QED
      BY <1>0, <2>1, <2>2 DEF ReadsKept
  <1>5. ASSUME NEW r \in Requests, Commit(r) \/ CommitUnacknowledged(r) PROVE Posting(r)
    BY <1>5 DEF Commit, CommitUnacknowledged, Posting
  <1>6. ASSUME NEW r \in Requests, HandleEvent(r) PROVE UNCHANGED <<store, call>> /\ ReadsKept
    BY <1>6 DEF HandleEvent, ReadsKept
  <1>7. CASE Crash
    <2>1. \A r \in Requests : pc'[r] \notin Inner
      BY <1>7 DEF Crash, Inner, Pending
    <2> QED
      BY <1>7, <2>1 DEF Crash, ReadsKept
  <1>8. CASE UNCHANGED vars
    BY <1>8 DEF vars, ReadsKept
  <1> QED
    BY <1>1, <1>2, <1>3, <1>4, <1>5, <1>6, <1>7, <1>8 DEF Next, Serve, Fail, Finished

-----------------------------------------------------------------------------
(* The journal is finite, and has entries only of transfers in the books. *)
JournalOwned ==
    /\ IsFiniteSet(journal)
    /\ \A e \in journal : \E t \in transactions : t.id = e.txn

(* Total is a sum of these weights over one side of an account. *)
Weights == [e \in journal |-> e.amount]

Side(a, type) == {e \in journal : e.account = a /\ e.type = type}

LEMMA TotalIs ==
  ASSUME NEW a, NEW type
  PROVE  Total(a, type) = SumFunctionOnSet(Weights, Side(a, type))
  BY DEF Total, Weights, Side

(* What a posting adds to one side of an account. *)
LEMMA TotalGrows ==
  ASSUME IInv, JournalOwned, NEW r \in Requests, pc[r] = "credit", Apply(r), UNCHANGED call,
         NEW a \in Accounts, NEW type \in {"DEBIT", "CREDIT"}
  PROVE  /\ Total(a, type) \in Int
         /\ Total(a, type)' = Total(a, type)
              + IF a = (IF type = "DEBIT" THEN call[r].from ELSE call[r].to)
                THEN call[r].amount ELSE 0
  <1> DEFINE party == IF type = "DEBIT" THEN call[r].from ELSE call[r].to
             new   == Entry(r, party, type)
             T     == Side(a, type)
  <1>1. journal' = journal \cup Entries(r) /\ call[r].amount \in Nat
    BY LedgerAssumption DEF Apply, IInv, TypeOK, TransferCall
  <1>2. \A e \in journal : e.txn # r
    BY DEF JournalOwned, IInv, RowsOwned
  <1>3. T' = IF a = party THEN T \cup {new} ELSE T
    BY <1>1 DEF Side, Entries, Entry
  <1>4. new \notin T /\ new.amount = call[r].amount
    BY <1>2 DEF Side, Entry
  <1>5. IsFiniteSet(T) /\ T \subseteq journal /\ T \in SUBSET journal
    <2>1. T \in SUBSET journal
      BY DEF Side
    <2> QED
      BY <2>1, FS_Subset DEF JournalOwned
  <1>6. \A e \in T : Weights[e] \in Int /\ Weights'[e] = Weights[e]
    BY <1>1, <1>5 DEF Weights, IInv, TypeOK
  <1>7. a = party => Weights'[new] = call[r].amount
    BY <1>1 DEF Weights, Entries, Entry
  <1> HIDE DEF T, new, party
  <1>8. /\ SumFunctionOnSet(Weights', T) = SumFunctionOnSet(Weights, T)
        /\ SumFunctionOnSet(Weights, T) \in Int
    BY <1>5, <1>6, SumDepends, SumType
  <1>9. Total(a, type) = SumFunctionOnSet(Weights, T) /\ Total(a, type)' = SumFunctionOnSet(Weights', T')
    BY TotalIs DEF T, Total, Weights, Side
  <1>10. CASE a = party
    <2>1. \A e \in T \cup {new} : Weights'[e] \in Int
      BY <1>1, <1>6, <1>7, <1>10
    <2>2. SumFunctionOnSet(Weights', T \cup {new}) = Weights'[new] + SumFunctionOnSet(Weights', T)
      BY <1>4, <1>5, <2>1, SumAdds
    <2> QED
      BY <1>1, <1>3, <1>7, <1>8, <1>9, <1>10, <2>2 DEF party
  <1>11. CASE a # party
    BY <1>3, <1>8, <1>9, <1>11 DEF party
  <1> QED
    BY <1>10, <1>11

(* An empty journal adds up to nothing. *)
LEMMA InitTotals ==
  ASSUME Init, NEW a, NEW type
  PROVE  Total(a, type) = 0
  <1>1. Side(a, type) = {}
    BY DEF Init, Side
  <1> QED
    BY <1>1, TotalIs, SumEmpty

LEMMA InitJournalOwned == Init => JournalOwned
  BY FS_EmptySet DEF Init, JournalOwned

(* A posting adds two entries, and the row they belong to. *)
LEMMA NextJournalOwned ==
  ASSUME IInv, JournalOwned, [Next]_vars
  PROVE  JournalOwned'
  <1>1. ASSUME NEW r \in Requests, Apply(r), UNCHANGED call PROVE JournalOwned'
    <2> DEFINE d == Entry(r, call[r].from, "DEBIT")
               c == Entry(r, call[r].to, "CREDIT")
    <2>1. journal' = (journal \cup {d}) \cup {c}
      BY <1>1 DEF Apply, Entries
    <2>2. IsFiniteSet(journal \cup {d})
      BY FS_AddElement DEF JournalOwned
    <2>3. IsFiniteSet(journal')
      BY <2>1, <2>2, FS_AddElement
    <2>4. Row(r) \in transactions' /\ Row(r).id = r /\ transactions \subseteq transactions'
      BY <1>1 DEF Apply, Row
    <2>5. d.txn = r /\ c.txn = r
      BY DEF Entry
    <2> QED
      BY <2>1, <2>3, <2>4, <2>5 DEF JournalOwned
  <1>2. CASE UNCHANGED store
    BY <1>2 DEF store, JournalOwned
  <1> QED
    BY <1>1, <1>2, PostingOrReading DEF Posting

-----------------------------------------------------------------------------
(* A balance that was current when it was read stays within what has flowed *)
(* since: the bounds only widen.                                            *)
Within(a, b) ==
    /\ Opening[a] - Total(a, "DEBIT") <= b
    /\ b <= Opening[a] + Total(a, "CREDIT")

(* What a request has read and may write is within the flows, as the        *)
(* balances themselves are.                                                 *)
ReadsWithinFlows ==
    \A r \in Requests :
        /\ pc[r] \in Inner \ {"readFrom"} => Within(call[r].from, seen[r].from)
        /\ pc[r] \in Inner \ {"readFrom", "readTo"} => Within(call[r].to, seen[r].to)

Flows == JournalOwned /\ BalanceWithinFlows /\ ReadsWithinFlows

LEMMA InitFlows == Init => Flows
  <1> SUFFICES ASSUME Init PROVE Flows
    OBVIOUS
  <1>1. BalanceWithinFlows
    BY InitTotals, LedgerAssumption DEF Init, BalanceWithinFlows
  <1>2. ReadsWithinFlows
    BY DEF Init, ReadsWithinFlows, Inner, Pending
  <1> QED
    BY <1>1, <1>2, InitJournalOwned DEF Flows

(* A posting moves each account's bounds by what it writes into it. *)
LEMMA CommitFlows ==
  ASSUME IInv, Flows, NEW r \in Requests, Posting(r)
  PROVE  BalanceWithinFlows' /\ ReadsWithinFlows'
  <1>0. /\ pc[r] = "credit" /\ Apply(r) /\ UNCHANGED <<call, seen>>
        /\ \A s \in Requests : pc'[s] \in Inner => pc'[s] = pc[s]
    BY DEF Posting, Goto, IInv, TypeOK, Inner, Pending
  <1>1. /\ call[r].from \in Accounts /\ call[r].to \in Accounts /\ call[r].from # call[r].to
        /\ call[r].amount \in Nat /\ seen[r].from \in Int /\ seen[r].to \in Int
    BY <1>0, Parties DEF Inner, Pending
  <1>2. ASSUME NEW a \in Accounts
        PROVE  /\ Opening[a] \in Int /\ balance[a] \in Int
               /\ Total(a, "DEBIT") \in Int /\ Total(a, "CREDIT") \in Int
               /\ Total(a, "DEBIT")' = Total(a, "DEBIT")
                    + IF a = call[r].from THEN call[r].amount ELSE 0
               /\ Total(a, "CREDIT")' = Total(a, "CREDIT")
                    + IF a = call[r].to THEN call[r].amount ELSE 0
    <2>1. /\ Total(a, "DEBIT") \in Int
          /\ Total(a, "DEBIT")' = Total(a, "DEBIT")
                + IF a = call[r].from THEN call[r].amount ELSE 0
      BY <1>0, TotalGrows DEF Flows
    <2>2. /\ Total(a, "CREDIT") \in Int
          /\ Total(a, "CREDIT")' = Total(a, "CREDIT")
                + IF a = call[r].to THEN call[r].amount ELSE 0
      BY <1>0, TotalGrows DEF Flows
    <2> QED
      BY <2>1, <2>2, LedgerAssumption DEF IInv, TypeOK
  <1>3. ASSUME NEW a \in Accounts, NEW b \in Int, Within(a, b) PROVE Within(a, b)'
    BY <1>1, <1>2, <1>3 DEF Within
  <1>4. /\ Within(call[r].from, seen[r].from)
        /\ Within(call[r].to, seen[r].to)
    BY <1>0 DEF Flows, ReadsWithinFlows, Inner, Pending
  <1>5. BalanceWithinFlows'
    <2> SUFFICES ASSUME NEW a \in Accounts PROVE Within(a, balance[a])'
      BY DEF BalanceWithinFlows, Within
    <2>1. CASE a = call[r].from
      <3>1. balance'[a] = seen[r].from - call[r].amount
        BY <1>0, <1>1, <2>1 DEF Apply, IInv, TypeOK
      <3> QED
        BY <1>1, <1>2, <1>4, <2>1, <3>1 DEF Within
    <2>2. CASE a = call[r].to
      <3>1. balance'[a] = seen[r].to + call[r].amount
        BY <1>0, <1>1, <2>2 DEF Apply, IInv, TypeOK
      <3> QED
        BY <1>1, <1>2, <1>4, <2>2, <3>1 DEF Within
    <2>3. CASE a \notin {call[r].from, call[r].to}
      <3>1. balance'[a] = balance[a]
        BY <1>0, <1>1, <2>3 DEF Apply, IInv, TypeOK
      <3> QED
        BY <1>1, <1>2, <2>3, <3>1 DEF Within, Flows, BalanceWithinFlows
    <2> QED
      BY <2>1, <2>2, <2>3
  <1>6. ReadsWithinFlows'
    <2> SUFFICES ASSUME NEW s \in Requests, pc'[s] \in Inner
                 PROVE  /\ pc'[s] # "readFrom" => Within(call[s].from, seen[s].from)'
                        /\ pc'[s] \notin {"readFrom", "readTo"} => Within(call[s].to, seen[s].to)'
      BY DEF ReadsWithinFlows
    <2>1. pc'[s] = pc[s] /\ call'[s] = call[s] /\ seen'[s] = seen[s]
      BY <1>0
    <2>2. /\ call[s].from \in Accounts /\ call[s].to \in Accounts
          /\ seen[s].from \in Int /\ seen[s].to \in Int
      BY <2>1, Parties
    <2>3. /\ pc[s] # "readFrom" => Within(call[s].from, seen[s].from)
          /\ pc[s] \notin {"readFrom", "readTo"} => Within(call[s].to, seen[s].to)
      BY <2>1 DEF Flows, ReadsWithinFlows
    <2> QED
      BY <1>3, <2>1, <2>2, <2>3 DEF Within
  <1> QED
    BY <1>5, <1>6

(* Every step preserves Flows. *)
LEMMA NextFlows == IInv /\ Flows /\ [Next]_vars => Flows'
  <1> SUFFICES ASSUME IInv, Flows, [Next]_vars PROVE Flows'
    OBVIOUS
  <1>1. JournalOwned'
    BY NextJournalOwned DEF Flows
  <1>2. ASSUME NEW r \in Requests, Posting(r) PROVE Flows'
    BY <1>1, <1>2, CommitFlows DEF Flows
  <1>3. CASE UNCHANGED <<store, call>> /\ ReadsKept
    <2>1. ASSUME NEW a, NEW b PROVE Within(a, b)' <=> Within(a, b')
      BY <1>3 DEF Within, Total, store
    <2>2. \A a \in Accounts : Within(a, balance[a])
      BY DEF Flows, BalanceWithinFlows, Within
    <2>3. BalanceWithinFlows'
      BY <1>3 DEF Flows, BalanceWithinFlows, Total, store
    <2>4. ReadsWithinFlows'
      <3> SUFFICES ASSUME NEW s \in Requests, pc'[s] \in Inner \ {"readFrom"}
                   PROVE  /\ Within(call[s].from, seen'[s].from)
                          /\ pc'[s] # "readTo" => Within(call[s].to, seen'[s].to)
        BY <1>3, <2>1 DEF ReadsWithinFlows, Within, Total, store
      <3> QED
        BY <1>3, <2>2 DEF ReadsKept, Flows, ReadsWithinFlows
    <2> QED
      BY <1>1, <2>3, <2>4 DEF Flows
  <1> QED
    BY <1>2, <1>3, PostingOrReading

(* Lost updates have a limit: no account ever holds less than its payments  *)
(* leave it, or more than it has been paid.                                 *)
THEOREM WithinFlows == Spec => []BalanceWithinFlows
  BY InitFlows, NextFlows, SpecIInv, PTL DEF Spec, Flows

-----------------------------------------------------------------------------
(* Whoever has read the balance of a has read the present one. *)
ReadsCurrent(a) ==
    \A r \in Requests :
        /\ a = call[r].from /\ pc[r] \in Inner \ {"readFrom"} => seen[r].from = balance[a]
        /\ a = call[r].to /\ pc[r] \in Inner \ {"readFrom", "readTo"} => seen[r].to = balance[a]

InStep(a) == JournalOwned /\ BooksAgree(a) /\ ReadsCurrent(a)

LEMMA InitInStep ==
  ASSUME NEW a \in Accounts
  PROVE  Init => InStep(a)
  <1> SUFFICES ASSUME Init PROVE InStep(a)
    OBVIOUS
  <1>1. BooksAgree(a)
    BY InitTotals, LedgerAssumption DEF Init, BooksAgree
  <1>2. ReadsCurrent(a)
    BY DEF Init, ReadsCurrent, Inner, Pending
  <1> QED
    BY <1>1, <1>2, InitJournalOwned DEF InStep

(* A posting on a that has the only read of a writes what the journal adds  *)
(* up to; one on other accounts does not touch it.                          *)
LEMMA PostingInStep ==
  ASSUME NEW a \in Accounts, IInv, InStep(a), ~Overlap(a), NEW r \in Requests, Posting(r)
  PROVE  BooksAgree(a)' /\ ReadsCurrent(a)'
  <1>0. /\ pc[r] = "credit" /\ Apply(r) /\ UNCHANGED <<call, seen>>
        /\ \A s \in Requests : pc'[s] \in Inner => s # r /\ pc'[s] = pc[s]
    BY DEF Posting, Goto, IInv, TypeOK, Inner, Pending
  <1>1. /\ call[r].from \in Accounts /\ call[r].to \in Accounts /\ call[r].from # call[r].to
        /\ call[r].amount \in Nat /\ seen[r].from \in Int /\ seen[r].to \in Int
    BY <1>0, Parties DEF Inner, Pending
  <1>2. /\ Total(a, "DEBIT") \in Int
        /\ Total(a, "DEBIT")' = Total(a, "DEBIT")
              + IF a = call[r].from THEN call[r].amount ELSE 0
    BY <1>0, TotalGrows DEF InStep
  <1>3. /\ Total(a, "CREDIT") \in Int
        /\ Total(a, "CREDIT")' = Total(a, "CREDIT")
              + IF a = call[r].to THEN call[r].amount ELSE 0
    BY <1>0, TotalGrows DEF InStep
  <1>4. Opening[a] \in Int /\ balance[a] \in Int
    BY LedgerAssumption DEF IInv, TypeOK
  <1>5. /\ a = call[r].from => seen[r].from = balance[a]
        /\ a = call[r].to => seen[r].to = balance[a]
    BY <1>0 DEF InStep, ReadsCurrent, Inner, Pending
  <1>6. balance'[a] = balance[a] + (IF a = call[r].to THEN call[r].amount ELSE 0)
                                 - (IF a = call[r].from THEN call[r].amount ELSE 0)
    BY <1>0, <1>1, <1>4, <1>5 DEF Apply, IInv, TypeOK
  <1>7. BooksAgree(a)'
    BY <1>1, <1>2, <1>3, <1>4, <1>6 DEF InStep, BooksAgree
  <1>8. CASE a \in {call[r].from, call[r].to}
    <2>1. HasRead(r, a)
      BY <1>0, <1>8 DEF HasRead, Inner, Pending
    <2>2. \A s \in Requests \ {r} : ~HasRead(s, a)
      BY <2>1 DEF Overlap
    <2>3. ReadsCurrent(a)'
      BY <1>0, <2>2 DEF ReadsCurrent, HasRead
    <2> QED
      BY <1>7, <2>3
  <1>9. CASE a \notin {call[r].from, call[r].to}
    <2>1. balance'[a] = balance[a]
      BY <1>4, <1>6, <1>9
    <2>2. ReadsCurrent(a)'
      BY <1>0, <2>1 DEF InStep, ReadsCurrent
    <2> QED
      BY <1>7, <2>2
  <1> QED
    BY <1>8, <1>9

LEMMA NextInStep ==
  ASSUME NEW a \in Accounts
  PROVE  IInv /\ InStep(a) /\ ~Overlap(a) /\ [Next]_vars => InStep(a)'
  <1> SUFFICES ASSUME IInv, InStep(a), ~Overlap(a), [Next]_vars PROVE InStep(a)'
    OBVIOUS
  <1>1. JournalOwned'
    BY NextJournalOwned DEF InStep
  <1>2. ASSUME NEW r \in Requests, Posting(r) PROVE InStep(a)'
    BY <1>1, <1>2, PostingInStep DEF InStep
  <1>3. CASE UNCHANGED <<store, call>> /\ ReadsKept
    <2>1. BooksAgree(a)'
      BY <1>3 DEF InStep, BooksAgree, Total, store
    <2>2. ReadsCurrent(a)'
      BY <1>3 DEF InStep, ReadsCurrent, ReadsKept, store
    <2> QED
      BY <1>1, <2>1, <2>2 DEF InStep
  <1> QED
    BY <1>2, <1>3, PostingOrReading

LEMMA OneAccountDrifts ==
  ASSUME NEW a \in Accounts
  PROVE  Spec => ([](~Overlap(a)) => []BooksAgree(a))
  <1>1. Init => InStep(a)
    BY InitInStep
  <1>2. IInv /\ InStep(a) /\ ~Overlap(a) /\ [Next]_vars => InStep(a)'
    BY NextInStep
  <1>3. InStep(a) => BooksAgree(a)
    BY DEF InStep
  <1> QED
    BY <1>1, <1>2, <1>3, SpecIInv, PTL DEF Spec

(* An account whose balance no two requests ever have in hand at once       *)
(* agrees with its journal for good, whatever happens around it: only an    *)
(* overlap on the account itself can lose an update of it.                  *)
THEOREM OnlyOverlapsDrift == Spec => DriftNeedsOverlap
  BY OneAccountDrifts DEF DriftNeedsOverlap
=============================================================================
