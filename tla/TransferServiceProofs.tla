------------------------ MODULE TransferServiceProofs ------------------------
(***************************************************************************)
(* Proofs about TransferService for any submissions, keys, users, limits,   *)
(* retry counts and numbers of faults.                                      *)
(***************************************************************************)
EXTENDS TransferService, TLAPS

(* s has got its key: its handler runs, or has launched an attempt. *)
Holds(s) == pc[s] \in InHandler \/ tries[s] > 0

(* The unique index: a key has one holder, and is in_progress as long as   *)
(* the holder's handler runs.                                              *)
KeysHeld ==
    \A s \in Submissions :
        /\ Holds(s) => keys[Key(s)] # "absent"
        /\ pc[s] \in InHandler => keys[Key(s)] = "in_progress"
        /\ Holds(s) => \A q \in Submissions \ {s} : Holds(q) => Key(q) # Key(s)

(* Attempts are launched after the checks that precede them. *)
ChecksFirst ==
    \A s \in Submissions :
        /\ pc[s] \in {"new", "decode", "fraud", "call"} => outcome[s] = "none"
        /\ pc[s] \in {"new", "decode", "fraud"} => tries[s] = 0
        /\ pc[s] = "call" => tries[s] > 0
        /\ pc[s] = "fraud" => request[s].kind = "transfer"
        /\ tries[s] > 0 /\ request[s].kind = "transfer" => request[s].amount <= FraudLimit

(* The ledger answers and posts only what has been launched. *)
BooksFollowAttempts ==
    /\ \A at \in Attempts :
          /\ reply[at] # "unsent" => at[2] <= tries[at[1]]
          /\ reply[at] \in {"posted", "duplicate"} =>
                \E t \in transactions : t.call = Payload(at)
    /\ \A t \in transactions : t.call = Payload(t.id) /\ t.id[2] <= tries[t.id[1]]
    /\ \A t, u \in transactions : t.call.ref = u.call.ref => t = u

Posted(s)  == \E t \in transactions : t.call = Payload(<<s, 1>>)
Beyond(s)  == request[s].kind = "transfer" /\ request[s].amount > FraudLimit

(* What a handler has settled on is so. *)
OutcomesJustified ==
    \A s \in Submissions :
        /\ pc[s] = "complete" => outcome[s] \in {"success", "rejected"}
        /\ pc[s] = "fail" => outcome[s] \notin {"success", "rejected"}
        /\ outcome[s] = "success" => Posted(s)
        /\ outcome[s] = "rejected" => Beyond(s)
        /\ outcome[s] \in Unsent => tries[s] = 0
        /\ Told(s) \in {"success", "rejected"} => keys[Key(s)] = "completed"

CompletionsJustified ==
    \A k \in Keys :
        keys[k] = "completed" => \E s \in Submissions : Key(s) = k /\ (Posted(s) \/ Beyond(s))

IInv ==
    /\ TypeOK
    /\ KeysHeld
    /\ ChecksFirst
    /\ BooksFollowAttempts
    /\ OutcomesJustified
    /\ CompletionsJustified

-----------------------------------------------------------------------------
(* Initially nothing is reserved, launched or posted. *)
LEMMA InitIInv == Init => IInv
  <1> SUFFICES ASSUME Init PROVE IInv
    OBVIOUS
  <1> USE TransferAssumption DEF Init
  <1>1. TypeOK
    BY DEF TypeOK, PCs, Outcomes, Statuses, Attempts
  <1>2. KeysHeld /\ ChecksFirst
    BY DEF KeysHeld, ChecksFirst, Holds, InHandler
  <1>3. BooksFollowAttempts /\ OutcomesJustified
    BY DEF BooksFollowAttempts, OutcomesJustified, Told, Unsent
  <1>4. CompletionsJustified
    BY DEF CompletionsJustified
  <1> QED
    BY <1>1, <1>2, <1>3, <1>4 DEF IInv

(* All attempts of a submission carry the same payload. *)
LEMMA SamePayload ==
  ASSUME NEW s \in Submissions, NEW m, NEW n
  PROVE  Payload(<<s, m>>) = Payload(<<s, n>>)
  BY DEF Payload

(* What a step of the handler of s that leaves the ledger alone must       *)
(* respect to preserve IInv.                                               *)
LEMMA HandlerStep ==
  ASSUME IInv,
         NEW s \in Submissions, NEW l \in PCs \ {"new"}, NEW o \in Outcomes,
         NEW n \in 0..MaxAttempts, NEW status \in Statuses \ {"absent"},
         pc[s] \in InHandler,
         pc' = [pc EXCEPT ![s] = l],
         outcome' = [outcome EXCEPT ![s] = o],
         tries' = [tries EXCEPT ![s] = n],
         keys' = [keys EXCEPT ![Key(s)] = status],
         UNCHANGED <<request, server, books>>,
         faults' \in 0..MaxFaults,
         n >= tries[s],
         l \in InHandler => status = "in_progress",
         l \in {"decode", "fraud"} => n = 0,
         l = "call" => n > 0,
         l \in {"decode", "fraud", "call"} => o = "none",
         l = "fraud" => request[s].kind = "transfer",
         n > 0 /\ request[s].kind = "transfer" => request[s].amount <= FraudLimit,
         l = "complete" => o \in {"success", "rejected"},
         l = "fail" => o \notin {"success", "rejected"},
         o = "success" => Posted(s),
         o = "rejected" => Beyond(s),
         o \in Unsent => n = 0,
         l = "done" /\ o \in {"success", "rejected"} => status = "completed",
         status = "completed" => Posted(s) \/ Beyond(s)
  PROVE  IInv'
  <1> USE DEF IInv, books
  <1>0. Key(s) \in Keys /\ request[s] \in Submission
    BY TransferAssumption DEF TypeOK, Key, Submission
  <1>1. TypeOK'
    BY <1>0 DEF TypeOK
  <1>2. KeysHeld'
    <2>1. Holds(s) /\ keys[Key(s)] = "in_progress" /\ keys'[Key(s)] # "absent"
      BY <1>0 DEF KeysHeld, Holds, TypeOK
    <2>2. ASSUME NEW q \in Submissions, Holds(q)'
          PROVE  /\ Holds(q)
                 /\ q # s => pc'[q] = pc[q] /\ keys'[Key(q)] = keys[Key(q)]
      BY <2>1, <2>2 DEF Holds, TypeOK, KeysHeld
    <2>3. ASSUME NEW q \in Submissions, Holds(q)'
          PROVE  keys'[Key(q)] # "absent"
      BY <2>1, <2>2, <2>3 DEF KeysHeld
    <2>4. ASSUME NEW q \in Submissions, pc'[q] \in InHandler
          PROVE  keys'[Key(q)] = "in_progress"
      <3>1. Holds(q)'
        BY <2>4 DEF Holds
      <3> QED
        BY <1>0, <2>2, <2>4, <3>1 DEF KeysHeld, TypeOK
    <2>5. ASSUME NEW q \in Submissions, NEW x \in Submissions \ {q}, Holds(q)', Holds(x)'
          PROVE  Key(x) # Key(q)
      BY <2>2, <2>5 DEF KeysHeld
    <2>6. \A q \in Submissions : Key(q)' = Key(q)
      BY DEF Key
    <2> QED
      BY <2>3, <2>4, <2>5, <2>6 DEF KeysHeld
  <1>3. ChecksFirst'
    BY DEF ChecksFirst, TypeOK
  <1>4. BooksFollowAttempts'
    <2>1. ASSUME NEW q \in Submissions PROVE tries'[q] >= tries[q] /\ tries[q] \in Int /\ tries'[q] \in Int
      BY DEF TypeOK
    <2>2. ASSUME NEW at PROVE Payload(at)' = Payload(at)
      BY DEF Payload
    <2>3. ASSUME NEW at \in Attempts PROVE at[1] \in Submissions /\ at[2] \in Int
      BY DEF Attempts
    <2>4. \A t \in transactions : t.id \in Attempts
      BY DEF TypeOK
    <2> QED
      BY <2>1, <2>2, <2>3, <2>4 DEF BooksFollowAttempts
  <1>5. OutcomesJustified'
    <2>1. keys[Key(s)] = "in_progress"
      BY DEF KeysHeld
    <2>2. ASSUME NEW q \in Submissions
          PROVE  Posted(q)' = Posted(q) /\ Beyond(q)' = Beyond(q) /\ Key(q)' = Key(q)
      BY DEF Posted, Beyond, Key, Payload
    <2> QED
      BY <1>0, <2>1, <2>2 DEF OutcomesJustified, TypeOK, Told
  <1>6. CompletionsJustified'
    <2>1. ASSUME NEW q \in Submissions
          PROVE  Posted(q)' = Posted(q) /\ Beyond(q)' = Beyond(q) /\ Key(q)' = Key(q)
      BY DEF Posted, Beyond, Key, Payload
    <2> QED
      BY <1>0, <2>1 DEF CompletionsJustified, TypeOK
  <1> QED
    BY <1>1, <1>2, <1>3, <1>4, <1>5, <1>6

(* Before a key is reserved the handler holds nothing; Reserve and its      *)
(* failure change the key from "absent" at most.                            *)
LEMMA ReserveStep ==
  ASSUME IInv,
         NEW s \in Submissions, NEW l \in {"decode", "done"},
         NEW o \in {"none", "duplicateRequest", "internal"},
         pc[s] = "new",
         l = "decode" => o = "none",
         pc' = [pc EXCEPT ![s] = l],
         outcome' = [outcome EXCEPT ![s] = o],
         \/ keys' = keys /\ l = "done"
         \/ keys[Key(s)] = "absent" /\ keys' = [keys EXCEPT ![Key(s)] = "in_progress"],
         UNCHANGED <<request, tries, server, books>>,
         faults' \in 0..MaxFaults
  PROVE  IInv'
  <1> USE DEF IInv, books
  <1>0. /\ tries[s] = 0
        /\ \A q \in Submissions :
              /\ Key(q) \in Keys /\ Key(q)' = Key(q)
              /\ Posted(q)' = Posted(q) /\ Beyond(q)' = Beyond(q)
    BY TransferAssumption
       DEF TypeOK, Key, Submission, ChecksFirst, Posted, Beyond, Payload
  <1>1. TypeOK'
    BY <1>0 DEF TypeOK, PCs, InHandler, Outcomes, Unsent, Statuses
  <1>2. KeysHeld'
    <2>1. ASSUME NEW q \in Submissions \ {s}
          PROVE  Holds(q)' = Holds(q) /\ pc'[q] = pc[q]
      BY DEF Holds, TypeOK
    <2>2. ASSUME NEW q \in Submissions \ {s}, Holds(q)
          PROVE  keys'[Key(q)] = keys[Key(q)] /\ (Holds(s)' => Key(q) # Key(s))
      <3>1. keys[Key(q)] # "absent"
        BY <2>2 DEF KeysHeld
      <3>2. Holds(s)' => l = "decode"
        BY <1>0 DEF Holds, TypeOK, InHandler
      <3> QED
        BY <1>0, <3>1, <3>2 DEF TypeOK
    <2>3. Holds(s)' => keys'[Key(s)] = "in_progress"
      BY <1>0 DEF Holds, TypeOK, InHandler
    <2>4. \A q \in Submissions : pc'[q] \in InHandler => Holds(q)'
      BY DEF Holds
    <2> QED
      BY <1>0, <2>1, <2>2, <2>3, <2>4 DEF KeysHeld
  <1>3. ChecksFirst'
    BY <1>0 DEF ChecksFirst, TypeOK
  <1>4. BooksFollowAttempts'
    BY DEF BooksFollowAttempts, Payload
  <1>5. OutcomesJustified'
    BY <1>0 DEF OutcomesJustified, TypeOK, Told, Unsent
  <1>6. CompletionsJustified'
    BY <1>0 DEF CompletionsJustified, TypeOK
  <1> QED
    BY <1>1, <1>2, <1>3, <1>4, <1>5, <1>6

(* The network and the ledger leave the handlers and the keys alone. *)
LEMMA BooksStep ==
  ASSUME IInv,
         UNCHANGED <<request, pc, tries, outcome, keys, server, faults>>,
         \/ \E at \in Attempts : \/ at[2] <= tries[at[1]] /\ Ledger!Send(at)
                               \/ Ledger!Post(at)
                               \/ Ledger!Reply(at)
         \/ Ledger!Lose
  PROVE  IInv'
  <1> USE DEF IInv
  <1>0. /\ \A b \in Attempts : Payload(b)' = Payload(b) /\ b[1] \in Submissions
        /\ transactions \subseteq transactions'
    BY DEF Payload, Attempts, Ledger!Send, Ledger!Post, Ledger!Reply, Ledger!Lose
  <1>1. BooksFollowAttempts' /\ TypeOK'
    <2>1. ASSUME NEW at \in Attempts, at[2] <= tries[at[1]], Ledger!Send(at)
          PROVE  BooksFollowAttempts' /\ TypeOK'
      BY <1>0, <2>1 DEF Ledger!Send, BooksFollowAttempts, TypeOK
    <2>2. ASSUME NEW at \in Attempts, Ledger!Post(at)
          PROVE  BooksFollowAttempts' /\ TypeOK'
      <3>1. /\ transactions' = transactions \cup {[id |-> at, call |-> Payload(at)]}
            /\ \A t \in transactions : t.call.ref # Payload(at).ref
            /\ reply' = reply /\ reply[at] = "pending"
        BY <2>2 DEF Ledger!Post, Ledger!Row, Ledger!RefTaken
      <3>2. at[2] <= tries[at[1]]
        BY <3>1 DEF BooksFollowAttempts
      <3>3. \A t \in transactions : t.id \in Attempts
        BY DEF TypeOK
      <3>4. \A t, u \in transactions' : t.call.ref = u.call.ref => t = u
        BY <3>1 DEF BooksFollowAttempts
      <3>5. ASSUME NEW b \in Attempts
            PROVE  /\ reply'[b] # "unsent" => b[2] <= tries'[b[1]]
                   /\ reply'[b] \in {"posted", "duplicate"} =>
                         \E t \in transactions' : t.call = Payload(b)'
        BY <1>0, <3>1 DEF BooksFollowAttempts
      <3>6. \A t \in transactions' : t.call = Payload(t.id)' /\ t.id[2] <= tries'[t.id[1]]
        BY <1>0, <3>1, <3>2, <3>3 DEF BooksFollowAttempts
      <3>7. Payload(at) \in LedgerCall
        BY <1>0, TransferAssumption
           DEF TypeOK, Payload, Charge, LedgerCall, Submission
      <3> QED
        BY <3>1, <3>4, <3>5, <3>6, <3>7 DEF BooksFollowAttempts, TypeOK
    <2>3. ASSUME NEW at \in Attempts, Ledger!Reply(at)
          PROVE  BooksFollowAttempts' /\ TypeOK'
      <3>1. PICK a \in Ledger!Justified(at) :
              reply' = [reply EXCEPT ![at] = a] /\ transactions' = transactions
        BY <2>3 DEF Ledger!Reply
      <3>2. a \in {"posted", "duplicate"} => \E t \in transactions : t.call = Payload(at)
        <4>1. a = "posted" => [id |-> at, call |-> Payload(at)] \in transactions
          BY <3>1 DEF Ledger!Justified, Ledger!Row
        <4> QED
          BY <3>1, <4>1 DEF Ledger!Justified, Ledger!PostedAs
      <3>3. reply[at] # "unsent" /\ a \in Ledger!Answers
        BY <2>3, <3>1 DEF Ledger!Reply, Ledger!Justified
      <3> QED
        BY <1>0, <3>1, <3>2, <3>3 DEF BooksFollowAttempts, TypeOK
    <2>4. CASE Ledger!Lose
      <3>1. transactions' = transactions /\ reply' \in [Attempts -> Ledger!Answers \cup {"unsent", "pending"}]
        BY <2>4 DEF Ledger!Lose, Ledger!Answers, TypeOK
      <3>2. \A b \in Attempts : reply'[b] # reply[b] => reply[b] = "pending" /\ reply'[b] = "lost"
        BY <2>4 DEF Ledger!Lose
      <3> QED
        BY <1>0, <3>1, <3>2 DEF BooksFollowAttempts, TypeOK
    <2> QED
      BY <2>1, <2>2, <2>3, <2>4
  <1>3. KeysHeld' /\ ChecksFirst'
    BY DEF KeysHeld, ChecksFirst, Holds, Key
  <1>4. ASSUME NEW s \in Submissions
        PROVE  (Posted(s) => Posted(s)') /\ Beyond(s)' = Beyond(s) /\ Key(s)' = Key(s)
    BY <1>0 DEF Posted, Beyond, Key, Payload
  <1>5. OutcomesJustified' /\ CompletionsJustified'
    BY <1>4 DEF OutcomesJustified, CompletionsJustified, Told
  <1> QED
    BY <1>1, <1>3, <1>5

(* The end of the process takes the handlers with it and nothing else. *)
LEMMA KilledStep ==
  ASSUME IInv, Killed, faults' \in 0..MaxFaults
  PROVE  IInv'
  <1> USE DEF IInv, Killed, books
  <1>1. TypeOK'
    BY DEF TypeOK, PCs, Outcomes
  <1>2. KeysHeld' /\ ChecksFirst' /\ BooksFollowAttempts'
    BY DEF KeysHeld, ChecksFirst, BooksFollowAttempts, Holds, Key, Payload, InHandler, TypeOK
  <1>3. ASSUME NEW s \in Submissions
        PROVE  Posted(s)' = Posted(s) /\ Beyond(s)' = Beyond(s) /\ Key(s)' = Key(s)
    BY DEF Posted, Beyond, Key, Payload
  <1>4. OutcomesJustified'
    BY <1>3 DEF OutcomesJustified, Told, Unsent, InHandler, TypeOK, PCs
  <1>5. CompletionsJustified'
    BY <1>3 DEF CompletionsJustified
  <1> QED
    BY <1>1, <1>2, <1>4, <1>5

(* Every step preserves IInv. *)
LEMMA NextIInv == IInv /\ [Next]_vars => IInv'
  <1> SUFFICES ASSUME IInv, [Next]_vars PROVE IInv'
    OBVIOUS
  <1>0. ASSUME NEW s \in Submissions
        PROVE  /\ pc[s] \in PCs /\ tries[s] \in 0..MaxAttempts /\ outcome[s] \in Outcomes
               /\ [tries EXCEPT ![s] = tries[s]] = tries
               /\ [outcome EXCEPT ![s] = outcome[s]] = outcome
               /\ faults \in 0..MaxFaults /\ (Fault => faults' \in 0..MaxFaults)
               /\ pc[s] \in InHandler =>
                    /\ keys[Key(s)] = "in_progress"
                    /\ [keys EXCEPT ![Key(s)] = "in_progress"] = keys
               /\ MaxAttempts \in Nat \ {0}
    BY TransferAssumption DEF IInv, TypeOK, KeysHeld, Fault, Key, Submission
  <1>1. ASSUME NEW s \in Submissions, Reserve(s) PROVE IInv'
    BY <1>0, <1>1, ReserveStep DEF Reserve, Decide, Goto, Mark
  <1>2. ASSUME NEW s \in Submissions, ReserveFails(s) PROVE IInv'
    BY <1>0, <1>2, ReserveStep DEF ReserveFails, Decide, Goto, Mark
  (* Deciding on an answer, with the key to be marked next or left. *)
  <1>3. ASSUME NEW s \in Submissions, NEW l \in {"complete", "fail", "done"}, NEW o \in Outcomes,
               pc[s] \in InHandler, Decide(s, l, o),
               l = "complete" => o \in {"success", "rejected"},
               l \in {"fail", "done"} => o \notin {"success", "rejected"},
               o = "success" => Posted(s),
               o = "rejected" => Beyond(s),
               o \in Unsent => tries[s] = 0,
               UNCHANGED <<request, tries, keys, server, books>>,
               faults' \in 0..MaxFaults
        PROVE  IInv'
    <2>1. tries[s] > 0 /\ request[s].kind = "transfer" => request[s].amount <= FraudLimit
      BY DEF IInv, ChecksFirst
    <2>2. /\ pc' = [pc EXCEPT ![s] = l] /\ outcome' = [outcome EXCEPT ![s] = o]
          /\ tries' = [tries EXCEPT ![s] = tries[s]]
          /\ keys' = [keys EXCEPT ![Key(s)] = "in_progress"]
          /\ l \in PCs \ {"new"} /\ l \notin {"decode", "fraud", "call"}
          /\ tries[s] \in 0..MaxAttempts /\ tries[s] >= tries[s]
          /\ "in_progress" \in Statuses \ {"absent"}
      BY <1>0, <1>3 DEF Decide, Goto, PCs, InHandler, Statuses
    <2> QED
      BY <1>3, <2>1, <2>2, HandlerStep
  (* Marking the key and answering. *)
  <1>4. ASSUME NEW s \in Submissions, NEW o \in Outcomes,
               NEW status \in {"completed", "failed"},
               pc[s] \in InHandler, Decide(s, "done", o), Mark(Key(s), status),
               status = "completed" => pc[s] = "complete",
               o \in {"success", "rejected"} => o = outcome[s] /\ status = "completed",
               o \in Unsent => tries[s] = 0,
               UNCHANGED <<request, tries, server, books>>,
               faults' \in 0..MaxFaults
        PROVE  IInv'
    <2>1. /\ tries[s] > 0 /\ request[s].kind = "transfer" => request[s].amount <= FraudLimit
          /\ status = "completed" => Posted(s) \/ Beyond(s)
          /\ o = "success" => Posted(s)
          /\ o = "rejected" => Beyond(s)
      BY <1>4 DEF IInv, ChecksFirst, OutcomesJustified
    <2>2. /\ pc' = [pc EXCEPT ![s] = "done"] /\ outcome' = [outcome EXCEPT ![s] = o]
          /\ tries' = [tries EXCEPT ![s] = tries[s]]
          /\ keys' = [keys EXCEPT ![Key(s)] = status]
          /\ "done" \in PCs \ {"new"} /\ "done" \notin InHandler
          /\ tries[s] \in 0..MaxAttempts /\ tries[s] >= tries[s]
          /\ status \in Statuses \ {"absent"}
      BY <1>0, <1>4 DEF Decide, Goto, Mark, PCs, InHandler, Statuses
    <2> QED
      BY <1>4, <2>1, <2>2, HandlerStep
  (* Launching an attempt. *)
  <1>5. ASSUME NEW s \in Submissions, pc[s] \in InHandler \ {"complete"},
               tries[s] < MaxAttempts, Launch(s),
               request[s].kind = "transfer" => request[s].amount <= FraudLimit,
               outcome[s] = "none",
               UNCHANGED <<request, keys, server, books>>,
               faults' \in 0..MaxFaults
        PROVE  IInv'
    <2>1. "none" \notin Unsent /\ "none" \in Outcomes
      BY DEF Unsent, Outcomes
    <2> DEFINE n == tries[s] + 1
    <2>2. n \in 0..MaxAttempts /\ n >= tries[s] /\ n > 0
      BY <1>0, <1>5
    <2>3. /\ pc' = [pc EXCEPT ![s] = "call"] /\ outcome' = [outcome EXCEPT ![s] = "none"]
          /\ tries' = [tries EXCEPT ![s] = n]
          /\ keys' = [keys EXCEPT ![Key(s)] = "in_progress"]
          /\ "call" \in PCs \ {"new"}
          /\ "in_progress" \in Statuses \ {"absent"}
      BY <1>0, <1>5 DEF Launch, Goto, PCs, InHandler, Statuses
    <2> HIDE DEF n
    <2> QED
      BY <1>0, <1>5, <2>1, <2>2, <2>3, HandlerStep
  (* What is known of a handler where it is. *)
  <1>6. ASSUME NEW s \in Submissions
        PROVE  /\ pc[s] \in {"decode", "fraud"} => tries[s] = 0
               /\ pc[s] \in {"decode", "fraud", "call"} => outcome[s] = "none"
               /\ pc[s] = "call" => tries[s] > 0
               /\ tries[s] > 0 /\ request[s].kind = "transfer" => request[s].amount <= FraudLimit
               /\ pc[s] = "fraud" => request[s].kind = "transfer"
               /\ request[s].amount \in Int /\ FraudLimit \in Int
               /\ outcome[s] \in Unsent => tries[s] = 0
    BY TransferAssumption
       DEF IInv, TypeOK, ChecksFirst, OutcomesJustified, Submission
  <1>7. ASSUME NEW s \in Submissions, DecodeTransfer(s), pc[s] = "decode",
               UNCHANGED <<request, keys, server, books, faults>>
        PROVE  IInv'
    <2>1. CASE Decide(s, "fail", "badRequest") /\ UNCHANGED tries
      BY <1>0, <1>3, <1>6, <1>7, <2>1 DEF InHandler, Outcomes, Unsent
    <2>2. CASE Goto(s, "fraud") /\ UNCHANGED <<tries, outcome>>
      <3>1. /\ pc' = [pc EXCEPT ![s] = "fraud"] /\ outcome' = [outcome EXCEPT ![s] = "none"]
            /\ tries' = [tries EXCEPT ![s] = 0]
            /\ keys' = [keys EXCEPT ![Key(s)] = "in_progress"]
            /\ "fraud" \in PCs \ {"new"} /\ "none" \in Outcomes \ Unsent
            /\ "in_progress" \in Statuses \ {"absent"}
            /\ 0 \in 0..MaxAttempts /\ 0 >= tries[s] /\ pc[s] \in InHandler
            /\ request[s].kind = "transfer" /\ ~(0 > 0)
            /\ UNCHANGED <<request, server, books>> /\ faults' \in 0..MaxFaults
        BY <1>0, <1>6, <1>7, <2>2
           DEF Goto, DecodeTransfer, PCs, InHandler, Statuses, Outcomes, Unsent
      <3> QED
        BY <3>1, HandlerStep
    <2> QED
      BY <1>7, <2>1, <2>2 DEF DecodeTransfer
  <1>8. ASSUME NEW s \in Submissions, DecodeTopup(s), pc[s] = "decode",
               UNCHANGED <<request, keys, server, books, faults>>
        PROVE  IInv'
    <2>1. CASE Decide(s, "done", "badRequest") /\ UNCHANGED tries
      BY <1>0, <1>3, <1>6, <1>8, <2>1 DEF InHandler, Outcomes, Unsent
    <2>2. CASE Decide(s, "fail", "noAccount") /\ UNCHANGED tries
      BY <1>0, <1>3, <1>6, <1>8, <2>2 DEF InHandler, Outcomes, Unsent
    <2>3. CASE Launch(s)
      BY <1>0, <1>5, <1>6, <1>8, <2>3 DEF InHandler, DecodeTopup
    <2> QED
      BY <1>8, <2>1, <2>2, <2>3 DEF DecodeTopup
  <1>9. ASSUME NEW s \in Submissions, Decode(s) PROVE IInv'
    <2>1. CASE Decide(s, "done", "malformed") /\ UNCHANGED tries
      BY <1>0, <1>3, <1>6, <1>9, <2>1 DEF Decode, InHandler, Outcomes, Unsent
    <2> QED
      BY <1>7, <1>8, <1>9, <2>1 DEF Decode
  <1>10. ASSUME NEW s \in Submissions, LookupFails(s) PROVE IInv'
    BY <1>0, <1>3, <1>10 DEF LookupFails, InHandler, Outcomes, Unsent
  <1>11. ASSUME NEW s \in Submissions, FraudCheck(s) PROVE IInv'
    <2>1. CASE ~Approved(request[s]) /\ Decide(s, "complete", "rejected")
               /\ UNCHANGED tries
      BY <1>0, <1>3, <1>6, <1>11, <2>1 DEF FraudCheck, Approved, InHandler, Outcomes, Unsent, Beyond
    <2>2. CASE Approved(request[s]) /\ Launch(s)
      BY <1>0, <1>5, <1>6, <1>11, <2>2 DEF FraudCheck, Approved, InHandler
    <2>3. CASE Decide(s, "fail", "unavailable") /\ UNCHANGED tries
      BY <1>0, <1>3, <1>11, <2>3 DEF FraudCheck, Approved, InHandler, Outcomes, Unsent
    <2> QED
      BY <1>11, <2>1, <2>2, <2>3 DEF FraudCheck
  <1>12. ASSUME NEW s \in Submissions, pc[s] = "call", RetryOrGiveUp(s),
                UNCHANGED <<request, keys, server, books, faults>>
         PROVE  IInv'
    <2>1. CASE tries[s] < MaxAttempts /\ Launch(s)
      BY <1>0, <1>5, <1>6, <1>12, <2>1 DEF InHandler
    <2>2. CASE Decide(s, "fail", "unavailable") /\ UNCHANGED tries
      BY <1>0, <1>3, <1>12, <2>2 DEF InHandler, Outcomes, Unsent
    <2> QED
      BY <1>12, <2>1, <2>2 DEF RetryOrGiveUp
  <1>13. ASSUME NEW s \in Submissions, LedgerAnswers(s) PROVE IInv'
    <2> DEFINE a == reply[Attempt(s)]
    <2>0. /\ pc[s] = "call" /\ UNCHANGED <<request, keys, server, books, faults>>
          /\ Attempt(s) \in Attempts
      BY <1>0, <1>6, <1>13 DEF LedgerAnswers, Attempt, Attempts
    <2>1. CASE a \in {"posted", "duplicate"} /\ Decide(s, "complete", "success")
               /\ UNCHANGED tries
      <3>1. Posted(s)
        BY <2>0, <2>1, SamePayload DEF IInv, BooksFollowAttempts, Posted, Attempt
      <3> QED
        BY <1>0, <1>3, <2>0, <2>1, <3>1 DEF InHandler, Outcomes, Unsent
    <2>2. CASE a \in Relayed /\ Decide(s, "fail", a) /\ UNCHANGED tries
      BY <1>0, <1>3, <2>0, <2>2
         DEF InHandler, Outcomes, Unsent, Relayed, Ledger!Refusals
    <2>3. CASE RetryOrGiveUp(s)
      BY <1>12, <2>0, <2>3
    <2> QED
      BY <1>13, <2>1, <2>2, <2>3 DEF LedgerAnswers
  <1>14. ASSUME NEW s \in Submissions, CallFails(s) PROVE IInv'
    BY <1>12, <1>14 DEF CallFails
  <1>15. ASSUME NEW s \in Submissions, Complete(s) \/ MarkFailed(s) PROVE IInv'
    <2>1. Decide(s, "done", outcome[s])
      BY <1>0, <1>15 DEF Complete, MarkFailed, Decide
    <2>2. pc[s] = "fail" => outcome[s] \notin {"success", "rejected"}
      BY DEF IInv, OutcomesJustified
    <2> QED
      BY <1>0, <1>4, <1>6, <1>15, <2>1, <2>2 DEF Complete, MarkFailed, InHandler
  <1>16. ASSUME NEW s \in Submissions, CompleteFails(s) PROVE IInv'
    <2>1. CASE UNCHANGED keys
      BY <1>0, <1>3, <1>16, <2>1 DEF CompleteFails, InHandler, Outcomes, Unsent
    <2>2. CASE Mark(Key(s), "completed")
      BY <1>0, <1>4, <1>16, <2>2 DEF CompleteFails, InHandler, Outcomes, Unsent
    <2> QED
      BY <1>16, <2>1, <2>2 DEF CompleteFails
  <1>17. ASSUME NEW s \in Submissions, MarkFailedFails(s) PROVE IInv'
    <2>1. Decide(s, "done", outcome[s]) /\ outcome[s] \notin {"success", "rejected"}
      BY <1>0, <1>17 DEF MarkFailedFails, Decide, IInv, OutcomesJustified
    <2> QED
      BY <1>0, <1>3, <1>6, <1>17, <2>1 DEF MarkFailedFails, InHandler
  <1>18. CASE (\E at \in Attempts : Deliver(at) \/ LedgerServes(at)) \/ LedgerCrashes
    BY <1>18, BooksStep DEF Deliver, LedgerServes, LedgerCrashes
  <1>19. CASE Crash \/ Exit
    BY <1>19, KilledStep, TransferAssumption DEF Crash, Exit, Fault, IInv, TypeOK
  <1>20. CASE Sigterm
    BY <1>20, TransferAssumption
       DEF Sigterm, Fault, books, IInv, TypeOK, KeysHeld, ChecksFirst, BooksFollowAttempts,
           OutcomesJustified, CompletionsJustified, Holds, Key, Payload, Posted, Beyond, Told
  <1>21. CASE UNCHANGED vars
    BY <1>21
       DEF vars, IInv, TypeOK, KeysHeld, ChecksFirst, BooksFollowAttempts,
           OutcomesJustified, CompletionsJustified, Holds, Key, Payload, Posted, Beyond, Told
  <1> QED
    BY <1>1, <1>2, <1>9, <1>10, <1>11, <1>13, <1>14, <1>15, <1>16, <1>17, <1>18, <1>19,
       <1>20, <1>21
       DEF Next, Handle, DatabaseFails, Finished

LEMMA SpecIInv == Spec => []IInv
  BY InitIInv, NextIInv, PTL DEF Spec

-----------------------------------------------------------------------------
(* Every variable keeps its type; in particular no handler launches more   *)
(* attempts than configured.                                               *)
THEOREM TypeCorrect == Spec => []TypeOK
  BY SpecIInv, PTL DEF IInv

(* Two rows under one key come from one submission, hence carry one        *)
(* reference, hence are the same row.                                      *)
THEOREM OneMovePerKey == Spec => []KeyMovesMoneyOnce
  <1>1. IInv => KeyMovesMoneyOnce
    <2> SUFFICES ASSUME IInv, NEW t \in transactions, NEW u \in transactions,
                        Key(t.id[1]) = Key(u.id[1])
                 PROVE  t = u
      BY DEF KeyMovesMoneyOnce
    <2>1. /\ t.id \in Attempts /\ u.id \in Attempts
          /\ t.call = Payload(t.id) /\ u.call = Payload(u.id)
          /\ t.id[2] <= tries[t.id[1]] /\ u.id[2] <= tries[u.id[1]]
      BY DEF IInv, TypeOK, BooksFollowAttempts
    <2>2. /\ t.id[1] \in Submissions /\ t.id[2] \in 1..MaxAttempts
          /\ u.id[1] \in Submissions /\ u.id[2] \in 1..MaxAttempts
      BY <2>1 DEF Attempts
    <2>3. Holds(t.id[1]) /\ Holds(u.id[1])
      BY <2>1, <2>2 DEF Holds, IInv, TypeOK
    <2>4. t.id[1] = u.id[1]
      BY <2>2, <2>3 DEF IInv, KeysHeld
    <2>5. t.call.ref = u.call.ref
      BY <2>1, <2>4 DEF Payload, Charge
    <2> QED
      BY <2>5 DEF IInv, BooksFollowAttempts
  <1> QED
    BY <1>1, SpecIInv, PTL

(* Nothing is in the books that the fraud service would have rejected, or  *)
(* whose key was not reserved first.                                       *)
THEOREM FraudAndKeyFirst == Spec => []FraudAndKeyBeforeLedger
  <1>1. IInv => FraudAndKeyBeforeLedger
    <2> SUFFICES ASSUME IInv, NEW t \in transactions
                 PROVE  /\ request[t.id[1]].kind = "transfer"
                              => request[t.id[1]].amount <= FraudLimit
                        /\ keys[request[t.id[1]].key] # "absent"
      BY DEF FraudAndKeyBeforeLedger
    <2>1. t.id \in Attempts /\ t.id[2] <= tries[t.id[1]]
      BY DEF IInv, TypeOK, BooksFollowAttempts
    <2>2. t.id[1] \in Submissions /\ tries[t.id[1]] > 0
      BY <2>1 DEF Attempts, IInv, TypeOK
    <2> QED
      BY <2>2 DEF IInv, ChecksFirst, KeysHeld, Holds, Key
  <1> QED
    BY <1>1, SpecIInv, PTL

(* A completed key, and an answer that says so, can be relied upon. *)
THEOREM DecidedKeys == Spec => []CompletedKeysAreDecided
  <1>1. IInv => CompletedKeysAreDecided
    <2> SUFFICES ASSUME IInv PROVE CompletedKeysAreDecided
      OBVIOUS
    <2>1. ASSUME NEW k \in Keys, keys[k] = "completed"
          PROVE  \E s \in Submissions :
                    /\ Key(s) = k
                    /\ \/ \E t \in transactions : t.call = Payload(<<s, 1>>)
                       \/ request[s].kind = "transfer" /\ request[s].amount > FraudLimit
      BY <2>1 DEF IInv, CompletionsJustified, Posted, Beyond
    <2>2. ASSUME NEW s \in Submissions, MovedMoney(s) PROVE tries[s] > 0
      <3>1. PICK t \in transactions : t.id[1] = s
        BY <2>2 DEF MovedMoney
      <3> QED
        BY <3>1 DEF IInv, TypeOK, BooksFollowAttempts, Attempts
    <2>3. ASSUME NEW s \in Submissions
          PROVE  /\ Told(s) \in {"success", "rejected"} => keys[Key(s)] = "completed"
                 /\ Told(s) = "success" => \E t \in transactions : t.call = Payload(<<s, 1>>)
                 /\ Told(s) \in Unsent => ~MovedMoney(s)
      BY <2>2 DEF IInv, TypeOK, OutcomesJustified, Told, Posted, Unsent
    <2> QED
      BY <2>1, <2>3 DEF CompletedKeysAreDecided
  <1> QED
    BY <1>1, SpecIInv, PTL

(* No step takes a key out of completed or failed: the only handler that   *)
(* marks a key is its holder, and to it the key is in_progress.            *)
THEOREM SettledKeys == Spec => SettledKeysStay
  <1> DEFINE Stay == \A k \in Keys : keys[k] \in {"completed", "failed"} => keys'[k] = keys[k]
  <1>1. IInv /\ [Next]_vars => [Stay]_vars
    <2> SUFFICES ASSUME IInv, [Next]_vars PROVE [Stay]_vars
      OBVIOUS
    <2>1. ASSUME NEW s \in Submissions, NEW status, Mark(Key(s), status),
                 keys[Key(s)] \in {"absent", "in_progress"}
          PROVE  Stay
      BY <2>1 DEF Mark, IInv, TypeOK
    <2>2. CASE UNCHANGED keys
      BY <2>2
    <2>3. ASSUME NEW s \in Submissions, Reserve(s) \/ ReserveFails(s) PROVE Stay
      BY <2>1, <2>2, <2>3 DEF Reserve, ReserveFails
    <2>4. ASSUME NEW s \in Submissions, Complete(s) \/ CompleteFails(s) \/ MarkFailed(s)
          PROVE  Stay
      <3>1. keys[Key(s)] = "in_progress"
        BY <2>4 DEF Complete, CompleteFails, MarkFailed, IInv, KeysHeld, InHandler
      <3> QED
        BY <2>1, <2>2, <2>4, <3>1 DEF Complete, CompleteFails, MarkFailed
    <2>5. ASSUME NEW s \in Submissions,
                 Decode(s) \/ FraudCheck(s) \/ LedgerAnswers(s) \/ CallFails(s)
                   \/ LookupFails(s) \/ MarkFailedFails(s)
          PROVE  UNCHANGED keys
      BY <2>5 DEF Decode, FraudCheck, LedgerAnswers, CallFails, LookupFails, MarkFailedFails
    <2>6. CASE (\E at \in Attempts : Deliver(at) \/ LedgerServes(at)) \/ LedgerCrashes
      BY <2>2, <2>6 DEF Deliver, LedgerServes, LedgerCrashes
    <2>7. CASE Crash \/ Sigterm \/ Exit
      BY <2>2, <2>7 DEF Crash, Sigterm, Exit, Killed
    <2>8. CASE UNCHANGED vars
      BY <2>8 DEF vars
    <2> QED
      BY <2>2, <2>3, <2>4, <2>5, <2>6, <2>7, <2>8 DEF Next, Handle, DatabaseFails, Finished
  <1> QED
    BY <1>1, SpecIInv, PTL DEF Spec, SettledKeysStay

-----------------------------------------------------------------------------
(* The submission got the key it carries: it was not told that it is taken. *)
Reserved(s) == pc[s] # "new" /\ outcome[s] # "duplicateRequest"

(* Answered without a mark on its key. *)
LeftOpen(s) ==
    /\ pc[s] = "done"
    /\ outcome[s] \in {"malformed", "badRequest"}
    /\ ~WellFormed(request[s])

(* As long as nothing fails a reserved key has one owner, and stays open    *)
(* only while the owner is served or because it was left open.              *)
KeysOwned ==
    faults = 0 =>
        /\ server = "up"
        /\ \A s \in Submissions : pc[s] \in InHandler => outcome[s] # "duplicateRequest"
        /\ \A s \in Submissions : Reserved(s) =>
              /\ keys[Key(s)] # "absent"
              /\ \A q \in Submissions \ {s} : Reserved(q) => Key(q) # Key(s)
        /\ \A k \in Keys : keys[k] = "in_progress" =>
              \E s \in Submissions :
                  Key(s) = k /\ Reserved(s) /\ (pc[s] \in InHandler \/ LeftOpen(s))

(* A step of the handler of s that either keeps it in its handler, marks    *)
(* the key, or leaves it open.                                              *)
LEMMA OwnerStep ==
  ASSUME IInv, KeysOwned, NEW s \in Submissions, pc[s] \in InHandler,
         NEW l, l # "new", NEW o, o # "duplicateRequest",
         pc' = [pc EXCEPT ![s] = l],
         outcome' = [outcome EXCEPT ![s] = o],
         UNCHANGED <<request, server, faults>>,
         \/ UNCHANGED keys /\ l \in InHandler
         \/ UNCHANGED keys /\ l = "done" /\ o \in {"malformed", "badRequest"}
              /\ ~WellFormed(request[s])
         \/ \E status \in {"completed", "failed"} : Mark(Key(s), status)
  PROVE  KeysOwned'
  <1> SUFFICES ASSUME faults = 0 PROVE KeysOwned'
    BY DEF KeysOwned
  <1>0. /\ pc \in [Submissions -> PCs] /\ outcome \in [Submissions -> Outcomes]
        /\ keys \in [Keys -> Statuses]
        /\ \A q \in Submissions : Key(q) \in Keys /\ Key(q)' = Key(q)
    BY TransferAssumption DEF IInv, TypeOK, Key, Submission
  <1>1. outcome[s] # "duplicateRequest" /\ pc[s] # "new"
    BY DEF KeysOwned, InHandler
  <1>2. /\ \A q \in Submissions : Reserved(q)' <=> Reserved(q)
        /\ \A q \in Submissions : pc'[q] \in InHandler => outcome'[q] # "duplicateRequest"
    BY <1>0, <1>1 DEF Reserved, KeysOwned
  <1>3. ASSUME NEW q \in Submissions, Reserved(q) PROVE keys'[Key(q)] # "absent"
    BY <1>0, <1>3 DEF KeysOwned, Mark
  <1>4. ASSUME NEW k \in Keys, keys'[k] = "in_progress"
        PROVE  \E q \in Submissions :
                  Key(q) = k /\ Reserved(q) /\ (pc'[q] \in InHandler \/ LeftOpen(q)')
    <2>1. keys[k] = "in_progress" /\ (UNCHANGED keys \/ k # Key(s))
      BY <1>0, <1>4 DEF Mark
    <2>2. PICK q \in Submissions : Key(q) = k /\ Reserved(q) /\ (pc[q] \in InHandler \/ LeftOpen(q))
      BY <2>1 DEF KeysOwned
    <2>3. CASE q # s
      BY <1>0, <2>2, <2>3 DEF LeftOpen
    <2>4. CASE q = s
      BY <1>0, <2>1, <2>2, <2>4 DEF LeftOpen, Mark
    <2> QED
      BY <2>3, <2>4
  <1> QED
    BY <1>0, <1>2, <1>3, <1>4 DEF KeysOwned

(* A step that fails something, or that changes neither handlers nor keys. *)
LEMMA KeysOwnedStep ==
  ASSUME IInv, KeysOwned,
         faults' # 0 \/ UNCHANGED <<request, pc, outcome, keys, server, faults>>
  PROVE  KeysOwned'
  BY DEF KeysOwned, Reserved, LeftOpen, Key

LEMMA NextKeysOwned ==
  ASSUME IInv, KeysOwned, [Next]_vars
  PROVE  KeysOwned'
  <1>0. /\ faults \in Nat /\ (Fault => faults' # 0)
        /\ pc \in [Submissions -> PCs] /\ outcome \in [Submissions -> Outcomes]
        /\ keys \in [Keys -> Statuses]
        /\ \A q \in Submissions : Key(q) \in Keys /\ [outcome EXCEPT ![q] = outcome[q]] = outcome
    BY TransferAssumption DEF IInv, TypeOK, Fault, Key, Submission
  <1>1. ASSUME NEW s \in Submissions, Reserve(s) PROVE KeysOwned'
    <2>0. \A q \in Submissions : Key(q)' = Key(q)
      BY <1>1 DEF Reserve, Key
    <2>1. CASE keys[Key(s)] # "absent" /\ Decide(s, "done", "duplicateRequest") /\ UNCHANGED keys
      BY <1>0, <1>1, <2>0, <2>1
         DEF Reserve, Decide, Goto, KeysOwned, Reserved, LeftOpen, InHandler
    <2>2. CASE keys[Key(s)] = "absent" /\ Mark(Key(s), "in_progress") /\ Decide(s, "decode", "none")
      <3>1. ASSUME NEW q \in Submissions \ {s}
            PROVE  (Reserved(q)' <=> Reserved(q)) /\ pc'[q] = pc[q] /\ (LeftOpen(q)' <=> LeftOpen(q))
        BY <1>0, <1>1, <2>2 DEF Reserve, Decide, Goto, Reserved, LeftOpen
      <3>2. Reserved(s)' /\ pc'[s] \in InHandler
        BY <1>0, <2>2 DEF Decide, Goto, Reserved, InHandler
      <3>3. keys' = [keys EXCEPT ![Key(s)] = "in_progress"] /\ UNCHANGED <<server, faults>>
        BY <1>1, <2>2 DEF Reserve, Mark
      <3>4. faults = 0 => \A q \in Submissions : Reserved(q) => Key(q) # Key(s)
        BY <2>2 DEF KeysOwned
      <3>5. faults = 0 => \A k \in Keys : keys'[k] = "in_progress" =>
              \E q \in Submissions :
                  Key(q) = k /\ Reserved(q)' /\ (pc'[q] \in InHandler \/ LeftOpen(q)')
        <4> SUFFICES ASSUME faults = 0, NEW k \in Keys, keys'[k] = "in_progress", k # Key(s)
                     PROVE  \E q \in Submissions \ {s} :
                              Key(q) = k /\ Reserved(q)' /\ (pc'[q] \in InHandler \/ LeftOpen(q)')
          BY <3>2
        <4>1. keys[k] = "in_progress"
          BY <1>0, <3>3
        <4> QED
          BY <3>1, <4>1 DEF KeysOwned
      <3>6. faults = 0 => \A q \in Submissions : Reserved(q)' => keys'[Key(q)] # "absent"
        BY <1>0, <3>1, <3>3 DEF KeysOwned
      <3>7. faults = 0 => \A q \in Submissions :
              pc'[q] \in InHandler => outcome'[q] # "duplicateRequest"
        BY <1>0, <2>2 DEF Decide, Goto, KeysOwned
      <3> QED
        BY <2>0, <3>1, <3>3, <3>4, <3>5, <3>6, <3>7 DEF KeysOwned
    <2> QED
      BY <1>1, <2>1, <2>2 DEF Reserve
  <1>2. ASSUME NEW s \in Submissions, DatabaseFails(s) PROVE KeysOwned'
    BY <1>0, <1>2, KeysOwnedStep
       DEF DatabaseFails, ReserveFails, LookupFails, CompleteFails, MarkFailedFails
  <1>3. ASSUME NEW s \in Submissions, pc[s] \in InHandler, NEW l \in InHandler, Goto(s, l),
               NEW o, o # "duplicateRequest", outcome' = [outcome EXCEPT ![s] = o],
               UNCHANGED <<request, keys, server, faults>>
        PROVE  KeysOwned'
    BY <1>3, OwnerStep DEF Goto, InHandler
  <1>4. ASSUME NEW s \in Submissions, pc[s] \in InHandler, Launch(s),
               UNCHANGED <<request, keys, server, faults>>
        PROVE  KeysOwned'
    <2>1. CASE faults # 0
      BY <1>4, <2>1, KeysOwnedStep
    <2>2. CASE faults = 0
      <3>1. outcome[s] # "duplicateRequest" /\ outcome' = [outcome EXCEPT ![s] = outcome[s]]
        BY <1>0, <1>4, <2>2 DEF KeysOwned, Launch
      <3> QED
        BY <1>3, <1>4, <3>1 DEF Launch, InHandler
    <2> QED
      BY <2>1, <2>2
  <1>5. ASSUME NEW s \in Submissions, Decode(s) PROVE KeysOwned'
    <2>0. pc[s] = "decode" /\ outcome[s] = "none" /\ UNCHANGED <<request, keys, server, faults>>
      BY <1>5 DEF Decode, IInv, ChecksFirst
    <2>1. ASSUME NEW o \in {"malformed", "badRequest"}, Decide(s, "done", o), ~WellFormed(request[s])
          PROVE  KeysOwned'
      BY <2>0, <2>1, OwnerStep DEF Decide, Goto, InHandler
    <2>2. CASE ~request[s].readable /\ Decide(s, "done", "malformed")
      BY <2>1, <2>2 DEF WellFormed
    <2>3. CASE DecodeTransfer(s)
      <3>1. CASE Goto(s, "fraud") /\ UNCHANGED outcome
        BY <1>0, <1>3, <2>0, <3>1 DEF InHandler
      <3>2. CASE Decide(s, "fail", "badRequest")
        BY <1>3, <2>0, <3>2 DEF Decide, InHandler
      <3> QED
        BY <2>3, <3>1, <3>2 DEF DecodeTransfer
    <2>4. CASE DecodeTopup(s)
      <3>1. CASE ~(0 < request[s].amount /\ request[s].amount <= TopupLimit)
                   /\ Decide(s, "done", "badRequest")
        BY <2>1, <2>4, <3>1 DEF DecodeTopup, WellFormed
      <3>2. CASE Decide(s, "fail", "noAccount")
        BY <1>3, <2>0, <3>2 DEF Decide, InHandler
      <3>3. CASE Launch(s)
        BY <1>4, <2>0, <3>3 DEF InHandler
      <3> QED
        BY <2>4, <3>1, <3>2, <3>3 DEF DecodeTopup
    <2> QED
      BY <1>5, <2>2, <2>3, <2>4 DEF Decode
  <1>6. ASSUME NEW s \in Submissions, FraudCheck(s) PROVE KeysOwned'
    BY <1>3, <1>4, <1>6 DEF FraudCheck, Decide, InHandler
  <1>7. ASSUME NEW s \in Submissions, RetryOrGiveUp(s), pc[s] = "call",
               UNCHANGED <<request, keys, server, faults>>
        PROVE  KeysOwned'
    BY <1>3, <1>4, <1>7 DEF RetryOrGiveUp, Decide, InHandler
  <1>8. ASSUME NEW s \in Submissions, LedgerAnswers(s) \/ CallFails(s) PROVE KeysOwned'
    <2>1. pc[s] = "call" /\ UNCHANGED <<request, keys, server, faults>>
      BY <1>8 DEF LedgerAnswers, CallFails
    <2>2. ASSUME NEW l \in {"complete", "fail"}, NEW o \in {"success"} \cup Relayed, Decide(s, l, o)
          PROVE  KeysOwned'
      BY <1>3, <2>1, <2>2 DEF Decide, InHandler, Relayed, Ledger!Refusals
    <2> QED
      BY <1>7, <1>8, <2>1, <2>2 DEF LedgerAnswers, CallFails
  <1>9. ASSUME NEW s \in Submissions, Complete(s) \/ MarkFailed(s) PROVE KeysOwned'
    <2>1. /\ pc[s] \in InHandler /\ pc' = [pc EXCEPT ![s] = "done"]
          /\ UNCHANGED <<request, outcome, server, faults>>
          /\ \E status \in {"completed", "failed"} : Mark(Key(s), status)
      BY <1>9 DEF Complete, MarkFailed, Goto, InHandler
    <2>2. CASE faults # 0
      BY <2>1, <2>2, KeysOwnedStep
    <2>3. CASE faults = 0
      <3>1. outcome[s] # "duplicateRequest" /\ outcome' = [outcome EXCEPT ![s] = outcome[s]]
        BY <1>0, <2>1, <2>3 DEF KeysOwned
      <3> QED
        BY <2>1, <3>1, OwnerStep
    <2> QED
      BY <2>2, <2>3
  <1>10. CASE (\E at \in Attempts : Deliver(at) \/ LedgerServes(at)) \/ LedgerCrashes
    BY <1>10, KeysOwnedStep DEF Deliver, LedgerServes, LedgerCrashes
  <1>11. CASE Crash \/ Sigterm
    BY <1>0, <1>11, KeysOwnedStep DEF Crash, Sigterm
  <1>12. CASE Exit
    BY <1>12 DEF Exit, KeysOwned
  <1>13. CASE UNCHANGED vars
    BY <1>13, KeysOwnedStep DEF vars
  <1> QED
    BY <1>1, <1>2, <1>5, <1>6, <1>8, <1>9, <1>10, <1>11, <1>12, <1>13
       DEF Next, Handle, Finished

(* Without faults a key is left open for good only by a body that does not  *)
(* decode or a top-up out of range, and then nothing was asked of the       *)
(* ledger under it.                                                         *)
THEOREM OpenKeys == Spec => []KeysLeftOpen
  <1>1. Init => KeysOwned
    BY TransferAssumption DEF Init, KeysOwned, Reserved, Key, Submission
  <1>2. IInv /\ KeysOwned /\ [Next]_vars => KeysOwned'
    BY NextKeysOwned
  <1>3. ASSUME IInv, KeysOwned PROVE KeysLeftOpen
    <2> SUFFICES ASSUME faults = 0, NEW k \in Keys, keys[k] = "in_progress",
                        \A s \in Submissions : Key(s) = k => pc[s] \notin InHandler
                 PROVE  /\ \E s \in Submissions :
                              /\ Key(s) = k
                              /\ ~WellFormed(request[s])
                              /\ Told(s) \in {"malformed", "badRequest"}
                        /\ \A s \in Submissions : Key(s) = k => tries[s] = 0
      BY DEF KeysLeftOpen
    <2>1. PICK s \in Submissions : Key(s) = k /\ Reserved(s) /\ LeftOpen(s)
      BY <1>3 DEF KeysOwned
    <2>2. tries[s] = 0
      BY <1>3, <2>1 DEF LeftOpen, IInv, OutcomesJustified, Unsent
    <2>3. ASSUME NEW q \in Submissions, Key(q) = k, q # s PROVE tries[q] = 0
      <3>1. ~Reserved(q)
        BY <1>3, <2>1, <2>3 DEF KeysOwned
      <3> QED
        BY <1>3, <3>1 DEF Reserved, IInv, ChecksFirst, OutcomesJustified, Unsent
    <2> QED
      BY <2>1, <2>2, <2>3 DEF LeftOpen, Told
  <1> QED
    BY <1>1, <1>2, <1>3, SpecIInv, PTL DEF Spec
=============================================================================
