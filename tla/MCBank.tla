------------------------------- MODULE MCBank -------------------------------
(* Small instances of Bank for TLC. *)
EXTENDS Bank, TLC

CONSTANTS s1, s2, A, B, u1, k1, R1

TwoSubmissions == {s1, s2}
OneSubmission == {s1}
Attempts == TwoSubmissions \X (1..MaxAttempts)
AttemptsOfOne == OneSubmission \X (1..MaxAttempts)

BankNames == {A, B, External}
BankAccounts == {A, B, External}
OwnAccounts == (u1 :> A)
BankOpening == (A :> 2) @@ (B :> 1) @@ (External :> 5)

Transfer(key, ref, from, to, amount) ==
    [kind |-> "transfer", user |-> u1, key |-> key, readable |-> TRUE,
     ref |-> ref, from |-> from, to |-> to, amount |-> amount]

Topup(user, key, amount) ==
    [kind |-> "topup", user |-> user, key |-> key, readable |-> TRUE,
     ref |-> R1, from |-> A, to |-> A, amount |-> amount]

(* A transfer of all that A has and a top-up of A compete for one key. *)
AllOfA == Transfer(k1, R1, A, B, 2)
TopupA == Topup(u1, k1, 1)
OneKey == {AllOfA, TopupA}

(* One transfer, which the service itself may retry. *)
OnlyAllOfA == {AllOfA}

BankReferences == {R1} \cup Submissions
BankCalls == {Service!Charge(s, q) : s \in Submissions, q \in Bodies}
=============================================================================
