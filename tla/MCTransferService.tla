-------------------------- MODULE MCTransferService --------------------------
(* Small instances of TransferService for TLC. *)
EXTENDS TransferService, TLC

CONSTANTS s1, s2, A, B, u1, u2, k1, k2, R1

TwoSubmissions == {s1, s2}
SymmetryOfTwo  == Permutations(TwoSubmissions)

BankNames == {A, B, External}
BankAccounts == {A, B, External}
OwnAccounts == (u1 :> A) @@ (u2 :> NoAccount)

Transfer(key, ref, from, to, amount) ==
    [kind |-> "transfer", user |-> u1, key |-> key, readable |-> TRUE,
     ref |-> ref, from |-> from, to |-> to, amount |-> amount]

Topup(user, key, amount) ==
    [kind |-> "topup", user |-> user, key |-> key, readable |-> TRUE,
     ref |-> R1, from |-> A, to |-> A, amount |-> amount]

(* One transfer under two keys, and a top-up that reuses the first one. *)
Plain  == Transfer(k1, R1, A, B, 1)
NewKey == Transfer(k2, R1, A, B, 1)
TopupA == Topup(u1, k1, 1)

(* What is refused before the ledger is called. *)
Suspicious   == Transfer(k1, R1, A, B, 3)
SameParty    == Transfer(k1, R1, A, A, 1)
TopupTooMuch == Topup(u1, k1, 5)
TopupNobody  == Topup(u2, k1, 1)
Garbled      == [Plain EXCEPT !.readable = FALSE]

AllRequests == {Plain, NewKey, TopupA, Suspicious, SameParty, TopupTooMuch,
                TopupNobody, Garbled}
Retried     == {Plain, NewKey}
=============================================================================
