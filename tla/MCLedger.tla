------------------------------ MODULE MCLedger ------------------------------
(* Small instances of Ledger for TLC. *)
EXTENDS Ledger, TLC

CONSTANTS r1, r2, r3, A, B, X

ThreeRequests == {r1, r2, r3}
Symmetry == Permutations(ThreeRequests)

Body(ref, from, to, amount) ==
    [ref |-> ref, from |-> from, to |-> to, amount |-> amount]

TwoAccounts == {A, B}
NamesOrUnknown == {A, B, X}
OpeningBalances == (A :> 2) @@ (B :> 1)

(* "R1" spends all of A and may be retried or reused for another amount;    *)
(* "R2" goes the other way, "R3" competes with "R1" for the funds of A.     *)
AllOfA     == Body("R1", A, B, 2)
ReusedRef  == Body("R1", A, B, 1)
BackFromB  == Body("R2", B, A, 1)
RivalOfA   == Body("R3", A, B, 2)
ZeroAmount == Body("R3", A, B, 0)
NoSuchName == Body("R2", X, B, 1)

AllBodies   == {AllOfA, ReusedRef, BackFromB, RivalOfA, ZeroAmount, NoSuchName}
ValidBodies == {AllOfA, ReusedRef, BackFromB, RivalOfA}
Crossing    == {AllOfA, BackFromB}
Rivals      == {AllOfA, RivalOfA, BackFromB}
=============================================================================
