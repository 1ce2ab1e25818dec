------------------------------ MODULE MCBrowser ------------------------------
(* Small instances of Browser for TLC. *)
EXTENDS Browser, TLC

CONSTANTS t1, u1, u2, q1, q2

Strong    == Traits
NoLower   == Traits \ {"lower"}
NoSpecial == Traits \ {"special"}

(* u1 has an account, registered at the service itself, whose password the  *)
(* page would not take; u2 may register.                                    *)
OneExisting == (u1 :> NoSpecial) @@ (u2 :> NoPassword)
SomePasswords == {Strong, NoLower, NoSpecial}
=============================================================================
