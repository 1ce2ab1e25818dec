--------------------------- MODULE MCUserAccounts ---------------------------
(* Small instances of UserAccounts for TLC. *)
EXTENDS UserAccounts, TLC

CONSTANTS w1, w2, u1, u2, s1, s2, e1, e2, p1, p2, n1, n2

Ask(kind, email, password, new, phone, sid) ==
    [kind |-> kind, email |-> email, password |-> password, new |-> new,
     phone |-> phone, session |-> sid]

Register(email, phone) == Ask("register", email, p1, p1, phone, s1)
Login(email, password) == Ask("login", email, password, p1, n1, s1)
Me(email)              == Ask("me", email, p1, p1, n1, s1)
SetPhone(email, phone) == Ask("phone", email, p1, p1, phone, s1)
SetPassword(old, new)  == Ask("password", e1, old, new, n1, s1)
SetEmail(email)        == Ask("email", email, p1, p1, n1, s1)
Protected              == Ask("protected", e1, p1, p1, n1, s1)

AllRequests ==
    {Register(e1, n1), Register(e2, n2), Register(e2, n1), Login(e1, p1), Me(e1),
     SetPhone(e1, n2), SetPassword(p1, p2), SetEmail(e2), Protected}

PasswordRequests == {Register(e1, n1), Login(e1, p1), SetPhone(e1, n2), SetPassword(p1, p2)}

=============================================================================
