----------------------------- MODULE UserAccounts -----------------------------
(***************************************************************************)
(* Users, their accounts and their sessions in the Go transaction service:  *)
(* /auth/register, login, phone, password, email and me, and the session    *)
(* check in front of /transfer and /topup.  Handlers run concurrently       *)
(* against the users and accounts tables and the in-memory session map.     *)
(*                                                                          *)
(* What a caller is told is not modelled, nor are the checks that refuse a  *)
(* body before any state is read.  Whether a session is too old is a choice *)
(* here.                                                                    *)
(***************************************************************************)
EXTENDS Integers, FiniteSets

CONSTANTS
    Workers,      \* goroutines serving requests
    Ids,          \* uuids of users
    SessionIds,   \* uuids of sessions
    Emails, Passwords, Phones,
    Requests,     \* what may be asked
    None,         \* stands for no row, no user, no request
    MaxFaults     \* bound on database failures and crashes

Profile == [email : Emails, password : Passwords, phone : Phones]

(* password is the one that is checked, or stored by a registration. *)
Request ==
    [kind : {"register", "login", "me", "phone", "password", "email", "protected"},
     email : Emails, password : Passwords, new : Passwords, phone : Phones,
     session : SessionIds]

ASSUME UserAssumption ==
    /\ IsFiniteSet(Ids) /\ IsFiniteSet(SessionIds)
    /\ Requests \subseteq Request
    /\ None \notin Profile /\ None \notin Ids /\ None \notin Request
    /\ MaxFaults \in Nat

VARIABLES
    body,       \* the request each worker serves
    pc,         \* where it is
    who,        \* the user it acts for
    copy,       \* the users row it has read
    pending,    \* the users row inserted by its open transaction
    users,      \* committed users rows
    accounts,   \* number of accounts rows of each user
    issued,     \* session ids handed out so far
    live,       \* the session map
    faults      \* faults injected so far

tables  == <<pending, users, accounts>>
session == <<issued, live>>
vars    == <<body, pc, who, copy, tables, session, faults>>

PCs == {"idle", "insert", "commit", "find", "compare", "account", "validate",
        "refresh", "read", "check", "write", "forget"}

(* Where a request enters its handler. *)
Entry(kind) ==
    CASE kind = "register" -> "insert"
      [] kind \in {"login", "me", "phone"} -> "find"
      [] OTHER -> "validate"

Init ==
    /\ body = [w \in Workers |-> None]
    /\ pc = [w \in Workers |-> "idle"]
    /\ who = [w \in Workers |-> None]
    /\ copy = [w \in Workers |-> None]
    /\ pending = [w \in Workers |-> None]
    /\ users = [u \in Ids |-> None]
    /\ accounts = [u \in Ids |-> 0]
    /\ issued = {}
    /\ live = {}
    /\ faults = 0

Goto(w, l) == pc' = [pc EXCEPT ![w] = l]

(* The handler answers; the worker is free again. *)
Answer(w) ==
    /\ Goto(w, "idle")
    /\ body' = [body EXCEPT ![w] = None]
    /\ who' = [who EXCEPT ![w] = None]
    /\ copy' = [copy EXCEPT ![w] = None]

Continue(w, l) == Goto(w, l) /\ UNCHANGED <<body, who, copy>>

Fault == faults < MaxFaults /\ faults' = faults + 1

Free(u) == users[u] = None /\ \A w \in Workers : who[w] # u

(* The model has a session id left for every login that is served. *)
RoomForLogin ==
    Cardinality(issued) + Cardinality({w \in Workers : body[w] # None /\ body[w].kind = "login"})
        < Cardinality(SessionIds)

Receive(w, b) ==
    /\ pc[w] = "idle"
    /\ b.kind = "login" => RoomForLogin
    /\ body' = [body EXCEPT ![w] = b]
    /\ Goto(w, Entry(b.kind))
    /\ \/ b.kind # "register" /\ UNCHANGED who
       \/ b.kind = "register" /\ \E u \in Ids : Free(u) /\ who' = [who EXCEPT ![w] = u]
    /\ UNCHANGED <<copy, tables, session, faults>>

-----------------------------------------------------------------------------
(* The unique indexes on users.email and users.phone. *)

SameKey(p, q) == p.email = q.email \/ p.phone = q.phone

Clash(p, u) == \E v \in Ids \ {u} : users[v] # None /\ SameKey(users[v], p)

(* A statement waits for the open transaction that inserted the same key. *)
MustWait(w, p) ==
    \E v \in Workers \ {w} : pending[v] # None /\ SameKey(pending[v], p)

NewRow(w) == [email |-> body[w].email, password |-> body[w].password,
              phone |-> body[w].phone]

(* Mutant: the user is inserted outside the transaction of its account. *)
InsertCommitted(w) ==
    /\ pc[w] = "insert"
    /\ ~MustWait(w, NewRow(w))
    /\ \/ Clash(NewRow(w), who[w]) /\ Answer(w) /\ UNCHANGED <<pending, users>>
       \/ /\ ~Clash(NewRow(w), who[w])
          /\ pending' = [pending EXCEPT ![w] = NewRow(w)]
          /\ users' = [users EXCEPT ![who[w]] = NewRow(w)]
          /\ Continue(w, "commit")
    /\ UNCHANGED <<accounts, session, faults>>

(* UserRepository.Create: INSERT INTO users. *)
Insert(w) ==
    /\ pc[w] = "insert"
    /\ ~MustWait(w, NewRow(w))
    /\ \/ Clash(NewRow(w), who[w]) /\ Answer(w) /\ UNCHANGED pending
       \/ /\ ~Clash(NewRow(w), who[w])
          /\ pending' = [pending EXCEPT ![w] = NewRow(w)]
          /\ Continue(w, "commit")
    /\ UNCHANGED <<users, accounts, session, faults>>

(* Its INSERT INTO accounts and its commit. *)
Commit(w) ==
    /\ pc[w] = "commit"
    /\ users' = [users EXCEPT ![who[w]] = pending[w]]
    /\ accounts' = [accounts EXCEPT ![who[w]] = @ + 1]
    /\ pending' = [pending EXCEPT ![w] = None]
    /\ Answer(w)
    /\ UNCHANGED <<session, faults>>

(* Mutant: no rollback on the error paths. *)
CreateFailsOpen(w) ==
    /\ pc[w] \in {"insert", "commit"}
    /\ Fault
    /\ Answer(w)
    /\ UNCHANGED <<tables, session>>

(* One of its statements fails: the deferred Rollback undoes the others. *)
CreateFails(w) ==
    /\ pc[w] \in {"insert", "commit"}
    /\ Fault
    /\ pending' = [pending EXCEPT ![w] = None]
    /\ Answer(w)
    /\ UNCHANGED <<users, accounts, session>>

-----------------------------------------------------------------------------
Registered(e) == {u \in Ids : users[u] # None /\ users[u].email = e}

AfterFind == [login |-> "compare", me |-> "account", phone |-> "write"]

(* FindByEmail. *)
Find(w) ==
    /\ pc[w] = "find"
    /\ \/ Registered(body[w].email) = {} /\ Answer(w)
       \/ \E u \in Registered(body[w].email) :
            /\ who' = [who EXCEPT ![w] = u]
            /\ copy' = [copy EXCEPT ![w] = users[u]]
            /\ Goto(w, AfterFind[body[w].kind])
            /\ UNCHANGED body
    /\ UNCHANGED <<tables, session, faults>>

(* FindAccountByUserID, for /auth/me. *)
FindAccount(w) ==
    /\ pc[w] = "account"
    /\ Answer(w)
    /\ UNCHANGED <<tables, session, faults>>

(* Mutant: CreateSession(user.Email, user.ID). *)
CompareSwapped(w) ==
    /\ pc[w] = "compare"
    /\ \/ copy[w].password # body[w].password /\ UNCHANGED session
       \/ /\ copy[w].password = body[w].password
          /\ \E s \in SessionIds \ issued :
                /\ issued' = issued \cup {s}
                /\ live' = live \cup {[id |-> s, user |-> copy[w].email]}
    /\ Answer(w)
    /\ UNCHANGED <<tables, faults>>

(* The password is compared with the row read, then CreateSession. *)
Compare(w) ==
    /\ pc[w] = "compare"
    /\ \/ copy[w].password # body[w].password /\ UNCHANGED session
       \/ /\ copy[w].password = body[w].password
          /\ \E s \in SessionIds \ issued :
                /\ issued' = issued \cup {s}
                /\ live' = live \cup {[id |-> s, user |-> who[w]]}
    /\ Answer(w)
    /\ UNCHANGED <<tables, faults>>

-----------------------------------------------------------------------------
(* ValidateSession: an entry may be there and still be refused, being old. *)
Validate(w) ==
    /\ pc[w] = "validate"
    /\ \/ Answer(w)
       \/ \E s \in live :
            /\ s.id = body[w].session
            /\ who' = [who EXCEPT ![w] = s.user]
            /\ Goto(w, "refresh")
            /\ UNCHANGED <<body, copy>>
    /\ UNCHANGED <<tables, session, faults>>

(* Mutant: RefreshSession stores the validated session again. *)
RefreshRestores(w) ==
    /\ pc[w] = "refresh"
    /\ live' = live \cup {[id |-> body[w].session, user |-> who[w]]}
    /\ \/ body[w].kind = "protected" /\ Answer(w)
       \/ body[w].kind # "protected" /\ Continue(w, "read")
    /\ UNCHANGED <<tables, issued, faults>>

(* RefreshSession touches an entry that is still there, and adds none.  A   *)
(* transfer or top-up goes its own way from here.                           *)
Refresh(w) ==
    /\ pc[w] = "refresh"
    /\ \/ body[w].kind = "protected" /\ Answer(w)
       \/ body[w].kind # "protected" /\ Continue(w, "read")
    /\ UNCHANGED <<tables, session, faults>>

(* FindByID, and the password compared with the row read. *)
Read(w) ==
    /\ pc[w] = "read"
    /\ \/ users[who[w]].password # body[w].password /\ Answer(w)
       \/ /\ users[who[w]].password = body[w].password
          /\ copy' = [copy EXCEPT ![w] = users[who[w]]]
          /\ Goto(w, IF body[w].kind = "email" THEN "check" ELSE "write")
          /\ UNCHANGED <<body, who>>
    /\ UNCHANGED <<tables, session, faults>>

(* HandleUpdateEmail looks whether somebody else has the address. *)
Check(w) ==
    /\ pc[w] = "check"
    /\ \/ Registered(body[w].email) \ {who[w]} # {} /\ Answer(w)
       \/ Registered(body[w].email) \ {who[w]} = {} /\ Continue(w, "write")
    /\ UNCHANGED <<tables, session, faults>>

(* An error of that lookup is ignored. *)
CheckFails(w) ==
    /\ pc[w] = "check"
    /\ Fault
    /\ Continue(w, "write")
    /\ UNCHANGED <<tables, session>>

(* The row as the handler wants it: what it has read, with one column new. *)
Changed(w) ==
    CASE body[w].kind = "phone"    -> [copy[w] EXCEPT !.phone = body[w].phone]
      [] body[w].kind = "password" -> [copy[w] EXCEPT !.password = body[w].new]
      [] body[w].kind = "email"    -> [copy[w] EXCEPT !.email = body[w].email]

Store(w) == users' = [users EXCEPT ![who[w]] = Changed(w)]

(* After the UPDATE: the session of a password or e-mail change is ended. *)
AfterStore(w) ==
    \/ body[w].kind = "phone" /\ Answer(w)
    \/ body[w].kind # "phone" /\ Continue(w, "forget")

(* Mutant: no unique index behind the check. *)
WriteUnindexed(w) ==
    /\ pc[w] = "write"
    /\ Store(w) /\ AfterStore(w)
    /\ UNCHANGED <<pending, accounts, session, faults>>

(* UserRepository.Update writes the whole row. *)
Write(w) ==
    /\ pc[w] = "write"
    /\ ~MustWait(w, Changed(w))
    /\ \/ Clash(Changed(w), who[w]) /\ Answer(w) /\ UNCHANGED users
       \/ ~Clash(Changed(w), who[w]) /\ Store(w) /\ AfterStore(w)
    /\ UNCHANGED <<pending, accounts, session, faults>>

(* The UPDATE fails, or only its acknowledgement does. *)
WriteFails(w) ==
    /\ pc[w] = "write"
    /\ Fault
    /\ \/ UNCHANGED users
       \/ ~MustWait(w, Changed(w)) /\ ~Clash(Changed(w), who[w]) /\ Store(w)
    /\ Answer(w)
    /\ UNCHANGED <<pending, accounts, session>>

(* DeleteSession. *)
Forget(w) ==
    /\ pc[w] = "forget"
    /\ live' = {s \in live : s.id # body[w].session}
    /\ Answer(w)
    /\ UNCHANGED <<tables, issued, faults>>

ReadFails(w) ==
    /\ pc[w] \in {"find", "account", "read"}
    /\ Fault
    /\ Answer(w)
    /\ UNCHANGED <<tables, session>>

(* The process ends and is started again: the session map is empty, the    *)
(* open transactions roll back.                                            *)
Crash ==
    /\ Fault
    /\ body' = [w \in Workers |-> None]
    /\ pc' = [w \in Workers |-> "idle"]
    /\ who' = [w \in Workers |-> None]
    /\ copy' = [w \in Workers |-> None]
    /\ pending' = [w \in Workers |-> None]
    /\ live' = {}
    /\ UNCHANGED <<users, accounts, issued>>

Step(w) ==
    \/ Insert(w) \/ Commit(w) \/ Find(w) \/ FindAccount(w) \/ Compare(w)
    \/ Validate(w) \/ Refresh(w) \/ Read(w) \/ Check(w) \/ Write(w) \/ Forget(w)

DatabaseFails(w) ==
    CreateFails(w) \/ ReadFails(w) \/ CheckFails(w) \/ WriteFails(w)

Next ==
    \/ \E w \in Workers : Step(w) \/ DatabaseFails(w) \/ \E b \in Requests : Receive(w, b)
    \/ Crash

Spec == Init /\ [][Next]_vars

(* Goroutines and the database go on; clients owe nothing. *)
Fairness == \A w \in Workers : WF_vars(Step(w))

FairSpec == Spec /\ Fairness

-----------------------------------------------------------------------------
TypeOK ==
    /\ body \in [Workers -> Requests \cup {None}]
    /\ pc \in [Workers -> PCs]
    /\ who \in [Workers -> Ids \cup {None}]
    /\ copy \in [Workers -> Profile \cup {None}]
    /\ pending \in [Workers -> Profile \cup {None}]
    /\ users \in [Ids -> Profile \cup {None}]
    /\ accounts \in [Ids -> Nat]
    /\ issued \subseteq SessionIds
    /\ live \subseteq [id : SessionIds, user : Ids]
    /\ faults \in 0..MaxFaults

(* A registration leaves a user with one account or nothing at all,        *)
(* wherever it fails or the process ends; so /auth/me, which reads the two *)
(* tables one after the other, never misses an account.                    *)
OneAccountEach ==
    \A u \in Ids : accounts[u] = IF users[u] = None THEN 0 ELSE 1

(* No two users share an address or a phone number, although a change of   *)
(* address is checked well before it is written and with errors ignored.   *)
UniqueProfiles ==
    \A u, v \in Ids :
        u # v /\ users[u] # None /\ users[v] # None => ~SameKey(users[u], users[v])

(* A session that has ended, with a password or e-mail change or with the  *)
(* process, is never honoured again, even if a handler that had validated  *)
(* it refreshes it afterwards.                                             *)
EndedSessionsStayEnded ==
    [][\A s \in issued :
          s \notin {t.id : t \in live} => s \notin {t.id : t \in live'}]_vars

(* Every request is answered: no handler waits forever for a transaction   *)
(* another one has left open.                                              *)
EveryRequestAnswered == \A w \in Workers : pc[w] # "idle" ~> pc[w] = "idle"

(* "Password updated successfully": from then on the new password is the   *)
(* one, until it is changed by another change of password.                 *)
PasswordsChangeByRequestOnly ==
    [][\A w \in Workers :
          pc[w] = "write" /\ pc'[w] # "write" /\ body[w].kind # "password" =>
            \A u \in Ids : users[u] # None => users'[u].password = users[u].password]_vars
=============================================================================
