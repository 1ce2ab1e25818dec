-------------------------- MODULE UserAccountsProofs --------------------------
(***************************************************************************)
(* Proofs about UserAccounts for any workers, users, sessions, requests and *)
(* number of faults.                                                        *)
(***************************************************************************)
EXTENDS UserAccounts, TLAPS

Registering == {"insert", "commit"}
Idle        == {"idle", "find", "validate"}
Acting      == {"compare", "account", "refresh", "read", "check", "write", "forget"}

(* Which requests reach which step. *)
Belongs(b, l) ==
    /\ l # "idle" => b \in Requests
    /\ l = "find" => b.kind \in {"login", "me", "phone"}
    /\ l \in {"validate", "refresh"} => b.kind \in {"password", "email", "protected"}
    /\ l \in {"read", "check", "forget"} => b.kind \in {"password", "email"}
    /\ l = "write" => b.kind \in {"phone", "password", "email"}

(* Where a handler is, it acts for nobody, for a user to be, or for a user. *)
Handlers ==
    \A w \in Workers :
        /\ Belongs(body[w], pc[w])
        /\ pc[w] \in Idle => who[w] = None
        /\ pc[w] \in Registering => who[w] \in Ids /\ users[who[w]] = None
        /\ pc[w] \in Acting => who[w] \in Ids /\ users[who[w]] # None
        /\ pc[w] \in {"compare", "check", "write"} => copy[w] \in Profile
        /\ pending[w] # None <=> pc[w] = "commit"

(* Registrations that are under way keep out of each other's way, and the  *)
(* rows they have inserted out of the way of the committed ones.           *)
Reservations ==
    /\ \A v, w \in Workers :
          v # w /\ pc[v] \in Registering /\ pc[w] \in Registering => who[v] # who[w]
    /\ \A v, w \in Workers :
          v # w /\ pending[v] # None /\ pending[w] # None => ~SameKey(pending[v], pending[w])
    /\ \A v \in Workers, u \in Ids :
          pending[v] # None /\ users[u] # None => ~SameKey(users[u], pending[v])

SessionsOwned == \A s \in live : users[s.user] # None

IInv ==
    /\ TypeOK
    /\ Handlers
    /\ Reservations
    /\ SessionsOwned
    /\ OneAccountEach
    /\ UniqueProfiles

-----------------------------------------------------------------------------
LEMMA InitIInv == Init => IInv
  BY UserAssumption
  DEF Init, IInv, TypeOK, PCs, Handlers, Belongs, Registering, Idle, Acting, Reservations,
      SessionsOwned, OneAccountEach, UniqueProfiles

(* A step of one handler that leaves the tables alone. *)
LEMMA HandlerStep ==
  ASSUME IInv, NEW w \in Workers, NEW b \in Requests \cup {None}, NEW l \in PCs,
         NEW u \in Ids \cup {None}, NEW c \in Profile \cup {None},
         body' = [body EXCEPT ![w] = b], pc' = [pc EXCEPT ![w] = l],
         who' = [who EXCEPT ![w] = u], copy' = [copy EXCEPT ![w] = c],
         UNCHANGED tables,
         Belongs(b, l),
         l \in Idle => u = None,
         l \in Registering =>
            /\ u \in Ids
            /\ users[u] = None
            /\ \A v \in Workers \ {w} : pc[v] \in Registering => who[v] # u,
         l \in Acting => u \in Ids /\ users[u] # None,
         l \in {"compare", "check", "write"} => c \in Profile,
         pending[w] # None <=> l = "commit",
         issued' \subseteq SessionIds,
         live' \subseteq [id : SessionIds, user : Ids],
         \A s \in live' : users[s.user] # None,
         faults' \in 0..MaxFaults
  PROVE  IInv'
  <1>1. TypeOK'
    BY DEF IInv, TypeOK, tables
  <1>2. Handlers'
    BY DEF IInv, TypeOK, Handlers, tables
  <1>3. Reservations'
    BY DEF IInv, TypeOK, Reservations, SameKey, tables
  <1>4. SessionsOwned' /\ OneAccountEach' /\ UniqueProfiles'
    BY DEF IInv, SessionsOwned, OneAccountEach, UniqueProfiles, SameKey, tables
  <1> QED
    BY <1>1, <1>2, <1>3, <1>4 DEF IInv

(* A handler that has no open transaction, or has rolled it back, answers. *)
LEMMA AnswerStep ==
  ASSUME IInv, NEW w \in Workers, Answer(w), UNCHANGED <<users, accounts>>,
         pending' = [pending EXCEPT ![w] = None],
         issued' \subseteq SessionIds,
         live' \subseteq [id : SessionIds, user : Ids],
         \A s \in live' : users[s.user] # None,
         faults' \in 0..MaxFaults
  PROVE  IInv'
  <1>1. TypeOK'
    BY DEF IInv, TypeOK, Answer, Goto, PCs
  <1>2. Handlers'
    BY DEF IInv, TypeOK, Handlers, Belongs, Answer, Goto, Idle, Registering, Acting
  <1>3. Reservations'
    BY DEF IInv, TypeOK, Reservations, SameKey, Answer, Goto, Registering
  <1>4. SessionsOwned' /\ OneAccountEach' /\ UniqueProfiles'
    BY DEF IInv, SessionsOwned, OneAccountEach, UniqueProfiles, SameKey
  <1> QED
    BY <1>1, <1>2, <1>3, <1>4 DEF IInv

(* The common case: nothing but the handler itself has changed. *)
LEMMA PlainAnswer ==
  ASSUME IInv, NEW w \in Workers, Answer(w), pc[w] # "commit",
         UNCHANGED <<tables, session>>, faults' \in 0..MaxFaults
  PROVE  IInv'
  <1>1. pending' = [pending EXCEPT ![w] = None]
    BY DEF IInv, TypeOK, Handlers, tables
  <1> QED
    BY <1>1, AnswerStep DEF IInv, TypeOK, SessionsOwned, tables, session

LEMMA FaultInRange == ASSUME TypeOK, Fault PROVE faults' \in 0..MaxFaults
  BY UserAssumption DEF TypeOK, Fault

LEMMA ContinueStep ==
  ASSUME IInv, NEW w \in Workers, NEW l \in PCs, Continue(w, l),
         Belongs(body[w], l), l \notin Idle, l \notin Registering,
         pc[w] \in Acting,
         l \in {"compare", "check", "write"} => pc[w] \in {"compare", "check", "write"},
         UNCHANGED <<tables, session>>, faults' \in 0..MaxFaults
  PROVE  IInv'
  <1>1. body[w] \in Requests \cup {None} /\ who[w] \in Ids \cup {None}
        /\ copy[w] \in Profile \cup {None}
    BY DEF IInv, TypeOK
  <1>2. /\ body' = [body EXCEPT ![w] = body[w]] /\ pc' = [pc EXCEPT ![w] = l]
        /\ who' = [who EXCEPT ![w] = who[w]] /\ copy' = [copy EXCEPT ![w] = copy[w]]
    BY DEF Continue, Goto, IInv, TypeOK
  <1>3. /\ l \in Acting => who[w] \in Ids /\ users[who[w]] # None
        /\ l \in {"compare", "check", "write"} => copy[w] \in Profile
        /\ pending[w] # None <=> l = "commit"
    BY DEF IInv, Handlers, Acting, Registering
  <1>4. /\ issued' \subseteq SessionIds /\ live' \subseteq [id : SessionIds, user : Ids]
        /\ \A s \in live' : users[s.user] # None
    BY DEF IInv, TypeOK, SessionsOwned, session
  <1> QED
    BY <1>1, <1>2, <1>3, <1>4, HandlerStep

(* A whole row is written over the user's own, clear of every other row,   *)
(* committed or not.                                                       *)
LEMMA StoreStep ==
  ASSUME IInv, NEW w \in Workers, pc[w] = "write",
         ~MustWait(w, Changed(w)), ~Clash(Changed(w), who[w]), Store(w),
         Answer(w) \/ (Continue(w, "forget") /\ body[w].kind # "phone"),
         UNCHANGED <<pending, accounts, session>>, faults' \in 0..MaxFaults
  PROVE  IInv'
  <1>1. /\ who[w] \in Ids /\ users[who[w]] # None /\ pending[w] = None
        /\ body[w] \in Requests /\ copy[w] \in Profile
        /\ body[w].kind \in {"phone", "password", "email"}
    BY DEF IInv, Handlers, Belongs, Acting
  <1>2. Changed(w) \in Profile
    <2>1. body[w] \in Request
      BY <1>1, UserAssumption
    <2> QED
      BY <1>1, <2>1 DEF Changed, Request, Profile
  <1>3. Changed(w) # None
    BY <1>2, UserAssumption
  <1>4. users' = [users EXCEPT ![who[w]] = Changed(w)]
    BY DEF Store
  <1> HIDE DEF Changed
  <1>5. TypeOK'
    BY <1>1, <1>2, <1>4 DEF IInv, TypeOK, Answer, Continue, Goto, PCs, session
  <1>6. \A u \in Ids : users'[u] = None <=> users[u] = None
    BY <1>1, <1>3, <1>4 DEF IInv, TypeOK
  <1>7. Handlers'
    <2>1. CASE Answer(w)
      BY <1>1, <1>6, <2>1
      DEF IInv, TypeOK, Handlers, Belongs, Answer, Goto, Idle, Registering, Acting
    <2>2. CASE Continue(w, "forget") /\ body[w].kind # "phone"
      BY <1>1, <1>6, <2>2
      DEF IInv, TypeOK, Handlers, Belongs, Continue, Goto, Idle, Registering, Acting
    <2> QED
      BY <2>1, <2>2
  <1>8. Reservations'
    <2>1. /\ who' = [who EXCEPT ![w] = who'[w]] /\ pc' = [pc EXCEPT ![w] = pc'[w]]
          /\ pc'[w] \notin Registering
      BY DEF Answer, Continue, Goto, Registering, IInv, TypeOK
    <2>2. \A v, x \in Workers : v # x /\ pc'[v] \in Registering /\ pc'[x] \in Registering
                                  => who'[v] # who'[x]
      BY <2>1 DEF IInv, TypeOK, Reservations
    <2>3. \A v \in Workers : pending[v] # None => ~SameKey(Changed(w), pending[v])
      BY <1>1 DEF MustWait, SameKey
    <2>4. \A v \in Workers, u \in Ids :
             pending[v] # None /\ users'[u] # None => ~SameKey(users'[u], pending[v])
      BY <1>1, <1>4, <2>3 DEF IInv, TypeOK, Reservations
    <2> QED
      BY <2>2, <2>4 DEF Reservations, IInv, SameKey
  <1>9. UniqueProfiles'
    <2>1. \A v \in Ids \ {who[w]} : users[v] # None => ~SameKey(users[v], Changed(w))
      BY DEF Clash
    <2>2. \A v \in Ids \ {who[w]} : users[v] # None => ~SameKey(Changed(w), users[v])
      BY <2>1 DEF SameKey
    <2> QED
      BY <1>1, <1>4, <2>1, <2>2 DEF IInv, TypeOK, UniqueProfiles
  <1>10. SessionsOwned' /\ OneAccountEach'
    BY <1>6 DEF IInv, TypeOK, SessionsOwned, OneAccountEach, session
  <1> QED
    BY <1>5, <1>7, <1>8, <1>9, <1>10 DEF IInv

LEMMA InsertStep ==
  ASSUME IInv, NEW w \in Workers, Insert(w), ~Clash(NewRow(w), who[w]),
         pending' = [pending EXCEPT ![w] = NewRow(w)], Continue(w, "commit")
  PROVE  IInv'
  <1>1. /\ who[w] \in Ids /\ users[who[w]] = None /\ pc[w] = "insert"
        /\ body[w] \in Requests
    BY DEF IInv, Handlers, Belongs, Registering, Insert
  <1>2. NewRow(w) \in Profile /\ NewRow(w) # None
    <2>1. body[w] \in Request
      BY <1>1, UserAssumption
    <2>2. NewRow(w) \in Profile
      BY <2>1 DEF NewRow, Request, Profile
    <2> QED
      BY <2>2, UserAssumption
  <1> HIDE DEF NewRow
  <1>3. TypeOK'
    BY <1>2 DEF IInv, TypeOK, Insert, Continue, Goto, PCs, session
  <1>4. Handlers'
    BY <1>1, <1>2
    DEF IInv, TypeOK, Handlers, Belongs, Insert, Continue, Goto, Idle, Registering, Acting
  <1>5. \A v \in Workers \ {w} : pending[v] # None =>
            ~SameKey(pending[v], NewRow(w)) /\ ~SameKey(NewRow(w), pending[v])
    BY DEF Insert, MustWait, SameKey
  <1>6. \A u \in Ids : users[u] # None => ~SameKey(users[u], NewRow(w))
    BY <1>1 DEF Clash
  <1>7. Reservations'
    <2>1. \A v, x \in Workers : v # x /\ pc'[v] \in Registering /\ pc'[x] \in Registering
                                  => who'[v] # who'[x]
      BY <1>1 DEF IInv, TypeOK, Reservations, Registering, Continue, Goto
    <2>2. \A v, x \in Workers : v # x /\ pending'[v] # None /\ pending'[x] # None
                                  => ~SameKey(pending'[v], pending'[x])
      BY <1>5 DEF IInv, TypeOK, Reservations
    <2>3. \A v \in Workers, u \in Ids :
             pending'[v] # None /\ users'[u] # None => ~SameKey(users'[u], pending'[v])
      BY <1>6 DEF IInv, TypeOK, Reservations, Insert
    <2> QED
      BY <2>1, <2>2, <2>3 DEF Reservations, SameKey
  <1> QED
    BY <1>3, <1>4, <1>7
    DEF IInv, Insert, SessionsOwned, OneAccountEach, UniqueProfiles, SameKey, session

LEMMA CommitStep == ASSUME IInv, NEW w \in Workers, Commit(w) PROVE IInv'
  <1>1. /\ who[w] \in Ids /\ users[who[w]] = None /\ pc[w] = "commit"
        /\ pending[w] \in Profile /\ pending[w] # None
    BY DEF IInv, TypeOK, Handlers, Registering, Commit
  <1>2. /\ users' = [users EXCEPT ![who[w]] = pending[w]]
        /\ accounts' = [accounts EXCEPT ![who[w]] = @ + 1]
        /\ pending' = [pending EXCEPT ![w] = None]
    BY DEF Commit
  <1>3. TypeOK'
    BY <1>1, <1>2 DEF IInv, TypeOK, Commit, Answer, Goto, PCs, session
  <1>4. \A v \in Workers \ {w} : pc[v] \in Registering => who[v] # who[w]
    BY <1>1 DEF IInv, Reservations, Registering
  <1>5. Handlers'
    BY <1>1, <1>2, <1>4
    DEF IInv, TypeOK, Handlers, Belongs, Commit, Answer, Goto, Idle, Registering, Acting
  <1>6. Reservations'
    <2>1. \A v, x \in Workers : v # x /\ pc'[v] \in Registering /\ pc'[x] \in Registering
                                  => who'[v] # who'[x]
      BY DEF IInv, TypeOK, Reservations, Registering, Commit, Answer, Goto
    <2>2. \A v \in Workers \ {w} : pending[v] # None => ~SameKey(pending[w], pending[v])
      BY <1>1 DEF IInv, Reservations
    <2>3. \A v \in Workers, u \in Ids :
             pending'[v] # None /\ users'[u] # None => ~SameKey(users'[u], pending'[v])
      BY <1>1, <1>2, <2>2 DEF IInv, TypeOK, Reservations
    <2>4. \A v, x \in Workers : v # x /\ pending'[v] # None /\ pending'[x] # None
                                  => ~SameKey(pending'[v], pending'[x])
      BY <1>2 DEF IInv, TypeOK, Reservations
    <2> QED
      BY <2>1, <2>3, <2>4 DEF Reservations, SameKey
  <1>7. UniqueProfiles'
    <2>1. \A v \in Ids : users[v] # None => ~SameKey(users[v], pending[w])
                                            /\ ~SameKey(pending[w], users[v])
      BY <1>1 DEF IInv, Reservations, SameKey
    <2> QED
      BY <1>1, <1>2, <2>1 DEF IInv, TypeOK, UniqueProfiles
  <1>8. OneAccountEach'
    BY <1>1, <1>2 DEF IInv, TypeOK, OneAccountEach
  <1>9. SessionsOwned'
    BY <1>1, <1>2 DEF IInv, TypeOK, SessionsOwned, Commit, session
  <1> QED
    BY <1>3, <1>5, <1>6, <1>7, <1>8, <1>9 DEF IInv

(* The map may only lose entries, or gain one of a registered user. *)
LEMMA SessionsKept ==
  ASSUME IInv
  PROVE  /\ issued \subseteq SessionIds
         /\ live \subseteq [id : SessionIds, user : Ids]
         /\ \A s \in live : users[s.user] # None
         /\ faults \in 0..MaxFaults
  BY DEF IInv, TypeOK, SessionsOwned

LEMMA CompareStep == ASSUME IInv, NEW w \in Workers, Compare(w) PROVE IInv'
  <1>1. pc[w] = "compare" /\ who[w] \in Ids /\ users[who[w]] # None /\ pending[w] = None
    BY DEF Compare, IInv, Handlers, Acting
  <1>2. pending' = [pending EXCEPT ![w] = None]
    BY <1>1 DEF Compare, tables, IInv, TypeOK
  <1>3. /\ issued' \subseteq SessionIds
        /\ live' \subseteq [id : SessionIds, user : Ids]
        /\ \A s \in live' : users[s.user] # None
    <2>1. CASE UNCHANGED session
      BY <2>1, SessionsKept DEF session
    <2>2. CASE \E s \in SessionIds \ issued :
                  /\ issued' = issued \cup {s}
                  /\ live' = live \cup {[id |-> s, user |-> who[w]]}
      BY <1>1, <2>2, SessionsKept
    <2> QED
      BY <2>1, <2>2 DEF Compare
  <1> QED
    BY <1>2, <1>3, SessionsKept, AnswerStep DEF Compare, tables

LEMMA ForgetStep == ASSUME IInv, NEW w \in Workers, Forget(w) PROVE IInv'
  <1>1. pending' = [pending EXCEPT ![w] = None]
    BY DEF Forget, tables, IInv, TypeOK, Handlers
  <1>2. /\ issued' \subseteq SessionIds
        /\ live' \subseteq [id : SessionIds, user : Ids]
        /\ \A s \in live' : users[s.user] # None
    BY SessionsKept DEF Forget
  <1> QED
    BY <1>1, <1>2, SessionsKept, AnswerStep DEF Forget, tables

LEMMA FindStep == ASSUME IInv, NEW w \in Workers, Find(w) PROVE IInv'
  <1>1. body[w] \in Requests /\ body[w].kind \in {"login", "me", "phone"} /\ pending[w] = None
    BY DEF Find, IInv, Handlers, Belongs
  <1>2. CASE Registered(body[w].email) = {} /\ Answer(w)
    BY <1>2, PlainAnswer, SessionsKept DEF Find
  <1>3. ASSUME NEW u \in Registered(body[w].email),
               who' = [who EXCEPT ![w] = u], copy' = [copy EXCEPT ![w] = users[u]],
               Goto(w, AfterFind[body[w].kind]), UNCHANGED body
        PROVE  IInv'
    <2>1. u \in Ids /\ users[u] # None /\ users[u] \in Profile
      BY DEF Registered, IInv, TypeOK
    <2>2. AfterFind[body[w].kind] \in {"compare", "account", "write"}
      BY <1>1 DEF AfterFind
    <2>3. body[w].kind # "phone" => AfterFind[body[w].kind] # "write"
      BY <1>1 DEF AfterFind
    <2>4. Belongs(body[w], AfterFind[body[w].kind])
      BY <1>1, <2>2, <2>3 DEF Belongs
    <2>5. body' = [body EXCEPT ![w] = body[w]]
      BY <1>3 DEF IInv, TypeOK
    <2> DEFINE l == AfterFind[body[w].kind]
    <2>6. /\ l \in PCs /\ l \notin Idle /\ l \notin Registering
          /\ pc' = [pc EXCEPT ![w] = l] /\ l # "commit"
      BY <1>3, <2>2 DEF PCs, Idle, Registering, Goto
    <2>7. UNCHANGED <<tables, session, faults>>
      BY DEF Find
    <2> HIDE DEF l
    <2>8. Belongs(body[w], l)
      BY <2>4 DEF l
    <2> QED
      BY <1>1, <1>3, <2>1, <2>5, <2>6, <2>7, <2>8, SessionsKept, HandlerStep DEF session
  <1> QED
    BY <1>2, <1>3 DEF Find

LEMMA ValidateStep == ASSUME IInv, NEW w \in Workers, Validate(w) PROVE IInv'
  <1>1. /\ pc[w] = "validate" /\ body[w] \in Requests /\ pending[w] = None
        /\ body[w].kind \in {"password", "email", "protected"}
    BY DEF Validate, IInv, Handlers, Belongs
  <1>2. CASE Answer(w)
    BY <1>1, <1>2, PlainAnswer, SessionsKept DEF Validate
  <1>3. ASSUME NEW s \in live, who' = [who EXCEPT ![w] = s.user], Goto(w, "refresh"),
               UNCHANGED <<body, copy>>
        PROVE  IInv'
    <2>1. s.user \in Ids /\ users[s.user] # None
      BY SessionsKept
    <2>2. /\ body' = [body EXCEPT ![w] = body[w]] /\ copy' = [copy EXCEPT ![w] = copy[w]]
          /\ copy[w] \in Profile \cup {None}
      BY <1>3 DEF IInv, TypeOK
    <2>3. Belongs(body[w], "refresh") /\ "refresh" \in PCs
      BY <1>1 DEF Belongs, PCs
    <2>4. UNCHANGED <<tables, session, faults>>
      BY DEF Validate
    <2> QED
      BY <1>1, <1>3, <2>1, <2>2, <2>3, <2>4, SessionsKept, HandlerStep
      DEF Goto, Idle, Registering, session
  <1> QED
    BY <1>2, <1>3 DEF Validate

LEMMA ReadStep == ASSUME IInv, NEW w \in Workers, Read(w) PROVE IInv'
  <1>1. /\ pc[w] = "read" /\ body[w] \in Requests /\ pending[w] = None
        /\ body[w].kind \in {"password", "email"}
        /\ who[w] \in Ids /\ users[who[w]] # None /\ users[who[w]] \in Profile
    BY DEF Read, IInv, TypeOK, Handlers, Belongs, Acting
  <1>2. CASE Answer(w)
    BY <1>1, <1>2, PlainAnswer, SessionsKept DEF Read
  <1>3. CASE /\ copy' = [copy EXCEPT ![w] = users[who[w]]]
             /\ Goto(w, IF body[w].kind = "email" THEN "check" ELSE "write")
             /\ UNCHANGED <<body, who>>
    <2> DEFINE l == IF body[w].kind = "email" THEN "check" ELSE "write"
    <2>1. l \in {"check", "write"} /\ pc' = [pc EXCEPT ![w] = l]
      BY <1>3 DEF Goto
    <2> HIDE DEF l
    <2>2. Belongs(body[w], l) /\ l \in PCs
      BY <1>1, <2>1 DEF Belongs, PCs
    <2>3. body' = [body EXCEPT ![w] = body[w]] /\ who' = [who EXCEPT ![w] = who[w]]
      BY <1>3 DEF IInv, TypeOK
    <2>4. UNCHANGED <<tables, session, faults>>
      BY DEF Read
    <2> QED
      BY <1>1, <1>3, <2>1, <2>2, <2>3, <2>4, SessionsKept, HandlerStep
      DEF Idle, Registering, session
  <1> QED
    BY <1>2, <1>3 DEF Read

LEMMA ReceiveStep ==
  ASSUME IInv, NEW w \in Workers, NEW b \in Requests, Receive(w, b) PROVE IInv'
  <1>1. /\ pc[w] = "idle" /\ who[w] = None /\ pending[w] = None
        /\ copy[w] \in Profile \cup {None}
    BY DEF Receive, IInv, TypeOK, Handlers, Idle
  <1>2. b \in Request
    BY UserAssumption
  <1>3. /\ body' = [body EXCEPT ![w] = b] /\ pc' = [pc EXCEPT ![w] = Entry(b.kind)]
        /\ copy' = [copy EXCEPT ![w] = copy[w]]
        /\ UNCHANGED <<tables, session, faults>>
    BY DEF Receive, Goto, IInv, TypeOK
  <1>4. CASE b.kind = "register" /\ \E u \in Ids : Free(u) /\ who' = [who EXCEPT ![w] = u]
    <2>1. PICK u \in Ids : Free(u) /\ who' = [who EXCEPT ![w] = u]
      BY <1>4
    <2>2. Entry(b.kind) = "insert"
      BY <1>4 DEF Entry
    <2> QED
      BY <1>1, <1>3, <2>1, <2>2, SessionsKept, HandlerStep
      DEF Free, Belongs, PCs, Idle, Registering, Acting, session
  <1>5. CASE b.kind # "register" /\ UNCHANGED who
    <2>1. Entry(b.kind) \in {"find", "validate"}
      BY <1>2, <1>5 DEF Entry, Request
    <2>2. Belongs(b, Entry(b.kind))
      BY <1>2, <1>5, <2>1 DEF Entry, Request, Belongs
    <2>3. who' = [who EXCEPT ![w] = None]
      BY <1>1, <1>5 DEF IInv, TypeOK
    <2> DEFINE l == Entry(b.kind)
    <2>4. /\ l \in PCs /\ l \in Idle /\ l \notin Registering /\ l \notin Acting
          /\ l \notin {"compare", "check", "write", "commit"}
          /\ Belongs(b, l) /\ pc' = [pc EXCEPT ![w] = l]
      BY <1>3, <2>1, <2>2 DEF PCs, Idle, Registering, Acting
    <2> HIDE DEF l
    <2> QED
      BY <1>1, <1>3, <2>3, <2>4, SessionsKept, HandlerStep DEF session
  <1> QED
    BY <1>4, <1>5 DEF Receive

LEMMA CrashStep == ASSUME IInv, Crash PROVE IInv'
  <1>1. faults' \in 0..MaxFaults
    BY FaultInRange DEF IInv, Crash
  <1>2. TypeOK'
    BY <1>1 DEF IInv, TypeOK, Crash, PCs
  <1> QED
    BY <1>2
    DEF IInv, Crash, Handlers, Belongs, Reservations, SessionsOwned, OneAccountEach,
        UniqueProfiles, SameKey, Idle, Registering, Acting

(* Every action keeps the invariant. *)
LEMMA NextIInv == IInv /\ [Next]_vars => IInv'
  <1> SUFFICES ASSUME IInv, [Next]_vars PROVE IInv'
    OBVIOUS
  <1>1. ASSUME NEW w \in Workers, Insert(w) PROVE IInv'
    <2>1. CASE Clash(NewRow(w), who[w]) /\ Answer(w) /\ UNCHANGED pending
      BY <1>1, <2>1, PlainAnswer, SessionsKept DEF Insert, tables
    <2>2. CASE /\ ~Clash(NewRow(w), who[w])
               /\ pending' = [pending EXCEPT ![w] = NewRow(w)]
               /\ Continue(w, "commit")
      BY <1>1, <2>2, InsertStep
    <2> QED
      BY <1>1, <2>1, <2>2 DEF Insert
  <1>2. ASSUME NEW w \in Workers, CreateFails(w) PROVE IInv'
    BY <1>2, AnswerStep, SessionsKept, FaultInRange DEF CreateFails, IInv, session
  <1>3. ASSUME NEW w \in Workers, FindAccount(w) PROVE IInv'
    BY <1>3, PlainAnswer, SessionsKept DEF FindAccount
  <1>4. ASSUME NEW w \in Workers, Refresh(w) PROVE IInv'
    <2>1. CASE Answer(w)
      BY <1>4, <2>1, PlainAnswer, SessionsKept DEF Refresh
    <2>2. CASE body[w].kind # "protected" /\ Continue(w, "read")
      <3>1. Belongs(body[w], "read")
        BY <1>4, <2>2 DEF IInv, Handlers, Belongs, Refresh
      <3> QED
        BY <1>4, <2>2, <3>1, ContinueStep, SessionsKept
        DEF Refresh, PCs, Idle, Registering, Acting
    <2> QED
      BY <1>4, <2>1, <2>2 DEF Refresh
  <1>5. ASSUME NEW w \in Workers, pc[w] = "check", Continue(w, "write"),
               UNCHANGED <<tables, session>>, faults' \in 0..MaxFaults
        PROVE  IInv'
    <2>1. Belongs(body[w], "write")
      BY <1>5 DEF IInv, Handlers, Belongs
    <2> QED
      BY <1>5, <2>1, ContinueStep DEF PCs, Idle, Registering, Acting
  <1>6. ASSUME NEW w \in Workers, Check(w) PROVE IInv'
    BY <1>5, <1>6, PlainAnswer, SessionsKept DEF Check
  <1>7. ASSUME NEW w \in Workers, CheckFails(w) PROVE IInv'
    BY <1>5, <1>7, FaultInRange DEF CheckFails, IInv
  <1>8. ASSUME NEW w \in Workers, Write(w) PROVE IInv'
    <2>1. CASE Answer(w) /\ UNCHANGED users
      BY <1>8, <2>1, PlainAnswer, SessionsKept DEF Write, tables
    <2>2. CASE ~Clash(Changed(w), who[w]) /\ Store(w) /\ AfterStore(w)
      BY <1>8, <2>2, StoreStep, SessionsKept DEF Write, AfterStore
    <2> QED
      BY <1>8, <2>1, <2>2 DEF Write
  <1>9. ASSUME NEW w \in Workers, WriteFails(w) PROVE IInv'
    <2>1. faults' \in 0..MaxFaults
      BY <1>9, FaultInRange DEF WriteFails, IInv
    <2>2. CASE UNCHANGED users
      BY <1>9, <2>1, <2>2, PlainAnswer DEF WriteFails, tables
    <2>3. CASE ~MustWait(w, Changed(w)) /\ ~Clash(Changed(w), who[w]) /\ Store(w)
      BY <1>9, <2>1, <2>3, StoreStep DEF WriteFails
    <2> QED
      BY <1>9, <2>2, <2>3 DEF WriteFails
  <1>10. ASSUME NEW w \in Workers, ReadFails(w) PROVE IInv'
    BY <1>10, PlainAnswer, FaultInRange DEF ReadFails, IInv
  <1>11. CASE UNCHANGED vars
    BY <1>11
    DEF vars, tables, session, IInv, TypeOK, Handlers, Belongs, Reservations, SessionsOwned,
        OneAccountEach, UniqueProfiles, SameKey
  <1> QED
    BY <1>1, <1>2, <1>3, <1>4, <1>6, <1>7, <1>8, <1>9, <1>10, <1>11, CommitStep, FindStep,
       CompareStep, ValidateStep, ReadStep, ForgetStep, ReceiveStep, CrashStep
    DEF Next, Step, DatabaseFails

LEMMA SpecIInv == Spec => []IInv
  BY InitIInv, NextIInv, PTL DEF Spec

(* Users, accounts, sessions and what handlers hold of them keep their     *)
(* types, for any number of workers and requests.                          *)
THEOREM TypeCorrect == Spec => []TypeOK
  BY SpecIInv, PTL DEF IInv

(* A registration is all or nothing: every user has exactly one account,   *)
(* whatever fails and wherever the process ends.                           *)
THEOREM OneAccount == Spec => []OneAccountEach
  BY SpecIInv, PTL DEF IInv

(* No two users ever share an address or a phone number, for any           *)
(* interleaving of registrations and profile changes.                      *)
THEOREM ProfilesUnique == Spec => []UniqueProfiles
  BY SpecIInv, PTL DEF IInv

(* Only a login adds to the session map, and under a fresh id: a session   *)
(* that has ended is never honoured again.                                 *)
THEOREM EndedSessions == Spec => EndedSessionsStayEnded
  <1>1. ASSUME [Next]_vars
        PROVE  [\A s \in issued :
                  s \notin {t.id : t \in live} => s \notin {t.id : t \in live'}]_vars
    <2> SUFFICES ASSUME Next, NEW s \in issued, s \notin {t.id : t \in live}
                 PROVE  s \notin {t.id : t \in live'}
      BY <1>1
    <2>1. CASE UNCHANGED live
      BY <2>1
    <2>2. ASSUME NEW w \in Workers, Compare(w) PROVE s \notin {t.id : t \in live'}
      BY <2>2 DEF Compare, session
    <2>3. ASSUME NEW w \in Workers, Forget(w) PROVE s \notin {t.id : t \in live'}
      BY <2>3 DEF Forget
    <2>4. CASE Crash
      BY <2>4 DEF Crash
    <2>5. ASSUME NEW w \in Workers, NEW b \in Requests, Receive(w, b) PROVE UNCHANGED live
      BY <2>5 DEF Receive, session
    <2>6. ASSUME NEW w \in Workers, DatabaseFails(w) PROVE UNCHANGED live
      BY <2>6 DEF DatabaseFails, CreateFails, ReadFails, CheckFails, WriteFails, session
    <2>7. ASSUME NEW w \in Workers,
                 Insert(w) \/ Commit(w) \/ Find(w) \/ FindAccount(w) \/ Validate(w)
                   \/ Refresh(w) \/ Read(w) \/ Check(w) \/ Write(w)
          PROVE  UNCHANGED live
      BY <2>7 DEF Insert, Commit, Find, FindAccount, Validate, Refresh, Read, Check, Write, session
    <2> QED
      BY <2>1, <2>2, <2>3, <2>4, <2>5, <2>6, <2>7 DEF Next, Step
  <1> QED
    BY <1>1, PTL DEF Spec, EndedSessionsStayEnded
=============================================================================
