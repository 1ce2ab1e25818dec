---------------------------- MODULE BrowserProofs ----------------------------
(***************************************************************************)
(* Proofs about Browser for any tabs, users, passwords and requests, and    *)
(* about the routes of Proxies for any headers.                             *)
(***************************************************************************)
EXTENDS Browser, TLAPS

(* Which page waits for which requests. *)
Suits(kind, p) ==
    \/ kind = p /\ kind \in {"login", "register", "topup", "transfer"}
    \/ kind = "phone" /\ p = "settings"
    \/ kind = "list" /\ p \in {"home", "transactions"}
    \/ kind = "me" /\ p = "home"

SpinnerWaits(t) ==
    /\ page[t] # "demo" => (busy[t] <=> \E r \in Requests : Live(r, t))
    /\ \A q, r \in Requests : Live(q, t) /\ Live(r, t) => q = r

(* What waits on a page was asked for there. *)
WaitsForItsOwn(t) ==
    \A r \in Requests : Live(r, t) =>
        /\ Suits(call[r].kind, page[t])
        /\ call[r].kind = "transfer" => confirmed[t]
        /\ call[r].kind = "phone" => call[r].user = held[t]

(* The two ways to send a transfer are open one at a time, and the second   *)
(* only after the first.                                                    *)
TransferPage(t) ==
    /\ confirming[t] => page[t] = "transfer" /\ ~busy[t]
    /\ page[t] = "transfer" /\ result[t] \in {"rejected", "error"} => confirmed[t]

TabInv(t) == SpinnerWaits(t) /\ WaitsForItsOwn(t) /\ TransferPage(t)

(* What a request for a sign-in carries, before and after it is granted. *)
SignInsCarry ==
    \A r \in Requests : call[r] # Idle /\ call[r].kind \in SignIns =>
        /\ call[r].user \in Users
        /\ call[r].answer = "none" => call[r].password \in Passwords
        /\ call[r].answer = "ok" => call[r].user \in signedIn

IInv ==
    /\ TypeOK
    /\ \A t \in Tabs : TabInv(t)
    /\ SignInsCarry
    /\ SessionsAreEarned

-----------------------------------------------------------------------------
(* Operators. *)

LEMMA KindsAre ==
  /\ Kinds = {"health", "login", "register", "list", "me", "phone", "password", "topup", "transfer"}
  /\ DOMAIN FirstRead = {"home", "transactions"}
  /\ FirstRead["home"] = "me" /\ FirstRead["transactions"] = "list"
  BY DEF Kinds, Route, FirstRead

LEMMA SlotIsFree ==
  ASSUME NEW calls, Unused(calls) # {}
  PROVE  Slot(calls) \in Requests /\ calls[Slot(calls)] = Idle
<1>1. Slot(calls) \in Unused(calls)
  BY DEF Slot
<1> QED
  BY <1>1 DEF Unused

LEMMA NewCallType ==
  ASSUME NEW kind \in Kinds, NEW t \in Tabs, NEW u \in Users \cup {Nobody},
         NEW pw \in Passwords \cup {NoPassword}
  PROVE  /\ NewCall(kind, t, u, pw) \in Call
         /\ NewCall(kind, t, u, pw) # Idle
<1>1. NewCall(kind, t, u, pw) \in Call
  BY DEF NewCall, Call
<1> QED
  BY <1>1, IdleAssumption

(* The demands of the service against what the routes pass on: no request   *)
(* of a page, whatever its headers, reaches the handlers that move money or *)
(* change a password.                                                       *)
THEOREM MoneyRoutesAreShut ==
  ASSUME NEW headers \in SUBSET Headers
  PROVE  /\ ~Admitted("transfer", headers)
         /\ ~Admitted("topup", headers)
         /\ ~Admitted("password", headers)
<1>1. /\ Route["transfer"].passes = {UserEmail, UserID}
      /\ Route["topup"].passes = {UserEmail, UserID}
      /\ Route["password"].passes = {UserEmail}
  BY DEF Route, TransferRoute, TopupRoute, PasswordRoute
<1>2. /\ {IdempotencyKey} \in Demands["transfer"]
      /\ {IdempotencyKey} \in Demands["topup"]
      /\ {SessionID} \in Demands["password"]
  BY DEF Demands, TransferDemands, TopupDemands, PasswordDemands
<1>3. {IdempotencyKey} \cap {UserEmail, UserID} = {} /\ {SessionID} \cap {UserEmail} = {}
  BY DEF IdempotencyKey, UserEmail, UserID, SessionID
<1> QED
  BY <1>1, <1>2, <1>3 DEF Admitted, Forwarded

-----------------------------------------------------------------------------
(* Tabs that a step leaves alone. *)

LEMMA TabKept ==
  ASSUME NEW s \in Tabs, TabInv(s),
         page'[s] = page[s], busy'[s] = busy[s], result'[s] = result[s], held'[s] = held[s],
         confirming'[s] = confirming[s], confirmed'[s] = confirmed[s],
         \A r \in Requests : Live(r, s)' <=> Live(r, s),
         \A r \in Requests : Live(r, s) => /\ call'[r].kind = call[r].kind
                                          /\ call'[r].user = call[r].user
  PROVE  TabInv(s)'
<1>1. SpinnerWaits(s)'
  BY DEF TabInv, SpinnerWaits
<1>2. WaitsForItsOwn(s)'
  BY DEF TabInv, WaitsForItsOwn
<1>3. TransferPage(s)'
  BY DEF TabInv, TransferPage
<1> QED
  BY <1>1, <1>2, <1>3 DEF TabInv

(* calls are the requests with those of t that can still matter, but none   *)
(* that its page waits for.                                                 *)
Residue(t, calls) ==
    /\ calls \in [Requests -> Call \cup {Idle}]
    /\ \A q \in Requests : calls[q] # Idle =>
          /\ call[q] # Idle
          /\ calls[q].tab = call[q].tab
          /\ calls[q].kind = call[q].kind
          /\ calls[q].user = call[q].user
          /\ calls[q].password = call[q].password
          /\ calls[q].answer = call[q].answer
          /\ calls[q].tab = t => calls[q].hook # "live"
    /\ \A q \in Requests : call[q] # Idle /\ call[q].tab # t => calls[q] = call[q]

LEMMA AbandonResidue ==
  ASSUME NEW c \in Call, NEW hook \in {"left", "gone"}
  PROVE  \/ Abandon(c, hook) = Idle
         \/ /\ Abandon(c, hook) \in Call
            /\ Abandon(c, hook) = [c EXCEPT !.hook = hook]
  BY DEF Abandon, Call

LEMMA LeftResidue ==
  ASSUME TypeOK, NEW t \in Tabs
  PROVE  Residue(t, Left(t, call)) /\ Residue(t, Gone(t, call))
<1>1. \A q \in Requests : call[q] \in Call \/ call[q] = Idle
  BY DEF TypeOK
<1>2. Residue(t, Left(t, call))
  BY <1>1, AbandonResidue DEF Residue, Left, Call
<1>3. Residue(t, Gone(t, call))
  BY <1>1, AbandonResidue DEF Residue, Gone, Call
<1> QED
  BY <1>2, <1>3

LEMMA LeftDoneResidue ==
  ASSUME TypeOK, NEW r \in Requests, call[r] # Idle
  PROVE  Residue(call[r].tab, Left(call[r].tab, Done(r)))
<1>1. \A q \in Requests : Done(r)[q] \in Call \/ Done(r)[q] = Idle
  BY DEF TypeOK, Done
<1>2. \A q \in Requests : Done(r)[q] # Idle => Done(r)[q] = call[q]
  BY DEF TypeOK, Done
<1>3. \A q \in Requests : call[q].tab # call[r].tab => Done(r)[q] = call[q]
  BY DEF TypeOK, Done
<1> QED
  BY <1>1, <1>2, <1>3, AbandonResidue DEF Residue, Left, Call

-----------------------------------------------------------------------------
(* A page is mounted. *)

LEMMA Mounted ==
  ASSUME TypeOK, \A s \in Tabs : TabInv(s),
         NEW t \in Tabs, NEW p \in Pages, NEW calls, Residue(t, calls),
         store' \in Users \cup {Nobody}, UNCHANGED service,
         Mount(t, p, calls)
  PROVE  TypeOK' /\ \A s \in Tabs : TabInv(s)'
<1> DEFINE c == NewCall(FirstRead[p], t, store', NoPassword)
           reads == p \in DOMAIN FirstRead
<1>1. reads => /\ c \in Call /\ c # Idle
               /\ Slot(calls) \in Requests /\ calls[Slot(calls)] = Idle
  <2> SUFFICES ASSUME reads
               PROVE  /\ c \in Call /\ c # Idle
                      /\ Slot(calls) \in Requests /\ calls[Slot(calls)] = Idle
    OBVIOUS
  <2>1. FirstRead[p] \in Kinds
    BY KindsAre
  <2>2. Slot(calls) \in Requests /\ calls[Slot(calls)] = Idle
    BY SlotIsFree DEF Mount
  <2> QED
    BY <2>1, <2>2, NewCallType
<1>2. call' \in [Requests -> Call \cup {Idle}]
  BY <1>1 DEF Mount, Residue
<1>3. TypeOK'
  BY <1>2 DEF TypeOK, Mount, service, Pages
<1>4. \A q \in Requests :
         call'[q] = IF reads /\ q = Slot(calls) THEN c ELSE calls[q]
  BY <1>1 DEF Mount, Residue
<1>5. \A q \in Requests : ~(calls[q] # Idle /\ calls[q].tab = t /\ calls[q].hook = "live")
  BY DEF Residue
<1>6. /\ c.tab = t /\ c.hook = "live" /\ c.kind = FirstRead[p]
  BY DEF NewCall
<1>7. \A q \in Requests : Live(q, t)' <=> reads /\ q = Slot(calls)
  BY <1>1, <1>4, <1>5, <1>6 DEF Live
<1>8. /\ page'[t] = p /\ busy'[t] = reads /\ result'[t] = "none"
      /\ confirming'[t] = FALSE
  BY DEF Mount, TypeOK
<1>9. TabInv(t)'
  <2>1. SpinnerWaits(t)'
    BY <1>1, <1>7, <1>8 DEF SpinnerWaits
  <2>2. WaitsForItsOwn(t)'
    BY <1>4, <1>6, <1>7, <1>8, KindsAre DEF WaitsForItsOwn, Suits
  <2>3. TransferPage(t)'
    BY <1>8 DEF TransferPage
  <2> QED
    BY <2>1, <2>2, <2>3 DEF TabInv
<1>10. ASSUME NEW s \in Tabs, s # t
       PROVE  TabInv(s)'
  <2>1. \A q \in Requests : Live(q, s) => call'[q] = call[q]
    BY <1>1, <1>4, <1>10 DEF Live, Residue
  <2>2. \A q \in Requests : Live(q, s)' => Live(q, s)
    BY <1>1, <1>4, <1>6, <1>10 DEF Live, Residue
  <2>3. \A q \in Requests : Live(q, s)' <=> Live(q, s)
    BY <2>1, <2>2 DEF Live
  <2>4. /\ page'[s] = page[s] /\ busy'[s] = busy[s] /\ result'[s] = result[s]
        /\ held'[s] = held[s] /\ confirming'[s] = confirming[s]
        /\ confirmed'[s] = confirmed[s]
    BY <1>10 DEF Mount, TypeOK
  <2> QED
    BY <2>1, <2>3, <2>4, TabKept
<1> QED
  BY <1>3, <1>9, <1>10

LEMMA MountedSignIns ==
  ASSUME TypeOK, SignInsCarry, NEW t \in Tabs, NEW p \in Pages, NEW calls, Residue(t, calls),
         UNCHANGED signedIn, Mount(t, p, calls)
  PROVE  SignInsCarry'
<1>1. ASSUME NEW q \in Requests, call'[q] # Idle, call'[q].kind \in SignIns
      PROVE  calls[q] # Idle /\ call'[q] = calls[q]
  <2>1. CASE p \in DOMAIN FirstRead /\ q = Slot(calls)
    <3>1. call'[q].kind = FirstRead[p]
      BY <2>1 DEF Mount, Residue, NewCall
    <3> QED
      BY <1>1, <2>1, <3>1, KindsAre DEF SignIns
  <2>2. CASE ~(p \in DOMAIN FirstRead /\ q = Slot(calls))
    BY <1>1, <2>2 DEF Mount, Residue
  <2> QED
    BY <2>1, <2>2
<1> QED
  BY <1>1 DEF SignInsCarry, Residue

-----------------------------------------------------------------------------
(* A page sends a request. *)

LEMMA Sent ==
  ASSUME TypeOK, \A s \in Tabs : TabInv(s),
         NEW t \in Tabs, NEW kind \in Kinds, NEW u \in Users \cup {Nobody},
         NEW pw \in Passwords \cup {NoPassword},
         page[t] # "demo", ~busy[t], Suits(kind, page[t]),
         Send(kind, t, u, pw), UNCHANGED <<store, page, held, service>>,
         kind = "phone" => u = held[t],
         confirming' \in [Tabs -> BOOLEAN], confirmed' \in [Tabs -> BOOLEAN],
         ~confirming'[t], kind = "transfer" => confirmed'[t],
         \A s \in Tabs \ {t} : confirming'[s] = confirming[s] /\ confirmed'[s] = confirmed[s]
  PROVE  TypeOK' /\ \A s \in Tabs : TabInv(s)'
<1> DEFINE c == NewCall(kind, t, u, pw)
<1>1. c \in Call /\ c # Idle /\ Slot(call) \in Requests /\ call[Slot(call)] = Idle
  BY SlotIsFree, NewCallType DEF Send
<1>2. TypeOK'
  BY <1>1 DEF TypeOK, Send, service
<1>3. \A q \in Requests : call'[q] = IF q = Slot(call) THEN c ELSE call[q]
  BY DEF Send, TypeOK
<1>4. c.tab = t /\ c.hook = "live" /\ c.kind = kind /\ c.user = u
  BY DEF NewCall
<1>5. \A q \in Requests : ~Live(q, t)
  BY DEF TabInv, SpinnerWaits
<1>6. \A q \in Requests : Live(q, t)' <=> q = Slot(call)
  BY <1>1, <1>3, <1>4, <1>5 DEF Live
<1>7. busy'[t] /\ result'[t] = "none"
  BY DEF Send, TypeOK
<1>8. TabInv(t)'
  <2>1. SpinnerWaits(t)'
    BY <1>1, <1>6, <1>7 DEF SpinnerWaits
  <2>2. WaitsForItsOwn(t)'
    BY <1>3, <1>4, <1>6 DEF WaitsForItsOwn
  <2>3. TransferPage(t)'
    BY <1>7 DEF TransferPage
  <2> QED
    BY <2>1, <2>2, <2>3 DEF TabInv
<1>9. ASSUME NEW s \in Tabs, s # t
      PROVE  TabInv(s)'
  <2>1. \A q \in Requests : Live(q, s)' <=> Live(q, s)
    BY <1>1, <1>3, <1>4, <1>9 DEF Live
  <2>2. \A q \in Requests : Live(q, s) => call'[q] = call[q]
    BY <1>1, <1>3 DEF Live
  <2>3. busy'[s] = busy[s] /\ result'[s] = result[s]
    BY <1>9 DEF Send, TypeOK
  <2> QED
    BY <1>9, <2>1, <2>2, <2>3, TabKept
<1> QED
  BY <1>2, <1>8, <1>9

LEMMA SentSignIns ==
  ASSUME TypeOK, SignInsCarry, NEW t, NEW kind, NEW u, NEW pw,
         Send(kind, t, u, pw), UNCHANGED signedIn,
         kind \in SignIns => u \in Users /\ pw \in Passwords
  PROVE  SignInsCarry'
<1> DEFINE c == NewCall(kind, t, u, pw)
<1>1. Slot(call) \in Requests
  BY SlotIsFree DEF Send
<1>2. \A q \in Requests : call'[q] = IF q = Slot(call) THEN c ELSE call[q]
  BY DEF Send, TypeOK
<1>3. c.kind = kind /\ c.user = u /\ c.password = pw /\ c.answer = "none"
  BY DEF NewCall
<1> QED
  BY <1>1, <1>2, <1>3 DEF SignInsCarry

-----------------------------------------------------------------------------
(* The actions, one by one. *)

LEMMA ServiceIdle ==
  ASSUME SessionsAreEarned, UNCHANGED service, store' \in {store, Nobody}
  PROVE  SessionsAreEarned'
  BY DEF SessionsAreEarned, HasAccount, service

LEMMA LeaveStep == ASSUME IInv, NEW t \in Tabs, Leave(t) PROVE IInv'
<1>1. Residue(t, Left(t, call)) /\ Residue(t, Gone(t, call))
  BY LeftResidue DEF IInv
<1>2. PICK p \in Pages, calls \in {Left(t, call), Gone(t, call)} : Mount(t, p, calls)
  BY BrowserAssumption DEF Leave, Open, Go, Admit, Pages, Public
<1>3. UNCHANGED store /\ UNCHANGED service
  BY DEF Leave, Open, Go
<1>4. store' \in Users \cup {Nobody}
  BY <1>3 DEF IInv, TypeOK
<1>5. TypeOK' /\ \A s \in Tabs : TabInv(s)'
  BY <1>1, <1>2, <1>3, <1>4, Mounted DEF IInv
<1>6. SignInsCarry'
  BY <1>1, <1>2, <1>3, MountedSignIns DEF IInv, service
<1> QED
  BY <1>3, <1>5, <1>6, ServiceIdle DEF IInv

LEMMA EndStep ==
  ASSUME IInv, NEW t \in Tabs, Poll(t) \/ Logout(t)
  PROVE  IInv'
<1>1. Residue(t, Left(t, call)) /\ "login" \in Pages
  BY LeftResidue DEF IInv, Pages, Public
<1>2. Mount(t, "login", Left(t, call)) /\ store' = Nobody /\ UNCHANGED service
  BY DEF Poll, Logout
<1>3. TypeOK' /\ \A s \in Tabs : TabInv(s)'
  BY <1>1, <1>2, Mounted DEF IInv
<1>4. SignInsCarry'
  BY <1>1, <1>2, MountedSignIns DEF IInv, service
<1> QED
  BY <1>2, <1>3, <1>4, ServiceIdle DEF IInv

(* A step that touches neither the pages nor the requests. *)
LEMMA ElsewhereStep ==
  ASSUME IInv, Expire \/ \E u \in Users : SignInElsewhere(u)
  PROVE  IInv'
<1>1. /\ UNCHANGED <<tab, call, accounts>> /\ signedIn \subseteq signedIn' /\ signedIn' \subseteq Users
      /\ store' \in Users \cup {Nobody} /\ (store' # Nobody => store' \in signedIn')
  BY DEF Expire, SignInElsewhere, service, IInv, TypeOK
<1>2. TypeOK'
  BY <1>1 DEF IInv, TypeOK, tab
<1>3. ASSUME NEW s \in Tabs
      PROVE  TabInv(s)'
  BY <1>1, <1>3 DEF IInv, tab, TabInv, SpinnerWaits, WaitsForItsOwn, TransferPage, Live
<1>4. SignInsCarry' /\ SessionsAreEarned'
  BY <1>1 DEF IInv, SignInsCarry, SessionsAreEarned, HasAccount
<1> QED
  BY <1>2, <1>3, <1>4 DEF IInv

(* The actions that send a request. *)
LEMMA SendStep ==
  ASSUME IInv, NEW t \in Tabs,
         \/ \E u \in Users, pw \in Passwords : SubmitLogin(t, u, pw) \/ SubmitRegister(t, u, pw)
         \/ SaveProfile(t) \/ SubmitTopup(t)
         \/ ConfirmTransfer(t) \/ RetryTransfer(t) \/ Refresh(t)
  PROVE  IInv'
<1> USE DEF IInv
<1>1. /\ page \in [Tabs -> Pages \cup {"closed"}] /\ store \in Users \cup {Nobody}
      /\ confirming \in [Tabs -> BOOLEAN] /\ confirmed \in [Tabs -> BOOLEAN]
      /\ held[t] \in Users \cup {Nobody}
  BY DEF TypeOK
<1>2. TransferPage(t)
  BY DEF TabInv
<1>3. /\ UNCHANGED store /\ UNCHANGED service /\ UNCHANGED signedIn
  BY DEF SubmitLogin, SubmitRegister, SaveProfile, SubmitTopup, ConfirmTransfer,
         RetryTransfer, Refresh, service
<1>4. SessionsAreEarned'
  BY <1>3, ServiceIdle
<1>5. ASSUME NEW u \in Users, NEW pw \in Passwords, SubmitLogin(t, u, pw)
      PROVE  TypeOK' /\ (\A s \in Tabs : TabInv(s)') /\ SignInsCarry'
  <2>1. Send("login", t, u, pw) /\ UNCHANGED <<store, page, held, confirming, confirmed, service>>
        /\ page[t] = "login" /\ ~busy[t]
    BY <1>5 DEF SubmitLogin, LoginForm
  <2>2. TypeOK' /\ \A s \in Tabs : TabInv(s)'
    BY <1>1, <1>2, <2>1, KindsAre, Sent DEF Suits, TransferPage
  <2>3. SignInsCarry'
    BY <1>3, <2>1, SentSignIns
  <2> QED
    BY <2>2, <2>3
<1>6. ASSUME NEW u \in Users, NEW pw \in Passwords, SubmitRegister(t, u, pw)
      PROVE  TypeOK' /\ (\A s \in Tabs : TabInv(s)') /\ SignInsCarry'
  <2>1. Send("register", t, u, pw) /\ UNCHANGED <<store, page, held, confirming, confirmed, service>>
        /\ page[t] = "register" /\ ~busy[t] /\ PageAccepts(pw)
    BY <1>6 DEF SubmitRegister, RegisterForm
  <2>2. TypeOK' /\ \A s \in Tabs : TabInv(s)'
    BY <1>1, <1>2, <2>1, KindsAre, Sent DEF Suits, TransferPage
  <2>3. SignInsCarry'
    BY <1>3, <2>1, SentSignIns
  <2> QED
    BY <2>2, <2>3
<1>7. ASSUME SaveProfile(t)
      PROVE  TypeOK' /\ (\A s \in Tabs : TabInv(s)') /\ SignInsCarry'
  <2>1. Send("phone", t, held[t], NoPassword)
        /\ UNCHANGED <<store, page, held, confirming, confirmed, service>>
        /\ page[t] = "settings" /\ ~busy[t]
    BY <1>7 DEF SaveProfile, SettingsForm
  <2>2. TypeOK' /\ \A s \in Tabs : TabInv(s)'
    BY <1>1, <1>2, <2>1, KindsAre, Sent DEF Suits, TransferPage
  <2>3. SignInsCarry'
    BY <1>3, <2>1, SentSignIns DEF SignIns
  <2> QED
    BY <2>2, <2>3
<1>8. ASSUME SubmitTopup(t)
      PROVE  TypeOK' /\ (\A s \in Tabs : TabInv(s)') /\ SignInsCarry'
  <2>1. Send("topup", t, store, NoPassword)
        /\ UNCHANGED <<store, page, held, confirming, confirmed, service>>
        /\ page[t] = "topup" /\ ~busy[t]
    BY <1>8 DEF SubmitTopup, TopupForm
  <2>2. TypeOK' /\ \A s \in Tabs : TabInv(s)'
    BY <1>1, <1>2, <2>1, KindsAre, Sent DEF Suits, TransferPage
  <2>3. SignInsCarry'
    BY <1>3, <2>1, SentSignIns DEF SignIns
  <2> QED
    BY <2>2, <2>3
<1>9. ASSUME ConfirmTransfer(t)
      PROVE  TypeOK' /\ (\A s \in Tabs : TabInv(s)') /\ SignInsCarry'
  <2>1. Send("transfer", t, store, NoPassword) /\ UNCHANGED <<store, page, held, service>>
        /\ page[t] = "transfer" /\ ~busy[t]
    BY <1>2, <1>9 DEF ConfirmTransfer, Dialog, SendTransfer, TransferPage
  <2>2. /\ confirming' = [confirming EXCEPT ![t] = FALSE]
        /\ confirmed' = [confirmed EXCEPT ![t] = TRUE]
    BY <1>9 DEF ConfirmTransfer, SendTransfer
  <2>3. TypeOK' /\ \A s \in Tabs : TabInv(s)'
    BY <1>1, <2>1, <2>2, KindsAre, Sent DEF Suits
  <2>4. SignInsCarry'
    BY <1>3, <2>1, SentSignIns DEF SignIns
  <2> QED
    BY <2>3, <2>4
<1>10. ASSUME RetryTransfer(t)
       PROVE  TypeOK' /\ (\A s \in Tabs : TabInv(s)') /\ SignInsCarry'
  <2>1. Send("transfer", t, store, NoPassword) /\ UNCHANGED <<store, page, held, confirmed, service>>
        /\ page[t] = "transfer" /\ ~busy[t] /\ confirmed[t]
    BY <1>2, <1>10 DEF RetryTransfer, RetryOffered, SendTransfer, TransferPage
  <2>2. confirming' = [confirming EXCEPT ![t] = FALSE]
    BY <1>10 DEF RetryTransfer, SendTransfer
  <2>3. TypeOK' /\ \A s \in Tabs : TabInv(s)'
    BY <1>1, <2>1, <2>2, KindsAre, Sent DEF Suits
  <2>4. SignInsCarry'
    BY <1>3, <2>1, SentSignIns DEF SignIns
  <2> QED
    BY <2>3, <2>4
<1>11. ASSUME Refresh(t)
       PROVE  TypeOK' /\ (\A s \in Tabs : TabInv(s)') /\ SignInsCarry'
  <2>1. Send("list", t, Nobody, NoPassword)
        /\ UNCHANGED <<store, page, held, confirming, confirmed, service>>
        /\ page[t] = "transactions" /\ ~busy[t]
    BY <1>11 DEF Refresh
  <2>2. TypeOK' /\ \A s \in Tabs : TabInv(s)'
    BY <1>1, <1>2, <2>1, KindsAre, Sent DEF Suits, TransferPage
  <2>3. SignInsCarry'
    BY <1>3, <2>1, SentSignIns DEF SignIns
  <2> QED
    BY <2>2, <2>3
<1> QED
  BY <1>4, <1>5, <1>6, <1>7, <1>8, <1>9, <1>10, <1>11

(* The actions that touch one page and no request. *)
LEMMA PageStep ==
  ASSUME IInv, NEW t \in Tabs,
         AskToConfirm(t) \/ CancelTransfer(t) \/ StartDemo(t) \/ EndDemo(t)
  PROVE  IInv'
<1>1. /\ UNCHANGED <<store, page, held, confirmed, call, service>>
      /\ \E b \in BOOLEAN : busy' = [busy EXCEPT ![t] = b]
      /\ \E b \in BOOLEAN : confirming' = [confirming EXCEPT ![t] = b]
      /\ result'[t] \in {"none", result[t]} \/ page[t] = "demo"
      /\ \E o \in {"none", "success", result[t]} : result' = [result EXCEPT ![t] = o]
      /\ page[t] # "demo" => busy'[t] = busy[t]
      /\ confirming'[t] => page[t] = "transfer" /\ ~busy'[t]
  <2>1. TransferPage(t) /\ TypeOK
    BY DEF IInv, TabInv
  <2>2. CASE AskToConfirm(t)
    BY <2>1, <2>2 DEF AskToConfirm, TransferForm, TypeOK
  <2>3. CASE CancelTransfer(t)
    BY <2>1, <2>3 DEF CancelTransfer, Dialog, TypeOK
  <2>4. CASE StartDemo(t)
    BY <2>1, <2>4 DEF StartDemo, TypeOK, TransferPage
  <2>5. CASE EndDemo(t)
    BY <2>1, <2>5 DEF EndDemo, TypeOK, TransferPage
  <2> QED
    BY <2>2, <2>3, <2>4, <2>5
<1>2. TypeOK'
  BY <1>1 DEF IInv, TypeOK, service
<1>3. TabInv(t)'
  <2>1. TabInv(t) /\ TypeOK
    BY DEF IInv
  <2>2. SpinnerWaits(t)'
    BY <1>1, <2>1 DEF TabInv, SpinnerWaits, Live
  <2>3. WaitsForItsOwn(t)'
    BY <1>1, <2>1 DEF TabInv, WaitsForItsOwn, Live
  <2>4. TransferPage(t)'
    BY <1>1, <2>1 DEF TabInv, TransferPage, TypeOK
  <2> QED
    BY <2>2, <2>3, <2>4 DEF TabInv
<1>4. ASSUME NEW s \in Tabs, s # t
      PROVE  TabInv(s)'
  <2>1. TabInv(s)
    BY DEF IInv
  <2>2. busy'[s] = busy[s] /\ result'[s] = result[s] /\ confirming'[s] = confirming[s]
    BY <1>1, <1>4 DEF IInv, TypeOK
  <2>3. \A r \in Requests : Live(r, s)' <=> Live(r, s)
    BY <1>1 DEF Live
  <2> QED
    BY <1>1, <2>1, <2>2, <2>3, TabKept
<1>5. SignInsCarry'
  BY <1>1 DEF IInv, SignInsCarry, service
<1>6. SessionsAreEarned'
  BY <1>1, ServiceIdle DEF IInv
<1> QED
  BY <1>2, <1>3, <1>4, <1>5, <1>6 DEF IInv

-----------------------------------------------------------------------------
(* The service answers: the pages notice nothing yet. *)

LEMMA AnsweredStep ==
  ASSUME IInv, NEW r \in Requests, call[r] # Idle,
         NEW answer \in {"ok", "refused", "lost"}, Answered(r, answer),
         UNCHANGED <<store, tab>>
  PROVE  /\ call' \in [Requests -> Call \cup {Idle}]
         /\ \A s \in Tabs : TabInv(s)'
         /\ \A q \in Requests \ {r} : call'[q] = call[q]
         /\ call'[r] # Idle => /\ call'[r].kind = call[r].kind
                               /\ call'[r].user = call[r].user
                               /\ call'[r].answer = answer
<1> DEFINE c == [call[r] EXCEPT !.answer = answer, !.password = NoPassword]
<1>1. call[r] \in Call
  BY DEF IInv, TypeOK
<1>2. /\ c \in Call /\ c # Idle /\ c.kind = call[r].kind /\ c.user = call[r].user
      /\ c.answer = answer /\ c.tab = call[r].tab /\ c.hook = call[r].hook
  <2>1. /\ c \in Call /\ c.kind = call[r].kind /\ c.user = call[r].user
        /\ c.answer = answer /\ c.tab = call[r].tab /\ c.hook = call[r].hook
    BY <1>1 DEF Call
  <2> QED
    BY <2>1, IdleAssumption
<1>3. call' = [call EXCEPT ![r] = IF c.hook = "live" \/ Kept(c) THEN c ELSE Idle]
  BY DEF Answered
<1>4. /\ call' \in [Requests -> Call \cup {Idle}]
      /\ \A q \in Requests \ {r} : call'[q] = call[q]
      /\ call'[r] # c => call'[r] = Idle /\ call[r].hook # "live"
  BY <1>2, <1>3 DEF IInv, TypeOK
<1>5. ASSUME NEW s \in Tabs
      PROVE  TabInv(s)'
  <2>1. \A q \in Requests : Live(q, s)' <=> Live(q, s)
    BY <1>2, <1>4 DEF Live
  <2>2. \A q \in Requests : Live(q, s) => call'[q].kind = call[q].kind /\ call'[q].user = call[q].user
    BY <1>2, <1>4 DEF Live
  <2> QED
    BY <2>1, <2>2, TabKept DEF IInv, tab
<1> QED
  BY <1>2, <1>4, <1>5

LEMMA ServeStep == ASSUME IInv, NEW r \in Requests, Serve(r) PROVE IInv'
<1>1. call[r] # Idle /\ call[r].answer = "none" /\ UNCHANGED <<store, tab>> /\ call[r] \in Call
  BY DEF Serve, IInv, TypeOK
<1>2. CASE Answered(r, "refused") /\ UNCHANGED service
  <2>1. TypeOK' /\ \A s \in Tabs : TabInv(s)'
    BY <1>1, <1>2, AnsweredStep DEF IInv, TypeOK, tab, service
  <2>2. SignInsCarry'
    <3>1. signedIn' = signedIn
      BY <1>2 DEF service
    <3> QED
      BY <1>1, <1>2, <3>1, AnsweredStep DEF IInv, SignInsCarry
  <2>3. SessionsAreEarned'
    BY <1>1, <1>2, ServiceIdle DEF IInv
  <2> QED
    BY <2>1, <2>2, <2>3 DEF IInv
<1>3. CASE /\ Granted(call[r])
           /\ Answered(r, "ok")
           /\ accounts' = IF call[r].kind = "register"
                          THEN [accounts EXCEPT ![call[r].user] = call[r].password] ELSE accounts
           /\ signedIn' = IF call[r].kind \in SignIns
                          THEN signedIn \cup {call[r].user} ELSE signedIn
  <2>1. call[r].kind \in SignIns => call[r].user \in Users /\ call[r].password \in Passwords
    BY <1>1 DEF IInv, SignInsCarry
  <2>3. signedIn \subseteq signedIn' /\ signedIn' \subseteq Users
    BY <1>3, <2>1 DEF IInv, TypeOK
  <2>4. accounts' \in [Users -> Passwords \cup {NoPassword}]
    BY <1>3, <2>1 DEF IInv, TypeOK, SignIns
  <2>5. TypeOK' /\ \A s \in Tabs : TabInv(s)'
    BY <1>1, <1>3, <2>3, <2>4, AnsweredStep DEF IInv, TypeOK, tab
  <2>6. SignInsCarry'
    <3>1. /\ \A q \in Requests \ {r} : call'[q] = call[q]
          /\ call'[r] # Idle => /\ call'[r].kind = call[r].kind
                                /\ call'[r].user = call[r].user /\ call'[r].answer = "ok"
      BY <1>1, <1>3, AnsweredStep
    <3>2. call[r].kind \in SignIns => call[r].user \in signedIn'
      BY <1>3
    <3> QED
      BY <2>1, <2>3, <3>1, <3>2 DEF IInv, SignInsCarry
  <2>7. SessionsAreEarned'
    BY <1>1, <2>3 DEF IInv, SessionsAreEarned
  <2> QED
    BY <2>5, <2>6, <2>7 DEF IInv
<1> QED
  BY <1>2, <1>3 DEF Serve

LEMMA DisruptStep == ASSUME IInv, NEW r \in Requests, Disrupt(r) PROVE IInv'
<1>1. PICK answer \in {"refused", "lost"} :
         /\ call[r] # Idle /\ Answered(r, answer) /\ UNCHANGED <<store, tab, service>>
  BY DEF Disrupt
<1>2. TypeOK' /\ \A s \in Tabs : TabInv(s)'
  BY <1>1, AnsweredStep DEF IInv, TypeOK, tab, service
<1>3. SignInsCarry'
  <2>1. signedIn' = signedIn
    BY <1>1 DEF service
  <2> QED
    BY <1>1, <2>1, AnsweredStep DEF IInv, SignInsCarry
<1>4. SessionsAreEarned'
  BY <1>1, ServiceIdle DEF IInv
<1> QED
  BY <1>2, <1>3, <1>4 DEF IInv

-----------------------------------------------------------------------------
(* An answer is received. *)

LEMMA SignInStep == ASSUME IInv, NEW r \in Requests, SignIn(r) PROVE IInv'
<1> DEFINE t == call[r].tab
<1>1. /\ call[r] # Idle /\ SignInGranted(call[r]) /\ store' = call[r].user
      /\ UNCHANGED service
  BY DEF SignIn
<1>2. /\ call[r] \in Call /\ t \in Tabs /\ store' \in Users /\ store' \in signedIn
      /\ call[r].kind \in SignIns
  BY <1>1 DEF IInv, TypeOK, Call, SignInsCarry, SignInGranted
<1>3. SessionsAreEarned'
  BY <1>1, <1>2 DEF IInv, SessionsAreEarned, HasAccount, service
<1>4. CASE page[t] = "home" /\ call' = Done(r) /\ UNCHANGED tab
  <2>1. TypeOK'
    BY <1>1, <1>2, <1>4 DEF IInv, TypeOK, Done, tab, service
  <2>2. call[r].hook # "live"
    <3>1. TabInv(t)
      BY <1>2 DEF IInv
    <3> QED
      BY <1>1, <1>2, <1>4, <3>1 DEF TabInv, WaitsForItsOwn, Live, Suits, SignIns
  <2>3. ASSUME NEW s \in Tabs
        PROVE  TabInv(s)'
    <3>1. \A q \in Requests : Live(q, s)' <=> Live(q, s)
      BY <1>4, <2>2 DEF Live, Done, IInv, TypeOK
    <3>2. \A q \in Requests : Live(q, s) => call'[q] = call[q]
      BY <1>4, <2>2 DEF Live, Done, IInv, TypeOK
    <3> QED
      BY <1>4, <3>1, <3>2, TabKept DEF IInv, tab
  <2>4. SignInsCarry'
    BY <1>1, <1>4 DEF IInv, TypeOK, SignInsCarry, Done, service
  <2> QED
    BY <1>3, <2>1, <2>3, <2>4 DEF IInv
<1>5. CASE Mount(t, "home", Left(t, Done(r)))
  <2>1. Residue(t, Left(t, Done(r))) /\ "home" \in Pages
    BY <1>1, LeftDoneResidue DEF IInv, Pages, Guarded
  <2>2. TypeOK' /\ \A s \in Tabs : TabInv(s)'
    BY <1>1, <1>2, <1>5, <2>1, Mounted DEF IInv
  <2>3. SignInsCarry'
    BY <1>1, <1>2, <1>5, <2>1, MountedSignIns DEF IInv, service
  <2> QED
    BY <1>3, <2>2, <2>3 DEF IInv
<1> QED
  BY <1>4, <1>5 DEF SignIn

LEMMA LoadStep == ASSUME IInv, NEW r \in Requests, LoadNext(r) PROVE IInv'
<1> DEFINE c == NewCall("list", call[r].tab, Nobody, NoPassword)
<1>1. /\ call[r] # Idle /\ call[r].hook = "live" /\ call[r].kind = "me"
      /\ call' = [call EXCEPT ![r] = c] /\ UNCHANGED <<store, tab, service>>
  BY DEF LoadNext
<1>2. call[r] \in Call /\ call[r].tab \in Tabs
  BY <1>1 DEF IInv, TypeOK, Call
<1>3. c \in Call /\ c # Idle
  BY <1>2, KindsAre, NewCallType
<1>4. c.kind = "list" /\ c.tab = call[r].tab /\ c.hook = "live"
  BY DEF NewCall
<1>5. /\ call' \in [Requests -> Call \cup {Idle}]
      /\ call'[r] = c /\ \A q \in Requests \ {r} : call'[q] = call[q]
  BY <1>1, <1>3 DEF IInv, TypeOK
<1>6. TypeOK'
  BY <1>1, <1>5 DEF IInv, TypeOK, tab, service
<1>7. ASSUME NEW s \in Tabs
      PROVE  TabInv(s)'
  <2>1. TabInv(s)
    BY DEF IInv
  <2>2. \A q \in Requests : Live(q, s)' <=> Live(q, s)
    BY <1>1, <1>3, <1>4, <1>5 DEF Live
  <2>3. SpinnerWaits(s)' /\ TransferPage(s)'
    BY <1>1, <2>1, <2>2 DEF TabInv, SpinnerWaits, TransferPage, tab
  <2>4. WaitsForItsOwn(s)'
    BY <1>1, <1>4, <1>5, <2>1, <2>2 DEF TabInv, WaitsForItsOwn, Suits, tab, Live
  <2> QED
    BY <2>3, <2>4 DEF TabInv
<1>8. SignInsCarry'
  BY <1>1, <1>4, <1>5 DEF IInv, SignInsCarry, SignIns, service
<1>9. SessionsAreEarned'
  BY <1>1, ServiceIdle DEF IInv
<1> QED
  BY <1>6, <1>7, <1>8, <1>9 DEF IInv

LEMMA ReportStep == ASSUME IInv, NEW r \in Requests, Report(r) PROVE IInv'
<1>1. PICK t \in Tabs : t = call[r].tab
  BY DEF Report, IInv, TypeOK, Call
<1>2. /\ call[r] # Idle /\ call[r].hook = "live" /\ call' = Done(r)
      /\ busy' = [busy EXCEPT ![t] = FALSE] /\ result' = [result EXCEPT ![t] = Outcome(call[r])]
      /\ UNCHANGED <<store, page, held, confirming, confirmed, service>>
  BY <1>1 DEF Report
<1>3. Outcome(call[r]) \in {"none", "success", "rejected", "error"}
  BY DEF Outcome
<1>4. TypeOK'
  BY <1>2, <1>3 DEF IInv, TypeOK, Done, service
<1>5. call'[r] = Idle /\ \A q \in Requests \ {r} : call'[q] = call[q]
  BY <1>2 DEF IInv, TypeOK, Done
<1>6. TabInv(t) /\ Live(r, t)
  BY <1>1, <1>2 DEF IInv, Live
<1>7. TabInv(t)'
  <2>1. \A q \in Requests : ~Live(q, t)'
    BY <1>5, <1>6 DEF TabInv, SpinnerWaits, Live
  <2>2. busy'[t] = FALSE
    BY <1>2, <1>1 DEF IInv, TypeOK
  <2>3. page[t] = "transfer" => confirmed[t]
    BY <1>6 DEF TabInv, WaitsForItsOwn, Suits
  <2>4. SpinnerWaits(t)' /\ WaitsForItsOwn(t)'
    BY <2>1, <2>2 DEF SpinnerWaits, WaitsForItsOwn
  <2>5. TransferPage(t)'
    BY <1>2, <1>6, <2>2, <2>3 DEF TabInv, TransferPage
  <2> QED
    BY <2>4, <2>5 DEF TabInv
<1>8. ASSUME NEW s \in Tabs, s # t
      PROVE  TabInv(s)'
  <2>1. busy'[s] = busy[s] /\ result'[s] = result[s]
    BY <1>2, <1>8 DEF IInv, TypeOK
  <2>2. \A q \in Requests : Live(q, s)' <=> Live(q, s)
    BY <1>1, <1>5, <1>8 DEF Live
  <2>3. \A q \in Requests : Live(q, s) => call'[q] = call[q]
    BY <1>1, <1>5, <1>8 DEF Live
  <2> QED
    BY <1>2, <2>1, <2>2, <2>3, TabKept DEF IInv
<1>9. SignInsCarry'
  BY <1>2, <1>5 DEF IInv, SignInsCarry, service
<1>10. SessionsAreEarned'
  BY <1>2, ServiceIdle DEF IInv
<1> QED
  BY <1>4, <1>7, <1>8, <1>9, <1>10 DEF IInv

-----------------------------------------------------------------------------
LEMMA InitIInv == Init => IInv
<1> SUFFICES ASSUME Init PROVE IInv
  OBVIOUS
<1>1. TypeOK
  BY BrowserAssumption DEF Init, TypeOK
<1>2. ASSUME NEW t \in Tabs
      PROVE  TabInv(t)
  BY DEF Init, TabInv, SpinnerWaits, WaitsForItsOwn, TransferPage, Live
<1>3. SignInsCarry /\ SessionsAreEarned
  BY BrowserAssumption
  DEF Init, SignInsCarry, SessionsAreEarned, HasAccount
<1> QED
  BY <1>1, <1>2, <1>3 DEF IInv

LEMMA StutterStep == IInv /\ UNCHANGED vars => IInv'
<1> SUFFICES ASSUME IInv, UNCHANGED vars PROVE IInv'
  OBVIOUS
<1>1. UNCHANGED <<store, page, busy, result, held, confirming, confirmed, call, accounts, signedIn>>
  BY DEF vars, tab, service
<1>2. TypeOK'
  BY <1>1 DEF IInv, TypeOK
<1>3. ASSUME NEW s \in Tabs
      PROVE  TabInv(s)'
  BY <1>1, TabKept DEF IInv, Live
<1>4. SignInsCarry' /\ SessionsAreEarned'
  BY <1>1 DEF IInv, SignInsCarry, SessionsAreEarned, HasAccount
<1> QED
  BY <1>2, <1>3, <1>4 DEF IInv

LEMMA NextIInv == IInv /\ [Next]_vars => IInv'
<1> SUFFICES ASSUME IInv, [Next]_vars PROVE IInv'
  OBVIOUS
<1>1. CASE Expire \/ \E u \in Users : SignInElsewhere(u)
  BY <1>1, ElsewhereStep
<1>2. ASSUME NEW t \in Tabs, Leave(t) \/ Poll(t) \/ Logout(t) \/ Submit(t) \/ EndDemo(t)
      PROVE  IInv'
  <2>1. CASE Submit(t)
    BY <2>1, SendStep, PageStep DEF Submit
  <2> QED
    BY <1>2, <2>1, LeaveStep, EndStep, PageStep
<1>3. ASSUME NEW r \in Requests, Serve(r) \/ Disrupt(r) \/ Receive(r)
      PROVE  IInv'
  BY <1>3, ServeStep, DisruptStep, SignInStep, LoadStep, ReportStep DEF Receive
<1>4. CASE UNCHANGED vars
  BY <1>4, StutterStep
<1> QED
  BY <1>1, <1>2, <1>3, <1>4 DEF Next

THEOREM Invariance == Spec => []IInv
  BY InitIInv, NextIInv, PTL DEF Spec

(* Every variable keeps to its type. *)
THEOREM TypesHold == Spec => []TypeOK
<1>1. IInv => TypeOK
  BY DEF IInv
<1> QED
  BY <1>1, Invariance, PTL

(* A page spins exactly while it waits for a request of its own, and never  *)
(* waits for two.                                                           *)
THEOREM SpinnersHold == Spec => []SpinnersWait
<1>1. IInv => SpinnersWait
  BY DEF IInv, SpinnersWait, TabInv, SpinnerWaits
<1> QED
  BY <1>1, Invariance, PTL

(* No page sends a transfer on which nobody has confirmed one. *)
THEOREM TransfersHold == Spec => []TransfersWereConfirmed
<1>1. IInv => TransfersWereConfirmed
  BY DEF IInv, TransfersWereConfirmed, TabInv, WaitsForItsOwn
<1> QED
  BY <1>1, Invariance, PTL

(* The stored session was granted by the service, in whatever order the     *)
(* answers to sign-ins arrive.                                              *)
THEOREM SessionsHold == Spec => []SessionsAreEarned
<1>1. IInv => SessionsAreEarned
  BY DEF IInv
<1> QED
  BY <1>1, Invariance, PTL

-----------------------------------------------------------------------------
(* Who shows success. *)

Succeeds(t) ==
    /\ page[t] \in {"settings", "topup", "transfer"}
    /\ result[t] # "success" /\ result'[t] = "success"

Served(t) ==
    \E r \in Requests :
        /\ Live(r, t) /\ call[r].answer = "ok"
        /\ page[t] = "settings" => call[r].kind = "phone" /\ call[r].user = held[t]
        /\ page[t] # "settings" => call[r].kind = page[t]

(* Only an answer makes a page succeed. *)
LEMMA OnlyReportSucceeds ==
  ASSUME TypeOK, [Next]_vars, NEW t \in Tabs, Succeeds(t)
  PROVE  \E r \in Requests : Report(r)
<1>1. CASE Expire \/ (\E u \in Users : SignInElsewhere(u)) \/ UNCHANGED vars
  BY <1>1 DEF Expire, SignInElsewhere, vars, tab, Succeeds
<1>2. ASSUME NEW s \in Tabs, NEW p, NEW calls, Mount(s, p, calls)
      PROVE  FALSE
  BY <1>2 DEF Mount, Succeeds, TypeOK
<1>3. ASSUME NEW s \in Tabs, NEW kind, NEW u, NEW pw, Send(kind, s, u, pw)
      PROVE  FALSE
  BY <1>3 DEF Send, Succeeds, TypeOK
<1>4. ASSUME NEW s \in Tabs, Leave(s) \/ Poll(s) \/ Logout(s)
      PROVE  FALSE
  BY <1>2, <1>4 DEF Leave, Open, Go, Poll, Logout
<1>5. ASSUME NEW s \in Tabs, Submit(s)
      PROVE  FALSE
  <2>1. CASE AskToConfirm(s) \/ CancelTransfer(s) \/ StartDemo(s)
    BY <2>1 DEF AskToConfirm, CancelTransfer, StartDemo, Succeeds, TypeOK
  <2> QED
    BY <1>3, <1>5, <2>1 DEF Submit, SubmitLogin, SubmitRegister, SaveProfile, SubmitTopup,
       ConfirmTransfer, RetryTransfer, SendTransfer, Refresh
<1>6. ASSUME NEW s \in Tabs, EndDemo(s)
      PROVE  FALSE
  BY <1>6 DEF EndDemo, Succeeds, TypeOK
<1>7. ASSUME NEW r \in Requests, Serve(r) \/ Disrupt(r) \/ LoadNext(r)
      PROVE  FALSE
  BY <1>7 DEF Serve, Disrupt, LoadNext, tab, Succeeds
<1>8. ASSUME NEW r \in Requests, SignIn(r)
      PROVE  FALSE
  <2>1. call[r].tab \in Tabs
    BY <1>8 DEF SignIn, TypeOK, Call
  <2> QED
    BY <1>2, <1>8, <2>1 DEF SignIn, tab, Succeeds
<1> QED
  BY <1>1, <1>4, <1>5, <1>6, <1>7, <1>8 DEF Next, Receive

LEMMA SuccessStep ==
  ASSUME IInv, [Next]_vars, NEW t \in Tabs, Succeeds(t)
  PROVE  Served(t)
<1>1. PICK r \in Requests : Report(r)
  BY OnlyReportSucceeds DEF IInv
<1>2. t = call[r].tab
  BY <1>1 DEF Report, Succeeds, IInv, TypeOK
<1>3. Live(r, t) /\ Outcome(call[r]) = "success"
  BY <1>1, <1>2 DEF Report, Live, Succeeds, IInv, TypeOK
<1>4. call[r].answer = "ok" /\ call[r].kind \in {"phone", "topup", "transfer"}
  BY <1>3 DEF Outcome
<1>5. Suits(call[r].kind, page[t]) /\ (call[r].kind = "phone" => call[r].user = held[t])
  BY <1>3 DEF IInv, TabInv, WaitsForItsOwn
<1> QED
  BY <1>3, <1>4, <1>5 DEF Served, Suits

(* A page reports success only for what the service has done for it, and    *)
(* the settings page only for the user it shows.                            *)
THEOREM SuccessHolds == Spec => SuccessIsDone
<1>1. IInv /\ [Next]_vars => [\A t \in Tabs : Succeeds(t) => Served(t)]_vars
  BY SuccessStep
<1>2. [\A t \in Tabs : Succeeds(t) => Served(t)]_vars
      => [\A t \in Tabs :
            /\ page[t] \in {"settings", "topup", "transfer"}
            /\ result[t] # "success" /\ result'[t] = "success"
            => \E r \in Requests :
                  /\ Live(r, t) /\ call[r].answer = "ok"
                  /\ page[t] = "settings" => call[r].kind = "phone" /\ call[r].user = held[t]
                  /\ page[t] # "settings" => call[r].kind = page[t]]_vars
  BY DEF Succeeds, Served
<1> QED
  BY <1>1, <1>2, Invariance, PTL DEF Spec, SuccessIsDone
=============================================================================
