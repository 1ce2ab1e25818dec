------------------------------- MODULE Browser -------------------------------
(***************************************************************************)
(* The web UI in a browser: tabs that share one stored session, the shell   *)
(* that guards the pages, and the pages with their requests.  A request     *)
(* goes through a route of Proxies to the transaction service, of which     *)
(* only what a sign-in depends on is kept: who has an account, and with     *)
(* which password.                                                          *)
(*                                                                          *)
(* A page shown by the router is mounted afresh, but within one document:   *)
(* leaving it does not cancel its requests, and the code that waits for     *)
(* them still runs.  Only loading a document anew ends it.                  *)
(***************************************************************************)
EXTENDS Proxies

CONSTANTS
    Tabs, Users, Nobody,
    Passwords,      \* each is the set of traits it has
    NoPassword,
    Requests, Idle, \* requests there may be at a time, and one that is not in use
    Bookmarks,      \* bound: the pages a user opens by their address
    Existing        \* users with an account at the start, and their passwords

Traits == {"long", "upper", "lower", "digit", "special"}

(* validatePassword of the page, and of the service, which accepts at its   *)
(* API what the page does not.                                              *)
PageAccepts(pw)    == {"long", "upper", "digit", "special"} \subseteq pw
ServiceAccepts(pw) == {"long", "upper", "lower", "digit"} \subseteq pw

Public  == {"login", "register"}
Guarded == {"home", "transfer", "topup", "settings", "transactions", "demo"}
Pages   == Public \cup Guarded

ASSUME BrowserAssumption ==
    /\ Nobody \notin Users
    /\ Passwords \subseteq SUBSET Traits
    /\ NoPassword \notin Passwords
    /\ Bookmarks \subseteq Pages
    /\ Existing \in [Users -> Passwords \cup {NoPassword}]
    /\ \A u \in Users : Existing[u] # NoPassword => ServiceAccepts(Existing[u])

VARIABLES
    store,       \* the session in localStorage: whose it is
    page,        \* the page each tab shows
    busy,        \* its isLoading
    result,      \* the outcome it shows
    held,        \* the user of the session it read when it was mounted
    confirming,  \* the dialog of the transfer page is open
    confirmed,   \* it has been confirmed since the page was mounted
    call,        \* requests in flight
    accounts,    \* service: the password of each user with an account
    signedIn     \* service: users a registration or login was granted for

tab     == <<page, busy, result, held, confirming, confirmed>>
service == <<accounts, signedIn>>
vars    == <<store, tab, call, service>>

SignIns == {"login", "register"}

(* user: in the body of a sign-in, or in the headers of anything else.      *)
(* hook: what waits for the answer is the page ("live"), a page the user    *)
(* has left ("left") or nothing, the document being gone.                   *)
Call == [kind : Kinds, tab : Tabs, user : Users \cup {Nobody},
         password : Passwords \cup {NoPassword},
         hook : {"live", "left", "gone"},
         answer : {"none", "ok", "refused", "lost"}]

ASSUME IdleAssumption == Idle \notin Call

Init ==
    /\ store = Nobody
    /\ page = [t \in Tabs |-> "closed"]
    /\ busy = [t \in Tabs |-> FALSE]
    /\ result = [t \in Tabs |-> "none"]
    /\ held = [t \in Tabs |-> Nobody]
    /\ confirming = [t \in Tabs |-> FALSE]
    /\ confirmed = [t \in Tabs |-> FALSE]
    /\ call = [r \in Requests |-> Idle]
    /\ accounts = Existing
    /\ signedIn = {}

-----------------------------------------------------------------------------
(* Pages come and go. *)

HasAccount(u) == u \in Users /\ accounts[u] # NoPassword

Live(r, t) == call[r] # Idle /\ call[r].tab = t /\ call[r].hook = "live"

NewCall(kind, t, u, pw) ==
    [kind |-> kind, tab |-> t, user |-> u, password |-> pw, hook |-> "live", answer |-> "none"]

Unused(calls) == {r \in Requests : calls[r] = Idle}
Slot(calls)   == CHOOSE r \in Unused(calls) : TRUE

(* Mutant: the status of the answer is not looked at. *)
SignInAnswered(c) == c.kind \in SignIns /\ c.answer # "none"

SignInGranted(c) == c.kind \in SignIns /\ c.answer = "ok"

(* What can still come of a request whose page is gone: the service has yet *)
(* to do its work, or the page's code will sign the user in.  All others    *)
(* are as good as over.                                                     *)
Kept(c) ==
    \/ c.answer = "none" /\ c.kind \in SignIns
    \/ SignInGranted(c) /\ c.hook = "left"

Abandon(c, hook) ==
    LET left == [c EXCEPT !.hook = hook] IN IF Kept(left) THEN left ELSE Idle

(* The requests, once t has left its page, or its document. *)
Left(t, calls) ==
    [q \in Requests |-> IF calls[q] # Idle /\ calls[q].tab = t /\ calls[q].hook = "live"
                        THEN Abandon(calls[q], "left") ELSE calls[q]]
Gone(t, calls) ==
    [q \in Requests |-> IF calls[q] # Idle /\ calls[q].tab = t
                        THEN Abandon(calls[q], "gone") ELSE calls[q]]

(* What a page asks for when it is mounted.  The profile the shell and the  *)
(* transfer page ask for is left out: they look for email and               *)
(* account_number at the top of an answer that has them inside user and     *)
(* account, and so make nothing of it.                                      *)
FirstRead == [home |-> "me", transactions |-> "list"]

(* t mounts p; calls are the requests that are left. *)
Mount(t, p, calls) ==
    /\ page' = [page EXCEPT ![t] = p]
    /\ busy' = [busy EXCEPT ![t] = (p \in DOMAIN FirstRead)]
    /\ result' = [result EXCEPT ![t] = "none"]
    /\ held' = [held EXCEPT ![t] = IF p \in {"topup", "settings"} THEN store' ELSE Nobody]
    /\ confirming' = [confirming EXCEPT ![t] = FALSE]
    /\ confirmed' = [confirmed EXCEPT ![t] = FALSE]
    /\ p \in DOMAIN FirstRead => Unused(calls) # {}
    /\ call' = IF p \in DOMAIN FirstRead
               THEN [calls EXCEPT ![Slot(calls)] = NewCall(FirstRead[p], t, store', NoPassword)]
               ELSE calls

(* The guard around a page, when it is mounted itself. *)
Admit(p) == IF p \in Guarded /\ store = Nobody THEN "login" ELSE p

(* A document is loaded: an address, a bookmark, a reload. *)
Open(t, p) ==
    /\ UNCHANGED store
    /\ Mount(t, Admit(p), Gone(t, call))
    /\ UNCHANGED service

(* A link, or back and forward.  The guard stays mounted between the pages  *)
(* it guards, and lets each of them in.                                     *)
Go(t, p) ==
    /\ page[t] \in Pages \ {p}
    /\ UNCHANGED store
    /\ Mount(t, IF page[t] \in Guarded THEN p ELSE Admit(p), Left(t, call))
    /\ UNCHANGED service

Leave(t) ==
    \/ \E p \in Bookmarks : Open(t, p)
    \/ \E p \in Pages : Go(t, p)

(* Mutant: the interval belongs to the dashboard. *)
PollAtHome(t) ==
    /\ page[t] = "home"
    /\ store = Nobody
    /\ UNCHANGED store
    /\ Mount(t, "login", Left(t, call))
    /\ UNCHANGED service

(* Every five seconds the guard looks for the session. *)
Poll(t) ==
    /\ page[t] \in Guarded
    /\ store = Nobody
    /\ UNCHANGED store
    /\ Mount(t, "login", Left(t, call))
    /\ UNCHANGED service

Logout(t) ==
    /\ page[t] \in Guarded
    /\ store' = Nobody
    /\ Mount(t, "login", Left(t, call))
    /\ UNCHANGED service

(* An hour after sign-in the stored session counts for nothing: whoever     *)
(* reads it finds none, and removes it.  Should another tab store a session *)
(* between the reading and the removal, that one goes.  A tab that is not   *)
(* followed here may log out, too.                                          *)
Expire ==
    /\ store # Nobody
    /\ store' = Nobody
    /\ UNCHANGED <<tab, call, service>>

(* In a tab that is not followed here a user signs in. *)
SignInElsewhere(u) ==
    /\ HasAccount(u)
    /\ store' = u
    /\ signedIn' = signedIn \cup {u}
    /\ UNCHANGED <<tab, call, accounts>>

-----------------------------------------------------------------------------
(* What the pages let a user do. *)

(* The page puts up its spinner and sends a request. *)
Send(kind, t, u, pw) ==
    /\ busy' = [busy EXCEPT ![t] = TRUE]
    /\ result' = [result EXCEPT ![t] = "none"]
    /\ Unused(call) # {}
    /\ call' = [call EXCEPT ![Slot(call)] = NewCall(kind, t, u, pw)]

(* Mutant: the button works while a login is under way. *)
LoginFormAlways(t) == page[t] = "login"

LoginForm(t) == page[t] = "login" /\ ~busy[t]

(* handleLogin, from the form or its Retry. *)
SubmitLogin(t, u, pw) ==
    /\ LoginForm(t)
    /\ Send("login", t, u, pw)
    /\ UNCHANGED <<store, page, held, confirming, confirmed, service>>

RegisterForm(t) == page[t] = "register" /\ ~busy[t]

SubmitRegister(t, u, pw) ==
    /\ RegisterForm(t)
    /\ PageAccepts(pw)
    /\ Send("register", t, u, pw)
    /\ UNCHANGED <<store, page, held, confirming, confirmed, service>>

SettingsForm(t) == page[t] = "settings" /\ ~busy[t]

(* Mutant: the headers are those of the session stored now. *)
SaveProfileAsStored(t) ==
    /\ SettingsForm(t)
    /\ held[t] # Nobody
    /\ Send("phone", t, store, NoPassword)
    /\ UNCHANGED <<store, page, held, confirming, confirmed, service>>

(* handleUpdateProfile acts for the user the page has read and shows. *)
SaveProfile(t) ==
    /\ SettingsForm(t)
    /\ held[t] # Nobody
    /\ Send("phone", t, held[t], NoPassword)
    /\ UNCHANGED <<store, page, held, confirming, confirmed, service>>

TopupForm(t) == page[t] = "topup" /\ held[t] # Nobody /\ ~busy[t]

(* handleTopup asks whether the page has read a session and acts for the    *)
(* one stored now.                                                          *)
SubmitTopup(t) ==
    /\ TopupForm(t)
    /\ Send("topup", t, store, NoPassword)
    /\ UNCHANGED <<store, page, held, confirming, confirmed, service>>

TransferForm(t) == page[t] = "transfer" /\ ~busy[t]

(* handleInitialSubmit opens the dialog.  What it checks first the form has *)
(* made sure of: the fields are required and the amount has a minimum.      *)
AskToConfirm(t) ==
    /\ TransferForm(t)
    /\ confirming' = [confirming EXCEPT ![t] = TRUE]
    /\ result' = [result EXCEPT ![t] = "none"]
    /\ UNCHANGED <<store, page, busy, held, confirmed, call, service>>

Dialog(t) == page[t] = "transfer" /\ confirming[t]

CancelTransfer(t) ==
    /\ Dialog(t)
    /\ confirming' = [confirming EXCEPT ![t] = FALSE]
    /\ UNCHANGED <<store, page, busy, result, held, confirmed, call, service>>

(* handleConfirmedSubmit: a new reference and the fields as they are now,   *)
(* for the user of the session stored now, if any.                          *)
SendTransfer(t) ==
    /\ confirming' = [confirming EXCEPT ![t] = FALSE]
    /\ Send("transfer", t, store, NoPassword)

ConfirmTransfer(t) ==
    /\ Dialog(t)
    /\ SendTransfer(t)
    /\ confirmed' = [confirmed EXCEPT ![t] = TRUE]
    /\ UNCHANGED <<store, page, held, service>>

(* Mutant: the outcome of a request is shown with a Retry while it runs. *)
RetryOfferedAlways(t) == page[t] = "transfer" /\ result[t] # "success" /\ ~confirming[t]

(* The Retry under the outcome of a transfer. *)
RetryOffered(t) ==
    /\ page[t] = "transfer"
    /\ result[t] \in {"rejected", "error"}
    /\ ~busy[t]

RetryTransfer(t) ==
    /\ RetryOffered(t)
    /\ SendTransfer(t)
    /\ UNCHANGED <<store, page, held, confirmed, service>>

(* The Refresh of the transactions page. *)
Refresh(t) ==
    /\ page[t] = "transactions"
    /\ ~busy[t]
    /\ Send("list", t, Nobody, NoPassword)
    /\ UNCHANGED <<store, page, held, confirming, confirmed, service>>

(* The demo page asks nobody for anything: it waits and reports success. *)
StartDemo(t) ==
    /\ page[t] = "demo"
    /\ ~busy[t]
    /\ busy' = [busy EXCEPT ![t] = TRUE]
    /\ result' = [result EXCEPT ![t] = "none"]
    /\ UNCHANGED <<store, page, held, confirming, confirmed, call, service>>

EndDemo(t) ==
    /\ page[t] = "demo"
    /\ busy[t]
    /\ busy' = [busy EXCEPT ![t] = FALSE]
    /\ result' = [result EXCEPT ![t] = "success"]
    /\ UNCHANGED <<store, page, held, confirming, confirmed, call, service>>

Submit(t) ==
    \/ \E u \in Users, pw \in Passwords : SubmitLogin(t, u, pw) \/ SubmitRegister(t, u, pw)
    \/ SaveProfile(t) \/ SubmitTopup(t)
    \/ AskToConfirm(t) \/ CancelTransfer(t) \/ ConfirmTransfer(t) \/ RetryTransfer(t)
    \/ Refresh(t) \/ StartDemo(t)

-----------------------------------------------------------------------------
(* A request is served. *)

Identity(c) ==
    CASE c.user = Nobody -> {}
      [] c.user # Nobody /\ c.kind \in {"me", "topup"} -> {UserEmail, UserID}
      [] c.user # Nobody /\ c.kind \in {"phone", "transfer"} -> {UserEmail}
      [] OTHER -> {}

Granted(c) ==
    /\ Admitted(c.kind, Identity(c))
    /\ CASE c.kind = "login" -> HasAccount(c.user) /\ accounts[c.user] = c.password
         [] c.kind = "register" -> ~HasAccount(c.user) /\ ServiceAccepts(c.password)
         [] c.kind = "list" -> TRUE
         [] OTHER -> HasAccount(c.user)

Answered(r, answer) ==
    LET c == [call[r] EXCEPT !.answer = answer, !.password = NoPassword] IN
    call' = [call EXCEPT ![r] = IF c.hook = "live" \/ Kept(c) THEN c ELSE Idle]

(* The service does what is asked, or refuses and does nothing. *)
Serve(r) ==
    /\ call[r] # Idle /\ call[r].answer = "none"
    /\ LET c == call[r] IN
       \/ /\ ~Granted(c)
          /\ Answered(r, "refused")
          /\ UNCHANGED service
       \/ /\ Granted(c)
          /\ Answered(r, "ok")
          /\ accounts' = IF c.kind = "register"
                         THEN [accounts EXCEPT ![c.user] = c.password] ELSE accounts
          /\ signedIn' = IF c.kind \in SignIns THEN signedIn \cup {c.user} ELSE signedIn
    /\ UNCHANGED <<store, tab>>

(* The service fails or is not reached, before or after it did its work, or *)
(* the browser does not reach the route: an error status, or no answer.     *)
Disrupt(r) ==
    /\ call[r] # Idle /\ call[r].answer \in {"none", "ok"}
    /\ Answered(r, "refused") \/ Answered(r, "lost")
    /\ UNCHANGED <<store, tab, service>>

-----------------------------------------------------------------------------
(* The answer reaches the browser. *)

Done(r) == [call EXCEPT ![r] = Idle]

(* setSession and router.push("/"), wherever the user is by now. *)
SignIn(r) ==
    /\ call[r] # Idle /\ SignInGranted(call[r])
    /\ store' = call[r].user
    /\ LET t == call[r].tab IN
       \/ page[t] = "home" /\ call' = Done(r) /\ UNCHANGED tab
       \/ page[t] # "home" /\ Mount(t, "home", Left(t, Done(r)))
    /\ UNCHANGED service

(* The dashboard has the profile and asks for the latest transactions. *)
LoadNext(r) ==
    /\ call[r] # Idle /\ call[r].hook = "live"
    /\ call[r].kind = "me" /\ call[r].answer = "ok"
    /\ call' = [call EXCEPT ![r] = NewCall("list", call[r].tab, Nobody, NoPassword)]
    /\ UNCHANGED <<store, tab, service>>

(* Mutant: the page shows the answer as it is. *)
RawOutcome(c) == c.answer

(* What the page makes of an answer.  The dashboard does without the        *)
(* transactions when they are refused.                                      *)
Outcome(c) ==
    CASE c.answer = "ok" /\ c.kind \in {"phone", "topup", "transfer"} -> "success"
      [] c.answer = "ok" /\ c.kind = "list" -> "none"
      [] c.answer = "refused" /\ c.kind = "transfer" -> "rejected"
      [] c.answer = "refused" /\ c.kind = "list" /\ page[c.tab] = "home" -> "none"
      [] OTHER -> "error"

Reported(c) == c.answer # "none" /\ ~SignInGranted(c) /\ ~(c.kind = "me" /\ c.answer = "ok")

(* Mutant: no finally, the spinner is taken down where the status was read. *)
ReportUnlessLost(r) ==
    /\ call[r] # Idle /\ call[r].hook = "live" /\ Reported(call[r])
    /\ busy' = [busy EXCEPT ![call[r].tab] = (call[r].answer = "lost")]
    /\ result' = [result EXCEPT ![call[r].tab] = Outcome(call[r])]
    /\ call' = Done(r)
    /\ UNCHANGED <<store, page, held, confirming, confirmed, service>>

(* The outcome is shown and the spinner taken down. *)
Report(r) ==
    /\ call[r] # Idle /\ call[r].hook = "live" /\ Reported(call[r])
    /\ busy' = [busy EXCEPT ![call[r].tab] = FALSE]
    /\ result' = [result EXCEPT ![call[r].tab] = Outcome(call[r])]
    /\ call' = Done(r)
    /\ UNCHANGED <<store, page, held, confirming, confirmed, service>>

Receive(r) == SignIn(r) \/ LoadNext(r) \/ Report(r)

-----------------------------------------------------------------------------
Next ==
    \/ Expire
    \/ \E u \in Users : SignInElsewhere(u)
    \/ \E t \in Tabs : Leave(t) \/ Poll(t) \/ Logout(t) \/ Submit(t) \/ EndDemo(t)
    \/ \E r \in Requests : Serve(r) \/ Disrupt(r) \/ Receive(r)

Spec == Init /\ [][Next]_vars

(* Intervals and timers fire, requests end one way or another and what      *)
(* waits for them runs.  Users owe nothing.                                 *)
Fairness ==
    /\ \A t \in Tabs : WF_vars(Poll(t)) /\ WF_vars(EndDemo(t))
    /\ \A r \in Requests : WF_vars(Serve(r)) /\ WF_vars(Receive(r))

FairSpec == Spec /\ Fairness

-----------------------------------------------------------------------------
TypeOK ==
    /\ store \in Users \cup {Nobody}
    /\ page \in [Tabs -> Pages \cup {"closed"}]
    /\ busy \in [Tabs -> BOOLEAN]
    /\ result \in [Tabs -> {"none", "success", "rejected", "error"}]
    /\ held \in [Tabs -> Users \cup {Nobody}]
    /\ confirming \in [Tabs -> BOOLEAN]
    /\ confirmed \in [Tabs -> BOOLEAN]
    /\ call \in [Requests -> Call \cup {Idle}]
    /\ accounts \in [Users -> Passwords \cup {NoPassword}]
    /\ signedIn \subseteq Users

(* A page spins exactly while a request of its own is under way (the demo   *)
(* page: while its timer runs), and there is never a second one: no Retry,  *)
(* dialog or form of a page can be used twice for one outcome, and no       *)
(* spinner stays.                                                           *)
SpinnersWait ==
    /\ \A t \in Tabs : page[t] # "demo" => (busy[t] <=> \E r \in Requests : Live(r, t))
    /\ \A t \in Tabs, q, r \in Requests : Live(q, t) /\ Live(r, t) => q = r

(* No transfer leaves a page on which nobody has confirmed one since it was *)
(* opened, retries included.                                                *)
TransfersWereConfirmed ==
    \A t \in Tabs, r \in Requests :
        Live(r, t) /\ call[r].kind = "transfer" => confirmed[t]

(* A page reports success only when the service has done what this page     *)
(* asked for, not an earlier one; and "Profile updated successfully" is     *)
(* about the user whose address the page shows, whoever has signed in       *)
(* elsewhere in the meantime.                                               *)
SuccessIsDone ==
    [][\A t \in Tabs :
          /\ page[t] \in {"settings", "topup", "transfer"}
          /\ result[t] # "success" /\ result'[t] = "success"
          => \E r \in Requests :
                /\ Live(r, t) /\ call[r].answer = "ok"
                /\ page[t] = "settings" => call[r].kind = "phone" /\ call[r].user = held[t]
                /\ page[t] # "settings" => call[r].kind = page[t]]_vars

(* The stored session is that of a user whom the service has let in,        *)
(* however late and in whatever order the answers arrive.                   *)
SessionsAreEarned == store # Nobody => store \in signedIn

(* When the session has ended and nobody signs in again, every tab comes to *)
(* show a public page, whatever it was doing.                               *)
GuardedPagesClose ==
    \A t \in Tabs : store = Nobody ~> (store # Nobody \/ page[t] \notin Guarded)

(* A spinner ends, whatever becomes of the request, unless the user goes to *)
(* a page that spins from the start, and may then load that page for ever.  *)
SpinnersEnd ==
    \A t \in Tabs :
        busy[t] /\ page[t] \notin DOMAIN FirstRead
            ~> ~busy[t] \/ page[t] \in DOMAIN FirstRead

(* A request that acts for a user is sent while that user is signed in. *)
RequestsActForTheSession ==
    [][\A r \in Requests :
          /\ call[r] = Idle /\ call'[r] # Idle
          /\ call'[r].kind \in {"phone", "topup", "transfer"}
          /\ call'[r].user # Nobody
          => call'[r].user = store]_vars
=============================================================================
