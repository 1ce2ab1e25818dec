# BigBank in TLA+

A specification of BigBank, the money-transfer demonstration in this repository:
TLA+ modules for the parts that hold state, TLC configurations that check them on
small instances, and TLAPS proofs of what must hold for every instance. Paths
below are relative to the repository's root; the modules are in this directory.

Contents: [the system](#the-system), [what is hard](#what-is-hard-about-it),
[modules](#the-modules), [runs](#the-runs), [fairness](#fairness),
[proofs](#the-proofs), [findings](#findings), [what is not
modelled](#what-is-not-modelled), [plan](#plan).

## The system

A transfer passes through three services and one PostgreSQL database:

    browser ── Next.js UI ──► transaction-service (Go) ──► fraud-service (Rust)
                                    │      │
                                    │      └─────────────► ledger (Kotlin, ls_springboot)
                                    ▼                            ▼
                        users, idempotency_keys   accounts, ledger_transactions,
                        (and reads accounts)      journal_entries

| component | state it keeps | operations | promises |
|---|---|---|---|
| **Ledger posting** `ls_springboot/.../LedgerCommandService.kt`, `LedgerPostingExecutor.kt` | rows of `accounts`, `ledger_transactions`, `journal_entries`; a pool of connections | `POST /ledger/transfer`: an outer transaction looks the reference up, a `REQUIRES_NEW` inner one posts; a failure of the inner one is resolved in the outer one | one posting per reference; all of a posting or nothing; answers that agree with the books; no negative balance |
| **Ledger events** `event/*.kt` | the queue of the async executor | `AFTER_COMMIT` publication, one asynchronous side effect per posting | only for committed postings, once each, none forgotten while the process lives |
| **Ledger queries** `LedgerQueryService.kt` | – | `GET /ledger/transactions` | pages within bounds |
| **Transfer and top-up handlers** `handler/http.go`, `service/transfer_service.go` | where each handler is; the reference it has drawn | `POST /transfer`, `POST /topup`: reserve the key, decode, ask the fraud service, call the ledger, record how it ended | money moves at most once per key; nothing before the key and the fraud decision |
| **Idempotency keys** `repository/idempotency_repository.go` | `idempotency_keys.status` | `Start`, `Complete`, `Fail` | a settled key stays settled; completed means decided |
| **HTTP client** `client/http.go` | the attempt in flight | retries after network errors, timeouts and 5xx, `HTTP_RETRY_COUNT` attempts in all | every call ends |
| **Process lifecycle** `cmd/main.go` | listening or shutting down | start, SIGTERM, `Shutdown`, exit | (says) active requests are finished |
| **Fraud service** `fraud-service/src/main.rs` | – | `POST /fraud/check` | rejects amounts above its limit |
| **User accounts** `handler/auth.go`, `repository/user_repository.go` | rows of `users` and `accounts` | register, login, me, change phone, password, e-mail | a user has one account; addresses and numbers are unique; changes are not undone by other changes |
| **Sessions** `SessionManager` in `handler/auth.go` | an in-memory map | create, validate, refresh, delete | an ended session stays ended |
| **Migrations** `migrations/*.sql`, `scripts/run-migrations.sh` | the schema | run every file in order | the schema the other parts rely on |
| **UI, pages** `ui/app/**/page.tsx`, `ui/app/AppShell.tsx`, `ui/lib/session.ts` | one session in `localStorage`, shared by all tabs; per page a spinner, a result, a dialog; requests in flight | sign in and out, the guard and its five-second check, the forms with their retries | nobody is signed in whom the service did not let in; one request per page at a time; success means done; guarded pages close |
| **UI, routes** `ui/app/api/**/route.ts` | – | relay a page's request to the transaction service, with the headers they name | what the service answers reaches the page |

How they interact:

* A **transfer** reserves its `Idempotency-Key` (one INSERT, decided by the
  table's unique index), decodes and validates, asks the fraud service, then calls
  the ledger. Success and a fraud rejection complete the key, every other ending
  after validation fails it.
* A **top-up** does the same without the fraud service, from the account
  `EXTERNAL` to the caller's own account, under a reference it draws itself, once
  per request.
* The **ledger** knows nothing of keys: between the two services the only defence
  against a repeated call is the *reference*. The transaction service sends the
  same reference again on every retry, and an attempt it has given up on may still
  be running in the ledger, or arrive there later.
* `/transfer` and `/topup` sit behind the **session** check, which validates a
  session under one lock and refreshes it under another.
* The **UI's session** is not the service's: a sign-in stores the user's id and
  address in the browser for an hour and drops the `session_id` the service hands
  out. Pages identify their user by `X-User-Email` and `X-User-ID`; the routes pass
  on some of these headers and nothing else.

## What is hard about it

`PROJECT.json` lists each hazard with the line where it bites and the properties
aimed at it. In short:

* **Interleavings of database transactions** at READ COMMITTED: balances read
  without a lock and written back as absolute values; a reference looked up in one
  transaction and a balance read in another; row locks taken in the order of
  debit and credit; an INSERT that waits for somebody else's.
* **Two connections per request** from one pool: as many requests as the pool has
  connections can starve each other.
* **Retries racing what they retry**, by the client (a new HTTP request) and by
  the service (a new attempt), with late answers and late effects.
* **Ends in the middle**: a crash or SIGTERM between the ledger's answer and the
  key's update, a COMMIT whose acknowledgement is lost, events in a memory queue.
* **Whole rows read, changed and written back** by handlers that run at once.
* **A browser in which nothing waits**: answers come after the user has left the
  page, signed in elsewhere or out; tabs share the stored session, and some pages
  act for the one they read when they were opened.

## The modules

| module | what it is |
|---|---|
| `LedgerPromise` | abstract: what the ledger promises its callers. A reference is posted at most once, in one step, and every answer is one the books justify |
| `Ledger` | the Kotlin ledger: threads, two transactions each, the pool, locks, faults. Implements `LedgerPromise` |
| `TransferService` | the Go handlers, keys and HTTP client, composed with `LedgerPromise` as the ledger they talk to |
| `Bank` | `TransferService` and `Ledger` in one specification: the service with the real ledger in the place of the promise |
| `UserAccounts` | registration, login, profile changes and sessions of the Go service |
| `Proxies` | the routes of the UI and what the service demands of a request's headers; no state |
| `Browser` | tabs, pages, the stored session and the requests of the UI, on top of `Proxies` |
| `LedgerProofs`, `LedgerBooksProofs`, `TransferServiceProofs`, `BankProofs`, `UserAccountsProofs`, `BrowserProofs` | the theorems and their proofs |
| `SumTheorems` | what the proofs need to know of sums over finite sets |
| `MCLedger`, `MCTransferService`, `MCBank`, `MCUserAccounts`, `MCBrowser` | small instances for TLC |

The two halves of a transfer meet in `LedgerPromise`: `Ledger` is shown to
implement it (checked by TLC and proved), and `TransferService` uses only it
(`Ledger == INSTANCE LedgerPromise WITH ...`, one request of the ledger per
attempt of a submission). What is shown of `TransferService` therefore does not
depend on how the ledger works inside. That the halves fit is not left to this
paragraph: `Bank` puts them together, and `BankIsService` proves it a
`TransferService`.

### Ledger

`pc[r]` is where the thread serving request `r` is; everything a transaction has
done but not committed is read off it.

| pc | code | next |
|---|---|---|
| `open` | `transfer` is called, `@Transactional` waits for a connection | `BeginOuter` (then normalize and validate: `lookup` or 400), `ConnectionTimeout` |
| `lookup` | `findByReference`, accounts looked up (`LedgerCommandService.kt:30-43`) | `Lookup`: duplicate, 409, 404, or `begin` |
| `begin` | `postNewTransfer` waits for the second connection | `BeginInner`, `ConnectionTimeout` |
| `readFrom`, `readTo` | the two `findByAccountNumber`, then the funds check (`LedgerPostingExecutor.kt:32-49`) | `ReadFrom`, `ReadTo` |
| `insert` | `saveAndFlush` of the transaction row | `Insert`: waits for an uncommitted row with this reference, fails on a committed one; `InsertTooLong`: the row does not fit its columns |
| `post` | hook, journal rows and balances put in the session | `Post`, `HookThrows` |
| `debit`, `credit` | flush at commit: the two UPDATEs, in that order, each under its row lock | `Debit`, `Commit`, `CommitUnacknowledged`, `DeadlockAbort` |
| `violated`, `resolve` | `resolvePersistenceConflict` in the outer transaction, after a violated constraint or after any other failure of the database | `Resolve`: as the row with this reference says; without one 409 or 500 |
| `finish` | the outer commit and the 201 | `Finish` |

`InnerFails`, `OuterFails` and `Crash` are the database or the JVM failing at any
of these points. `seen[r]` keeps the balances the inner transaction has read, and
`Apply` writes what was computed from them, which is what the code does.

There are two 409s, and callers cannot tell them apart by their status.
`toIdempotentResponse` gives one when the reference belongs to a different transfer
(`conflict`). The other (`violation`) is `GlobalExceptionHandler.kt:45-52`'s: a
`DataIntegrityViolationException` for which no row with the reference is found, which
`resolvePersistenceConflict` throws again. It is within reach because nothing limits
the `X-Correlation-Id` that `CorrelationIdFilter.kt:22` takes from the request
(`handler/http.go:456-460` passes any on) while the column has 128 characters
(`LedgerTransaction.kt:51`). The header is not in the state: `InsertTooLong` is a choice
each request has once, since none comes to `insert` twice. In `Bank` this allows
attempts of one submission to choose differently, which they cannot, carrying one id:
more behaviours than the code has, never fewer. Only the
source row's lock needs to be in the state: the destination's is taken and
released within the step that commits. `HandleEvent` is the async executor.

### TransferService

`Reserve` is `IdempotencyRepository.Start`; `Decode` is the decoding and the
validation that follows it, with the account lookup of a top-up; `FraudCheck` the
fraud service and whatever retries that takes (it keeps no state, so they are one
step); `LedgerAnswers` and `CallFails` are one turn of the loop in `postJSON`;
`Complete` and `MarkFailed` the end. Each statement that reaches the database has a
failing twin (`ReserveFails`, `LookupFails`, `CompleteFails`, `MarkFailedFails`),
before or after it took effect where that can be told apart. `Deliver` is the
network: any attempt that was launched may reach the ledger at any later time,
whatever its caller believes; `LedgerServes` and `LedgerCrashes` are what the
promise lets the ledger do. `Sigterm` and `Exit` are `main.go:134-150`.

Two early answers leave the key `in_progress`, as the code does: a body that does
not decode and a top-up whose amount is out of range. `KeysLeftOpen` says that nothing
else does as long as nothing fails, and that such a key was never used.

What the ledger refuses is `Relayed`: the handler keeps its status and nothing more.
`client/ledger.go:38` replaces the message, so callers see "Ledger service request
failed" whatever the reason, and the two 409s look alike. Where a property names
`insufficient` or `violation`, it is about what the ledger said, not about the text.

### Bank

`Bank` extends `Ledger` and instantiates `TransferService` as `Service`. A request of
the ledger is an attempt `<<s, n>>`, and its body (`call`) what `LedgerClient.Transfer`
makes of submission `s`. `transactions` and `answer` are shared; everything else is
`front` (the service's) or `back` (the ledger's), and each step moves one of the two.
`Arrive` is where they touch: an attempt that was launched is received by a thread of
the ledger. `Service!Deliver`, `LedgerServes` and `LedgerCrashes` are not steps of
`Bank`: the ledger's own steps take their place, and `ImplementsService` says that
they are no more than that. The two processes fail independently, `MaxFaults` times
in the ledger and `MaxFailures` times in the service and its database.

### UserAccounts

A worker is a goroutine serving one request after another. `Insert` and `Commit`
are the transaction of `UserRepository.Create`; the row it has inserted is in
`pending` and holds its entries of the unique indexes until the transaction ends.
`Find`, `Read`, `Check` and `Write` are the separate statements of the profile
handlers; `copy` is the row a handler has read and `Write` stores all of it with
one column changed. `Validate`, `Refresh` and `Forget` are critical sections of
the session manager. Age is a choice: `Validate` may refuse any session. What is
answered is left out, so `Answer` only frees the worker.

### Proxies and Browser

`Proxies` has a record for each route: the headers of which it *asks* for one,
answering 401 without, and those it *passes* on. `Demands` are the headers the
handlers look for before they do anything. `Admitted` puts the two together.

A tab's `page` is what the router shows. `Open` loads a document, which ends the
code of the one before; `Go` mounts another page in the same document, which
cancels nothing: the request of a page that was left is still answered, and a
sign-in among them still signs the user in (`SignIn`) and moves the tab to the
dashboard. `call` are the requests; a request's `hook` says whether its page is
`live`, was `left`, or is `gone` with its document. Requests whose answers nobody
can act on any more are dropped (`Kept`).

| code | action |
|---|---|
| `AuthGuard` on mount, its interval | `Admit` in `Open` and `Go`; `Poll` |
| `handleLogout`; the hour of a session, other tabs | `Logout`; `Expire`, `SignInElsewhere` |
| `handleLogin`, `handleRegister` up to `fetch`; after it | `SubmitLogin`, `SubmitRegister`; `SignIn`, `Report` |
| `handleUpdateProfile`, `handleTopup`, `fetchTransactions` | `SaveProfile`, `SubmitTopup`, `Refresh`; `Report` |
| `handleInitialSubmit`, the dialog, `handleConfirmedSubmit`, Retry | `AskToConfirm`, `CancelTransfer`, `ConfirmTransfer`, `RetryTransfer`; `Report` |
| `loadProfile` of the dashboard | `Mount`, `LoadNext`, `Report` |
| `handleSeedAccounts`, `handleResetData` | `StartDemo`, `EndDemo` |
| route and handler; a failure or silence of either | `Serve`; `Disrupt` |

`held` is the session a page read on mount (settings, top-up), `store` the one in
`localStorage` now. The settings page sends the former, the transfer and top-up
pages the latter. Of the service only who has an account, with which password, and
whom it let in is kept. Passwords are sets of traits, which is all the two rules
look at; an account may have been registered at the service's API, whose rule alone its
password then passes. Navigation by `router.push` takes effect in the step that calls it.

## The runs

| run | what it shows | distinct states |
|---|---|---|
| `ledger_safety` | three calls over six bodies, rows that do not fit, one fault: type, one posting per reference, justified answers, no negative balance, events after commits, balances within what has flowed, and that the ledger implements `LedgerPromise` | 548 179 |
| `ledger_live` | opposite transfers, no fault: every call is answered although lock cycles happen, every posting's side effect runs, a late retry is told `duplicate`, and a balance drifts only after two overlapping reads of it | 60 978 |
| `ledger_starved` | three calls on three connections: calls that starve for their second one time out and are answered | 82 323 |
| `ledger_drift` | violation: overlapping postings lose an update of a balance | |
| `transfer_safety` | two submissions over eight bodies, late attempts, a ledger that may end, one fault or SIGTERM: money at most once per key, fraud and key first, completed means decided, settled keys stay, only unusable bodies leave a key open | 2 326 751 |
| `transfer_shutdown` | violation: the process ends in the middle of a request | |
| `bank` | the service on the real ledger, two submissions of a transfer or a top-up under one key, one failure on either side: the service sees no more than the promise allows, one debit per key, success is in the journal; every handler answers and keys settle whatever becomes of the ledger | 258 368 |
| `bank_refused` | violation: refused for want of funds, yet posted by an earlier attempt; nothing has failed | |
| `users_safety` | two workers, nine kinds of requests, one fault: one account each, unique profiles, ended sessions stay ended, every request is answered | 134 882 |
| `users_columns` | violation: a change of phone number undoes a change of password | |
| `browser_safety` | one tab on every page, other tabs that sign in and out, two requests with late, refused or no answers: spinners, dialogs, successes and sessions are what they say, guarded pages close, spinners end | 72 710 |
| `browser_stale` | violation: a profile change is sent after the session has ended | |

### Bounds, and why they are enough

* **Three ledger calls** (`r1`–`r3`): a retry, a rival for the same funds and a
  transfer in the opposite direction at once; the shortest interference between
  postings takes two, and the third shows what an observer or a retry sees. Six
  bodies over two accounts (`MCLedger`): the whole of A's balance, the same
  reference with another amount, B back to A, a rival spending the same funds, an
  amount of zero, an unknown account.
* **`PoolSize`** 4 is the smallest pool in which two inner transactions overlap (each
  needs its outer one's connection as well), which is all that balances can disagree
  over. The repository sets no size, so HikariCP's default of 10 holds; 4 connections for
  3 calls, and 3 for 3 in `ledger_starved`, stand for 10 for many. `ledger_starved`
  asks about starvation only: with 3 connections no two postings overlap, so nothing
  about balances could be learned from it. No theorem restricts the pool.
* **Two submissions, two attempts, two keys**: one key shared or two, a reference of
  the client shared by both or drawn anew by a top-up, an attempt that is overtaken by
  the next. Every property quantifies over at most two postings of at most two
  submissions. The ledger refuses bodies only for want of funds or as invalid, which the
  promise allows for any body; the handlers treat every refusal alike.
* **`bank`** has one key and two bodies, a transfer of all that A has and a top-up of
  A: of the four attempts in the ledger each pair may overlap (`PoolSize` 4), starve
  others, take A's and B's rows, or spend what another needs.
* **Two workers, two users, two sessions**: every property of `UserAccounts` and
  every critical section relates at most two handlers. The model refuses a login
  for which no session id is left (`RoomForLogin`); nothing else depends on it.
* **One followed tab, two requests, two users** (`MCBrowser`): the tab's own
  request and one it has left behind, or a dashboard's with a late sign-in. Other
  tabs act on the shared session only, by `SignInElsewhere` and `Expire`, which are
  always possible. `Bookmarks` bounds the pages opened by their address to one of
  each kind (one that reads on mount, one that does not); links lead everywhere.
  Three passwords: one with every trait, one that only the page accepts, one that
  only the service accepts. `u1` has an account with the last, `u2` may register. The proofs
  cover any number of each.
* **`MaxFaults`** bounds injected failures, crashes and SIGTERMs together; 1 puts
  one at every point of every interleaving. Network delays, loss, timeouts and
  aborted attempts are *not* faults in this sense: they are unbounded. The proofs
  hold for every bound.
* Amounts are small numbers (cents); nothing depends on their size but the
  comparisons with balances and limits.
* Requests and submissions are interchangeable, so safety runs use symmetry; runs
  with liveness properties do not.

Every property has a mutant in the module it belongs to, just before the
definition it changes (marked `Mutant:`): a plausible bug of the code under which
the property fails in its own run.

## Fairness

* `Ledger`: serving threads, the pool's timer and PostgreSQL's deadlock detector
  go on (`WF(Serve(r))`), and the async executor drains its queue
  (`WF(HandleEvent(r))`). A step that waits (for a lock, a unique-index entry, a
  connection) is not enabled while it waits, so weak fairness does not assume it
  gets its turn. Clients, faults and crashes owe nothing.
* `TransferService`: goroutines go on, and the client's timer ends every call
  (`WF(Handle(s))`, which includes `CallFails`); once shutting down, the process
  ends (`WF(Exit)`). The network and the ledger owe nothing: handlers must answer
  although nobody answers them.
* `Bank`: that of `TransferService` (`Service!Fairness`) and nothing more. Its ledger may
  starve, crash or never get a request.
* `UserAccounts`: goroutines and the database go on (`WF(Step(w))`).
* `Browser`: intervals and timers fire (`WF(Poll(t))`, `WF(EndDemo(t))`), every
  request ends, be it in an error, and the code that awaits it runs
  (`WF(Serve(r))`, `WF(Receive(r))`). Users owe nothing: they may sign in elsewhere
  again and again, or reload a page that reads on mount before it is done, and
  `GuardedPagesClose` and `SpinnersEnd` make exactly these exceptions.

## The proofs

The only assumptions are those on the constants, named in the module that declares
them (`LedgerAssumption`, `TransferAssumption`, `BankAssumption`, `UserAssumption`, `BrowserAssumption`,
`IdleAssumption`) and evaluated by
TLC in every run. They say that the constants are of their kinds, that sets whose
cardinality is used are finite, and that account names without a row exist as
well.

**`LedgerProofs`.** None of the safety properties is inductive: that a reference
is posted once needs to know what an uncommitted insert excludes, that an answer
is justified needs to know which requests can still commit. `IInv` adds what each
pc entails: past validation a command is valid (`CommandsChecked`), past the funds
check what was *read* covers the amount (`FundsChecked`: this is why a balance
written from a stale read still is not negative), past the insert the reference is
free of committed and of other uncommitted rows (`ReferenceReserved`), a committed
row belongs to a request that committed and was not refused (`RowsOwned`), and
callers know what the pc says (`AnswersFollowControl`). `Refinement` maps the
ledger's `call`, `transactions` and `answer` to those of `LedgerPromise` by name:
`Commit` is `Post`, whatever responds is `Reply`, `Crash` is `Lose`, the rest
stutters.

`LateRetryIsDuplicate` is about whole behaviours (once a request has arrived late,
its answer is one of a few for ever). Its proof is an invariant of the request in
hand: `RetryInHand(r)` holds when it arrives, every step keeps it (`RetryStays`: the
row with its reference is there and stays, so `Lookup` can only answer from it), and
it implies what is promised.

**`LedgerBooksProofs`.** What lost updates can do and what it takes for one, for any
pool. A step of the ledger is a posting or leaves the books alone (`PostingOrReading`),
and a posting adds one debit and one credit that the journal did not have
(`JournalOwned`), so each side of each account's sum grows by what was posted
(`TotalGrows`). `WithinFlows`: a balance that was within the account's flows when it was
read still is when it is used, as the bounds only widen (`ReadsWithinFlows`), and
writing it moved by the amount keeps it within bounds that move by as much. The
invariant has to speak of what was *read*, like `FundsChecked` of the other proof.
`OnlyOverlapsDrift` is about one account at a time: as long as no two requests have its
balance in hand, the one that has holds the present one (`ReadsCurrent`), so a posting
writes what the journal adds up to (`PostingInStep`). `ledger_drift` shows that the
condition is needed, and that the code does not see to it.

**`SumTheorems`.** `SumFunctionOnSet` of the community modules is a recursive function
over subsets, with a CHOOSE of the next element. That it is defined at all, and that
any element may be taken out first (`SumTakes`), is an induction over finite sets; the
library's induction theorems cannot be instantiated here, but a least counterexample
can be: the sets for which the claim fails have a smallest one (`WFMin` on the subset
order), which is not empty and loses an element to a smaller one.

**`TransferServiceProofs`.** `KeysHeld` is what the unique index gives: whoever
has passed `Reserve` is alone with its key, for good. `ChecksFirst` says which
checks precede the first attempt, `BooksFollowAttempts` that the ledger has only
what was launched. Two postings under one key are then of one submission, all
attempts of a submission carry one payload (`SamePayload`), and the promise posts
a reference once: `OneMovePerKey`. `SettledKeys` needs that a key is `in_progress`
whenever a handler holding it still runs. `OpenKeys` needs more, under the condition that
nothing has failed: each reserved key has one owner, and one that is `in_progress` has an
owner that is still being served or has left it open (`KeysOwned`).

**`BankProofs`.** Every step of the bank is a step of its ledger or leaves that alone
(`BankHasLedger`), so the ledger's `IInv` holds in it. With that, each step of the
ledger is one of the promise (`NextRefines`), and the promise's step, with the service
standing still, is one of `TransferService` (`StepOfService`): an arrival is a
`Deliver`, a commit or an answer a `LedgerServes`, the end of the JVM a
`LedgerCrashes`. The one thing the promise allows and the bank must not do is to send a
request of its own accord; `OnlyArrivalsPend` rules it out. So `BankSpec` implies
`TransferService`'s specification (`BankIsService`), and what
`TransferServiceProofs` proves holds in the bank (`Client` is its instance, `SameSpec`
says that the two instances of the specification are one). The end-to-end theorems
join both halves: `OneDebitPerKey` takes from the service that the rows under one key
are one row and from the ledger that a row has one debit (`BooksAreDouble`),
`SuccessInJournal` that success implies a row and a row both entries.

**`UserAccountsProofs`.** `Handlers` ties each pc to the kind of request and to
the user it acts for, `Reservations` says that open registrations keep out of each
other's and of the committed rows' way; from these, one account each and unique
profiles are preserved by every statement.

**`BrowserProofs`.** A page's spinner, its request and its dialog are tied together
tab by tab (`TabInv`): a spinning page has exactly one live request, of a kind the
page can send, and a live transfer is one of a page on which one was confirmed.
`SignInsCarry` ties requests to the service: a granted sign-in is that of a user the
service has let in.
Steps are handled by what they do to tabs and requests (`Mounted`, `Sent`,
`TabKept`), so that each action is an instance of one of them. `MoneyRoutesAreShut`
is about `Proxies` alone: for every set of headers a page could send.

Proved for every value of the constants: the type invariants, all safety
invariants and safety action properties of the passing runs, `LateRetryIsDuplicate`,
`DriftNeedsOverlap`, and both refinements (`ImplementsPromise`, `ImplementsService`).
Only model-checked: the liveness properties (`EveryRequestAnswered`,
`EveryPostingHandled`, `EveryHandlerAnswers`, `KeysSettle`, `GuardedPagesClose`,
`SpinnersEnd`), which are out of the provers' reach.

## Findings

Each is a run that TLC ends with a counterexample; `PROJECT.json` quotes both sides.

1. **Balances drift** (`ledger_drift`). Two postings that overlap and share an
   account: the later one writes a balance computed before the earlier one
   committed. The row locks at commit order the writes but do not make the second
   read again.
2. **Refused and posted** (`bank_refused`). The service's own retry overtakes
   its first attempt: its reference is looked up before the first attempt commits,
   its balance read after. The ledger refuses it, the caller gets a 400 ("Ledger service
   request failed"), the key is failed, and the money has moved.
3. **Shutdown does not wait** (`transfer_shutdown`). `main` returns when
   `ListenAndServe` does, which is as soon as `Shutdown` closes the listener.
4. **A profile change undoes another** (`users_columns`). A change of phone number
   writes back the password hash it read.
5. **A change for a user who has gone** (`browser_stale`). The settings page acts
   for the session it read when it was opened: after a sign-out, or a sign-in as
   somebody else, in another tab, a change of phone number is still sent for the
   first user, and the service, which asks for the header only, carries it out.
   What the page then reports is at least true of the user it shows
   (`SuccessIsDone`).

Disagreements between code and documents met on the way for which no run was
written, because reading both sides settles them:

* A 409 of the ledger reads as "the reference is taken", but
  `GlobalExceptionHandler.kt:45-52` gives one for any violated constraint. With an
  `X-Correlation-Id` of more than 128 characters a transfer whose reference nobody has
  used is answered 409 and its key is failed.
* `README.md:44` promises a retry of the same request its existing transaction;
  with the same `Idempotency-Key` the service answers 409 (`handler/http.go:211-219`).
* `report/PHASE_7_COMPLETE.md:231` has UNIQUE on (user, key);
  `migrations/006_add_idempotency_keys.sql` has it on the key alone.
* `report/PHASE_4_COMPLETE.md:204-205` puts validation before the key; the code
  reserves the key first.
* The 409 `USER_EXISTS` of `handler/auth.go:202` is unreachable: `Create` returns
  another error for a taken address, which becomes a 500. An empty phone number
  counts as a number, so a second registration without one fails.
* The UI sends neither a session id nor an `Idempotency-Key`
  (`ui/app/api/transfer/route.ts:13-20`), which `/transfer` and `/topup` require
  (`handler/http.go:510-522`, `handler/http.go:201-209`): what it sends is answered 401
  before any of the behaviour modelled here. `TransferService` takes requests that
  carry both; `MoneyRoutesAreShut` proves that no page can send one, nor change a
  password (`ui/app/api/auth/password/route.ts` passes no session id). Of the
  successes `SuccessIsDone` is about, only those of the settings page can happen
  today.
* The dashboard and the transfer page look for `account_number` and `balance` at the
  top of the profile (`ui/app/page.tsx:55-59`, `ui/app/transfer/page.tsx:38`); the
  service nests them in `account` (`handler/auth.go:415-426`). The dashboard shows
  "n/a" and "$0.00", and transfers start from the default `ACC-001`. The shell looks
  for `email` in the same way, and shows the address it read when the document was
  loaded, whoever has signed in since (`ui/app/AppShell.tsx:54-77`).
* Below "This action cannot be undone once confirmed"
  (`ui/app/transfer/page.tsx:300`) is a Retry that sends the current fields again,
  unconfirmed and under a new reference (line 244, line 85): what
  `TransfersWereConfirmed` promises is that *a* transfer was confirmed on that page,
  not this one.
* A transfer the fraud service rejects is answered 200
  (`service/transfer_service.go:79-90`), and the page shows any 200 as a success
  (`ui/app/transfer/page.tsx:112-117`).
* The registration page asks for a special character and no lower-case letter, the
  service for a lower-case letter and no special character
  (`ui/app/register/page.tsx:20-39`, `handler/auth.go:42-56`); errors of the service
  have no `message`, so the page cannot say which rule was missed.
* The demo page reports that accounts were seeded and data reset and has done
  neither (`ui/app/demo/page.tsx:23`, `ui/app/demo/page.tsx:49`).
* A page above 2^31-1 passes the Go service's `parseIntQuery` and is an internal
  error in the ledger, which the Go service retries.
* `client/http_test.go:53-80` expects `DOWNSTREAM_UNAVAILABLE` after a timeout;
  `client/http.go:85-93` answers `SERVICE_TIMEOUT`.
* `scripts/run-migrations.sh:60`: `((MIGRATION_COUNT++))` evaluates to 0 the first
  time, which `set -e` takes for a failure.

## What is not modelled

* The overflow of `NUMERIC(19,2)` columns (a balance or an amount with more than
  seventeen digits before the point): another way to the 409 `violation`, not another
  answer.
* React's StrictMode, which under `npm run dev` mounts every page twice: the dashboard
  and the transactions page then start two reads on one `isLoading`, so `SpinnersWait`
  holds of the production build only.
* Formats, rounding, limits of pages, environment parsing: pure functions, see the
  plan. The models take well-formed, whole amounts.
* In `TransferService` and `UserAccounts`, the checks that refuse a request before
  any state is touched (headers, the password policy, empty fields). `Proxies` and
  `Browser` have the first two, as seen from the UI.
* Listing (`getJSON`, `LedgerQueryService`), readiness and metrics: reads only.
* The clock of sessions (age and idle time): expiry is a choice.
* Demo data, which inserts missing accounts at start-up: models start from given
  accounts.
* Of the UI: what is typed into text fields beyond what decides a request's fate,
  the mobile menu, layout, error pages, wording and styles. The profile that the
  shell and the transfer page ask for on mount, because nothing comes of it (see
  above).
* Scripts that start, stop and exercise the services.

## Plan

Done: `LedgerPromise`, `Ledger` (the books come first), `TransferService` on top
of the promise, `Bank` with both, `UserAccounts`, `Proxies` and `Browser`, and their
proofs. Next, in
this order:

1. `Migrations`: the runner's loop over the files, a statement failing half way,
   reruns on what is there. Small and finite; the question is which schema a run
   leaves behind and what it has printed.
2. `Validation` and paging as functions: normalization and rounding in the three
   services against one reference definition; pages and limits of both services
   against "within bounds", and a caller who walks the pages while postings commit.
3. A clock for the sessions: validate, then refresh, with time passing in between.
4. Theorems: an abstract promise of user accounts (a map from addresses to people)
   that `UserAccounts` implements, and `Browser` on top of it.
