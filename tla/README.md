# TLA+ models of the Fiam retail backend

This directory models the parts of the backend that move money or decide who may: how the payment
service debits, sends, asks, refunds and credits, how staff correct it, how customers and staff
come in, what they may then call and when that ends, and what customers are told of it all. They ask
what happens when requests, queue workers, VFD (the bank provider) and staff act at once, late,
twice or not at all. Every definition is translated from the code under `src/`; `PROJECT.json` maps
each of them to its lines.

- [The system](#the-system)
- [Modules](#modules)
- [What the runs check](#what-the-runs-check)
- [Fairness](#fairness)
- [What is proved](#what-is-proved)
- [Where code and comments disagree](#where-code-and-comments-disagree)
- [Not modelled](#not-modelled)
- [Plan](#plan)

## The system

Four NestJS services share a library; each of `auth`, `payment` and `admin` has its own Postgres
database, `payment` and `admin` have BullMQ queues in Redis, and RabbitMQ carries messages between
services. `docker/stack.yml` runs one replica of each and replaces it `start-first`: during a
deployment, and while a paused process has not noticed that it lost a lock, two run at once.

| Part | State it keeps | Operations | Talks to | Correct when |
|---|---|---|---|---|
| **payouts** (payment) | `wallets.balance`, the payout's `transactions` row, its `REV-` row, the status job | `initiatePayout`, `applyTransferResult`, `syncPayoutStatus`, `reverseFailedPayout`, the status worker | VFD `/transfer` and TSQ, auth (PIN and caps), staff re-query | covered debits; one refund, in full; never refunded and paid; final stays final; caps and free payouts hold; nothing is lost without staff hearing of it |
| **incoming transfers** (payment) | webhook events, the `DEPOSIT` row, the crediting job | `handleVfdInwardCredit`, `recordPayin`, the crediting worker | VFD webhook and TSQ, virtual accounts | credited once, only on VFD's word; the row tells what happened; every deposit lands or is seen |
| **bill payments** (payment) | the `BILL_PAYMENT` row with its token, status job, token job | `payBill`, `syncBillStatus`, `reverseFailedBill`, `fetchTokenAndSendReceipt`, `sendReceiptWithoutToken` | VFD bills API, staff re-query | as payouts; a receipt is useful; the token is kept in the bill's row or staff are told |
| **manual postings** (admin, payment) | `postings` row (admin), `MAN-<id>` row or the assigned deposit (payment) | `request`, `approve`, `reject`, `cancel`; `post`, `assign` | HTTP between admin and payment | two people; money moves once; `POSTED` means moved, `FAILED` means not |
| **staff re-query** (payment) | none of its own | `InternalController.requery` | `syncPayoutStatus` | same as the worker; never guesses |
| **virtual accounts** (payment) | `addresses`, one `ACTIVE` per wallet | `provisionAddress`, `insertActiveAddress` | RabbitMQ, VFD | one account per wallet, found by deposits |
| **VFD client** (payment) | the cached access token | `authorizedFetch` and the calls | VFD | concurrent refreshes do not invalidate one another |
| **sessions and tokens** (auth) | refresh tokens, `sessions` | log in, rotate, revoke, log out | devices, payment (by token) | one chain of tokens per session; reuse kills the session |
| **sign-in, codes, secrets, devices** (auth) | password, PIN and their locks, OTPs, login tickets, reset tokens, trusted devices | `login`, `confirmLoginPin`, `verifyOtp`, `verifyPin`, `changePassword`, `confirmPasswordReset` | postoffice | guesses are counted and a lock is told; single use; a new password ends what the old one opened; a new device is limited |
| **onboarding** (auth, payment) | `users`, `payment_account_provisioning_requested_at`, `addresses` | signup, email, phone, BVN, PIN, provisioning, retry by staff | QoreID, RabbitMQ, VFD | the account is requested exactly once, and comes |
| **closing accounts** (admin, auth, payment) | `users.status`, deletion requests, tier upgrades | suspend, reactivate, close, request and decide | HTTP, the payment database | never closed with money in it or on its way; refused means restored |
| **staff accounts** (admin) | `staff_users`, `staff_devices`, `staff_refresh_tokens` | sign in, second factor, devices, refresh, edit, reset, delete | | codes once; guesses and devices limited; what is revoked stays so |
| **API guards** (auth, payment, admin) | staff rows and devices, sessions, access tokens, the internal key, the audit log | the guards of every route, `InternalHttp.call`, `PinVerifierService.assertValid`, `AuditService.record` | each other by HTTP | what is withdrawn stops at once where the code says so; acts are logged or fail; no payment without the PIN |
| **identity documents** (auth) | `kyc_documents`, the object store, liveness sessions in memory, QoreID's token | `upload`, `createNinLivenessSession`, `verifyNin` | object store, QoreID | the file a row names exists; a liveness check serves once |
| **broadcasts** (admin) | broadcast rows, their jobs | `create`, the fan-out job | RabbitMQ, postoffice | each customer once a run, nobody skipped |
| **notifications, postoffice** (payment, auth, admin, postoffice) | the queue and, where somebody declared them, the dead letters | `notifyTransaction`, `sendBillReceiptEmail`, `SecurityAlertsService`, `NotificationConsumer` | RabbitMQ, SMS, mail and push providers | no death loses what was queued; nothing is sent twice without a death |
| banks, beneficiaries, dashboards, reconciliation | caches and address books | reads | VFD | the routes only |

What is hard about it, and what the properties are for, is listed hazard by hazard in
`PROJECT.json`. In short:

- *reads before locks*: nearly every handler reads its row without a lock, awaits VFD or another
  service, and then writes; unique indexes on references, not the reads, keep the money right;
- *deaths between steps*: debit, transfer, queueing and crediting are separate commits in separate
  systems, and nothing sweeps up after a process that dies between them;
- *an unknown outcome*: VFD may answer late, not at all, "pending", or "No Transaction!" about a
  transfer still on its way;
- *several actors on one row*: the request, the worker (possibly two), and any number of staff.

## Modules

| Module | What it models |
|---|---|
| `VfdCodes` | The code tables of VFD reduced to their distinct rows, `ResolveVfdOutcome`, and which outcomes a truthful VFD can lead to (`Answers`) |
| `Fees` | `calculateTransferFee`, VAT to the kobo, stamp duty, in the ledger's unit of 1/10000 naira |
| `WalletLedger` | The abstract specification: an entry moves money once; a debit is covered; a refund returns exactly its debit to its wallet |
| `Payouts` | Payouts: request, status worker, desks of staff |
| `PayoutsProofs` | Theorems about `Payouts` |
| `Payins` | Deliveries of the webhook, the deposit's row, crediting workers |
| `Postings` | Maker-checker postings on both sides of the HTTP call |
| `Bills` | Bill payments: request, status worker, token job, desks |
| `Sessions` | One customer's sessions and refresh tokens: signing in, refreshing, reuse, every way of signing out |
| `CustomerSignIn` | How a customer gets in: password, PIN, codes, tickets, reset tokens, trusted devices, and the sessions they open |
| `StaffSignIn` | One member of staff signs in, keeps sessions, manages second factor and devices, while a second super admin manages the account |
| `Onboarding` | A signup in overlapping requests, and the account number over RabbitMQ |
| `CustomerAccounts` | One account suspended, reactivated, closed, deleted and reviewed by staff in three services, while its money moves |
| `VfdToken` | The access token that the calls of a process to VFD share: fetched once, refused, discarded, run out; a second process takes its own |
| `Postoffice` | A notification from its publication to a provider: redelivery, acknowledgement, failed sends dead-lettered or dropped, a consumer that dies |
| `Notices` | What the services tell customers and staff, the look-up of the contact, and a broadcast page by page; it hands its messages to `Postoffice` |
| `KycDocuments` | One identity document: its row, its file, and uploads that replace both |
| `NinVerification` | Liveness sessions, a NIN check with its calls to QoreID, one NIN per customer |
| `StaffAccess` | Every route of the console: the guards' reads, the handler, the audit record, while super admins change the account and its device |
| `CustomerAccess` | Every route of the customer API and of the internal one: tokens, sessions, and the PIN check before a payment |
| `AccountsAndAround` | `CustomerAccounts` side by side with `KycDocuments`, `NinVerification`, `StaffAccess` and `CustomerAccess`, and the properties of these |
| `Services` | `Sessions`, `VfdToken`, `Notices` and `Postoffice` side by side, and the properties of these |
| `PayinsProofs`, `PostingsProofs`, `BillsProofs`, `CustomerSignInProofs`, `StaffSignInProofs` | Theorems about those |
| `CustomerAccountsProofs` | Theorems about `CustomerAccounts` and all else that `AccountsAndAround` composes |
| `ServicesProofs` | Theorems about what `Services` composes, and about `Onboarding` |
| `MC...` | Small instances for TLC; `MCServices` is one of `Services`, `MCCustomerAccounts` of `AccountsAndAround` |

`Payouts`, `Payins`, `Postings` and `Bills` each show, as the property `KeepsTheBooks`, that they
implement `WalletLedger` under the mapping `Entry`. All four use the wallet only through
`creditForUpdate` and `debitForUpdate`, each one atomic step under the wallet's row lock, so the
wallet's books are the product of theirs.

In `Sessions` a bulk `UPDATE` takes two steps, `Find` (the rows its statement sees) and `Revoke`
(once no rotation holds one of them locked), because a token inserted in between is not revoked.

In `CustomerSignIn`, `StaffSignIn`, `Onboarding` and `CustomerAccounts` a *request* is any HTTP
request about the one customer or member of staff: it reads a row, goes from place to place
(`req[r].at`), and works from what it read. Every write is a step of its own, whether it is
conditional on the row (`reserveAttempt`, `checkSecondFactor`'s updates) or not (a `save` of
what was read), so that any other request comes in between; reads with no write between them are
one step. In `Onboarding` and `CustomerAccounts` a request that is over leaves its place free for the
next, so that two places stand for any number of requests of which two overlap; in the two sign-ins
each request is made once, because what it guessed or opened bears its name. Where a module needs another's result it takes the
promise and not the steps: opening a session is one step in `CustomerSignIn`, its steps are in
`Sessions`; `CustomerAccounts` takes payments as starting, ending and arriving, which `Payouts`,
`Bills` and `Payins` spell out.

`StaffAccess` and `CustomerAccess` take the routes as data: a route is its name, the roles it is open
to and what its handler does to state (`kind`), as the controllers say. A request is let through by
reads that are steps of their own, with the account, device, session, PIN and lock changing between
them; `allowed`, `trusted`, `right` and `unlocked` are history that says whether there was a moment
since the request came at which it would do. What the handler does in detail is in the module of its
component.

`Services` and `AccountsAndAround` run parts that share no state: from a common initial state exactly
one of the parts acts (`part` chooses it), so the states of a run are the sum of the parts', not
their product, and a part's property is checked in that part's behaviours. The theorems about them
are of the composed specification: a step of it is a step of a part or leaves it alone. `Notices` and `Postoffice` do
share state, the queue, and run together in the parts that publish.

**How state corresponds to code.** A balance is `wallets.balance`; `status` is `transactions.status`
(or `postings.status`) with `NONE` before the insert. A `pc`, `hook`, `work`, `call` or `server`
entry says at which `await` an actor's run is; one action is what the code does between two of
them, a database transaction being one step. `vfd` is what really happens to the transfer at VFD,
which the code can only ask about. `job` and `tries` are the BullMQ job and its attempts. Deaths
(`Abort`, `CallDies`, ...) may strike between any two steps; an open transaction rolls back. Variables marked
*history* (`credited`, `unsure`, `byDesk`, `tried`, `told`, `gained`, `moved`, `clean`, ...) and
bounds (`aborts`, `extra`, `faults`) exist only in the model.

**External parts.** VFD, BullMQ's retries and stalled-job recovery, HTTP and dying processes are
not under `src/`; they are modelled from how the code uses them and marked external in the map.
VFD is truthful: a definite code is true of the transfer, and pending codes may come at any time.
Whether 108 can be answered about a transfer under way is the constant `NoTransactionIsFinal`.

**Abstractions.** Money is a number, a reference is its row, and names, narrations, payloads and
receipts' contents are left out. What precedes a debit without changing state (PIN check, name
enquiry, biller validation) is a guard or left out; the caps the PIN check returns are constants.

## What the runs check

| Run | Instance | Shows |
|---|---|---|
| `payouts` | 2 payouts of a wallet that covers both only when they are free, 1 desk, 1 attempt, 1 death each | `NeverRefundedAndPaid`, `KeepsTheBooks` |
| `payout_limits` | 3 concurrent payouts over 2 days, a cap that holds two of them, 1 free a day; any of them may wait for the wallet over midnight | `LimitsKept` (`WithinCaps` and `FreePayoutsPerDayKept`) |
| `payouts_live` | 1 payout, retries, stalls, 3 deaths, fair scheduling | `SettledOrEscalated`, `StaffCanSettle` |
| `payins` | 1 deposit, 2 deliveries at a time and 2 unasked ones, 2 workers, 3 attempts, 1 stall, 4 deaths | `NeverCreditedUnconfirmed`, `StatusTellsCredit`, `KeepsTheBooks`, `DepositLands` |
| `postings` | 2 postings (any kind), 2 concurrent approvals each, 1 lost or dying call each | `PostedHasMoved` (with `FourEyes`), `FailedCreditMovedNothing`, `KeepsTheBooks` |
| `bills` | 1 electricity and 1 airtime bill, either covered but not both, 1 desk, 1 stall, 2 deaths | `NeverRefundedAndPaid`, `KeepsTheBooks`, `TokenKeptOrEscalated` |
| `services` | 2 sign-ins, 2 refreshes, 1 request that ends sessions, 4 tokens, any of them may die; or 2 processes, 3 calls to VFD, 4 tokens; or 1 notice, a broadcast to 2 customers in pages of 1, 1 stalled run, 1 change of status; or a post office with 2 messages and 1 fault, no dead-letter exchange declared | `OneChain` (with `OneLiveSession`), `DeadStaysDead`, `CallsGetThrough`, `EveryoneOncePerRun`, `DeliveredAsAsked` |
| `customer_sign_in` | 2 overlapping requests of any kind, 2 devices, 2 codes, tickets or tokens, 1 guess to the lock, 1 change of password; any request may die | `GuessesBounded`, `LockIsTold`, `ItemsSpentOnce`, `NewPasswordRules`, `NewDeviceLimited` |
| `staff_sign_in` | 2 overlapping requests of any kind, 2 passkeys of which 1 may be kept, 3 refresh tokens, 2 secrets and 3 recovery codes ever drawn, 2 time steps, 1 guess to the lock; second factor and device required or not | `CodesSpentOnce`, `LimitsKept` (`GuessesBounded` and `DeviceCapKept`), `RevokedStaysOut`, `EndedStaysEnded` |
| `onboarding` | 2 overlapping requests, 1 open code per purpose, 1 consumer, 1 fault (death or lost message) | `AskedExactlyOnce`, `BarredStaysBarred`, `GetsAccount` |
| `customer_accounts` | 2 overlapping requests, 1 naira, 1 payment in flight, 1 deletion request, 1 submission; or 3 uploads of one document; or 2 customers, 2 liveness sessions, 2 NINs, 2 checks; or one staff call after another, of any route; or one customer call after another, 2 PINs | `ClosedEmpty`, `RestoredAfterRefusal`, `DecidedOnce`, `FileIsThere`, `LivenessSpentOnce`, `TakesEffectAtOnce`, `AuditedOrFailed`, `PinStandsBehind` |
| `bill_requery` | as small as shows it | a [disagreement](#where-code-and-comments-disagree) |

`TypeOK` of every module with proofs is a theorem and in no run. Some properties that are theorems
are also in no run, because others that are imply what matters in them: `FailedIffReversedOnce`,
`FinalIsLeftAlone` and `MoneyAccountedFor` of `Payouts`, `ReceiptIsUseful` of `Bills`. TLC agrees with each on the instances above. Why the bounds are enough: runs on
*different* payouts, deposits or bills meet only in the wallet's balance, in the caps and in the
free slots, so two (three for the caps) show every meeting; runs on the *same* one meet in its
row, its job and its reversal, where one actor of each kind with one death per step shows every
order; retries beyond two repeat the first. One attempt in `payouts` and `bills` makes the job
exhaust itself early, so that staff meet a payout nobody carries; `payouts_live` and `payins` have
the longer retries. In `services`, three calls of two processes are enough for two calls of one to
be refused together while another process takes a token; two customers in pages of one give a page
between which the status of either may change. In `customer_accounts` the parts of the guards have
one call at a time, since calls share nothing but the rows they read, and a call that is over makes
room for the next; three uploads are two that overlap and the row an earlier one left. Requests about one person meet in that person's rows: what one reads and
another writes in between takes two. The sign-ins begin in several states earlier requests leave
(second factor on or off, a device trusted or pending, a code out, a session open), so that two
requests are two of many; that a third adds nothing is what their theorems say, all their properties
being proved for every number of requests. The limits of
guesses, devices and attempts are 1, so that every one of them is reached at once; the theorems
below hold for any limit. `MaxPasswords`, `MaxItems`, `Tokens`, `Secrets` and the like bound how
often something new may be drawn, not what may happen to it. Deadlock is not checked: every
system here may simply be finished.

Assumptions the passing runs make, each a constant:

- `EarlyRequery = FALSE`: staff re-query a payout whose request has ended (they look at payouts
  listed as stuck). `Bills` has the same guard written into `DeskRequery`.
- `NoTransactionIsFinal = TRUE`: VFD does not execute what it answered 108 for.
- `Overlap = FALSE`: a worker that lost its job's lock stops.
- `RecordLags = FALSE`: VFD's record can be queried when its webhook comes.
- `Throttles = FALSE`: no call between the services is rate limited.
- `TransferApiKnowsBills = TRUE`: VFD's transfer query knows bill references; `bill_requery` drops it.

`DeadLetterExchange = FALSE` is not an assumption but what the code gives: postoffice names the exchange
`postoffice.notification_requested.dlx` in its queue's arguments (`main.ts:43-46`) and declares
neither it nor a queue bound to it, so that RabbitMQ drops what is nacked. `src/docker/README.md`,
step 8, says so ("the exchange itself isn't auto-created — a nacked message with no matching exchange
is just silently dropped, not retried"; "a pre-existing gap in the app code (same in local dev)") and
has it declared by hand, which `TRUE` stands for. The same holds of the queue of account requests:
in `Onboarding` a message whose call to VFD failed is gone (`DeadLetter`), and only staff bring
the account.

A payout is dated twice. `created_at` is the database's `now()`, the start of its transaction
(`madeOn`, set by `BeginPayout`); the day whose cap and free payouts it is counted against is the
service's clock once it has the wallet's lock (`countedOn`, set by `InitiatePayout`). One that
waits for the lock over midnight counts against the new day, is dated on the old one, and so is in
neither day's count later; `LimitsKept` is about the payouts made and counted on one day
(`StandingOn`), and `NoneSqueezesThrough` shows what the others do.

Exceptions the properties make are in their formulas, each with a name: `together` (a code that two
requests had at once), `excused` (what was under way when a password changed), `clean` (no save of a
stale staff row or factor has gone over another's write), `moved` (money moved after a closure's
first look), `stranded` and `died` (the run that owed the step is dead). Behind most of them is
something the code lets happen; what, is under [disagreements](#where-code-and-comments-disagree).

## Fairness

`FairSpec` asks only for weak fairness of what the runtime keeps going by itself: a live request or
delivery continues, BullMQ hands a waiting job to a worker and the worker continues, a desk run
that was started continues, and a transfer at VFD is eventually received or lost, and decided. It
asks nothing of customers, of staff who might start a re-query, of tokens being issued, or of deaths.
Three properties assume more and say so: `GetsAccount` that staff retry a customer who was left
without an account number (weak fairness of `RetryProvisioning`; the customers list shows them) and
that VFD creates the account when asked again and again (strong fairness of `CreateAccount`),
while it asks nothing of the requests of the signup itself; `DepositLands` that VFD redelivers until it gets a 2xx and
that its query answers often enough (strong fairness of `Confirmed`), and `StaffCanSettle` that
diligent staff keep re-querying and get a decisive answer often enough.

The exceptions in the liveness properties are real gaps, named in the formulas: a payout or bill
whose request died is *orphaned* until staff act (`Orphaned`), a deposit whose delivery died between insert and
enqueue is *stranded* (`Stranded`), and a bill settled by staff never gets its token (`byDesk`). The
email of a receipt may be lost anywhere without a word (`MayEmail`), so `TokenKeptOrEscalated` asks for
the token in the bill's row, which the customer's app shows (`transactions.controller.ts:73-74`), or
for the alert to staff. It excepts the runs that die: before the fetch is queued, by stalling, and
the listener of the fetch's last failure, which BullMQ does not run again, before its alert
(`AbortFetch`).

## What is proved

`PayoutsProofs` proves, with TLAPS, for every set of wallets, payouts and desks and every bound:

- `TypeCorrect`: `Spec => []TypeOK`; no interleaving overdraws a wallet. `TypeOK` is inductive.
- `RefundExcludesPayment`, `OneReversal`, `FinalStaysFinal`: `NeverRefundedAndPaid`,
  `FailedIffReversedOnce` and `FinalIsLeftAlone`, assuming `~EarlyRequery` and
  `NoTransactionIsFinal`. None is inductive: a state where a desk holds the answer `FAILED` about a
  transfer that was paid would break each in one step. The inductive invariant `SettledRight` adds
  that the actors keep their order (the request comes first; worker and desks only act when it is
  over: `OrderKept`), that the answer each actor holds is true of the transfer (`AnswersTrue`), and that the row's status is
  (`StatusTrue`). Its proof has one step per action; `OthersUntouched` reduces each to the payout the step is about.
- `PayoutsKeepTheBooks`: `Spec => KeepsTheBooks`, with no assumption on staff or VFD. The
  invariant `AllBooked` says that a row which can be reversed is booked as the debit the reversal
  returns; each step is then a step of `WalletLedger` or leaves its variables alone.
- `PayoutsLoseNoMoney`: `Spec => []MoneyAccountedFor`, with no assumption on staff or VFD either. A
  wallet holds what it held at first less what its payouts not yet reversed took: from the steps of
  `WalletLedger`, each of which writes one entry, so that the two sums differ at one element (`Apart`).
- `LimitsHold`: `LimitsKept`, assuming `~EarlyRequery` and `NoTransactionIsFinal`, since a payout that
  failed must not stand again. `LimitsInv` joins it with `SettledRight`: those that stand of a day are
  among those made since its midnight, which the debit counted; only the debit adds to them, and
  every other step leaves the set that stands or shrinks it. It says nothing of a payout that waited
  over midnight for the wallet.

The last two rest on what `SumFunctionOnSet` returns. The library defines it by recursion over
subsets; the section *Sums* proves that it unfolds at any element (`SumSplits`), grows with the set
(`SumMonotone`) and depends on nothing but its summands (`SumAgrees`), each from a smallest subset on
which it would fail (`LeastSubset`), which needs no induction rule. They assume `FinitePayouts`.

`PayinsProofs`, for every set of deposits, deliveries and workers:

- `PayinsTypeCorrect`, and `CreditedOnWord` (`NeverCreditedUnconfirmed`), unconditionally: `WordInv`
  says that a job exists, and a worker is past taking it, only for a deposit VFD confirmed.
- `NeverCreditedTwice` (`CreditedAtMostOnce`), `StatusIsTrue` and `PayinsKeepTheBooks`, assuming
  `~Overlap`, without which it is false (see below). `OnceInv` says that one delivery enqueues (the
  one whose insert won), that one worker at a time holds the job, and that a job which may still
  credit is of a deposit not yet credited.

`PostingsProofs`, for every set of postings, staff, approvals and wallets:

- `PostingsTypeCorrect`, `PostingsFourEyes`, `PostedIsTrue` (`PostedHasMoved`, of which `FourEyes` is a part), and
  `PostingsKeepTheBooks`, unconditionally; `FailedCreditIsTrue` assuming `~Throttles`. The invariant
  `Inv` says, posting by posting, that nothing moves before an approval (`Quiet`), that every
  claiming approver is a second person (`SecondPerson`), and that what each call at the payment
  service is about to answer is true of the books (`TrueSuccess`, `TrueRefusal`).

`BillsProofs`, for every set of wallets, bills and desks:

- `BillsTypeCorrect` and `BillsKeepTheBooks`, unconditionally.
- `BillsNeverRefundedAndPaid` and `ReceiptsAreUseful`, assuming `Trusted`: 108 is final and the
  transfer query knows bills, which `bill_requery` drops.
  `RightInv` says what each actor holds (`Held`) and what rows, token job and receipt say (`Told`)
  is true of the bill at VFD, on top of the order of the actors (`OrderInv`).

`ServicesProofs`, about the specification of `Services`, for every set of sign-ins, refreshes, ending
requests, tokens, processes, calls and notices, every number of customers and size of a page. The
assumption is `ServicesAssumption`: requests are told apart by what they are, a notice is not a
customer, a page holds a customer, and a process runs.

- `SessionsTypeCorrect`, `NeverTwoSessions` (`OneLiveSession`; it is inductive on its own),
  `TokensFormAChain` (`OneChain`: `OneLink` of the tokens, and one live session) and
  `DeadSessionsStayDead` (`DeadStaysDead`). `OneLink` is not
  inductive: a state in which two rotations hold one token would break it. `ChainInv` adds that a
  session has no token before its sign-in is over (`FirstToken`), that a rotation holds a live token
  no other rotation holds (`Holding`), and that a replaced token is revoked and of the same session
  as its successor (`Links`).
- `MessagesDelivered` (`DeliveredAsAsked`): `CopiesInv` counts the copies of each message twice over
  (`Counted`): those emitted and not swallowed by a broker that was away are waiting, being sent, sent,
  or failed and then dead letters or dropped, for either value of `DeadLetterExchange`; and those
  waiting, being sent, sent or swallowed are no more than were emitted or returned by a death.
- `CallsReachVfd` (`CallsGetThrough`): `TokenInv` says that a process asks for a token only while it
  caches none (`AskedWithoutToken`), and that a call which nothing outside disturbed waits for or
  holds the newest token by its second attempt (`OnItsWay`).
- `BroadcastsComplete` (`EveryoneOncePerRun`): `BroadcastInv` says how many copies the runs so far may
  have made of a customer's message (`Allowed`), and that whoever stayed as he was has one once the
  cursor is past him. The step of a page needs that nobody is between two pages: a page that is not
  full was the last, and a full one leaves no gap below its greatest id (`NoGap`).

and, for the specification of `Onboarding`, for every set of requests and consumers:

- `AccountAskedForOnce` (`AskedExactlyOnce`): the property looks at quiet states only. `OnboardingInv`
  adds that a request is where its purpose allows (`Shape`), that a code for a BVN is out only with a
  BVN and a birth date on file (`BvnInv`), and where the claim is (`ClaimInv`): not made and, if the
  customer is ready and nothing died, some request is about to make it; or made, and then the message
  is published or one request is about to publish it, never two.
- `BarredIsFinal` (`BarredStaysBarred`): from `Shaped` alone, since an email verification that may
  activate carries that its signup was pending.

`CustomerSignInProofs`, for every set of requests and devices and every limit:

- `SignInTypeCorrect`: `TypeOK` needs that a lock comes before the count runs over (`LocksInTime`)
  and that only trusted devices become limited (`Shaped`).
- `GuessesStayBounded`: the requests that looked at a secret are never more than the row counts
  (`GuessInv`), and `LocksInTime` stops the count.
- `LocksAreTold`: whoever set the lock that stands has told, is dead, or is on its way to clear it
  or tell (`LockInv`).
- `DevicesAreLimited`: `NewDeviceLimited` is inductive once the types are known.
- `PasswordsRule`: holds of a quiet state only, so `PasswordInv` says of every state what a request
  about to open a session carries (`RowRules`), and that a session of an old password is excused or
  about to be ended.
- `ItemsAreSpentOnce`: for an item no two requests had at once, what it gave and the misses it took
  are what its row and its one holder say (`OnceFor`); `HeldRules` says an item is used before it
  gives.

`StaffSignInProofs`, for every set of requests, devices, tokens, secrets and codes, every limit and
setting:

- `StaffTypeCorrect`: each place fits what a request holds there (`Shape`), and the row, with every
  copy of it that may be saved again, is locked before its count runs over (`LockShape`).
- `DevicesStayLimited`: `DeviceCapKept` is inductive; the row lock of `Register` is what makes it so.
- `RevokedDevicesStayOut`, `EndedFamiliesStayEnded`: action properties. `BearInv` says which
  requests may hold a device or a family at all; then a token is only ever revised, or issued to a
  request that bears its device and family (`Revised`, `Issued`, `Carries`).
- `StaffGuessesStayBounded`: as for customers (`GuessInv`). `StaffLimitsStayKept` joins it with
  `DevicesStayLimited` to the `LimitsKept` the run checks.
- `CodesAreSpentOnce`: `CodeInv` says that what is in force was drawn and is not spent (`Drawn`), that an
  accepted step is at or below the last one, and an accepted recovery code struck off (`Spent`), and
  that a request which presents a code works from the factor of the row (`Bound`).

`CustomerAccountsProofs`, for every set of requests and every bound:

- `AccountsTypeCorrect`; `ClosuresLeaveNothing` and `RefusedClosuresPutBack` from `ClosureInv`: what
  a closure has looked at without blocking was empty and still is, unless money moved (`Seen`), and
  an account that is suspended for no other reason has a closure that will close it or put it
  back (`Holder`). `DecisionsAreSingle` from `DecisionInv`: what is open has not been decided.

and, for the specification of `AccountsAndAround`, of which every step is a step of each part or leaves
it alone (`Parts`):

- `FilesStay`, assuming that no upload is named like the key of a row without a file: `FilesInv` adds
  that the file of an upload under way is there and no one can have seen it in the row (`Unnamed`), so
  what a later upload removes is never the file about to be named.
- `LivenessServesOnce`: `LivenessInv` says that a liveness session is in one place: pending, spent by one
  check under way (`Spending`), or over.
- `AccessTakesEffect` and `ActsAreAudited`: `AccessInv` says place by place what the history of a request
  must hold: before a read, whatever the row and the device would grant has been noted, and after it,
  what was granted was good at that read (`Grounded`); and which places an act, its record and its
  answer have passed (`LoggedRight`).
- `PaymentsHavePin`, assuming that there is a PIN: `PinInv` says that while a request is on its way its
  history notes any moment at which the PIN was its guess and any without a lock, and what a hash that
  was read, a verdict and a finished call then show (`Backed`).

Only model-checked are the liveness properties, since fairness and `ENABLED` are out of the prover's
reach (`SettledOrEscalated`, `StaffCanSettle`, `DepositLands`, `TokenKeptOrEscalated`, `GetsAccount`),
and the violation of `bill_requery`. Every invariant and every action property of the passing runs
is a theorem.

## Where code and comments disagree

`bill_requery` is a run of its own. The others are stated as definitions beside the properties of
their modules, in no run; give them to TLC with the constants named here to see the behaviour.

| Where | The code | The comment |
|---|---|---|
| `bill_requery`: `Bills!PaidNeverRefunded`, `TransferApiKnowsBills = FALSE` | the staff re-query takes bills for payouts | "Only customer payouts can be re-queried" |
| `Payouts!RefundedNeverPaid`, `EarlyRequery = TRUE` | refunds on 108 while the transfer call may still be on its way (`vfd-payment.provider.ts:470`) | "a confirmed, terminal failure" |
| `Payins!CreditedAtMostOnce`, `Overlap = TRUE` | the worker marks and credits without a second look at the row | "safely retry without any risk of double-crediting" |
| `Payouts!NoneSqueezesThrough`, 2 payouts, `LastDay = 1` | `created_at` is the database's time at the start of the transaction, the day's start the service's after the wallet's lock: a payout that waited over midnight passes the old day's cap and takes its free slot (`payouts.service.ts:221-233`, `458`) | "After the wallet row is locked, so two concurrent payouts can't both squeeze under the cap or both take the last free slot" |
| `Bills!ReceiptAlwaysGoesOut` | every failure on the way to a receipt's email is swallowed (`notifications.service.ts:259`, `275`, `322`), and a last attempt's listener that dies tells nobody | "send the receipt with a note instead of leaving them without one, and tell the team" (`bills.service.ts:485-487`) |
| `Postoffice!FailedSendsKept`, `DeadLetterExchange = FALSE` | names a dead-letter exchange and never declares it (`main.ts:45`): the broker drops what is nacked | "Routes to the queue's dead-letter exchange for manual investigation instead" (`notification.consumer.ts:80-81`; of account requests, `account-provisioning.consumer.ts`). `src/docker/README.md`, step 8, says it is dropped |
| `Postings!FailedMovedNothing` | a second approval in flight may fail a posting whose debit was taken | "approve again to retry safely" |
| `Sessions!OneSignedIn` | a login revokes the refresh tokens before `createExclusive` takes the lock (`auth.service.ts:284-289`), and a refresh never looks at the session row | "closing the race where two concurrent logins could otherwise both end up active" |
| `CustomerSignIn!ResetTokenOnce` | a reset token is read and then consumed without a condition (`tokens.service.ts:160-162`): two requests that overlap both use it | "Single-use: ... a second attempt with the same token — replay, double-submit, whatever — fails" |
| `StaffSignIn!AnAdminRemains` | two super admins who demote each other both count two (`staff.service.ts:254-264`) | "At least one active super admin is required" |
| `CustomerAccounts!ClosedEmpty` without `moved` | the payment service takes an access token until it expires, whatever has become of the account (`jwt.strategy.ts:12-33`, which says this "would need revisiting before payment ever gates a money-movement action"; payouts do use it) | "no new logins or payments while we look" (`customer-actions.service.ts:103-105`) |

Not against a comment, but possible in the models and worth a reader's knowing: a suspension,
reactivation or verification that read the account before it was closed writes over `CLOSED`; a
refused closure lifts a suspension another desk meant (it is why `RestoredAfterRefusal` speaks
in one direction only); a deletion request withdrawn while it is approved still closes the account; a
tier-3 submission that races its approval leaves an account of tier 3 under review; a login in flight
survives a suspension; wrong guesses of one code that overlap count as one (`otp.service.ts:87`); two
refreshes of one staff token leave two living successors until the next reuse; and a staff edit
saves the row it read, attempts and lock included.

Three about the console and broadcasts, which their models allow: "callers await state-changing
actions" (`audit.service.ts:26-27`), but device approvals and revocations, the second factor and
password changes use `recordSafe` and go through unrecorded if the log cannot be written (kind
`self` of `StaffAccess`); an approval whose record fails after the posting was set `POSTED` answers
as if it had to be repeated, and the retry is refused; and a broadcast is queued with one attempt
"because a re-run would re-send" (`comms.processor.ts:41-42`), but BullMQ gives a stalled job to
another run whatever its attempts, and that one does re-send (`stalls` of `Notices`).

One more that no definition shows: `reverseFailedPayout` reads the row before it locks the wallet, where its
comment says it "re-reads the transaction inside the lock". A second reversal is stopped by the
unique `REV-` reference, with an error instead of a no-op (`RollBackReversal`).

## Not modelled

- *Reading*: what the console's queries of customers, transactions, audit and dashboards select and
  show, reconciliation and treasury sums, statements, receipts' layout, lists and exports. They are a
  large part of the lines of the implementation, hold no state, and have no step in between two of
  their own. Who may call them, and whether the log has it, is in `StaffAccess` and `CustomerAccess`.
- *Plumbing*: DTOs and their validation, entities and migrations, module wiring, configuration,
  Swagger, logging, templates of messages, pagination.
- *Slack*: posts that nothing awaits and nothing reads.
- *Look-ups at providers*: banks, billers, name enquiry, text recognition. Their answers change
  nothing or are inputs of the models. Of QoreID the calls of the NIN check are in `NinVerification`,
  those about a BVN are an answer in `Onboarding`.
- *Single writes with no reader that decides*: biometric preferences, renaming of devices, profile
  fields, a customer's own caps, `create` of staff under a unique email (in `StaffAccess` as an act).

These are most of what the map leaves uncovered. Also left out, each a small thing
in a modelled part: an amount may carry four decimals, all of which the wallet is debited, while VFD
is sent two (`initiate-payout.dto.ts:36`); a 429 on an internal route would mark a posting `FAILED`
(`Throttles`, `postings.service.ts:284`); only the approver who claimed a posting may retry it
(`postings.service.ts:227`), so a posting whose approver is gone stays `PROCESSING`.

## Plan

1. Done: `Payouts`, `Payins`, `Postings`, `Bills`, `Sessions`, `CustomerSignIn`, `StaffSignIn`,
   `CustomerAccounts`, each with its proofs, `Onboarding`, and the guards, documents, notifications,
   broadcasts, post office and VFD token around them.
2. Done: a theorem for every safety property that a run checks.
3. Left to prove and refine: that the other three ledgers lose no money, as `PayoutsLoseNoMoney`;
   `CustomerSignIn`'s one-step session against `Sessions`, as an implementation of one abstract login;
   one specification of "spent once" for codes, tickets, tokens and recovery codes, which both sign-ins
   would implement.
4. Smaller models as they are needed: the rate limit, the cache of VFD's bank list.
