------------------------------- MODULE Payouts -------------------------------
(***************************************************************************)
(* Outgoing transfers of the payment service (PayoutsService, the payout   *)
(* status worker and the staff "re-query" endpoint) against the provider.  *)
(*                                                                         *)
(* A payout is debited in one database transaction, sent to the provider   *)
(* over the network, and then settled by whoever learns the outcome: the   *)
(* request that sent it, the status job the request queued, or staff.      *)
(* They run concurrently, and each may die between any two of its steps.   *)
(*                                                                         *)
(* A database transaction that holds the wallet row's lock is one step.    *)
(* What is read before the lock is taken is read in an earlier step, also  *)
(* by the database: the created_at of a row is the time its transaction    *)
(* began, before it waited for the lock.                                   *)
(* A payout stands for its row and for its reference, which is unique.     *)
(***************************************************************************)
EXTENDS Integers, FiniteSets, Functions, VfdCodes, Fees

CONSTANTS
    Wallets, Payouts, Desks,
    WalletOf,            \* the wallet a payout leaves from
    Amount,              \* what the customer asked to send
    Funds,               \* what each wallet holds at first
    DailyCap,            \* the customer's own daily cap, by wallet
    TransferCap,         \* ... and the cap on one transfer
    DeviceCap,           \* the new-device limit; its window spans the behaviour
    EnforceCaps,         \* config transferCaps.enforce
    FreePerDay,          \* FREE_PAYOUTS_PER_DAY
    Attempts,            \* BullMQ attempts of the status job
    MaxStalls,           \* how often BullMQ re-runs a job whose worker died
    MaxAborts,           \* bound on the runs that die, by payout
    LastDay,             \* bound on the calendar
    EarlyRequery,        \* may staff re-query while the request still runs?
    NoTransactionIsFinal \* does VFD never execute what it answered 108 for?

ASSUME PayoutsAssumption ==
    /\ Desks \cap {"request", "worker"} = {}
    /\ WalletOf \in [Payouts -> Wallets]
    /\ Amount \in [Payouts -> Nat \ {0}]
    /\ Funds \in [Wallets -> Nat]
    /\ DailyCap \in [Wallets -> Nat] /\ TransferCap \in [Wallets -> Nat]
    /\ DeviceCap \in [Wallets -> Nat]
    /\ {EnforceCaps, EarlyRequery, NoTransactionIsFinal} \subseteq BOOLEAN
    /\ {FreePerDay, MaxStalls, MaxAborts, LastDay} \subseteq Nat
    /\ Attempts \in Nat \ {0}

\* The transactions table holds finitely many rows.
ASSUME FinitePayouts == IsFiniteSet(Payouts)

VARIABLES
    balance,   \* wallets.balance
    status,    \* transactions.status of the PAYOUT row, NONE before the insert
    charge,    \* ... and its fee column: fee, VAT and stamp duty
    madeOn,    \* ... and the day of its created_at, from when its transaction begins
    countedOn, \* history: the day whose limits it was counted against
    reversals, \* the number of REV-<reference> rows
    vfd,       \* the transfer at the provider
    pc,        \* where each actor is with each payout
    job,       \* the status job in BullMQ
    tries, stalls,
    alerted,   \* was staff told that the payout needs them?
    freeOn,    \* app_settings.free_payouts_enabled
    day, aborts

ledger == <<balance, status, charge, madeOn, countedOn, reversals>>
queue  == <<job, tries, stalls>>
env    == <<freeOn, day, aborts>>
vars   == <<ledger, vfd, pc, queue, alerted, env>>

Actors   == {"request", "worker"} \cup Desks
Statuses == {"NONE", "PROCESSING", "SUCCESSFUL", "FAILED"}
Terminal == {"SUCCESSFUL", "FAILED"}
Phases   == {"idle", "locking", "sending", "calling", "asking", "reversing", "over"} \cup Outcomes
Jobs     == {"none", "waiting", "active", "completed", "exhausted", "stalled_out"}
Fates    == {"none", "inflight", "lost", "processing", "paid", "refused", "blocked"}

\* Every state is well typed; no balance is ever negative.
TypeOK ==
    /\ balance \in [Wallets -> Nat]
    /\ status \in [Payouts -> Statuses]
    /\ charge \in [Payouts -> Nat]
    /\ madeOn \in [Payouts -> Nat] /\ countedOn \in [Payouts -> Nat]
    /\ reversals \in [Payouts -> Nat]
    /\ vfd \in [Payouts -> Fates]
    /\ pc \in [Payouts -> [Actors -> Phases]]
    /\ job \in [Payouts -> Jobs]
    /\ tries \in [Payouts -> Nat]
    /\ stalls \in [Payouts -> Nat]
    /\ alerted \in [Payouts -> BOOLEAN]
    /\ freeOn \in BOOLEAN
    /\ day \in Nat /\ aborts \in [Payouts -> Nat]

Init ==
    /\ balance = Funds
    /\ status = [p \in Payouts |-> "NONE"]
    /\ charge = [p \in Payouts |-> 0]
    /\ madeOn = [p \in Payouts |-> 0] /\ countedOn = [p \in Payouts |-> 0]
    /\ reversals = [p \in Payouts |-> 0]
    /\ vfd = [p \in Payouts |-> "none"]
    /\ pc = [p \in Payouts |-> [a \in Actors |-> "idle"]]
    /\ job = [p \in Payouts |-> "none"]
    /\ tries = [p \in Payouts |-> 0]
    /\ stalls = [p \in Payouts |-> 0]
    /\ alerted = [p \in Payouts |-> FALSE]
    /\ freeOn \in BOOLEAN
    /\ day = 0 /\ aborts = [p \in Payouts |-> 0]

-----------------------------------------------------------------------------
(***************************************************************************)
(* The limits, counted under the wallet's lock.                            *)
(***************************************************************************)
PayoutsOf(w) == {p \in Payouts : WalletOf[p] = w}

\* Only what has left for good counts towards a cap.
SettledOutflow(w, since) ==
    SumFunctionOnSet(Amount,
        {p \in PayoutsOf(w) : status[p] = "SUCCESSFUL" /\ madeOn[p] >= since})

OutflowSince(w, since) ==
    SumFunctionOnSet(Amount,
        {p \in PayoutsOf(w) : status[p] \in {"PROCESSING", "SUCCESSFUL"} /\ madeOn[p] >= since})

\* assertWithinTransferLimit, then checkCaps.
WithinLimits(p) ==
    LET w == WalletOf[p] IN
    /\ OutflowSince(w, 0) + Amount[p] <= DeviceCap[w]
    /\ EnforceCaps => /\ Amount[p] <= TransferCap[w]
                      /\ OutflowSince(w, day) + Amount[p] <= DailyCap[w]

PayoutsToday(w) ==
    {p \in PayoutsOf(w) : status[p] \notin {"NONE", "FAILED"} /\ madeOn[p] >= day}

HasFreeSlot(w) == freeOn /\ Cardinality(PayoutsToday(w)) < FreePerDay

-----------------------------------------------------------------------------
(***************************************************************************)
(* The request: debit, send, learn the answer.                             *)
(***************************************************************************)
\* The transaction begins, which dates its row (now() of the database), and waits
\* for the wallet.
BeginPayout(p) ==
    /\ pc[p]["request"] = "idle"
    /\ pc' = [pc EXCEPT ![p]["request"] = "locking"]
    /\ madeOn' = [madeOn EXCEPT ![p] = day]
    /\ UNCHANGED <<balance, status, charge, countedOn, reversals, vfd, queue, alerted, env>>

\* Two debitForUpdate calls in one transaction: both must be covered.
Covers(w, amount, total) == balance[w] >= amount + total

\* The wallet is locked: the debit, counted against the limits of today.
InitiatePayout(p) ==
    LET w     == WalletOf[p]
        total == Charges(Amount[p], HasFreeSlot(w))
    IN  /\ pc[p]["request"] = "locking"
        /\ Covers(w, Amount[p], total)
        /\ WithinLimits(p)
        /\ balance' = [balance EXCEPT ![w] = @ - (Amount[p] + total)]
        /\ status' = [status EXCEPT ![p] = "PROCESSING"]
        /\ charge' = [charge EXCEPT ![p] = total]
        /\ countedOn' = [countedOn EXCEPT ![p] = day]
        /\ pc' = [pc EXCEPT ![p]["request"] = "sending"]
        /\ UNCHANGED <<madeOn, reversals, vfd, queue, alerted, env>>

\* Not covered or over a limit: all of it rolls back, and the request is over.
RefusePayout(p) ==
    LET w == WalletOf[p] IN
    /\ pc[p]["request"] = "locking"
    /\ ~(Covers(w, Amount[p], Charges(Amount[p], HasFreeSlot(w))) /\ WithinLimits(p))
    /\ pc' = [pc EXCEPT ![p]["request"] = "over"]
    /\ UNCHANGED <<ledger, vfd, queue, alerted, env>>

InitiateTransfer(p) ==
    /\ pc[p]["request"] = "sending"
    /\ pc' = [pc EXCEPT ![p]["request"] = "calling"]
    /\ vfd' = [vfd EXCEPT ![p] = "inflight"]
    /\ UNCHANGED <<ledger, queue, alerted, env>>

TransferAnswered(p) ==
    /\ pc[p]["request"] = "calling"
    /\ \E o \in Answers(TransferRows, vfd[p]) :
          pc' = [pc EXCEPT ![p]["request"] = o]
    /\ UNCHANGED <<ledger, vfd, queue, alerted, env>>

-----------------------------------------------------------------------------
(***************************************************************************)
(* The provider and the network (external).                                *)
(***************************************************************************)
TransferMoves(p) ==
    /\ \/ vfd[p] = "inflight" /\ \E f \in {"lost", "processing"} : vfd' = [vfd EXCEPT ![p] = f]
       \/ vfd[p] = "processing" /\ \E f \in {"paid", "refused", "blocked"} :
              vfd' = [vfd EXCEPT ![p] = f]
    /\ UNCHANGED <<ledger, pc, queue, alerted, env>>

\* Status 108, "No Transaction!": nothing came in under this reference.
NoTransaction(p) ==
    \/ vfd[p] \in {"none", "lost"}
    \/ vfd[p] = "inflight" /\ ~NoTransactionIsFinal

\* queryTransferStatus takes 108 for a final failure.
QueryAnswers(p) ==
    (IF NoTransaction(p) THEN {"FAILED"} ELSE {}) \cup Answers(StatusRows, vfd[p])

-----------------------------------------------------------------------------
(***************************************************************************)
(* syncPayoutStatus, run by the status worker and by staff: read the row   *)
(* without a lock, ask the provider.                                       *)
(***************************************************************************)
WorkerTakes(p) ==
    /\ job[p] = "waiting"
    /\ IF status[p] \in Terminal
       THEN /\ job' = [job EXCEPT ![p] = "completed"]
            /\ UNCHANGED pc
       ELSE /\ job' = [job EXCEPT ![p] = "active"]
            /\ pc' = [pc EXCEPT ![p]["worker"] = "asking"]
    /\ UNCHANGED <<ledger, vfd, tries, stalls, alerted, env>>

\* Re-query offered only once the worker gave up.
DeskRequeryAfterGivingUp(p, d) ==
    /\ pc[p][d] = "idle" /\ status[p] = "PROCESSING" /\ job[p] = "exhausted"
    /\ EarlyRequery \/ pc[p]["request"] = "over"
    /\ pc' = [pc EXCEPT ![p][d] = "asking"]
    /\ UNCHANGED <<ledger, vfd, queue, alerted, env>>

DeskRequery(p, d) ==
    /\ pc[p][d] = "idle" /\ status[p] = "PROCESSING"
    /\ EarlyRequery \/ pc[p]["request"] = "over"
    /\ pc' = [pc EXCEPT ![p][d] = "asking"]
    /\ UNCHANGED <<ledger, vfd, queue, alerted, env>>

QueryAnswered(p, a) ==
    /\ pc[p][a] = "asking"
    /\ \E o \in QueryAnswers(p) : pc' = [pc EXCEPT ![p][a] = o]
    /\ UNCHANGED <<ledger, vfd, queue, alerted, env>>

-----------------------------------------------------------------------------
(***************************************************************************)
(* How a run of an actor ends, and what that does to the status job.       *)
(***************************************************************************)
Leave(p, a) ==
    pc' = [pc EXCEPT ![p][a] = IF a = "request" THEN "over" ELSE "idle"]

Return(p, a) ==
    /\ Leave(p, a)
    /\ job' = IF a = "worker" THEN [job EXCEPT ![p] = "completed"] ELSE job
    /\ UNCHANGED <<tries, stalls>>

\* A thrown attempt is retried until Attempts are used up; then handleFailed
\* tells staff and leaves the payout PROCESSING.
FailAttempt(p) ==
    /\ tries' = [tries EXCEPT ![p] = @ + 1]
    /\ IF tries[p] + 1 < Attempts
       THEN job' = [job EXCEPT ![p] = "waiting"] /\ UNCHANGED alerted
       ELSE /\ job' = [job EXCEPT ![p] = "exhausted"]
            /\ alerted' = [alerted EXCEPT ![p] = TRUE]
    /\ UNCHANGED stalls

Throw(p, a) ==
    /\ Leave(p, a)
    /\ IF a = "worker" THEN FailAttempt(p) ELSE UNCHANGED <<queue, alerted>>

-----------------------------------------------------------------------------
(***************************************************************************)
(* Applying an outcome (applyTransferResult and syncPayoutStatus).         *)
(***************************************************************************)

\* The status is written whatever the row says by now.
ApplySuccessful(p, a) ==
    /\ pc[p][a] = "SUCCESSFUL"
    /\ status' = [status EXCEPT ![p] = "SUCCESSFUL"]
    /\ Return(p, a)
    /\ UNCHANGED <<balance, charge, madeOn, countedOn, reversals, vfd, alerted, env>>

\* reverseFailedPayout reads the row before anything is locked.
ReadForReversal(p, a) ==
    /\ pc[p][a] = "FAILED"
    /\ IF status[p] \in Terminal
       THEN Return(p, a)
       ELSE /\ pc' = [pc EXCEPT ![p][a] = "reversing"]
            /\ UNCHANGED queue
    /\ UNCHANGED <<ledger, vfd, alerted, env>>

\* No unique index on the reversal's reference.
RefundEveryTime(p, a) ==
    /\ pc[p][a] = "reversing"
    /\ balance' = [balance EXCEPT ![WalletOf[p]] = @ + Amount[p] + charge[p]]
    /\ status' = [status EXCEPT ![p] = "FAILED"]
    /\ reversals' = [reversals EXCEPT ![p] = @ + 1]
    /\ Return(p, a)
    /\ UNCHANGED <<charge, madeOn, countedOn, vfd, alerted, env>>

\* Under the wallet's lock: credit, mark FAILED, insert REV-<reference>.  The
\* row is not read again.
CommitReversal(p, a) ==
    /\ pc[p][a] = "reversing" /\ reversals[p] = 0
    /\ balance' = [balance EXCEPT ![WalletOf[p]] = @ + Amount[p] + charge[p]]
    /\ status' = [status EXCEPT ![p] = "FAILED"]
    /\ reversals' = [reversals EXCEPT ![p] = 1]
    /\ Return(p, a)
    /\ UNCHANGED <<charge, madeOn, countedOn, vfd, alerted, env>>

\* The reference of the reversal is taken: all of it rolls back and throws.
RollBackReversal(p, a) ==
    /\ pc[p][a] = "reversing" /\ reversals[p] # 0
    /\ Throw(p, a)
    /\ UNCHANGED <<ledger, vfd, env>>

HoldForReview(p, a) ==
    /\ pc[p][a] = "HOLD"
    /\ alerted' = [alerted EXCEPT ![p] = TRUE]
    /\ Return(p, a)
    /\ UNCHANGED <<ledger, vfd, env>>

\* The ambiguous answer of /transfer dropped instead of polled.
DropUnresolved(p) ==
    /\ pc[p]["request"] = "REQUERY"
    /\ Return(p, "request")
    /\ UNCHANGED <<ledger, vfd, alerted, env>>

\* Never guess: the request queues the status job ...
QueueStatusJob(p) ==
    /\ pc[p]["request"] = "REQUERY"
    /\ Leave(p, "request")
    /\ job' = [job EXCEPT ![p] = "waiting"]
    /\ UNCHANGED <<ledger, vfd, tries, stalls, alerted, env>>

\* ... the worker's attempt throws, and staff are told "unresolved".
StayUnresolved(p, a) ==
    /\ a # "request" /\ pc[p][a] = "REQUERY"
    /\ Throw(p, a)
    /\ UNCHANGED <<ledger, vfd, env>>

Resolve(p, a) ==
    \/ ApplySuccessful(p, a)
    \/ ReadForReversal(p, a) \/ CommitReversal(p, a) \/ RollBackReversal(p, a)
    \/ HoldForReview(p, a)
    \/ StayUnresolved(p, a)

-----------------------------------------------------------------------------
(***************************************************************************)
(* A run dies: the process stops, or a store it needs is gone.  Its open   *)
(* database transaction rolls back.  BullMQ runs the job of a dead worker  *)
(* again at most MaxStalls times; an error thrown counts as an attempt.    *)
(***************************************************************************)
Abort(p, a) ==
    /\ pc[p][a] \notin {"idle", "over"} /\ aborts[p] < MaxAborts
    /\ aborts' = [aborts EXCEPT ![p] = @ + 1]
    /\ \/ Throw(p, a)
       \/ /\ a = "worker"
          /\ Leave(p, a)
          /\ stalls' = [stalls EXCEPT ![p] = @ + 1]
          /\ job' = [job EXCEPT ![p] = IF stalls[p] < MaxStalls THEN "waiting" ELSE "stalled_out"]
          /\ UNCHANGED <<tries, alerted>>
    /\ UNCHANGED <<ledger, vfd, freeOn, day>>

SetFreePayouts ==
    /\ freeOn' = ~freeOn
    /\ UNCHANGED <<ledger, vfd, pc, queue, alerted, day, aborts>>

Midnight ==
    /\ day < LastDay
    /\ day' = day + 1
    /\ UNCHANGED <<ledger, vfd, pc, queue, alerted, freeOn, aborts>>

Request(p) ==
    \/ InitiatePayout(p) \/ RefusePayout(p)
    \/ InitiateTransfer(p) \/ TransferAnswered(p) \/ QueueStatusJob(p) \/ Resolve(p, "request")

Worker(p) == WorkerTakes(p) \/ QueryAnswered(p, "worker") \/ Resolve(p, "worker")

Desk(p, d) == QueryAnswered(p, d) \/ Resolve(p, d)

Next ==
    \/ \E p \in Payouts :
          \/ BeginPayout(p) \/ TransferMoves(p)
          \/ Request(p) \/ Worker(p)
          \/ \E d \in Desks : DeskRequery(p, d) \/ Desk(p, d)
          \/ \E a \in Actors : Abort(p, a)
    \/ SetFreePayouts \/ Midnight

Spec == Init /\ [][Next]_vars

-----------------------------------------------------------------------------
(***************************************************************************)
(* What the code promises.                                                 *)
(***************************************************************************)

\* The wallet's books, as this component keeps them: a payout's row is its debit
\* and its REV- row the refund.
Entry ==
    [p \in Payouts |->
        IF status[p] = "NONE" THEN [kind |-> "NONE"]
        ELSE [kind   |-> IF reversals[p] = 0 THEN "DEBIT" ELSE "REFUNDED",
              wallet |-> WalletOf[p],
              total  |-> Amount[p] + charge[p]]]

Totals == {Amount[p] + Charges(Amount[p], free) : p \in Payouts, free \in BOOLEAN}

Books == INSTANCE WalletLedger WITH Entries <- Payouts, entry <- Entry

\* Every step of a payout is a step of those books or leaves them alone: the
\* debit is covered and in full, and the refund is that debit, once, whoever
\* reverses it and whatever died before (initiatePayout, reverseFailedPayout).
KeepsTheBooks == Books!Spec

\* The provider will never move this payout's money: it refused it, lost it, or
\* was never sent it and never will be.
WillNeverBePaid(p) ==
    \/ vfd[p] \in {"lost", "refused"}
    \/ vfd[p] = "none" /\ pc[p]["request"] = "over"

\* A customer is never both refunded and paid for, and a transfer the provider
\* says not to reverse keeps its hold: a refund exists only for a payout whose
\* transfer can no longer happen, and SUCCESSFUL only for one that did
\* (applyTransferResult, syncPayoutStatus, reverseFailedPayout).
NeverRefundedAndPaid ==
    \A p \in Payouts :
        /\ reversals[p] # 0 => WillNeverBePaid(p)
        /\ status[p] = "SUCCESSFUL" => vfd[p] = "paid"

\* "No Transaction!" is "a confirmed, terminal failure" (queryTransferStatus):
\* what was refunded because of it is never paid out.
RefundedNeverPaid ==
    \A p \in Payouts : ~(reversals[p] # 0 /\ vfd[p] = "paid")

\* A payout is FAILED exactly when its one reversal row exists, whoever won the
\* race to reverse it (the status, the refund and the REV- row commit together).
FailedIffReversedOnce ==
    \A p \in Payouts : reversals[p] = IF status[p] = "FAILED" THEN 1 ELSE 0

\* Money neither appears nor vanishes: a wallet holds what it held at first less what
\* the payouts not yet reversed took, charges included, however requests, jobs and
\* staff interleave (initiatePayout, reverseFailedPayout).
Taken == [p \in Payouts |-> Amount[p] + charge[p]]
Unreversed(w) == {p \in PayoutsOf(w) : status[p] # "NONE" /\ reversals[p] = 0}

MoneyAccountedFor ==
    \A w \in Wallets :
        balance[w] = Funds[w] - SumFunctionOnSet(Taken, Unreversed(w))

\* The payouts that stand, of a wallet, made and counted on day d.
StandingOn(w, d) ==
    {p \in PayoutsOf(w) :
        status[p] \in {"PROCESSING", "SUCCESSFUL"} /\ madeOn[p] = d /\ countedOn[p] = d}

\* In no window do the payouts of a wallet that stand exceed its new-device limit,
\* and on no day do those made that day exceed its daily cap, for any number of
\* concurrent requests and later reversals, except by payouts that waited over
\* midnight for the wallet (assertWithinTransferLimit, checkCaps).
WithinCaps ==
    \A w \in Wallets :
        /\ OutflowSince(w, 0) <= DeviceCap[w]
        /\ EnforceCaps => \A d \in 0..LastDay :
              SumFunctionOnSet(Amount, StandingOn(w, d)) <= DailyCap[w]

Free(p) == charge[p] = Charges(Amount[p], TRUE)

\* No wallet keeps more free payouts in a day than the rule gives: a failed one
\* returns its slot, two concurrent ones never share the last, but for such a wait
\* (payoutCharges).
FreePayoutsPerDayKept ==
    \A w \in Wallets, d \in 0..LastDay :
        Cardinality({p \in StandingOn(w, d) : Free(p)}) <= FreePerDay

\* "After the wallet row is locked, so two concurrent payouts can't both squeeze
\* under the cap or both take the last free slot" (initiatePayout): no exception.
NoneSqueezesThrough ==
    \A w \in Wallets, d \in 0..LastDay :
        LET standing == {p \in PayoutsOf(w) :
                            status[p] \in {"PROCESSING", "SUCCESSFUL"} /\ madeOn[p] = d} IN
        /\ EnforceCaps => SumFunctionOnSet(Amount, standing) <= DailyCap[w]
        /\ Cardinality({p \in standing : Free(p)}) <= FreePerDay

\* Every limit holds at once, whatever interleaving of requests, failures and
\* refunds took a slot or a part of a cap and gave it back; only a payout that
\* began before midnight and got the wallet after it escapes both days' counts.
LimitsKept == WithinCaps /\ FreePayoutsPerDayKept

\* "A payout that already reached SUCCESSFUL/FAILED is left alone"
\* (payouts.service.ts, on syncPayoutStatus): no later answer, retry or staff
\* re-query changes a final status.
FinalIsLeftAlone ==
    [][\A p \in Payouts : status[p] \in Terminal => status'[p] = status[p]]_status

-----------------------------------------------------------------------------
(***************************************************************************)
(* Progress.  The runtime keeps a live request, the worker and an open     *)
(* desk run going, and a transfer eventually arrives or is lost, and is    *)
(* decided.  Customers, staff, aborts and the calendar owe nothing.        *)
(***************************************************************************)
Fairness ==
    \A p \in Payouts :
        /\ WF_vars(TransferMoves(p))
        /\ WF_vars(Request(p))
        /\ WF_vars(Worker(p))
        /\ \A d \in Desks : WF_vars(Desk(p, d))

FairSpec == Spec /\ Fairness

\* Nobody is left to settle the payout: its request died, or its job stalled out.
Orphaned(p) ==
    /\ aborts[p] > 0 /\ pc[p]["request"] = "over"
    /\ job[p] \in {"none", "stalled_out"}

\* Every debit ends SUCCESSFUL, FAILED with its refund, or in front of staff --
\* unless every run that carried it died (applyTransferResult hands each answer
\* on; the worker retries or raises the alert).
SettledOrEscalated ==
    \A p \in Payouts :
        status[p] = "PROCESSING" ~> status[p] \in Terminal \/ alerted[p] \/ Orphaned(p)

\* A desk run gets an answer that decides.
DecisiveAnswer(p, d) == QueryAnswered(p, d) /\ pc'[p][d] # "REQUERY"

\* Staff who keep re-querying, and reach the provider often enough.
DiligentStaff ==
    \A p \in Payouts : \E d \in Desks :
        WF_vars(DeskRequery(p, d)) /\ SF_vars(DecisiveAnswer(p, d))

\* Whatever died on the way, the re-query of diligent staff settles every
\* payout the provider has not put on hold (InternalController.requery).
StaffCanSettle ==
    DiligentStaff =>
        \A p \in Payouts :
            status[p] = "PROCESSING" ~> status[p] \in Terminal \/ vfd[p] = "blocked"
=============================================================================
