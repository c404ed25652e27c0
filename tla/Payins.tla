------------------------------- MODULE Payins -------------------------------
(***************************************************************************)
(* Incoming transfers of the payment service: VFD's inward-credit webhook  *)
(* (WebhooksService), the deposit it records (TransactionsService) and the *)
(* job that credits the wallet (TransactionsProcessor).                    *)
(*                                                                         *)
(* A webhook is only a claim: it is confirmed by a status query, recorded  *)
(* once under VFD's reference, and credited by a BullMQ worker that reads  *)
(* the row, marks it and credits it in three separate statements.  Several *)
(* deliveries of one webhook, and several workers, may run at once, and    *)
(* each may die between any two steps.                                     *)
(*                                                                         *)
(* A deposit stands for its reference and its row.                         *)
(***************************************************************************)
EXTENDS Integers, VfdCodes

CONSTANTS
    Wallets, Deposits,
    Handlers,     \* concurrent deliveries of one webhook
    Workers,      \* processes that run the crediting queue
    WalletOf,     \* the wallet whose account a deposit is sent to
    Amount, Funds,
    Attempts,     \* BullMQ attempts of the crediting job
    MaxStalls,    \* how often BullMQ hands on a job whose lock lapsed
    MaxExtra,     \* bound on deliveries nobody asked for, by deposit
    MaxAborts,    \* bound on the runs that go wrong, by deposit
    RecordLags,   \* may a status query miss a transfer that is under way or done?
    Overlap       \* may a worker that lost its job's lock go on?

ASSUME PayinsAssumption ==
    /\ WalletOf \in [Deposits -> Wallets]
    /\ Amount \in [Deposits -> Nat \ {0}]
    /\ Funds \in [Wallets -> Nat]
    /\ Attempts \in Nat \ {0}
    /\ {MaxStalls, MaxExtra, MaxAborts} \subseteq Nat
    /\ {RecordLags, Overlap} \subseteq BOOLEAN

VARIABLES
    balance,   \* wallets.balance
    status,    \* transactions.status of the DEPOSIT row, NONE before the insert
    vfd,       \* the transfer at VFD
    agrees,    \* does VFD's record agree with what its webhook says of it?
    active,    \* is the account it was sent to one of our ACTIVE addresses yet?
    hook,      \* where each delivery of the webhook is
    answered,  \* did VFD get a 2xx for it?
    job,       \* the crediting job in BullMQ
    holder,    \* the worker that holds its lock, or took it last
    work,      \* where each worker is with the job
    tries, stalls,
    alerted,   \* were staff told that the deposit could not be credited?
    extra, aborts,
    credited,  \* history: how often the wallet was credited for the deposit
    unsure     \* history: did a worker not hear that its commit succeeded?

rows  == <<balance, status, credited>>
hooks == <<hook, answered, extra>>
queue == <<job, holder, tries, stalls>>
bank  == <<vfd, agrees, active>>
vars  == <<rows, bank, hooks, queue, work, alerted, aborts, unsure>>

Statuses   == {"NONE", "PENDING", "PROCESSING", "SUCCESSFUL", "FAILED", "UNMATCHED"}
Terminal   == {"SUCCESSFUL", "FAILED"}
HookPhases == {"idle", "asking", "recording", "matched", "unmatched", "enqueueing"}
WorkPhases == {"idle", "marking", "crediting", "failing"}
Jobs       == {"none", "waiting", "active", "completed", "exhausted", "stalled_out"}
Fates      == {"none", "processing", "paid", "refused", "blocked"}

\* Every state is well typed; crediting never leaves a balance negative.
TypeOK ==
    /\ balance \in [Wallets -> Nat]
    /\ status \in [Deposits -> Statuses]
    /\ vfd \in [Deposits -> Fates]
    /\ agrees \in [Deposits -> BOOLEAN] /\ active \in [Deposits -> BOOLEAN]
    /\ hook \in [Deposits -> [Handlers -> HookPhases \cup Outcomes]]
    /\ answered \in [Deposits -> BOOLEAN]
    /\ job \in [Deposits -> Jobs]
    /\ holder \in [Deposits -> Workers \cup {"nobody"}]
    /\ work \in [Deposits -> [Workers -> WorkPhases]]
    /\ tries \in [Deposits -> Nat] /\ stalls \in [Deposits -> Nat]
    /\ alerted \in [Deposits -> BOOLEAN]
    /\ extra \in [Deposits -> Nat] /\ aborts \in [Deposits -> Nat]
    /\ credited \in [Deposits -> Nat]
    /\ unsure \in [Deposits -> BOOLEAN]

Init ==
    /\ balance = Funds
    /\ status = [d \in Deposits |-> "NONE"]
    /\ vfd = [d \in Deposits |-> "none"]
    /\ agrees \in [Deposits -> BOOLEAN]
    /\ active = [d \in Deposits |-> FALSE]
    /\ hook = [d \in Deposits |-> [h \in Handlers |-> "idle"]]
    /\ answered = [d \in Deposits |-> FALSE]
    /\ job = [d \in Deposits |-> "none"]
    /\ holder = [d \in Deposits |-> "nobody"]
    /\ work = [d \in Deposits |-> [k \in Workers |-> "idle"]]
    /\ tries = [d \in Deposits |-> 0] /\ stalls = [d \in Deposits |-> 0]
    /\ alerted = [d \in Deposits |-> FALSE]
    /\ extra = [d \in Deposits |-> 0] /\ aborts = [d \in Deposits |-> 0]
    /\ credited = [d \in Deposits |-> 0]
    /\ unsure = [d \in Deposits |-> FALSE]

-----------------------------------------------------------------------------
(***************************************************************************)
(* VFD and the accounts it holds for us (external).                        *)
(***************************************************************************)
TransferMoves(d) ==
    /\ \/ vfd[d] = "none" /\ vfd' = [vfd EXCEPT ![d] = "processing"]
       \/ vfd[d] = "processing"
          /\ \E f \in {"paid", "refused", "blocked"} : vfd' = [vfd EXCEPT ![d] = f]
    /\ UNCHANGED <<rows, agrees, active, hooks, queue, work, alerted, aborts, unsure>>

\* The account's address row is inserted after VFD created the account, so a
\* deposit may come in before it.
InsertActiveAddress(d) ==
    /\ ~active[d]
    /\ active' = [active EXCEPT ![d] = TRUE]
    /\ UNCHANGED <<rows, vfd, agrees, hooks, queue, work, alerted, aborts, unsure>>

\* 108 is read as FAILED; otherwise the record answers.
TsqAnswers(d) ==
    (IF vfd[d] = "none" \/ RecordLags THEN {"FAILED"} ELSE {}) \cup Answers(StatusRows, vfd[d])

-----------------------------------------------------------------------------
(***************************************************************************)
(* A delivery of the webhook: log it, confirm it, record it, enqueue it.   *)
(***************************************************************************)
Move(d, h, phase) == hook' = [hook EXCEPT ![d][h] = phase]

\* Anything but an exception answers 200.
Respond(d, h) ==
    /\ Move(d, h, "idle")
    /\ answered' = [answered EXCEPT ![d] = TRUE]

\* VFD delivers until it gets a 2xx, and may deliver again at any time.
Deliver(d, h) ==
    /\ hook[d][h] = "idle" /\ vfd[d] # "none"
    /\ \/ ~answered[d] /\ (\A g \in Handlers : hook[d][g] = "idle") /\ UNCHANGED extra
       \/ extra[d] < MaxExtra /\ extra' = [extra EXCEPT ![d] = @ + 1]
    /\ Move(d, h, "asking")
    /\ UNCHANGED <<rows, bank, answered, queue, work, alerted, aborts, unsure>>

TsqAnswered(d, h) ==
    /\ hook[d][h] = "asking"
    /\ \E o \in TsqAnswers(d) : Move(d, h, o)
    /\ UNCHANGED <<rows, bank, answered, extra, queue, work, alerted, aborts, unsure>>

\* An inconclusive query answered 200.
AcceptForNow(d, h) ==
    /\ hook[d][h] = "REQUERY"
    /\ Respond(d, h)
    /\ UNCHANGED <<rows, bank, extra, queue, work, alerted, aborts, unsure>>

\* Inconclusive: 503, so that VFD delivers again.
RefuseForNow(d, h) ==
    /\ hook[d][h] = "REQUERY"
    /\ Move(d, h, "idle")
    /\ UNCHANGED <<rows, bank, answered, extra, queue, work, alerted, aborts, unsure>>

\* Not confirmed, or confirmed with another amount or account: noted, 200.
Drop(d, h) ==
    /\ \/ hook[d][h] \in {"FAILED", "HOLD"}
       \/ hook[d][h] = "SUCCESSFUL" /\ ~agrees[d]
    /\ Respond(d, h)
    /\ UNCHANGED <<rows, bank, extra, queue, work, alerted, aborts, unsure>>

\* The claim trusted while the query says nothing.
VerifiedOrUnclear(d, h) ==
    /\ hook[d][h] \in {"SUCCESSFUL", "REQUERY"} /\ agrees[d]
    /\ Move(d, h, "recording")
    /\ UNCHANGED <<rows, bank, answered, extra, queue, work, alerted, aborts, unsure>>

Verified(d, h) ==
    /\ hook[d][h] = "SUCCESSFUL" /\ agrees[d]
    /\ Move(d, h, "recording")
    /\ UNCHANGED <<rows, bank, answered, extra, queue, work, alerted, aborts, unsure>>

\* recordPayin looks the account up before it inserts the row.
FindAddress(d, h) ==
    /\ hook[d][h] = "recording"
    /\ Move(d, h, IF active[d] THEN "matched" ELSE "unmatched")
    /\ UNCHANGED <<rows, bank, answered, extra, queue, work, alerted, aborts, unsure>>

\* A second delivery enqueues the row it finds.
EnqueueDuplicate(d, h) ==
    /\ hook[d][h] = "matched"
    /\ status' = [status EXCEPT ![d] = IF @ = "NONE" THEN "PENDING" ELSE @]
    /\ Move(d, h, "enqueueing")
    /\ UNCHANGED <<balance, credited, bank, answered, extra, queue, work, alerted,
                   aborts, unsure>>

InsertMatched(d, h) ==
    /\ hook[d][h] = "matched" /\ status[d] = "NONE"
    /\ status' = [status EXCEPT ![d] = "PENDING"]
    /\ Move(d, h, "enqueueing")
    /\ UNCHANGED <<balance, credited, bank, answered, extra, queue, work, alerted,
                   aborts, unsure>>

InsertUnmatched(d, h) ==
    /\ hook[d][h] = "unmatched" /\ status[d] = "NONE"
    /\ status' = [status EXCEPT ![d] = "UNMATCHED"]
    /\ Respond(d, h)
    /\ UNCHANGED <<balance, credited, bank, extra, queue, work, alerted, aborts, unsure>>

\* orIgnore on (provider, reference): a duplicate is a no-op.
IgnoreDuplicate(d, h) ==
    /\ hook[d][h] \in {"matched", "unmatched"} /\ status[d] # "NONE"
    /\ Respond(d, h)
    /\ UNCHANGED <<rows, bank, extra, queue, work, alerted, aborts, unsure>>

Enqueue(d, h) ==
    /\ hook[d][h] = "enqueueing"
    /\ job' = [job EXCEPT ![d] = "waiting"]
    /\ Respond(d, h)
    /\ UNCHANGED <<rows, bank, extra, holder, tries, stalls, work, alerted, aborts, unsure>>

Handle(d, h) ==
    \/ TsqAnswered(d, h) \/ RefuseForNow(d, h) \/ Drop(d, h) \/ Verified(d, h)
    \/ FindAddress(d, h)
    \/ InsertMatched(d, h) \/ InsertUnmatched(d, h) \/ IgnoreDuplicate(d, h)
    \/ Enqueue(d, h)

-----------------------------------------------------------------------------
(***************************************************************************)
(* The crediting job.  Only the run that holds the job's lock decides what *)
(* becomes of the job.                                                     *)
(***************************************************************************)
Step(d, k, phase) == work' = [work EXCEPT ![d][k] = phase]

Return(d, k) ==
    /\ Step(d, k, "idle")
    /\ job' = IF holder[d] = k THEN [job EXCEPT ![d] = "completed"] ELSE job
    /\ UNCHANGED <<holder, tries, stalls>>

\* Retried until Attempts are used up; then the failed event is handled.
Throw(d, k) ==
    /\ IF holder[d] # k
       THEN Step(d, k, "idle") /\ UNCHANGED <<job, tries>>
       ELSE /\ tries' = [tries EXCEPT ![d] = @ + 1]
            /\ IF tries[d] + 1 < Attempts
               THEN Step(d, k, "idle") /\ job' = [job EXCEPT ![d] = "waiting"]
               ELSE Step(d, k, "failing") /\ job' = [job EXCEPT ![d] = "exhausted"]
    /\ UNCHANGED <<holder, stalls>>

\* The row is read; a terminal one is left alone.
TakeAnything(d, k) ==
    /\ job[d] = "waiting" /\ work[d][k] = "idle"
    /\ job' = [job EXCEPT ![d] = "active"] /\ Step(d, k, "marking")
    /\ holder' = [holder EXCEPT ![d] = k]
    /\ UNCHANGED <<rows, bank, hooks, tries, stalls, alerted, aborts, unsure>>

Take(d, k) ==
    /\ job[d] = "waiting" /\ work[d][k] = "idle"
    /\ IF status[d] \in Terminal
       THEN job' = [job EXCEPT ![d] = "completed"] /\ UNCHANGED work
       ELSE job' = [job EXCEPT ![d] = "active"] /\ Step(d, k, "marking")
    /\ holder' = [holder EXCEPT ![d] = k]
    /\ UNCHANGED <<rows, bank, hooks, tries, stalls, alerted, aborts, unsure>>

\* ... whatever the row says by now.
MarkProcessing(d, k) ==
    /\ work[d][k] = "marking"
    /\ status' = [status EXCEPT ![d] = "PROCESSING"]
    /\ Step(d, k, "crediting")
    /\ UNCHANGED <<balance, credited, bank, hooks, queue, alerted, aborts, unsure>>

\* One transaction.  The worker may lose its connection after the commit and
\* take it for a failure.
Credit(d, k) ==
    /\ work[d][k] = "crediting"
    /\ balance' = [balance EXCEPT ![WalletOf[d]] = @ + Amount[d]]
    /\ status' = [status EXCEPT ![d] = "SUCCESSFUL"]
    /\ credited' = [credited EXCEPT ![d] = @ + 1]
    /\ \/ Return(d, k) /\ UNCHANGED <<unsure, aborts>>
       \/ /\ aborts[d] < MaxAborts
          /\ Throw(d, k)
          /\ unsure' = [unsure EXCEPT ![d] = TRUE]
          /\ aborts' = [aborts EXCEPT ![d] = @ + 1]
    /\ UNCHANGED <<bank, hooks, alerted>>

\* Staff are told, and the row is marked FAILED whatever it says.
HandleFailed(d, k) ==
    /\ work[d][k] = "failing"
    /\ alerted' = [alerted EXCEPT ![d] = TRUE]
    /\ status' = [status EXCEPT ![d] = "FAILED"]
    /\ Step(d, k, "idle")
    /\ UNCHANGED <<balance, credited, bank, hooks, queue, aborts, unsure>>

Work(d, k) ==
    Take(d, k) \/ MarkProcessing(d, k) \/ Credit(d, k) \/ HandleFailed(d, k)

-----------------------------------------------------------------------------
(***************************************************************************)
(* What goes wrong: a delivery dies or throws (VFD gets no 2xx); a worker  *)
(* throws before its commit, dies, or loses the job's lock.                *)
(***************************************************************************)
AbortDelivery(d, h) ==
    /\ hook[d][h] # "idle" /\ aborts[d] < MaxAborts
    /\ aborts' = [aborts EXCEPT ![d] = @ + 1]
    /\ Move(d, h, "idle")
    /\ UNCHANGED <<rows, bank, answered, extra, queue, work, alerted, unsure>>

\* BullMQ hands the job on at most MaxStalls times.
LoseLock(d, k) ==
    /\ \E phase \in {"idle"} \cup (IF Overlap THEN {work[d][k]} ELSE {}) : Step(d, k, phase)
    /\ IF holder[d] = k /\ job[d] = "active"
       THEN /\ stalls' = [stalls EXCEPT ![d] = @ + 1]
            /\ job' = [job EXCEPT ![d] = IF stalls[d] < MaxStalls THEN "waiting" ELSE "stalled_out"]
       ELSE UNCHANGED <<job, stalls>>
    /\ UNCHANGED <<holder, tries>>

AbortWork(d, k) ==
    /\ work[d][k] # "idle" /\ aborts[d] < MaxAborts
    /\ aborts' = [aborts EXCEPT ![d] = @ + 1]
    /\ LoseLock(d, k) \/ (work[d][k] # "failing" /\ Throw(d, k))
    /\ UNCHANGED <<rows, bank, hooks, alerted, unsure>>

Next ==
    \E d \in Deposits :
        \/ TransferMoves(d) \/ InsertActiveAddress(d)
        \/ \E h \in Handlers : Deliver(d, h) \/ Handle(d, h) \/ AbortDelivery(d, h)
        \/ \E k \in Workers : Work(d, k) \/ AbortWork(d, k)

Spec == Init /\ [][Next]_vars

-----------------------------------------------------------------------------
(***************************************************************************)
(* What the code promises.                                                 *)
(***************************************************************************)

\* A deposit is credited only on VFD's word: never on a webhook alone, on one
\* whose status query was inconclusive or refused, or whose figures disagree
\* (handleVfdInwardCredit), whichever delivery and worker got it that far.
NeverCreditedUnconfirmed ==
    \A d \in Deposits : credited[d] > 0 => vfd[d] = "paid" /\ agrees[d]

\* The row tells what happened to the money, unless a worker could not know: a
\* credited deposit is SUCCESSFUL, and one marked PENDING, PROCESSING or FAILED
\* has not been credited (TransactionsProcessor.run, handleFailed).
StatusTellsCredit ==
    \A d \in Deposits :
        /\ status[d] = "SUCCESSFUL" => credited[d] = 1
        /\ credited[d] > 0 => status[d] = "SUCCESSFUL" \/ unsure[d]

\* "It's re-processing the same row, not re-inserting one", so retries are
\* "without any risk of double-crediting" (transaction.entity.ts, on the row).
CreditedAtMostOnce == \A d \in Deposits : credited[d] <= 1

\* The wallet's books, as this component keeps them.
Entry ==
    [d \in Deposits |->
        IF credited[d] = 0 THEN [kind |-> "NONE"]
        ELSE [kind |-> "CREDIT", wallet |-> WalletOf[d], total |-> Amount[d]]]

Books == INSTANCE WalletLedger WITH
            Entries <- Deposits, Totals <- {Amount[d] : d \in Deposits}, entry <- Entry

\* Every deposit moves its money once, in full, to the wallet its account
\* belongs to, whatever is delivered twice, retried or killed (recordPayin, run).
KeepsTheBooks == Books!Spec

-----------------------------------------------------------------------------
(***************************************************************************)
(* Progress.  VFD delivers until it is answered and its record is readable *)
(* often enough; live deliveries and workers go on.                        *)
(***************************************************************************)
Confirmed(d, h) == TsqAnswered(d, h) /\ hook'[d][h] = "SUCCESSFUL"

Fairness ==
    \A d \in Deposits :
        /\ WF_vars(\E h \in Handlers : Deliver(d, h))
        /\ \A h \in Handlers : WF_vars(Handle(d, h)) /\ SF_vars(Confirmed(d, h))
        /\ WF_vars(\E k \in Workers : Take(d, k))
        /\ \A k \in Workers : WF_vars(Work(d, k))

FairSpec == Spec /\ Fairness

\* Something that carried the deposit died, and nothing carries it any more.
Stranded(d) ==
    /\ aborts[d] > 0
    /\ status[d] \in {"PENDING", "PROCESSING"} /\ job[d] \in {"none", "exhausted", "stalled_out"}

\* A deposit VFD paid out ends credited, or where staff see it (UNMATCHED, or
\* FAILED with an alert), unless the figures disagree or what carried it died
\* (handleVfdInwardCredit refuses with 503 what it cannot confirm yet).
DepositLands ==
    \A d \in Deposits :
        vfd[d] = "paid" /\ agrees[d] ~>
            \/ status[d] \in {"SUCCESSFUL", "UNMATCHED"}
            \/ status[d] = "FAILED" /\ alerted[d]
            \/ Stranded(d)
=============================================================================
