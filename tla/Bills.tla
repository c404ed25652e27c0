-------------------------------- MODULE Bills -------------------------------
(***************************************************************************)
(* Bill payments of the payment service (BillsService and its status and   *)
(* token worker) against VFD's bills API, and what the staff "re-query"    *)
(* does to them.                                                           *)
(*                                                                         *)
(* A bill is debited and sent like a payout, but its outcome is asked of   *)
(* another API.  A paid electricity bill is worth nothing without the      *)
(* token VFD issues for it, possibly later: the receipt is held back until *)
(* a second job has fetched the token or given up.                         *)
(*                                                                         *)
(* The staff endpoint was made for payouts and accepts every debit: for a  *)
(* bill it asks the transfer API.                                          *)
(***************************************************************************)
EXTENDS Integers, FiniteSets, Functions, VfdCodes

CONSTANTS
    Wallets, Bills, Desks,
    WalletOf, Amount,
    Fee,                  \* feeFor(biller), VAT included
    Electric,             \* the bills that are paid for with a token
    Funds, DailyCap,      \* the calendar stands still
    Attempts,             \* BullMQ attempts of the status job
    TokenAttempts,        \* ... and of the token job
    MaxStalls,            \* BullMQ's maxStalledCount
    MaxAborts,            \* bound on the runs that go wrong
    TransferApiKnowsBills, \* does VFD's transfer query know bill payments?
    NoTransactionIsFinal  \* does VFD never execute what it answered 108 for?

ASSUME BillsAssumption ==
    /\ Desks \cap {"request", "worker"} = {}
    /\ WalletOf \in [Bills -> Wallets]
    /\ Amount \in [Bills -> Nat \ {0}] /\ Fee \in [Bills -> Nat]
    /\ Electric \subseteq Bills
    /\ Funds \in [Wallets -> Nat] /\ DailyCap \in [Wallets -> Nat]
    /\ {Attempts, TokenAttempts} \subseteq Nat \ {0} 
    /\ {MaxStalls, MaxAborts} \subseteq Nat
    /\ {TransferApiKnowsBills, NoTransactionIsFinal} \subseteq BOOLEAN

VARIABLES
    balance,   \* wallets.balance
    status,    \* transactions.status of the BILL_PAYMENT row, NONE before the insert
    reversals, \* the number of REV-<reference> rows
    token,     \* bill.token of the row
    vfd,       \* the bill at VFD
    issued,    \* has VFD issued its token?
    pc,        \* where the request, the status worker and each desk are
    got,       \* did the answer they hold carry the token?
    job, tries,        \* the status job
    tokenJob, fetches, \* the token job: waiting, or where its run is
    stalls,    \* the deaths of a worker, by job
    receipt,   \* the receipt whose email was handed to the notification queue
    alerted,   \* were staff told?
    byDesk,    \* history: did a staff re-query settle the bill?
    aborts

ledger == <<balance, status, reversals>>
queue  == <<job, tries>>
tokens == <<tokenJob, fetches>>
env    == <<byDesk, stalls, aborts>>
news   == <<receipt, alerted>>
bank   == <<vfd, issued>>
vars   == <<ledger, token, bank, pc, got, queue, tokens, news, env>>

Actors   == {"request", "worker"} \cup Desks
Terminal == {"SUCCESSFUL", "FAILED"}
Statuses == {"NONE", "PROCESSING"} \cup Terminal
Phases   == {"idle", "sending", "calling", "asking", "queueing", "reversing", "over"} \cup Outcomes
Jobs     == {"none", "waiting", "active", "completed", "exhausted", "stalled_out"}
Runs     == {"none", "waiting", "asking", "mailing", "failing", "telling", "completed",
             "exhausted", "stalled_out"}
Fates    == {"none", "inflight", "lost", "processing", "paid", "refused"}

\* Every state is well typed; no balance is ever negative.
TypeOK ==
    /\ balance \in [Wallets -> Nat]
    /\ status \in [Bills -> Statuses]
    /\ reversals \in [Bills -> Nat]
    /\ token \in [Bills -> BOOLEAN]
    /\ vfd \in [Bills -> Fates] /\ issued \in [Bills -> BOOLEAN]
    /\ pc \in [Bills -> [Actors -> Phases]]
    /\ got \in [Bills -> [Actors -> BOOLEAN]]
    /\ job \in [Bills -> Jobs] /\ tries \in [Bills -> Nat]
    /\ tokenJob \in [Bills -> Runs] /\ fetches \in [Bills -> Nat]
    /\ receipt \in [Bills -> {"none", "complete", "token missing"}]
    /\ alerted \in [Bills -> BOOLEAN] /\ byDesk \in [Bills -> BOOLEAN]
    /\ stalls \in [Bills -> [{"status", "token"} -> Nat]]
    /\ aborts \in [Bills -> Nat]

Each(x) == [b \in Bills |-> x]

Init ==
    /\ balance = Funds
    /\ status = Each("NONE") /\ reversals = Each(0) /\ token = Each(FALSE)
    /\ vfd = Each("none") /\ issued = Each(FALSE)
    /\ pc = Each([a \in Actors |-> "idle"])
    /\ got = Each([a \in Actors |-> FALSE])
    /\ job = Each("none") /\ tries = Each(0)
    /\ tokenJob = Each("none") /\ fetches = Each(0)
    /\ receipt = Each("none") /\ alerted = Each(FALSE) /\ byDesk = Each(FALSE)
    /\ stalls = Each([j \in {"status", "token"} |-> 0]) /\ aborts = Each(0)

-----------------------------------------------------------------------------
(***************************************************************************)
(* VFD's bills API (external).                                             *)
(***************************************************************************)
BillMoves(b) ==
    /\ \/ vfd[b] = "inflight" /\ \E f \in {"lost", "processing"} : vfd' = [vfd EXCEPT ![b] = f]
       \/ vfd[b] = "processing" /\ \E f \in {"paid", "refused"} : vfd' = [vfd EXCEPT ![b] = f]
    /\ UNCHANGED <<ledger, token, issued, pc, got, queue, tokens, news, env>>

IssueToken(b) ==
    /\ b \in Electric /\ vfd[b] = "paid" /\ ~issued[b]
    /\ issued' = [issued EXCEPT ![b] = TRUE]
    /\ UNCHANGED <<ledger, token, vfd, pc, got, queue, tokens, news, env>>

\* billOutcome: 00 and 99 decide, anything else is REQUERY.
BillAnswers(b) ==
    {"REQUERY"} \cup (IF vfd[b] = "paid" THEN {"SUCCESSFUL"} ELSE {})
                \cup (IF vfd[b] = "refused" THEN {"FAILED"} ELSE {})

\* Status 108, "No Transaction!".
NoTransaction(b) ==
    vfd[b] \in {"none", "lost"} \/ (vfd[b] = "inflight" /\ ~NoTransactionIsFinal)

\* A pending bill refunded like a refused one.
BillQueryAnswersGuessed(b) ==
    BillAnswers(b) \cup
        (IF NoTransaction(b) \/ vfd[b] = "processing" THEN {"FAILED"} ELSE {})

BillQueryAnswers(b) == BillAnswers(b) \cup (IF NoTransaction(b) THEN {"FAILED"} ELSE {})

TransferQueryAnswers(b) ==
    IF TransferApiKnowsBills THEN BillQueryAnswers(b) ELSE {"FAILED", "REQUERY"}

-----------------------------------------------------------------------------
(***************************************************************************)
(* payBill: debit, pay, learn the answer.                                  *)
(***************************************************************************)
Total(b) == Amount[b] + Fee[b]

Outflow(w) ==
    SumFunctionOnSet(Amount,
        {b \in Bills : WalletOf[b] = w /\ status[b] \in {"PROCESSING", "SUCCESSFUL"}})

\* Debit, caps and row in one transaction under the wallet's lock.
PayBill(b) ==
    LET w == WalletOf[b] IN
    /\ status[b] = "NONE" /\ pc[b]["request"] = "idle"
    /\ balance[w] >= Total(b) /\ Outflow(w) + Amount[b] <= DailyCap[w]
    /\ balance' = [balance EXCEPT ![w] = @ - Total(b)]
    /\ status' = [status EXCEPT ![b] = "PROCESSING"]
    /\ pc' = [pc EXCEPT ![b]["request"] = "sending"]
    /\ UNCHANGED <<reversals, token, bank, got, queue, tokens, news, env>>

Go(b, a, phase) == pc' = [pc EXCEPT ![b][a] = phase]

SendToProvider(b) ==
    /\ pc[b]["request"] = "sending"
    /\ Go(b, "request", "calling")
    /\ vfd' = [vfd EXCEPT ![b] = "inflight"]
    /\ UNCHANGED <<ledger, token, issued, got, queue, tokens, news, env>>

\* An answer may carry the token once it is issued; after a success without
\* one the request asks once more, best effort.
Learn(b, a, outcomes) ==
    \E o \in outcomes, t \in {FALSE, issued[b]} :
        /\ t => o = "SUCCESSFUL"
        /\ Go(b, a, o)
        /\ got' = [got EXCEPT ![b][a] = t]

PayAnswered(b) ==
    /\ pc[b]["request"] = "calling"
    /\ Learn(b, "request", BillAnswers(b))
    /\ UNCHANGED <<ledger, token, bank, queue, tokens, news, env>>

-----------------------------------------------------------------------------
(***************************************************************************)
(* syncBillStatus, run by the worker; syncPayoutStatus, run by staff.      *)
(***************************************************************************)
WorkerTakes(b) ==
    /\ job[b] = "waiting"
    /\ IF status[b] \in Terminal
       THEN job' = [job EXCEPT ![b] = "completed"] /\ UNCHANGED pc
       ELSE job' = [job EXCEPT ![b] = "active"] /\ Go(b, "worker", "asking")
    /\ UNCHANGED <<ledger, token, bank, got, tries, tokens, news, env>>

\* Any debit that is not MANUAL is accepted; staff wait for the request.
DeskRequery(b, d) ==
    /\ pc[b][d] = "idle" /\ status[b] = "PROCESSING" /\ pc[b]["request"] = "over"
    /\ Go(b, d, "asking")
    /\ UNCHANGED <<ledger, token, bank, got, queue, tokens, news, env>>

WorkerAnswered(b) ==
    /\ pc[b]["worker"] = "asking"
    /\ Learn(b, "worker", BillQueryAnswers(b))
    /\ UNCHANGED <<ledger, token, bank, queue, tokens, news, env>>

DeskAnswered(b, d) ==
    /\ pc[b][d] = "asking"
    /\ \E o \in TransferQueryAnswers(b) : Go(b, d, o)
    /\ UNCHANGED <<ledger, token, bank, got, queue, tokens, news, env>>

-----------------------------------------------------------------------------
(***************************************************************************)
(* How a run ends, and what that does to the status job.                   *)
(***************************************************************************)
Leave(b, a) == Go(b, a, IF a = "request" THEN "over" ELSE "idle")

Return(b, a) ==
    /\ Leave(b, a)
    /\ job' = IF a = "worker" THEN [job EXCEPT ![b] = "completed"] ELSE job
    /\ UNCHANGED tries

Throw(b, a) ==
    /\ Leave(b, a)
    /\ IF a # "worker" THEN UNCHANGED <<queue, alerted>>
       ELSE /\ tries' = [tries EXCEPT ![b] = @ + 1]
            /\ IF tries[b] + 1 < Attempts
               THEN job' = [job EXCEPT ![b] = "waiting"] /\ UNCHANGED alerted
               ELSE /\ job' = [job EXCEPT ![b] = "exhausted"]
                    /\ alerted' = [alerted EXCEPT ![b] = TRUE]

-----------------------------------------------------------------------------
(***************************************************************************)
(* Applying an outcome.                                                    *)
(***************************************************************************)
\* An email is best effort: without an answer of auth, a contact or a queue it is
\* logged, and nobody is told.
MayEmail(b, r) == receipt' \in {receipt, [receipt EXCEPT ![b] = r]}

Holds(b, a) == b \in Electric /\ ~token[b] /\ ~got[b][a]

\* The row is written whatever it says by now; the receipt waits for the token.
MarkSuccessful(b, a) ==
    /\ a \notin Desks /\ pc[b][a] = "SUCCESSFUL"
    /\ status' = [status EXCEPT ![b] = "SUCCESSFUL"]
    /\ token' = [token EXCEPT ![b] = @ \/ got[b][a]]
    /\ IF Holds(b, a)
       THEN Go(b, a, "queueing") /\ UNCHANGED <<queue, receipt>>
       ELSE Return(b, a) /\ MayEmail(b, "complete")
    /\ UNCHANGED <<balance, reversals, bank, got, tokens, alerted, env>>

\* A queue that cannot be reached is logged, and that is all.
QueueTokenFetch(b, a) ==
    /\ pc[b][a] = "queueing"
    /\ \/ tokenJob' = [tokenJob EXCEPT ![b] = "waiting"] /\ UNCHANGED aborts
       \/ SumFunction(aborts) < MaxAborts /\ aborts' = [aborts EXCEPT ![b] = @ + 1] /\ UNCHANGED tokenJob
    /\ Return(b, a)
    /\ UNCHANGED <<ledger, token, bank, got, fetches, news, byDesk, stalls>>

\* syncPayoutStatus knows nothing of tokens and receipts of bills.
DeskSuccessful(b, d) ==
    /\ pc[b][d] = "SUCCESSFUL"
    /\ status' = [status EXCEPT ![b] = "SUCCESSFUL"]
    /\ byDesk' = [byDesk EXCEPT ![b] = TRUE]
    /\ Return(b, d)
    /\ UNCHANGED <<balance, reversals, token, bank, got, tokens, news, stalls, aborts>>

\* reverseFailedBill, reverseFailedPayout: the row is read before any lock ...
ReadForReversal(b, a) ==
    /\ pc[b][a] = "FAILED"
    /\ IF status[b] \in Terminal
       THEN Return(b, a)
       ELSE Go(b, a, "reversing") /\ UNCHANGED queue
    /\ UNCHANGED <<ledger, token, bank, got, tokens, news, env>>

\* The reversal written under a reference of its own each time.
ReverseEveryTime(b, a) ==
    /\ pc[b][a] = "reversing"
    /\ balance' = [balance EXCEPT ![WalletOf[b]] = @ + Total(b)]
    /\ status' = [status EXCEPT ![b] = "FAILED"]
    /\ reversals' = [reversals EXCEPT ![b] = @ + 1]
    /\ Return(b, a)
    /\ UNCHANGED <<token, bank, got, tokens, news, env>>

\* ... then credit, FAILED and REV-<reference> commit together,
CommitReversal(b, a) ==
    /\ pc[b][a] = "reversing" /\ reversals[b] = 0
    /\ balance' = [balance EXCEPT ![WalletOf[b]] = @ + Total(b)]
    /\ status' = [status EXCEPT ![b] = "FAILED"]
    /\ reversals' = [reversals EXCEPT ![b] = 1]
    /\ Return(b, a)
    /\ UNCHANGED <<token, bank, got, tokens, news, env>>

\* ... or all of it rolls back, because the reversal exists.
RollBackReversal(b, a) ==
    /\ pc[b][a] = "reversing" /\ reversals[b] # 0
    /\ Throw(b, a)
    /\ UNCHANGED <<ledger, token, bank, got, tokens, receipt, env>>

\* Never guess: the request queues the status job, the worker tries again.
StayUnresolved(b, a) ==
    /\ pc[b][a] = "REQUERY"
    /\ IF a = "request"
       THEN Leave(b, a) /\ job' = [job EXCEPT ![b] = "waiting"] /\ UNCHANGED <<tries, alerted>>
       ELSE Throw(b, a)
    /\ UNCHANGED <<ledger, token, bank, got, tokens, receipt, env>>

Resolve(b, a) ==
    \/ MarkSuccessful(b, a) \/ QueueTokenFetch(b, a)
    \/ ReadForReversal(b, a) \/ CommitReversal(b, a) \/ RollBackReversal(b, a)
    \/ StayUnresolved(b, a)

-----------------------------------------------------------------------------
(***************************************************************************)
(* The token job: fetchTokenAndSendReceipt, sendReceiptWithoutToken.       *)
(***************************************************************************)
FetchOrMail(b) ==
    /\ tokenJob[b] = "waiting"
    /\ tokenJob' = [tokenJob EXCEPT ![b] = IF token[b] THEN "mailing" ELSE "asking"]
    /\ UNCHANGED <<ledger, token, bank, pc, got, queue, fetches, news, env>>

StoreToken(b) ==
    /\ tokenJob[b] = "asking" /\ "SUCCESSFUL" \in BillQueryAnswers(b) /\ issued[b]
    /\ token' = [token EXCEPT ![b] = TRUE]
    /\ tokenJob' = [tokenJob EXCEPT ![b] = "mailing"]
    /\ UNCHANGED <<ledger, bank, pc, got, queue, fetches, news, env>>

MailReceipt(b) ==
    /\ tokenJob[b] = "mailing"
    /\ MayEmail(b, "complete")
    /\ tokenJob' = [tokenJob EXCEPT ![b] = "completed"]
    /\ UNCHANGED <<ledger, token, bank, pc, got, queue, fetches, alerted, env>>

\* Nothing is sent when the token never comes.
FetchFailsSilently(b) ==
    /\ fetches' = [fetches EXCEPT ![b] = @ + 1]
    /\ tokenJob' = [tokenJob EXCEPT ![b] =
                       IF fetches[b] + 1 < TokenAttempts THEN "waiting" ELSE "exhausted"]

FetchFails(b) ==
    /\ fetches' = [fetches EXCEPT ![b] = @ + 1]
    /\ tokenJob' = [tokenJob EXCEPT ![b] =
                       IF fetches[b] + 1 < TokenAttempts THEN "waiting" ELSE "failing"]

\* Not issued yet, or VFD could not be reached.
TokenNotYet(b) ==
    /\ tokenJob[b] = "asking"
    /\ FetchFails(b)
    /\ UNCHANGED <<ledger, token, bank, pc, got, queue, news, env>>

\* The job has failed for good: its listener reads the row and mails what there is ...
MailWithoutToken(b) ==
    /\ tokenJob[b] = "failing"
    /\ MayEmail(b, IF token[b] THEN "complete" ELSE "token missing")
    /\ tokenJob' = [tokenJob EXCEPT ![b] = "telling"]
    /\ UNCHANGED <<ledger, token, bank, pc, got, queue, fetches, alerted, env>>

\* ... and only then tells staff.
TellStaff(b) ==
    /\ tokenJob[b] = "telling"
    /\ alerted' = [alerted EXCEPT ![b] = TRUE]
    /\ tokenJob' = [tokenJob EXCEPT ![b] = "exhausted"]
    /\ UNCHANGED <<ledger, token, bank, pc, got, queue, fetches, receipt, env>>

TokenWork(b) ==
    \/ FetchOrMail(b) \/ StoreToken(b) \/ MailReceipt(b) \/ TokenNotYet(b)
    \/ MailWithoutToken(b) \/ TellStaff(b)

-----------------------------------------------------------------------------
(***************************************************************************)
(* A run throws or dies; its open database transaction rolls back.  BullMQ *)
(* runs the job of a dead worker again at most MaxStalls times.            *)
(***************************************************************************)
Stall(b, j) ==
    /\ stalls' = [stalls EXCEPT ![b][j] = @ + 1]
    /\ LET next == IF stalls[b][j] < MaxStalls THEN "waiting" ELSE "stalled_out" IN
       IF j = "status"
       THEN job' = [job EXCEPT ![b] = next] /\ UNCHANGED tokens
       ELSE tokenJob' = [tokenJob EXCEPT ![b] = next] /\ UNCHANGED <<queue, fetches>>

Abort(b, a) ==
    /\ pc[b][a] \notin {"idle", "over"} /\ SumFunction(aborts) < MaxAborts
    /\ aborts' = [aborts EXCEPT ![b] = @ + 1]
    /\ \/ Throw(b, a) /\ UNCHANGED <<tokens, stalls>>
       \/ a = "worker" /\ Leave(b, a) /\ Stall(b, "status") /\ UNCHANGED <<tries, alerted>>
    /\ UNCHANGED <<ledger, token, bank, got, receipt, byDesk>>

\* The listener of the last failure is not run again: what it had not done is not done.
AbortFetch(b) ==
    /\ SumFunction(aborts) < MaxAborts
    /\ aborts' = [aborts EXCEPT ![b] = @ + 1]
    /\ \/ /\ tokenJob[b] \in {"asking", "mailing"}
          /\ (FetchFails(b) /\ UNCHANGED <<queue, stalls>>) \/ Stall(b, "token")
       \/ /\ tokenJob[b] \in {"failing", "telling"}
          /\ tokenJob' = [tokenJob EXCEPT ![b] = "exhausted"]
          /\ UNCHANGED <<queue, fetches, stalls>>
    /\ UNCHANGED <<ledger, token, bank, pc, got, news, byDesk>>

Request(b) == SendToProvider(b) \/ PayAnswered(b) \/ Resolve(b, "request")

Worker(b) == WorkerTakes(b) \/ WorkerAnswered(b) \/ Resolve(b, "worker")

Desk(b, d) == DeskAnswered(b, d) \/ DeskSuccessful(b, d) \/ Resolve(b, d)

Next ==
    \E b \in Bills :
        \/ PayBill(b) \/ BillMoves(b) \/ IssueToken(b)
        \/ Request(b) \/ Worker(b) \/ TokenWork(b)
        \/ \E d \in Desks : DeskRequery(b, d) \/ Desk(b, d)
        \/ (\E a \in Actors : Abort(b, a)) \/ AbortFetch(b)

Spec == Init /\ [][Next]_vars

-----------------------------------------------------------------------------
(***************************************************************************)
(* What the code promises.                                                 *)
(***************************************************************************)
WillNeverBePaid(b) ==
    vfd[b] \in {"lost", "refused"} \/ (vfd[b] = "none" /\ pc[b]["request"] = "over")

\* A customer is never both refunded and served: "FAILED is safe to refund"
\* (bills-provider.interface.ts), SUCCESSFUL is a bill VFD paid, and no race of
\* request, worker and staff turns one into the other.
NeverRefundedAndPaid ==
    \A b \in Bills :
        /\ reversals[b] # 0 => WillNeverBePaid(b)
        /\ status[b] = "SUCCESSFUL" => vfd[b] = "paid"

\* "Never guesses: an unanswered query changes nothing" (internal.controller.ts,
\* on requery): no bill that VFD paid is refunded.
PaidNeverRefunded == \A b \in Bills : ~(reversals[b] # 0 /\ vfd[b] = "paid")

\* A receipt is only sent for a paid bill that stands, and a complete one of an
\* electricity bill names the token ("rather than sending a receipt that tells
\* the customer nothing they can use", markSuccessful).
ReceiptIsUseful ==
    \A b \in Bills :
        /\ receipt[b] # "none" => status[b] = "SUCCESSFUL" /\ vfd[b] = "paid"
        /\ receipt[b] = "complete" /\ b \in Electric => token[b]

\* The wallet's books, as this component keeps them.
Entry ==
    [b \in Bills |->
        IF status[b] = "NONE" THEN [kind |-> "NONE"]
        ELSE [kind   |-> IF reversals[b] = 0 THEN "DEBIT" ELSE "REFUNDED",
              wallet |-> WalletOf[b],
              total  |-> Total(b)]]

Books == INSTANCE WalletLedger WITH
            Entries <- Bills, Totals <- {Total(b) : b \in Bills}, entry <- Entry

\* Every bill is one covered debit, refunded at most once and in full with its
\* fee, whoever reverses it (payBill, reverseFailedBill, reverseFailedPayout).
KeepsTheBooks == Books!Spec

-----------------------------------------------------------------------------
(***************************************************************************)
(* Progress.  Live requests and workers go on, and VFD decides.  Customers,*)
(* staff, tokens and aborts owe nothing.                                   *)
(***************************************************************************)
Fairness ==
    \A b \in Bills :
        /\ WF_vars(BillMoves(b))
        /\ WF_vars(Request(b)) /\ WF_vars(Worker(b)) /\ WF_vars(TokenWork(b))
        /\ \A d \in Desks : WF_vars(Desk(b, d))

FairSpec == Spec /\ Fairness

\* A debited bill ends SUCCESSFUL, FAILED with its refund, or in front of staff,
\* unless the request that carried it died or its job stalled out (applyResult,
\* onFailed).
SettledOrEscalated ==
    \A b \in Bills :
        status[b] = "PROCESSING" ~>
            \/ status[b] \in Terminal \/ alerted[b]
            \/ aborts[b] > 0 /\ pc[b]["request"] = "over" /\ job[b] \in {"none", "stalled_out"}

\* The token of a paid electricity bill gets into its row, where the customer finds it
\* whatever became of the email, or staff are told -- unless the run that should have
\* queued its fetch died or could not reach the queue, the fetch stalled out, the
\* listener of its last failure died before its alert, or a staff re-query settled
\* the bill (markSuccessful, fetchTokenAndSendReceipt, sendReceiptWithoutToken).
TokenKeptOrEscalated ==
    \A b \in Electric :
        status[b] = "SUCCESSFUL" ~>
            \/ token[b] \/ alerted[b]
            \/ aborts[b] > 0 /\ tokenJob[b] \in {"none", "stalled_out", "exhausted"}
            \/ byDesk[b]

\* "send the receipt with a note instead of leaving them without one, and tell the
\* team" (bills.service.ts, on sendReceiptWithoutToken): no fetch ends without its
\* email, nor its last failure without its alert.
ReceiptAlwaysGoesOut ==
    \A b \in Electric :
        /\ tokenJob[b] \in {"completed", "exhausted"} => receipt[b] # "none"
        /\ tokenJob[b] = "exhausted" => alerted[b]
=============================================================================
