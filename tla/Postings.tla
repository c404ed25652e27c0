------------------------------ MODULE Postings ------------------------------
(***************************************************************************)
(* Manual postings: the maker-checker workflow of the admin service        *)
(* (PostingsService) and the endpoints of the payment service it calls to  *)
(* move the money (PostingsService.post, UnmatchedService.assign).         *)
(*                                                                         *)
(* One member of staff requests a credit, a debit or the assignment of an  *)
(* unmatched deposit; another approves it.  The approval claims the        *)
(* posting, calls the payment service over HTTP and records the answer.    *)
(* The call may time out while the payment service still works on it, and  *)
(* the approver may approve again, at once or later: several calls of one  *)
(* posting may run side by side on both sides.                             *)
(*                                                                         *)
(* A posting stands for its row and for its reference MAN-<id>.            *)
(***************************************************************************)
EXTENDS Integers

CONSTANTS
    Wallets, Postings, Deposits,
    Calls,             \* concurrent approvals of one posting
    Makers, Approvers, \* staff who may request, staff who may decide
    Funds,
    Drafts,            \* what may be requested
    Worth,             \* the amount of each unmatched deposit
    MaxFaults,         \* bound on the calls that time out or die, by posting
    Throttles          \* may the payment service's rate limit refuse a call?

Free == "unassigned"   \* the wallet of an unmatched deposit
None == "none"         \* the source of a posting that is no assignment

ASSUME PostingsAssumption ==
    /\ Postings \cap Deposits = {} /\ Free \notin Wallets /\ None \notin Deposits
    /\ Funds \in [Wallets -> Nat]
    /\ Worth \in [Deposits -> Nat \ {0}]
    /\ Drafts \subseteq [type : {"CREDIT", "DEBIT"}, wallet : Wallets,
                         amount : Nat \ {0}, source : Deposits \cup {None}]
    \* The type and the amount of an assignment are the deposit's.
    /\ \A r \in Drafts : r.source # None => r.type = "CREDIT" /\ r.amount = Worth[r.source]
    /\ MaxFaults \in Nat /\ Throttles \in BOOLEAN

VARIABLES
    balance,  \* wallets.balance
    owner,    \* the wallet an unmatched deposit was assigned to
    moved,    \* does the transaction MAN-<id> exist?
    status,   \* postings.status, NONE before the insert, DRAFT while it is checked
    draft, maker, decider,
    call,     \* where each approval is in the admin service
    actor,    \* ... and who makes it
    server,   \* where its request is in the payment service
    faults

books == <<balance, owner, moved>>
form  == <<draft, maker>>
vars  == <<books, status, form, decider, call, actor, server, faults>>

Staff    == Makers \cup Approvers
Statuses == {"NONE", "DRAFT", "PENDING", "PROCESSING", "POSTED", "FAILED", "REJECTED", "CANCELLED"}
Phases   == {"idle", "claiming", "calling", "waiting"}
Answers  == {"ok", "refused"}
Runs     == {"idle", "arrived", "applying"} \cup Answers

Nobody   == "nobody"
NoDraft  == [source |-> None]

\* Every state is well typed; no balance is ever negative.
TypeOK ==
    /\ balance \in [Wallets -> Nat]
    /\ owner \in [Deposits -> Wallets \cup {Free}]
    /\ moved \in [Postings -> BOOLEAN]
    /\ status \in [Postings -> Statuses]
    /\ draft \in [Postings -> Drafts \cup {NoDraft}]
    /\ maker \in [Postings -> Makers \cup {Nobody}]
    /\ decider \in [Postings -> Staff \cup {Nobody}]
    /\ call \in [Postings -> [Calls -> Phases]]
    /\ actor \in [Postings -> [Calls -> Approvers \cup {Nobody}]]
    /\ server \in [Postings -> [Calls -> Runs]]
    /\ faults \in [Postings -> Nat]

Init ==
    /\ balance = Funds
    /\ owner = [d \in Deposits |-> Free]
    /\ moved = [p \in Postings |-> FALSE]
    /\ status = [p \in Postings |-> "NONE"]
    /\ draft = [p \in Postings |-> NoDraft]
    /\ maker = [p \in Postings |-> Nobody]
    /\ decider = [p \in Postings |-> Nobody]
    /\ call = [p \in Postings |-> [c \in Calls |-> "idle"]]
    /\ actor = [p \in Postings |-> [c \in Calls |-> Nobody]]
    /\ server = [p \in Postings |-> [c \in Calls |-> "idle"]]
    /\ faults = [p \in Postings |-> 0]

-----------------------------------------------------------------------------
(***************************************************************************)
(* Requesting, rejecting and cancelling.                                   *)
(***************************************************************************)
\* Wallet and deposit are read here, and the row is inserted later.
Request(p, s, r) ==
    /\ status[p] = "NONE"
    /\ r.source # None => owner[r.source] = Free
    /\ r.type = "DEBIT" => balance[r.wallet] >= r.amount
    /\ status' = [status EXCEPT ![p] = "DRAFT"]
    /\ draft' = [draft EXCEPT ![p] = r]
    /\ maker' = [maker EXCEPT ![p] = s]
    /\ UNCHANGED <<books, decider, call, actor, server, faults>>

\* The open request for the same deposit is found, or the partial unique index
\* refuses the insert.
OpenFor(d) == {p \in Postings : draft[p].source = d /\ status[p] \in {"PENDING", "PROCESSING"}}

Save(p) ==
    /\ status[p] = "DRAFT"
    /\ LET refused == draft[p].source # None /\ OpenFor(draft[p].source) # {} IN
       status' = [status EXCEPT ![p] = IF refused THEN "NONE" ELSE "PENDING"]
    /\ UNCHANGED <<books, form, decider, call, actor, server, faults>>

Reject(p, s) ==
    /\ status[p] = "PENDING" /\ s # maker[p]
    /\ status' = [status EXCEPT ![p] = "REJECTED"]
    /\ decider' = [decider EXCEPT ![p] = s]
    /\ UNCHANGED <<books, form, call, actor, server, faults>>

\* Only the maker cancels.
Cancel(p) ==
    /\ status[p] = "PENDING"
    /\ status' = [status EXCEPT ![p] = "CANCELLED"]
    /\ decider' = [decider EXCEPT ![p] = maker[p]]
    /\ UNCHANGED <<books, form, call, actor, server, faults>>

-----------------------------------------------------------------------------
(***************************************************************************)
(* Approving: load, claim, call, record the answer.                        *)
(***************************************************************************)
Move(p, c, phase) == call' = [call EXCEPT ![p][c] = phase]

\* Only the approver who claimed a posting may retry it.
Approve(p, c, s) ==
    /\ call[p][c] = "idle" /\ server[p][c] = "idle" /\ s # maker[p]
    /\ \/ status[p] = "PENDING" /\ Move(p, c, "claiming")
       \/ status[p] = "PROCESSING" /\ decider[p] = s /\ Move(p, c, "calling")
    /\ actor' = [actor EXCEPT ![p][c] = s]
    /\ UNCHANGED <<books, status, form, decider, server, faults>>

\* PENDING to PROCESSING in one conditional update.
Claim(p, c) ==
    /\ call[p][c] = "claiming"
    /\ IF status[p] = "PENDING"
       THEN /\ status' = [status EXCEPT ![p] = "PROCESSING"]
            /\ decider' = [decider EXCEPT ![p] = actor[p][c]]
            /\ Move(p, c, "calling")
       ELSE Move(p, c, "idle") /\ UNCHANGED <<status, decider>>
    /\ UNCHANGED <<books, form, actor, server, faults>>

\* The rate limit answers 429 before the handler runs.
Send(p, c) ==
    /\ call[p][c] = "calling"
    /\ Move(p, c, "waiting")
    /\ \E run \in {"arrived"} \cup (IF Throttles THEN {"refused"} ELSE {}) :
          server' = [server EXCEPT ![p][c] = run]
    /\ UNCHANGED <<books, status, form, decider, actor, faults>>

\* An unanswered call taken for a refusal.
HearAnything(p, c) ==
    /\ call[p][c] = "waiting"
    /\ status' = [status EXCEPT ![p] = IF server[p][c] = "ok" THEN "POSTED" ELSE "FAILED"]
    /\ Move(p, c, "idle")
    /\ server' = [server EXCEPT ![p][c] = IF @ \in Answers THEN "idle" ELSE @]
    /\ UNCHANGED <<books, form, decider, actor, faults>>

\* 200 is POSTED, a 4xx is FAILED; the row is written whatever it says.
HearAnswer(p, c) ==
    /\ call[p][c] = "waiting" /\ server[p][c] \in Answers
    /\ status' = [status EXCEPT ![p] = IF server[p][c] = "ok" THEN "POSTED" ELSE "FAILED"]
    /\ Move(p, c, "idle")
    /\ server' = [server EXCEPT ![p][c] = "idle"]
    /\ UNCHANGED <<books, form, decider, actor, faults>>

\* 15 seconds passed: the posting stays PROCESSING, the request goes on.
GiveUp(p, c) ==
    /\ call[p][c] = "waiting" /\ faults[p] < MaxFaults
    /\ faults' = [faults EXCEPT ![p] = @ + 1]
    /\ Move(p, c, "idle")
    /\ UNCHANGED <<books, status, form, decider, actor, server>>

-----------------------------------------------------------------------------
(***************************************************************************)
(* The payment service.                                                    *)
(***************************************************************************)
Run(p, c, phase) == server' = [server EXCEPT ![p][c] = phase]

FindExisting(p, c) ==
    /\ server[p][c] = "arrived" /\ draft[p].source = None
    /\ Run(p, c, IF moved[p] THEN "ok" ELSE "applying")
    /\ UNCHANGED <<books, status, form, decider, call, actor, faults>>

Covered(p) == draft[p].type = "DEBIT" => balance[draft[p].wallet] >= draft[p].amount

Moved(p) == [balance EXCEPT ![draft[p].wallet] =
                IF draft[p].type = "CREDIT" THEN @ + draft[p].amount ELSE @ - draft[p].amount]

\* Without the unique index on the reference.
PostTwice(p, c) ==
    /\ server[p][c] = "applying" /\ Covered(p)
    /\ balance' = Moved(p)
    /\ moved' = [moved EXCEPT ![p] = TRUE]
    /\ Run(p, c, "ok")
    /\ UNCHANGED <<owner, status, form, decider, call, actor, faults>>

\* Under the wallet's lock: the money and the row MAN-<id> together.
Post(p, c) ==
    /\ server[p][c] = "applying" /\ Covered(p) /\ ~moved[p]
    /\ balance' = Moved(p)
    /\ moved' = [moved EXCEPT ![p] = TRUE]
    /\ Run(p, c, "ok")
    /\ UNCHANGED <<owner, status, form, decider, call, actor, faults>>

\* The reference is taken by now: roll back and answer with the winner's row.
PostReplayed(p, c) ==
    /\ server[p][c] = "applying" /\ Covered(p) /\ moved[p]
    /\ Run(p, c, "ok")
    /\ UNCHANGED <<books, status, form, decider, call, actor, faults>>

\* The balance is looked at before the reference.
PostRefused(p, c) ==
    /\ server[p][c] = "applying" /\ ~Covered(p)
    /\ Run(p, c, "refused")
    /\ UNCHANGED <<books, status, form, decider, call, actor, faults>>

\* Under the deposit's lock, then the wallet's.
Assign(p, c) ==
    LET d == draft[p].source
        w == draft[p].wallet
    IN  /\ server[p][c] = "arrived" /\ d # None /\ owner[d] = Free
        /\ balance' = [balance EXCEPT ![w] = @ + Worth[d]]
        /\ owner' = [owner EXCEPT ![d] = w]
        /\ Run(p, c, "ok")
        /\ UNCHANGED <<moved, status, form, decider, call, actor, faults>>

\* Any assignment of the deposit taken for a replay of this one.
AssignLateAnywhere(p, c) ==
    /\ server[p][c] = "arrived" /\ draft[p].source # None /\ owner[draft[p].source] # Free
    /\ Run(p, c, "ok")
    /\ UNCHANGED <<books, status, form, decider, call, actor, faults>>

\* Assigned already: a replay when it went to this wallet, a conflict otherwise.
AssignLate(p, c) ==
    LET d == draft[p].source
    IN  /\ server[p][c] = "arrived" /\ d # None /\ owner[d] # Free
        /\ Run(p, c, IF owner[d] = draft[p].wallet THEN "ok" ELSE "refused")
        /\ UNCHANGED <<books, status, form, decider, call, actor, faults>>

\* Nobody listens any more.
AnswerUnheard(p, c) ==
    /\ server[p][c] \in Answers /\ call[p][c] = "idle"
    /\ Run(p, c, "idle")
    /\ UNCHANGED <<books, status, form, decider, call, actor, faults>>

Serve(p, c) ==
    \/ FindExisting(p, c) \/ Post(p, c) \/ PostReplayed(p, c) \/ PostRefused(p, c)
    \/ Assign(p, c) \/ AssignLate(p, c) \/ AnswerUnheard(p, c)

-----------------------------------------------------------------------------
(***************************************************************************)
(* A call dies in the admin service before it is sent, or in the payment   *)
(* service, whose open transaction rolls back: 5xx, the outcome is unknown.*)
(***************************************************************************)
CallDies(p, c) ==
    /\ faults[p] < MaxFaults
    /\ faults' = [faults EXCEPT ![p] = @ + 1]
    /\ call[p][c] \in {"claiming", "calling"} \/ server[p][c] \in {"arrived", "applying"}
    /\ Move(p, c, "idle") /\ Run(p, c, "idle")
    /\ UNCHANGED <<books, status, form, decider, actor>>

Next ==
    \E p \in Postings :
        \/ \E s \in Makers, r \in Drafts : Request(p, s, r)
        \/ Save(p) \/ Cancel(p)
        \/ \E s \in Approvers : Reject(p, s)
        \/ \E c \in Calls :
              \/ \E s \in Approvers : Approve(p, c, s)
              \/ Claim(p, c) \/ Send(p, c) \/ HearAnswer(p, c) \/ GiveUp(p, c)
              \/ Serve(p, c) \/ CallDies(p, c)

Spec == Init /\ [][Next]_vars

-----------------------------------------------------------------------------
(***************************************************************************)
(* What the code promises.                                                 *)
(***************************************************************************)
\* The posting's money is where it was to go.
HasMoved(p) ==
    IF draft[p].source = None THEN moved[p] ELSE owner[draft[p].source] = draft[p].wallet

\* No posting's money moves without a second person: one who did not request it
\* claimed it, and once claimed it is never rejected or cancelled (approve,
\* reject, cancel against claim).
FourEyes ==
    \A p \in Postings :
        moved[p] \/ (\E c \in Calls : server[p][c] # "idle") =>
            /\ decider[p] \in Approvers /\ decider[p] # maker[p]
            /\ status[p] \in {"PROCESSING", "POSTED", "FAILED"}

\* A posting is POSTED only when the payment service moved its money, whatever
\* was retried, timed out or answered late (PostingsService.approve), and no
\* money moved that a second person did not send.
PostedHasMoved ==
    /\ FourEyes
    /\ \A p \in Postings : status[p] = "POSTED" => HasMoved(p)

\* A credit or an assignment that FAILED moved nothing: "4xx = the payment
\* service definitively refused ... the posting is dead and must be
\* re-requested" (PostingsService.approve), as long as no call is rate limited.
FailedCreditMovedNothing ==
    \A p \in Postings :
        status[p] = "FAILED" /\ draft[p].type = "CREDIT" => ~HasMoved(p)

\* "It may or may not have been applied -- approve again to retry safely"
\* (PostingsService.approve): no retry ends in a FAILED posting whose money moved.
FailedMovedNothing ==
    \A p \in Postings : status[p] = "FAILED" => ~HasMoved(p)

\* The wallet's books, as this component keeps them.
Entry ==
    [e \in Postings \cup Deposits |->
        IF e \in Postings
        THEN IF moved[e]
             THEN [kind |-> draft[e].type, wallet |-> draft[e].wallet, total |-> draft[e].amount]
             ELSE [kind |-> "NONE"]
        ELSE IF owner[e] # Free
             THEN [kind |-> "CREDIT", wallet |-> owner[e], total |-> Worth[e]]
             ELSE [kind |-> "NONE"]]

Books == INSTANCE WalletLedger WITH
            Entries <- Postings \cup Deposits, entry <- Entry,
            Totals <- {r.amount : r \in Drafts} \cup {Worth[d] : d \in Deposits}

\* Every posting and every deposit moves its money at most once, a debit only
\* when it is covered, however many calls race (post and assign, "replaying a
\* reference returns the original instead of posting twice").
KeepsTheBooks == Books!Spec
=============================================================================
