-------------------------- MODULE CustomerAccounts --------------------------
(***************************************************************************)
(* One customer's account as staff manage it: suspended, reactivated,      *)
(* closed (on their own motion, or to fulfil a deletion request), and      *)
(* reviewed for tier 3, while the customer signs in, pays, asks and        *)
(* withdraws.                                                              *)
(*                                                                         *)
(* The console (admin) works on the account through calls to the auth      *)
(* service, and looks at the money in the payment service's database: a    *)
(* closure is many steps in three services.  An action is what a request   *)
(* does up to its next write or look.  The customer's identity documents   *)
(* are taken as complete.                                                  *)
(***************************************************************************)
EXTENDS Naturals

CONSTANTS
    Requests,       \* HTTP requests of staff and customer there may be at once
    MaxBalance,     \* naira in the wallet
    MaxInFlight,    \* payments in flight
    MaxAsked,       \* deletion requests there may be
    MaxSubmitted    \* tier-3 submissions there may be

ASSUME AccountsAssumption ==
    MaxBalance \in Nat /\ MaxInFlight \in Nat /\ MaxAsked \in Nat /\ MaxSubmitted \in Nat

Asked == 1..MaxAsked

VARIABLES
    status,      \* users.status
    verified,    \* whether the email is verified
    session,     \* whether a session is live in the auth service
    access,      \* whether the payment service would still take an access token
    balance,     \* of the wallet
    inflight,    \* payments PENDING or PROCESSING
    deletion,    \* account_deletion_requests
    tier,        \* customer tier; 2 stands for any below 3
    upgrade,     \* tier_upgrade_status
    req,         \* the requests
    moved,       \* requests since whose first look money has moved
    deliberate,  \* whether staff suspended the account for its own sake
    stranded,    \* whether a request died half-way
    submitted,   \* submissions for tier 3,
    decided,     \* and decisions on them
    answered     \* decisions on each deletion request

account == <<status, verified, session, access>>
money == <<balance, inflight>>
kyc == <<tier, upgrade, submitted, decided>>
ghosts == <<moved, deliberate, stranded>>
vars == <<account, money, deletion, kyc, req, ghosts, answered>>

Statuses == {"pending", "active", "suspended", "closed"}
Request ==
    [op : {"none", "suspend", "reactivate", "close", "reject", "login", "verify", "delete",
           "submit", "approveTier", "rejectTier"},
     at : {"idle", "suspendCall", "suspend", "block", "look", "reactivateCall", "reactivate",
           "closeCall", "end", "close", "complete", "settle", "open", "write", "insert", "decide"},
     weSuspended : BOOLEAN, verified : BOOLEAN, asked : 0..MaxAsked,
     unseen : SUBSET {"balance", "payments"}, blocked : BOOLEAN]

TypeOK ==
    /\ status \in Statuses /\ {verified, session, access} \subseteq BOOLEAN
    /\ balance \in 0..MaxBalance /\ inflight \in 0..MaxInFlight
    /\ deletion \in [Asked -> {"none", "pending", "completed", "cancelled", "rejected"}]
    /\ tier \in {2, 3} /\ upgrade \in {"none", "under", "approved", "rejected"}
    /\ req \in [Requests -> Request]
    /\ moved \subseteq Requests /\ {deliberate, stranded} \subseteq BOOLEAN
    /\ submitted \in 0..MaxSubmitted /\ decided \in Nat
    /\ answered \in [Asked -> Nat]

Waiting == [op |-> "none", at |-> "idle", weSuspended |-> FALSE, verified |-> FALSE, asked |-> 0,
            unseen |-> {}, blocked |-> FALSE]

Init ==
    /\ \/ status = "active" /\ verified = TRUE /\ balance \in 0..MaxBalance
       \/ status = "pending" /\ verified = FALSE /\ balance = 0
    /\ session = FALSE /\ access = FALSE /\ inflight = 0
    /\ deletion = [i \in Asked |-> "none"]
    /\ tier = 2 /\ upgrade = "none"
    /\ req = [r \in Requests |-> Waiting]
    /\ moved = {} /\ deliberate = FALSE /\ stranded = FALSE
    /\ submitted = 0 /\ decided = 0 /\ answered = [i \in Asked |-> 0]

-----------------------------------------------------------------------------
(***************************************************************************)
(* What requests share.                                                    *)
(***************************************************************************)
At(r, op, place) == req[r].op = op /\ req[r].at = place
Go(r, place) == req' = [req EXCEPT ![r].at = place]
\* The request is over, and its place is free for another.
Over(r) == req' = [req EXCEPT ![r] = Waiting]
InFlight(r) == req[r].at # "idle"

Start(r, op, place) ==
    /\ req[r].at = "idle"
    /\ req' = [req EXCEPT ![r] = [Waiting EXCEPT !.op = op, !.at = place, !.verified = verified]]

-----------------------------------------------------------------------------
(***************************************************************************)
(* AccountAdminService: suspend, reactivate, close.                        *)
(***************************************************************************)
Suspend(r) ==
    /\ status \in {"pending", "active"}
    /\ Start(r, "suspend", "suspend")
    /\ UNCHANGED <<account, money, deletion, kyc, ghosts, answered>>

\* Whatever the status has become since it was read.
WriteSuspension(r) ==
    /\ req[r].at = "suspend"
    /\ status' = "suspended"
    /\ deliberate' = (deliberate \/ req[r].op = "suspend")
    /\ Go(r, "block")
    /\ UNCHANGED <<verified, session, access, money, deletion, kyc, moved, stranded, answered>>

\* The tokens that are out stay good for the payment service until they expire.
EndSessions(r) ==
    /\ req[r].at \in {"block", "end"}
    /\ session' = FALSE
    /\ IF req[r].at = "end" THEN Go(r, "close")
       ELSE IF req[r].op = "close" THEN Go(r, "look") ELSE Over(r)
    /\ UNCHANGED <<status, verified, access, money, deletion, kyc, ghosts, answered>>

RevokeSessions ==
    /\ session /\ session' = FALSE
    /\ UNCHANGED <<status, verified, access, money, deletion, kyc, req, ghosts, answered>>

Reactivate(r) ==
    /\ status = "suspended"
    /\ Start(r, "reactivate", "reactivate")
    /\ UNCHANGED <<account, money, deletion, kyc, ghosts, answered>>

\* Back to where the customer was when the row was read.
WriteReactivation(r) ==
    /\ req[r].at = "reactivate"
    /\ status' = IF req[r].verified THEN "active" ELSE "pending"
    /\ deliberate' = FALSE
    /\ Over(r)
    /\ UNCHANGED <<verified, session, access, money, deletion, kyc, moved, stranded, answered>>

CloseCall(r) ==
    /\ req[r].at = "closeCall"
    /\ IF status = "closed" THEN Over(r) ELSE Go(r, "end")
    /\ UNCHANGED <<account, money, deletion, kyc, ghosts, answered>>

MarkClosed(r) ==
    /\ req[r].at = "close"
    /\ status' = "closed"
    /\ Go(r, "complete")
    /\ UNCHANGED <<verified, session, access, money, deletion, kyc, ghosts, answered>>

\* An UPDATE of the rows that are PENDING.
Decide(S, decision) ==
    /\ deletion' = [i \in Asked |-> IF i \in S THEN decision ELSE deletion[i]]
    /\ answered' = [i \in Asked |-> IF i \in S THEN answered[i] + 1 ELSE answered[i]]

Pending == {i \in Asked : deletion[i] = "pending"}

CompleteForUser(r) ==
    /\ req[r].at = "complete"
    /\ Decide(Pending, "completed")
    /\ Over(r)
    /\ UNCHANGED <<account, money, kyc, ghosts>>

-----------------------------------------------------------------------------
(***************************************************************************)
(* The console's closure: block, look, then close or put back.             *)
(***************************************************************************)
\* By staff on their own, or approving a request they have seen PENDING.
Close(r) ==
    /\ status # "closed"
    /\ req[r].at = "idle"
    /\ req' = [req EXCEPT ![r] = [Waiting EXCEPT !.op = "close",
                  !.at = IF status = "suspended" THEN "look" ELSE "suspendCall",
                  !.weSuspended = status # "suspended", !.unseen = {"balance", "payments"}]]
    /\ UNCHANGED <<account, money, deletion, kyc, ghosts, answered>>

\* The auth service looks for itself.
SuspendCall(r) ==
    /\ req[r].at = "suspendCall"
    /\ \/ status = "suspended" /\ Go(r, "look")
       \/ status = "closed" /\ Over(r)
       \/ status \in {"pending", "active"} /\ Go(r, "suspend")
    /\ UNCHANGED <<account, money, deletion, kyc, ghosts, answered>>

\* Both answers are there: go on, or refuse and put back what this request blocked.
Verdict(r, blocked) ==
    IF ~blocked THEN Go(r, "closeCall")
    ELSE IF req[r].weSuspended THEN Go(r, "reactivateCall") ELSE Over(r)

SeeAnd(r, what, blocks) ==
    /\ req[r].at = "look" /\ what \in req[r].unseen
    /\ LET blocked == req[r].blocked \/ blocks
       IN  IF req[r].unseen = {what} THEN Verdict(r, blocked)
           ELSE req' = [req EXCEPT ![r].unseen = @ \ {what}, ![r].blocked = blocked]
    /\ moved' = IF req[r].unseen = {what} THEN moved ELSE moved \ {r}
    /\ UNCHANGED <<account, money, deletion, kyc, deliberate, stranded, answered>>

\* Two queries that do not wait for one another.
LookAtBalance(r) == SeeAnd(r, "balance", balance # 0)

\* Only a wallet with money blocks.
LookAtNothing(r) == SeeAnd(r, "payments", FALSE)
LookAtPayments(r) == SeeAnd(r, "payments", inflight > 0)

\* The error is thrown and the account left as it is.
RefuseOnly(r) ==
    /\ req[r].at = "reactivateCall"
    /\ Over(r)
    /\ UNCHANGED <<account, money, deletion, kyc, ghosts, answered>>

\* Not suspended any more: the call fails, and there is nothing to put back.
ReactivateCall(r) ==
    /\ req[r].at = "reactivateCall"
    /\ IF status = "suspended"
       THEN req' = [req EXCEPT ![r].at = "reactivate", ![r].verified = verified]
       ELSE Over(r)
    /\ UNCHANGED <<account, money, deletion, kyc, ghosts, answered>>

-----------------------------------------------------------------------------
(***************************************************************************)
(* Deletion requests.                                                      *)
(***************************************************************************)
\* A live session and the password; nothing open, as far as was seen.
RequestDeletion(r) ==
    /\ session /\ status = "active" /\ Pending = {}
    /\ Start(r, "delete", "insert")
    /\ UNCHANGED <<account, money, deletion, kyc, ghosts, answered>>

\* One PENDING row per customer (unique index); the account may be closed by now.
InsertRequest(r) ==
    /\ req[r].at = "insert"
    /\ \/ /\ Pending = {}
          /\ \E i \in Asked :
                /\ deletion[i] = "none" /\ \A j \in 1..i - 1 : deletion[j] # "none"
                /\ deletion' = [deletion EXCEPT ![i] = "pending"]
       \/ Pending # {} /\ UNCHANGED deletion
    /\ Over(r)
    /\ UNCHANGED <<account, money, kyc, ghosts, answered>>

CancelDeletion ==
    /\ session /\ Pending # {}
    /\ Decide(Pending, "cancelled")
    /\ UNCHANGED <<account, money, kyc, req, ghosts>>

\* The console has seen the request PENDING.
RejectDeletion(r) ==
    /\ req[r].at = "idle"
    /\ \E i \in Pending :
          req' = [req EXCEPT ![r] = [Waiting EXCEPT !.op = "reject", !.at = "settle", !.asked = i]]
    /\ UNCHANGED <<account, money, deletion, kyc, ghosts, answered>>

\* What the console saw is relied upon.
SettleAsSeen(r) ==
    /\ req[r].at = "settle"
    /\ Decide({req[r].asked}, "rejected")
    /\ Over(r)
    /\ UNCHANGED <<account, money, kyc, ghosts>>

SettleRejection(r) ==
    /\ req[r].at = "settle"
    /\ Decide({req[r].asked} \cap Pending, "rejected")
    /\ Over(r)
    /\ UNCHANGED <<account, money, kyc, ghosts>>

-----------------------------------------------------------------------------
(***************************************************************************)
(* Tier 3: the customer submits, staff decide.                             *)
(***************************************************************************)
SubmitTierUpgrade(r) ==
    /\ session /\ tier # 3 /\ upgrade # "under"
    /\ Start(r, "submit", "write")
    /\ UNCHANGED <<account, money, deletion, kyc, ghosts, answered>>

\* Whatever was decided since the row was read.
SetTierUpgradeStatus(r) ==
    /\ At(r, "submit", "write")
    /\ submitted < MaxSubmitted /\ submitted' = submitted + 1
    /\ upgrade' = "under"
    /\ Over(r)
    /\ UNCHANGED <<account, money, deletion, tier, decided, ghosts, answered>>

\* Only an active account is upgraded; any is refused.
ReviewTierUpgrade(r) ==
    /\ upgrade = "under"
    /\ \/ status = "active" /\ Start(r, "approveTier", "decide")
       \/ Start(r, "rejectTier", "decide")
    /\ UNCHANGED <<account, money, deletion, kyc, ghosts, answered>>

\* One UPDATE while UNDER_REVIEW, of whichever submission that is by now.
DecideTierUpgrade(r) ==
    /\ req[r].at = "decide"
    /\ IF upgrade = "under"
       THEN /\ upgrade' = IF req[r].op = "approveTier" THEN "approved" ELSE "rejected"
            /\ tier' = IF req[r].op = "approveTier" THEN 3 ELSE tier
            /\ decided' = decided + 1
       ELSE UNCHANGED <<tier, upgrade, decided>>
    /\ Over(r)
    /\ UNCHANGED <<account, money, deletion, submitted, ghosts, answered>>

-----------------------------------------------------------------------------
(***************************************************************************)
(* The customer.                                                           *)
(***************************************************************************)
\* The status is read before the password and the PIN are checked.
Login(r) ==
    /\ status = "active"
    /\ Start(r, "login", "open")
    /\ UNCHANGED <<account, money, deletion, kyc, ghosts, answered>>

OpenSession(r) ==
    /\ req[r].at = "open"
    /\ session' = TRUE /\ access' = TRUE
    /\ Over(r)
    /\ UNCHANGED <<status, verified, money, deletion, kyc, ghosts, answered>>

VerifyEmail(r) ==
    /\ status = "pending"
    /\ Start(r, "verify", "write")
    /\ UNCHANGED <<account, money, deletion, kyc, ghosts, answered>>

\* Whatever staff have done since; a session follows.
MarkEmailVerified(r) ==
    /\ At(r, "verify", "write")
    /\ status' = "active" /\ verified' = TRUE
    /\ Go(r, "open")
    /\ UNCHANGED <<session, access, money, deletion, kyc, ghosts, answered>>

\* The token runs out, and no live session gives another.
TokenExpires ==
    /\ access /\ ~session
    /\ access' = FALSE
    /\ UNCHANGED <<status, verified, session, money, deletion, kyc, req, ghosts, answered>>

\* The payment service asks the token and the PIN, not the status.
Pay ==
    /\ access /\ balance > 0 /\ inflight < MaxInFlight
    /\ balance' = balance - 1 /\ inflight' = inflight + 1
    /\ moved' = Requests
    /\ UNCHANGED <<account, deletion, kyc, req, deliberate, stranded, answered>>

\* Paid, or failed and refunded.
PaymentEnds ==
    /\ inflight > 0 /\ inflight' = inflight - 1
    /\ \/ UNCHANGED balance
       \/ balance < MaxBalance /\ balance' = balance + 1
    /\ moved' = Requests
    /\ UNCHANGED <<account, deletion, kyc, req, deliberate, stranded, answered>>

\* VFD's account number still takes money.
MoneyArrives ==
    /\ balance < MaxBalance /\ balance' = balance + 1
    /\ moved' = Requests
    /\ UNCHANGED <<account, inflight, deletion, kyc, req, deliberate, stranded, answered>>

\* A process dies, or a call between services fails.
Die(r) ==
    /\ InFlight(r)
    /\ Over(r)
    /\ stranded' = TRUE
    /\ UNCHANGED <<account, money, deletion, kyc, moved, deliberate, answered>>

Next ==
    \/ RevokeSessions \/ CancelDeletion \/ TokenExpires \/ Pay \/ PaymentEnds \/ MoneyArrives
    \/ \E r \in Requests :
          \/ Suspend(r) \/ WriteSuspension(r) \/ EndSessions(r) \/ Reactivate(r)
          \/ WriteReactivation(r) \/ CloseCall(r) \/ MarkClosed(r) \/ CompleteForUser(r)
          \/ Close(r) \/ SuspendCall(r) \/ LookAtBalance(r) \/ LookAtPayments(r)
          \/ ReactivateCall(r) \/ RequestDeletion(r) \/ InsertRequest(r) \/ RejectDeletion(r)
          \/ SettleRejection(r) \/ SubmitTierUpgrade(r) \/ SetTierUpgradeStatus(r)
          \/ ReviewTierUpgrade(r) \/ DecideTierUpgrade(r) \/ Login(r) \/ OpenSession(r)
          \/ VerifyEmail(r) \/ MarkEmailVerified(r) \/ Die(r)

Spec == Init /\ [][Next]_vars

-----------------------------------------------------------------------------
(***************************************************************************)
(* Properties                                                              *)
(***************************************************************************)
\* A closure that goes ahead leaves no money and no payment behind, although
\* its two looks are not one, unless money moved after the first of them
\* (CustomerActionsService.close, closureBlockers).
ClosedEmpty ==
    \A r \in Requests \ moved :
        req[r].at \in {"closeCall", "end", "close"} => balance = 0 /\ inflight = 0

\* When nothing is under way, an account is suspended only because staff wanted
\* that: every closure that was refused has put it back, whichever other
\* closures, suspensions and reactivations ran beside it, unless one died.
RestoredAfterRefusal ==
    (\A r \in Requests : ~InFlight(r)) /\ status = "suspended" => deliberate \/ stranded

\* Withdrawn, rejected and fulfilled at once, a deletion request is answered
\* once; and there are no more verdicts on tier 3 than submissions, although
\* staff decide together (DeletionService.reject, decideTierUpgrade).
DecidedOnce ==
    /\ \A i \in Asked : answered[i] <= 1
    /\ decided <= submitted
=============================================================================
