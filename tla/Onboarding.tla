----------------------------- MODULE Onboarding -----------------------------
(***************************************************************************)
(* One customer signs up: email, phone, BVN and PIN, each in requests of   *)
(* their own that may overlap; whichever comes last asks the payment       *)
(* service, over RabbitMQ, for the account number.                         *)
(*                                                                         *)
(* An action is what a request or a consumer does from one write to the    *)
(* next.  Codes are right or wrong (how guesses are counted is in          *)
(* CustomerSignIn), and QoreID, the BVN registry, just says yes or no.     *)
(***************************************************************************)
EXTENDS Naturals

CONSTANTS
    Requests,
    Consumers,    \* deliveries of messages the payment service works on at once
    MaxCodes,     \* open codes per purpose
    MaxMessages,  \* messages in the queue
    MaxFaults     \* deaths and lost messages there may be

Purposes == {"email", "phone", "bvn"}

ASSUME OnboardingAssumption ==
    MaxCodes \in Nat /\ MaxMessages \in Nat /\ MaxFaults \in Nat /\ Requests \cap Consumers = {}

VARIABLES
    status,    \* users.status
    verified,  \* which of email, phone and BVN are verified
    phone,     \* whether a phone number is on file
    bvn,       \* whether a BVN is on file,
    dob,       \* and a date of birth
    pin,       \* whether a transaction PIN is set
    claimed,   \* payment_account_provisioning_requested_at
    codes,     \* codes sent and not yet consumed, by purpose
    req,       \* the requests: what for, where, and the user they read
    queue,     \* messages to the payment service
    work,      \* what each consumer does
    address,   \* whether the wallet has an ACTIVE address
    asked,     \* history: messages sent on a claim
    faults     \* deaths and lost messages so far

user == <<status, verified, phone, bvn, dob, pin, claimed>>
payment == <<work, address>>
vars == <<user, codes, req, queue, payment, asked, faults>>

Ops == {"none", "register", "email", "phone", "addPhone", "bvn", "bvnCode", "pin"}
Places == {"idle", "write", "date", "code", "consume", "verify", "claim", "publish", "over"}

TypeOK ==
    /\ status \in {"none", "pending", "active", "suspended", "closed"}
    /\ verified \subseteq Purposes
    /\ {phone, bvn, dob, pin, claimed} \subseteq BOOLEAN
    /\ codes \in [Purposes -> 0..MaxCodes]
    /\ req \in [Requests -> [op : Ops, at : Places, pending : BOOLEAN]]
    /\ queue \in 0..MaxMessages
    /\ work \in [Consumers -> {"idle", "asking", "inserting", "acking"}] /\ address \in BOOLEAN
    /\ asked \in Nat /\ faults \in 0..MaxFaults

Waiting == [op |-> "none", at |-> "idle", pending |-> FALSE]

Init ==
    /\ status = "none" /\ verified = {} /\ claimed = FALSE
    /\ phone = FALSE /\ bvn = FALSE /\ dob = FALSE /\ pin = FALSE
    /\ codes = [p \in Purposes |-> 0]
    /\ req = [r \in Requests |-> Waiting]
    /\ queue = 0 /\ work = [c \in Consumers |-> "idle"]
    /\ address = FALSE
    /\ asked = 0 /\ faults = 0

-----------------------------------------------------------------------------
(***************************************************************************)
(* What requests share.                                                    *)
(***************************************************************************)
At(r, op, place) == req[r].op = op /\ req[r].at = place
Go(r, place) == req' = [req EXCEPT ![r].at = place]
\* The request is over, and its place is free for another.
Over(r) == req' = [req EXCEPT ![r] = Waiting]
InFlight(r) == req[r].at # "idle"

Start(r, op, place) ==
    /\ req[r].at = "idle"
    /\ req' = [req EXCEPT ![r] = [op |-> op, at |-> place, pending |-> status = "pending"]]

\* A session: opened after the email was verified; nobody looks at the status again.
SignedIn == "email" \in verified

Ready == "bvn" \in verified /\ pin

-----------------------------------------------------------------------------
(***************************************************************************)
(* Signing up, and codes.                                                  *)
(***************************************************************************)
\* A new account, or an unverified one resumed.
Register(r) ==
    /\ status \in {"none", "pending"}
    /\ Start(r, "register", "write")
    /\ UNCHANGED <<user, codes, queue, payment, asked, faults>>

\* Somebody faster has taken the email (unique index): no new row, and no code.
SaveUser(r) ==
    /\ At(r, "register", "write")
    /\ status' = IF status = "none" THEN "pending" ELSE status
    /\ IF req[r].pending \/ status = "none" THEN Go(r, "code") ELSE Over(r)
    /\ UNCHANGED <<verified, phone, bvn, dob, pin, claimed, codes, queue, payment, asked, faults>>

Purpose(op) == IF op \in {"register", "email"} THEN "email"
               ELSE IF op \in {"addPhone", "phone"} THEN "phone" ELSE "bvn"

Send(p) == codes[p] < MaxCodes /\ codes' = [codes EXCEPT ![p] = @ + 1]

\* Refused within the cooldown; what was written before stays.
Generate(r) ==
    /\ req[r].at = "code"
    /\ Send(Purpose(req[r].op)) \/ UNCHANGED codes
    /\ Over(r)
    /\ UNCHANGED <<user, queue, payment, asked, faults>>

\* resendRegistrationOtp and resendPhoneOtp.
Resend ==
    /\ \/ status = "pending" /\ "email" \notin verified /\ Send("email")
       \/ SignedIn /\ phone /\ Send("phone")
    /\ UNCHANGED <<user, req, queue, payment, asked, faults>>

AddPhone(r) ==
    /\ SignedIn
    /\ Start(r, "addPhone", "write")
    /\ UNCHANGED <<user, codes, queue, payment, asked, faults>>

\* The number is new; whether one was verified is left as it is.
SetPhone(r) ==
    /\ At(r, "addPhone", "write")
    /\ phone' = TRUE
    /\ Go(r, "code")
    /\ UNCHANGED <<status, verified, bvn, dob, pin, claimed, codes, queue, payment, asked, faults>>

\* Nobody else has the BVN, and the registry knows it by the customer's name.
SubmitBvn(r) ==
    /\ SignedIn
    /\ Start(r, "bvn", "write")
    /\ UNCHANGED <<user, codes, queue, payment, asked, faults>>

SetBvn(r) ==
    /\ At(r, "bvn", "write")
    /\ bvn' = TRUE
    /\ Go(r, "date")
    /\ UNCHANGED <<status, verified, phone, dob, pin, claimed, codes, queue, payment, asked, faults>>

SetDateOfBirth(r) ==
    /\ At(r, "bvn", "date")
    /\ dob' = TRUE
    /\ Go(r, "code")
    /\ UNCHANGED <<status, verified, phone, bvn, pin, claimed, codes, queue, payment, asked, faults>>

-----------------------------------------------------------------------------
(***************************************************************************)
(* Verifying.                                                              *)
(***************************************************************************)
\* The right code is presented; the account of a closed customer is not found
\* by its email any more.
PresentCode(r) ==
    /\ \/ status \notin {"none", "closed"} /\ codes["email"] > 0 /\ Start(r, "email", "consume")
       \/ SignedIn /\ codes["phone"] > 0 /\ Start(r, "phone", "consume")
       \/ SignedIn /\ codes["bvn"] > 0 /\ Start(r, "bvnCode", "consume")
    /\ UNCHANGED <<user, codes, queue, payment, asked, faults>>

ConsumeFor(r, go) ==
    /\ req[r].at = "consume"
    /\ codes' = [codes EXCEPT ![Purpose(req[r].op)] = IF @ > 0 THEN @ - 1 ELSE 0]
    /\ IF go THEN Go(r, "verify") ELSE Over(r)
    /\ UNCHANGED <<user, queue, payment, asked, faults>>

\* Whatever the status was.
ConsumeAnyway(r) == ConsumeFor(r, TRUE)

\* Only a signup that was pending when the request began goes on.
Consume(r) == ConsumeFor(r, req[r].op = "email" => req[r].pending)

MarkVerified(r) ==
    /\ req[r].at = "verify"
    /\ verified' = verified \cup {Purpose(req[r].op)}
    /\ status' = IF req[r].op = "email" THEN "active" ELSE status
    /\ IF req[r].op = "bvnCode" THEN Go(r, "claim") ELSE Over(r)
    /\ UNCHANGED <<phone, bvn, dob, pin, claimed, codes, queue, payment, asked, faults>>

SetTransactionPin(r) ==
    /\ SignedIn /\ ~pin
    /\ Start(r, "pin", "write")
    /\ UNCHANGED <<user, codes, queue, payment, asked, faults>>

SetPin(r) ==
    /\ At(r, "pin", "write")
    /\ pin' = TRUE
    /\ Go(r, "claim")
    /\ UNCHANGED <<status, verified, phone, bvn, dob, claimed, codes, queue, payment, asked, faults>>

-----------------------------------------------------------------------------
(***************************************************************************)
(* Asking for the account number.                                          *)
(***************************************************************************)
\* The user is read again, after the request's own write: both BVN and PIN?
ClaimIf(r, free) ==
    /\ req[r].at = "claim"
    /\ claimed' = (claimed \/ Ready)
    /\ IF Ready /\ free THEN Go(r, "publish") ELSE Over(r)
    /\ UNCHANGED <<status, verified, phone, bvn, dob, pin, codes, queue, payment, asked, faults>>

\* Asked for whenever customer and PIN are ready.
ClaimAgain(r) == ClaimIf(r, TRUE)

\* One UPDATE where nothing was claimed before.
ClaimProvisioning(r) == ClaimIf(r, ~claimed)

Fault == faults < MaxFaults /\ faults' = faults + 1

\* Fire and forget: the broker may be out of reach.
Publish(r) ==
    /\ req[r].at = "publish"
    /\ asked' = IF bvn /\ dob THEN asked + 1 ELSE asked
    /\ \/ (IF bvn /\ dob THEN queue < MaxMessages /\ queue' = queue + 1 ELSE UNCHANGED queue)
          /\ UNCHANGED faults
       \/ Fault /\ UNCHANGED queue
    /\ Over(r)
    /\ UNCHANGED <<user, codes, payment>>

\* Staff ask only for those nobody has asked for.
RetryUnclaimed ==
    /\ Ready /\ ~claimed /\ status \notin {"suspended", "closed"} /\ ~address
    /\ queue < MaxMessages /\ queue' = queue + 1
    /\ UNCHANGED <<user, codes, req, payment, asked, faults>>

\* Staff ask again for a customer who is ready and has no account number.
RetryProvisioning ==
    /\ Ready /\ bvn /\ dob /\ status \notin {"suspended", "closed"} /\ ~address
    /\ queue < MaxMessages /\ queue' = queue + 1
    /\ UNCHANGED <<user, codes, req, payment, asked, faults>>

Working(c, place) == work' = [work EXCEPT ![c] = place]

\* A delivery; a customer who has an address is only acknowledged.
Deliver(c) ==
    /\ work[c] = "idle" /\ queue > 0
    /\ queue' = queue - 1
    /\ Working(c, IF address THEN "acking" ELSE "asking")
    /\ UNCHANGED <<user, codes, req, address, asked, faults>>

\* VFD makes the account, or has it already;
CreateAccount(c) ==
    /\ work[c] = "asking"
    /\ Working(c, "inserting")
    /\ UNCHANGED <<user, codes, req, queue, address, asked, faults>>

\* or the call fails: the message goes to the dead letters, or nowhere (no exchange).
DeadLetter(c) ==
    /\ work[c] = "asking"
    /\ Working(c, "idle")
    /\ UNCHANGED <<user, codes, req, queue, address, asked, faults>>

\* A row, or the row of a delivery that was faster (unique index).
InsertActiveAddress(c) ==
    /\ work[c] = "inserting"
    /\ address' = TRUE
    /\ Working(c, "acking")
    /\ UNCHANGED <<user, codes, req, queue, asked, faults>>

Acknowledge(c) ==
    /\ work[c] = "acking"
    /\ Working(c, "idle")
    /\ UNCHANGED <<user, codes, req, queue, address, asked, faults>>

\* An unacknowledged message is delivered again.
ConsumerDies(c) ==
    /\ work[c] # "idle" /\ Fault
    /\ queue < MaxMessages /\ queue' = queue + 1
    /\ Working(c, "idle")
    /\ UNCHANGED <<user, codes, req, address, asked>>

RequestDies(r) ==
    /\ InFlight(r) /\ Fault
    /\ Over(r)
    /\ UNCHANGED <<user, codes, queue, payment, asked>>

-----------------------------------------------------------------------------
(***************************************************************************)
(* Staff: how they come to it is in CustomerAccounts.                      *)
(***************************************************************************)
SetStatus(s) ==
    /\ status' = s
    /\ UNCHANGED <<verified, phone, bvn, dob, pin, claimed, codes, req, queue, payment, asked, faults>>

Suspend == status \in {"pending", "active"} /\ SetStatus("suspended")

Reactivate ==
    status = "suspended" /\ SetStatus(IF "email" \in verified THEN "active" ELSE "pending")

Close ==
    /\ status = "suspended"
    /\ status' = "closed" /\ phone' = FALSE /\ verified' = verified \ {"phone"}
    /\ UNCHANGED <<bvn, dob, pin, claimed, codes, req, queue, payment, asked, faults>>

Next ==
    \/ Resend \/ RetryProvisioning \/ Suspend \/ Reactivate \/ Close
    \/ \E r \in Requests :
          \/ Register(r) \/ SaveUser(r) \/ Generate(r) \/ AddPhone(r) \/ SetPhone(r) \/ SubmitBvn(r)
          \/ SetBvn(r) \/ SetDateOfBirth(r) \/ PresentCode(r) \/ Consume(r) \/ MarkVerified(r)
          \/ SetTransactionPin(r) \/ SetPin(r) \/ ClaimProvisioning(r) \/ Publish(r) \/ RequestDies(r)
    \/ \E c \in Consumers :
          \/ Deliver(c) \/ CreateAccount(c) \/ DeadLetter(c) \/ InsertActiveAddress(c)
          \/ Acknowledge(c) \/ ConsumerDies(c)

Spec == Init /\ [][Next]_vars

\* Messages are delivered, what is begun goes on, VFD takes the account in the
\* end, and staff look at the list of customers without one.
FairSpec ==
    /\ Spec
    /\ WF_vars(RetryProvisioning)
    /\ \A c \in Consumers :
          /\ WF_vars(Deliver(c)) /\ SF_vars(CreateAccount(c))
          /\ WF_vars(InsertActiveAddress(c)) /\ WF_vars(Acknowledge(c))

-----------------------------------------------------------------------------
(***************************************************************************)
(* Properties                                                              *)
(***************************************************************************)
\* The BVN and the PIN may be finished at once, and either last: the account is
\* asked for once, never twice, and by someone, unless a process died or the
\* message was lost (maybeRequestPaymentProvisioning).
AskedExactlyOnce ==
    /\ asked <= 1
    /\ Ready /\ faults = 0 /\ (\A r \in Requests : ~InFlight(r)) => asked = 1

\* A suspended or closed account is only reactivated by staff: no code and no
\* resumed signup makes it active, unless a verification that began before the
\* suspension is still under way (register, verifyOtp).
Verifying == \E r \in Requests : req[r].op = "email" /\ req[r].pending

Barred == status \in {"suspended", "closed"}

BarredStaysBarred ==
    [][Barred /\ ~Verifying =>
           \/ status' \in {status, "closed"}
           \/ status = "suspended" /\ Reactivate]_vars

\* A customer who has done everything gets the account number, or is barred,
\* although messages are lost, refused by VFD or delivered twice, and processes
\* die between claim, message and insert.
GetsAccount == Ready ~> (address \/ Barred)
=============================================================================
