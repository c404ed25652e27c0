------------------------------ MODULE Notices -------------------------------
(***************************************************************************)
(* What the services ask postoffice to send: notices about a payment,      *)
(* codes and security alerts, alerts to staff, and the broadcasts staff    *)
(* write, which a queue worker fans out in pages.  What becomes of the     *)
(* messages is Postoffice's matter: here they pile up at the broker.       *)
(***************************************************************************)
EXTENDS Postoffice

CONSTANTS
    BATCH,        \* customers per page of a broadcast
    MaxStalls,    \* how often BullMQ runs the job of a dead worker again
    MaxChanges    \* a bound on the changes of customers' statuses

VARIABLES
    notice,     \* each occasion: due, waiting for the address, or over
    broadcast,  \* the row of the broadcast, and how its request came along
    job,        \* its job: none, queued, active, or over
    stalls,     \* of that job
    after,      \* in the worker's memory: the last customer it sent to
    active,     \* in the auth database: customers whose status is ACTIVE
    steady,     \* those active ever since the run of the job began
    changes

producerVars == <<notice, broadcast, job, stalls, after, active, steady, changes>>
vars == <<postVars, producerVars>>

Broadcast == [status : {"none", "QUEUED", "PROCESSING", "COMPLETED", "FAILED"},
              request : {"none", "saved", "recorded", "over"},
              channels : SUBSET {"email", "push"},
              customerIds : SUBSET Customers,
              recipientCount : Nat]

TypeOK ==
    /\ PostTypeOK
    /\ notice \in [Notices -> {"due", "contact", "bill", "over"}]
    /\ broadcast \in Broadcast
    /\ job \in {"none", "queued", "active", "over"}
    /\ stalls \in 0..MaxStalls + 1
    /\ after \in 0..NumCustomers
    /\ active \subseteq Customers /\ steady \subseteq Customers
    /\ changes \in 0..MaxChanges

Init ==
    /\ PostInit
    /\ notice = [n \in Notices |-> "due"]
    /\ broadcast = [status |-> "none", request |-> "none", channels |-> {},
                    customerIds |-> {}, recipientCount |-> 0]
    /\ job = "none" /\ stalls = 0 /\ after = 0
    /\ active = Customers /\ steady = {} /\ changes = 0

Say(n, channels) == Emit([channel : channels, about : {n}])
Step(n, phase) ==
    /\ notice' = [notice EXCEPT ![n] = phase]
    /\ UNCHANGED <<broadcast, job, stalls, after, active, steady, changes>>

-----------------------------------------------------------------------------
(***************************************************************************)
(* A payment.  The push goes first; the email waits for the auth service   *)
(* to tell the address, and is left out if it does not.                    *)
(***************************************************************************)
Events == {"CREDIT_RECEIVED", "PAYOUT_SUCCESSFUL", "PAYOUT_FAILED",
           "ACCOUNT_CREDITED", "ACCOUNT_DEBITED"}
HasReceipt(event) == event # "PAYOUT_FAILED"

\* A bill's receipt is held back while its token is awaited.
NotifyTransaction(n) ==
    /\ notice[n] = "due"
    /\ Say(n, {"push"})
    /\ \E event \in Events, held, bill \in BOOLEAN :
          /\ held \/ bill => event = "PAYOUT_SUCCESSFUL"
          /\ Step(n, IF held \/ ~HasReceipt(event) THEN "over"
                     ELSE IF bill THEN "bill" ELSE "contact")

\* When the token turned up, or never did.
SendBillReceiptEmail(n) ==
    /\ notice[n] = "due"
    /\ Step(n, "bill")
    /\ UNCHANGED postVars

LookupContact == {"known", "unknown", "unreachable"}

SayByEmail(n) ==
    \E contact \in LookupContact :
        IF contact = "known" THEN Say(n, {"email"}) ELSE UNCHANGED postVars

SendReceiptEmail(n) == notice[n] = "contact" /\ SayByEmail(n) /\ Step(n, "over")

EmitBillReceipt(n) == notice[n] = "bill" /\ SayByEmail(n) /\ Step(n, "over")

\* The process dies, or the wallet is not found: nothing is said, and nothing
\* remembers that it was to be.
Forget(n) ==
    /\ notice[n] # "over"
    /\ Step(n, "over")
    /\ UNCHANGED postVars

\* The auth service: a code by SMS or email, or the news of a decision.
AuthNotice(n) ==
    /\ notice[n] = "due"
    /\ \E channels \in {{"sms"}, {"email"}, {"email", "push"}} : Say(n, channels)
    /\ Step(n, "over")

\* A lockout or a new device.
SecurityAlert(n) ==
    /\ notice[n] = "due"
    /\ Say(n, {"email", "push"})
    /\ Step(n, "over")

\* To the super admins, after the row of the audit log is written.
StaffAlert(n) ==
    /\ notice[n] = "due"
    /\ Say(n, {"email"})
    /\ Step(n, "over")

-----------------------------------------------------------------------------
(***************************************************************************)
(* A broadcast: the request saves the row, records it and queues the job.  *)
(***************************************************************************)
Create ==
    /\ broadcast.request = "none"
    /\ \E channels \in SUBSET {"email", "push"} \ {{}}, S \in SUBSET Customers \ {{}} :
          broadcast' = [broadcast EXCEPT !.status = "QUEUED", !.request = "saved",
                                         !.channels = channels, !.customerIds = S]
    /\ UNCHANGED <<postVars, notice, job, stalls, after, active, steady, changes>>

RecordCreated ==
    /\ broadcast.request = "saved"
    /\ broadcast' = [broadcast EXCEPT !.request = "recorded"]
    /\ UNCHANGED <<postVars, notice, job, stalls, after, active, steady, changes>>

QueueJob ==
    /\ broadcast.request = "recorded"
    /\ broadcast' = [broadcast EXCEPT !.request = "over"]
    /\ job' = "queued"
    /\ UNCHANGED <<postVars, notice, stalls, after, active, steady, changes>>

\* The audit log or the queue refuses, or the process dies: the row stays QUEUED.
RequestFails ==
    /\ broadcast.request \in {"saved", "recorded"}
    /\ broadcast' = [broadcast EXCEPT !.request = "over"]
    /\ UNCHANGED <<postVars, notice, job, stalls, after, active, steady, changes>>

Written(status) == broadcast' = [broadcast EXCEPT !.status = status]

StartRun ==
    /\ job = "queued"
    /\ job' = "active"
    /\ Written("PROCESSING")
    /\ after' = 0
    /\ steady' = active \cap broadcast.customerIds
    /\ UNCHANGED <<postVars, notice, stalls, active, changes>>

Wanted == active \cap broadcast.customerIds

\* By number of rows already sent.
RowsByOffset ==
    {c \in Wanted : LET before == Cardinality({d \in Wanted : d < c}) IN
                        before >= broadcast.recipientCount
                            /\ before < broadcast.recipientCount + BATCH}

\* The next page: by id, after the last customer of the page before.
Rows ==
    {c \in Wanted : c > after /\ Cardinality({d \in Wanted : after < d /\ d < c}) < BATCH}

Running == job = "active" /\ broadcast.status = "PROCESSING"

\* A page is read and sent in one go; then the counts are stored, or the run fails.
Publish ==
    /\ Running
    /\ Rows # {}
    /\ Emit([channel : broadcast.channels, about : Rows])
    /\ after' = CHOOSE c \in Rows : \A d \in Rows : d =< c
    /\ \/ broadcast' = [broadcast EXCEPT !.recipientCount =
                            Cardinality(Rows) + IF after = 0 THEN 0 ELSE @]
       \/ Written("FAILED")
    /\ UNCHANGED <<notice, job, stalls, active, steady, changes>>

Complete ==
    /\ Running
    /\ \/ Rows = {} /\ Written("COMPLETED")
       \/ Written("FAILED")
    /\ UNCHANGED <<postVars, notice, job, stalls, after, active, steady, changes>>

JobOver ==
    /\ job = "active"
    /\ broadcast.status \in {"COMPLETED", "FAILED"}
    /\ job' = "over"
    /\ UNCHANGED <<postVars, notice, broadcast, stalls, after, active, steady, changes>>

\* The worker dies before its job is over: BullMQ queues the job again, from the
\* start, or gives it up and the row stays as it is.
WorkerDies ==
    /\ job = "active"
    /\ stalls' = stalls + 1
    /\ job' = IF stalls < MaxStalls THEN "queued" ELSE "over"
    /\ UNCHANGED <<postVars, notice, broadcast, after, active, steady, changes>>

\* It cannot store its first or its last word: a job has one attempt.
JobFails ==
    /\ job \in {"queued", "active"}
    /\ job' = "over"
    /\ UNCHANGED <<postVars, notice, broadcast, stalls, after, active, steady, changes>>

\* Suspended, reactivated, closed, or signed up.
StatusChanges(c) ==
    /\ changes < MaxChanges
    /\ changes' = changes + 1
    /\ active' = IF c \in active THEN active \ {c} ELSE active \cup {c}
    /\ steady' = steady \ {c}
    /\ UNCHANGED <<postVars, notice, broadcast, job, stalls, after>>

-----------------------------------------------------------------------------
NoticeNext ==
    \E n \in Notices :
        \/ NotifyTransaction(n) \/ SendBillReceiptEmail(n) \/ SendReceiptEmail(n)
        \/ EmitBillReceipt(n)
        \/ AuthNotice(n) \/ SecurityAlert(n) \/ StaffAlert(n) \/ Forget(n)

BroadcastNext ==
    \/ Create \/ RecordCreated \/ QueueJob \/ RequestFails
    \/ StartRun \/ Publish \/ Complete \/ JobOver \/ JobFails \/ WorkerDies
    \/ \E c \in Customers : StatusChanges(c)

Next == NoticeNext \/ BroadcastNext

Spec == Init /\ [][Next]_vars
-----------------------------------------------------------------------------
(***************************************************************************)
(* Properties                                                              *)
(***************************************************************************)
\* A completed broadcast was sent to everyone it was for who stayed active, and
\* to nobody twice, but for the runs a dead worker's job was given again: those
\* who come and go meanwhile make no page skip or repeat another.
EveryoneOncePerRun ==
    /\ \A m \in [channel : {"email", "push"}, about : Customers] :
          copies[m].emitted =< 1 + stalls
    /\ broadcast.status = "COMPLETED" =>
          \A m \in [channel : broadcast.channels, about : steady] : copies[m].emitted >= 1
=============================================================================
