----------------------------- MODULE Postoffice -----------------------------
(***************************************************************************)
(* Delivery of the messages the services ask postoffice to send: a durable *)
(* queue, a consumer that acknowledges by hand and may die, and the email, *)
(* SMS and push providers behind it.                                       *)
(***************************************************************************)
EXTENDS Naturals, FiniteSetsExt

CONSTANTS
    Notices,       \* occasions for a message
    NumCustomers,  \* customers; a broadcast sends to any of them
    MaxFaults,     \* a bound on deaths and outages
    MaxEmitted,    \* a bound on the copies of messages, when it runs by itself
    \* Was the dead-letter exchange declared at the broker, by hand?  The service
    \* names it in its queue's arguments and declares neither it nor a queue on it.
    DeadLetterExchange

Channels == {"sms", "email", "push"}
Customers == 1..NumCustomers
Messages == [channel : Channels, about : Notices]
                \cup [channel : {"email", "push"}, about : Customers]

\* What became of the copies of a message: handed over by their producers, lost
\* on the way to the broker, at the broker, with the consumer before and after
\* the provider took them, taken by the provider; after a send that failed, in the
\* dead-letter queue or dropped by the broker; and back at the broker though the
\* provider had taken them.
Tally == [emitted : Nat, swallowed : Nat, waiting : Nat, sending : Nat, taken : Nat,
          sent : Nat, deadLettered : Nat, dropped : Nat, returned : Nat]

VARIABLES
    copies,   \* of each message
    faults

postVars == <<copies, faults>>

PostTypeOK ==
    /\ copies \in [Messages -> Tally]
    /\ faults \in 0..MaxFaults

NoCopy == [emitted |-> 0, swallowed |-> 0, waiting |-> 0, sending |-> 0, taken |-> 0,
           sent |-> 0, deadLettered |-> 0, dropped |-> 0, returned |-> 0]

PostInit ==
    /\ copies = [m \in Messages |-> NoCopy]
    /\ faults = 0

\* A producer emits a set of messages and does not wait; with the broker away
\* they are gone, and it does not learn of it.
Emit(S) ==
    \/ /\ copies' = [m \in Messages |->
             IF m \in S THEN [copies[m] EXCEPT !.emitted = @ + 1, !.waiting = @ + 1]
             ELSE copies[m]]
       /\ UNCHANGED faults
    \/ /\ faults < MaxFaults
       /\ faults' = faults + 1
       /\ copies' = [m \in Messages |->
             IF m \in S THEN [copies[m] EXCEPT !.emitted = @ + 1, !.swallowed = @ + 1]
             ELSE copies[m]]

Moved(m, from, to) == copies' = [copies EXCEPT ![m][from] = @ - 1, ![m][to] = @ + 1]

\* The consumer takes whatever is there; it has any number at work at once.
Deliver(m) ==
    /\ copies[m].waiting > 0
    /\ Moved(m, "waiting", "sending")
    /\ UNCHANGED faults

-----------------------------------------------------------------------------
(***************************************************************************)
(* The providers: what may come of a call.  "lost" is an answer that never *)
(* came though the provider did its part.                                  *)
(***************************************************************************)
SendSms == {"taken", "refused", "lost"}
SendEmail == {"taken", "refused", "lost"}
\* A customer with no registered device is no error.
SendPush == {"taken", "refused", "lost", "nobody"}

Send(m) ==
    CASE m.channel = "sms" -> SendSms
      [] m.channel = "email" -> SendEmail
      [] m.channel = "push" -> SendPush

\* nack without requeue: the broker hands the copy to the dead-letter exchange; where
\* nobody declared one it drops the copy.
Nack(m, from) == Moved(m, from, IF DeadLetterExchange THEN "deadLettered" ELSE "dropped")

\* After a provider that did its part: the process has yet to acknowledge.
ProviderTakes(m) ==
    /\ copies[m].sending > 0
    /\ copies' = [copies EXCEPT ![m].sending = @ - 1, ![m].taken = @ + 1, ![m].sent = @ + 1]
    /\ UNCHANGED faults

Ack(m) ==
    /\ copies[m].taken > 0
    /\ copies' = [copies EXCEPT ![m].taken = @ - 1]
    /\ UNCHANGED faults

AckNobody(m) ==
    /\ copies[m].sending > 0
    /\ "nobody" \in Send(m)
    /\ copies' = [copies EXCEPT ![m].sending = @ - 1, ![m].sent = @ + 1]
    /\ UNCHANGED faults

\* Also an unknown template, a missing key, a template that does not render.
Refused(m) ==
    /\ copies[m].sending > 0
    /\ "refused" \in Send(m)
    /\ Nack(m, "sending")
    /\ UNCHANGED faults

AnswerLost(m) ==
    /\ copies[m].taken > 0
    /\ "lost" \in Send(m)
    /\ faults < MaxFaults
    /\ faults' = faults + 1
    /\ Nack(m, "taken")

\* Under automatic acknowledgement what the consumer has is nowhere else.
AutoAckDies ==
    /\ faults < MaxFaults
    /\ faults' = faults + 1
    /\ copies' = [m \in Messages |-> [copies[m] EXCEPT !.sending = 0, !.taken = 0]]

\* Whatever the consumer had not acknowledged is delivered again.
ConsumerDies ==
    /\ faults < MaxFaults
    /\ faults' = faults + 1
    /\ copies' = [m \in Messages |->
          [copies[m] EXCEPT !.waiting = @ + copies[m].sending + copies[m].taken,
                            !.returned = @ + copies[m].taken, !.sending = 0, !.taken = 0]]

Process(m) == Ack(m) \/ ProviderTakes(m) \/ AckNobody(m) \/ Refused(m) \/ AnswerLost(m)

\* Any producer, when the post office runs by itself.
Produce(m) ==
    /\ MapThenSumSet(LAMBDA x : copies[x].emitted, Messages) < MaxEmitted
    /\ Emit({m})

PostNext ==
    \/ \E m \in [channel : Channels, about : Notices] : Produce(m)
    \/ \E m \in Messages : Deliver(m) \/ Process(m)
    \/ ConsumerDies

PostSpec == PostInit /\ [][PostNext]_postVars
-----------------------------------------------------------------------------
(***************************************************************************)
(* Properties                                                              *)
(***************************************************************************)
\* A copy that reached the broker leaves it only to a provider, or after a send of
\* that very copy failed: a death of the consumer, whatever it had at work, loses
\* none (noAck: false, and acknowledging last).  And nobody receives a message
\* more often than it was asked for, unless a consumer died after the provider
\* took it: a send that failed is never tried again.
DeliveredAsAsked ==
    \A m \in Messages :
        LET failed == copies[m].deadLettered + copies[m].dropped IN
        /\ copies[m].emitted - copies[m].swallowed
              =< copies[m].waiting + copies[m].sending + copies[m].sent + failed
        /\ copies[m].sent =< copies[m].emitted + copies[m].returned

\* What notification.consumer.ts:80-81 says of a send that failed, "Routes to the
\* queue's dead-letter exchange for manual investigation instead": none is dropped.
\* It holds only where the exchange was declared by hand (src/docker/README.md,
\* step 8: "a nacked message with no matching exchange is just silently dropped"),
\* so no run checks it.
FailedSendsKept == \A m \in Messages : copies[m].dropped = 0
=============================================================================
