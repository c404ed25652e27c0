------------------------------ MODULE Services ------------------------------
(***************************************************************************)
(* Parts of the services that share no state with one another: a           *)
(* customer's sessions, the VFD token, and what is said to customers and   *)
(* how it is delivered.  A behaviour runs one of them, `part`; the rest    *)
(* stay as they start.                                                     *)
(***************************************************************************)
EXTENDS Naturals

VARIABLE part

\* The sessions of one customer.
CONSTANTS SignIns, Refreshes, Ends, Tokens, None
VARIABLES session, token, pc, found, scope
SS == INSTANCE Sessions
sessionVars == <<session, token, pc, found, scope>>

\* The VFD token.
CONSTANTS Processes, VfdCalls, MaxTokens
VARIABLES cachedToken, tokenRequest, newest, answer, call, disturbed
VT == INSTANCE VfdToken
tokenVars == <<cachedToken, tokenRequest, newest, answer, call, disturbed>>

\* Notices and broadcasts; and the post office, fed by any producer.
CONSTANTS Notices, NumCustomers, BATCH, MaxOutages, MaxEmitted, MaxStalls, MaxChanges,
          DeadLetterExchange
VARIABLES copies, outages, notice, broadcast, job, stalls, after, active, steady, changes
N == INSTANCE Notices WITH faults <- outages, MaxFaults <- MaxOutages
noticeVars == <<copies, outages, notice, broadcast, job, stalls, after, active, steady, changes>>
producerVars == <<notice, broadcast, job, stalls, after, active, steady, changes>>

\* Requests are told apart by what they are, a notice is not a customer, a page
\* holds at least one customer, and a process of the payment service runs.
ASSUME ServicesAssumption ==
    /\ SignIns \cap Refreshes = {} /\ SignIns \cap Ends = {} /\ Refreshes \cap Ends = {}
    /\ None \notin SignIns \cup Tokens
    /\ Processes # {}
    /\ Notices \cap (1..NumCustomers) = {}
    /\ {NumCustomers, MaxTokens, MaxOutages, MaxEmitted, MaxStalls, MaxChanges} \subseteq Nat
    /\ BATCH \in Nat \ {0}
    /\ DeadLetterExchange \in BOOLEAN

-----------------------------------------------------------------------------
ServicesInit ==
    /\ part \in {"sessions", "token", "notices", "broadcast", "post"}
    /\ SS!Init /\ VT!Init /\ N!Init

ServicesNext ==
    /\ UNCHANGED part
    /\ \/ part = "sessions" /\ SS!Next /\ UNCHANGED <<tokenVars, noticeVars>>
       \/ part = "token" /\ VT!Next /\ UNCHANGED <<sessionVars, noticeVars>>
       \/ part = "notices" /\ N!NoticeNext /\ UNCHANGED <<sessionVars, tokenVars>>
       \/ part = "broadcast" /\ N!BroadcastNext /\ UNCHANGED <<sessionVars, tokenVars>>
       \/ part = "post" /\ N!PostNext /\ UNCHANGED <<sessionVars, tokenVars, producerVars>>

ServicesSpec == ServicesInit /\ [][ServicesNext]_<<part, sessionVars, tokenVars, noticeVars>>

-----------------------------------------------------------------------------
\* Sessions: one live row, and its tokens one chain.
OneChain == SS!OneChain

\* A session that cannot be refreshed any more stays so.
DeadStaysDead == SS!DeadStaysDead

\* No call to VFD is turned away twice by the doing of its own process.
CallsGetThrough == VT!CallsGetThrough

\* Broadcasts: everyone, and nobody twice in a run of the job.
EveryoneOncePerRun == N!EveryoneOncePerRun

\* The broker's messages are sent or their sends fail, a death of postoffice loses
\* none; and nobody gets one more often than asked for, but for such a death.
DeliveredAsAsked == N!DeliveredAsAsked
=============================================================================
