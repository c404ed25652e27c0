-------------------------- MODULE NinVerification ---------------------------
(***************************************************************************)
(* Customers prove who they are: a liveness session minted at QoreID, kept *)
(* in the memory of the auth service until it is spent, and a NIN looked   *)
(* up in the registry.  The service runs as one process, which may restart.*)
(***************************************************************************)
EXTENDS Naturals

CONSTANTS
    Customers,
    Liveness,    \* sessions QoreID mints
    Nins,
    Checks       \* requests to verify a NIN

Nobody == "nobody"
NoNin == "none"

VARIABLES
    minted,      \* session ids QoreID has given out
    pending,     \* pendingLivenessSessions: the customer a session is of
    check,       \* each request: where it is, of whom, on which session, which NIN
    nin,         \* users.nin
    vouched,     \* history: for how many verified NINs a session stood
    bearer       \* the cached QoreID access token: none, good, or no longer honoured

vars == <<minted, pending, check, nin, vouched, bearer>>

Check == [at : {"idle", "looking", "asking", "writing", "over"},
          of : Customers \cup {Nobody}, on : Liveness \cup {"none"}, nin : Nins \cup {NoNin}]

TypeOK ==
    /\ minted \subseteq Liveness
    /\ pending \in [Liveness -> Customers \cup {Nobody}]
    /\ check \in [Checks -> Check]
    /\ nin \in [Customers -> Nins \cup {NoNin}]
    /\ vouched \in [Liveness -> Nat]
    /\ bearer \in {"none", "good", "stale"}

Init ==
    /\ minted = {}
    /\ pending = [s \in Liveness |-> Nobody]
    /\ check = [r \in Checks |-> [at |-> "idle", of |-> Nobody, on |-> "none", nin |-> NoNin]]
    /\ nin = [c \in Customers |-> NoNin]
    /\ vouched = [s \in Liveness |-> 0]
    /\ bearer = "none"

-----------------------------------------------------------------------------
CreateNinLivenessSession(c) ==
    \E s \in Liveness \ minted :
        /\ minted' = minted \cup {s}
        /\ pending' = [pending EXCEPT ![s] = c]
        /\ UNCHANGED <<check, nin, vouched, bearer>>

\* Fifteen minutes are over.
PruneExpiredLivenessSessions(s) ==
    /\ pending[s] # Nobody
    /\ pending' = [pending EXCEPT ![s] = Nobody]
    /\ UNCHANGED <<minted, check, nin, vouched, bearer>>

To(r, phase) == check' = [check EXCEPT ![r].at = phase]

\* Looked at, and left where it is until the verification is done.
SpendLater(s) == pending

\* Looked at and deleted before the first await.
Spend(s) == [pending EXCEPT ![s] = Nobody]

VerifyNin(r) ==
    /\ check[r].at = "idle"
    /\ \E s \in minted, n \in Nins :
          /\ pending[s] # Nobody
          /\ pending' = Spend(s)
          /\ check' = [check EXCEPT ![r] =
                 [at |-> "looking", of |-> pending[s], on |-> s, nin |-> n]]
    /\ UNCHANGED <<minted, nin, vouched, bearer>>

TakenBy(n, c) == \E d \in Customers \ {c} : nin[d] = n

FindByNin(r) ==
    /\ check[r].at = "looking"
    /\ To(r, IF TakenBy(check[r].nin, check[r].of) THEN "over" ELSE "asking")
    /\ UNCHANGED <<minted, pending, nin, vouched, bearer>>

\* A cached token that has not run out is used, honoured or not.
GetAccessToken == IF bearer = "none" THEN {"none", "good"} ELSE {bearer}

\* The name in the registry is the customer's, or it is not; or no answer.
LookUp(r) ==
    /\ check[r].at = "asking"
    /\ bearer' \in GetAccessToken
    /\ \/ bearer' = "good" /\ To(r, "writing")
       \/ To(r, "over")
    /\ UNCHANGED <<minted, pending, nin, vouched>>

\* The unique index has the last word.
SetNinVerified(r) ==
    /\ check[r].at = "writing"
    /\ To(r, "over")
    /\ IF TakenBy(check[r].nin, check[r].of) THEN UNCHANGED <<nin, vouched>>
       ELSE /\ nin' = [nin EXCEPT ![check[r].of] = check[r].nin]
            /\ vouched' = [vouched EXCEPT ![check[r].on] = @ + 1]
    /\ UNCHANGED <<minted, pending, bearer>>

\* The token runs out, or QoreID withdraws it, of which the cache learns nothing.
BearerEnds ==
    /\ bearer # "none"
    /\ bearer' \in {"none", "stale"}
    /\ UNCHANGED <<minted, pending, check, nin, vouched>>

\* Memory and requests are gone.
Restart ==
    /\ pending' = [s \in Liveness |-> Nobody]
    /\ bearer' = "none"
    /\ check' = [r \in Checks |-> [check[r] EXCEPT !.at = IF @ = "idle" THEN @ ELSE "over"]]
    /\ UNCHANGED <<minted, nin, vouched>>

Next ==
    \/ \E c \in Customers : CreateNinLivenessSession(c)
    \/ \E s \in Liveness : PruneExpiredLivenessSessions(s)
    \/ \E r \in Checks : VerifyNin(r) \/ FindByNin(r) \/ LookUp(r) \/ SetNinVerified(r)
    \/ BearerEnds \/ Restart

Spec == Init /\ [][Next]_vars
-----------------------------------------------------------------------------
(***************************************************************************)
(* Properties                                                              *)
(***************************************************************************)
\* A liveness check stands for one verification, however many requests present
\* its session at once (verifyNin spends it before its first await), and no two
\* customers have one NIN.
LivenessSpentOnce ==
    /\ \A s \in Liveness : vouched[s] =< 1
    /\ \A c, d \in Customers : nin[c] = nin[d] /\ c # d => nin[c] = NoNin
=============================================================================
