------------------------------ MODULE VfdToken ------------------------------
(***************************************************************************)
(* The VFD access token.  VFD honours the newest token only; each process  *)
(* of the payment service keeps one in memory and shares one request for   *)
(* another among its calls.  There are two processes during a roll-out.    *)
(***************************************************************************)
EXTENDS Naturals

CONSTANTS
    Processes,   \* processes of the payment service
    VfdCalls,    \* calls to VFD, of either process
    MaxTokens    \* a bound on the tokens VFD issues

Issued == 1..MaxTokens
NoToken == 0

VARIABLES
    cachedToken,   \* what each process would use now, NoToken if nothing valid
    tokenRequest,  \* its request in flight: "none", "asked", or "answered"
    newest,        \* at VFD: the newest token, the only one it honours
    answer,        \* the token in the answer that is on its way to a process
    call,          \* the calls: where each is, in which process, with what token
    disturbed      \* calls in whose time the token was replaced from outside

vars == <<cachedToken, tokenRequest, newest, answer, call, disturbed>>

CallPhases == {"idle", "waiting", "sending", "through", "turned_away", "failed"}
Call == [phase : CallPhases, process : Processes, token : Issued \cup {NoToken}, again : BOOLEAN]

\* A call that is not under way is of no process and holds no token.
AtRest(phase) == [phase |-> phase, process |-> CHOOSE p \in Processes : TRUE,
                  token |-> NoToken, again |-> FALSE]
UnderWay == {c \in VfdCalls : call[c].phase \in {"waiting", "sending"}}

TypeOK ==
    /\ cachedToken \in [Processes -> Issued \cup {NoToken}]
    /\ tokenRequest \in [Processes -> {"none", "asked", "answered"}]
    /\ newest \in Issued \cup {NoToken}
    /\ answer \in [Processes -> Issued \cup {NoToken}]
    /\ call \in [VfdCalls -> Call]
    /\ disturbed \subseteq VfdCalls

Init ==
    /\ cachedToken = [p \in Processes |-> NoToken]
    /\ tokenRequest = [p \in Processes |-> "none"]
    /\ newest = NoToken
    /\ answer = [p \in Processes |-> NoToken]
    /\ call = [c \in VfdCalls |-> AtRest("idle")]
    /\ disturbed = {}

-----------------------------------------------------------------------------
\* Join the one request of the process, or make it.
FetchAccessToken(p) ==
    tokenRequest' = [tokenRequest EXCEPT ![p] = IF @ = "none" THEN "asked" ELSE @]

\* By call c, when the cache of its process p holds `cached`: go on with that
\* token, or wait for the request.
GetAccessToken(c, p, cached, again) ==
    /\ call' = [call EXCEPT ![c] = [phase |-> IF cached = NoToken THEN "waiting" ELSE "sending",
                                    process |-> p, token |-> cached, again |-> again]]
    /\ IF cached = NoToken THEN FetchAccessToken(p) ELSE UNCHANGED tokenRequest

AuthorizedFetch(c, p) ==
    /\ call[c].phase = "idle"
    /\ GetAccessToken(c, p, cachedToken[p], FALSE)
    /\ UNCHANGED <<cachedToken, newest, answer, disturbed>>

\* VFD issues a token, and the one before it is worth nothing from here on.
VfdIssues(p) ==
    /\ tokenRequest[p] = "asked"
    /\ newest < MaxTokens
    /\ newest' = newest + 1
    /\ answer' = [answer EXCEPT ![p] = newest + 1]
    /\ tokenRequest' = [tokenRequest EXCEPT ![p] = "answered"]
    /\ disturbed' = disturbed \cup {c \in UnderWay : call[c].process # p}
    /\ UNCHANGED <<cachedToken, call>>

\* The answer reaches the process: cached, and handed to every call that waits.
RequestAccessToken(p) ==
    /\ tokenRequest[p] = "answered"
    /\ cachedToken' = [cachedToken EXCEPT ![p] = answer[p]]
    /\ call' = [c \in VfdCalls |->
          IF call[c].process = p /\ call[c].phase = "waiting"
          THEN [call[c] EXCEPT !.phase = "sending", !.token = answer[p]] ELSE call[c]]
    /\ tokenRequest' = [tokenRequest EXCEPT ![p] = "none"]
    /\ answer' = [answer EXCEPT ![p] = NoToken]
    /\ UNCHANGED <<newest, disturbed>>

\* VFD refuses, or the answer is lost: every call that waits fails with it.
RequestFails(p) ==
    /\ tokenRequest[p] # "none"
    /\ call' = [c \in VfdCalls |->
          IF call[c].process = p /\ call[c].phase = "waiting"
          THEN AtRest("failed") ELSE call[c]]
    /\ tokenRequest' = [tokenRequest EXCEPT ![p] = "none"]
    /\ answer' = [answer EXCEPT ![p] = NoToken]
    /\ UNCHANGED <<cachedToken, newest, disturbed>>

-----------------------------------------------------------------------------
Accepted(c) ==
    /\ call[c].phase = "sending"
    /\ call[c].token = newest
    /\ call' = [call EXCEPT ![c] = AtRest("through")]
    /\ UNCHANGED <<cachedToken, tokenRequest, newest, answer, disturbed>>

\* Without the comparison.
DiscardAny(p, rejected) == NoToken

\* The cache without the rejected token: left alone if it holds another already.
Discard(p, rejected) == IF cachedToken[p] = rejected THEN NoToken ELSE cachedToken[p]

Rejected(c) ==
    LET p == call[c].process IN
    /\ call[c].phase = "sending"
    /\ call[c].token # newest
    /\ ~call[c].again
    /\ cachedToken' = [cachedToken EXCEPT ![p] = Discard(p, call[c].token)]
    /\ GetAccessToken(c, p, Discard(p, call[c].token), TRUE)
    /\ UNCHANGED <<newest, answer, disturbed>>

RejectedAgain(c) ==
    /\ call[c].phase = "sending"
    /\ call[c].token # newest
    /\ call[c].again
    /\ call' = [call EXCEPT ![c] = AtRest("turned_away")]
    /\ UNCHANGED <<cachedToken, tokenRequest, newest, answer, disturbed>>

\* The cached token comes within thirty seconds of its expiry: the process asks
\* for another while calls with the old one are still on their way.
Expire(p) ==
    /\ cachedToken[p] # NoToken
    /\ cachedToken' = [cachedToken EXCEPT ![p] = NoToken]
    /\ disturbed' = disturbed \cup {c \in UnderWay : call[c].process = p}
    /\ UNCHANGED <<tokenRequest, newest, answer, call>>

\* The process is replaced: its memory and its calls are gone.
Restart(p) ==
    /\ cachedToken' = [cachedToken EXCEPT ![p] = NoToken]
    /\ tokenRequest' = [tokenRequest EXCEPT ![p] = "none"]
    /\ answer' = [answer EXCEPT ![p] = NoToken]
    /\ call' = [c \in VfdCalls |->
          IF call[c].process = p /\ c \in UnderWay
          THEN AtRest("failed") ELSE call[c]]
    /\ UNCHANGED <<newest, disturbed>>

Next ==
    \/ \E c \in VfdCalls, p \in Processes : AuthorizedFetch(c, p)
    \/ \E c \in VfdCalls : Accepted(c) \/ Rejected(c) \/ RejectedAgain(c)
    \/ \E p \in Processes : VfdIssues(p) \/ RequestAccessToken(p) \/ RequestFails(p)
                              \/ Expire(p) \/ Restart(p)

Spec == Init /\ [][Next]_vars
-----------------------------------------------------------------------------
(***************************************************************************)
(* Properties                                                              *)
(***************************************************************************)
\* The calls of a process never invalidate each other's tokens: one is turned
\* away twice only if another process took a token in its time, or the cached
\* one ran out (fetchAccessToken, and authorizedFetch's comparison).
CallsGetThrough == \A c \in VfdCalls : call[c].phase = "turned_away" => c \in disturbed
=============================================================================
