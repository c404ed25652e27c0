------------------------------ MODULE Sessions ------------------------------
(***************************************************************************)
(* A customer's sessions and refresh tokens: signing in, refreshing and    *)
(* signing out, any number of each at once, for one customer.              *)
(*                                                                         *)
(* An action is what a request does between two awaits.  A bulk UPDATE of  *)
(* refresh tokens takes two: it finds the live rows (Find), and revokes    *)
(* those (Revoke) once no transaction holds one of them locked.  A token   *)
(* issued in between is not among them.                                    *)
(***************************************************************************)
CONSTANTS
    SignIns,    \* completed logins; the session one creates bears its name
    Refreshes,  \* requests to refresh
    Ends,       \* requests, of the customer or of staff, that end sessions
    Tokens,     \* refresh tokens; there are as many as rows may be inserted
    None

Runs == SignIns \cup Refreshes \cup Ends

VARIABLES
    session,  \* sessions: none, live, or revoked
    token,    \* refresh_tokens: the session, whether unrevoked, what it replaced
    pc,       \* where each request is
    found,    \* the rows a request found: to revoke, or the token it presents
    scope     \* the sessions a request is ending

vars == <<session, token, pc, found, scope>>

Phases == {"idle", "ending", "revoking", "creating", "issuing", "presenting", "rotating", "over"}

Row == [of : SignIns \cup {None}, live : BOOLEAN, from : Tokens \cup {None}]

TypeOK ==
    /\ session \in [SignIns -> {"none", "live", "revoked"}]
    /\ token \in [Tokens -> Row]
    /\ pc \in [Runs -> Phases]
    /\ found \in [Runs -> SUBSET Tokens]
    /\ scope \in [Ends -> SUBSET SignIns]

Unissued == [of |-> None, live |-> FALSE, from |-> None]

Init ==
    /\ session = [s \in SignIns |-> "none"]
    /\ token = [t \in Tokens |-> Unissued]
    /\ pc = [a \in Runs |-> "idle"]
    /\ found = [a \in Runs |-> {}]
    /\ scope = [e \in Ends |-> {}]

Go(a, phase) == pc' = [pc EXCEPT ![a] = phase]

-----------------------------------------------------------------------------
(***************************************************************************)
(* Bulk revocation.                                                        *)
(***************************************************************************)
\* The rows the UPDATE sees when it starts.
Find(a, S) ==
    /\ found' = [found EXCEPT ![a] = {t \in Tokens : token[t].live /\ token[t].of \in S}]
    /\ Go(a, "revoking")

\* A rotation holds its token's row locked until it commits.
Locked(t) == \E r \in Refreshes : pc[r] = "rotating" /\ t \in found[r]

Revoke(a) ==
    /\ pc[a] = "revoking"
    /\ \A t \in found[a] : ~Locked(t)
    /\ token' = [t \in Tokens |-> IF t \in found[a] THEN [token[t] EXCEPT !.live = FALSE]
                                                    ELSE token[t]]
    /\ found' = [found EXCEPT ![a] = {}]
    /\ Go(a, IF a \in SignIns THEN "creating" ELSE "over")
    /\ UNCHANGED <<session, scope>>

-----------------------------------------------------------------------------
(***************************************************************************)
(* Signing in, once the password (and PIN) are accepted.                   *)
(***************************************************************************)
Login(s) ==
    /\ pc[s] = "idle"
    /\ Find(s, SignIns)
    /\ UNCHANGED <<session, token, scope>>

\* Revoking before the lock is taken: the row of a concurrent login is missed.
CreateBesides(s) ==
    /\ pc[s] = "creating"
    /\ session' = [session EXCEPT ![s] = "live"]
    /\ Go(s, "issuing")
    /\ UNCHANGED <<token, found, scope>>

\* One transaction under the customer's advisory lock.
CreateExclusive(s) ==
    /\ pc[s] = "creating"
    /\ session' = [x \in SignIns |-> IF x = s THEN "live"
                                     ELSE IF session[x] = "live" THEN "revoked" ELSE session[x]]
    /\ Go(s, "issuing")
    /\ UNCHANGED <<token, found, scope>>

IssueTokenPair(s) ==
    /\ pc[s] = "issuing"
    /\ \E t \in Tokens :
          /\ token[t] = Unissued
          /\ token' = [token EXCEPT ![t] = [of |-> s, live |-> TRUE, from |-> None]]
    /\ Go(s, "over")
    /\ UNCHANGED <<session, found, scope>>

-----------------------------------------------------------------------------
(***************************************************************************)
(* rotateRefreshToken.  A client may present any token it ever had, twice. *)
(***************************************************************************)
Present(r) ==
    /\ pc[r] = "idle"
    /\ \E t \in Tokens :
          \/ token[t].live
             /\ found' = [found EXCEPT ![r] = {t}] /\ Go(r, "presenting")
          \/ token[t].of # None /\ ~token[t].live   \* reuse: end the session
             /\ Find(r, {token[t].of})
    /\ UNCHANGED <<session, token, scope>>

\* Without the row lock: the first look and the insert only.
LockNothing(r) ==
    /\ pc[r] = "presenting"
    /\ \/ (\A t \in found[r] : token[t].live) /\ Go(r, "rotating") /\ found' = found
       \/ (\E t \in found[r] : ~token[t].live) /\ Go(r, "over")
          /\ found' = [found EXCEPT ![r] = {}]
    /\ UNCHANGED <<session, token, scope>>

\* Without the second look.
LockAnyToken(r) ==
    /\ pc[r] = "presenting"
    /\ \A t \in found[r] : ~Locked(t)
    /\ Go(r, "rotating")
    /\ UNCHANGED <<session, token, found, scope>>

\* Inside the transaction: the row lock and the second look.
LockToken(r) ==
    /\ pc[r] = "presenting"
    /\ \A t \in found[r] : ~Locked(t)
    /\ \/ (\A t \in found[r] : token[t].live) /\ Go(r, "rotating") /\ found' = found
       \/ (\E t \in found[r] : ~token[t].live) /\ Go(r, "over")
          /\ found' = [found EXCEPT ![r] = {}]
    /\ UNCHANGED <<session, token, scope>>

Rotate(r) ==
    /\ pc[r] = "rotating"
    /\ \E old \in found[r], new \in Tokens :
          /\ token[new] = Unissued
          /\ token' = [token EXCEPT ![old].live = FALSE,
                          ![new] = [of |-> token[old].of, live |-> TRUE, from |-> old]]
    /\ found' = [found EXCEPT ![r] = {}]
    /\ Go(r, "over")
    /\ UNCHANGED <<session, scope>>

-----------------------------------------------------------------------------
(***************************************************************************)
(* Ending sessions.                                                        *)
(***************************************************************************)
\* The customer logs out of one session, or changes the password and keeps only
\* the one at hand; a reset password, a suspension or staff end all of them.
Created == {s \in SignIns : session[s] # "none"}

EndSessions(e) ==
    /\ pc[e] = "idle"
    /\ \E S \in {SignIns} \cup {{s} : s \in Created} \cup {SignIns \ {s} : s \in Created} :
          /\ session' = [s \in SignIns |-> IF s \in S /\ session[s] = "live"
                                           THEN "revoked" ELSE session[s]]
          /\ scope' = [scope EXCEPT ![e] = S]
    /\ Go(e, "ending")
    /\ UNCHANGED <<token, found>>

EndTokens(e) ==
    /\ pc[e] = "ending"
    /\ Find(e, scope[e])
    /\ UNCHANGED <<session, token, scope>>

\* The customer ends another device's session from the list of sessions: the
\* row only.
DropSession(e) ==
    /\ pc[e] = "idle"
    /\ \E s \in SignIns : session[s] = "live" /\ session' = [session EXCEPT ![s] = "revoked"]
    /\ Go(e, "over")
    /\ UNCHANGED <<token, found, scope>>

\* A request that dies: its open transaction rolls back.
Die(a) ==
    /\ pc[a] \notin {"idle", "over"}
    /\ Go(a, "over")
    /\ found' = [found EXCEPT ![a] = {}]
    /\ UNCHANGED <<session, token, scope>>

Next ==
    \/ \E s \in SignIns : Login(s) \/ CreateExclusive(s) \/ IssueTokenPair(s)
    \/ \E r \in Refreshes : Present(r) \/ LockToken(r) \/ Rotate(r)
    \/ \E e \in Ends : EndSessions(e) \/ EndTokens(e) \/ DropSession(e)
    \/ \E a \in Runs : Revoke(a) \/ Die(a)

Spec == Init /\ [][Next]_vars
-----------------------------------------------------------------------------
(***************************************************************************)
(* Properties                                                              *)
(***************************************************************************)
\* The tokens of a session are a chain with at most one live link: no token is
\* rotated twice, however requests with it race (rotateRefreshToken's second
\* look under the lock).
OneLink ==
    \A t, u \in Tokens :
        token[t].of # None /\ token[t].of = token[u].of /\ t # u =>
            token[t].from # token[u].from /\ ~(token[t].live /\ token[u].live)

\* At most one session row is live, however many sign-ins race (createExclusive).
OneLiveSession ==
    \A s, x \in SignIns : session[s] = "live" /\ session[x] = "live" => s = x

\* Whatever sign-ins, refreshes and endings race, one session row is live and its
\* tokens are one chain.
OneChain == OneLink /\ OneLiveSession

\* A session with no live token and none on its way never has one again: no
\* request that presented a token while it was live brings it back.
Dead(s) ==
    /\ pc[s] = "over"
    /\ \A t \in Tokens : token[t].of = s => ~token[t].live

DeadStaysDead == [][\A s \in SignIns : Dead(s) => Dead(s)']_vars

\* "One active session per customer ... closing the race where two concurrent
\* logins could otherwise both end up active" (AuthService.login): once nothing
\* is under way, at most one session can still be refreshed.
OneSignedIn ==
    (\A a \in Runs : pc[a] \in {"idle", "over"}) =>
        \A t, u \in Tokens : token[t].live /\ token[u].live => token[t].of = token[u].of
=============================================================================
