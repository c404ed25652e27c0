--------------------------- MODULE CustomerSignIn ---------------------------
(***************************************************************************)
(* How a customer gets in: password, device, PIN, one-time codes, login    *)
(* tickets and reset tokens, with several requests at once.                *)
(*                                                                         *)
(* An action is what a request does from one write to the next: reads with *)
(* no write between them are one action.  Secrets are right or wrong, and  *)
(* time is free: whatever can expire may be refused at any moment, which   *)
(* changes nothing and needs no action.  Opening a session is one action   *)
(* here; its steps, and those of the refresh tokens, are in Sessions.      *)
(* The account is ACTIVE (what staff do to it is in CustomerAccounts), and *)
(* a code of any purpose may be brought to verifyOtp.                      *)
(***************************************************************************)
EXTENDS Naturals, FiniteSets

CONSTANTS
    Requests,           \* the session one opens bears its name
    Earlier,            \* a session opened before
    Devices,
    MaxItems,           \* codes, tickets and tokens that may be issued
    MaxFailedAttempts,  \* of a password or PIN
    MaxItemAttempts,    \* of a code or ticket
    MaxPasswords,       \* passwords there may ever be
    None

ASSUME SignInAssumption ==
    /\ MaxItems \in Nat /\ MaxFailedAttempts \in Nat \ {0} /\ MaxItemAttempts \in Nat
    /\ MaxPasswords \in Nat
    /\ None \notin Devices \cup Requests \cup {Earlier} /\ Earlier \notin Requests

Kinds == {"password", "pin"}
Items == 1..MaxItems
Sessions == Requests \cup {Earlier}

VARIABLES
    password,  \* which password is in force
    hasPin,    \* whether a transaction PIN is set
    young,     \* whether the account is younger than the device limit's window
    guard,     \* failed attempts and lock of password and PIN
    trusted,   \* trusted_devices
    limited,   \* those whose arrival started the new-device limit
    item,      \* one-time codes, login tickets and reset tokens, oldest first
    session,   \* sessions
    req,       \* the requests
    tried,     \* requests allowed a guess since the count was cleared
    tripper,   \* the request whose attempt set the lock
    told,      \* requests that alerted the owner
    died,      \* requests that died
    gained,    \* what an item gave: sessions, tokens, passwords
    missed,    \* wrong answers to an item
    together,  \* whether two requests had an item at once, or died with it
    first,     \* the device a young account began with
    excused    \* devices and sessions a race or a death let through

user == <<password, hasPin, young>>
watched == <<tried, tripper, told>>
spending == <<gained, missed, together>>
vars == <<user, guard, trusted, limited, item, session, req, watched, died, spending, first, excused>>

Guard == [failures : 0..MaxFailedAttempts, lock : {"none", "future", "past"}]
Item == [kind : {"none", "code", "ticket", "reset"}, used : BOOLEAN, attempts : Nat,
         device : Devices \cup {None}, password : 0..MaxPasswords]
Request ==
    [op : {"none", "login", "confirmPin", "pin", "change", "code", "verifyReset", "confirmReset"},
     at : {"idle", "reserve", "check", "clear", "miss", "ticket", "consume", "save", "limit",
           "open", "token", "write", "end", "over"},
     hasPin : BOOLEAN, password : 0..MaxPasswords, item : 0..MaxItems, attempts : Nat,
     device : Devices \cup {None}, others : BOOLEAN, keep : Sessions \cup {None}, locked : BOOLEAN]

TypeOK ==
    /\ password \in 0..MaxPasswords /\ hasPin \in BOOLEAN /\ young \in BOOLEAN
    /\ guard \in [Kinds -> Guard]
    /\ trusted \subseteq Devices /\ limited \subseteq trusted
    /\ item \in [Items -> Item]
    /\ session \in [Sessions -> [is : {"none", "live", "revoked"}, password : 0..MaxPasswords]]
    /\ req \in [Requests -> Request]
    /\ tried \in [Kinds -> SUBSET Requests] /\ tripper \in [Kinds -> Requests \cup {None}]
    /\ told \subseteq Requests /\ died \subseteq Requests
    /\ gained \in [Items -> 0..2] /\ missed \in [Items -> Nat] /\ together \in [Items -> BOOLEAN]
    /\ first \in Devices \cup {None} /\ excused \subseteq Devices \cup Sessions

Waiting == [op |-> "none", at |-> "idle", hasPin |-> FALSE, password |-> 0, item |-> 0,
            attempts |-> 0, device |-> None, others |-> FALSE, keep |-> None, locked |-> FALSE]
NoItem == [kind |-> "none", used |-> FALSE, attempts |-> 0, device |-> None, password |-> 0]
Unlocked == [failures |-> 0, lock |-> "none"]

Init ==
    /\ password = 0 /\ hasPin \in BOOLEAN /\ young \in BOOLEAN
    /\ guard = [k \in Kinds |-> Unlocked]
    /\ \/ trusted = {} /\ first = None
       \/ young /\ \E d \in Devices : trusted = {d} /\ first = d
    /\ limited = {}
    /\ \/ item = [i \in Items |-> NoItem]
       \/ \E kind \in {"code", "ticket", "reset"}, d \in Devices \cup {None} :
             /\ kind # "ticket" => d = None
             /\ item = [i \in Items |-> IF i = 1 THEN [NoItem EXCEPT !.kind = kind, !.device = d]
                                                  ELSE NoItem]
    /\ \E is \in {"none", "live"} :
          session = [s \in Sessions |-> [is |-> IF s = Earlier THEN is ELSE "none", password |-> 0]]
    /\ req = [r \in Requests |-> Waiting]
    /\ tried = [k \in Kinds |-> {}] /\ tripper = [k \in Kinds |-> None]
    /\ told = {} /\ died = {}
    /\ gained = [i \in Items |-> 0] /\ missed = [i \in Items |-> 0]
    /\ together = [i \in Items |-> FALSE]
    /\ excused = {}

-----------------------------------------------------------------------------
(***************************************************************************)
(* What requests share.                                                    *)
(***************************************************************************)
At(r, op, place) == req[r].op = op /\ req[r].at = place
Go(r, place) == req' = [req EXCEPT ![r].at = place]
Over(r) == Go(r, "over")
InFlight(r) == req[r].at \notin {"idle", "over"}

\* A request starts: it has read the user, and item i if it brings one.
Start(r, op, place, i, d) ==
    /\ req[r].at = "idle"
    /\ req' = [req EXCEPT ![r] = [Waiting EXCEPT !.op = op, !.at = place, !.hasPin = hasPin,
                  !.item = i, !.device = d,
                  !.password = IF op = "confirmPin" THEN item[i].password ELSE password,
                  !.attempts = IF i = 0 THEN 0 ELSE item[i].attempts]]
    /\ together' = [j \in Items |-> together[j] \/ (j = i /\ \E q \in Requests \ {r} :
                                                             InFlight(q) /\ req[q].item = i)]

Issue(kind, d, p) ==
    \E i \in Items :
        /\ item[i] = NoItem /\ \A j \in 1..i - 1 : item[j] # NoItem
        /\ item' = [item EXCEPT ![i] = [NoItem EXCEPT !.kind = kind, !.device = d, !.password = p]]

\* What the request's item has given.
Gain(r) == gained' = [i \in Items |-> IF i = req[r].item /\ gained[i] < 2 THEN gained[i] + 1
                                      ELSE gained[i]]

-----------------------------------------------------------------------------
(***************************************************************************)
(* guardedVerify: an attempt is reserved before the secret is looked at.   *)
(***************************************************************************)
Kind(r) == IF req[r].op \in {"login", "change"} THEN "password" ELSE "pin"

Attempt(r, g, max) ==
    LET k == Kind(r)
        next == IF g.lock = "past" THEN 1 ELSE g.failures + 1
        locked == next >= max
    IN  IF g.lock = "future" THEN Over(r) /\ UNCHANGED <<guard, tried, tripper>>
        ELSE /\ guard' = [guard EXCEPT ![k] = [failures |-> next,
                                               lock |-> IF locked THEN "future" ELSE "none"]]
             /\ tried' = [tried EXCEPT ![k] = (IF g.lock = "past" THEN {} ELSE @) \cup {r}]
             /\ tripper' = IF locked THEN [tripper EXCEPT ![k] = r] ELSE tripper
             /\ req' = [req EXCEPT ![r].at = "check", ![r].locked = locked]

\* The lock comes one attempt late.
ReserveOneMore(r) ==
    /\ req[r].at = "reserve"
    /\ Attempt(r, guard[Kind(r)], MaxFailedAttempts + 1)
    /\ UNCHANGED <<user, trusted, limited, item, session, told, died, spending, first, excused>>

\* One UPDATE of the row as it is.
Reserve(r) ==
    /\ req[r].at = "reserve"
    /\ Attempt(r, guard[Kind(r)], MaxFailedAttempts)
    /\ UNCHANGED <<user, trusted, limited, item, session, told, died, spending, first, excused>>

\* The owner hears of the wrong guess that set the lock.
Alert(r) == told' = IF req[r].locked THEN told \cup {r} ELSE told

\* Told by the count as it is, not as it was reserved.
CheckByCount(r) ==
    /\ req[r].op \in {"login", "confirmPin", "pin", "change"} /\ req[r].at = "check"
    /\ \/ /\ IF req[r].op = "confirmPin" THEN Go(r, "miss") ELSE Over(r)
          /\ told' = IF guard[Kind(r)].failures + 1 = MaxFailedAttempts THEN told \cup {r} ELSE told
       \/ Go(r, "clear") /\ UNCHANGED told
    /\ UNCHANGED <<user, guard, trusted, limited, item, session, tried, tripper, died, spending,
                   first, excused>>

CheckSecret(r) ==
    /\ req[r].op \in {"login", "confirmPin", "pin", "change"} /\ req[r].at = "check"
    /\ \/ Alert(r) /\ (IF req[r].op = "confirmPin" THEN Go(r, "miss") ELSE Over(r))
       \/ Go(r, "clear") /\ UNCHANGED told
    /\ UNCHANGED <<user, guard, trusted, limited, item, session, tried, tripper, died, spending,
                   first, excused>>

ForgetAttempts(K) ==
    /\ guard' = [k \in Kinds |-> IF k \in K THEN Unlocked ELSE guard[k]]
    /\ tried' = [k \in Kinds |-> IF k \in K THEN {} ELSE tried[k]]

\* A device unknown so far is trusted before the session is opened.
Recognised(r) == req[r].device = None \/ req[r].device \in trusted
TrustOr(r, place) == req' = [req EXCEPT ![r].at = IF Recognised(r) THEN place ELSE "save",
                                        ![r].others = trusted # {}]

\* The count is cleared; then what the secret was for.
ClearAttempts(r) ==
    /\ req[r].at = "clear"
    /\ ForgetAttempts({Kind(r)})
    /\ \/ /\ req[r].op = "login"
          /\ IF req[r].hasPin /\ req[r].device \notin trusted THEN Go(r, "ticket") ELSE TrustOr(r, "open")
       \/ req[r].op = "confirmPin" /\ Go(r, "consume")
       \/ req[r].op = "pin" /\ Over(r)
       \/ req[r].op = "change" /\ Go(r, "write")
    /\ UNCHANGED <<user, trusted, limited, item, session, tripper, told, died, spending, first, excused>>

ClearLockouts ==
    /\ ForgetAttempts(Kinds)
    /\ UNCHANGED <<user, trusted, limited, item, session, req, tripper, told, died, spending, first, excused>>

LockExpires ==
    /\ \E k \in Kinds : guard[k].lock = "future" /\ guard' = [guard EXCEPT ![k].lock = "past"]
    /\ UNCHANGED <<user, trusted, limited, item, session, req, watched, died, spending, first, excused>>

-----------------------------------------------------------------------------
(***************************************************************************)
(* Password, ticket and PIN.                                               *)
(***************************************************************************)
Login(r) ==
    /\ \E d \in Devices \cup {None} : Start(r, "login", "reserve", 0, d)
    /\ UNCHANGED <<user, guard, trusted, limited, item, session, watched, died, gained, missed, first, excused>>

IssueTicket(r) ==
    /\ req[r].at = "ticket"
    /\ Issue("ticket", req[r].device, req[r].password)
    /\ Over(r)
    /\ UNCHANGED <<user, guard, trusted, limited, session, watched, died, spending, first, excused>>

\* The ticket's device, or else the one the PIN comes from.
ConfirmLoginPin(r) ==
    /\ hasPin
    /\ \E i \in Items, d \in Devices \cup {None} :
          /\ item[i].kind = "ticket" /\ ~item[i].used /\ item[i].attempts < MaxItemAttempts
          /\ item[i].device # None => d = item[i].device
          /\ Start(r, "confirmPin", "reserve", i, d)
          /\ excused' = IF item[i].password = password THEN excused ELSE excused \cup {r}
    /\ UNCHANGED <<user, guard, trusted, limited, item, session, watched, died, gained, missed, first>>

\* The attempts as they were read, and one.
CountMiss(r) ==
    /\ req[r].at = "miss"
    /\ item' = [item EXCEPT ![req[r].item].attempts = req[r].attempts + 1]
    /\ missed' = [missed EXCEPT ![req[r].item] = @ + 1]
    /\ Over(r)
    /\ UNCHANGED <<user, guard, trusted, limited, session, watched, died, gained, together, first, excused>>

\* verifyTransactionPin and resetTransactionPin.
VerifyPin(r) ==
    /\ hasPin
    /\ Start(r, "pin", "reserve", 0, None)
    /\ UNCHANGED <<user, guard, trusted, limited, item, session, watched, died, gained, missed, first, excused>>

SetTransactionPin ==
    /\ ~hasPin
    /\ hasPin' = TRUE
    /\ UNCHANGED <<password, young, guard, trusted, limited, item, session, req, watched, died,
                   spending, first, excused>>

-----------------------------------------------------------------------------
(***************************************************************************)
(* One-time codes and reset tokens.                                        *)
(***************************************************************************)
\* The cooldown only spaces them out.
GenerateCode ==
    /\ Issue("code", None, password)
    /\ UNCHANGED <<user, guard, trusted, limited, session, req, watched, died, spending, first, excused>>

\* The newest code not consumed.
Newest(i) ==
    LET open == {j \in Items : item[j].kind = "code" /\ ~item[j].used}
    IN  i \in open /\ \A j \in open : j <= i

\* verifyOtp and verifyPasswordResetOtp.
PresentCode(r) ==
    /\ \E i \in Items :
          /\ Newest(i) /\ item[i].attempts < MaxItemAttempts
          /\ \/ \E d \in Devices \cup {None} : Start(r, "code", "check", i, d)
             \/ Start(r, "verifyReset", "check", i, None)
    /\ UNCHANGED <<user, guard, trusted, limited, item, session, watched, died, gained, missed, first, excused>>

CheckCode(r) ==
    /\ req[r].op \in {"code", "verifyReset"} /\ req[r].at = "check"
    /\ Go(r, "miss") \/ Go(r, "consume")
    /\ UNCHANGED <<user, guard, trusted, limited, item, session, watched, died, spending, first, excused>>

PresentResetToken(r) ==
    /\ \E i \in Items : item[i].kind = "reset" /\ ~item[i].used
                        /\ Start(r, "confirmReset", "consume", i, None)
    /\ UNCHANGED <<user, guard, trusted, limited, item, session, watched, died, gained, missed, first, excused>>

\* What a consumed item leads to.
AfterConsume(r) ==
    \/ req[r].op = "confirmPin" /\ TrustOr(r, "open")
    \/ req[r].op = "code" /\ Go(r, "open")
    \/ req[r].op = "verifyReset" /\ Go(r, "token")
    \/ req[r].op = "confirmReset" /\ Go(r, "write")

\* The mark comes with what it leads to, not before it.
ConsumeLater(r) ==
    /\ req[r].at = "consume"
    /\ AfterConsume(r)
    /\ UNCHANGED <<user, guard, trusted, limited, item, session, watched, died, spending, first, excused>>

\* Marked whatever has become of it since it was read.
Consume(r) ==
    /\ req[r].at = "consume"
    /\ item' = [item EXCEPT ![req[r].item].used = TRUE]
    /\ AfterConsume(r)
    /\ UNCHANGED <<user, guard, trusted, limited, session, watched, died, spending, first, excused>>

IssueResetToken(r) ==
    /\ req[r].at = "token"
    /\ Issue("reset", None, password)
    /\ Gain(r)
    /\ Over(r)
    /\ UNCHANGED <<user, guard, trusted, limited, session, watched, died, missed, together, first, excused>>

-----------------------------------------------------------------------------
(***************************************************************************)
(* Devices and sessions.                                                   *)
(***************************************************************************)
AfterTrust(r) == IF req[r].op = "code" THEN "over" ELSE "open"

\* The row is inserted, unless another request was faster (unique index); a
\* device that is not the first of a young account starts the limit.
Trust(r, limits) ==
    /\ req[r].at = "save"
    /\ IF req[r].device \in trusted THEN Over(r) /\ UNCHANGED <<trusted, first, excused>>
       ELSE /\ trusted' = trusted \cup {req[r].device}
            /\ Go(r, IF limits THEN "limit" ELSE AfterTrust(r))
            /\ first' = IF trusted = {} /\ young THEN req[r].device ELSE first
            /\ excused' = IF trusted # {} /\ ~req[r].others THEN excused \cup {req[r].device}
                          ELSE excused
    /\ UNCHANGED <<user, guard, limited, item, session, watched, died, spending>>

TrustEstablished(r) == Trust(r, req[r].others /\ ~young)
TrustDevice(r) == Trust(r, req[r].others \/ ~young)

StartDeviceLimit(r) ==
    /\ req[r].at = "limit"
    /\ limited' = limited \cup {req[r].device}
    /\ Go(r, AfterTrust(r))
    /\ UNCHANGED <<user, guard, trusted, item, session, watched, died, spending, first, excused>>

Revoked(S) == [s \in Sessions |-> IF s \in S /\ session[s].is = "live"
                                  THEN [session[s] EXCEPT !.is = "revoked"] ELSE session[s]]

\* createExclusive; a code's device is trusted only then.
OpenSession(r) ==
    /\ req[r].at = "open"
    /\ session' = [Revoked(Sessions) EXCEPT ![r] = [is |-> "live", password |-> req[r].password]]
    /\ Gain(r)
    /\ IF req[r].op = "code" THEN TrustOr(r, "over") ELSE Over(r)
    /\ UNCHANGED <<user, guard, trusted, limited, item, watched, died, missed, together, first, excused>>

ChangePassword(r) ==
    /\ \E s \in Sessions :
          /\ session[s].is = "live" /\ req[r].at = "idle"
          /\ req' = [req EXCEPT ![r] = [Waiting EXCEPT !.op = "change", !.at = "reserve", !.keep = s,
                                                       !.password = password]]
    /\ UNCHANGED <<user, guard, trusted, limited, item, session, watched, died, spending, first, excused>>

\* The sessions of requests under way, and the one that asks, may outlive it.
WritePassword(r) ==
    /\ req[r].at = "write"
    /\ password < MaxPasswords /\ password' = password + 1
    /\ Gain(r)
    /\ Go(r, "end")
    /\ excused' = excused \cup ({req[r].keep} \ {None}) \cup {q \in Requests : InFlight(q)}
    /\ UNCHANGED <<hasPin, young, guard, trusted, limited, item, session, watched, died, missed,
                   together, first>>

\* A reset ends every session; a change all but the one it came from.
EndTokensOnly(r) ==
    /\ req[r].at = "end"
    /\ Over(r)
    /\ UNCHANGED <<user, guard, trusted, limited, item, session, watched, died, spending, first, excused>>

EndSessions(r) ==
    /\ req[r].at = "end"
    /\ session' = Revoked(Sessions \ {req[r].keep})
    /\ Over(r)
    /\ UNCHANGED <<user, guard, trusted, limited, item, watched, died, spending, first, excused>>

GrowOld ==
    /\ young /\ young' = FALSE
    /\ UNCHANGED <<password, hasPin, guard, trusted, limited, item, session, req, watched, died,
                   spending, first, excused>>

\* A request that dies excuses its item, its device and, with the password
\* written, the sessions it leaves.
Die(r) ==
    /\ InFlight(r)
    /\ Over(r)
    /\ died' = died \cup {r}
    /\ together' = [i \in Items |-> together[i] \/ (i = req[r].item /\ req[r].at = "miss")]
    /\ excused' = excused \cup (IF req[r].at = "limit" THEN {req[r].device} ELSE {})
                          \cup (IF req[r].at = "end" THEN Sessions ELSE {})
    /\ UNCHANGED <<user, guard, trusted, limited, item, session, watched, gained, missed, first>>

Next ==
    \/ ClearLockouts \/ LockExpires \/ SetTransactionPin \/ GenerateCode \/ GrowOld
    \/ \E r \in Requests :
          \/ Login(r) \/ Reserve(r) \/ CheckSecret(r) \/ ClearAttempts(r) \/ IssueTicket(r)
          \/ ConfirmLoginPin(r) \/ CountMiss(r) \/ VerifyPin(r) \/ PresentCode(r) \/ CheckCode(r)
          \/ PresentResetToken(r) \/ Consume(r) \/ IssueResetToken(r) \/ TrustDevice(r)
          \/ StartDeviceLimit(r) \/ OpenSession(r) \/ ChangePassword(r) \/ WritePassword(r)
          \/ EndSessions(r) \/ Die(r)

Spec == Init /\ [][Next]_vars

-----------------------------------------------------------------------------
(***************************************************************************)
(* Properties                                                              *)
(***************************************************************************)
Quiet == \A r \in Requests : ~InFlight(r)

\* However many guesses arrive at once, on whatever path, no more passwords and
\* no more PINs are looked at than the limit until a right one, staff or time
\* clears the count (guardedVerify).
GuessesBounded == \A k \in Kinds : Cardinality(tried[k]) <= MaxFailedAttempts

\* A lock that stands, set by a guess that is over, is known to the owner: the
\* guess that set it was wrong and told, even when other guesses were checked
\* in between (guardedVerify's onLockout).
LockIsTold ==
    \A k \in Kinds : guard[k].lock = "future" /\ ~InFlight(tripper[k]) => tripper[k] \in told \cup died

\* A code, ticket or reset token that no two requests had at once gives one
\* thing only, and takes no more wrong answers than the limit, although
\* requests die between its use and its effect (OtpService.verify,
\* confirmLoginPin, consumePasswordResetToken).
ItemsSpentOnce ==
    \A i \in Items : ~together[i] => gained[i] <= 1 /\ missed[i] <= MaxItemAttempts

\* Once nothing is under way, a session that still lives was opened with the
\* password in force, or is the one that changed it, or was being opened, or
\* began with a ticket, when it changed (confirmPasswordReset, changePassword).
NewPasswordRules ==
    Quiet => \A s \in Sessions : session[s].is = "live" =>
                 session[s].password = password \/ s \in excused

\* Every device but a young account's first brings the new-device limit, by
\* whatever way it became trusted (trustDevice), unless the request died, or
\* two first devices came at once.
NewDeviceLimited ==
    \A d \in trusted \ limited :
        \/ d = first \/ d \in excused
        \/ \E r \in Requests : req[r].at = "limit" /\ req[r].device = d

\* "Single-use: ... a second attempt with the same token — replay, double-submit,
\* whatever — fails" (consumePasswordResetToken).
ResetTokenOnce == \A i \in Items : item[i].kind = "reset" => gained[i] <= 1
=============================================================================
