----------------------------- MODULE StaffSignIn -----------------------------
(***************************************************************************)
(* The admin console: one member of staff signs in (password, second       *)
(* factor, device), keeps a session alive, manages the second factor and   *)
(* the devices, while a second super admin, the peer, manages the account. *)
(*                                                                         *)
(* A request reads the staff row once and then works from what it read.    *)
(* An action is what it does from one write to the next: reads with no     *)
(* write between them are one action.  Passwords are right or wrong, the   *)
(* clock is free (any 30 s step may be the current one), and the signed    *)
(* tokens between the steps of a sign-in may be held by any request.       *)
(***************************************************************************)
EXTENDS Naturals, FiniteSets

CONSTANTS
    Requests,
    Devices,            \* passkeys
    Tokens,             \* rows of staff_refresh_tokens there may be
    Secrets,            \* TOTP secrets there may be drawn
    RecoveryCodes,      \* recovery codes there may be drawn
    Steps,              \* 30 s time steps; 0 is no step
    MaxFailedAttempts,
    MaxDevices,
    Settings,           \* what the deployment may require: subsets of {"totp", "device"}
    None

Codes == (Secrets \X Steps) \cup RecoveryCodes

ASSUME StaffAssumption ==
    /\ Steps \subseteq Nat \ {0} /\ MaxFailedAttempts \in Nat \ {0} /\ MaxDevices \in Nat
    /\ None \notin Devices \cup Tokens \cup Secrets
    /\ RecoveryCodes \cap (Secrets \X Steps) = {} /\ RecoveryCodes \cap Secrets = {}
    /\ Secrets # {} /\ RecoveryCodes # {} /\ IsFiniteSet(Devices)
    /\ Settings \subseteq SUBSET {"totp", "device"}

VARIABLES
    required,  \* the deployment's setting
    staff,     \* the staff row: status, role, attempts, lock
    factor,    \* the staff row: secret, whether enabled, last step, recovery codes
    peer,      \* whether the other person is an active super admin
    device,    \* staff_devices
    token,     \* staff_refresh_tokens
    req,       \* the requests
    drawn,     \* secrets and recovery codes drawn so far
    accepted,  \* codes accepted so far
    replayed,  \* whether a code was accepted again
    tried,     \* requests allowed an attempt since the count was cleared
    clean      \* no write went over what another request had read or written

row == <<staff, factor>>
ghosts == <<accepted, replayed, tried, clean>>
vars == <<required, staff, factor, peer, device, token, req, drawn, ghosts>>

StaffRow == [status : {"active", "disabled", "deleted"}, super : BOOLEAN,
             failures : 0..MaxFailedAttempts, lock : {"none", "future", "past"}]
Factor == [secret : Secrets \cup {None}, enabled : BOOLEAN, last : Steps \cup {0},
           codes : SUBSET RecoveryCodes]
Token == [family : Tokens \cup {None}, live : BOOLEAN, device : Devices \cup {None}]
Ops == {"none", "login", "verify", "confirm", "disable", "regenerate", "register", "add",
        "assert", "refresh", "change", "edit", "demotePeer", "reset", "remove", "revoke", "start"}
Places == {"idle", "reserve", "check", "clearing", "writing", "finish", "rotate", "isActive",
           "issue", "registering", "guarding", "revokeAll", "revokeDevice", "over"}
Request == [op : Ops, at : Places, staff : StaffRow, factor : Factor,
            device : Devices \cup {None}, token : Tokens \cup {None},
            family : Tokens \cup {None}, step : Steps \cup {0}]

TypeOK ==
    /\ required \in SUBSET {"totp", "device"}
    /\ staff \in StaffRow
    /\ factor \in Factor
    /\ peer \in BOOLEAN
    /\ device \in [Devices -> {"none", "pending", "active", "revoked"}]
    /\ token \in [Tokens -> Token]
    /\ req \in [Requests -> Request]
    /\ drawn \subseteq Secrets \cup RecoveryCodes
    /\ accepted \subseteq Codes
    /\ replayed \in BOOLEAN
    /\ tried \subseteq Requests
    /\ clean \in BOOLEAN

NoFactor == [secret |-> None, enabled |-> FALSE, last |-> 0, codes |-> {}]
Fresh == [status |-> "active", super |-> FALSE, failures |-> 0, lock |-> "none"]
Waiting == [op |-> "none", at |-> "idle", staff |-> Fresh, factor |-> NoFactor,
            device |-> None, token |-> None, family |-> None, step |-> 0]
Unissued == [family |-> None, live |-> FALSE, device |-> None]

\* A random value: one never drawn.
New(S) == CHOOSE x \in S : TRUE

Kept(status) == {d \in Devices : status[d] \in {"pending", "active"}}

Init ==
    /\ required \in Settings
    /\ \E s \in BOOLEAN : staff = [Fresh EXCEPT !.super = s] /\ peer \in {TRUE, ~s}
    /\ \/ factor = NoFactor
       \/ \E e \in BOOLEAN :
             factor = [secret |-> New(Secrets), enabled |-> e, last |-> 0,
                       codes |-> IF e THEN {New(RecoveryCodes)} ELSE {}]
    /\ drawn = ({factor.secret} \ {None}) \cup factor.codes
    /\ device \in [Devices -> {"none", "pending", "active"}]
    /\ Cardinality(Kept(device)) <= MaxDevices
    /\ \/ token = [t \in Tokens |-> Unissued]
       \/ \E t \in Tokens, d \in Devices \cup {None} :
             /\ IF "device" \in required THEN d # None /\ device[d] = "active" ELSE d = None
             /\ token = [x \in Tokens |-> IF x = t THEN [family |-> t, live |-> TRUE, device |-> d]
                                                   ELSE Unissued]
    /\ req = [r \in Requests |-> Waiting]
    /\ accepted = {} /\ replayed = FALSE /\ tried = {} /\ clean = TRUE

-----------------------------------------------------------------------------
(***************************************************************************)
(* What requests share.                                                    *)
(***************************************************************************)
At(r, op, place) == req[r].op = op /\ req[r].at = place

Go(r, place) == req' = [req EXCEPT ![r].at = place]

Over(r) == req' = [req EXCEPT ![r] = [Waiting EXCEPT !.at = "over"]]

\* A request starts: it has read the staff row, and is about d and t.
Start(r, op, place, d, t) ==
    /\ req[r].at = "idle"
    /\ req' = [req EXCEPT ![r] = [op |-> op, at |-> place, staff |-> staff, factor |-> factor,
                                  device |-> d, token |-> t, step |-> 0,
                                  family |-> IF t = None THEN None ELSE token[t].family]]

\* JwtStrategy.validate: an access token, issued with some refresh token of device d.
Validated(d) ==
    /\ staff.status = "active"
    /\ \E t \in Tokens : token[t].family # None /\ token[t].device = d
    /\ "device" \in required => d # None /\ device[d] = "active"

SignedIn == \E d \in Devices \cup {None} : Validated(d)

\* RolesGuard: the active super admins.
Admins == (IF peer THEN {"peer"} ELSE {})
          \cup (IF staff.status = "active" /\ staff.super THEN {"member"} ELSE {})

\* A request of a super admin about the member, who may be one.
ByAdmin == peer \/ (staff.super /\ SignedIn)

InFlight(r) == req[r].at \notin {"idle", "over"}

\* The write r is making goes over nothing another request has read or written.
Apart(r) == \A q \in Requests \ {r} : ~InFlight(q)
AsRead(r) == factor = req[r].factor

Accept(code) == accepted' = accepted \cup {code} /\ replayed' = (replayed \/ code \in accepted)

Revoked(S) == [t \in Tokens |-> IF t \in S THEN [token[t] EXCEPT !.live = FALSE] ELSE token[t]]

-----------------------------------------------------------------------------
(***************************************************************************)
(* The attempt counter: one UPDATE before a secret is looked at.           *)
(***************************************************************************)
LockIf(n) == IF n >= MaxFailedAttempts THEN "future" ELSE "none"

\* A counter read with the row and written back.
ReserveAsRead(r) ==
    /\ req[r].at = "reserve"
    /\ \/ req[r].staff.lock = "future" /\ Over(r) /\ UNCHANGED <<staff, tried>>
       \/ /\ req[r].staff.lock # "future" /\ staff.status # "deleted"
          /\ LET next == IF req[r].staff.lock = "past" THEN 1 ELSE req[r].staff.failures + 1
             IN staff' = [staff EXCEPT !.failures = next, !.lock = LockIf(next)]
          /\ tried' = (IF req[r].staff.lock = "past" THEN {} ELSE tried) \cup {r}
          /\ Go(r, "check")
    /\ UNCHANGED <<required, factor, peer, device, token, drawn, accepted, replayed, clean>>

ReserveAttempt(r) ==
    /\ req[r].at = "reserve"
    /\ \/ (staff.lock = "future" \/ staff.status = "deleted") /\ Over(r) /\ UNCHANGED <<staff, tried>>
       \/ /\ staff.lock # "future" /\ staff.status # "deleted"
          /\ LET next == IF staff.lock = "past" THEN 1 ELSE staff.failures + 1
             IN staff' = [staff EXCEPT !.failures = next, !.lock = LockIf(next)]
          /\ tried' = (IF staff.lock = "past" THEN {} ELSE tried) \cup {r}
          /\ Go(r, "check")
    /\ UNCHANGED <<required, factor, peer, device, token, drawn, accepted, replayed, clean>>

\* An UPDATE of a row that is gone changes nothing.
ResetAttempts ==
    /\ staff' = IF staff.status = "deleted" THEN staff
                ELSE [staff EXCEPT !.failures = 0, !.lock = "none"]
    /\ tried' = {}

WriteFactor(f) == factor' = IF staff.status = "deleted" THEN factor ELSE f

LockExpires ==
    /\ staff.lock = "future"
    /\ staff' = [staff EXCEPT !.lock = "past"]
    /\ UNCHANGED <<required, factor, peer, device, token, req, drawn, ghosts>>

-----------------------------------------------------------------------------
(***************************************************************************)
(* Signing in.                                                             *)
(***************************************************************************)
Login(r) ==
    /\ staff.status = "active"
    /\ Start(r, "login", "reserve", None, None)
    /\ UNCHANGED <<required, row, peer, device, token, drawn, ghosts>>

\* The last step, when no device is asked for; otherwise a token for that step.
CompleteLogin(r) == IF "device" \in required THEN Over(r) ELSE Go(r, "finish")

CheckPassword(r) ==
    /\ At(r, "login", "check")
    /\ \/ Over(r)     \* wrong; or right, and a token for the second factor
       \/ ~req[r].factor.enabled /\ "totp" \notin required /\ CompleteLogin(r)
    /\ UNCHANGED <<required, row, peer, device, token, drawn, ghosts>>

FinishLogin(r) ==
    /\ req[r].at = "finish"
    /\ ResetAttempts
    /\ Go(r, "issue")
    /\ UNCHANGED <<required, factor, peer, device, token, drawn, accepted, replayed, clean>>

\* The name of a deleted row is not used while something still bears it.
NewName(t) ==
    /\ \A u \in Tokens : token[u].family # t
    /\ \A r \in Requests : t \notin {req[r].token, req[r].family}

\* A refreshed session keeps its family and device; the others begin a family.
IssueTokens(r) ==
    /\ req[r].at = "issue"
    /\ \E t \in Tokens :
          /\ token[t] = Unissued /\ NewName(t)
          /\ token' = [token EXCEPT ![t] = [live |-> TRUE, device |-> req[r].device,
                family |-> IF req[r].family = None THEN t ELSE req[r].family]]
    /\ Over(r)
    /\ UNCHANGED <<required, row, peer, device, drawn, ghosts>>

-----------------------------------------------------------------------------
(***************************************************************************)
(* The second factor: signing in with it, turning it off, new recovery     *)
(* codes.                                                                  *)
(***************************************************************************)
VerifyMfa(r) ==
    /\ staff.status = "active" /\ factor.enabled /\ factor.secret # None
    /\ Start(r, "verify", "reserve", None, None)
    /\ UNCHANGED <<required, row, peer, device, token, drawn, ghosts>>

ManageFactor(r) ==
    /\ SignedIn
    /\ factor.enabled /\ factor.secret # None
    /\ \/ "totp" \notin required /\ Start(r, "disable", "reserve", None, None)
       \/ Start(r, "regenerate", "reserve", None, None)
    /\ UNCHANGED <<required, row, peer, device, token, drawn, ghosts>>

\* What an accepted code is for; new recovery codes take a code of the app.
Proceed(r, app) ==
    \/ req[r].op = "verify" /\ CompleteLogin(r)
    \/ req[r].op = "disable" /\ Go(r, "clearing")
    \/ req[r].op = "regenerate" /\ app /\ Go(r, "clearing")
    \/ req[r].op = "regenerate" /\ ~app /\ Over(r)

WithFactor == {"verify", "disable", "regenerate"}

\* A code compared with the row as it was read.
SecondFactorAsRead(r) ==
    /\ req[r].op \in WithFactor /\ req[r].at = "check"
    /\ \/ Over(r) /\ UNCHANGED <<factor, accepted, replayed>>
       \/ \E n \in Steps :
             /\ req[r].factor.last < n
             /\ factor' = [factor EXCEPT !.last = n]
             /\ Accept(<<req[r].factor.secret, n>>)
             /\ Proceed(r, TRUE)
       \/ \E c \in factor.codes :
             /\ factor' = [factor EXCEPT !.codes = @ \ {c}]
             /\ Accept(c)
             /\ Proceed(r, FALSE)
    /\ UNCHANGED <<required, staff, peer, device, token, drawn, tried, clean>>

\* The code is right by the secret that was read; the step, or the recovery
\* code, is claimed in the row as it is.
CheckSecondFactor(r) ==
    /\ req[r].op \in WithFactor /\ req[r].at = "check"
    /\ \/ Over(r) /\ UNCHANGED <<factor, accepted, replayed>>
       \/ \E n \in Steps :
             /\ factor.last < n /\ staff.status # "deleted"
             /\ factor' = [factor EXCEPT !.last = n]
             /\ Accept(<<req[r].factor.secret, n>>)
             /\ Proceed(r, TRUE)
       \/ \E c \in factor.codes :
             /\ factor' = [factor EXCEPT !.codes = @ \ {c}]
             /\ Accept(c)
             /\ Proceed(r, FALSE)
    /\ UNCHANGED <<required, staff, peer, device, token, drawn, tried, clean>>

\* resetAttempts, before what the code was for is written.
ClearAttempts(r) ==
    /\ req[r].at = "clearing"
    /\ ResetAttempts
    /\ Go(r, "writing")
    /\ UNCHANGED <<required, factor, peer, device, token, drawn, accepted, replayed, clean>>

ClearTwoFactor(r) ==
    /\ At(r, "disable", "writing")
    /\ WriteFactor(NoFactor)
    /\ clean' = (clean /\ Apart(r))
    /\ Over(r)
    /\ UNCHANGED <<required, staff, peer, device, token, drawn, accepted, replayed, tried>>

DrawFrom(S) == S \ drawn # {} /\ drawn' = drawn \cup {New(S \ drawn)}

RegenerateRecoveryCodes(r) ==
    /\ At(r, "regenerate", "writing")
    /\ DrawFrom(RecoveryCodes)
    /\ WriteFactor([factor EXCEPT !.codes = {New(RecoveryCodes \ drawn)}])
    /\ Over(r)
    /\ UNCHANGED <<required, staff, peer, device, token, ghosts>>

-----------------------------------------------------------------------------
(***************************************************************************)
(* Enrolment, from a sign-in that asks for it or from a session.           *)
(***************************************************************************)
MayEnroll == \/ staff.status = "active" /\ "totp" \in required
             \/ SignedIn

StartEnrollment(r) ==
    /\ MayEnroll /\ ~factor.enabled
    /\ Start(r, "start", "writing", None, None)
    /\ UNCHANGED <<required, row, peer, device, token, drawn, ghosts>>

WritePendingSecret(r) ==
    /\ At(r, "start", "writing")
    /\ DrawFrom(Secrets)
    /\ WriteFactor([factor EXCEPT !.secret = New(Secrets \ drawn), !.last = 0])
    /\ clean' = (clean /\ Apart(r) /\ AsRead(r))
    /\ Over(r)
    /\ UNCHANGED <<required, staff, peer, device, token, accepted, replayed, tried>>

ConfirmEnrollment(r) ==
    /\ MayEnroll /\ ~factor.enabled /\ factor.secret # None
    /\ Start(r, "confirm", "reserve", None, None)
    /\ UNCHANGED <<required, row, peer, device, token, drawn, ghosts>>

\* A code of the secret that was read; no step is claimed yet.
CheckCode(r) ==
    /\ At(r, "confirm", "check")
    /\ \/ Over(r)
       \/ \E n \in Steps : req' = [req EXCEPT ![r].at = "clearing", ![r].step = n]
    /\ UNCHANGED <<required, row, peer, device, token, drawn, ghosts>>

\* Then, in a sign-in, the row is read again and the sign-in completed.
WriteEnrollment(r) ==
    /\ At(r, "confirm", "writing")
    /\ DrawFrom(RecoveryCodes)
    /\ WriteFactor([factor EXCEPT !.enabled = TRUE, !.last = req[r].step,
                                  !.codes = {New(RecoveryCodes \ drawn)}])
    /\ Accept(<<req[r].factor.secret, req[r].step>>)
    /\ clean' = (clean /\ Apart(r) /\ AsRead(r))
    /\ \/ Over(r)
       \/ "totp" \in required /\ CompleteLogin(r)
    /\ UNCHANGED <<required, staff, peer, device, token, tried>>

-----------------------------------------------------------------------------
(***************************************************************************)
(* Devices.                                                                *)
(***************************************************************************)
\* From a sign-in (the device will wait for approval), or from a session; the
\* options were only given below the limit.
StartRegistration(r) ==
    /\ \E d \in Devices :
          \/ "device" \in required /\ staff.status = "active" /\ Start(r, "register", "registering", d, None)
          \/ SignedIn /\ Start(r, "add", "registering", d, None)
    /\ UNCHANGED <<required, row, peer, device, token, drawn, ghosts>>

Status(op) == IF op = "register" THEN "pending" ELSE "active"

\* One transaction under a lock on the staff row; or the passkey is refused.
Register(r) ==
    /\ req[r].at = "registering"
    /\ \/ /\ staff.status # "deleted" /\ device[req[r].device] = "none"
          /\ Cardinality(Kept(device)) < MaxDevices
          /\ device' = [device EXCEPT ![req[r].device] = Status(req[r].op)]
       \/ UNCHANGED device
    /\ Over(r)
    /\ UNCHANGED <<required, row, peer, token, drawn, ghosts>>

\* The passkey is the last step of the sign-in.
Authenticate(r) ==
    /\ "device" \in required /\ staff.status = "active"
    /\ \E d \in Devices : device[d] = "active" /\ Start(r, "assert", "finish", d, None)
    /\ UNCHANGED <<required, row, peer, device, token, drawn, ghosts>>

ApproveAny ==
    /\ ByAdmin
    /\ \E d \in Devices : device[d] # "none" /\ device' = [device EXCEPT ![d] = "active"]
    /\ UNCHANGED <<required, row, peer, token, req, drawn, ghosts>>

Approve ==
    /\ ByAdmin
    /\ \E d \in Devices : device[d] = "pending" /\ device' = [device EXCEPT ![d] = "active"]
    /\ UNCHANGED <<required, row, peer, token, req, drawn, ghosts>>

\* By the member or an admin; then the sessions of the device are ended.
RevokeDevice(r) ==
    /\ ByAdmin \/ SignedIn
    /\ \E d \in Devices :
          /\ device[d] \in {"active", "pending"}
          /\ device' = [device EXCEPT ![d] = "revoked"]
          /\ Start(r, "revoke", "revokeDevice", d, None)
    /\ UNCHANGED <<required, row, peer, token, drawn, ghosts>>

RevokeTokensOfDevice(r) ==
    /\ req[r].at = "revokeDevice"
    /\ token' = Revoked({t \in Tokens : token[t].device = req[r].device})
    /\ Over(r)
    /\ UNCHANGED <<required, row, peer, device, drawn, ghosts>>

-----------------------------------------------------------------------------
(***************************************************************************)
(* Sessions.                                                               *)
(***************************************************************************)
\* Any token a client ever had; reuse of a rotated one ends its family.
RefreshAny(r) ==
    /\ \E t \in Tokens :
          /\ token[t].family # None
          /\ staff.status = "active" /\ Start(r, "refresh", "rotate", token[t].device, t)
          /\ UNCHANGED token
    /\ UNCHANGED <<required, row, peer, device, drawn, ghosts>>

Refresh(r) ==
    /\ \E t \in Tokens :
          /\ token[t].family # None
          /\ \/ /\ token[t].live /\ staff.status = "active"
                /\ Start(r, "refresh", "rotate", token[t].device, t)
                /\ UNCHANGED token
             \/ /\ ~token[t].live /\ req[r].at = "idle"
                /\ token' = Revoked({u \in Tokens : token[u].family = token[t].family})
                /\ Over(r)
    /\ UNCHANGED <<required, row, peer, device, drawn, ghosts>>

Rotate(r) ==
    /\ At(r, "refresh", "rotate")
    /\ token' = Revoked({req[r].token})
    /\ Go(r, "isActive")
    /\ UNCHANGED <<required, row, peer, device, drawn, ghosts>>

CheckDevice(r) ==
    /\ At(r, "refresh", "isActive")
    /\ IF "device" \in required => req[r].device # None /\ device[req[r].device] = "active"
       THEN Go(r, "issue") ELSE Over(r)
    /\ UNCHANGED <<required, row, peer, device, token, drawn, ghosts>>

Logout ==
    /\ \E t \in Tokens :
          /\ token[t].family # None
          /\ token' = Revoked({u \in Tokens : token[u].family = token[t].family})
    /\ UNCHANGED <<required, row, peer, device, req, drawn, ghosts>>

\* The new password is written; every session is ended and one begun.
ChangePassword(r) ==
    /\ \E d \in Devices \cup {None} : Validated(d) /\ Start(r, "change", "revokeAll", d, None)
    /\ UNCHANGED <<required, row, peer, device, token, drawn, ghosts>>

RevokeAll(r) ==
    /\ req[r].at = "revokeAll"
    /\ token' = Revoked(Tokens)
    /\ IF req[r].op = "change" THEN Go(r, "issue") ELSE Over(r)
    /\ UNCHANGED <<required, row, peer, device, drawn, ghosts>>

-----------------------------------------------------------------------------
(***************************************************************************)
(* Managing the account: the peer's requests, and the member's about the   *)
(* peer.                                                                   *)
(***************************************************************************)
EditStaff(r) ==
    /\ peer /\ staff.status # "deleted"
    /\ Start(r, "edit", "guarding", None, None)
    /\ UNCHANGED <<required, row, peer, device, token, drawn, ghosts>>

\* The guard counts the admins that are left, if the edit takes one away.
GuardLastSuperAdmin(r) ==
    /\ At(r, "edit", "guarding")
    /\ \/ Over(r)
       \/ \E super \in BOOLEAN, status \in {"active", "disabled"} :
             /\ req[r].staff.super /\ (~super \/ status = "disabled") => Cardinality(Admins) > 1
             /\ req' = [req EXCEPT ![r].at = "writing", ![r].staff.super = super,
                                   ![r].staff.status = status]
    /\ UNCHANGED <<required, row, peer, device, token, drawn, ghosts>>

\* The whole row as it was read, with the new role and status; a deleted row
\* is inserted again.
SaveStaff(r) ==
    /\ At(r, "edit", "writing")
    /\ staff' = req[r].staff
    /\ factor' = req[r].factor
    /\ clean' = (clean /\ Apart(r) /\ AsRead(r) /\ staff.status # "deleted" /\
                 \A f \in {"failures", "lock"} : staff[f] = req[r].staff[f])
    /\ IF req[r].staff.status = "disabled" THEN Go(r, "revokeAll") ELSE Over(r)
    /\ UNCHANGED <<required, peer, device, token, drawn, accepted, replayed, tried>>

\* The same edit of the peer by the member; only the peer's place matters here.
EditPeer(r) ==
    /\ staff.super /\ SignedIn
    /\ \/ peer /\ Cardinality(Admins) > 1 /\ Start(r, "demotePeer", "writing", None, None)
          /\ UNCHANGED peer
       \/ ~peer /\ peer' = TRUE /\ req[r].at = "idle" /\ Over(r)
    /\ UNCHANGED <<required, row, device, token, drawn, ghosts>>

SavePeer(r) ==
    /\ At(r, "demotePeer", "writing")
    /\ peer' = FALSE
    /\ Over(r)
    /\ UNCHANGED <<required, row, device, token, drawn, ghosts>>

\* resetTwoFactor and resetPassword; then every session is ended.
ResetStaff(r) ==
    /\ ByAdmin /\ staff.status # "deleted"
    /\ Start(r, "reset", "revokeAll", None, None)
    /\ \/ /\ factor' = NoFactor
          /\ clean' = (clean /\ Apart(r))
          /\ UNCHANGED <<staff, tried>>
       \/ ResetAttempts /\ UNCHANGED <<factor, clean>>
    /\ UNCHANGED <<required, peer, device, token, drawn, accepted, replayed>>

Unlock ==
    /\ ByAdmin /\ staff.status # "deleted"
    /\ ResetAttempts
    /\ UNCHANGED <<required, factor, peer, device, token, req, drawn, accepted, replayed, clean>>

\* A disabled account is deleted: its tokens, then the row.
RemoveStaff(r) ==
    /\ peer /\ staff.status = "disabled"
    /\ Start(r, "remove", "writing", None, None)
    /\ token' = [t \in Tokens |-> Unissued]
    /\ UNCHANGED <<required, row, peer, device, drawn, ghosts>>

DeleteStaff(r) ==
    /\ At(r, "remove", "writing")
    /\ staff' = [staff EXCEPT !.status = "deleted"]
    /\ factor' = NoFactor
    /\ clean' = (clean /\ Apart(r))
    /\ Over(r)
    /\ UNCHANGED <<required, peer, device, token, drawn, accepted, replayed, tried>>

\* The process of a request dies between two of its writes.
Die(r) ==
    /\ InFlight(r)
    /\ Over(r)
    /\ UNCHANGED <<required, row, peer, device, token, drawn, ghosts>>

Next ==
    \/ LockExpires \/ Logout \/ Approve \/ Unlock
    \/ \E r \in Requests :
          \/ Login(r) \/ CheckPassword(r) \/ ReserveAttempt(r) \/ FinishLogin(r) \/ IssueTokens(r)
          \/ VerifyMfa(r) \/ ManageFactor(r) \/ CheckSecondFactor(r) \/ ClearAttempts(r)
          \/ ClearTwoFactor(r) \/ RegenerateRecoveryCodes(r)
          \/ StartEnrollment(r) \/ WritePendingSecret(r) \/ ConfirmEnrollment(r) \/ CheckCode(r)
          \/ WriteEnrollment(r)
          \/ StartRegistration(r) \/ Register(r) \/ Authenticate(r) \/ RevokeDevice(r)
          \/ RevokeTokensOfDevice(r) \/ Refresh(r) \/ Rotate(r) \/ CheckDevice(r)
          \/ ChangePassword(r) \/ RevokeAll(r)
          \/ EditStaff(r) \/ GuardLastSuperAdmin(r) \/ SaveStaff(r) \/ EditPeer(r) \/ SavePeer(r)
          \/ ResetStaff(r) \/ RemoveStaff(r) \/ DeleteStaff(r) \/ Die(r)

Spec == Init /\ [][Next]_vars

-----------------------------------------------------------------------------
(***************************************************************************)
(* Properties                                                              *)
(***************************************************************************)
\* No code of the app and no recovery code is accepted twice, however many
\* sign-ins present it at once (checkSecondFactor), as long as no write of the
\* second factor goes over what a request in flight has read.
CodesSpentOnce == clean => ~replayed

\* No more secrets are looked at than the limit until the count is cleared by
\* a completed step or the lock runs out, however many arrive at once
\* (reserveAttempt), as long as no saved row brings an old count back.
GuessesBounded == clean => Cardinality(tried) <= MaxFailedAttempts

\* Parallel registrations, from sign-ins and sessions, keep the limit.
DeviceCapKept == Cardinality(Kept(device)) <= MaxDevices

\* Both limits hold together: what races for a device or for a guess counts
\* itself before it is let through.
LimitsKept == GuessesBounded /\ DeviceCapKept

\* A revoked device none of whose sessions is live and which no request in
\* flight has authenticated is out for good: neither an approval nor a
\* rotation that raced the revocation brings it back.
Out(d) ==
    /\ device[d] = "revoked"
    /\ \A t \in Tokens : token[t].device = d => ~token[t].live
    /\ \A r \in Requests :
          req[r].op \in {"assert", "refresh", "change"} /\ req[r].device = d => ~InFlight(r)

RevokedStaysOut == [][\A d \in Devices : Out(d) => Out(d)']_vars

\* A family none of whose tokens is live, or held by a refresh in flight, is
\* ended: no reuse, rotation or bulk revocation makes it live again.
Ended(f) ==
    /\ token[f].family = f
    /\ \A t \in Tokens : token[t].family = f => ~token[t].live
    /\ \A r \in Requests : At(r, "refresh", "rotate") \/ At(r, "refresh", "isActive")
                           \/ At(r, "refresh", "issue") => req[r].family # f

EndedStaysEnded == [][\A f \in Tokens : Ended(f) => token'[f] = Unissued \/ Ended(f)']_vars

\* "At least one active super admin is required" (guardLastSuperAdmin).
AnAdminRemains == Admins # {}
=============================================================================
