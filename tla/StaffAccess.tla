---------------------------- MODULE StaffAccess -----------------------------
(***************************************************************************)
(* Requests of one signed-in member of staff to the admin API: what the    *)
(* guards let through while the account and the device they come from      *)
(* change, and what the audit log keeps of it.  The routes are those of    *)
(* the controllers, by the roles they are open to and by what they do.     *)
(* Sign-in itself is in StaffSignIn.                                       *)
(***************************************************************************)
EXTENDS Naturals

CONSTANTS
    Requests,
    DeviceRequired   \* whether sessions are bound to an approved device

Roles == {"SUPER_ADMIN", "COMPLIANCE", "FINANCE", "SUPPORT"}
Reviewers == {"SUPER_ADMIN", "COMPLIANCE"}
AnyDesk == {"SUPPORT", "COMPLIANCE", "FINANCE"}

\* Kinds: "read" is not recorded; "view" is, if that works; of "file" the record
\* comes first; "act" changes this service's own data and "call" another
\* service's, then they are recorded; "self" changes, and is recorded if that works.
Route(names, roles, kind) ==
    {[name |-> n, roles |-> roles, kind |-> kind, pending |-> FALSE] : n \in names}

\* Routes one with a temporary password may call.
Pending(routes) == {[r EXCEPT !.pending = TRUE] : r \in routes}

CustomerReads ==
    Route({"customers", "limits", "customerTransactions", "wallet", "sessions", "devices"},
          AnyDesk, "read")
    \cup Route({"customer"}, AnyDesk, "view")
    \cup Route({"reviewQueue", "kyc"}, Reviewers, "read")
    \cup Route({"kycFile"}, Reviewers, "file")

CustomerActions ==
    Route({"approveUpgrade", "rejectUpgrade", "update", "suspend", "reactivate", "close",
           "revokeSessions", "revokeSession"}, Reviewers, "call")
    \cup Route({"clearLockouts"}, {"SUPPORT", "COMPLIANCE"}, "call")

TransactionRoutes ==
    Route({"transactions"}, {"SUPPORT", "FINANCE"}, "read")
    \cup Route({"transaction"}, {"SUPPORT", "FINANCE"}, "view")
    \cup Route({"transactionsExport"}, {"FINANCE"}, "file")
    \cup Route({"requery"}, {"FINANCE"}, "call")

PostingRoutes ==
    Route({"postings", "posting"}, {"FINANCE", "COMPLIANCE"}, "read")
    \cup Route({"request", "cancel"}, {"FINANCE"}, "act")
    \cup Route({"approve"}, {"COMPLIANCE"}, "call")
    \cup Route({"reject"}, {"COMPLIANCE"}, "act")

DeletionRoutes ==
    Route({"deletionRequests"}, {"COMPLIANCE"}, "read")
    \cup Route({"approveDeletion", "rejectDeletion"}, {"COMPLIANCE"}, "call")

BroadcastRoutes ==
    Route({"broadcasts", "broadcast"}, {"SUPER_ADMIN"}, "read")
    \cup Route({"createBroadcast"}, {"SUPER_ADMIN"}, "act")

AuditRoutes ==
    Route({"auditLog"}, Reviewers, "read") \cup Route({"auditExport"}, Reviewers, "file")

OverviewRoutes == Route({"overview"}, AnyDesk, "read")
ReconciliationRoutes == Route({"reconciliation"}, {"FINANCE", "COMPLIANCE"}, "read")

ProvisioningRoutes ==
    Route({"pending"}, {"COMPLIANCE", "FINANCE"}, "read")
    \cup Route({"retry"}, {"COMPLIANCE", "FINANCE"}, "call")

SettingsRoutes ==
    Route({"freePayouts"}, {"FINANCE"}, "read") \cup Route({"setFreePayouts"}, {"FINANCE"}, "call")

StaffRoutes ==
    Route({"staff", "staffDevices", "staffMember"}, {"SUPER_ADMIN"}, "read")
    \cup Route({"createStaff", "updateStaff", "resetPassword", "resetTwoFactor", "unlock",
                "removeStaff"}, {"SUPER_ADMIN"}, "act")
    \cup Route({"approveDevice", "revokeDevice"}, {"SUPER_ADMIN"}, "self")

\* With no role asked for.
OwnRoutes ==
    Route({"ownDevices", "addDeviceOptions"}, Roles, "read")
    \cup Route({"addDevice", "removeDevice", "disableTwoFactor", "regenerateRecoveryCodes"},
               Roles, "self")
    \cup Pending(Route({"me", "setupTwoFactor"}, Roles, "read")
                 \cup Route({"enableTwoFactor", "changePassword"}, Roles, "self"))

Routes ==
    CustomerReads \cup CustomerActions \cup TransactionRoutes \cup PostingRoutes
    \cup DeletionRoutes \cup BroadcastRoutes \cup AuditRoutes \cup OverviewRoutes
    \cup ReconciliationRoutes \cup ProvisioningRoutes \cup SettingsRoutes
    \cup StaffRoutes \cup OwnRoutes

-----------------------------------------------------------------------------
VARIABLES
    member,    \* the staff row
    approved,  \* whether the device is
    ask        \* the requests

vars == <<member, approved, ask>>

Member == [role : Roles, status : {"ACTIVE", "DISABLED", "GONE"}, temporary : BOOLEAN]
NoRoute == [name |-> "none", roles |-> {}, kind |-> "read", pending |-> FALSE]

\* granted is what the guards will say of the row as it was read.  allowed and
\* trusted are history: whether, since the request came in, there was a moment at
\* which the row, and one at which the device, would do for it.
Ask ==
    [at : {"none", "row", "device", "doing", "recording", "handing", "over"},
     route : Routes \cup {NoRoute}, granted : BOOLEAN, allowed : BOOLEAN, trusted : BOOLEAN,
     done : BOOLEAN, logged : BOOLEAN, answer : {"none", "ok", "refused", "failed"}]

TypeOK ==
    /\ member \in Member /\ approved \in BOOLEAN
    /\ ask \in [Requests -> Ask]

NoAsk ==
    [at |-> "none", route |-> NoRoute, granted |-> FALSE, allowed |-> FALSE, trusted |-> FALSE,
     done |-> FALSE, logged |-> FALSE, answer |-> "none"]

Init ==
    /\ member = [role |-> "SUPPORT", status |-> "ACTIVE", temporary |-> TRUE]
    /\ approved = TRUE
    /\ ask = [q \in Requests |-> NoAsk]

-----------------------------------------------------------------------------
(***************************************************************************)
(* The guards.                                                             *)
(***************************************************************************)
\* Whatever the account has become: the token is good.
TokenWillDo(m) == TRUE

IsActive(m) == m.status = "ACTIVE"

\* A super admin passes every role check.
HasRole(m, route) == m.role = "SUPER_ADMIN" \/ m.role \in route.roles

PasswordIsTheirs(m, route) == route.pending \/ ~m.temporary

MayCall(m, route) ==
    m.status = "ACTIVE" /\ m.role \in route.roles \cup {"SUPER_ADMIN"}
        /\ (m.temporary => route.pending)
Trusted(d) == d \/ ~DeviceRequired

\* What requests on their way may go by, once the row and the device are these.
Seen(requests, m, d) ==
    [q \in Requests |->
        CASE requests[q].at = "row" ->
                [requests[q] EXCEPT !.allowed = @ \/ MayCall(m, requests[q].route),
                                    !.trusted = @ \/ Trusted(d)]
          [] requests[q].at = "device" -> [requests[q] EXCEPT !.trusted = @ \/ Trusted(d)]
          [] OTHER -> requests[q]]

To(q, place) == ask' = [ask EXCEPT ![q].at = place]
Answer(q, a) == ask' = [ask EXCEPT ![q].at = "over", ![q].answer = a]

\* The answer is read, and the client may ask again.
Leave(q) ==
    /\ ask[q].at = "over"
    /\ ask' = [ask EXCEPT ![q] = NoAsk]
    /\ UNCHANGED <<member, approved>>

Come(q) ==
    /\ ask[q].at = "none"
    /\ \E route \in Routes :
          ask' = [ask EXCEPT ![q] =
              [NoAsk EXCEPT !.at = "row", !.route = route,
                            !.allowed = MayCall(member, route), !.trusted = Trusted(approved)]]
    /\ UNCHANGED <<member, approved>>

\* The row, on every request.
Validate(q) ==
    /\ ask[q].at = "row"
    /\ IF IsActive(member)
       THEN ask' = [ask EXCEPT ![q].at = "device", ![q].granted =
                        HasRole(member, ask[q].route) /\ PasswordIsTheirs(member, ask[q].route)]
       ELSE Answer(q, "refused")
    /\ UNCHANGED <<member, approved>>

\* Then the device; then the guards, who go by the row as it was read.
CheckDevice(q) ==
    /\ ask[q].at = "device"
    /\ IF Trusted(approved) /\ ask[q].granted
       THEN To(q, IF ask[q].route.kind = "file" THEN "recording" ELSE "doing")
       ELSE Answer(q, "refused")
    /\ UNCHANGED <<member, approved>>

-----------------------------------------------------------------------------
(***************************************************************************)
(* The handlers.                                                           *)
(***************************************************************************)
Doing(q, kinds) == ask[q].at = "doing" /\ ask[q].route.kind \in kinds
Done(q) == ask' = [ask EXCEPT ![q].at = "recording", ![q].done = TRUE]

Read(q) ==
    /\ Doing(q, {"read", "view"})
    /\ \/ IF ask[q].route.kind = "view" THEN To(q, "recording") ELSE Answer(q, "ok")
       \/ Answer(q, "failed")
    /\ UNCHANGED <<member, approved>>

\* On a row of the admin database.
Act(q) ==
    /\ Doing(q, {"act"})
    /\ Done(q) \/ Answer(q, "failed")
    /\ UNCHANGED <<member, approved>>

\* A definite answer, or none: the other service may have done it nevertheless.
Call(q) ==
    /\ Doing(q, {"call"})
    /\ \/ Done(q)
       \/ Answer(q, "failed")
       \/ ask' = [ask EXCEPT ![q].at = "over", ![q].done = TRUE, ![q].answer = "failed"]
    /\ UNCHANGED <<member, approved>>

\* On one's own account and devices.
ActOnSelf(q) ==
    /\ Doing(q, {"self"})
    /\ \/ /\ member' = [member EXCEPT !.temporary = @ /\ ask[q].route.name # "changePassword"]
          /\ approved' \in IF ask[q].route.name = "removeDevice" THEN {approved, FALSE}
                           ELSE {approved}
          /\ ask' = Seen([ask EXCEPT ![q].at = "recording", ![q].done = TRUE], member', approved')
       \/ Answer(q, "failed") /\ UNCHANGED <<member, approved>>

Loud == {"file", "act", "call"}
After(q) == IF ask[q].route.kind = "file" THEN "handing" ELSE "over"

\* Every record as if for read-tracking.
RecordQuietly(q) ==
    /\ ask[q].at = "recording" /\ ask[q].route.kind \in Loud
    /\ \E written \in BOOLEAN :
          ask' = [ask EXCEPT ![q].at = After(q), ![q].logged = written,
                             ![q].answer = IF After(q) = "over" THEN "ok" ELSE @]
    /\ UNCHANGED <<member, approved>>

\* Awaited: if it cannot be written, the request fails.
Record(q) ==
    /\ ask[q].at = "recording" /\ ask[q].route.kind \in Loud
    /\ \/ ask' = [ask EXCEPT ![q].at = After(q), ![q].logged = TRUE,
                             ![q].answer = IF After(q) = "over" THEN "ok" ELSE @]
       \/ Answer(q, "failed")
    /\ UNCHANGED <<member, approved>>

RecordSafe(q) ==
    /\ ask[q].at = "recording" /\ ask[q].route.kind \in {"view", "self"}
    /\ \E written \in BOOLEAN :
          ask' = [ask EXCEPT ![q].at = "over", ![q].logged = written, ![q].answer = "ok"]
    /\ UNCHANGED <<member, approved>>

HandOver(q) ==
    /\ ask[q].at = "handing"
    /\ Answer(q, "ok") \/ Answer(q, "failed")
    /\ UNCHANGED <<member, approved>>

\* The process dies.
Die(q) ==
    /\ ask[q].at \notin {"none", "over"}
    /\ To(q, "over")
    /\ UNCHANGED <<member, approved>>

-----------------------------------------------------------------------------
(***************************************************************************)
(* What super admins do to the account meanwhile.                          *)
(***************************************************************************)
Becomes(m) == member' = m /\ ask' = Seen(ask, m, approved) /\ UNCHANGED approved

UpdateStaff ==
    /\ member.status # "GONE"
    /\ \E role \in Roles, status \in {"ACTIVE", "DISABLED"} :
          Becomes([member EXCEPT !.role = role, !.status = status])

ResetPassword == member.status # "GONE" /\ Becomes([member EXCEPT !.temporary = TRUE])

\* Disabled first.
RemoveStaff == member.status = "DISABLED" /\ Becomes([member EXCEPT !.status = "GONE"])

\* Approved, or revoked.
ChangeDevice ==
    /\ approved' = ~approved
    /\ ask' = Seen(ask, member, approved')
    /\ UNCHANGED member

Next ==
    \/ \E q \in Requests :
          \/ Leave(q) \/ Come(q) \/ Validate(q) \/ CheckDevice(q)
          \/ Read(q) \/ Act(q) \/ Call(q) \/ ActOnSelf(q)
          \/ Record(q) \/ RecordSafe(q) \/ HandOver(q) \/ Die(q)
    \/ UpdateStaff \/ ResetPassword \/ RemoveStaff \/ ChangeDevice

Spec == Init /\ [][Next]_vars
-----------------------------------------------------------------------------
(***************************************************************************)
(* Properties                                                              *)
(***************************************************************************)
\* "Disabling an account or changing its role takes effect immediately"
\* (jwt.strategy.ts), and so do a reset password and a revoked device: a request
\* gets past the guards only if, at some moment since it came in, the account
\* was good for its route, and at some moment its device was approved.
TakesEffectAtOnce ==
    \A q \in Requests :
        ask[q].at \in {"doing", "recording", "handing"} \/ ask[q].done =>
            ask[q].allowed /\ ask[q].trusted

\* "A failed audit write fails the action's response loudly" (audit.service.ts):
\* whoever is told that an action was taken, or is handed a file, is in the log
\* for it, and of an action the log holds none that was not taken.
AuditedOrFailed ==
    \A q \in Requests :
        /\ ask[q].route.kind \in Loud /\ ask[q].answer = "ok" => ask[q].logged
        /\ ask[q].route.kind \in Loud \ {"file"} /\ ask[q].logged => ask[q].done
=============================================================================
