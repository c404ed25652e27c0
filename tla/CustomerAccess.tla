--------------------------- MODULE CustomerAccess ---------------------------
(***************************************************************************)
(* Requests that bear one customer's access token, to the auth service and *)
(* to the payment service, from the customer or from whoever else holds    *)
(* the token: what each service checks before it serves them, while the    *)
(* session ends, the token expires, and the PIN is set, reset and locked.  *)
(* The routes are those of the controllers, by what they ask for.          *)
(***************************************************************************)
EXTENDS Naturals

CONSTANTS Requests, Pins

NoPin == "no PIN"

\* What a route asks for: nothing, a live session (own), the PIN too (pin, and
\* reset, which replaces it), or a live session and no PIN yet (set); the payment
\* service, a good token (read, save), and the PIN as the auth service sees it
\* (pay); the routes between services, the internal key.
Route(names, kind) == {[name |-> n, kind |-> kind] : n \in names}

OpenRoutes ==
    Route({"register", "resendRegistrationOtp", "verifyOtp", "login", "confirmLoginPin", "refresh",
           "requestPasswordReset", "verifyPasswordResetOtp", "confirmPasswordReset"}, "open")

PinRoutes ==
    Route({"setPin"}, "set") \cup Route({"verifyPin", "setTransferLimits"}, "pin")
    \cup Route({"resetPin"}, "reset")

AccountRoutes ==
    Route({"changePassword", "transferLimits", "logout", "me", "addPhone", "resendPhoneOtp",
           "verifyPhone", "submitBvn", "verifyBvn"}, "own")

SessionRoutes == Route({"sessions", "revokeSession"}, "own")
DeviceRoutes == Route({"devices", "updateBiometricPreferences"}, "own")
DeletionRoutes == Route({"deletionRequest", "requestDeletion", "cancelDeletion"}, "own")
KycRoutes ==
    Route({"uploadDocument", "listDocuments", "createNinLivenessSession", "verifyNin",
           "submitTierUpgrade", "tierUpgradeStatus"}, "own")
    \cup Route({"tierLimits", "ninLivenessWidget"}, "open")
AppConfigRoutes == Route({"appConfig"}, "open")

PayoutRoutes ==
    Route({"resolveRecipient", "calculateFee", "transferLimit", "transferCaps"}, "read")
    \cup Route({"initiatePayout"}, "pay")
BillRoutes ==
    Route({"categories", "billers", "items", "validate", "listBeneficiaries"}, "read")
    \cup Route({"renameBeneficiary", "removeBeneficiary"}, "save") \cup Route({"payBill"}, "pay")
HistoryRoutes == Route({"transactions", "transaction"}, "read")
WalletRoutes == Route({"wallets"}, "read")
RecipientRoutes == Route({"beneficiaries"}, "read")
BankRoutes == Route({"banks"}, "read")

AuthInternal ==
    Route({"contact", "clearLockouts", "limitOf", "capsOf", "retryProvisioning", "suspend",
           "reactivate", "updateProfile", "revokeSessions", "revokeOneSession", "close",
           "rejectDeletion", "approveTierUpgrade", "rejectTierUpgrade", "kycDocumentFile"},
          "internal")
PaymentInternal ==
    Route({"post", "assign", "requery", "freePayouts", "setFreePayouts", "reconcile"}, "internal")

Routes ==
    OpenRoutes \cup PinRoutes \cup AccountRoutes \cup SessionRoutes \cup DeviceRoutes
    \cup DeletionRoutes \cup KycRoutes \cup AppConfigRoutes \cup PayoutRoutes \cup BillRoutes
    \cup HistoryRoutes \cup WalletRoutes \cup RecipientRoutes \cup BankRoutes
    \cup AuthInternal \cup PaymentInternal

-----------------------------------------------------------------------------
VARIABLES
    alive,   \* whether the session of the token is unrevoked
    good,    \* whether the token has not expired
    pin, locked,
    asked    \* the requests

vars == <<alive, good, pin, locked, asked>>

NoRoute == [name |-> "none", kind |-> "open"]
Places == {"none", "guard", "serving", "calling", "reading", "checking", "heard", "passed", "over"}

\* right and unlocked are history: whether since the request came there was a
\* moment at which the PIN was the one presented, and one with no lock on it.
Asked ==
    [at : Places, route : Routes \cup {NoRoute}, keyed : BOOLEAN, guess : Pins,
     hash : Pins \cup {NoPin}, verdict : {"none", "ok", "wrong", "locked", "unset", "lost"},
     right : BOOLEAN, unlocked : BOOLEAN, done : BOOLEAN]

TypeOK ==
    /\ {alive, good, locked} \subseteq BOOLEAN /\ pin \in Pins \cup {NoPin}
    /\ asked \in [Requests -> Asked]

NoneAsked ==
    [at |-> "none", route |-> NoRoute, keyed |-> FALSE, guess |-> CHOOSE p \in Pins : TRUE,
     hash |-> NoPin, verdict |-> "none",
     right |-> FALSE, unlocked |-> FALSE, done |-> FALSE]

Init ==
    /\ alive = TRUE /\ good = TRUE
    /\ pin = NoPin /\ locked = FALSE
    /\ asked = [q \in Requests |-> NoneAsked]

-----------------------------------------------------------------------------
OnItsWay(request) == request.at \notin {"none", "over"}

\* What the requests on their way may go by: this PIN, no lock.
Seen(requests, p, lock) ==
    [q \in Requests |->
        [requests[q] EXCEPT
            !.right = @ \/ (p = requests[q].guess /\ OnItsWay(requests[q])),
            !.unlocked = @ \/ (~lock /\ OnItsWay(requests[q]))]]

\* q goes on; nothing else has changed.
Quietly(q, request) ==
    /\ asked' = [asked EXCEPT ![q] = request]
    /\ UNCHANGED <<alive, good, pin, locked>>

To(q, place) == Quietly(q, [asked[q] EXCEPT !.at = place])
Refuse(q) == To(q, "over")
Finished(q) == [asked[q] EXCEPT !.at = "over", !.done = TRUE]

\* The answer is read, and the bearer may ask again.
Leave(q) == asked[q].at = "over" /\ Quietly(q, NoneAsked)

Come(q) ==
    /\ asked[q].at = "none"
    /\ \E route \in Routes, guess \in Pins, keyed \in BOOLEAN :
          Quietly(q, [NoneAsked EXCEPT !.at = "guard", !.route = route, !.guess = guess,
                          !.keyed = keyed, !.right = (pin = guess), !.unlocked = ~locked])

-----------------------------------------------------------------------------
(***************************************************************************)
(* The guards.                                                             *)
(***************************************************************************)
\* The auth service reads the session's row, on every request.
SessionHolds(session, token) == token /\ session

MayPass(q) ==
    CASE asked[q].route.kind = "open" -> TRUE
      [] asked[q].route.kind \in {"own", "pin", "reset", "set"} -> SessionHolds(alive, good)
      [] asked[q].route.kind \in {"read", "save", "pay"} -> good
      [] asked[q].route.kind = "internal" -> asked[q].keyed

\* Past the guard, what is read or asked first.
First(kind) ==
    CASE kind \in {"pin", "reset", "set"} -> "reading"
      [] kind = "pay" -> "calling"
      [] OTHER -> "serving"

Guard(q) ==
    /\ asked[q].at = "guard"
    /\ IF MayPass(q) THEN To(q, First(asked[q].route.kind)) ELSE Refuse(q)

\* A session may end by it: this one, or another.
Serve(q) ==
    /\ asked[q].at = "serving"
    /\ \/ /\ alive' \in CASE asked[q].route.name = "logout" -> {FALSE}
                          [] asked[q].route.name \in {"revokeSession", "revokeOneSession"} ->
                                {alive, FALSE}
                          [] asked[q].route.name \in
                                {"revokeSessions", "suspend", "close", "confirmPasswordReset"} ->
                                {FALSE}
                          [] OTHER -> {alive}
          /\ locked' = (locked /\ asked[q].route.name # "clearLockouts")
          /\ asked' = Seen([asked EXCEPT ![q] = Finished(q)], pin, locked')
          /\ UNCHANGED <<good, pin>>
       \/ Refuse(q)

-----------------------------------------------------------------------------
(***************************************************************************)
(* The transaction PIN.                                                    *)
(***************************************************************************)
Verdict(q, v) ==
    [asked[q] EXCEPT !.at = IF @ = "checking" /\ v = "ok" /\ asked[q].route.kind # "pay"
                            THEN "passed"
                            ELSE IF asked[q].route.kind = "pay" THEN "heard" ELSE "over",
                     !.verdict = v]

\* The call to the auth service gets there, or does not.
AskAuth(q) ==
    /\ asked[q].at = "calling"
    /\ To(q, "reading") \/ Quietly(q, Verdict(q, "lost"))

ReadPin(q) ==
    /\ asked[q].at = "reading"
    /\ IF asked[q].route.kind = "set"
       THEN IF pin = NoPin THEN To(q, "passed") ELSE Refuse(q)
       ELSE IF pin = NoPin THEN Quietly(q, Verdict(q, "unset"))
       ELSE Quietly(q, [asked[q] EXCEPT !.at = "checking", !.hash = pin])

\* Against the hash that was read; each wrong guess may be the one that locks.
CheckPin(q) ==
    /\ asked[q].at = "checking"
    /\ IF locked THEN Quietly(q, Verdict(q, "locked"))
       ELSE /\ \/ asked[q].guess = asked[q].hash /\ UNCHANGED locked
                  /\ asked' = [asked EXCEPT ![q] = Verdict(q, "ok")]
               \/ asked[q].guess # asked[q].hash /\ locked' \in BOOLEAN
                  /\ asked' = [asked EXCEPT ![q] = Verdict(q, "wrong")]
            /\ UNCHANGED <<alive, good, pin>>

WritePin(q, p) ==
    /\ pin' = p
    /\ asked' = Seen([asked EXCEPT ![q] = Finished(q)], p, locked)
    /\ UNCHANGED <<alive, good, locked>>

\* What the PIN was asked for, or what is put in its place.
Proceed(q) ==
    /\ asked[q].at = "passed"
    /\ CASE asked[q].route.kind = "set" -> WritePin(q, asked[q].guess)
         [] asked[q].route.kind = "reset" -> \E p \in Pins \ {asked[q].guess} : WritePin(q, p)
         [] asked[q].route.kind \in {"pin", "pay"} -> Quietly(q, Finished(q)) \/ Refuse(q)

\* Anything but a refusal will do.
NotRefused(verdict) == verdict \notin {"wrong", "locked"}

Accepted(verdict) == verdict = "ok"

\* A 200 is an answer; the rest, and none in five seconds, is a refusal.
Hear(q) ==
    /\ asked[q].at = "heard"
    /\ To(q, IF Accepted(asked[q].verdict) THEN "passed" ELSE "over")

\* The auth service may go on with a call that is given up.
GiveUp(q) ==
    /\ asked[q].route.kind = "pay"
    /\ asked[q].at \in {"reading", "checking"}
    /\ Quietly(q, [asked[q] EXCEPT !.at = "heard", !.verdict = "lost"])

-----------------------------------------------------------------------------
(***************************************************************************)
(* Meanwhile: the session ends elsewhere, the token or a lock runs out.    *)
(***************************************************************************)
SessionEnds == alive /\ alive' = FALSE /\ UNCHANGED <<good, pin, locked, asked>>
TokenExpires == good /\ good' = FALSE /\ UNCHANGED <<alive, pin, locked, asked>>
LockTurns ==
    /\ locked' = ~locked
    /\ asked' = Seen(asked, pin, ~locked)
    /\ UNCHANGED <<alive, good, pin>>

\* The customer signs in anew, and has a token again.
SignIn ==
    /\ ~alive
    /\ \A q \in Requests : asked[q].at \in {"none", "over"}
    /\ alive' = TRUE /\ good' = TRUE
    /\ UNCHANGED <<pin, locked, asked>>

Next ==
    \/ \E q \in Requests :
          \/ Leave(q) \/ Come(q) \/ Guard(q) \/ Serve(q)
          \/ AskAuth(q) \/ ReadPin(q) \/ CheckPin(q) \/ Proceed(q) \/ Hear(q) \/ GiveUp(q)
    \/ SessionEnds \/ TokenExpires \/ LockTurns \/ SignIn

Spec == Init /\ [][Next]_vars
-----------------------------------------------------------------------------
(***************************************************************************)
(* Properties                                                              *)
(***************************************************************************)
\* "Fails closed: if auth can't be reached, no money moves" (pin-verifier.service.ts),
\* and a stolen token neither pays nor raises a limit nor changes the PIN: for each
\* of these the PIN presented was the customer's, and free of a lock, at some
\* moment since the request came.
PinStandsBehind ==
    \A q \in Requests :
        asked[q].route.kind \in {"pin", "reset", "pay"} /\ asked[q].done =>
            asked[q].right /\ asked[q].unlocked
=============================================================================
