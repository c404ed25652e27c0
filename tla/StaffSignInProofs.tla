-------------------------- MODULE StaffSignInProofs --------------------------
(***************************************************************************)
(* Proofs about StaffSignIn, for every set of requests, devices, tokens,   *)
(* secrets and codes, every limit and every setting.                       *)
(***************************************************************************)
EXTENDS StaffSignIn, FiniteSetTheorems, TLAPS

USE StaffAssumption

-----------------------------------------------------------------------------
(***************************************************************************)
(* How the actions move a request.                                         *)
(***************************************************************************)
RowsType == req \in [Requests -> Request]

\* Only request r is touched.
Others(r) ==
    /\ RowsType'
    /\ \A q \in Requests \ {r} : req'[q] = req[q]

\* Request r is in place, and otherwise what it was.
Went(r, place) ==
    /\ Others(r)
    /\ req'[r].at = place /\ req'[r].op = req[r].op
    /\ req'[r].staff = req[r].staff /\ req'[r].factor = req[r].factor
    /\ req'[r].device = req[r].device /\ req'[r].token = req[r].token
    /\ req'[r].family = req[r].family /\ req'[r].step = req[r].step

\* Request r is over and holds nothing any more.
Finished(r) ==
    /\ Others(r)
    /\ req'[r].at = "over" /\ req'[r].op = "none"
    /\ req'[r].staff = Fresh /\ req'[r].factor = NoFactor
    /\ req'[r].device = None /\ req'[r].token = None /\ req'[r].family = None

\* Request r, which was free, is what Start makes of it.
Started(r, op, place, d, t) ==
    /\ Others(r)
    /\ req[r].at = "idle" /\ req'[r].at = place /\ req'[r].op = op
    /\ req'[r].staff = staff /\ req'[r].factor = factor
    /\ req'[r].device = d /\ req'[r].token = t
    /\ req'[r].family = IF t = None THEN None ELSE token[t].family

LEMMA FreshType ==
    /\ Fresh \in StaffRow /\ Fresh.lock = "none" /\ Fresh.failures = 0 /\ Fresh.status = "active"
    /\ NoFactor \in Factor /\ NoFactor.codes = {} /\ ~NoFactor.enabled /\ NoFactor.secret = None
    /\ NoFactor.last = 0
<1>1. 0 \in 0..MaxFailedAttempts
  OBVIOUS
<1> QED
  BY <1>1 DEF Fresh, NoFactor, StaffRow, Factor

LEMMA WaitingType ==
    /\ Waiting \in Request /\ Waiting.at = "idle" /\ Waiting.op = "none"
    /\ Waiting.staff = Fresh /\ Waiting.factor = NoFactor
    /\ Waiting.device = None /\ Waiting.token = None /\ Waiting.family = None
<1> HIDE DEF Fresh, NoFactor
<1> QED
  BY FreshType DEF Waiting, Request, Ops, Places

LEMMA GoStep ==
    ASSUME RowsType, NEW r \in Requests, NEW place \in Places, Go(r, place)
    PROVE  Went(r, place)
<1> DEFINE new == [req[r] EXCEPT !.at = place]
<1>1. req' = [req EXCEPT ![r] = new]
  BY DEF Go
<1>2. /\ new \in Request /\ new.at = place /\ new.op = req[r].op /\ new.staff = req[r].staff
      /\ new.factor = req[r].factor /\ new.device = req[r].device /\ new.token = req[r].token
      /\ new.family = req[r].family /\ new.step = req[r].step
  BY DEF RowsType, Request
<1> HIDE DEF new
<1> QED
  BY <1>1, <1>2 DEF Went, Others, RowsType

LEMMA OverStep ==
    ASSUME RowsType, NEW r \in Requests, Over(r)
    PROVE  Finished(r)
<1> DEFINE new == [Waiting EXCEPT !.at = "over"]
<1>1. req' = [req EXCEPT ![r] = new]
  BY DEF Over
<1>2. /\ new \in Request /\ new.at = "over" /\ new.op = "none" /\ new.staff = Fresh
      /\ new.factor = NoFactor /\ new.device = None /\ new.token = None /\ new.family = None
  BY WaitingType DEF Request, Places
<1> HIDE DEF new
<1> QED
  BY <1>1, <1>2 DEF Finished, Others, RowsType

LEMMA StartStep ==
    ASSUME TypeOK, NEW r \in Requests, NEW op \in Ops, NEW place \in Places,
           NEW d \in Devices \cup {None}, NEW t \in Tokens \cup {None}, Start(r, op, place, d, t)
    PROVE  Started(r, op, place, d, t)
<1> DEFINE f == IF t = None THEN None ELSE token[t].family
<1> DEFINE new == [op |-> op, at |-> place, staff |-> staff, factor |-> factor,
                   device |-> d, token |-> t, step |-> 0, family |-> f]
<1>1. req[r].at = "idle" /\ req' = [req EXCEPT ![r] = new]
  BY DEF Start
<1>2. f \in Tokens \cup {None}
  BY DEF TypeOK, Token
<1> HIDE DEF f
<1>3. /\ new \in Request /\ new.at = place /\ new.op = op /\ new.staff = staff
      /\ new.factor = factor /\ new.device = d /\ new.token = t /\ new.family = f
  BY <1>2 DEF TypeOK, Request
<1> HIDE DEF new
<1>4. /\ Others(r) /\ req'[r] = new
  BY <1>1, <1>3 DEF Others, RowsType, TypeOK
<1> QED
  BY <1>1, <1>3, <1>4 DEF Started, f

-----------------------------------------------------------------------------
(***************************************************************************)
(* Types, and what its place says of a request.                            *)
(***************************************************************************)
LockShape(s) == s.lock = "none" => s.failures < MaxFailedAttempts

\* What a request at each place works from.
Shape(r) ==
    /\ LockShape(req[r].staff)
    /\ req[r].op \in WithFactor =>
          /\ req[r].factor.secret \in Secrets /\ req[r].factor.enabled
    /\ req[r].op = "confirm" =>
          /\ req[r].factor.secret \in Secrets /\ ~req[r].factor.enabled
          /\ req[r].at \in {"clearing", "writing"} => req[r].step \in Steps
          /\ req[r].at \notin {"idle", "registering", "rotate"}
    /\ req[r].op = "edit" => req[r].staff.status # "deleted"
    /\ req[r].at = "registering" => req[r].device \in Devices
    /\ req[r].at \in {"rotate", "isActive"} => req[r].token \in Tokens

TypeInv == TypeOK /\ LockShape(staff) /\ \A r \in Requests : Shape(r)

LEMMA InitParts ==
    ASSUME Init
    PROVE  /\ required \in Settings
           /\ \E s \in BOOLEAN : staff = [Fresh EXCEPT !.super = s] /\ peer \in {TRUE, ~s}
           /\ \/ factor = NoFactor
              \/ \E e \in BOOLEAN :
                    factor = [secret |-> New(Secrets), enabled |-> e, last |-> 0,
                              codes |-> IF e THEN {New(RecoveryCodes)} ELSE {}]
           /\ drawn = ({factor.secret} \ {None}) \cup factor.codes
           /\ device \in [Devices -> {"none", "pending", "active"}]
           /\ Cardinality(Kept(device)) <= MaxDevices
           /\ \/ token = [t \in Tokens |-> Unissued]
              \/ \E t \in Tokens, d \in Devices \cup {None} :
                    /\ IF "device" \in required THEN d # None /\ device[d] = "active" ELSE d = None
                    /\ token = [x \in Tokens |-> IF x = t THEN [family |-> t, live |-> TRUE, device |-> d]
                                                          ELSE Unissued]
           /\ req = [r \in Requests |-> Waiting]
           /\ accepted = {} /\ replayed = FALSE /\ tried = {} /\ clean = TRUE
  BY Zenon DEF Init

\* The choice of New is one of the set.
LEMMA NewIn == \A S : S # {} => New(S) \in S
  BY DEF New

LEMMA InitFactor ==
    ASSUME Init
    PROVE  /\ factor \in Factor /\ factor.last = 0
           /\ factor.secret \in drawn \cup {None} /\ factor.codes \subseteq drawn
           /\ drawn \subseteq Secrets \cup RecoveryCodes
<1>1. CASE factor = NoFactor
  BY <1>1, InitParts, FreshType
<1>2. ASSUME NEW e \in BOOLEAN,
             factor = [secret |-> New(Secrets), enabled |-> e, last |-> 0,
                       codes |-> IF e THEN {New(RecoveryCodes)} ELSE {}]
      PROVE  factor \in Factor /\ factor.last = 0
  <2>1. New(Secrets) \in Secrets /\ New(RecoveryCodes) \in RecoveryCodes
    BY NewIn
  <2> DEFINE c == IF e THEN {New(RecoveryCodes)} ELSE {}
  <2>2. c \in SUBSET RecoveryCodes
    BY <2>1
  <2> HIDE DEF c
  <2>3. factor = [secret |-> New(Secrets), enabled |-> e, last |-> 0, codes |-> c]
    BY <1>2 DEF c
  <2> QED
    BY <2>1, <2>2, <2>3 DEF Factor
<1>3. factor \in Factor /\ factor.last = 0
  BY <1>1, <1>2, InitParts, FreshType
<1>4. drawn = ({factor.secret} \ {None}) \cup factor.codes
  BY InitParts
<1> QED
  BY <1>3, <1>4 DEF Factor

LEMMA InitToken ==
    ASSUME Init
    PROVE  /\ token \in [Tokens -> Token]
           /\ \A t \in Tokens : "device" \notin required => token[t].device = None
<1>1. Unissued \in Token /\ Unissued.device = None
  BY DEF Unissued, Token
<1>2. CASE token = [t \in Tokens |-> Unissued]
  BY <1>1, <1>2
<1>3. ASSUME NEW t \in Tokens, NEW d \in Devices \cup {None},
             IF "device" \in required THEN d # None /\ device[d] = "active" ELSE d = None,
             token = [x \in Tokens |-> IF x = t THEN [family |-> t, live |-> TRUE, device |-> d] ELSE Unissued]
      PROVE  /\ token \in [Tokens -> Token]
             /\ \A x \in Tokens : "device" \notin required => token[x].device = None
  <2> DEFINE first == [family |-> t, live |-> TRUE, device |-> d]
  <2>1. first \in Token /\ first.device = d
    BY <1>3 DEF Token
  <2> HIDE DEF first
  <2>2. token = [x \in Tokens |-> IF x = t THEN first ELSE Unissued]
    BY <1>3 DEF first
  <2>3. \A x \in Tokens : token[x] \in Token /\ token[x].device \in {d, None}
    BY <1>1, <2>1, <2>2
  <2>4. token \in [Tokens -> Token]
    BY <1>1, <2>1, <2>2
  <2> QED
    BY <1>3, <2>3, <2>4
<1> QED
  BY <1>2, <1>3, InitParts

LEMMA TypeInit == Init => TypeInv
<1> SUFFICES ASSUME Init PROVE TypeInv
  OBVIOUS
<1>1. PICK s \in BOOLEAN : staff = [Fresh EXCEPT !.super = s] /\ peer \in {TRUE, ~s}
  BY InitParts
<1>2. staff \in StaffRow /\ LockShape(staff) /\ peer \in BOOLEAN
  <2> DEFINE new == [Fresh EXCEPT !.super = s]
  <2>1. new \in StaffRow /\ new.lock = Fresh.lock /\ new.failures = Fresh.failures
    BY FreshType DEF StaffRow
  <2> HIDE DEF new
  <2>2. staff = new /\ peer \in BOOLEAN
    BY <1>1 DEF new
  <2> QED
    BY <2>1, <2>2, FreshType DEF LockShape
<1>3. factor \in Factor /\ drawn \subseteq Secrets \cup RecoveryCodes /\ token \in [Tokens -> Token]
  BY InitFactor, InitToken
<1>4. req \in [Requests -> Request] /\ \A r \in Requests : Shape(r)
  <2>1. req = [r \in Requests |-> Waiting]
    BY InitParts
  <2> HIDE DEF Waiting, Fresh, NoFactor
  <2> QED
    BY <2>1, WaitingType, FreshType DEF Shape, LockShape, WithFactor
<1>5. required \in SUBSET {"totp", "device"} /\ accepted = {} /\ replayed = FALSE /\ tried = {} /\ clean = TRUE
      /\ device \in [Devices -> {"none", "pending", "active", "revoked"}]
  BY InitParts
<1> QED
  BY <1>2, <1>3, <1>4, <1>5 DEF TypeInv, TypeOK

\* The shape of the request that a step moves.
LEMMA ShapeStarted ==
    ASSUME TypeInv, NEW r \in Requests, NEW op \in Ops, NEW place \in Places,
           NEW d \in Devices \cup {None}, NEW t \in Tokens \cup {None}, Start(r, op, place, d, t),
           op \in WithFactor => factor.secret \in Secrets /\ factor.enabled,
           op = "confirm" => factor.secret \in Secrets /\ ~factor.enabled /\ place = "reserve",
           op = "edit" => staff.status # "deleted",
           place = "registering" => d \in Devices,
           place \in {"rotate", "isActive"} => t \in Tokens
    PROVE  RowsType' /\ \A q \in Requests : Shape(q)'
<1>1. Started(r, op, place, d, t)
  BY StartStep DEF TypeInv
<1>2. Shape(r)'
  BY <1>1 DEF Started, TypeInv, Shape, LockShape
<1>3. \A q \in Requests \ {r} : Shape(q)'
  BY <1>1 DEF Started, Others, TypeInv, Shape, LockShape
<1> QED
  BY <1>1, <1>2, <1>3 DEF Started, Others

LEMMA ShapeWent ==
    ASSUME TypeInv, NEW r \in Requests, NEW place \in Places, Go(r, place),
           place \notin {"idle", "registering", "rotate"},
           place = "isActive" => req[r].at = "rotate",
           req[r].op = "confirm" /\ place \in {"clearing", "writing"} => req[r].step \in Steps
    PROVE  RowsType' /\ \A q \in Requests : Shape(q)'
<1>1. Went(r, place)
  BY GoStep DEF TypeInv, TypeOK, RowsType
<1>2. Shape(r)'
  BY <1>1 DEF Went, TypeInv, Shape, LockShape
<1>3. \A q \in Requests \ {r} : Shape(q)'
  BY <1>1 DEF Went, Others, TypeInv, Shape, LockShape
<1> QED
  BY <1>1, <1>2, <1>3 DEF Went, Others

LEMMA ShapeOver ==
    ASSUME TypeInv, NEW r \in Requests, Over(r)
    PROVE  RowsType' /\ \A q \in Requests : Shape(q)'
<1>1. Finished(r)
  BY OverStep DEF TypeInv, TypeOK, RowsType
<1>2. Shape(r)'
  BY <1>1, FreshType DEF Finished, Shape, LockShape, WithFactor
<1>3. \A q \in Requests \ {r} : Shape(q)'
  BY <1>1 DEF Finished, Others, TypeInv, Shape, LockShape
<1> QED
  BY <1>1, <1>2, <1>3 DEF Finished, Others

\* A code is checked: the step it is of is kept.
LEMMA CheckCodeStep ==
    ASSUME TypeInv, NEW r \in Requests, NEW n \in Steps,
           req' = [req EXCEPT ![r].at = "clearing", ![r].step = n]
    PROVE  /\ Others(r) /\ req'[r].at = "clearing" /\ req'[r].op = req[r].op
           /\ req'[r].staff = req[r].staff /\ req'[r].factor = req[r].factor
           /\ req'[r].device = req[r].device /\ req'[r].token = req[r].token
           /\ req'[r].family = req[r].family /\ req'[r].step = n
<1> DEFINE mid == [req[r] EXCEPT !.at = "clearing"]
           new == [mid EXCEPT !.step = n]
           one == [req EXCEPT ![r] = mid]
<1>0. RowsType
  BY DEF TypeInv, TypeOK, RowsType
<1>1. req' = [req EXCEPT ![r] = new]
  <2>1. req' = [one EXCEPT ![r].step = n]
    OBVIOUS
  <2>2. one[r] = mid
    BY <1>0 DEF RowsType
  <2> HIDE DEF mid
  <2>3. [one EXCEPT ![r].step = n] = [req EXCEPT ![r] = [mid EXCEPT !.step = n]]
    BY <1>0, <2>2 DEF RowsType
  <2> QED
    BY <2>1, <2>3
<1>2. /\ mid \in Request /\ mid.at = "clearing" /\ mid.op = req[r].op /\ mid.staff = req[r].staff
      /\ mid.factor = req[r].factor /\ mid.device = req[r].device /\ mid.token = req[r].token
      /\ mid.family = req[r].family
  BY DEF TypeInv, TypeOK, Request, Places
<1> HIDE DEF mid
<1>3. /\ new \in Request /\ new.at = mid.at /\ new.op = mid.op /\ new.staff = mid.staff
      /\ new.factor = mid.factor /\ new.device = mid.device /\ new.token = mid.token
      /\ new.family = mid.family /\ new.step = n
  BY <1>2 DEF Request
<1> HIDE DEF new
<1> DEFINE all == [req EXCEPT ![r] = new]
<1>4. all \in [Requests -> Request] /\ all[r] = new /\ \A q \in Requests \ {r} : all[q] = req[q]
  BY <1>0, <1>3 DEF RowsType
<1>5. req' = all
  BY <1>1
<1> HIDE DEF all, one
<1>6. Others(r) /\ req'[r] = new
  BY <1>4, <1>5 DEF Others, RowsType
<1> QED
  BY <1>6, <1>2, <1>3, <1>4

\* The guard lets the edit pass: the row to write has the new role and status.
LEMMA GuardStep ==
    ASSUME TypeInv, NEW r \in Requests, NEW super \in BOOLEAN, NEW status \in {"active", "disabled"},
           req' = [req EXCEPT ![r].at = "writing", ![r].staff.super = super, ![r].staff.status = status]
    PROVE  /\ Others(r) /\ req'[r].at = "writing" /\ req'[r].op = req[r].op
           /\ req'[r].staff.status = status /\ req'[r].staff.lock = req[r].staff.lock
           /\ req'[r].staff.failures = req[r].staff.failures /\ req'[r].factor = req[r].factor
           /\ req'[r].device = req[r].device /\ req'[r].token = req[r].token
           /\ req'[r].family = req[r].family
<1> DEFINE one == [req EXCEPT ![r].at = "writing"]
           two == [one EXCEPT ![r].staff.super = super]
           three == [two EXCEPT ![r].staff.status = status]
<1>0. RowsType /\ req[r] \in Request /\ req[r].staff \in StaffRow
  BY DEF TypeInv, TypeOK, Request, RowsType
<1>1. req' = three
  OBVIOUS
<1>2. /\ one \in [Requests -> Request] /\ \A q \in Requests \ {r} : one[q] = req[q]
      /\ one[r].at = "writing" /\ one[r].op = req[r].op /\ one[r].factor = req[r].factor
      /\ one[r].device = req[r].device /\ one[r].token = req[r].token /\ one[r].family = req[r].family
      /\ one[r].staff = req[r].staff
  BY <1>0 DEF RowsType, Request, Places
<1> HIDE DEF one
<1> DEFINE a == [one[r].staff EXCEPT !.super = super]
           b == [two[r].staff EXCEPT !.status = status]
<1>3. a \in StaffRow /\ a.lock = req[r].staff.lock /\ a.failures = req[r].staff.failures
  BY <1>0, <1>2 DEF StaffRow
<1>4. two = [one EXCEPT ![r] = [one[r] EXCEPT !.staff = a]]
  BY <1>2
<1> HIDE DEF a, two
<1>5. /\ two \in [Requests -> Request] /\ \A q \in Requests \ {r} : two[q] = req[q]
      /\ two[r].at = "writing" /\ two[r].op = req[r].op /\ two[r].factor = req[r].factor
      /\ two[r].device = req[r].device /\ two[r].token = req[r].token /\ two[r].family = req[r].family
      /\ two[r].staff = a
  BY <1>2, <1>3, <1>4 DEF Request
<1>6. b \in StaffRow /\ b.lock = req[r].staff.lock /\ b.failures = req[r].staff.failures
      /\ b.status = status
  BY <1>3, <1>5 DEF StaffRow
<1>7. three = [two EXCEPT ![r] = [two[r] EXCEPT !.staff = b]]
  BY <1>5
<1> HIDE DEF b, three
<1>8. /\ three \in [Requests -> Request] /\ \A q \in Requests \ {r} : three[q] = req[q]
      /\ three[r].at = "writing" /\ three[r].op = req[r].op /\ three[r].factor = req[r].factor
      /\ three[r].device = req[r].device /\ three[r].token = req[r].token
      /\ three[r].family = req[r].family /\ three[r].staff = b
  BY <1>5, <1>6, <1>7 DEF Request
<1> QED
  BY <1>1, <1>6, <1>8 DEF Others, RowsType


-----------------------------------------------------------------------------
(***************************************************************************)
(* Every step keeps the types and shapes.                                  *)
(***************************************************************************)
\* What request r may do.
Acts(r) ==
    \/ Login(r) \/ CheckPassword(r) \/ ReserveAttempt(r) \/ FinishLogin(r) \/ IssueTokens(r)
    \/ VerifyMfa(r) \/ ManageFactor(r) \/ CheckSecondFactor(r) \/ ClearAttempts(r)
    \/ ClearTwoFactor(r) \/ RegenerateRecoveryCodes(r)
    \/ StartEnrollment(r) \/ WritePendingSecret(r) \/ ConfirmEnrollment(r) \/ CheckCode(r)
    \/ WriteEnrollment(r)
    \/ StartRegistration(r) \/ Register(r) \/ Authenticate(r) \/ RevokeDevice(r)
    \/ RevokeTokensOfDevice(r) \/ Refresh(r) \/ Rotate(r) \/ CheckDevice(r)
    \/ ChangePassword(r) \/ RevokeAll(r)
    \/ EditStaff(r) \/ GuardLastSuperAdmin(r) \/ SaveStaff(r) \/ EditPeer(r) \/ SavePeer(r)
    \/ ResetStaff(r) \/ RemoveStaff(r) \/ DeleteStaff(r) \/ Die(r)

LEMMA EachStep ==
    Next <=> \/ LockExpires \/ Logout \/ Approve \/ Unlock
             \/ \E r \in Requests : Acts(r)
  BY Zenon DEF Next, Acts

LEMMA RequestsNext ==
    ASSUME TypeInv, Next
    PROVE  RowsType' /\ \A q \in Requests : Shape(q)'
<1> DEFINE Good == RowsType' /\ \A q \in Requests : Shape(q)'
<1> HIDE DEF Good
<1>0. /\ req \in [Requests -> Request] /\ None \notin Tokens
      /\ \A r \in Requests : Shape(r)
  BY DEF TypeInv, TypeOK
<1>1. \A r \in Requests : Over(r) => Good
  BY ShapeOver DEF Good
<1>2. \A r \in Requests, place \in Places :
         /\ Go(r, place)
         /\ place \notin {"idle", "registering", "rotate"}
         /\ place = "isActive" => req[r].at = "rotate"
         /\ req[r].op = "confirm" /\ place \in {"clearing", "writing"} => req[r].step \in Steps
         => Good
  BY ShapeWent DEF Good
<1>3. \A r \in Requests, op \in Ops, place \in Places, d \in Devices \cup {None}, t \in Tokens \cup {None} :
         /\ Start(r, op, place, d, t)
         /\ op \in WithFactor => factor.secret \in Secrets /\ factor.enabled
         /\ op = "confirm" => factor.secret \in Secrets /\ ~factor.enabled /\ place = "reserve"
         /\ op = "edit" => staff.status # "deleted"
         /\ place = "registering" => d \in Devices
         /\ place \in {"rotate", "isActive"} => t \in Tokens
         => Good
  BY ShapeStarted DEF Good
<1>4. CASE UNCHANGED req
  BY <1>0, <1>4 DEF Good, RowsType, Shape, LockShape
<1>5. CASE LockExpires \/ Logout \/ Approve \/ Unlock
  BY <1>4, <1>5 DEF LockExpires, Logout, Approve, Unlock
<1>6. factor.secret # None => factor.secret \in Secrets
  BY DEF TypeInv, TypeOK, Factor
<1>7. ASSUME NEW r \in Requests,
             \/ Login(r) \/ VerifyMfa(r) \/ ManageFactor(r) \/ StartEnrollment(r) \/ ConfirmEnrollment(r)
             \/ StartRegistration(r) \/ Authenticate(r) \/ RevokeDevice(r)
             \/ ChangePassword(r) \/ EditStaff(r) \/ ResetStaff(r) \/ RemoveStaff(r)
      PROVE  Good
  <2>1. /\ {"login", "verify", "disable", "regenerate", "start", "confirm", "register", "add",
            "assert", "revoke", "change", "edit", "reset", "remove"} \subseteq Ops
        /\ {"reserve", "writing", "registering", "finish", "revokeDevice", "revokeAll", "guarding"}
              \subseteq Places
    BY DEF Ops, Places
  <2>2. CASE Login(r) \/ VerifyMfa(r) \/ ManageFactor(r)
    BY <1>3, <1>6, <2>1, <2>2 DEF Login, VerifyMfa, ManageFactor, WithFactor
  <2>3. CASE StartEnrollment(r) \/ ConfirmEnrollment(r)
    BY <1>3, <1>6, <2>1, <2>3 DEF StartEnrollment, ConfirmEnrollment, WithFactor
  <2>4. CASE StartRegistration(r) \/ Authenticate(r) \/ RevokeDevice(r) \/ ChangePassword(r)
    BY <1>3, <2>1, <2>4 DEF StartRegistration, Authenticate, RevokeDevice, ChangePassword, WithFactor
  <2>5. CASE EditStaff(r) \/ ResetStaff(r) \/ RemoveStaff(r)
    BY <1>3, <2>1, <2>5 DEF EditStaff, ResetStaff, RemoveStaff, WithFactor
  <2> QED
    BY <1>7, <2>2, <2>3, <2>4, <2>5
<1>8. ASSUME NEW r \in Requests, Refresh(r) \/ EditPeer(r)
      PROVE  Good
  <2>1. {"refresh", "demotePeer"} \subseteq Ops /\ {"rotate", "writing"} \subseteq Places
    BY DEF Ops, Places
  <2>2. CASE EditPeer(r)
    BY <1>1, <1>3, <2>1, <2>2 DEF EditPeer, WithFactor
  <2>3. CASE Refresh(r)
    <3>1. PICK t \in Tokens : Start(r, "refresh", "rotate", token[t].device, t) \/ Over(r)
      BY <2>3 DEF Refresh
    <3>2. token[t].device \in Devices \cup {None}
      BY DEF TypeInv, TypeOK, Token
    <3> QED
      BY <1>1, <1>3, <2>1, <3>1, <3>2 DEF WithFactor
  <2> QED
    BY <1>8, <2>2, <2>3
<1>9. ASSUME NEW r \in Requests,
             \/ CheckPassword(r) \/ ReserveAttempt(r) \/ FinishLogin(r) \/ IssueTokens(r)
             \/ CheckSecondFactor(r) \/ ClearAttempts(r)
             \/ ClearTwoFactor(r) \/ RegenerateRecoveryCodes(r)
             \/ WritePendingSecret(r) \/ WriteEnrollment(r)
             \/ Register(r) \/ RevokeTokensOfDevice(r) \/ Rotate(r) \/ CheckDevice(r)
             \/ RevokeAll(r) \/ SaveStaff(r) \/ SavePeer(r) \/ DeleteStaff(r) \/ Die(r)
      PROVE  Good
  <2>1. {"check", "clearing", "writing", "finish", "issue", "isActive", "revokeAll"} \subseteq Places
    BY DEF Places
  <2>2. CASE CheckPassword(r) \/ ReserveAttempt(r) \/ FinishLogin(r) \/ IssueTokens(r)
    BY <1>1, <1>2, <2>1, <2>2 DEF CheckPassword, CompleteLogin, ReserveAttempt, FinishLogin, IssueTokens
  <2>3. CASE CheckSecondFactor(r)
    <3>1. Over(r) \/ (\E app \in BOOLEAN : Proceed(r, app))
      BY <2>3 DEF CheckSecondFactor
    <3>2. req[r].op # "confirm"
      BY <2>3 DEF CheckSecondFactor, WithFactor
    <3> QED
      BY <1>1, <1>2, <2>1, <3>1, <3>2 DEF Proceed, CompleteLogin
  <2>4. CASE ClearAttempts(r)
    BY <1>0, <1>2, <2>1, <2>4 DEF ClearAttempts, Shape
  <2>5. CASE ClearTwoFactor(r) \/ RegenerateRecoveryCodes(r) \/ WritePendingSecret(r) \/ WriteEnrollment(r)
    BY <1>1, <1>2, <2>1, <2>5
       DEF ClearTwoFactor, RegenerateRecoveryCodes, WritePendingSecret, WriteEnrollment, CompleteLogin
  <2>6. CASE Register(r) \/ RevokeTokensOfDevice(r) \/ Rotate(r) \/ CheckDevice(r) \/ RevokeAll(r)
    BY <1>1, <1>2, <2>1, <2>6 DEF Register, RevokeTokensOfDevice, Rotate, CheckDevice, RevokeAll, At
  <2>7. CASE SaveStaff(r) \/ SavePeer(r) \/ DeleteStaff(r) \/ Die(r)
    BY <1>1, <1>2, <2>1, <2>7 DEF SaveStaff, SavePeer, DeleteStaff, Die
  <2> QED
    BY <1>9, <2>2, <2>3, <2>4, <2>5, <2>6, <2>7
<1>10. ASSUME NEW r \in Requests, CheckCode(r)
       PROVE  Good
  <2>1. CASE Over(r)
    BY <1>1, <2>1
  <2>2. ASSUME NEW n \in Steps, req' = [req EXCEPT ![r].at = "clearing", ![r].step = n]
        PROVE  Good
    <3>1. /\ Others(r) /\ req'[r].at = "clearing" /\ req'[r].op = req[r].op
          /\ req'[r].staff = req[r].staff /\ req'[r].factor = req[r].factor /\ req'[r].step = n
      BY <2>2, CheckCodeStep
    <3> QED
      BY <1>0, <3>1 DEF Good, Others, RowsType, Shape, LockShape
  <2> QED
    BY <1>10, <2>1, <2>2 DEF CheckCode
<1>11. ASSUME NEW r \in Requests, GuardLastSuperAdmin(r)
       PROVE  Good
  <2>1. CASE Over(r)
    BY <1>1, <2>1
  <2>2. ASSUME NEW super \in BOOLEAN, NEW status \in {"active", "disabled"},
               req' = [req EXCEPT ![r].at = "writing", ![r].staff.super = super, ![r].staff.status = status]
        PROVE  Good
    <3>1. /\ Others(r) /\ req'[r].at = "writing" /\ req'[r].op = req[r].op
          /\ req'[r].staff.status = status /\ req'[r].staff.lock = req[r].staff.lock
          /\ req'[r].staff.failures = req[r].staff.failures
      BY <2>2, GuardStep
    <3>2. req[r].op = "edit"
      BY <1>11 DEF GuardLastSuperAdmin, At
    <3> QED
      BY <1>0, <3>1, <3>2 DEF Good, Others, RowsType, Shape, LockShape, WithFactor
  <2> QED
    BY <1>11, <2>1, <2>2 DEF GuardLastSuperAdmin
<1>12. ASSUME NEW r \in Requests, Acts(r)
       PROVE  Good
  BY <1>7, <1>8, <1>9, <1>10, <1>11, <1>12 DEF Acts
<1>13. \A r \in Requests : Acts(r) => Good
  BY <1>12
<1> QED
  BY <1>5, <1>13, EachStep DEF Good


\* What the shared writes do to the rows.
LEMMA ResetStep ==
    ASSUME TypeInv, ResetAttempts
    PROVE  /\ staff' \in StaffRow /\ LockShape(staff)' /\ tried' = {}
           /\ staff'.status = staff.status
<1>0. staff \in StaffRow /\ 0 < MaxFailedAttempts /\ 0 \in 0..MaxFailedAttempts /\ LockShape(staff)
  BY DEF TypeInv, TypeOK
<1> DEFINE mid == [staff EXCEPT !.failures = 0]
           new == [mid EXCEPT !.lock = "none"]
<1>1. mid \in StaffRow /\ mid.failures = 0 /\ mid.status = staff.status
  BY <1>0 DEF StaffRow
<1>2. (staff' = staff \/ staff' = new) /\ tried' = {}
  BY DEF ResetAttempts
<1> HIDE DEF mid
<1>3. new \in StaffRow /\ new.failures = 0 /\ new.lock = "none" /\ new.status = staff.status
  BY <1>0, <1>1 DEF StaffRow
<1> HIDE DEF new
<1> QED
  BY <1>0, <1>2, <1>3 DEF LockShape

LEMMA ReserveStep ==
    ASSUME TypeInv, NEW r \in Requests, ReserveAttempt(r)
    PROVE  /\ staff' \in StaffRow /\ LockShape(staff)' /\ staff'.status = staff.status
           /\ \/ UNCHANGED <<staff, tried>>
              \/ /\ staff'.failures = (IF staff.lock = "past" THEN 1 ELSE staff.failures + 1)
                 /\ tried' = (IF staff.lock = "past" THEN {} ELSE tried) \cup {r}
<1>0. staff \in StaffRow /\ LockShape(staff)
  BY DEF TypeInv, TypeOK
<1>1. CASE UNCHANGED <<staff, tried>>
  BY <1>0, <1>1 DEF LockShape
<1>2. ASSUME staff.lock # "future",
             LET next == IF staff.lock = "past" THEN 1 ELSE staff.failures + 1
             IN  staff' = [staff EXCEPT !.failures = next, !.lock = LockIf(next)],
             tried' = (IF staff.lock = "past" THEN {} ELSE tried) \cup {r}
      PROVE  /\ staff' \in StaffRow /\ LockShape(staff)' /\ staff'.status = staff.status
             /\ staff'.failures = (IF staff.lock = "past" THEN 1 ELSE staff.failures + 1)
             /\ tried' = (IF staff.lock = "past" THEN {} ELSE tried) \cup {r}
  <2> DEFINE next == IF staff.lock = "past" THEN 1 ELSE staff.failures + 1
             lock == LockIf(next)
             mid == [staff EXCEPT !.failures = next]
             new == [mid EXCEPT !.lock = lock]
  <2>1. next \in 0..MaxFailedAttempts
    BY <1>0, <1>2 DEF StaffRow, LockShape
  <2>2. lock \in {"none", "future"} /\ (lock = "none" => next < MaxFailedAttempts)
    BY <2>1 DEF LockIf
  <2>3. staff' = [staff EXCEPT !.failures = next, !.lock = lock]
    BY <1>2
  <2> HIDE DEF next, lock
  <2>4. staff' = new
    BY <1>0, <2>3 DEF StaffRow
  <2>5. mid \in StaffRow /\ mid.failures = next /\ mid.status = staff.status
    BY <1>0, <2>1 DEF StaffRow
  <2> HIDE DEF mid
  <2>6. new \in StaffRow /\ new.failures = next /\ new.lock = lock /\ new.status = staff.status
    BY <2>2, <2>5 DEF StaffRow
  <2> HIDE DEF new
  <2>7. staff' \in StaffRow /\ LockShape(staff)' /\ staff'.status = staff.status /\ staff'.failures = next
    BY <2>2, <2>4, <2>6 DEF LockShape
  <2> QED
    BY <1>2, <2>7 DEF next
<1> QED
  BY <1>1, <1>2 DEF ReserveAttempt

LEMMA RevokedType ==
    ASSUME TypeOK, NEW S
    PROVE  /\ Revoked(S) \in [Tokens -> Token]
           /\ \A t \in Tokens : /\ Revoked(S)[t].family = token[t].family
                               /\ Revoked(S)[t].device = token[t].device
                               /\ Revoked(S)[t].live = (token[t].live /\ t \notin S)
<1>1. \A t \in Tokens : token[t] \in Token
  BY DEF TypeOK
<1>2. \A t \in Tokens : Revoked(S)[t] = IF t \in S THEN [token[t] EXCEPT !.live = FALSE] ELSE token[t]
  BY DEF Revoked
<1>3. \A t \in Tokens : /\ Revoked(S)[t] \in Token
                        /\ Revoked(S)[t].family = token[t].family
                        /\ Revoked(S)[t].device = token[t].device
                        /\ Revoked(S)[t].live = (token[t].live /\ t \notin S)
  <2> TAKE t \in Tokens
  <2> DEFINE new == [token[t] EXCEPT !.live = FALSE]
  <2>1. token[t].live \in BOOLEAN
    BY <1>1 DEF Token
  <2>2. /\ new \in Token /\ new.family = token[t].family /\ new.device = token[t].device
        /\ new.live = FALSE
    BY <1>1 DEF Token
  <2>3. Revoked(S)[t] = IF t \in S THEN new ELSE token[t]
    BY <1>2
  <2> HIDE DEF new
  <2> QED
    BY <1>1, <2>1, <2>2, <2>3
<1>4. Revoked(S) = [t \in Tokens |-> Revoked(S)[t]]
  BY DEF Revoked
<1> QED
  BY <1>3, <1>4

\* What the writes of the second factor leave behind.
LEMMA LastStep ==
    ASSUME TypeInv, NEW n \in Steps, NEW f, f = [factor EXCEPT !.last = n]
    PROVE  /\ f \in Factor /\ f.secret = factor.secret /\ f.enabled = factor.enabled
           /\ f.codes = factor.codes /\ f.last = n
<1>1. factor \in Factor
  BY DEF TypeInv, TypeOK
<1> QED
  BY <1>1 DEF Factor

LEMMA CodesStep ==
    ASSUME TypeInv, NEW S \in SUBSET RecoveryCodes, NEW f, f = [factor EXCEPT !.codes = S]
    PROVE  /\ f \in Factor /\ f.secret = factor.secret /\ f.enabled = factor.enabled
           /\ f.last = factor.last /\ f.codes = S
<1>1. factor \in Factor
  BY DEF TypeInv, TypeOK
<1> QED
  BY <1>1 DEF Factor

LEMMA PendingStep ==
    ASSUME TypeInv, NEW s \in Secrets, NEW f, f = [factor EXCEPT !.secret = s, !.last = 0]
    PROVE  /\ f \in Factor /\ f.secret = s /\ f.enabled = factor.enabled /\ f.codes = factor.codes
<1>0. factor \in Factor
  BY DEF TypeInv, TypeOK
<1> DEFINE mid == [factor EXCEPT !.secret = s]
           all == [mid EXCEPT !.last = 0]
<1>1. f = all
  OBVIOUS
<1>2. mid \in Factor /\ mid.secret = s /\ mid.enabled = factor.enabled /\ mid.codes = factor.codes
  BY <1>0 DEF Factor
<1> HIDE DEF mid
<1>3. all \in Factor /\ all.secret = s /\ all.enabled = factor.enabled /\ all.codes = factor.codes
  BY <1>2 DEF Factor
<1> HIDE DEF all
<1> QED
  BY <1>1, <1>3

LEMMA EnrollStep ==
    ASSUME TypeInv, NEW n \in Steps, NEW S \in SUBSET RecoveryCodes, NEW f,
           f = [factor EXCEPT !.enabled = TRUE, !.last = n, !.codes = S]
    PROVE  f \in Factor /\ f.secret = factor.secret /\ f.enabled /\ f.last = n /\ f.codes = S
<1>0. factor \in Factor
  BY DEF TypeInv, TypeOK
<1> DEFINE on == [factor EXCEPT !.enabled = TRUE]
           enrolled == [on EXCEPT !.last = n]
           all == [enrolled EXCEPT !.codes = S]
<1>1. f = all
  OBVIOUS
<1>2. on \in Factor /\ on.secret = factor.secret /\ on.enabled
  BY <1>0 DEF Factor
<1> HIDE DEF on
<1>3. enrolled \in Factor /\ enrolled.secret = factor.secret /\ enrolled.enabled /\ enrolled.last = n
  BY <1>2 DEF Factor
<1> HIDE DEF enrolled
<1>4. /\ all \in Factor /\ all.secret = factor.secret /\ all.enabled
      /\ all.last = n /\ all.codes = S
  BY <1>3 DEF Factor
<1> HIDE DEF all
<1> QED
  BY <1>1, <1>4

\* A new token is live, of the request's device and of its family or its own.
LEMMA IssueStep ==
    ASSUME TypeOK, NEW r \in Requests, IssueTokens(r)
    PROVE  /\ req[r].at = "issue" /\ token' \in [Tokens -> Token]
           /\ \E t \in Tokens :
                 /\ token[t] = Unissued /\ NewName(t)
                 /\ token'[t].live /\ token'[t].device = req[r].device
                 /\ token'[t].family = IF req[r].family = None THEN t ELSE req[r].family
                 /\ \A u \in Tokens \ {t} : token'[u] = token[u]
<1>1. PICK t \in Tokens :
        /\ token[t] = Unissued /\ NewName(t)
        /\ token' = [token EXCEPT ![t] = [live |-> TRUE, device |-> req[r].device,
              family |-> IF req[r].family = None THEN t ELSE req[r].family]]
  BY DEF IssueTokens
<1> DEFINE f == IF req[r].family = None THEN t ELSE req[r].family
           new == [live |-> TRUE, device |-> req[r].device, family |-> f]
<1>2. req[r].device \in Devices \cup {None} /\ f \in Tokens \cup {None}
  BY DEF TypeOK, Request
<1> HIDE DEF f
<1>3. new \in Token /\ new.live /\ new.device = req[r].device /\ new.family = f
  BY <1>2 DEF Token
<1>4. token' = [token EXCEPT ![t] = new]
  BY <1>1 DEF f
<1> HIDE DEF new
<1>5. token' \in [Tokens -> Token] /\ token'[t] = new /\ \A u \in Tokens \ {t} : token'[u] = token[u]
  BY <1>3, <1>4 DEF TypeOK
<1>6. /\ token[t] = Unissued /\ NewName(t)
      /\ token'[t].live /\ token'[t].device = req[r].device /\ token'[t].family = f
      /\ \A u \in Tokens \ {t} : token'[u] = token[u]
  BY <1>1, <1>3, <1>5
<1> QED
  BY <1>5, <1>6 DEF f, IssueTokens

LEMMA DrawStep ==
    ASSUME NEW S, DrawFrom(S)
    PROVE  /\ New(S \ drawn) \in S /\ New(S \ drawn) \notin drawn
           /\ drawn' = drawn \cup {New(S \ drawn)}
  BY NewIn DEF DrawFrom

\* The types of the tables.
TablesType ==
    /\ required \in SUBSET {"totp", "device"}
    /\ peer \in BOOLEAN
    /\ device \in [Devices -> {"none", "pending", "active", "revoked"}]
    /\ token \in [Tokens -> Token]
    /\ tried \subseteq Requests
    /\ clean \in BOOLEAN

LEMMA TablesNext ==
    ASSUME TypeInv, Next
    PROVE  TablesType'
<1>0. TablesType /\ req \in [Requests -> Request]
  BY DEF TypeInv, TypeOK, TablesType
<1>1. CASE UNCHANGED <<required, peer, device, token, tried, clean>>
  BY <1>0, <1>1 DEF TablesType
<1>2. CASE LockExpires \/ Approve
  BY <1>0, <1>2 DEF LockExpires, Approve, TablesType, ghosts, row
<1>3. CASE Logout
  BY <1>0, <1>3, RevokedType DEF Logout, TablesType, ghosts, row, TypeInv
<1>4. CASE Unlock
  BY <1>0, <1>4, ResetStep DEF Unlock, TablesType
<1>5. ASSUME NEW r \in Requests, Acts(r)
      PROVE  TablesType'
  <2>1. CASE \/ Login(r) \/ CheckPassword(r) \/ VerifyMfa(r) \/ ManageFactor(r) \/ CheckSecondFactor(r)
             \/ RegenerateRecoveryCodes(r) \/ StartEnrollment(r) \/ ConfirmEnrollment(r) \/ CheckCode(r)
             \/ StartRegistration(r) \/ Authenticate(r) \/ CheckDevice(r) \/ ChangePassword(r)
             \/ EditStaff(r) \/ GuardLastSuperAdmin(r) \/ Die(r)
    BY <1>1, <2>1
       DEF Login, CheckPassword, VerifyMfa, ManageFactor, CheckSecondFactor, RegenerateRecoveryCodes,
           StartEnrollment, ConfirmEnrollment, CheckCode, StartRegistration, Authenticate, CheckDevice,
           ChangePassword, EditStaff, GuardLastSuperAdmin, Die, ghosts
  <2>2. CASE ReserveAttempt(r)
    BY <1>0, <2>2, ReserveStep DEF ReserveAttempt, TablesType
  <2>3. CASE FinishLogin(r) \/ ClearAttempts(r)
    BY <1>0, <2>3, ResetStep DEF FinishLogin, ClearAttempts, TablesType
  <2>4. CASE IssueTokens(r)
    <3>1. token' \in [Tokens -> Token]
      BY <2>4, IssueStep DEF TypeInv
    <3> QED
      BY <1>0, <2>4, <3>1 DEF IssueTokens, TablesType, ghosts
  <2>5. CASE ClearTwoFactor(r) \/ WritePendingSecret(r) \/ WriteEnrollment(r) \/ SaveStaff(r) \/ DeleteStaff(r)
    BY <1>0, <2>5
       DEF ClearTwoFactor, WritePendingSecret, WriteEnrollment, SaveStaff, DeleteStaff, TablesType
  <2>6. CASE RevokeTokensOfDevice(r) \/ Rotate(r) \/ RevokeAll(r) \/ Refresh(r)
    <3>1. token' = token \/ \E S : token' = Revoked(S)
      BY <2>6 DEF RevokeTokensOfDevice, Rotate, RevokeAll, Refresh
    <3>2. token' \in [Tokens -> Token]
      BY <1>0, <3>1, RevokedType DEF TypeInv, TablesType
    <3> QED
      BY <1>0, <2>6, <3>2 DEF RevokeTokensOfDevice, Rotate, RevokeAll, Refresh, TablesType, ghosts
  <2>7. CASE Register(r) \/ RevokeDevice(r)
    BY <1>0, <2>7 DEF Register, RevokeDevice, Status, TablesType, ghosts
  <2>8. CASE EditPeer(r) \/ SavePeer(r)
    BY <1>0, <2>8 DEF EditPeer, SavePeer, TablesType, ghosts
  <2>9. CASE ResetStaff(r)
    <3>1. tried' = {} \/ tried' = tried
      BY <2>9, ResetStep DEF ResetStaff
    <3>2. clean' \in BOOLEAN
      BY <1>0, <2>9 DEF ResetStaff, TablesType
    <3> QED
      BY <1>0, <2>9, <3>1, <3>2 DEF ResetStaff, TablesType
  <2>10. CASE RemoveStaff(r)
    <3>1. Unissued \in Token
      BY DEF Unissued, Token
    <3> QED
      BY <1>0, <2>10, <3>1 DEF RemoveStaff, TablesType, ghosts
  <2> QED
    BY <1>5, <2>1, <2>2, <2>3, <2>4, <2>5, <2>6, <2>7, <2>8, <2>9, <2>10 DEF Acts
<1> QED
  BY <1>2, <1>3, <1>4, <1>5, EachStep

\* The types of the staff row and of the codes.
RowType ==
    /\ staff \in StaffRow /\ LockShape(staff)
    /\ factor \in Factor
    /\ drawn \subseteq Secrets \cup RecoveryCodes
    /\ accepted \subseteq Codes
    /\ replayed \in BOOLEAN

LEMMA AcceptType ==
    ASSUME RowType, NEW c \in Codes, Accept(c)
    PROVE  accepted' \subseteq Codes /\ replayed' \in BOOLEAN
  BY DEF Accept, RowType

LEMMA RowNext ==
    ASSUME TypeInv, Next
    PROVE  RowType'
<1>0. RowType /\ NoFactor \in Factor /\ \A r \in Requests : req[r] \in Request /\ Shape(r)
  BY FreshType DEF TypeInv, TypeOK, RowType
<1>1. CASE UNCHANGED <<staff, factor, drawn, accepted, replayed>>
  BY <1>0, <1>1 DEF RowType, LockShape
<1>2. CASE Approve \/ Logout
  BY <1>1, <1>2 DEF Approve, Logout, row, ghosts
<1>3. CASE LockExpires
  <2>1. staff' \in StaffRow /\ LockShape(staff)'
    BY <1>0, <1>3 DEF LockExpires, RowType, StaffRow, LockShape
  <2> QED
    BY <1>0, <1>3, <2>1 DEF LockExpires, RowType, ghosts
<1>4. CASE Unlock
  BY <1>0, <1>4, ResetStep DEF Unlock, RowType
<1>5. ASSUME NEW r \in Requests, Acts(r)
      PROVE  RowType'
  <2>1. CASE \/ Login(r) \/ CheckPassword(r) \/ IssueTokens(r) \/ VerifyMfa(r) \/ ManageFactor(r)
             \/ StartEnrollment(r) \/ ConfirmEnrollment(r) \/ CheckCode(r)
             \/ StartRegistration(r) \/ Register(r) \/ Authenticate(r) \/ RevokeDevice(r)
             \/ RevokeTokensOfDevice(r) \/ Refresh(r) \/ Rotate(r) \/ CheckDevice(r)
             \/ ChangePassword(r) \/ RevokeAll(r) \/ EditStaff(r) \/ GuardLastSuperAdmin(r)
             \/ EditPeer(r) \/ SavePeer(r) \/ RemoveStaff(r) \/ Die(r)
    BY <1>1, <2>1
       DEF Login, CheckPassword, IssueTokens, VerifyMfa, ManageFactor, StartEnrollment,
           ConfirmEnrollment, CheckCode, StartRegistration, Register, Authenticate, RevokeDevice,
           RevokeTokensOfDevice, Refresh, Rotate, CheckDevice, ChangePassword, RevokeAll, EditStaff,
           GuardLastSuperAdmin, EditPeer, SavePeer, RemoveStaff, Die, row, ghosts
  <2>2. CASE ReserveAttempt(r)
    BY <1>0, <2>2, ReserveStep DEF ReserveAttempt, RowType
  <2>3. CASE FinishLogin(r) \/ ClearAttempts(r)
    BY <1>0, <2>3, ResetStep DEF FinishLogin, ClearAttempts, RowType
  <2>4. CASE CheckSecondFactor(r)
    <3>1. CASE UNCHANGED <<factor, accepted, replayed>>
      BY <1>0, <2>4, <3>1 DEF CheckSecondFactor, RowType, LockShape
    <3>2. ASSUME NEW n \in Steps, factor' = [factor EXCEPT !.last = n], Accept(<<req[r].factor.secret, n>>)
          PROVE  RowType'
      <4>1. factor' \in Factor
        BY <3>2, LastStep
      <4>2. <<req[r].factor.secret, n>> \in Codes
        BY <1>0, <2>4 DEF CheckSecondFactor, Shape, Codes
      <4>3. accepted' \subseteq Codes /\ replayed' \in BOOLEAN
        BY <1>0, <3>2, <4>2, AcceptType
      <4> QED
        BY <1>0, <2>4, <4>1, <4>3 DEF CheckSecondFactor, RowType, LockShape
    <3>3. ASSUME NEW c \in factor.codes, factor' = [factor EXCEPT !.codes = factor.codes \ {c}], Accept(c)
          PROVE  RowType'
      <4>1. factor.codes \subseteq RecoveryCodes
        BY <1>0 DEF RowType, Factor
      <4>2. factor' \in Factor
        <5>1. factor.codes \ {c} \in SUBSET RecoveryCodes
          BY <4>1
        <5> QED
          BY <3>3, <5>1, CodesStep
      <4>3. accepted' \subseteq Codes /\ replayed' \in BOOLEAN
        BY <1>0, <3>3, <4>1, AcceptType DEF Codes
      <4> QED
        BY <1>0, <2>4, <4>2, <4>3 DEF CheckSecondFactor, RowType, LockShape
    <3> QED
      BY <2>4, <3>1, <3>2, <3>3 DEF CheckSecondFactor
  <2>5. CASE ClearTwoFactor(r)
    BY <1>0, <2>5 DEF ClearTwoFactor, WriteFactor, RowType, LockShape
  <2>6. CASE RegenerateRecoveryCodes(r) \/ WritePendingSecret(r)
    <3>1. factor' \in Factor /\ drawn' \subseteq Secrets \cup RecoveryCodes
      <4>1. CASE RegenerateRecoveryCodes(r)
        <5>1. /\ New(RecoveryCodes \ drawn) \in RecoveryCodes
              /\ drawn' = drawn \cup {New(RecoveryCodes \ drawn)}
          BY <4>1, DrawStep DEF RegenerateRecoveryCodes
        <5>2. [factor EXCEPT !.codes = {New(RecoveryCodes \ drawn)}] \in Factor
          <6> DEFINE S == {New(RecoveryCodes \ drawn)}
                     new == [factor EXCEPT !.codes = S]
          <6>1. S \in SUBSET RecoveryCodes
            BY <5>1
          <6> HIDE DEF S
          <6>2. new = [factor EXCEPT !.codes = S]
            OBVIOUS
          <6> HIDE DEF new
          <6>3. new \in Factor
            BY <6>1, <6>2, CodesStep
          <6> QED
            BY <6>3 DEF S, new
        <5> QED
          BY <1>0, <4>1, <5>1, <5>2 DEF RegenerateRecoveryCodes, WriteFactor, RowType
      <4>2. CASE WritePendingSecret(r)
        <5>1. /\ New(Secrets \ drawn) \in Secrets
              /\ drawn' = drawn \cup {New(Secrets \ drawn)}
          BY <4>2, DrawStep DEF WritePendingSecret
        <5>2. [factor EXCEPT !.secret = New(Secrets \ drawn), !.last = 0] \in Factor
          <6> DEFINE s == New(Secrets \ drawn)
                     new == [factor EXCEPT !.secret = s, !.last = 0]
          <6>1. s \in Secrets
            BY <5>1
          <6> HIDE DEF s
          <6>2. new = [factor EXCEPT !.secret = s, !.last = 0]
            OBVIOUS
          <6> HIDE DEF new
          <6>3. new \in Factor
            BY <6>1, <6>2, PendingStep
          <6> QED
            BY <6>3 DEF s, new
        <5> QED
          BY <1>0, <4>2, <5>1, <5>2 DEF WritePendingSecret, WriteFactor, RowType
      <4> QED
        BY <2>6, <4>1, <4>2
    <3> QED
      BY <1>0, <2>6, <3>1 DEF RegenerateRecoveryCodes, WritePendingSecret, RowType, LockShape, ghosts
  <2>7. CASE WriteEnrollment(r)
    <3>1. /\ New(RecoveryCodes \ drawn) \in RecoveryCodes
          /\ drawn' = drawn \cup {New(RecoveryCodes \ drawn)}
      BY <2>7, DrawStep DEF WriteEnrollment
    <3>2. req[r].factor.secret \in Secrets /\ req[r].step \in Steps
      BY <1>0, <2>7 DEF WriteEnrollment, At, Shape
    <3>3. [factor EXCEPT !.enabled = TRUE, !.last = req[r].step, !.codes = {New(RecoveryCodes \ drawn)}]
             \in Factor
      <4> DEFINE S == {New(RecoveryCodes \ drawn)}
                 n == req[r].step
                 new == [factor EXCEPT !.enabled = TRUE, !.last = n, !.codes = S]
      <4>1. S \in SUBSET RecoveryCodes /\ n \in Steps
        BY <3>1, <3>2
      <4> HIDE DEF S, n
      <4>2. new = [factor EXCEPT !.enabled = TRUE, !.last = n, !.codes = S]
        OBVIOUS
      <4> HIDE DEF new
      <4>3. new \in Factor
        BY <4>1, <4>2, EnrollStep
      <4> QED
        BY <4>3 DEF S, n, new
    <3>4. accepted' \subseteq Codes /\ replayed' \in BOOLEAN
      BY <1>0, <2>7, <3>2, AcceptType DEF WriteEnrollment, Codes
    <3> QED
      BY <1>0, <2>7, <3>1, <3>3, <3>4 DEF WriteEnrollment, WriteFactor, RowType, LockShape
  <2>8. CASE SaveStaff(r)
    BY <1>0, <2>8 DEF SaveStaff, RowType, Request, Shape, LockShape
  <2>9. CASE ResetStaff(r)
    BY <1>0, <2>9, ResetStep DEF ResetStaff, RowType, LockShape
  <2>10. CASE DeleteStaff(r)
    <3>1. staff' \in StaffRow /\ LockShape(staff)'
      BY <1>0, <2>10 DEF DeleteStaff, RowType, StaffRow, LockShape
    <3> QED
      BY <1>0, <2>10, <3>1 DEF DeleteStaff, RowType
  <2> QED
    BY <1>5, <2>1, <2>2, <2>3, <2>4, <2>5, <2>6, <2>7, <2>8, <2>9, <2>10 DEF Acts
<1> QED
  BY <1>2, <1>3, <1>4, <1>5, EachStep

LEMMA TypeNext ==
    ASSUME TypeInv, [Next]_vars
    PROVE  TypeInv'
<1>1. CASE Next
  BY <1>1, RequestsNext, TablesNext, RowNext DEF TypeInv, TypeOK, TablesType, RowType, RowsType
<1>2. CASE UNCHANGED vars
  BY <1>2 DEF TypeInv, TypeOK, Shape, LockShape, vars, row, ghosts
<1> QED
  BY <1>1, <1>2

LEMMA TypeInvariant == Spec => []TypeInv
  BY TypeInit, TypeNext, PTL DEF Spec

\* Every reachable state is well typed: no count goes over its limit unlocked,
\* and what a request holds fits the place it is at.
THEOREM StaffTypeCorrect == Spec => []TypeOK
  BY TypeInvariant, PTL DEF TypeInv


-----------------------------------------------------------------------------
(***************************************************************************)
(* Devices.                                                                *)
(***************************************************************************)
LEMMA KeptSize ==
    ASSUME NEW S \in SUBSET Devices
    PROVE  /\ IsFiniteSet(S) /\ Cardinality(S) \in Nat
           /\ \A T \in SUBSET S : Cardinality(T) <= Cardinality(S)
           /\ \A d \in Devices : Cardinality(S \cup {d}) <= Cardinality(S) + 1
<1>1. IsFiniteSet(S)
  BY FS_Subset
<1>2. Cardinality(S) \in Nat
  BY <1>1, FS_CardinalityType
<1>3. \A T \in SUBSET S : Cardinality(T) <= Cardinality(S)
  BY <1>1, FS_Subset
<1>4. \A d \in Devices : Cardinality(S \cup {d}) <= Cardinality(S) + 1
  <2> TAKE d \in Devices
  <2>1. Cardinality(S \cup {d}) = IF d \in S THEN Cardinality(S) ELSE Cardinality(S) + 1
    BY <1>1, FS_AddElement
  <2> QED
    BY <1>2, <2>1
<1> QED
  BY <1>1, <1>2, <1>3, <1>4

LEMMA DeviceKept ==
    ASSUME NEW r \in Requests, Acts(r), ~RevokeDevice(r), ~Register(r)
    PROVE  UNCHANGED device
  BY DEF Acts, Login, CheckPassword, ReserveAttempt, FinishLogin, IssueTokens, VerifyMfa, ManageFactor,
         CheckSecondFactor, ClearAttempts, ClearTwoFactor, RegenerateRecoveryCodes, StartEnrollment,
         WritePendingSecret, ConfirmEnrollment, CheckCode, WriteEnrollment, StartRegistration,
         Authenticate, RevokeTokensOfDevice, Refresh, Rotate, CheckDevice, ChangePassword, RevokeAll,
         EditStaff, GuardLastSuperAdmin, SaveStaff, EditPeer, SavePeer, ResetStaff, RemoveStaff,
         DeleteStaff, Die

LEMMA CapNext ==
    ASSUME TypeInv, DeviceCapKept, [Next]_vars
    PROVE  DeviceCapKept'
<1>0. device \in [Devices -> {"none", "pending", "active", "revoked"}] /\ MaxDevices \in Nat
  BY DEF TypeInv, TypeOK
<1>1. Kept(device) \in SUBSET Devices /\ Cardinality(Kept(device)) \in Nat
  BY KeptSize DEF Kept
<1>2. ASSUME NEW x, x \subseteq Kept(device), Kept(device') = x
      PROVE  DeviceCapKept'
  <2>1. Cardinality(x) <= Cardinality(Kept(device)) /\ x \in SUBSET Devices
    BY <1>1, <1>2, KeptSize
  <2>2. Cardinality(x) \in Nat
    BY <2>1, KeptSize
  <2> QED
    BY <1>0, <1>1, <1>2, <2>1, <2>2 DEF DeviceCapKept
<1>3. CASE UNCHANGED device
  BY <1>3 DEF DeviceCapKept, Kept
<1>4. CASE Approve
  <2>1. PICK d \in Devices : device[d] = "pending" /\ device' = [device EXCEPT ![d] = "active"]
    BY <1>4 DEF Approve
  <2>2. Kept(device') \subseteq Kept(device)
    BY <1>0, <2>1 DEF Kept
  <2> QED
    BY <1>2, <2>2
<1>5. ASSUME NEW r \in Requests, RevokeDevice(r)
      PROVE  DeviceCapKept'
  <2>1. PICK d \in Devices : device' = [device EXCEPT ![d] = "revoked"]
    BY <1>5 DEF RevokeDevice
  <2>2. Kept(device') \subseteq Kept(device)
    BY <1>0, <2>1 DEF Kept
  <2> QED
    BY <1>2, <2>2
<1>6. ASSUME NEW r \in Requests, Register(r)
      PROVE  DeviceCapKept'
  <2>1. CASE UNCHANGED device
    BY <1>3, <2>1
  <2>2. CASE /\ Cardinality(Kept(device)) < MaxDevices
             /\ device' = [device EXCEPT ![req[r].device] = Status(req[r].op)]
    <3>1. req[r].device \in Devices
      BY <1>6 DEF Register, TypeInv, Shape
    <3>2. Kept(device') \in SUBSET (Kept(device) \cup {req[r].device})
      BY <1>0, <2>2, <3>1 DEF Kept
    <3>3. Kept(device) \cup {req[r].device} \in SUBSET Devices
      BY <1>1, <3>1
    <3>4. /\ Cardinality(Kept(device')) <= Cardinality(Kept(device) \cup {req[r].device})
          /\ Cardinality(Kept(device) \cup {req[r].device}) \in Nat
      BY <3>2, <3>3, KeptSize
    <3>5. Kept(device') \in SUBSET Devices
      BY <3>2, <3>3
    <3>6. Cardinality(Kept(device')) \in Nat
      BY <3>5, KeptSize
    <3>7. Cardinality(Kept(device) \cup {req[r].device}) <= Cardinality(Kept(device)) + 1
      BY <1>1, <3>1, KeptSize
    <3> QED
      BY <1>0, <1>1, <2>2, <3>4, <3>6, <3>7 DEF DeviceCapKept
  <2> QED
    BY <1>6, <2>1, <2>2 DEF Register
<1>7. \A r \in Requests : Acts(r) /\ ~RevokeDevice(r) /\ ~Register(r) => UNCHANGED device
  BY DeviceKept
<1>8. LockExpires \/ Logout \/ Unlock \/ UNCHANGED vars => UNCHANGED device
  BY DEF LockExpires, Logout, Unlock, vars
<1> QED
  BY <1>3, <1>4, <1>5, <1>6, <1>7, <1>8, EachStep

LEMMA CapInit == Init => DeviceCapKept
  BY InitParts DEF DeviceCapKept

\* Registrations that race, from sign-ins and from sessions, never exceed the
\* limit (DevicesService.register's lock on the staff row).
THEOREM DevicesStayLimited == Spec => []DeviceCapKept
  BY TypeInvariant, CapInit, CapNext, PTL DEF Spec

-----------------------------------------------------------------------------
(***************************************************************************)
(* Sessions: what refreshes, revocations and reuse leave alive.            *)
(***************************************************************************)
\* Only a refresh is of a family that is there, and only the requests that
\* have proven or inherited a device hold one where a session may begin.
Bearers == {"assert", "refresh", "change"}

Bears(r) ==
    /\ req[r].op # "refresh" => req[r].family = None
    /\ req[r].op = "refresh" => req[r].at \in {"rotate", "isActive", "issue"}
    /\ req[r].op \notin Bearers \cup {"register", "add", "revoke"} => req[r].device = None
    /\ req[r].op \in {"register", "add"} => req[r].at = "registering"
    /\ req[r].op = "revoke" => req[r].at = "revokeDevice"
    /\ "device" \notin required /\ req[r].op \in Bearers => req[r].device = None

BearInv ==
    /\ \A r \in Requests : Bears(r)
    /\ "device" \notin required => \A t \in Tokens : token[t].device = None


LEMMA BearInit == Init => BearInv
<1> SUFFICES ASSUME Init PROVE BearInv
  OBVIOUS
<1>1. req = [r \in Requests |-> Waiting]
  BY InitParts
<1> QED
  BY <1>1, WaitingType, InitToken DEF BearInv, Bears, Bearers

LEMMA BearWent ==
    ASSUME TypeInv, BearInv, UNCHANGED required, NEW r \in Requests, NEW place \in Places, Go(r, place),
           req[r].op \notin {"register", "add", "revoke"},
           req[r].op = "refresh" => place \in {"rotate", "isActive", "issue"}
    PROVE  \A q \in Requests : Bears(q)'
<1>1. Went(r, place)
  BY GoStep DEF TypeInv, TypeOK, RowsType
<1>2. Bears(r)'
  BY <1>1 DEF Went, BearInv, Bears, Bearers
<1>3. \A q \in Requests \ {r} : Bears(q)'
  BY <1>1 DEF Went, Others, BearInv, Bears, Bearers
<1> QED
  BY <1>2, <1>3

LEMMA BearOver ==
    ASSUME TypeInv, BearInv, UNCHANGED required, NEW r \in Requests, Over(r)
    PROVE  \A q \in Requests : Bears(q)'
<1>1. Finished(r)
  BY OverStep DEF TypeInv, TypeOK, RowsType
<1>2. Bears(r)'
  BY <1>1 DEF Finished, Bears, Bearers
<1>3. \A q \in Requests \ {r} : Bears(q)'
  BY <1>1 DEF Finished, Others, BearInv, Bears, Bearers
<1> QED
  BY <1>2, <1>3

LEMMA BearStarted ==
    ASSUME TypeInv, BearInv, UNCHANGED required, NEW r \in Requests, NEW op \in Ops, NEW place \in Places,
           NEW d \in Devices \cup {None}, NEW t \in Tokens \cup {None}, Start(r, op, place, d, t),
           op # "refresh" => t = None,
           op = "refresh" => place \in {"rotate", "isActive", "issue"},
           op \notin Bearers \cup {"register", "add", "revoke"} => d = None,
           op \in {"register", "add"} => place = "registering",
           op = "revoke" => place = "revokeDevice",
           "device" \notin required /\ op \in Bearers => d = None
    PROVE  \A q \in Requests : Bears(q)'
<1>1. Started(r, op, place, d, t)
  BY StartStep DEF TypeInv
<1>2. Bears(r)'
  BY <1>1 DEF Started, Bears, Bearers
<1>3. \A q \in Requests \ {r} : Bears(q)'
  BY <1>1 DEF Started, Others, BearInv, Bears, Bearers
<1> QED
  BY <1>2, <1>3

LEMMA RequiredKept ==
    ASSUME Next
    PROVE  UNCHANGED required
<1>1. ASSUME NEW r \in Requests, Acts(r)
      PROVE  UNCHANGED required
  BY <1>1
     DEF Acts, Login, CheckPassword, ReserveAttempt, FinishLogin, IssueTokens, VerifyMfa, ManageFactor,
         CheckSecondFactor, ClearAttempts, ClearTwoFactor, RegenerateRecoveryCodes, StartEnrollment,
         WritePendingSecret, ConfirmEnrollment, CheckCode, WriteEnrollment, StartRegistration, Register,
         Authenticate, RevokeDevice, RevokeTokensOfDevice, Refresh, Rotate, CheckDevice, ChangePassword,
         RevokeAll, EditStaff, GuardLastSuperAdmin, SaveStaff, EditPeer, SavePeer, ResetStaff,
         RemoveStaff, DeleteStaff, Die
<1>2. LockExpires \/ Logout \/ Approve \/ Unlock => UNCHANGED required
  BY DEF LockExpires, Logout, Approve, Unlock
<1> QED
  BY <1>1, <1>2, EachStep

LEMMA BearsNext ==
    ASSUME TypeInv, BearInv, Next
    PROVE  \A q \in Requests : Bears(q)'
<1> DEFINE Good == \A q \in Requests : Bears(q)'
<1> HIDE DEF Good
<1>0. /\ UNCHANGED required /\ None \notin Tokens
      /\ \A r \in Requests : Bears(r)
      /\ \A t \in Tokens : token[t].device \in Devices \cup {None}
      /\ "device" \notin required => \A t \in Tokens : token[t].device = None
  BY RequiredKept DEF TypeInv, TypeOK, Token, BearInv
<1>1. \A r \in Requests : Over(r) => Good
  BY <1>0, BearOver DEF Good
<1>2. \A r \in Requests, place \in Places :
         /\ Go(r, place)
         /\ req[r].op \notin {"register", "add", "revoke"}
         /\ req[r].op = "refresh" => place \in {"rotate", "isActive", "issue"}
         => Good
  BY <1>0, BearWent DEF Good
<1>3. \A r \in Requests, op \in Ops, place \in Places, d \in Devices \cup {None}, t \in Tokens \cup {None} :
         /\ Start(r, op, place, d, t)
         /\ op # "refresh" => t = None
         /\ op = "refresh" => place \in {"rotate", "isActive", "issue"}
         /\ op \notin Bearers \cup {"register", "add", "revoke"} => d = None
         /\ op \in {"register", "add"} => place = "registering"
         /\ op = "revoke" => place = "revokeDevice"
         /\ "device" \notin required /\ op \in Bearers => d = None
         => Good
  BY <1>0, BearStarted DEF Good
<1>4. CASE UNCHANGED req
  BY <1>0, <1>4 DEF Good, Bears
<1>5. CASE LockExpires \/ Logout \/ Approve \/ Unlock
  BY <1>4, <1>5 DEF LockExpires, Logout, Approve, Unlock
<1>6. ASSUME NEW r \in Requests,
             \/ Login(r) \/ VerifyMfa(r) \/ ManageFactor(r) \/ StartEnrollment(r) \/ ConfirmEnrollment(r)
             \/ StartRegistration(r) \/ Authenticate(r) \/ RevokeDevice(r)
             \/ EditStaff(r) \/ ResetStaff(r) \/ RemoveStaff(r)
      PROVE  Good
  <2>1. /\ {"login", "verify", "disable", "regenerate", "start", "confirm", "register", "add",
            "assert", "revoke", "edit", "reset", "remove"} \subseteq Ops
        /\ {"reserve", "writing", "registering", "finish", "revokeDevice", "revokeAll", "guarding"}
              \subseteq Places
    BY DEF Ops, Places
  <2>2. CASE Login(r) \/ VerifyMfa(r) \/ ManageFactor(r)
    BY <1>3, <2>1, <2>2 DEF Login, VerifyMfa, ManageFactor, Bearers
  <2>3. CASE StartEnrollment(r) \/ ConfirmEnrollment(r)
    BY <1>3, <2>1, <2>3 DEF StartEnrollment, ConfirmEnrollment, Bearers
  <2>4. CASE StartRegistration(r) \/ Authenticate(r) \/ RevokeDevice(r)
    BY <1>3, <2>1, <2>4 DEF StartRegistration, Authenticate, RevokeDevice, Bearers
  <2>5. CASE EditStaff(r) \/ ResetStaff(r) \/ RemoveStaff(r)
    BY <1>3, <2>1, <2>5 DEF EditStaff, ResetStaff, RemoveStaff, Bearers
  <2> QED
    BY <1>6, <2>2, <2>3, <2>4, <2>5
<1>7. ASSUME NEW r \in Requests, Refresh(r) \/ EditPeer(r) \/ ChangePassword(r)
      PROVE  Good
  <2>1. {"refresh", "demotePeer", "change"} \subseteq Ops /\ {"rotate", "writing", "revokeAll"} \subseteq Places
    BY DEF Ops, Places
  <2>2. CASE EditPeer(r)
    BY <1>1, <1>3, <2>1, <2>2 DEF EditPeer, Bearers
  <2>3. CASE Refresh(r)
    <3>1. PICK t \in Tokens : Start(r, "refresh", "rotate", token[t].device, t) \/ Over(r)
      BY <2>3 DEF Refresh
    <3> QED
      BY <1>0, <1>1, <1>3, <2>1, <3>1 DEF Bearers
  <2>4. CASE ChangePassword(r)
    <3>1. PICK d \in Devices \cup {None} : Validated(d) /\ Start(r, "change", "revokeAll", d, None)
      BY <2>4 DEF ChangePassword
    <3>2. "device" \notin required => d = None
      BY <1>0, <3>1 DEF Validated
    <3> QED
      BY <1>3, <2>1, <3>1, <3>2 DEF Bearers
  <2> QED
    BY <1>7, <2>2, <2>3, <2>4
<1>8. ASSUME NEW r \in Requests,
             \/ CheckPassword(r) \/ ReserveAttempt(r) \/ FinishLogin(r) \/ IssueTokens(r)
             \/ CheckSecondFactor(r) \/ ClearAttempts(r)
             \/ ClearTwoFactor(r) \/ RegenerateRecoveryCodes(r)
             \/ WritePendingSecret(r) \/ WriteEnrollment(r)
             \/ Register(r) \/ RevokeTokensOfDevice(r) \/ Rotate(r) \/ CheckDevice(r)
             \/ RevokeAll(r) \/ SaveStaff(r) \/ SavePeer(r) \/ DeleteStaff(r) \/ Die(r)
      PROVE  Good
  <2>1. {"check", "clearing", "writing", "finish", "issue", "isActive", "revokeAll"} \subseteq Places
    BY DEF Places
  <2>2. CASE CheckPassword(r) \/ ReserveAttempt(r) \/ FinishLogin(r) \/ IssueTokens(r)
    <3>1. \/ Over(r)
          \/ /\ req[r].at \in {"reserve", "check", "finish"}
             /\ Go(r, "check") \/ Go(r, "finish") \/ Go(r, "issue")
      BY <2>2 DEF CheckPassword, CompleteLogin, ReserveAttempt, FinishLogin, IssueTokens, At
    <3> QED
      BY <1>0, <1>1, <1>2, <2>1, <3>1 DEF Bears
  <2>3. CASE CheckSecondFactor(r)
    <3>1. Over(r) \/ (\E app \in BOOLEAN : Proceed(r, app))
      BY <2>3 DEF CheckSecondFactor
    <3>2. req[r].op \in WithFactor
      BY <2>3 DEF CheckSecondFactor
    <3> QED
      BY <1>1, <1>2, <2>1, <3>1, <3>2 DEF Proceed, CompleteLogin, WithFactor
  <2>4. CASE ClearAttempts(r)
    BY <1>0, <1>2, <2>1, <2>4 DEF ClearAttempts, Bears
  <2>5. CASE ClearTwoFactor(r) \/ RegenerateRecoveryCodes(r) \/ WritePendingSecret(r) \/ WriteEnrollment(r)
    BY <1>1, <1>2, <2>1, <2>5
       DEF ClearTwoFactor, RegenerateRecoveryCodes, WritePendingSecret, WriteEnrollment, CompleteLogin, At
  <2>6. CASE Register(r) \/ RevokeTokensOfDevice(r) \/ Rotate(r) \/ CheckDevice(r) \/ RevokeAll(r)
    <3>1. \/ Over(r)
          \/ req[r].op = "refresh" /\ (Go(r, "isActive") \/ Go(r, "issue"))
          \/ req[r].op = "change" /\ Go(r, "issue")
      BY <2>6 DEF Register, RevokeTokensOfDevice, Rotate, CheckDevice, RevokeAll, At
    <3> QED
      BY <1>1, <1>2, <2>1, <3>1
  <2>7. CASE SaveStaff(r) \/ SavePeer(r) \/ DeleteStaff(r) \/ Die(r)
    BY <1>1, <1>2, <2>1, <2>7 DEF SaveStaff, SavePeer, DeleteStaff, Die, At
  <2> QED
    BY <1>8, <2>2, <2>3, <2>4, <2>5, <2>6, <2>7
<1>9. ASSUME NEW r \in Requests, CheckCode(r)
      PROVE  Good
  <2>1. CASE Over(r)
    BY <1>1, <2>1
  <2>2. ASSUME NEW n \in Steps, req' = [req EXCEPT ![r].at = "clearing", ![r].step = n]
        PROVE  Good
    <3>1. /\ Others(r) /\ req'[r].op = req[r].op /\ req[r].op = "confirm"
          /\ req'[r].device = req[r].device /\ req'[r].family = req[r].family
      BY <1>9, <2>2, CheckCodeStep DEF CheckCode, At
    <3> QED
      BY <1>0, <3>1 DEF Good, Others, Bears, Bearers
  <2> QED
    BY <1>9, <2>1, <2>2 DEF CheckCode
<1>10. ASSUME NEW r \in Requests, GuardLastSuperAdmin(r)
       PROVE  Good
  <2>1. CASE Over(r)
    BY <1>1, <2>1
  <2>2. ASSUME NEW super \in BOOLEAN, NEW status \in {"active", "disabled"},
               req' = [req EXCEPT ![r].at = "writing", ![r].staff.super = super, ![r].staff.status = status]
        PROVE  Good
    <3>1. /\ Others(r) /\ req'[r].op = req[r].op
          /\ req'[r].device = req[r].device /\ req'[r].family = req[r].family
      BY <2>2, GuardStep
    <3>2. req[r].op = "edit"
      BY <1>10 DEF GuardLastSuperAdmin, At
    <3> QED
      BY <1>0, <3>1, <3>2 DEF Good, Others, Bears, Bearers
  <2> QED
    BY <1>10, <2>1, <2>2 DEF GuardLastSuperAdmin
<1>11. ASSUME NEW r \in Requests, Acts(r)
       PROVE  Good
  BY <1>6, <1>7, <1>8, <1>9, <1>10, <1>11 DEF Acts
<1>12. \A r \in Requests : Acts(r) => Good
  BY <1>11
<1> QED
  BY <1>5, <1>12, EachStep DEF Good

\* Token t is what a step may make of it: revoked, gone, or as it was; or it is
\* the one that request r has been issued.
Revised(t) ==
    \/ token'[t] = Unissued
    \/ /\ token'[t].family = token[t].family /\ token'[t].device = token[t].device
       /\ token'[t].live => token[t].live

Issued(r, t) ==
    /\ req[r].at = "issue" /\ token[t] = Unissued /\ NewName(t)
    /\ token'[t].device = req[r].device
    /\ token'[t].family = IF req[r].family = None THEN t ELSE req[r].family

LEMMA TokensNext ==
    ASSUME TypeInv, [Next]_vars
    PROVE  \/ \A t \in Tokens : Revised(t)
           \/ \E r \in Requests, t \in Tokens :
                 IssueTokens(r) /\ Issued(r, t) /\ \A u \in Tokens \ {t} : token'[u] = token[u]
<1>0. token \in [Tokens -> Token]
  BY DEF TypeInv, TypeOK
<1>1. ASSUME UNCHANGED token
      PROVE  \A t \in Tokens : Revised(t)
  BY <1>1 DEF Revised
<1>2. ASSUME NEW S, token' = Revoked(S)
      PROVE  \A t \in Tokens : Revised(t)
  <2> TAKE t \in Tokens
  <2>1. /\ Revoked(S)[t].family = token[t].family
        /\ Revoked(S)[t].device = token[t].device
        /\ Revoked(S)[t].live => token[t].live
    <3>1. TypeOK
      BY DEF TypeInv
    <3>2. \A u \in Tokens : /\ Revoked(S)[u].family = token[u].family
                            /\ Revoked(S)[u].device = token[u].device
                            /\ Revoked(S)[u].live = (token[u].live /\ u \notin S)
      BY <3>1, RevokedType
    <3> QED
      BY <3>2
  <2> QED
    BY <1>2, <2>1 DEF Revised
<1>3. CASE Logout
  BY <1>2, <1>3 DEF Logout
<1>4. ASSUME NEW r \in Requests, Acts(r), UNCHANGED token \/ ~IssueTokens(r)
      PROVE  \A t \in Tokens : Revised(t)
  <2>1. CASE RevokeTokensOfDevice(r) \/ Rotate(r) \/ RevokeAll(r) \/ Refresh(r)
    <3>1. token' = token \/ \E S : token' = Revoked(S)
      BY <2>1 DEF RevokeTokensOfDevice, Rotate, RevokeAll, Refresh
    <3> QED
      BY <1>1, <1>2, <3>1
  <2>2. CASE RemoveStaff(r)
    BY <2>2 DEF RemoveStaff, Revised
  <2>3. CASE /\ ~RevokeTokensOfDevice(r) /\ ~Rotate(r) /\ ~RevokeAll(r) /\ ~Refresh(r)
             /\ ~RemoveStaff(r)
    <3>1. UNCHANGED token
      BY <1>4, <2>3
         DEF Acts, Login, CheckPassword, ReserveAttempt, FinishLogin, VerifyMfa, ManageFactor,
             CheckSecondFactor, ClearAttempts, ClearTwoFactor, RegenerateRecoveryCodes, StartEnrollment,
             WritePendingSecret, ConfirmEnrollment, CheckCode, WriteEnrollment, StartRegistration, Register,
             Authenticate, RevokeDevice, CheckDevice, ChangePassword, EditStaff, GuardLastSuperAdmin,
             SaveStaff, EditPeer, SavePeer, ResetStaff, DeleteStaff, Die
    <3> QED
      BY <1>1, <3>1
  <2> QED
    BY <2>1, <2>2, <2>3
<1>5. ASSUME NEW r \in Requests, IssueTokens(r)
      PROVE  \E t \in Tokens : Issued(r, t) /\ \A u \in Tokens \ {t} : token'[u] = token[u]
  BY <1>5, IssueStep DEF Issued, TypeInv
<1>6. LockExpires \/ Approve \/ Unlock \/ UNCHANGED vars => UNCHANGED token
  BY DEF LockExpires, Approve, Unlock, vars
<1> QED
  BY <1>1, <1>3, <1>4, <1>5, <1>6, EachStep

LEMMA BearNext ==
    ASSUME TypeInv, BearInv, [Next]_vars
    PROVE  BearInv'
<1>1. CASE UNCHANGED vars
  BY <1>1 DEF BearInv, Bears, vars
<1>2. CASE Next
  <2>1. UNCHANGED required
    BY <1>2, RequiredKept
  <2>2. ASSUME "device" \notin required, NEW t \in Tokens
        PROVE  token'[t].device = None
    <3>0. token[t].device = None /\ Unissued.device = None
      BY <2>2 DEF BearInv, Unissued
    <3>1. CASE \A u \in Tokens : Revised(u)
      BY <3>0, <3>1 DEF Revised
    <3>2. CASE \E r \in Requests, u \in Tokens :
                  IssueTokens(r) /\ Issued(r, u) /\ \A x \in Tokens \ {u} : token'[x] = token[x]
      BY <2>2, <3>0, <3>2 DEF Issued, BearInv, Bears
    <3> QED
      BY <1>2, <3>1, <3>2, TokensNext
  <2> QED
    BY <1>2, <2>1, <2>2, BearsNext DEF BearInv
<1> QED
  BY <1>1, <1>2

LEMMA BearInvariant == Spec => []BearInv
  BY TypeInvariant, BearInit, BearNext, PTL DEF Spec


\* What request r may bear next: what it bore while in flight, or what it has
\* just proven or presented; the other requests are left alone.
Carries(r) ==
    /\ \A q \in Requests \ {r} : req'[q] = req[q]
    /\ \/ req'[r].op \notin Bearers
       \/ /\ InFlight(r)
          /\ req'[r].op = req[r].op /\ req'[r].device = req[r].device /\ req'[r].family = req[r].family
       \/ /\ req'[r].op = "refresh"
          /\ \E t \in Tokens : /\ token[t].live /\ req'[r].device = token[t].device
                              /\ req'[r].family = token[t].family
       \/ /\ req'[r].op \in {"assert", "change"}
          /\ req'[r].device = None \/ device[req'[r].device] = "active"

LEMMA CarriesGo ==
    ASSUME TypeInv, NEW r \in Requests, NEW place \in Places, Go(r, place), InFlight(r)
    PROVE  Carries(r)
<1>1. Went(r, place)
  BY GoStep DEF TypeInv, TypeOK, RowsType
<1> QED
  BY <1>1 DEF Went, Others, Carries

LEMMA CarriesOver ==
    ASSUME TypeInv, NEW r \in Requests, Over(r)
    PROVE  Carries(r)
<1>1. Finished(r)
  BY OverStep DEF TypeInv, TypeOK, RowsType
<1> QED
  BY <1>1 DEF Finished, Others, Carries, Bearers

LEMMA CarriesStart ==
    ASSUME TypeInv, NEW r \in Requests, NEW op \in Ops, NEW place \in Places,
           NEW d \in Devices \cup {None}, NEW t \in Tokens \cup {None}, Start(r, op, place, d, t),
           \/ op \notin Bearers
           \/ op \in {"assert", "change"} /\ (d = None \/ device[d] = "active")
           \/ op = "refresh" /\ t \in Tokens /\ token[t].live /\ d = token[t].device
    PROVE  Carries(r)
<1>1. Started(r, op, place, d, t) /\ None \notin Tokens
  BY StartStep DEF TypeInv
<1> QED
  BY <1>1 DEF Started, Others, Carries

LEMMA BearerNext ==
    ASSUME TypeInv, BearInv, NEW r \in Requests, Acts(r)
    PROVE  Carries(r)
<1>1. Over(r) => Carries(r)
  BY CarriesOver
<1>2. \A place \in Places : Go(r, place) /\ InFlight(r) => Carries(r)
  BY CarriesGo
<1>3. \A op \in Ops \ Bearers, place \in Places, d \in Devices \cup {None} :
         Start(r, op, place, d, None) => Carries(r)
  BY CarriesStart
<1>4. CASE \/ Login(r) \/ VerifyMfa(r) \/ ManageFactor(r) \/ StartEnrollment(r) \/ ConfirmEnrollment(r)
           \/ StartRegistration(r) \/ RevokeDevice(r)
           \/ EditStaff(r) \/ ResetStaff(r) \/ RemoveStaff(r) \/ EditPeer(r)
  <2>1. /\ {"login", "verify", "disable", "regenerate", "start", "confirm", "register", "add",
            "revoke", "edit", "reset", "remove", "demotePeer"} \subseteq Ops \ Bearers
        /\ {"reserve", "writing", "registering", "revokeDevice", "revokeAll", "guarding"} \subseteq Places
    BY DEF Ops, Places, Bearers
  <2>2. CASE Login(r) \/ VerifyMfa(r) \/ ManageFactor(r) \/ StartEnrollment(r) \/ ConfirmEnrollment(r)
    BY <1>3, <2>1, <2>2 DEF Login, VerifyMfa, ManageFactor, StartEnrollment, ConfirmEnrollment
  <2>3. CASE StartRegistration(r) \/ RevokeDevice(r)
    BY <1>3, <2>1, <2>3 DEF StartRegistration, RevokeDevice
  <2>4. CASE EditStaff(r) \/ ResetStaff(r) \/ RemoveStaff(r) \/ EditPeer(r)
    BY <1>1, <1>3, <2>1, <2>4 DEF EditStaff, ResetStaff, RemoveStaff, EditPeer
  <2> QED
    BY <1>4, <2>2, <2>3, <2>4
<1>5. CASE Refresh(r)
  <2>1. PICK t \in Tokens : \/ token[t].live /\ Start(r, "refresh", "rotate", token[t].device, t)
                            \/ Over(r)
    BY <1>5 DEF Refresh
  <2>2. token[t].device \in Devices \cup {None} /\ "refresh" \in Ops /\ "rotate" \in Places
    BY DEF TypeInv, TypeOK, Token, Ops, Places
  <2> QED
    BY <1>1, <2>1, <2>2, CarriesStart
<1>6. CASE \/ CheckPassword(r) \/ ReserveAttempt(r) \/ FinishLogin(r) \/ IssueTokens(r)
           \/ CheckSecondFactor(r) \/ ClearAttempts(r)
           \/ ClearTwoFactor(r) \/ RegenerateRecoveryCodes(r)
           \/ WritePendingSecret(r) \/ WriteEnrollment(r)
           \/ Register(r) \/ RevokeTokensOfDevice(r) \/ Rotate(r) \/ CheckDevice(r)
           \/ RevokeAll(r) \/ SaveStaff(r) \/ SavePeer(r) \/ DeleteStaff(r) \/ Die(r)
  <2>1. {"check", "clearing", "writing", "finish", "issue", "isActive", "revokeAll"} \subseteq Places
    BY DEF Places
  <2>2. CASE CheckPassword(r) \/ ReserveAttempt(r) \/ FinishLogin(r) \/ IssueTokens(r) \/ ClearAttempts(r)
    BY <1>1, <1>2, <2>1, <2>2
       DEF CheckPassword, CompleteLogin, ReserveAttempt, FinishLogin, IssueTokens, ClearAttempts, At, InFlight
  <2>3. CASE CheckSecondFactor(r)
    <3>1. InFlight(r) /\ (Over(r) \/ (\E app \in BOOLEAN : Proceed(r, app)))
      BY <2>3 DEF CheckSecondFactor, InFlight
    <3> QED
      BY <1>1, <1>2, <2>1, <3>1 DEF Proceed, CompleteLogin
  <2>4. CASE ClearTwoFactor(r) \/ RegenerateRecoveryCodes(r) \/ WritePendingSecret(r) \/ WriteEnrollment(r)
    BY <1>1, <1>2, <2>1, <2>4
       DEF ClearTwoFactor, RegenerateRecoveryCodes, WritePendingSecret, WriteEnrollment, CompleteLogin,
           At, InFlight
  <2>5. CASE Register(r) \/ RevokeTokensOfDevice(r) \/ Rotate(r) \/ CheckDevice(r) \/ RevokeAll(r)
    BY <1>1, <1>2, <2>1, <2>5
       DEF Register, RevokeTokensOfDevice, Rotate, CheckDevice, RevokeAll, At, InFlight
  <2>6. CASE SaveStaff(r) \/ SavePeer(r) \/ DeleteStaff(r) \/ Die(r)
    BY <1>1, <1>2, <2>1, <2>6 DEF SaveStaff, SavePeer, DeleteStaff, Die, At, InFlight
  <2> QED
    BY <1>6, <2>2, <2>3, <2>4, <2>5, <2>6
<1>7. CASE CheckCode(r)
  <2>1. ASSUME NEW n \in Steps, req' = [req EXCEPT ![r].at = "clearing", ![r].step = n]
        PROVE  Carries(r)
    <3>1. /\ Others(r) /\ req'[r].op = req[r].op /\ req[r].op = "confirm"
      BY <1>7, <2>1, CheckCodeStep DEF CheckCode, At
    <3> QED
      BY <3>1 DEF Others, Carries, Bearers
  <2> QED
    BY <1>1, <1>7, <2>1 DEF CheckCode
<1>8. CASE GuardLastSuperAdmin(r)
  <2>1. ASSUME NEW super \in BOOLEAN, NEW status \in {"active", "disabled"},
               req' = [req EXCEPT ![r].at = "writing", ![r].staff.super = super, ![r].staff.status = status]
        PROVE  Carries(r)
    <3>1. Others(r) /\ req'[r].op = req[r].op
      BY <2>1, GuardStep
    <3>2. req[r].op = "edit"
      BY <1>8 DEF GuardLastSuperAdmin, At
    <3> QED
      BY <3>1, <3>2 DEF Others, Carries, Bearers
  <2> QED
    BY <1>1, <1>8, <2>1 DEF GuardLastSuperAdmin
<1>9. CASE Authenticate(r)
  <2>1. PICK d \in Devices : device[d] = "active" /\ Start(r, "assert", "finish", d, None)
    BY <1>9 DEF Authenticate
  <2> QED
    BY <2>1, CarriesStart DEF Ops, Places
<1>10. CASE ChangePassword(r)
  <2>1. PICK d \in Devices \cup {None} : Validated(d) /\ Start(r, "change", "revokeAll", d, None)
    BY <1>10 DEF ChangePassword
  <2>2. d = None \/ device[d] = "active"
    BY <2>1 DEF Validated, BearInv
  <2> QED
    BY <2>1, <2>2, CarriesStart DEF Ops, Places
<1> QED
  BY <1>4, <1>5, <1>6, <1>7, <1>8, <1>9, <1>10 DEF Acts

LEMMA OutKept ==
    ASSUME TypeInv, BearInv, [Next]_vars, NEW d \in Devices, Out(d)
    PROVE  Out(d)'
<1>0. /\ device[d] = "revoked" /\ \A t \in Tokens : token[t].device = d => ~token[t].live
      /\ \A r \in Requests : req[r].op \in Bearers /\ req[r].device = d => ~InFlight(r)
      /\ device \in [Devices -> {"none", "pending", "active", "revoked"}] /\ d # None
      /\ \A r \in Requests : Bears(r)
  BY DEF Out, Bearers, TypeInv, TypeOK, BearInv
<1>1. device'[d] = "revoked"
  <2>1. \A r \in Requests : Acts(r) => device'[d] = "revoked"
    <3> SUFFICES ASSUME NEW r \in Requests, Acts(r) PROVE device'[d] = "revoked"
      OBVIOUS
    <3>1. CASE RevokeDevice(r)
      BY <1>0, <3>1 DEF RevokeDevice
    <3>2. CASE Register(r)
      BY <1>0, <3>2 DEF Register
    <3>3. CASE ~RevokeDevice(r) /\ ~Register(r)
      BY <1>0, <3>3, DeviceKept
    <3> QED
      BY <3>1, <3>2, <3>3
  <2>2. Approve => device'[d] = "revoked"
    BY <1>0 DEF Approve
  <2>3. LockExpires \/ Logout \/ Unlock \/ UNCHANGED vars => device'[d] = "revoked"
    BY <1>0 DEF LockExpires, Logout, Unlock, vars
  <2> QED
    BY <2>1, <2>2, <2>3, EachStep
<1>2. ASSUME NEW t \in Tokens, token'[t].device = d
      PROVE  ~token'[t].live
  <2>1. CASE \A u \in Tokens : Revised(u)
    BY <1>0, <1>2, <2>1 DEF Revised, Unissued
  <2>2. ASSUME NEW r \in Requests, NEW u \in Tokens, Issued(r, u),
               \A x \in Tokens \ {u} : token'[x] = token[x]
        PROVE  ~token'[t].live
    <3>1. req[r].at = "issue" /\ InFlight(r)
      BY <2>2 DEF Issued, InFlight
    <3>2. req[r].device # d
      BY <1>0, <3>1 DEF Bears, Bearers
    <3> QED
      BY <1>0, <1>2, <2>2, <3>2 DEF Issued
  <2> QED
    BY <2>1, <2>2, TokensNext
<1>3. ASSUME NEW q \in Requests
      PROVE  req'[q].op \in Bearers /\ req'[q].device = d => ~InFlight(q)'
  <2>1. CASE UNCHANGED req
    BY <1>0, <2>1 DEF InFlight
  <2>2. ASSUME NEW r \in Requests, Acts(r)
        PROVE  req'[q].op \in Bearers /\ req'[q].device = d => ~InFlight(q)'
    <3>1. Carries(r)
      BY <2>2, BearerNext
    <3>2. CASE q # r
      BY <1>0, <3>1, <3>2 DEF Carries, InFlight
    <3>3. CASE q = r
      BY <1>0, <3>1, <3>3 DEF Carries, Bearers
    <3> QED
      BY <3>2, <3>3
  <2>3. LockExpires \/ Logout \/ Approve \/ Unlock \/ UNCHANGED vars => UNCHANGED req
    BY DEF LockExpires, Logout, Approve, Unlock, vars
  <2> QED
    BY <2>1, <2>2, <2>3, EachStep
<1> QED
  BY <1>1, <1>2, <1>3 DEF Out, Bearers

\* A revoked device that nothing living or under way bears is out for good:
\* neither an approval nor a rotation that raced it brings it back
\* (DevicesService.revoke, revokeAllForDevice).
THEOREM RevokedDevicesStayOut == Spec => RevokedStaysOut
<1>1. TypeInv /\ BearInv /\ [Next]_vars => [\A d \in Devices : Out(d) => Out(d)']_vars
  BY OutKept
<1> QED
  BY <1>1, TypeInvariant, BearInvariant, PTL DEF Spec, RevokedStaysOut

LEMMA EndedKept ==
    ASSUME TypeInv, BearInv, [Next]_vars, NEW f \in Tokens, Ended(f)
    PROVE  token'[f] = Unissued \/ Ended(f)'
<1>0. /\ token[f].family = f /\ \A t \in Tokens : token[t].family = f => ~token[t].live
      /\ \A r \in Requests : req[r].op = "refresh" /\ InFlight(r) => req[r].family # f
      /\ f # None /\ \A r \in Requests : Bears(r)
  BY DEF Ended, At, TypeInv, BearInv, Bears
<1>1. token'[f] = Unissued \/ (token'[f].family = f /\ \A t \in Tokens : token'[t].family = f => ~token'[t].live)
  <2>1. CASE \A u \in Tokens : Revised(u)
    <3>1. token'[f] = Unissued \/ token'[f].family = f
      BY <1>0, <2>1 DEF Revised
    <3>2. ASSUME NEW t \in Tokens, token'[t].family = f
          PROVE  ~token'[t].live
      <4>1. token'[t] # Unissued
        BY <1>0, <3>2 DEF Unissued
      <4> QED
        BY <1>0, <2>1, <3>2, <4>1 DEF Revised
    <3> QED
      BY <3>1, <3>2
  <2>2. ASSUME NEW r \in Requests, NEW u \in Tokens, Issued(r, u),
               \A x \in Tokens \ {u} : token'[x] = token[x]
        PROVE  token'[f].family = f /\ \A t \in Tokens : token'[t].family = f => ~token'[t].live
    <3>1. u # f
      BY <1>0, <2>2 DEF Issued, Unissued
    <3>2. req[r].family # f
      BY <1>0, <2>2 DEF Issued, InFlight, Bears
    <3>3. token'[u].family # f
      BY <1>0, <2>2, <3>1, <3>2 DEF Issued
    <3> QED
      BY <1>0, <2>2, <3>1, <3>3
  <2> QED
    BY <2>1, <2>2, TokensNext
<1>2. ASSUME NEW q \in Requests
      PROVE  req'[q].op = "refresh" /\ req'[q].at \in {"rotate", "isActive", "issue"} => req'[q].family # f
  <2>1. CASE UNCHANGED req
    BY <1>0, <2>1 DEF InFlight
  <2>2. ASSUME NEW r \in Requests, Acts(r)
        PROVE  req'[q].op = "refresh" /\ req'[q].at \in {"rotate", "isActive", "issue"} => req'[q].family # f
    <3>1. Carries(r)
      BY <2>2, BearerNext
    <3>2. CASE q # r
      BY <1>0, <3>1, <3>2 DEF Carries, InFlight
    <3>3. CASE q = r
      BY <1>0, <3>1, <3>3 DEF Carries, Bearers
    <3> QED
      BY <3>2, <3>3
  <2>3. LockExpires \/ Logout \/ Approve \/ Unlock \/ UNCHANGED vars => UNCHANGED req
    BY DEF LockExpires, Logout, Approve, Unlock, vars
  <2> QED
    BY <2>1, <2>2, <2>3, EachStep
<1>3. /\ token'[f].family = f
      /\ \A t \in Tokens : token'[t].family = f => ~token'[t].live
      => Ended(f)'
  BY <1>2 DEF Ended, At
<1> QED
  BY <1>1, <1>3

\* A family of tokens that is ended stays ended, whatever rotation, reuse or
\* revocation races (SessionService.refresh, revokeFamily).
THEOREM EndedFamiliesStayEnded == Spec => EndedStaysEnded
<1>1. TypeInv /\ BearInv /\ [Next]_vars
         => [\A f \in Tokens : Ended(f) => token'[f] = Unissued \/ Ended(f)']_vars
  BY EndedKept
<1> QED
  BY <1>1, TypeInvariant, BearInvariant, PTL DEF Spec, EndedStaysEnded


-----------------------------------------------------------------------------
(***************************************************************************)
(* The attempt counter.                                                    *)
(***************************************************************************)
\* The count of the row is never behind the attempts that were allowed.
GuessInv == IsFiniteSet(tried) /\ (clean => Cardinality(tried) <= staff.failures)

LEMMA GuessInit == Init => GuessInv
<1> SUFFICES ASSUME Init PROVE GuessInv
  OBVIOUS
<1>1. tried = {} /\ staff.failures \in Nat
  BY InitParts, TypeInit DEF TypeInv, TypeOK, StaffRow
<1> QED
  BY <1>1, FS_EmptySet DEF GuessInv

LEMMA GuessNext ==
    ASSUME TypeInv, GuessInv, [Next]_vars
    PROVE  GuessInv'
<1>0. staff \in StaffRow /\ staff' \in StaffRow
  BY TypeNext DEF TypeInv, TypeOK
<1>1. ASSUME UNCHANGED tried, staff'.failures = staff.failures, clean' => clean
      PROVE  GuessInv'
  BY <1>1 DEF GuessInv
<1>2. ASSUME tried' = {}
      PROVE  GuessInv'
  BY <1>0, <1>2, FS_EmptySet DEF GuessInv, StaffRow
<1>3. ASSUME NEW r \in Requests, ReserveAttempt(r)
      PROVE  GuessInv'
  <2>1. clean' = clean
    BY <1>3 DEF ReserveAttempt
  <2>2. CASE UNCHANGED <<staff, tried>>
    BY <1>1, <2>1, <2>2
  <2>3. CASE /\ staff'.failures = (IF staff.lock = "past" THEN 1 ELSE staff.failures + 1)
             /\ tried' = (IF staff.lock = "past" THEN {} ELSE tried) \cup {r}
    <3> DEFINE before == IF staff.lock = "past" THEN {} ELSE tried
    <3>1. IsFiniteSet(before) /\ Cardinality(before) \in Nat
      BY FS_EmptySet, FS_CardinalityType DEF GuessInv
    <3>2. clean => Cardinality(before) + 1 <= staff'.failures
      BY <1>0, <2>3, <3>1, FS_EmptySet DEF GuessInv, StaffRow
    <3> HIDE DEF before
    <3>3. /\ IsFiniteSet(before \cup {r})
          /\ Cardinality(before \cup {r}) = IF r \in before THEN Cardinality(before) ELSE Cardinality(before) + 1
      BY <3>1, FS_AddElement
    <3>4. tried' = before \cup {r} /\ staff'.failures \in Nat
      BY <1>0, <2>3 DEF before, StaffRow
    <3> QED
      BY <2>1, <3>1, <3>2, <3>3, <3>4 DEF GuessInv
  <2> QED
    BY <1>3, <2>2, <2>3, ReserveStep
<1>4. ASSUME NEW r \in Requests, Acts(r), ~ReserveAttempt(r)
      PROVE  GuessInv'
  <2>1. CASE FinishLogin(r) \/ ClearAttempts(r)
    BY <1>2, <2>1, ResetStep DEF FinishLogin, ClearAttempts
  <2>2. CASE SaveStaff(r)
    <3>1. clean' => staff.failures = staff'.failures
      BY <2>2 DEF SaveStaff
    <3>2. tried' = tried /\ (clean' => clean)
      BY <2>2 DEF SaveStaff
    <3> QED
      BY <3>1, <3>2 DEF GuessInv
  <2>3. CASE ResetStaff(r)
    <3>1. tried' = {} \/ UNCHANGED <<staff, tried>>
      BY <2>3, ResetStep DEF ResetStaff
    <3>2. clean' => clean
      BY <2>3 DEF ResetStaff
    <3> QED
      BY <1>1, <1>2, <3>1, <3>2
  <2>4. CASE DeleteStaff(r)
    <3>1. staff'.failures = staff.failures
      BY <1>0, <2>4 DEF DeleteStaff, StaffRow
    <3> QED
      BY <1>1, <2>4, <3>1 DEF DeleteStaff
  <2>5. CASE /\ ~FinishLogin(r) /\ ~ClearAttempts(r) /\ ~SaveStaff(r) /\ ~ResetStaff(r)
             /\ ~DeleteStaff(r)
    <3>1. CASE \/ Login(r) \/ CheckPassword(r) \/ IssueTokens(r) \/ VerifyMfa(r) \/ ManageFactor(r)
               \/ StartEnrollment(r) \/ ConfirmEnrollment(r) \/ CheckCode(r)
               \/ StartRegistration(r) \/ Register(r) \/ Authenticate(r) \/ RevokeDevice(r)
               \/ RevokeTokensOfDevice(r) \/ Refresh(r) \/ Rotate(r) \/ CheckDevice(r)
               \/ ChangePassword(r) \/ RevokeAll(r) \/ EditStaff(r) \/ GuardLastSuperAdmin(r)
               \/ EditPeer(r) \/ SavePeer(r) \/ RemoveStaff(r) \/ Die(r)
      <4>1. UNCHANGED <<staff, tried, clean>>
        BY <3>1
           DEF Login, CheckPassword, IssueTokens, VerifyMfa, ManageFactor, StartEnrollment,
               ConfirmEnrollment, CheckCode, StartRegistration, Register, Authenticate, RevokeDevice,
               RevokeTokensOfDevice, Refresh, Rotate, CheckDevice, ChangePassword, RevokeAll, EditStaff,
               GuardLastSuperAdmin, EditPeer, SavePeer, RemoveStaff, Die, row, ghosts
      <4> QED
        BY <1>1, <4>1
    <3>2. CASE \/ CheckSecondFactor(r) \/ ClearTwoFactor(r) \/ RegenerateRecoveryCodes(r)
               \/ WritePendingSecret(r) \/ WriteEnrollment(r)
      <4>1. UNCHANGED <<staff, tried>> /\ (clean' => clean)
        <5>1. CheckSecondFactor(r) => UNCHANGED <<staff, tried, clean>>
          BY DEF CheckSecondFactor
        <5>2. RegenerateRecoveryCodes(r) => UNCHANGED <<staff, tried, clean>>
          BY DEF RegenerateRecoveryCodes, ghosts
        <5>3. ClearTwoFactor(r) => UNCHANGED <<staff, tried>> /\ (clean' => clean)
          BY DEF ClearTwoFactor
        <5>4. WritePendingSecret(r) => UNCHANGED <<staff, tried>> /\ (clean' => clean)
          BY DEF WritePendingSecret
        <5>5. WriteEnrollment(r) => UNCHANGED <<staff, tried>> /\ (clean' => clean)
          BY DEF WriteEnrollment
        <5> QED
          BY <3>2, <5>1, <5>2, <5>3, <5>4, <5>5
      <4> QED
        BY <1>1, <4>1
    <3> QED
      BY <1>4, <2>5, <3>1, <3>2 DEF Acts
  <2> QED
    BY <2>1, <2>2, <2>3, <2>4, <2>5
<1>5. CASE LockExpires
  <2>1. staff'.failures = staff.failures
    BY <1>0, <1>5 DEF LockExpires, StaffRow
  <2> QED
    BY <1>1, <1>5, <2>1 DEF LockExpires, ghosts
<1>6. CASE Unlock
  BY <1>2, <1>6, ResetStep DEF Unlock
<1>7. CASE Logout \/ Approve \/ UNCHANGED vars
  BY <1>1, <1>7 DEF Logout, Approve, vars, row, ghosts
<1>8. \A r \in Requests : Acts(r) => GuessInv'
  BY <1>3, <1>4
<1> QED
  BY <1>5, <1>6, <1>7, <1>8, EachStep

\* However many guesses arrive together, no more secrets are looked at than the
\* limit before the count is cleared (StaffService.reserveAttempt), unless an
\* edit brings an old count back.
THEOREM StaffGuessesStayBounded == Spec => []GuessesBounded
<1>1. TypeInv /\ GuessInv => GuessesBounded
  <2> SUFFICES ASSUME TypeInv, GuessInv, clean PROVE Cardinality(tried) <= MaxFailedAttempts
    BY DEF GuessesBounded
  <2>1. Cardinality(tried) \in Nat /\ staff.failures \in 0..MaxFailedAttempts
    BY FS_CardinalityType DEF GuessInv, TypeInv, TypeOK, StaffRow
  <2> QED
    BY <2>1 DEF GuessInv
<1> QED
  BY <1>1, TypeInvariant, GuessInit, GuessNext, PTL DEF Spec

\* Neither the guesses nor the devices of a member of staff pass their limit,
\* whatever races.
THEOREM StaffLimitsStayKept == Spec => []LimitsKept
<1>1. GuessesBounded /\ DeviceCapKept => LimitsKept
  BY DEF LimitsKept
<1> QED
  BY <1>1, StaffGuessesStayBounded, DevicesStayLimited, PTL

-----------------------------------------------------------------------------
(***************************************************************************)
(* Codes.                                                                  *)
(***************************************************************************)
\* What request r works from when it presents a code: what it read, or what the
\* row says now.
Reads(r) ==
    /\ \A q \in Requests \ {r} : req'[q] = req[q]
    /\ \/ req'[r].op \notin WithFactor
       \/ req'[r].at \notin {"reserve", "check"}
       \/ req'[r].op = req[r].op /\ req'[r].factor = req[r].factor /\ req[r].at = "reserve"
       \/ req'[r].factor = factor /\ factor.enabled

LEMMA ReadsNext ==
    ASSUME TypeInv, NEW r \in Requests, Acts(r)
    PROVE  Reads(r)
<1>1. Over(r) => Reads(r)
  BY OverStep DEF TypeInv, TypeOK, RowsType, Finished, Others, Reads, WithFactor
<1>2. \A place \in Places : Go(r, place) /\ (place \in {"reserve", "check"} => req[r].at = "reserve")
                               => Reads(r)
  BY GoStep DEF TypeInv, TypeOK, RowsType, Went, Others, Reads
<1>3. \A op \in Ops, place \in Places, d \in Devices \cup {None}, t \in Tokens \cup {None} :
         Start(r, op, place, d, t) /\ (op \in WithFactor => factor.enabled) => Reads(r)
  BY StartStep DEF TypeInv, Started, Others, Reads
<1>4. CASE \/ Login(r) \/ VerifyMfa(r) \/ ManageFactor(r) \/ StartEnrollment(r) \/ ConfirmEnrollment(r)
           \/ StartRegistration(r) \/ RevokeDevice(r) \/ Authenticate(r) \/ ChangePassword(r)
           \/ EditStaff(r) \/ ResetStaff(r) \/ RemoveStaff(r) \/ EditPeer(r)
  <2>1. /\ {"login", "verify", "disable", "regenerate", "start", "confirm", "register", "add", "assert",
            "revoke", "change", "edit", "reset", "remove", "demotePeer"} \subseteq Ops
        /\ {"reserve", "writing", "registering", "finish", "revokeDevice", "revokeAll", "guarding"}
              \subseteq Places
        /\ WithFactor = {"verify", "disable", "regenerate"}
    BY DEF Ops, Places, WithFactor
  <2>2. CASE Login(r) \/ VerifyMfa(r) \/ ManageFactor(r) \/ StartEnrollment(r) \/ ConfirmEnrollment(r)
    BY <1>3, <2>1, <2>2 DEF Login, VerifyMfa, ManageFactor, StartEnrollment, ConfirmEnrollment
  <2>3. CASE StartRegistration(r) \/ RevokeDevice(r) \/ Authenticate(r) \/ ChangePassword(r)
    BY <1>3, <2>1, <2>3 DEF StartRegistration, RevokeDevice, Authenticate, ChangePassword
  <2>4. CASE EditStaff(r) \/ ResetStaff(r) \/ RemoveStaff(r) \/ EditPeer(r)
    BY <1>1, <1>3, <2>1, <2>4 DEF EditStaff, ResetStaff, RemoveStaff, EditPeer
  <2> QED
    BY <1>4, <2>2, <2>3, <2>4
<1>5. CASE Refresh(r)
  <2>1. PICK t \in Tokens : Start(r, "refresh", "rotate", token[t].device, t) \/ Over(r)
    BY <1>5 DEF Refresh
  <2>2. token[t].device \in Devices \cup {None} /\ "refresh" \in Ops \ WithFactor /\ "rotate" \in Places
    BY DEF TypeInv, TypeOK, Token, Ops, Places, WithFactor
  <2> QED
    BY <1>1, <1>3, <2>1, <2>2
<1>6. CASE \/ CheckPassword(r) \/ ReserveAttempt(r) \/ FinishLogin(r) \/ IssueTokens(r)
           \/ CheckSecondFactor(r) \/ ClearAttempts(r)
           \/ ClearTwoFactor(r) \/ RegenerateRecoveryCodes(r)
           \/ WritePendingSecret(r) \/ WriteEnrollment(r)
           \/ Register(r) \/ RevokeTokensOfDevice(r) \/ Rotate(r) \/ CheckDevice(r)
           \/ RevokeAll(r) \/ SaveStaff(r) \/ SavePeer(r) \/ DeleteStaff(r) \/ Die(r)
  <2>1. {"check", "clearing", "writing", "finish", "issue", "isActive", "revokeAll"} \subseteq Places
    BY DEF Places
  <2>2. CASE CheckPassword(r) \/ ReserveAttempt(r) \/ FinishLogin(r) \/ IssueTokens(r) \/ ClearAttempts(r)
    BY <1>1, <1>2, <2>1, <2>2
       DEF CheckPassword, CompleteLogin, ReserveAttempt, FinishLogin, IssueTokens, ClearAttempts
  <2>3. CASE CheckSecondFactor(r)
    <3>1. Over(r) \/ (\E app \in BOOLEAN : Proceed(r, app))
      BY <2>3 DEF CheckSecondFactor
    <3> QED
      BY <1>1, <1>2, <2>1, <3>1 DEF Proceed, CompleteLogin
  <2>4. CASE ClearTwoFactor(r) \/ RegenerateRecoveryCodes(r) \/ WritePendingSecret(r) \/ WriteEnrollment(r)
    BY <1>1, <1>2, <2>1, <2>4
       DEF ClearTwoFactor, RegenerateRecoveryCodes, WritePendingSecret, WriteEnrollment, CompleteLogin
  <2>5. CASE Register(r) \/ RevokeTokensOfDevice(r) \/ Rotate(r) \/ CheckDevice(r) \/ RevokeAll(r)
    BY <1>1, <1>2, <2>1, <2>5
       DEF Register, RevokeTokensOfDevice, Rotate, CheckDevice, RevokeAll
  <2>6. CASE SaveStaff(r) \/ SavePeer(r) \/ DeleteStaff(r) \/ Die(r)
    BY <1>1, <1>2, <2>1, <2>6 DEF SaveStaff, SavePeer, DeleteStaff, Die
  <2> QED
    BY <1>6, <2>2, <2>3, <2>4, <2>5, <2>6
<1>7. CASE CheckCode(r)
  <2>1. ASSUME NEW n \in Steps, req' = [req EXCEPT ![r].at = "clearing", ![r].step = n]
        PROVE  Reads(r)
    <3>1. /\ Others(r) /\ req'[r].at = "clearing"
      BY <2>1, CheckCodeStep
    <3> QED
      BY <3>1 DEF Others, Reads
  <2> QED
    BY <1>1, <1>7, <2>1 DEF CheckCode
<1>8. CASE GuardLastSuperAdmin(r)
  <2>1. ASSUME NEW super \in BOOLEAN, NEW status \in {"active", "disabled"},
               req' = [req EXCEPT ![r].at = "writing", ![r].staff.super = super, ![r].staff.status = status]
        PROVE  Reads(r)
    <3>1. Others(r) /\ req'[r].at = "writing"
      BY <2>1, GuardStep
    <3> QED
      BY <3>1 DEF Others, Reads
  <2> QED
    BY <1>1, <1>8, <2>1 DEF GuardLastSuperAdmin
<1> QED
  BY <1>4, <1>5, <1>6, <1>7, <1>8 DEF Acts


\* Every secret and code in use was drawn; one that was accepted is past.
Drawn ==
    /\ factor.secret \in drawn \cup {None} /\ factor.codes \subseteq drawn
    /\ \A s \in Secrets, n \in Steps : <<s, n>> \in accepted => s \in drawn
    /\ \A c \in RecoveryCodes : c \in accepted => c \in drawn

Spent ==
    /\ ~replayed
    /\ \A s \in Secrets, n \in Steps :
          <<s, n>> \in accepted /\ s = factor.secret => factor.enabled /\ n <= factor.last
    /\ \A c \in factor.codes : c \notin accepted
    /\ staff.status = "deleted" => factor.secret = None /\ factor.codes = {}

\* A request about to present a code works from the secret that is in the row.
Bound(r) ==
    req[r].op \in WithFactor /\ req[r].at \in {"reserve", "check"} =>
        req[r].factor.secret = factor.secret /\ factor.enabled

CodeInv == clean => Drawn /\ Spent /\ \A r \in Requests : Bound(r)

LEMMA CodeInit == Init => CodeInv
<1> SUFFICES ASSUME Init PROVE CodeInv
  OBVIOUS
<1>1. req = [r \in Requests |-> Waiting] /\ accepted = {} /\ replayed = FALSE
  BY InitParts
<1>2. staff.status = "active"
  <2>1. PICK s \in BOOLEAN : staff = [Fresh EXCEPT !.super = s]
    BY InitParts
  <2> QED
    BY <2>1, FreshType DEF StaffRow
<1> QED
  BY <1>1, <1>2, WaitingType, InitFactor DEF CodeInv, Drawn, Spent, Bound, WithFactor

LEMMA AcceptApp ==
    ASSUME NEW s \in Secrets, NEW n \in Steps, Accept(<<s, n>>), <<s, n>> \notin accepted, ~replayed
    PROVE  /\ ~replayed'
           /\ \A x \in Secrets, m \in Steps :
                 <<x, m>> \in accepted' => <<x, m>> \in accepted \/ (x = s /\ m = n)
           /\ \A c \in RecoveryCodes : c \in accepted' => c \in accepted
<1>1. \A c \in RecoveryCodes : c # <<s, n>>
  <2>1. <<s, n>> \in Secrets \X Steps
    OBVIOUS
  <2> QED
    BY <2>1
<1> QED
  BY <1>1 DEF Accept

LEMMA AcceptRecovery ==
    ASSUME NEW c \in RecoveryCodes, Accept(c), c \notin accepted, ~replayed
    PROVE  /\ ~replayed'
           /\ \A x \in Secrets, m \in Steps : <<x, m>> \in accepted' => <<x, m>> \in accepted
           /\ \A k \in RecoveryCodes : k \in accepted' => k \in accepted \/ k = c
<1>1. \A x \in Secrets, m \in Steps : <<x, m>> # c
  <2>1. \A x \in Secrets, m \in Steps : <<x, m>> \in Secrets \X Steps
    OBVIOUS
  <2> QED
    BY <2>1
<1> QED
  BY <1>1 DEF Accept

\* Two ways to keep the requests bound: the row keeps its secret, or nobody else
\* is in flight.
LEMMA BoundKept ==
    ASSUME \A q \in Requests : Bound(q), NEW r \in Requests, Reads(r),
           factor'.secret = factor.secret, factor'.enabled = factor.enabled
    PROVE  \A q \in Requests : Bound(q)'
<1>1. \A q \in Requests \ {r} : Bound(q)'
  BY DEF Reads, Bound
<1>2. Bound(r)'
  BY DEF Reads, Bound
<1> QED
  BY <1>1, <1>2

LEMMA BoundApart ==
    ASSUME NEW r \in Requests, Apart(r), \A q \in Requests \ {r} : req'[q] = req[q],
           req'[r].at \notin {"reserve", "check"}
    PROVE  \A q \in Requests : Bound(q)'
  BY DEF Apart, InFlight, Bound

LEMMA CodeNext ==
    ASSUME TypeInv, CodeInv, [Next]_vars
    PROVE  CodeInv'
<1>0. /\ factor \in Factor /\ factor' \in Factor /\ None \notin Secrets
      /\ \A r \in Requests : req[r] \in Request /\ Shape(r)
      /\ staff \in StaffRow /\ staff' \in StaffRow /\ accepted \subseteq Codes
  BY TypeNext DEF TypeInv, TypeOK
<1>a. \A r \in Requests : Acts(r) => Reads(r)
  BY ReadsNext
<1>1. CASE UNCHANGED <<req, factor, drawn, accepted, replayed, clean>> /\ staff'.status = staff.status
  BY <1>1 DEF CodeInv, Drawn, Spent, Bound
<1>2. CASE LockExpires
  <2>1. staff'.status = staff.status
    BY <1>0, <1>2 DEF LockExpires, StaffRow
  <2> QED
    BY <1>1, <1>2, <2>1 DEF LockExpires, ghosts
<1>3. CASE Unlock
  BY <1>1, <1>3, ResetStep DEF Unlock
<1>4. CASE Logout \/ Approve \/ UNCHANGED vars
  BY <1>1, <1>4 DEF Logout, Approve, vars, row, ghosts
<1>5. ASSUME NEW r \in Requests, Acts(r),
             UNCHANGED <<factor, drawn, accepted, replayed, clean>>, staff'.status = staff.status
      PROVE  CodeInv'
  <2>1. clean => \A q \in Requests : Bound(q)'
    BY <1>a, <1>5, BoundKept DEF CodeInv
  <2> QED
    BY <1>5, <2>1 DEF CodeInv, Drawn, Spent
<1>6. ASSUME NEW r \in Requests,
             \/ Login(r) \/ CheckPassword(r) \/ IssueTokens(r) \/ VerifyMfa(r) \/ ManageFactor(r)
             \/ StartEnrollment(r) \/ ConfirmEnrollment(r) \/ CheckCode(r)
             \/ StartRegistration(r) \/ Register(r) \/ Authenticate(r) \/ RevokeDevice(r)
             \/ RevokeTokensOfDevice(r) \/ Refresh(r) \/ Rotate(r) \/ CheckDevice(r)
             \/ ChangePassword(r) \/ RevokeAll(r) \/ EditStaff(r) \/ GuardLastSuperAdmin(r)
             \/ EditPeer(r) \/ SavePeer(r) \/ RemoveStaff(r) \/ Die(r)
      PROVE  CodeInv'
  <2>1. UNCHANGED <<staff, factor, drawn, accepted, replayed, clean>>
    BY <1>6
       DEF Login, CheckPassword, IssueTokens, VerifyMfa, ManageFactor, StartEnrollment,
           ConfirmEnrollment, CheckCode, StartRegistration, Register, Authenticate, RevokeDevice,
           RevokeTokensOfDevice, Refresh, Rotate, CheckDevice, ChangePassword, RevokeAll, EditStaff,
           GuardLastSuperAdmin, EditPeer, SavePeer, RemoveStaff, Die, row, ghosts
  <2>2. Acts(r)
    BY <1>6 DEF Acts
  <2> QED
    BY <1>5, <2>1, <2>2
<1>7. ASSUME NEW r \in Requests, ReserveAttempt(r) \/ FinishLogin(r) \/ ClearAttempts(r)
      PROVE  CodeInv'
  <2>1. staff'.status = staff.status
    BY <1>7, ResetStep, ReserveStep DEF FinishLogin, ClearAttempts
  <2>2. Acts(r)
    BY <1>7 DEF Acts
  <2>3. UNCHANGED <<factor, drawn, accepted, replayed, clean>>
    BY <1>7 DEF ReserveAttempt, FinishLogin, ClearAttempts
  <2> QED
    BY <1>5, <2>1, <2>2, <2>3
<1>8. ASSUME NEW r \in Requests, CheckSecondFactor(r)
      PROVE  CodeInv'
  <2>0. /\ Acts(r) /\ UNCHANGED <<staff, drawn, clean>>
        /\ req[r].op \in WithFactor /\ req[r].at = "check" /\ req[r].factor.secret \in Secrets
    BY <1>0, <1>8 DEF Acts, CheckSecondFactor, Shape
  <2>1. CASE UNCHANGED <<factor, accepted, replayed>>
    BY <1>5, <2>0, <2>1
  <2>2. ASSUME NEW n \in Steps, factor.last < n, staff.status # "deleted",
               factor' = [factor EXCEPT !.last = n], Accept(<<req[r].factor.secret, n>>), clean
        PROVE  CodeInv'
    <3> DEFINE s == req[r].factor.secret
    <3>1. /\ factor'.secret = factor.secret /\ factor'.enabled = factor.enabled
          /\ factor'.codes = factor.codes /\ factor'.last = n
      BY <1>0, <2>2 DEF Factor
    <3>2. s = factor.secret /\ factor.enabled /\ s \in Secrets
      BY <2>0, <2>2 DEF CodeInv, Bound
    <3>3. s \in drawn
      BY <1>0, <2>2, <3>2 DEF CodeInv, Drawn
    <3>4. \A m \in Steps : <<s, m>> \in accepted => m <= factor.last
      BY <2>2, <3>2 DEF CodeInv, Spent
    <3>5. n \in Nat /\ factor.last \in Nat
      <4>1. factor.last \in Steps \cup {0}
        BY <1>0 DEF Factor
      <4> QED
        BY <2>2, <4>1
    <3>6. <<s, n>> \notin accepted
      BY <2>2, <3>4, <3>5
    <3> HIDE DEF s
    <3>7. /\ ~replayed'
          /\ \A x \in Secrets, m \in Steps :
                <<x, m>> \in accepted' => <<x, m>> \in accepted \/ (x = s /\ m = n)
          /\ \A c \in RecoveryCodes : c \in accepted' => c \in accepted
      BY <2>2, <3>2, <3>6, AcceptApp DEF s, CodeInv, Spent
    <3>8. Drawn'
      BY <2>0, <2>2, <3>1, <3>3, <3>7 DEF CodeInv, Drawn
    <3>9. \A x \in Secrets, m \in Steps :
             <<x, m>> \in accepted' /\ x = factor'.secret => factor'.enabled /\ m <= factor'.last
      <4> SUFFICES ASSUME NEW x \in Secrets, NEW m \in Steps, <<x, m>> \in accepted', x = factor'.secret
                   PROVE  m <= n
        BY <3>1, <3>2
      <4>1. x = s /\ m \in Nat
        BY <3>1, <3>2
      <4> QED
        BY <2>2, <3>4, <3>5, <3>7, <4>1
    <3>10. \A c \in factor'.codes : c \in RecoveryCodes /\ c \notin accepted
      BY <1>0, <2>2, <3>1 DEF CodeInv, Spent, Factor
    <3>11. Spent'
      BY <2>0, <2>2, <3>7, <3>9, <3>10 DEF Spent
    <3>12. \A q \in Requests : Bound(q)'
      BY <1>a, <2>0, <2>2, <3>1, BoundKept DEF CodeInv
    <3> QED
      BY <3>8, <3>11, <3>12 DEF CodeInv
  <2>3. ASSUME NEW c \in factor.codes, factor' = [factor EXCEPT !.codes = factor.codes \ {c}], Accept(c), clean
        PROVE  CodeInv'
    <3>1. /\ factor'.secret = factor.secret /\ factor'.enabled = factor.enabled
          /\ factor'.codes = factor.codes \ {c} /\ factor'.last = factor.last
      BY <1>0, <2>3 DEF Factor
    <3>2. c \in RecoveryCodes /\ c \notin accepted /\ c \in drawn /\ ~replayed
      BY <1>0, <2>3 DEF CodeInv, Spent, Drawn, Factor
    <3>3. /\ ~replayed'
          /\ \A x \in Secrets, m \in Steps : <<x, m>> \in accepted' => <<x, m>> \in accepted
          /\ \A k \in RecoveryCodes : k \in accepted' => k \in accepted \/ k = c
      BY <2>3, <3>2, AcceptRecovery
    <3>4. Drawn'
      BY <2>0, <2>3, <3>1, <3>2, <3>3 DEF CodeInv, Drawn
    <3>5. \A k \in factor'.codes : k \in RecoveryCodes /\ k # c /\ k \notin accepted
      BY <1>0, <2>3, <3>1 DEF CodeInv, Spent, Factor
    <3>6. Spent'
      BY <2>0, <2>3, <3>1, <3>3, <3>5 DEF CodeInv, Spent
    <3>7. \A q \in Requests : Bound(q)'
      BY <1>a, <2>0, <2>3, <3>1, BoundKept DEF CodeInv
    <3> QED
      BY <3>4, <3>6, <3>7 DEF CodeInv
  <2>4. CASE ~clean
    BY <2>0, <2>4 DEF CodeInv
  <2> QED
    BY <1>8, <2>1, <2>2, <2>3, <2>4 DEF CheckSecondFactor
\* Nothing is left of the second factor, and nobody is in the middle of using it.
<1>9. ASSUME NEW r \in Requests, \A q \in Requests \ {r} : req'[q] = req[q],
             req'[r].at \notin {"reserve", "check"}, factor' = NoFactor,
             UNCHANGED <<accepted, replayed, drawn>>, clean' => clean /\ Apart(r)
      PROVE  CodeInv'
  <2> SUFFICES ASSUME clean' PROVE CodeInv'
    BY DEF CodeInv
  <2>1. \A q \in Requests : Bound(q)'
    BY <1>9, BoundApart
  <2>2. Drawn' /\ Spent'
    BY <1>0, <1>9, FreshType DEF CodeInv, Drawn, Spent
  <2> QED
    BY <2>1, <2>2 DEF CodeInv
<1>10. ASSUME NEW r \in Requests, Over(r) \/ (\E op \in Ops, place \in {"revokeAll", "writing"} :
                                                Start(r, op, place, None, None))
       PROVE  (\A q \in Requests \ {r} : req'[q] = req[q]) /\ req'[r].at \notin {"reserve", "check"}
  <2>1. TypeOK /\ RowsType /\ {"revokeAll", "writing"} \subseteq Places
    BY DEF TypeInv, TypeOK, RowsType, Places
  <2> QED
    BY <1>10, <2>1, OverStep, StartStep DEF Finished, Started, Others
<1>11. ASSUME NEW r \in Requests, ClearTwoFactor(r) \/ DeleteStaff(r) \/ ResetStaff(r)
       PROVE  CodeInv'
  <2>0. Acts(r)
    BY <1>11 DEF Acts
  <2>1. CASE ResetStaff(r) /\ UNCHANGED factor
    <3>0. clean' => clean
      BY <2>1, Zenon DEF ResetStaff
    <3>1. UNCHANGED <<drawn, accepted, replayed>> /\ (clean' => clean)
      BY <2>1, <3>0 DEF ResetStaff
    <3>2. staff'.status = staff.status
      BY <2>1, ResetStep DEF ResetStaff
    <3>3. \A q \in Requests : clean => Bound(q)'
      BY <1>a, <2>0, <2>1, BoundKept DEF CodeInv
    <3> QED
      BY <2>1, <3>1, <3>2, <3>3 DEF CodeInv, Drawn, Spent
  <2>2. CASE ResetStaff(r) /\ factor' = NoFactor /\ clean' = (clean /\ Apart(r))
    <3>1. UNCHANGED <<drawn, accepted, replayed>> /\ Start(r, "reset", "revokeAll", None, None)
      BY <2>2 DEF ResetStaff
    <3> QED
      BY <1>9, <1>10, <2>2, <3>1 DEF Ops
  <2>3. CASE DeleteStaff(r)
    BY <1>9, <1>10, <2>3 DEF DeleteStaff
  <2>4. CASE ClearTwoFactor(r) /\ factor' = NoFactor
    BY <1>9, <1>10, <2>4 DEF ClearTwoFactor
  <2>5. CASE ClearTwoFactor(r) /\ factor' = factor
    <3>1. UNCHANGED <<staff, drawn, accepted, replayed>> /\ (clean' => clean)
      BY <2>5 DEF ClearTwoFactor
    <3>2. \A q \in Requests : clean => Bound(q)'
      BY <1>a, <2>0, <2>5, BoundKept DEF CodeInv
    <3> QED
      BY <2>5, <3>1, <3>2 DEF CodeInv, Drawn, Spent
  <2> QED
    BY <1>11, <2>1, <2>2, <2>3, <2>4, <2>5 DEF ResetStaff, ClearTwoFactor, WriteFactor
<1>12. ASSUME NEW r \in Requests, RegenerateRecoveryCodes(r)
       PROVE  CodeInv'
  <2> DEFINE c == New(RecoveryCodes \ drawn)
             S == {c}
  <2>0. /\ Acts(r) /\ UNCHANGED <<staff, accepted, replayed, clean>>
        /\ DrawFrom(RecoveryCodes) /\ WriteFactor([factor EXCEPT !.codes = S])
    BY <1>12 DEF Acts, RegenerateRecoveryCodes, ghosts
  <2>1. c \in RecoveryCodes /\ c \notin drawn /\ drawn' = drawn \cup {c}
    BY <2>0, DrawStep
  <2> HIDE DEF c
  <2>2. S \in SUBSET RecoveryCodes
    BY <2>1
  <2> HIDE DEF S
  <2> DEFINE new == [factor EXCEPT !.codes = S]
  <2>3. factor' = factor \/ (factor' = new /\ staff.status # "deleted")
    BY <2>0 DEF WriteFactor
  <2>4. /\ factor'.secret = factor.secret /\ factor'.enabled = factor.enabled /\ factor'.last = factor.last
        /\ factor'.codes = factor.codes \/ (factor'.codes = S /\ staff.status # "deleted")
    <3>1. new = [factor EXCEPT !.codes = S]
      OBVIOUS
    <3> HIDE DEF new
    <3>2. new.secret = factor.secret /\ new.enabled = factor.enabled /\ new.last = factor.last /\ new.codes = S
      BY <2>2, <3>1, CodesStep
    <3> QED
      BY <2>3, <3>2
  <2> HIDE DEF new
  <2> SUFFICES ASSUME clean' PROVE CodeInv'
    BY DEF CodeInv
  <2>5. clean /\ \A q \in Requests : Bound(q)'
    BY <1>a, <2>0, <2>4, BoundKept DEF CodeInv
  <2>6. Drawn'
    BY <2>0, <2>1, <2>4, <2>5 DEF S, CodeInv, Drawn
  <2>7. c \notin accepted
    BY <2>1, <2>5 DEF CodeInv, Drawn
  <2>8. Spent'
    BY <2>0, <2>4, <2>5, <2>7 DEF S, CodeInv, Spent
  <2> QED
    BY <2>5, <2>6, <2>8 DEF CodeInv
<1>13. ASSUME NEW r \in Requests, WritePendingSecret(r)
       PROVE  CodeInv'
  <2> DEFINE s == New(Secrets \ drawn)
  <2>0. /\ UNCHANGED <<staff, accepted, replayed>> /\ clean' = (clean /\ Apart(r) /\ AsRead(r))
        /\ DrawFrom(Secrets) /\ WriteFactor([factor EXCEPT !.secret = s, !.last = 0]) /\ Over(r)
    BY <1>13 DEF WritePendingSecret
  <2>1. s \in Secrets /\ s \notin drawn /\ drawn' = drawn \cup {s}
    BY <2>0, DrawStep
  <2> HIDE DEF s
  <2> DEFINE new == [factor EXCEPT !.secret = s, !.last = 0]
  <2>2. /\ new = [factor EXCEPT !.secret = s, !.last = 0]
        /\ factor' = factor \/ (factor' = new /\ staff.status # "deleted")
    BY <2>0 DEF WriteFactor
  <2> HIDE DEF new
  <2>3. new.secret = s /\ new.codes = factor.codes
    BY <2>1, <2>2, PendingStep
  <2>4. \/ factor' = factor
        \/ factor'.secret = s /\ factor'.codes = factor.codes /\ staff.status # "deleted"
    BY <2>2, <2>3
  <2> SUFFICES ASSUME clean' PROVE CodeInv'
    BY DEF CodeInv
  <2>5. clean /\ \A q \in Requests : Bound(q)'
    BY <1>10, <2>0, BoundApart
  <2>6. Drawn'
    BY <2>0, <2>1, <2>4, <2>5 DEF CodeInv, Drawn
  <2>7. \A n \in Steps : <<s, n>> \notin accepted
    BY <2>1, <2>5 DEF CodeInv, Drawn
  <2>8. Spent'
    <3>1. CASE factor' = factor
      BY <2>0, <2>5, <3>1 DEF CodeInv, Spent
    <3>2. CASE factor'.secret = s /\ factor'.codes = factor.codes /\ staff.status # "deleted"
      BY <2>0, <2>5, <2>7, <3>2 DEF CodeInv, Spent
    <3> QED
      BY <2>4, <3>1, <3>2
  <2> QED
    BY <2>5, <2>6, <2>8 DEF CodeInv
<1>14. ASSUME NEW r \in Requests, WriteEnrollment(r)
       PROVE  CodeInv'
  <2> DEFINE c == New(RecoveryCodes \ drawn)
             S == {c}
             s == req[r].factor.secret
             n == req[r].step
  <2>0. /\ Acts(r) /\ UNCHANGED staff /\ clean' = (clean /\ Apart(r) /\ AsRead(r))
        /\ DrawFrom(RecoveryCodes) /\ Accept(<<s, n>>)
        /\ WriteFactor([factor EXCEPT !.enabled = TRUE, !.last = n, !.codes = S])
        /\ Over(r) \/ Go(r, "finish")
    BY <1>14 DEF Acts, WriteEnrollment, CompleteLogin
  <2>1. c \in RecoveryCodes /\ c \notin drawn /\ drawn' = drawn \cup {c}
    BY <2>0, DrawStep
  <2>2. s \in Secrets /\ n \in Steps /\ ~req[r].factor.enabled
    BY <1>0, <1>14 DEF WriteEnrollment, At, Shape
  <2> SUFFICES ASSUME clean' PROVE CodeInv'
    BY DEF CodeInv
  <2>3. clean /\ s = factor.secret /\ ~factor.enabled /\ Apart(r)
    BY <2>0, <2>2 DEF AsRead
  <2> HIDE DEF c, s, n
  <2>4. S \in SUBSET RecoveryCodes
    BY <2>1
  <2>5. staff.status # "deleted"
    BY <1>0, <2>2, <2>3 DEF CodeInv, Spent
  <2> HIDE DEF S
  <2>6. /\ factor'.secret = s /\ factor'.enabled /\ factor'.last = n /\ factor'.codes = S
    <3> DEFINE on == [factor EXCEPT !.enabled = TRUE]
               enrolled == [on EXCEPT !.last = n]
               all == [enrolled EXCEPT !.codes = S]
    <3>1. factor' = all
      BY <2>0, <2>5 DEF WriteFactor
    <3>2. on \in Factor /\ on.secret = factor.secret /\ on.enabled
      BY <1>0 DEF Factor
    <3> HIDE DEF on
    <3>3. enrolled \in Factor /\ enrolled.secret = factor.secret /\ enrolled.enabled /\ enrolled.last = n
      BY <2>2, <3>2 DEF Factor
    <3> HIDE DEF enrolled
    <3>4. /\ all.secret = factor.secret /\ all.enabled
          /\ all.last = n /\ all.codes = S
      BY <2>4, <3>3 DEF Factor
    <3> HIDE DEF all
    <3> QED
      BY <2>3, <3>1, <3>4
  <2>7. \A m \in Steps : <<s, m>> \notin accepted
    BY <2>2, <2>3 DEF CodeInv, Spent
  <2>8. /\ ~replayed'
        /\ \A x \in Secrets, m \in Steps :
              <<x, m>> \in accepted' => <<x, m>> \in accepted \/ (x = s /\ m = n)
        /\ \A k \in RecoveryCodes : k \in accepted' => k \in accepted
    BY <2>0, <2>2, <2>3, <2>7, AcceptApp DEF CodeInv, Spent
  <2>9. s \in drawn
    BY <1>0, <2>2, <2>3 DEF CodeInv, Drawn
  <2>10. Drawn'
    BY <2>1, <2>3, <2>6, <2>8, <2>9 DEF S, CodeInv, Drawn
  <2>11. \A x \in Secrets, m \in Steps :
            <<x, m>> \in accepted' /\ x = factor'.secret => factor'.enabled /\ m <= factor'.last
    <3> SUFFICES ASSUME NEW x \in Secrets, NEW m \in Steps, <<x, m>> \in accepted', x = factor'.secret
                 PROVE  m = n /\ n \in Nat
      BY <2>6
    <3> QED
      BY <2>2, <2>6, <2>7, <2>8
  <2>12. c \notin accepted
    BY <2>1, <2>3 DEF CodeInv, Drawn
  <2>13. Spent'
    BY <2>0, <2>1, <2>5, <2>6, <2>8, <2>11, <2>12 DEF S, Spent
  <2>14. \A q \in Requests \ {r} : req'[q] = req[q]
    BY <1>a, <2>0 DEF Reads
  <2>15. req'[r].at \notin {"reserve", "check"}
    <3>1. RowsType /\ "finish" \in Places
      BY DEF TypeInv, TypeOK, RowsType, Places
    <3> QED
      BY <2>0, <3>1, OverStep, GoStep DEF Finished, Went
  <2> QED
    BY <2>3, <2>10, <2>13, <2>14, <2>15, BoundApart DEF CodeInv
<1>15. ASSUME NEW r \in Requests, SaveStaff(r)
       PROVE  CodeInv'
  <2>0. /\ Acts(r) /\ UNCHANGED <<drawn, accepted, replayed>>
        /\ staff' = req[r].staff /\ factor' = req[r].factor /\ At(r, "edit", "writing")
        /\ clean' => clean /\ AsRead(r)
    BY <1>15 DEF Acts, SaveStaff
  <2> SUFFICES ASSUME clean' PROVE CodeInv'
    BY DEF CodeInv
  <2>1. clean /\ factor' = factor /\ staff'.status # "deleted"
    BY <1>0, <2>0 DEF AsRead, At, Shape
  <2>2. \A q \in Requests : Bound(q)'
    BY <1>a, <2>0, <2>1, BoundKept DEF CodeInv
  <2> QED
    BY <2>0, <2>1, <2>2 DEF CodeInv, Drawn, Spent
<1>16. ASSUME NEW r \in Requests, Acts(r)
       PROVE  CodeInv'
  BY <1>6, <1>7, <1>8, <1>11, <1>12, <1>13, <1>14, <1>15, <1>16 DEF Acts
<1>17. \A r \in Requests : Acts(r) => CodeInv'
  BY <1>16
<1> QED
  BY <1>2, <1>3, <1>4, <1>17, EachStep

\* No code of the app and no recovery code is accepted twice, however many
\* sign-ins present it at once (checkSecondFactor's conditional updates), unless
\* a write of the second factor went over what a request in flight had read.
THEOREM CodesAreSpentOnce == Spec => []CodesSpentOnce
<1>1. CodeInv => CodesSpentOnce
  BY DEF CodeInv, Spent, CodesSpentOnce
<1> QED
  BY <1>1, TypeInvariant, CodeInit, CodeNext, PTL DEF Spec
=============================================================================
