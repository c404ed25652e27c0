------------------------ MODULE CustomerAccountsProofs ------------------------
(***************************************************************************)
(* Proofs about CustomerAccounts, for every set of requests and every      *)
(* bound, and about what is around it, for every value of the constants.   *)
(***************************************************************************)
EXTENDS AccountsAndAround, TLAPS

USE AccountsAssumption

-----------------------------------------------------------------------------
(***************************************************************************)
(* Type correctness.                                                       *)
(***************************************************************************)
Ops == {"none", "suspend", "reactivate", "close", "reject", "login", "verify", "delete", "submit",
        "approveTier", "rejectTier"}
Places == {"idle", "suspendCall", "suspend", "block", "look", "reactivateCall", "reactivate",
           "closeCall", "end", "close", "complete", "settle", "open", "write", "insert", "decide"}

\* A free place is a request, and so is what each action makes of it.
LEMMA WaitingType ==
    /\ Waiting \in Request
    /\ \A op \in Ops, place \in Places, v \in BOOLEAN :
          [Waiting EXCEPT !.op = op, !.at = place, !.verified = v] \in Request
    /\ \A i \in Asked : [Waiting EXCEPT !.op = "reject", !.at = "settle", !.asked = i] \in Request
    /\ \A place \in Places, w \in BOOLEAN :
          [Waiting EXCEPT !.op = "close", !.at = place, !.weSuspended = w,
                          !.unseen = {"balance", "payments"}] \in Request
<1>1. 0 \in 0..MaxAsked /\ Asked \subseteq 0..MaxAsked
  BY DEF Asked
<1>2. {} \in SUBSET {"balance", "payments"}
  OBVIOUS
<1> QED
  BY <1>1, <1>2 DEF Waiting, Request, Ops, Places

\* Where a request goes is a place it may be.
LEMMA GoType ==
    ASSUME TypeOK, NEW r \in Requests, NEW place, Go(r, place),
           place \in Places
    PROVE  req' \in [Requests -> Request]
  BY DEF TypeOK, Go, Request, Places

LEMMA OverType ==
    ASSUME TypeOK, NEW r \in Requests, Over(r)
    PROVE  req' \in [Requests -> Request]
  BY WaitingType DEF TypeOK, Over

LEMMA StartType ==
    ASSUME TypeOK, NEW r \in Requests, NEW op, NEW place, Start(r, op, place),
           op \in Ops, place \in Places
    PROVE  req' \in [Requests -> Request]
<1>1. verified \in BOOLEAN
  BY DEF TypeOK
<1>2. [Waiting EXCEPT !.op = op, !.at = place, !.verified = verified] \in Request
  BY <1>1, WaitingType
<1>3. req' = [req EXCEPT ![r] = [Waiting EXCEPT !.op = op, !.at = place, !.verified = verified]]
  BY DEF Start
<1> QED
  BY <1>2, <1>3 DEF TypeOK

\* A look takes what it looked at off what is unseen.
LEMMA SeeType ==
    ASSUME TypeOK, NEW r \in Requests, NEW what, NEW blocks \in BOOLEAN, SeeAnd(r, what, blocks)
    PROVE  TypeOK'
<1>1. req[r] \in Request
  BY DEF TypeOK
<1>2. req' \in [Requests -> Request]
  <2> DEFINE blocked == req[r].blocked \/ blocks
  <2>1. blocked \in BOOLEAN
    BY <1>1 DEF Request
  <2>2. CASE req[r].unseen = {what}
    <3>1. Go(r, "closeCall") \/ Go(r, "reactivateCall") \/ Over(r)
      BY <2>2 DEF SeeAnd, Verdict
    <3> QED
      BY <3>1, GoType, OverType DEF Places
  <2>3. CASE req[r].unseen # {what}
    <3>1. req' = [req EXCEPT ![r].unseen = req[r].unseen \ {what}, ![r].blocked = blocked]
      BY <2>3 DEF SeeAnd, TypeOK
    <3>2. req[r].unseen \ {what} \in SUBSET {"balance", "payments"}
      BY <1>1 DEF Request
    <3> DEFINE mid == [req[r] EXCEPT !.unseen = req[r].unseen \ {what}]
    <3> DEFINE last == [mid EXCEPT !.blocked = blocked]
    <3>3. mid \in Request
      BY <1>1, <3>2 DEF Request
    <3> HIDE DEF blocked, mid
    <3>4. last \in Request
      BY <2>1, <3>3 DEF Request
    <3>5. req' = [req EXCEPT ![r] = last]
      BY <3>1 DEF mid
    <3> HIDE DEF last
    <3> QED
      BY <3>4, <3>5 DEF TypeOK
  <2> QED
    BY <2>2, <2>3
<1> QED
  BY <1>2 DEF TypeOK, SeeAnd, account, money, kyc

\* Every step keeps the types.
LEMMA NextType ==
    ASSUME TypeOK, [Next]_vars
    PROVE  TypeOK'
<1> USE DEF account, money, kyc, ghosts
<1>1. CASE UNCHANGED vars
  BY <1>1 DEF TypeOK, vars
<1>2. CASE RevokeSessions \/ TokenExpires
  BY <1>2 DEF TypeOK, RevokeSessions, TokenExpires
<1>3. CASE CancelDeletion
  BY <1>3 DEF TypeOK, CancelDeletion, Decide
<1>4. CASE Pay \/ PaymentEnds \/ MoneyArrives
  BY <1>4 DEF TypeOK, Pay, PaymentEnds, MoneyArrives
<1>5. ASSUME NEW r \in Requests,
             \/ Suspend(r) \/ Reactivate(r) \/ RequestDeletion(r) \/ SubmitTierUpgrade(r)
             \/ ReviewTierUpgrade(r) \/ Login(r) \/ VerifyEmail(r)
      PROVE  TypeOK'
  <2>1. req' \in [Requests -> Request]
    BY <1>5, StartType DEF Ops, Places, Suspend, Reactivate, RequestDeletion, SubmitTierUpgrade,
       ReviewTierUpgrade, Login, VerifyEmail
  <2> QED
    BY <1>5, <2>1 DEF TypeOK, Suspend, Reactivate, RequestDeletion, SubmitTierUpgrade,
       ReviewTierUpgrade, Login, VerifyEmail
<1>6. ASSUME NEW r \in Requests,
             \/ WriteSuspension(r) \/ EndSessions(r) \/ WriteReactivation(r) \/ CloseCall(r)
             \/ MarkClosed(r) \/ SuspendCall(r) \/ OpenSession(r) \/ MarkEmailVerified(r) \/ Die(r)
      PROVE  TypeOK'
  <2>1. req' \in [Requests -> Request]
    BY <1>6, GoType, OverType DEF Places, WriteSuspension, EndSessions, WriteReactivation, CloseCall,
       MarkClosed, SuspendCall, OpenSession, MarkEmailVerified, Die
  <2> QED
    BY <1>6, <2>1 DEF TypeOK, WriteSuspension, EndSessions, WriteReactivation, CloseCall,
       MarkClosed, SuspendCall, OpenSession, MarkEmailVerified, Die, Statuses
<1>7. ASSUME NEW r \in Requests,
             \/ CompleteForUser(r) \/ InsertRequest(r) \/ SettleRejection(r)
             \/ SetTierUpgradeStatus(r) \/ DecideTierUpgrade(r)
      PROVE  TypeOK'
  <2>1. req' \in [Requests -> Request]
    BY <1>7, OverType DEF CompleteForUser, InsertRequest, SettleRejection, SetTierUpgradeStatus,
       DecideTierUpgrade
  <2> QED
    BY <1>7, <2>1 DEF TypeOK, CompleteForUser, InsertRequest, SettleRejection,
       SetTierUpgradeStatus, DecideTierUpgrade, Decide
<1>8. ASSUME NEW r \in Requests, Close(r)
      PROVE  TypeOK'
  <2>1. [Waiting EXCEPT !.op = "close", !.at = IF status = "suspended" THEN "look" ELSE "suspendCall",
                        !.weSuspended = status # "suspended",
                        !.unseen = {"balance", "payments"}] \in Request
    BY WaitingType DEF Places
  <2> QED
    BY <1>8, <2>1 DEF TypeOK, Close
<1>9. ASSUME NEW r \in Requests, LookAtBalance(r) \/ LookAtPayments(r)
      PROVE  TypeOK'
  <2>1. (balance # 0) \in BOOLEAN /\ (inflight > 0) \in BOOLEAN
    BY DEF TypeOK
  <2>2. CASE SeeAnd(r, "balance", balance # 0)
    BY <2>1, <2>2, SeeType
  <2>3. CASE SeeAnd(r, "payments", inflight > 0)
    BY <2>1, <2>3, SeeType
  <2> QED
    BY <1>9, <2>2, <2>3 DEF LookAtBalance, LookAtPayments
<1>10. ASSUME NEW r \in Requests, ReactivateCall(r)
       PROVE  TypeOK'
  <2>1. verified \in BOOLEAN
    BY DEF TypeOK
  <2>2. req' \in [Requests -> Request]
    BY <1>10, <2>1, OverType DEF ReactivateCall, TypeOK, Request
  <2> QED
    BY <1>10, <2>2 DEF TypeOK, ReactivateCall
<1>11. ASSUME NEW r \in Requests, RejectDeletion(r)
       PROVE  TypeOK'
  <2>1. \A i \in Pending : [Waiting EXCEPT !.op = "reject", !.at = "settle", !.asked = i] \in Request
    BY WaitingType DEF Pending
  <2> QED
    BY <1>11, <2>1 DEF TypeOK, RejectDeletion
<1> QED
  BY <1>1, <1>2, <1>3, <1>4, <1>5, <1>6, <1>7, <1>8, <1>9, <1>10, <1>11 DEF Next

LEMMA InitType ==
    ASSUME Init
    PROVE  TypeOK
<1>1. req \in [Requests -> Request]
  BY WaitingType DEF Init
<1>2. status \in Statuses /\ {verified, session, access} \subseteq BOOLEAN
  BY DEF Init, Statuses
<1>3. balance \in 0..MaxBalance /\ inflight \in 0..MaxInFlight /\ submitted \in 0..MaxSubmitted
  BY DEF Init
<1>4. moved \subseteq Requests /\ {deliberate, stranded} \subseteq BOOLEAN
  BY DEF Init
<1>5. /\ deletion \in [Asked -> {"none", "pending", "completed", "cancelled", "rejected"}]
      /\ answered \in [Asked -> Nat] /\ decided \in Nat
  BY DEF Init
<1>6. tier \in {2, 3} /\ upgrade \in {"none", "under", "approved", "rejected"}
  BY DEF Init
<1> QED
  BY <1>1, <1>2, <1>3, <1>4, <1>5, <1>6 DEF TypeOK

\* Every reachable state is well typed.
THEOREM AccountsTypeCorrect == Spec => []TypeOK
  BY InitType, NextType, PTL DEF Spec

-----------------------------------------------------------------------------
(***************************************************************************)
(* What a closure has been through, and what it has seen.                  *)
(***************************************************************************)
Both == {"balance", "payments"}

\* Where a request is says which operation it belongs to, and that a closure
\* which has yet to look has seen nothing.
RowShape(q) ==
    /\ q.at \in {"suspendCall", "look", "closeCall", "end", "close", "reactivateCall"} => q.op = "close"
    /\ q.at = "suspend" => q.op \in {"suspend", "close"}
    /\ q.op = "close" /\ q.at \in {"suspendCall", "suspend", "block"} => q.unseen = Both /\ q.weSuspended
    /\ q.at = "look" => q.unseen # {}
    /\ q.at = "reactivateCall" => q.weSuspended

\* What has been looked at without blocking was empty, and still is.
Seen(q) ==
    /\ q.at = "look" /\ ~q.blocked /\ "balance" \notin q.unseen => balance = 0
    /\ q.at = "look" /\ ~q.blocked /\ "payments" \notin q.unseen => inflight = 0
    /\ q.at \in {"closeCall", "end", "close"} => balance = 0 /\ inflight = 0

\* A closure that will close the account or put it back, whatever it sees.
Holder(q) ==
    /\ q.op = "close" /\ q.weSuspended
    /\ q.at \in {"block", "look", "closeCall", "end", "close", "reactivateCall", "reactivate"}

Shaped == \A r \in Requests : RowShape(req[r])
SeenEmpty == \A r \in Requests \ moved : Seen(req[r])
Answerable ==
    status = "suspended" /\ ~deliberate /\ ~stranded => \E r \in Requests : Holder(req[r])

ClosureInv == TypeOK /\ Shaped /\ SeenEmpty /\ Answerable

\* A step that rewrites one request and leaves the money alone.
LEMMA RowStep ==
    ASSUME ClosureInv, NEW r \in Requests, NEW kept \in Request, req' = [req EXCEPT ![r] = kept],
           UNCHANGED money, moved' = moved \/ moved' = moved \ {r}, RowShape(kept),
           r \notin moved' => Seen(kept)
    PROVE  Shaped' /\ SeenEmpty'
<1>1. req \in [Requests -> Request]
  BY DEF ClosureInv, TypeOK
<1>2. req'[r] = kept /\ \A s \in Requests \ {r} : req'[s] = req[s]
  BY <1>1
<1>3. Shaped'
  BY <1>2 DEF ClosureInv, Shaped, RowShape, Both
<1>4. ASSUME NEW s \in Requests, s \notin moved'
      PROVE  Seen(req[s])'
  <2>1. CASE s = r
    BY <1>2, <1>4, <2>1 DEF Seen, money
  <2>2. CASE s # r
    BY <1>2, <1>4, <2>2 DEF ClosureInv, SeenEmpty, Seen, money
  <2> QED
    BY <2>1, <2>2
<1> QED
  BY <1>3, <1>4 DEF SeenEmpty

\* Who holds the account still does, if the request that moved was not holding it or goes on to.
LEMMA HolderStep ==
    ASSUME ClosureInv, NEW r \in Requests, NEW kept \in Request, req' = [req EXCEPT ![r] = kept],
           UNCHANGED <<status, deliberate>>, stranded' = stranded,
           Holder(req[r]) /\ status = "suspended" => Holder(kept)
    PROVE  Answerable'
<1>1. req'[r] = kept /\ \A s \in Requests \ {r} : req'[s] = req[s]
  BY DEF ClosureInv, TypeOK
<1>2. SUFFICES ASSUME status = "suspended", ~deliberate, ~stranded
               PROVE  \E s \in Requests : Holder(req'[s])
  BY DEF Answerable, Holder
<1>3. PICK s \in Requests : Holder(req[s])
  BY <1>2 DEF ClosureInv, Answerable
<1>4. CASE s = r
  BY <1>1, <1>2, <1>3, <1>4
<1>5. CASE s # r
  BY <1>1, <1>3, <1>5
<1> QED
  BY <1>4, <1>5

\* A request that begins, none of them a closure.
LEMMA StartKeeps ==
    ASSUME ClosureInv, NEW r \in Requests, NEW op \in Ops \ {"close"},
           NEW place \in {"suspend", "reactivate", "open", "write", "insert", "decide"},
           place = "suspend" => op = "suspend", Start(r, op, place),
           UNCHANGED <<status, money, ghosts>>
    PROVE  Shaped' /\ SeenEmpty' /\ Answerable'
<1> DEFINE kept == [Waiting EXCEPT !.op = op, !.at = place, !.verified = verified]
<1>1. kept \in Request
  <2>1. op \in Ops /\ place \in Places /\ verified \in BOOLEAN
    BY DEF ClosureInv, TypeOK, Places
  <2> QED
    BY <2>1, WaitingType
<1>2. kept.op = op /\ kept.at = place
  BY DEF Waiting
<1>3. req' = [req EXCEPT ![r] = kept] /\ req[r].at = "idle"
  BY DEF Start
<1>4. op # "close"
  OBVIOUS
<1> HIDE DEF kept
<1>5. RowShape(kept) /\ Seen(kept) /\ ~Holder(req[r])
  BY <1>2, <1>3, <1>4 DEF RowShape, Seen, Holder
<1> QED
  BY <1>1, <1>3, <1>5, RowStep, HolderStep DEF ghosts

\* A request that ends, and was not holding the account.
LEMMA OverKeeps ==
    ASSUME ClosureInv, NEW r \in Requests, Over(r), UNCHANGED money,
           moved' = moved \/ moved' = moved \ {r}
    PROVE  /\ Shaped' /\ SeenEmpty'
           /\ UNCHANGED <<status, deliberate, stranded>> /\ ~Holder(req[r]) => Answerable'
<1>1. Waiting \in Request
  BY WaitingType
<1>2. req' = [req EXCEPT ![r] = Waiting]
  BY DEF Over
<1>3. RowShape(Waiting) /\ Seen(Waiting)
  BY DEF RowShape, Seen, Waiting
<1> QED
  BY <1>1, <1>2, <1>3, RowStep, HolderStep

\* A request that goes to another place, as it is.
LEMMA GoKeeps ==
    ASSUME ClosureInv, NEW r \in Requests, NEW place \in Places, Go(r, place), UNCHANGED money,
           moved' = moved \/ moved' = moved \ {r},
           RowShape([req[r] EXCEPT !.at = place]), r \notin moved' => Seen([req[r] EXCEPT !.at = place])
    PROVE  /\ Shaped' /\ SeenEmpty'
           /\ /\ UNCHANGED <<status, deliberate, stranded>>
              /\ Holder(req[r]) /\ status = "suspended" => Holder([req[r] EXCEPT !.at = place])
              => Answerable'
<1> DEFINE kept == [req[r] EXCEPT !.at = place]
<1>1. kept \in Request
  BY DEF ClosureInv, TypeOK, Request, Places
<1>2. req' = [req EXCEPT ![r] = kept]
  BY DEF Go
<1> HIDE DEF kept
<1> QED
  BY <1>1, <1>2, RowStep, HolderStep DEF kept

\* Looking: the first look takes the request out of the moved ones.
LEMMA SeeKeeps ==
    ASSUME ClosureInv, NEW r \in Requests, NEW what \in Both, NEW blocks \in BOOLEAN,
           SeeAnd(r, what, blocks),
           what = "balance" /\ ~blocks => balance = 0, what = "payments" /\ ~blocks => inflight = 0
    PROVE  Shaped' /\ SeenEmpty' /\ Answerable'
<1> DEFINE blocked == req[r].blocked \/ blocks
<1>1. req[r] \in Request /\ RowShape(req[r]) /\ (r \notin moved => Seen(req[r]))
  BY DEF ClosureInv, TypeOK, Shaped, SeenEmpty
<1>2. req[r].at = "look" /\ what \in req[r].unseen /\ req[r].unseen \subseteq Both
      /\ req[r].op = "close" /\ req[r].blocked \in BOOLEAN /\ req[r].weSuspended \in BOOLEAN
  BY <1>1 DEF SeeAnd, RowShape, Request, Both
<1>3. UNCHANGED <<status, money, deliberate, stranded>>
  BY DEF SeeAnd, account
<1>4. CASE req[r].unseen = {what} /\ ~blocked
  <2>1. Go(r, "closeCall") /\ moved' = moved
    BY <1>4 DEF SeeAnd, Verdict
  <2>2. r \notin moved' => balance = 0 /\ inflight = 0
    BY <1>1, <1>2, <1>4, <2>1 DEF Seen, Both
  <2>3. /\ RowShape([req[r] EXCEPT !.at = "closeCall"])
        /\ r \notin moved' => Seen([req[r] EXCEPT !.at = "closeCall"])
        /\ Holder(req[r]) => Holder([req[r] EXCEPT !.at = "closeCall"])
    BY <1>1, <1>2, <2>2 DEF RowShape, Seen, Holder, Request
  <2> QED
    BY <1>3, <2>1, <2>3, GoKeeps DEF Places
<1>5. CASE req[r].unseen = {what} /\ blocked /\ req[r].weSuspended
  <2>1. Go(r, "reactivateCall") /\ moved' = moved
    BY <1>5 DEF SeeAnd, Verdict
  <2>2. /\ RowShape([req[r] EXCEPT !.at = "reactivateCall"])
        /\ Seen([req[r] EXCEPT !.at = "reactivateCall"])
        /\ Holder(req[r]) => Holder([req[r] EXCEPT !.at = "reactivateCall"])
    BY <1>1, <1>2, <1>5 DEF RowShape, Seen, Holder, Request
  <2> QED
    BY <1>3, <2>1, <2>2, GoKeeps DEF Places
<1>6. CASE req[r].unseen = {what} /\ blocked /\ ~req[r].weSuspended
  <2>1. Over(r) /\ moved' = moved /\ ~Holder(req[r])
    BY <1>6 DEF SeeAnd, Verdict, Holder
  <2> QED
    BY <1>3, <2>1, OverKeeps
<1>7. CASE req[r].unseen # {what}
  <2> DEFINE mid == [req[r] EXCEPT !.unseen = req[r].unseen \ {what}]
  <2> DEFINE kept == [mid EXCEPT !.blocked = blocked]
  <2>1. req' = [req EXCEPT ![r] = kept] /\ moved' = moved \ {r}
    BY <1>7 DEF SeeAnd, ClosureInv, TypeOK
  <2>2. req[r].unseen = Both
    BY <1>2, <1>7 DEF Both
  <2>3. blocked \in BOOLEAN
    BY <1>2
  <2>4. /\ mid \in Request /\ mid.unseen = Both \ {what} /\ mid.at = "look" /\ mid.op = "close"
        /\ mid.weSuspended = req[r].weSuspended
    BY <1>1, <1>2, <2>2 DEF Request, Both
  <2> HIDE DEF mid
  <2>5. /\ kept \in Request /\ kept.unseen = Both \ {what} /\ kept.at = "look" /\ kept.op = "close"
        /\ kept.weSuspended = req[r].weSuspended /\ kept.blocked = blocked
    BY <2>3, <2>4 DEF Request
  <2> HIDE DEF kept
  <2>6. RowShape(kept) /\ Seen(kept) /\ (Holder(req[r]) => Holder(kept))
    BY <2>5 DEF RowShape, Seen, Holder, Both
  <2> QED
    BY <1>3, <2>1, <2>5, <2>6, RowStep, HolderStep
<1> QED
  BY <1>2, <1>4, <1>5, <1>6, <1>7

\* A step that rewrites no request.
LEMMA QuietKeeps ==
    ASSUME ClosureInv, UNCHANGED <<status, req, deliberate, stranded>>,
           moved' = Requests \/ (moved' = moved /\ UNCHANGED money)
    PROVE  Shaped' /\ SeenEmpty' /\ Answerable'
  BY DEF ClosureInv, Shaped, SeenEmpty, Answerable, RowShape, Seen, Holder, money

\* Every step keeps what is known of the closures.
LEMMA ClosureNext ==
    ASSUME ClosureInv, [Next]_vars
    PROVE  ClosureInv'
<1> USE DEF account, ghosts
<1>1. TypeOK'
  BY NextType DEF ClosureInv
<1> SUFFICES Shaped' /\ SeenEmpty' /\ Answerable'
  BY <1>1 DEF ClosureInv
<1>2. CASE UNCHANGED vars \/ RevokeSessions \/ CancelDeletion \/ TokenExpires
  BY <1>2, QuietKeeps DEF vars, RevokeSessions, CancelDeletion, TokenExpires
<1>3. CASE Pay \/ PaymentEnds \/ MoneyArrives
  BY <1>3, QuietKeeps DEF Pay, PaymentEnds, MoneyArrives
<1>4. ASSUME NEW r \in Requests
      PROVE  req[r] \in Request /\ RowShape(req[r]) /\ (r \notin moved => Seen(req[r]))
  BY DEF ClosureInv, TypeOK, Shaped, SeenEmpty
<1>5. ASSUME NEW r \in Requests,
             \/ Suspend(r) \/ Reactivate(r) \/ RequestDeletion(r) \/ SubmitTierUpgrade(r)
             \/ ReviewTierUpgrade(r) \/ Login(r) \/ VerifyEmail(r)
      PROVE  Shaped' /\ SeenEmpty' /\ Answerable'
  BY <1>5, StartKeeps DEF Ops, Suspend, Reactivate, RequestDeletion, SubmitTierUpgrade,
     ReviewTierUpgrade, Login, VerifyEmail
<1>6. ASSUME NEW r \in Requests,
             \/ CompleteForUser(r) \/ InsertRequest(r) \/ SettleRejection(r) \/ OpenSession(r)
             \/ SetTierUpgradeStatus(r) \/ DecideTierUpgrade(r)
      PROVE  Shaped' /\ SeenEmpty' /\ Answerable'
  <2>1. ~Holder(req[r])
    BY <1>6 DEF CompleteForUser, InsertRequest, SettleRejection, OpenSession, SetTierUpgradeStatus,
       DecideTierUpgrade, At, Holder
  <2>2. Over(r) /\ UNCHANGED <<status, money, ghosts>>
    BY <1>6 DEF CompleteForUser, InsertRequest, SettleRejection, OpenSession, SetTierUpgradeStatus,
       DecideTierUpgrade
  <2> QED
    BY <2>1, <2>2, OverKeeps
<1>7. ASSUME NEW r \in Requests, RejectDeletion(r)
      PROVE  Shaped' /\ SeenEmpty' /\ Answerable'
  <2>1. PICK i \in Pending : req' = [req EXCEPT ![r] = [Waiting EXCEPT !.op = "reject", !.at = "settle", !.asked = i]]
    BY <1>7 DEF RejectDeletion
  <2> DEFINE kept == [Waiting EXCEPT !.op = "reject", !.at = "settle", !.asked = i]
  <2>2. kept \in Request
    BY WaitingType DEF Pending
  <2>3. kept.op = "reject" /\ kept.at = "settle"
    BY DEF Waiting
  <2> HIDE DEF kept
  <2>4. RowShape(kept) /\ Seen(kept) /\ ~Holder(req[r])
    BY <1>7, <2>3 DEF RejectDeletion, RowShape, Seen, Holder
  <2>5. UNCHANGED <<status, money, ghosts>> /\ req' = [req EXCEPT ![r] = kept]
    BY <1>7, <2>1 DEF RejectDeletion, kept
  <2> QED
    BY <2>2, <2>4, <2>5, RowStep, HolderStep
<1>8. ASSUME NEW r \in Requests, Close(r)
      PROVE  Shaped' /\ SeenEmpty' /\ Answerable'
  <2> DEFINE kept == [Waiting EXCEPT !.op = "close",
                       !.at = IF status = "suspended" THEN "look" ELSE "suspendCall",
                       !.weSuspended = status # "suspended", !.unseen = {"balance", "payments"}]
  <2>1. kept \in Request
    BY WaitingType DEF Places
  <2>2. /\ kept.op = "close" /\ kept.unseen = Both
        /\ \/ status = "suspended" /\ kept.at = "look"
           \/ status # "suspended" /\ kept.at = "suspendCall" /\ kept.weSuspended
    BY DEF Waiting, Both
  <2>3. UNCHANGED <<status, money, ghosts>> /\ req' = [req EXCEPT ![r] = kept] /\ req[r].at = "idle"
    BY <1>8 DEF Close
  <2> HIDE DEF kept
  <2>4. RowShape(kept) /\ Seen(kept) /\ ~Holder(req[r])
    BY <2>2, <2>3 DEF RowShape, Seen, Holder, Both
  <2> QED
    BY <2>1, <2>3, <2>4, RowStep, HolderStep
<1>9. ASSUME NEW r \in Requests, LookAtBalance(r) \/ LookAtPayments(r)
      PROVE  Shaped' /\ SeenEmpty' /\ Answerable'
  <2>1. (balance # 0) \in BOOLEAN /\ (inflight > 0) \in BOOLEAN /\ (~(inflight > 0) => inflight = 0)
    BY DEF ClosureInv, TypeOK
  <2>2. CASE SeeAnd(r, "balance", balance # 0)
    BY <2>1, <2>2, SeeKeeps DEF Both
  <2>3. CASE SeeAnd(r, "payments", inflight > 0)
    BY <2>1, <2>3, SeeKeeps DEF Both
  <2> QED
    BY <1>9, <2>2, <2>3 DEF LookAtBalance, LookAtPayments
<1>10. ASSUME NEW r \in Requests, WriteSuspension(r)
       PROVE  Shaped' /\ SeenEmpty' /\ Answerable'
  <2> DEFINE kept == [req[r] EXCEPT !.at = "block"]
  <2>1. kept \in Request /\ kept.at = "block" /\ kept.op = req[r].op /\ kept.weSuspended = req[r].weSuspended
        /\ kept.unseen = req[r].unseen
    BY <1>4 DEF Request
  <2>2. /\ req[r].at = "suspend" /\ UNCHANGED <<money, moved, stranded>> /\ req' = [req EXCEPT ![r] = kept]
        /\ deliberate' = (deliberate \/ req[r].op = "suspend")
    BY <1>10 DEF WriteSuspension, Go
  <2> HIDE DEF kept
  <2>3. RowShape(kept) /\ Seen(kept)
    BY <1>4, <2>1, <2>2 DEF RowShape, Seen
  <2>4. req[r].op = "suspend" \/ Holder(kept)
    BY <1>4, <2>1, <2>2 DEF RowShape, Holder
  <2>5. req'[r] = kept
    BY <2>2 DEF ClosureInv, TypeOK
  <2> QED
    BY <2>1, <2>2, <2>3, <2>4, <2>5, RowStep DEF Answerable, Holder
<1>11. ASSUME NEW r \in Requests, EndSessions(r)
       PROVE  Shaped' /\ SeenEmpty' /\ Answerable'
  <2>1. UNCHANGED <<status, money, ghosts>> /\ req[r].at \in {"block", "end"}
    BY <1>11 DEF EndSessions
  <2>2. CASE req[r].at = "end"
    <3>1. Go(r, "close")
      BY <1>11, <2>2 DEF EndSessions
    <3>2. /\ RowShape([req[r] EXCEPT !.at = "close"])
          /\ r \notin moved => Seen([req[r] EXCEPT !.at = "close"])
          /\ Holder(req[r]) => Holder([req[r] EXCEPT !.at = "close"])
      BY <1>4, <2>2 DEF RowShape, Seen, Holder, Request
    <3> QED
      BY <2>1, <3>1, <3>2, GoKeeps DEF Places
  <2>3. CASE req[r].at = "block" /\ req[r].op = "close"
    <3>1. Go(r, "look")
      BY <1>11, <2>3 DEF EndSessions
    <3>2. /\ RowShape([req[r] EXCEPT !.at = "look"])
          /\ r \notin moved => Seen([req[r] EXCEPT !.at = "look"])
          /\ Holder(req[r]) => Holder([req[r] EXCEPT !.at = "look"])
      BY <1>4, <2>3 DEF RowShape, Seen, Holder, Request, Both
    <3> QED
      BY <2>1, <3>1, <3>2, GoKeeps DEF Places
  <2>4. CASE req[r].at = "block" /\ req[r].op # "close"
    <3>1. Over(r) /\ ~Holder(req[r])
      BY <1>11, <2>4 DEF EndSessions, Holder
    <3> QED
      BY <2>1, <3>1, OverKeeps
  <2> QED
    BY <2>1, <2>2, <2>3, <2>4
<1>12. ASSUME NEW r \in Requests, WriteReactivation(r)
       PROVE  Shaped' /\ SeenEmpty' /\ Answerable'
  <2>1. Over(r) /\ UNCHANGED <<money, moved>> /\ status' # "suspended"
    BY <1>12 DEF WriteReactivation
  <2> QED
    BY <2>1, OverKeeps DEF Answerable
<1>13. ASSUME NEW r \in Requests, CloseCall(r)
       PROVE  Shaped' /\ SeenEmpty' /\ Answerable'
  <2>1. UNCHANGED <<status, money, ghosts>> /\ req[r].at = "closeCall"
    BY <1>13 DEF CloseCall
  <2>2. CASE status = "closed"
    <3>1. Over(r) /\ status' # "suspended"
      BY <1>13, <2>1, <2>2 DEF CloseCall
    <3> QED
      BY <2>1, <3>1, OverKeeps DEF Answerable
  <2>3. CASE status # "closed"
    <3>1. Go(r, "end")
      BY <1>13, <2>3 DEF CloseCall
    <3>2. /\ RowShape([req[r] EXCEPT !.at = "end"])
          /\ r \notin moved => Seen([req[r] EXCEPT !.at = "end"])
          /\ Holder(req[r]) => Holder([req[r] EXCEPT !.at = "end"])
      BY <1>4, <2>1 DEF RowShape, Seen, Holder, Request
    <3> QED
      BY <2>1, <3>1, <3>2, GoKeeps DEF Places
  <2> QED
    BY <2>2, <2>3
<1>14. ASSUME NEW r \in Requests, MarkClosed(r) \/ MarkEmailVerified(r)
       PROVE  Shaped' /\ SeenEmpty' /\ Answerable'
  <2>1. UNCHANGED <<money, moved>> /\ status' # "suspended" /\ (Go(r, "complete") \/ Go(r, "open"))
    BY <1>14 DEF MarkClosed, MarkEmailVerified
  <2>2. /\ RowShape([req[r] EXCEPT !.at = "complete"]) /\ RowShape([req[r] EXCEPT !.at = "open"])
        /\ Seen([req[r] EXCEPT !.at = "complete"]) /\ Seen([req[r] EXCEPT !.at = "open"])
    BY <1>4 DEF RowShape, Seen, Request
  <2> QED
    BY <2>1, <2>2, GoKeeps DEF Places, Answerable
<1>15. ASSUME NEW r \in Requests, SuspendCall(r)
       PROVE  Shaped' /\ SeenEmpty' /\ Answerable'
  <2>1. UNCHANGED <<status, money, ghosts>> /\ req[r].at = "suspendCall" /\ ~Holder(req[r])
    BY <1>15 DEF SuspendCall, Holder
  <2>2. /\ RowShape([req[r] EXCEPT !.at = "look"]) /\ RowShape([req[r] EXCEPT !.at = "suspend"])
        /\ Seen([req[r] EXCEPT !.at = "look"]) /\ Seen([req[r] EXCEPT !.at = "suspend"])
    BY <1>4, <2>1 DEF RowShape, Seen, Request, Both
  <2>3. Go(r, "look") \/ Go(r, "suspend") \/ Over(r)
    BY <1>15 DEF SuspendCall
  <2> QED
    BY <2>1, <2>2, <2>3, GoKeeps, OverKeeps DEF Places
<1>16. ASSUME NEW r \in Requests, ReactivateCall(r)
       PROVE  Shaped' /\ SeenEmpty' /\ Answerable'
  <2>1. UNCHANGED <<status, money, ghosts>> /\ req[r].at = "reactivateCall"
    BY <1>16 DEF ReactivateCall
  <2>2. CASE status = "suspended"
    <3> DEFINE mid == [req[r] EXCEPT !.at = "reactivate"]
    <3> DEFINE kept == [mid EXCEPT !.verified = verified]
    <3>1. req' = [req EXCEPT ![r] = kept]
      BY <1>16, <2>2 DEF ReactivateCall, ClosureInv, TypeOK
    <3>2. mid \in Request /\ mid.at = "reactivate" /\ mid.op = req[r].op /\ mid.weSuspended = req[r].weSuspended
      BY <1>4 DEF Request
    <3>3. verified \in BOOLEAN
      BY DEF ClosureInv, TypeOK
    <3> HIDE DEF mid
    <3>4. kept \in Request /\ kept.at = "reactivate" /\ kept.op = mid.op /\ kept.weSuspended = mid.weSuspended
      BY <3>2, <3>3 DEF Request
    <3> HIDE DEF kept
    <3>5. RowShape(kept) /\ Seen(kept) /\ (Holder(req[r]) => Holder(kept))
      BY <3>2, <3>4 DEF RowShape, Seen, Holder
    <3> QED
      BY <2>1, <3>1, <3>4, <3>5, RowStep, HolderStep
  <2>3. CASE status # "suspended"
    <3>1. Over(r) /\ status' # "suspended"
      BY <1>16, <2>1, <2>3 DEF ReactivateCall
    <3> QED
      BY <2>1, <3>1, OverKeeps DEF Answerable
  <2> QED
    BY <2>2, <2>3
<1>17. ASSUME NEW r \in Requests, Die(r)
       PROVE  Shaped' /\ SeenEmpty' /\ Answerable'
  <2>1. Over(r) /\ UNCHANGED <<money, moved>> /\ stranded' = TRUE
    BY <1>17 DEF Die
  <2> QED
    BY <2>1, OverKeeps DEF Answerable
<1> QED
  BY <1>2, <1>3, <1>5, <1>6, <1>7, <1>8, <1>9, <1>10, <1>11, <1>12, <1>13, <1>14, <1>15, <1>16,
     <1>17 DEF Next

\* No request holds anything at first.
LEMMA ClosureInit ==
    ASSUME Init
    PROVE  ClosureInv
<1>1. \A r \in Requests : req[r] = Waiting
  BY DEF Init
<1>2. RowShape(Waiting) /\ Seen(Waiting)
  BY DEF RowShape, Seen, Waiting
<1>3. status # "suspended"
  BY DEF Init
<1> QED
  BY <1>1, <1>2, <1>3, InitType DEF ClosureInv, Shaped, SeenEmpty, Answerable

LEMMA ClosureInvariant == Spec => []ClosureInv
  BY ClosureInit, ClosureNext, PTL DEF Spec

\* Whatever the requests and however they interleave, a closure that goes ahead
\* leaves no money and no payment behind, unless money moved after its first
\* look (CustomerActionsService.close).
THEOREM ClosuresLeaveNothing == Spec => []ClosedEmpty
<1>1. ClosureInv => ClosedEmpty
  BY DEF ClosureInv, SeenEmpty, Seen, ClosedEmpty
<1> QED
  BY <1>1, ClosureInvariant, PTL

\* With nothing under way, an account is suspended because staff wanted it, or
\* because a request died: a refused closure puts it back.
THEOREM RefusedClosuresPutBack == Spec => []RestoredAfterRefusal
<1>1. ClosureInv => RestoredAfterRefusal
  BY DEF ClosureInv, Answerable, Holder, RestoredAfterRefusal, InFlight
<1> QED
  BY <1>1, ClosureInvariant, PTL

-----------------------------------------------------------------------------
(***************************************************************************)
(* Decisions.                                                              *)
(***************************************************************************)
\* What is open has not been decided.
DecisionInv ==
    /\ TypeOK
    /\ \A i \in Asked : /\ answered[i] <= 1
                        /\ deletion[i] \in {"none", "pending"} => answered[i] = 0
    /\ decided <= submitted
    /\ upgrade = "under" => decided < submitted

\* A decision reaches only what is pending, and it is pending no more.
LEMMA DecideKeeps ==
    ASSUME DecisionInv, NEW S \in SUBSET Pending, NEW d \in {"completed", "cancelled", "rejected"},
           Decide(S, d), TypeOK', UNCHANGED <<upgrade, submitted, decided>>
    PROVE  DecisionInv'
<1>1. ASSUME NEW i \in Asked
      PROVE  /\ answered'[i] <= 1
             /\ deletion'[i] \in {"none", "pending"} => answered'[i] = 0
  <2>1. /\ answered[i] \in Nat /\ answered[i] <= 1
        /\ deletion[i] \in {"none", "pending"} => answered[i] = 0
    BY DEF DecisionInv, TypeOK
  <2>2. CASE i \in S
    BY <2>1, <2>2 DEF Decide, Pending
  <2>3. CASE i \notin S
    BY <2>1, <2>3 DEF Decide
  <2> QED
    BY <2>2, <2>3
<1> QED
  BY <1>1 DEF DecisionInv

LEMMA DecisionNext ==
    ASSUME DecisionInv, [Next]_vars
    PROVE  DecisionInv'
<1> USE DEF account, money, kyc, ghosts
<1>1. TypeOK'
  BY NextType DEF DecisionInv
<1>2. CASE UNCHANGED <<deletion, upgrade, submitted, decided, answered>>
  BY <1>1, <1>2 DEF DecisionInv
<1>3. CASE CancelDeletion
  BY <1>1, <1>3, DecideKeeps DEF CancelDeletion
<1>4. ASSUME NEW r \in Requests, CompleteForUser(r) \/ SettleRejection(r)
      PROVE  DecisionInv'
  <2>1. {req[r].asked} \cap Pending \in SUBSET Pending
    OBVIOUS
  <2> QED
    BY <1>1, <1>4, <2>1, DecideKeeps DEF CompleteForUser, SettleRejection
<1>5. ASSUME NEW r \in Requests, InsertRequest(r)
      PROVE  DecisionInv'
  <2>1. UNCHANGED <<upgrade, submitted, decided, answered>>
    BY <1>5 DEF InsertRequest
  <2>2. CASE UNCHANGED deletion
    BY <1>1, <2>1, <2>2 DEF DecisionInv
  <2>3. ASSUME NEW i \in Asked, deletion[i] = "none", deletion' = [deletion EXCEPT ![i] = "pending"]
        PROVE  DecisionInv'
    BY <1>1, <2>1, <2>3 DEF DecisionInv, TypeOK
  <2> QED
    BY <1>5, <2>2, <2>3 DEF InsertRequest
<1>6. ASSUME NEW r \in Requests, SetTierUpgradeStatus(r)
      PROVE  DecisionInv'
  BY <1>1, <1>6 DEF SetTierUpgradeStatus, DecisionInv, TypeOK
<1>7. ASSUME NEW r \in Requests, DecideTierUpgrade(r)
      PROVE  DecisionInv'
  BY <1>1, <1>7 DEF DecideTierUpgrade, DecisionInv, TypeOK
<1>8. CASE UNCHANGED vars \/ RevokeSessions \/ TokenExpires \/ Pay \/ PaymentEnds \/ MoneyArrives
  BY <1>2, <1>8 DEF vars, RevokeSessions, TokenExpires, Pay, PaymentEnds, MoneyArrives
<1>9. ASSUME NEW r \in Requests,
             \/ Suspend(r) \/ WriteSuspension(r) \/ EndSessions(r) \/ Reactivate(r)
             \/ WriteReactivation(r) \/ CloseCall(r) \/ MarkClosed(r) \/ Close(r) \/ SuspendCall(r)
             \/ LookAtBalance(r) \/ LookAtPayments(r) \/ ReactivateCall(r) \/ RequestDeletion(r)
             \/ RejectDeletion(r) \/ SubmitTierUpgrade(r) \/ ReviewTierUpgrade(r) \/ Login(r)
             \/ OpenSession(r) \/ VerifyEmail(r) \/ MarkEmailVerified(r) \/ Die(r)
      PROVE  DecisionInv'
  BY <1>2, <1>9 DEF Suspend, WriteSuspension, EndSessions, Reactivate, WriteReactivation, CloseCall,
     MarkClosed, Close, SuspendCall, LookAtBalance, LookAtPayments, SeeAnd, ReactivateCall,
     RequestDeletion, RejectDeletion, SubmitTierUpgrade, ReviewTierUpgrade, Login, OpenSession,
     VerifyEmail, MarkEmailVerified, Die
<1> QED
  BY <1>3, <1>4, <1>5, <1>6, <1>7, <1>8, <1>9 DEF Next

\* However many of them are decided at once, a deletion request has one answer
\* and a tier-3 submission at most one (DeletionService, decideTierUpgrade).
THEOREM DecisionsAreSingle == Spec => []DecidedOnce
<1>1. Init => DecisionInv
  <2> SUFFICES ASSUME Init PROVE DecisionInv
    OBVIOUS
  <2>1. \A i \in Asked : answered[i] = 0
    BY DEF Init
  <2>2. decided = 0 /\ submitted = 0 /\ upgrade = "none"
    BY DEF Init
  <2> QED
    BY <2>1, <2>2, InitType DEF DecisionInv
<1>2. DecisionInv => DecidedOnce
  BY DEF DecisionInv, DecidedOnce
<1> QED
  BY <1>1, <1>2, DecisionNext, PTL DEF Spec

-----------------------------------------------------------------------------
(***************************************************************************)
(* What is around the account.                                             *)
(***************************************************************************)
HIDE AccountsAssumption

\* Whichever part a behaviour runs, a step of it is a step of each part or leaves
\* that part as it is.
LEMMA Parts ==
    /\ AccountsInit => KD!Init /\ NV!Init /\ SA!Init /\ CA!Init
    /\ [AccountsNext]_<<part, vars, othersVars>> =>
          /\ [KD!Next]_KD!vars /\ [NV!Next]_NV!vars
          /\ [SA!Next]_SA!vars /\ [CA!Next]_CA!vars
<1> USE DEF othersVars, documentVars, ninVars, staffVars, customerVars
<1>1. AccountsInit => KD!Init /\ NV!Init /\ SA!Init /\ CA!Init
  BY DEF AccountsInit
<1>2. [AccountsNext]_<<part, vars, othersVars>> => [KD!Next]_KD!vars /\ [NV!Next]_NV!vars
  BY DEF AccountsNext, KD!vars, NV!vars
<1>3. [AccountsNext]_<<part, vars, othersVars>> => [SA!Next]_SA!vars /\ [CA!Next]_CA!vars
  BY DEF AccountsNext, SA!vars, CA!vars
<1> QED
  BY <1>1, <1>2, <1>3

-----------------------------------------------------------------------------
(***************************************************************************)
(* Documents that a customer uploads (KycDocuments).                       *)
(***************************************************************************)
\* An upload that has stored its file and not yet named it in the row.
Coming(u) == upload[u].at \in {"finding", "removing", "updating", "inserting"}

\* Its file is there, and no one can have seen it in the row.
Unnamed(u) == u \in stored /\ u # row /\ \A v \in Uploads : upload[v].seen # u

\* Files are where the uploads under way need them.  "Before its first step no
\* row names an upload's file" is what lets a file that is about to be removed be
\* an old one.
FilesInv ==
    /\ KD!TypeOK /\ KD!FileIsThere
    /\ \A u \in Uploads :
          /\ Coming(u) => Unnamed(u)
          /\ upload[u].at = "idle" => u # row /\ \A v \in Uploads : upload[v].seen # u

\* Every step keeps the files that are needed.
LEMMA FilesNext ==
    ASSUME FilesInv, [KD!Next]_KD!vars, KD!NoKey \notin Uploads
    PROVE  FilesInv'
<1> USE DEF KD!To, KD!NewKey, KD!NoKey
<1>1. ASSUME NEW u \in Uploads, KD!Put(u)
      PROVE  FilesInv'
  BY <1>1 DEF FilesInv, KD!TypeOK, KD!FileIsThere, Coming, Unnamed, KD!Put, KD!UploadPhases, KD!Keys
<1>2. ASSUME NEW u \in Uploads, KD!FindExisting(u)
      PROVE  FilesInv'
  BY <1>2 DEF FilesInv, KD!TypeOK, KD!FileIsThere, Coming, Unnamed, KD!FindExisting, KD!UploadPhases,
     KD!Keys
<1>3. ASSUME NEW u \in Uploads, KD!Remove(u)
      PROVE  FilesInv'
  BY <1>3 DEF FilesInv, KD!TypeOK, KD!FileIsThere, Coming, Unnamed, KD!Remove, KD!UploadPhases, KD!Keys
<1>4. ASSUME NEW u \in Uploads, KD!Update(u) \/ KD!Insert(u)
      PROVE  FilesInv'
  BY <1>4 DEF FilesInv, KD!TypeOK, KD!FileIsThere, Coming, Unnamed, KD!Update, KD!Insert,
     KD!UploadPhases, KD!Keys
<1>5. ASSUME NEW u \in Uploads, KD!Cut(u)
      PROVE  FilesInv'
  BY <1>5 DEF FilesInv, KD!TypeOK, KD!FileIsThere, Coming, Unnamed, KD!Cut, KD!UploadPhases, KD!Keys
<1>6. CASE UNCHANGED KD!vars
  BY <1>6 DEF FilesInv, KD!TypeOK, KD!FileIsThere, Coming, Unnamed, KD!vars
<1> QED
  BY <1>1, <1>2, <1>3, <1>4, <1>5, <1>6 DEF KD!Next

\* The file that the row of a document names is in the store, however many uploads
\* of that document run at once and wherever one is cut off
\* (KycDocumentsService.upload).
THEOREM FilesStay == AccountsSpec => []FileIsThere
<1>1. KD!Init => FilesInv
  BY AroundAssumption
     DEF KD!Init, FilesInv, KD!TypeOK, KD!FileIsThere, Coming, Unnamed, KD!UploadPhases, KD!Keys, KD!NoKey
<1>2. FilesInv => FileIsThere
  BY DEF FilesInv, FileIsThere
<1>3. FilesInv /\ [KD!Next]_KD!vars => FilesInv'
  BY FilesNext, AroundAssumption
<1> QED
  BY <1>1, <1>2, <1>3, Parts, PTL DEF AccountsSpec

-----------------------------------------------------------------------------
(***************************************************************************)
(* Checks of a NIN (NinVerification).                                      *)
(***************************************************************************)
\* A request that has spent a session and not come to an end.
Spending(r) == check[r].at \in {"looking", "asking", "writing"}

\* A session is in one place: not minted, pending, spent by one request that is
\* under way, or over.
LivenessInv ==
    /\ NV!TypeOK /\ NV!LivenessSpentOnce
    /\ \A r \in Checks : Spending(r) =>
          /\ check[r].of \in Customers /\ check[r].on \in minted
          /\ pending[check[r].on] = NV!Nobody /\ vouched[check[r].on] = 0
          /\ \A q \in Checks : Spending(q) /\ check[q].on = check[r].on => q = r
    /\ \A s \in Liveness :
          /\ pending[s] # NV!Nobody => s \in minted /\ vouched[s] = 0
          /\ s \notin minted => vouched[s] = 0

\* Every step keeps a session in one place.
LEMMA LivenessNext ==
    ASSUME LivenessInv, [NV!Next]_NV!vars
    PROVE  LivenessInv'
<1> USE DEF NV!To, LivenessInv, NV!TypeOK, NV!LivenessSpentOnce, Spending, NV!Check
<1>1. ASSUME NEW c \in Customers, NV!CreateNinLivenessSession(c)
      PROVE  LivenessInv'
  BY <1>1 DEF NV!CreateNinLivenessSession
<1>2. ASSUME NEW s \in Liveness, NV!PruneExpiredLivenessSessions(s)
      PROVE  LivenessInv'
  BY <1>2 DEF NV!PruneExpiredLivenessSessions
<1>3. ASSUME NEW r \in Checks, NV!VerifyNin(r)
      PROVE  LivenessInv'
  BY <1>3 DEF NV!VerifyNin, NV!Spend
<1>4. ASSUME NEW r \in Checks, NV!FindByNin(r)
      PROVE  LivenessInv'
  BY <1>4 DEF NV!FindByNin
<1>5. ASSUME NEW r \in Checks, NV!LookUp(r)
      PROVE  LivenessInv'
  BY <1>5 DEF NV!LookUp, NV!GetAccessToken
<1>6. ASSUME NEW r \in Checks, NV!SetNinVerified(r)
      PROVE  LivenessInv'
  <2>1. /\ check' = [check EXCEPT ![r].at = "over"] /\ UNCHANGED <<minted, pending, bearer>>
        /\ Spending(r) /\ ~Spending(r)'
        /\ \A q \in Checks \ {r} : check'[q] = check[q]
        /\ check' \in [Checks -> NV!Check]
    BY <1>6 DEF NV!SetNinVerified
  <2>2. CASE NV!TakenBy(check[r].nin, check[r].of)
    <3>1. UNCHANGED <<nin, vouched>>
      BY <1>6, <2>2 DEF NV!SetNinVerified
    <3> QED
      BY <2>1, <3>1
  <2>3. CASE ~NV!TakenBy(check[r].nin, check[r].of)
    <3>1. /\ nin' = [nin EXCEPT ![check[r].of] = check[r].nin]
          /\ vouched' = [vouched EXCEPT ![check[r].on] = @ + 1]
      BY <1>6, <2>3 DEF NV!SetNinVerified
    <3>2. /\ check[r].of \in Customers /\ check[r].on \in Liveness
          /\ check[r].nin \in Nins \cup {NV!NoNin}
          /\ \A d \in Customers \ {check[r].of} : nin[d] # check[r].nin
      BY <2>1, <2>3 DEF NV!TakenBy
    <3>3. \A q \in Checks : Spending(q)' => Spending(q) /\ check[q].on # check[r].on
      BY <2>1
    <3>4. /\ vouched' \in [Liveness -> Nat] /\ vouched'[check[r].on] = 1
          /\ \A s \in Liveness \ {check[r].on} : vouched'[s] = vouched[s]
      BY <2>1, <3>1, <3>2
    <3>5. NV!TypeOK' /\ NV!LivenessSpentOnce'
      BY <2>1, <3>1, <3>2, <3>4
    <3> QED
      BY <2>1, <3>3, <3>4, <3>5
  <2> QED
    BY <2>2, <2>3
<1>7. CASE NV!BearerEnds \/ NV!Restart
  BY <1>7 DEF NV!BearerEnds, NV!Restart
<1>8. CASE UNCHANGED NV!vars
  BY <1>8 DEF NV!vars
<1> QED
  BY <1>1, <1>2, <1>3, <1>4, <1>5, <1>6, <1>7, <1>8 DEF NV!Next

\* A liveness session vouches for one NIN check at most, whatever the requests, the
\* process and its pending map do (KycDocumentsService.verifyNin).
THEOREM LivenessServesOnce == AccountsSpec => []LivenessSpentOnce
<1>1. NV!Init => LivenessInv
  BY DEF NV!Init, LivenessInv, NV!TypeOK, NV!LivenessSpentOnce, Spending, NV!Check
<1>2. LivenessInv => LivenessSpentOnce
  BY DEF LivenessInv, LivenessSpentOnce
<1> QED
  BY <1>1, <1>2, LivenessNext, Parts, PTL DEF AccountsSpec

-----------------------------------------------------------------------------
(***************************************************************************)
(* Requests of staff who have signed in (StaffAccess).                     *)
(***************************************************************************)
\* What the history of a request says at each place: before a read, whatever the
\* row m and the device d would still do, they have done; after it, what was
\* granted was good at that read.
Grounded(a, m, d) ==
    /\ a.at = "row" => (SA!MayCall(m, a.route) => a.allowed)
    /\ a.at \in {"row", "device"} => (SA!Trusted(d) => a.trusted) /\ ~a.done
    /\ a.at = "device" => (a.granted => a.allowed)
    /\ a.at \in {"doing", "recording", "handing"} \/ a.done => a.allowed /\ a.trusted

\* What is in the log, and what was answered, at each place.
LoggedRight(a) ==
    /\ a.route.kind \in {"file", "act", "call"} /\ a.answer = "ok" => a.logged
    /\ a.route.kind \in {"act", "call"} /\ (a.logged \/ a.at = "recording") => a.done
    /\ a.at = "handing" => a.logged /\ a.route.kind = "file"
    /\ a.at = "doing" => a.route.kind # "file"
    /\ a.at # "over" => a.answer = "none"

AccessInv ==
    /\ ask \in [Calls -> SA!Ask]
    /\ \A q \in Calls : Grounded(ask[q], member, approved) /\ LoggedRight(ask[q])

\* The row or the device changes, and what requests may go by with it.
LEMMA SeenKeeps ==
    ASSUME NEW requests \in [Calls -> SA!Ask], ask' = SA!Seen(requests, member', approved'),
           \A q \in Calls : Grounded(requests[q], member, approved) /\ LoggedRight(requests[q])
    PROVE  AccessInv'
<1>1. \A q \in Calls : ask'[q] \in SA!Ask
  BY DEF SA!Ask, SA!Seen, SA!MayCall, SA!Trusted
<1>2. ask' \in [Calls -> SA!Ask]
  BY <1>1 DEF SA!Seen
<1>3. ASSUME NEW q \in Calls
      PROVE  Grounded(ask'[q], member', approved') /\ LoggedRight(ask'[q])
  BY DEF SA!Ask, SA!Seen, Grounded, LoggedRight
<1> QED
  BY <1>2, <1>3 DEF AccessInv

\* One request goes on.
LEMMA OneKeeps ==
    ASSUME AccessInv, NEW q \in Calls, NEW a \in SA!Ask, ask' = [ask EXCEPT ![q] = a],
           Grounded(a, member, approved), LoggedRight(a), UNCHANGED <<member, approved>>
    PROVE  AccessInv'
  BY DEF AccessInv

\* One request is refused, or fails.
LEMMA AnswerKeeps ==
    ASSUME AccessInv, NEW q \in Calls, NEW answer \in {"refused", "failed"},
           SA!Answer(q, answer), UNCHANGED <<member, approved>>
    PROVE  AccessInv'
<1> DEFINE a == [ask[q] EXCEPT !.at = "over", !.answer = answer]
<1>1. ask[q] \in SA!Ask /\ Grounded(ask[q], member, approved) /\ LoggedRight(ask[q])
  BY DEF AccessInv
<1>2. a \in SA!Ask
  BY <1>1 DEF SA!Ask
<1>3. Grounded(a, member, approved)
  BY <1>1 DEF SA!Ask, Grounded
<1>4. LoggedRight(a)
  BY <1>1 DEF SA!Ask, LoggedRight
<1>5. ask' = [ask EXCEPT ![q] = a]
  BY DEF SA!Answer
<1> QED
  BY <1>2, <1>3, <1>4, <1>5, OneKeeps

\* No request is under way at first.
LEMMA AccessInit == SA!Init => AccessInv
<1>1. SA!NoAsk \in SA!Ask
  BY DEF SA!NoAsk, SA!Ask
<1>2. \A m, d : Grounded(SA!NoAsk, m, d) /\ LoggedRight(SA!NoAsk)
  BY DEF Grounded, LoggedRight, SA!NoAsk, SA!NoRoute
<1> QED
  BY <1>1, <1>2 DEF SA!Init, AccessInv

\* Every step leaves a request past the guards only where the row and the
\* device have allowed it, and its answer where the log bears it out.
LEMMA AccessNext ==
    ASSUME AccessInv, [SA!Next]_SA!vars
    PROVE  AccessInv'
<1>1. ASSUME NEW q \in Calls, SA!Leave(q)
      PROVE  AccessInv'
  <2>1. SA!NoAsk \in SA!Ask
    BY DEF SA!NoAsk, SA!Ask
  <2>2. Grounded(SA!NoAsk, member, approved) /\ LoggedRight(SA!NoAsk)
    BY DEF Grounded, LoggedRight, SA!NoAsk, SA!NoRoute
  <2> QED
    BY <1>1, <2>1, <2>2, OneKeeps DEF SA!Leave
<1>2. ASSUME NEW q \in Calls, SA!Come(q)
      PROVE  AccessInv'
  <2>1. PICK route \in SA!Routes : ask' = [ask EXCEPT ![q] =
              [SA!NoAsk EXCEPT !.at = "row", !.route = route,
                   !.allowed = SA!MayCall(member, route), !.trusted = SA!Trusted(approved)]]
    BY <1>2 DEF SA!Come
  <2> DEFINE a == [SA!NoAsk EXCEPT !.at = "row", !.route = route,
                   !.allowed = SA!MayCall(member, route), !.trusted = SA!Trusted(approved)]
  <2>2. a \in SA!Ask
    BY DEF SA!NoAsk, SA!Ask, SA!MayCall, SA!Trusted
  <2>3. Grounded(a, member, approved) /\ LoggedRight(a)
    BY DEF Grounded, LoggedRight, SA!NoAsk
  <2> QED
    BY <1>2, <2>1, <2>2, <2>3, OneKeeps DEF SA!Come
<1>3. ASSUME NEW q \in Calls, SA!Validate(q)
      PROVE  AccessInv'
  <2>0. ask[q] \in SA!Ask /\ Grounded(ask[q], member, approved) /\ LoggedRight(ask[q])
    BY DEF AccessInv
  <2>1. CASE SA!IsActive(member)
    <3> DEFINE g == SA!HasRole(member, ask[q].route) /\ SA!PasswordIsTheirs(member, ask[q].route)
    <3> DEFINE a == [ask[q] EXCEPT !.at = "device", !.granted = g]
    <3>1. g => SA!MayCall(member, ask[q].route)
      BY <2>1 DEF SA!HasRole, SA!PasswordIsTheirs, SA!MayCall, SA!IsActive
    <3>2. g \in BOOLEAN
      BY DEF SA!HasRole, SA!PasswordIsTheirs
    <3>3. ask' = [ask EXCEPT ![q] = a] /\ ask[q].at = "row"
      BY <1>3, <2>1 DEF SA!Validate
    <3> HIDE DEF g
    <3>4. a \in SA!Ask
      BY <2>0, <3>2 DEF SA!Ask
    <3>5. Grounded(a, member, approved) /\ LoggedRight(a)
      BY <2>0, <3>1, <3>2, <3>3 DEF SA!Ask, Grounded, LoggedRight
    <3> QED
      BY <1>3, <3>3, <3>4, <3>5, OneKeeps DEF SA!Validate
  <2>2. CASE ~SA!IsActive(member)
    BY <1>3, <2>2, AnswerKeeps DEF SA!Validate
  <2> QED
    BY <2>1, <2>2
<1>4. ASSUME NEW q \in Calls,
             SA!CheckDevice(q) \/ SA!Read(q) \/ SA!Act(q) \/ SA!Call(q)
                \/ SA!Record(q) \/ SA!RecordSafe(q) \/ SA!HandOver(q) \/ SA!Die(q)
      PROVE  AccessInv'
  <2>0. ask[q] \in SA!Ask /\ Grounded(ask[q], member, approved) /\ LoggedRight(ask[q])
    BY DEF AccessInv
  <2>1. CASE \E answer \in {"refused", "failed"} : SA!Answer(q, answer)
    BY <1>4, <2>1, AnswerKeeps DEF SA!CheckDevice, SA!Read, SA!Act, SA!Call, SA!Record, SA!RecordSafe,
       SA!HandOver, SA!Die
  <2> DEFINE Good(a) == a \in SA!Ask /\ Grounded(a, member, approved) /\ LoggedRight(a)
  <2>2. ASSUME NEW a, Good(a), ask' = [ask EXCEPT ![q] = a]
        PROVE  AccessInv'
    BY <1>4, <2>2, OneKeeps DEF SA!CheckDevice, SA!Read, SA!Act, SA!Call, SA!Record, SA!RecordSafe,
       SA!HandOver, SA!Die
  <2>3. CASE SA!CheckDevice(q)
    <3>1. CASE SA!Trusted(approved) /\ ask[q].granted
      <4> DEFINE place == IF ask[q].route.kind = "file" THEN "recording" ELSE "doing"
      <4>1. Good([ask[q] EXCEPT !.at = place])
        BY <2>0, <2>3, <3>1 DEF SA!CheckDevice, SA!Ask, Grounded, LoggedRight
      <4> QED
        BY <2>3, <3>1, <2>2, <4>1 DEF SA!CheckDevice, SA!To
    <3> QED
      BY <2>1, <2>3, <3>1 DEF SA!CheckDevice
  <2>4. CASE SA!Read(q)
    <3>1. CASE ask[q].route.kind = "view" /\ SA!To(q, "recording")
      <4>1. Good([ask[q] EXCEPT !.at = "recording"])
        BY <2>0, <2>4, <3>1 DEF SA!Read, SA!Doing, SA!Ask, Grounded, LoggedRight
      <4> QED
        BY <3>1, <2>2, <4>1 DEF SA!To
    <3>2. CASE SA!Answer(q, "ok") /\ ask[q].route.kind = "read"
      <4>1. Good([ask[q] EXCEPT !.at = "over", !.answer = "ok"])
        BY <2>0, <2>4, <3>2 DEF SA!Read, SA!Doing, SA!Ask, Grounded, LoggedRight
      <4> QED
        BY <3>2, <2>2, <4>1 DEF SA!Answer
    <3> QED
      BY <2>1, <2>4, <3>1, <3>2 DEF SA!Read, SA!Doing
  <2>5. CASE SA!Act(q) \/ SA!Call(q)
    <3>1. CASE SA!Done(q)
      <4>1. Good([ask[q] EXCEPT !.at = "recording", !.done = TRUE])
        BY <2>0, <2>5 DEF SA!Act, SA!Call, SA!Doing, SA!Ask, Grounded, LoggedRight
      <4> QED
        BY <3>1, <2>2, <4>1 DEF SA!Done
    <3>2. CASE ask' = [ask EXCEPT ![q].at = "over", ![q].done = TRUE, ![q].answer = "failed"]
      <4>1. Good([ask[q] EXCEPT !.at = "over", !.done = TRUE, !.answer = "failed"])
        BY <2>0, <2>5 DEF SA!Act, SA!Call, SA!Doing, SA!Ask, Grounded, LoggedRight
      <4> QED
        BY <3>2, <2>2, <4>1
    <3> QED
      BY <2>1, <2>5, <3>1, <3>2 DEF SA!Act, SA!Call
  <2>6. CASE SA!Record(q)
    <3>1. CASE ask' = [ask EXCEPT ![q].at = SA!After(q), ![q].logged = TRUE,
                             ![q].answer = IF SA!After(q) = "over" THEN "ok" ELSE @]
      <4>1. Good([ask[q] EXCEPT !.at = SA!After(q), !.logged = TRUE,
                             !.answer = IF SA!After(q) = "over" THEN "ok" ELSE @])
        BY <2>0, <2>6 DEF SA!Record, SA!After, SA!Loud, SA!Ask, Grounded, LoggedRight
      <4> QED
        BY <3>1, <2>2, <4>1
    <3> QED
      BY <2>1, <2>6, <3>1 DEF SA!Record
  <2>7. CASE SA!RecordSafe(q)
    <3>1. PICK written \in BOOLEAN :
            ask' = [ask EXCEPT ![q].at = "over", ![q].logged = written, ![q].answer = "ok"]
      BY <2>7 DEF SA!RecordSafe
    <3>2. Good([ask[q] EXCEPT !.at = "over", !.logged = written, !.answer = "ok"])
      BY <2>0, <2>7 DEF SA!RecordSafe, SA!Ask, Grounded, LoggedRight
    <3> QED
      BY <3>1, <2>2, <3>2
  <2>8. CASE SA!HandOver(q)
    <3>1. CASE SA!Answer(q, "ok")
      <4>1. Good([ask[q] EXCEPT !.at = "over", !.answer = "ok"])
        BY <2>0, <2>8 DEF SA!HandOver, SA!Ask, Grounded, LoggedRight
      <4> QED
        BY <3>1, <2>2, <4>1 DEF SA!Answer
    <3> QED
      BY <2>1, <2>8, <3>1 DEF SA!HandOver
  <2>9. CASE SA!Die(q)
    <3>1. Good([ask[q] EXCEPT !.at = "over"])
      BY <2>0, <2>9 DEF SA!Die, SA!Ask, Grounded, LoggedRight
    <3> QED
      BY <2>9, <2>2, <3>1 DEF SA!Die, SA!To
  <2> QED
    BY <1>4, <2>3, <2>4, <2>5, <2>6, <2>7, <2>8, <2>9
<1>5. ASSUME NEW q \in Calls, SA!ActOnSelf(q)
      PROVE  AccessInv'
  <2>0. ask[q] \in SA!Ask /\ Grounded(ask[q], member, approved) /\ LoggedRight(ask[q])
    BY DEF AccessInv
  <2>1. CASE SA!Answer(q, "failed") /\ UNCHANGED <<member, approved>>
    BY <2>1, AnswerKeeps
  <2>2. CASE ask' = SA!Seen([ask EXCEPT ![q].at = "recording", ![q].done = TRUE], member', approved')
    <3> DEFINE a == [ask[q] EXCEPT !.at = "recording", !.done = TRUE]
    <3> DEFINE between == [ask EXCEPT ![q] = a]
    <3>1. a \in SA!Ask /\ Grounded(a, member, approved) /\ LoggedRight(a)
      BY <2>0, <1>5 DEF SA!ActOnSelf, SA!Doing, SA!Ask, Grounded, LoggedRight
    <3>2. between \in [Calls -> SA!Ask]
      BY <3>1 DEF AccessInv
    <3>3. \A p \in Calls : Grounded(between[p], member, approved) /\ LoggedRight(between[p])
      BY <3>1 DEF AccessInv
    <3>4. ask' = SA!Seen(between, member', approved')
      BY <2>2
    <3> QED
      BY <3>2, <3>3, <3>4, SeenKeeps
  <2> QED
    BY <1>5, <2>1, <2>2 DEF SA!ActOnSelf
<1>6. CASE SA!UpdateStaff \/ SA!ResetPassword \/ SA!RemoveStaff \/ SA!ChangeDevice
  <2>1. ask' = SA!Seen(ask, member', approved')
    BY <1>6 DEF SA!UpdateStaff, SA!ResetPassword, SA!RemoveStaff, SA!ChangeDevice, SA!Becomes
  <2> QED
    BY <2>1, SeenKeeps DEF AccessInv
<1>7. CASE UNCHANGED SA!vars
  BY <1>7 DEF AccessInv, SA!vars
<1> QED
  BY <1>1, <1>2, <1>3, <1>4, <1>5, <1>6, <1>7 DEF SA!Next

\* A request gets past the guards (JwtStrategy.validate, RolesGuard) only if its
\* account was good for its route, and its device approved, since it came in.
THEOREM AccessTakesEffect == AccountsSpec => []TakesEffectAtOnce
<1>1. AccessInv => TakesEffectAtOnce
  BY DEF AccessInv, Grounded, TakesEffectAtOnce, SA!TakesEffectAtOnce
<1> QED
  BY <1>1, Parts, AccessInit, AccessNext, PTL DEF AccountsSpec

\* Whoever is told that an action was taken, or is handed a file, is in the audit
\* log for it, and the log holds no action that was not taken (AuditService.record).
THEOREM ActsAreAudited == AccountsSpec => []AuditedOrFailed
<1>1. AccessInv => AuditedOrFailed
  BY DEF AccessInv, LoggedRight, AuditedOrFailed, SA!AuditedOrFailed, SA!Loud, SA!Ask
<1> QED
  BY <1>1, Parts, AccessInit, AccessNext, PTL DEF AccountsSpec

-----------------------------------------------------------------------------
(***************************************************************************)
(* Requests that bear a customer's access token (CustomerAccess).          *)
(***************************************************************************)
\* The routes for which the PIN is asked.
ByPin == {"pin", "reset", "pay"}

\* What a request carries is true of a PIN p and a lock since it came.
Backed(a, p, lock) ==
    /\ CA!OnItsWay(a) => (p = a.guess => a.right) /\ (~lock => a.unlocked)
    /\ a.at = "none" => ~a.done
    /\ a.at = "serving" => a.route.kind \notin ByPin
    /\ a.at \in {"calling", "reading", "checking", "heard", "passed"} =>
          a.route.kind \in ByPin \cup {"set"}
    /\ a.at = "checking" /\ a.hash = a.guess => a.right
    /\ a.verdict = "ok" => a.right /\ a.unlocked
    /\ a.route.kind \in ByPin /\ (a.at = "passed" \/ a.done) => a.right /\ a.unlocked

PinInv ==
    /\ locked \in BOOLEAN /\ pin \in Pins \cup {CA!NoPin}
    /\ asked \in [Calls -> CA!Asked]
    /\ \A q \in Calls : Backed(asked[q], pin, locked)

\* One request goes on, and the rest is as it was.
LEMMA QuietlyBacked ==
    ASSUME PinInv, NEW q \in Calls, NEW a \in CA!Asked, CA!Quietly(q, a), Backed(a, pin, locked)
    PROVE  PinInv'
  BY DEF PinInv, CA!Quietly

\* The PIN or the lock changes, and what requests may go by with it.
LEMMA SeenBacked ==
    ASSUME NEW requests \in [Calls -> CA!Asked], asked' = CA!Seen(requests, pin', locked'),
           \A q \in Calls : Backed(requests[q], pin, locked),
           locked' \in BOOLEAN, pin' \in Pins \cup {CA!NoPin}
    PROVE  PinInv'
<1>1. \A q \in Calls : asked'[q] \in CA!Asked
  BY DEF CA!Asked, CA!Seen, CA!OnItsWay
<1>2. asked' \in [Calls -> CA!Asked]
  BY <1>1 DEF CA!Seen
<1>3. ASSUME NEW q \in Calls
      PROVE  Backed(asked'[q], pin', locked')
  <2> DEFINE a == requests[q]
             b == asked'[q]
  <2>1. a \in CA!Asked /\ Backed(a, pin, locked)
    OBVIOUS
  <2> DEFINE right == a.right \/ (pin' = a.guess /\ CA!OnItsWay(a))
             unlocked == a.unlocked \/ (~locked' /\ CA!OnItsWay(a))
  <2>2. b = [a EXCEPT !.right = right, !.unlocked = unlocked]
    BY DEF CA!Seen
  <2> HIDE DEF a, right, unlocked
  <2>3. /\ b.at = a.at /\ b.route = a.route /\ b.guess = a.guess /\ b.hash = a.hash
        /\ b.verdict = a.verdict /\ b.done = a.done /\ b.right = right /\ b.unlocked = unlocked
    BY <2>1, <2>2 DEF CA!Asked
  <2> HIDE DEF b
  <2> USE DEF right, unlocked
  <2>4. (a.right => b.right) /\ (a.unlocked => b.unlocked)
    BY <2>3
  <2>5. CA!OnItsWay(a) /\ pin' = a.guess => b.right
    BY <2>3
  <2>6. CA!OnItsWay(a) /\ ~locked' => b.unlocked
    BY <2>3
  <2> HIDE DEF right, unlocked
  <2>7. Backed(b, pin', locked')
    BY <2>1, <2>3, <2>4, <2>5, <2>6 DEF Backed, CA!OnItsWay
  <2> QED
    BY <2>7 DEF b
<1> QED
  BY <1>2, <1>3 DEF PinInv

\* No request is under way at first.
LEMMA PinInit == CA!Init /\ Pins # {} => PinInv
<1> SUFFICES ASSUME CA!Init, Pins # {} PROVE PinInv
  OBVIOUS
<1>1. CA!NoneAsked \in CA!Asked
  BY DEF CA!NoneAsked, CA!Asked, CA!Places
<1>2. \A p, l : Backed(CA!NoneAsked, p, l)
  BY DEF Backed, CA!NoneAsked, CA!NoRoute, CA!OnItsWay, ByPin
<1> QED
  BY <1>1, <1>2 DEF CA!Init, PinInv

\* Every step keeps it: the routes that ask for the PIN get on only by a verdict
\* "ok", which is given against a hash and a lock read since they came.
LEMMA PinNext ==
    ASSUME PinInv, [CA!Next]_CA!vars, Pins # {}
    PROVE  PinInv'
<1>0. CA!NoneAsked \in CA!Asked
  BY DEF CA!NoneAsked, CA!Asked, CA!Places
<1>1. ASSUME NEW q \in Calls, CA!Leave(q)
      PROVE  PinInv'
  <2>1. Backed(CA!NoneAsked, pin, locked)
    BY DEF Backed, CA!NoneAsked, CA!NoRoute, CA!OnItsWay, ByPin
  <2> QED
    BY <1>0, <1>1, <2>1, QuietlyBacked DEF CA!Leave
<1>2. ASSUME NEW q \in Calls, CA!Come(q)
      PROVE  PinInv'
  <2>1. PICK route \in CA!Routes, guess \in Pins, keyed \in BOOLEAN :
          CA!Quietly(q, [CA!NoneAsked EXCEPT !.at = "guard", !.route = route, !.guess = guess,
                          !.keyed = keyed, !.right = (pin = guess), !.unlocked = ~locked])
    BY <1>2 DEF CA!Come
  <2> DEFINE a == [CA!NoneAsked EXCEPT !.at = "guard", !.route = route, !.guess = guess,
                          !.keyed = keyed, !.right = (pin = guess), !.unlocked = ~locked]
  <2>2. a \in CA!Asked
    BY <1>0 DEF CA!Asked, CA!Places, CA!NoneAsked
  <2>3. Backed(a, pin, locked)
    BY DEF Backed, CA!NoneAsked, CA!OnItsWay, PinInv
  <2> QED
    BY <2>1, <2>2, <2>3, QuietlyBacked
<1>3. ASSUME NEW q \in Calls, CA!Guard(q)
      PROVE  PinInv'
  <2>0. asked[q] \in CA!Asked /\ Backed(asked[q], pin, locked)
    BY DEF PinInv
  <2>1. PICK place \in {CA!First(asked[q].route.kind), "over"} : CA!To(q, place)
    BY <1>3 DEF CA!Guard, CA!Refuse
  <2> DEFINE a == [asked[q] EXCEPT !.at = place]
  <2>2. place \in CA!Places
    BY DEF CA!First, CA!Places
  <2>3. a \in CA!Asked
    BY <2>0, <2>2 DEF CA!Asked
  <2>4. Backed(a, pin, locked)
    BY <2>0, <1>3 DEF CA!Guard, CA!First, CA!Asked, Backed, CA!OnItsWay, ByPin
  <2> QED
    BY <2>1, <2>3, <2>4, QuietlyBacked DEF CA!To
<1>4. ASSUME NEW q \in Calls, CA!Serve(q)
      PROVE  PinInv'
  <2>0. asked[q] \in CA!Asked /\ Backed(asked[q], pin, locked) /\ asked[q].at = "serving"
    BY <1>4 DEF PinInv, CA!Serve
  <2>1. CASE CA!Refuse(q)
    <3>1. [asked[q] EXCEPT !.at = "over"] \in CA!Asked
      BY <2>0 DEF CA!Asked, CA!Places
    <3>2. Backed([asked[q] EXCEPT !.at = "over"], pin, locked)
      BY <2>0 DEF CA!Asked, Backed, CA!OnItsWay
    <3> QED
      BY <2>1, <3>1, <3>2, QuietlyBacked DEF CA!Refuse, CA!To
  <2>2. CASE /\ locked' = (locked /\ asked[q].route.name # "clearLockouts")
             /\ asked' = CA!Seen([asked EXCEPT ![q] = CA!Finished(q)], pin, locked')
             /\ pin' = pin
    <3> DEFINE between == [asked EXCEPT ![q] = CA!Finished(q)]
    <3>1. CA!Finished(q) \in CA!Asked
      BY <2>0 DEF CA!Finished, CA!Asked, CA!Places
    <3>2. Backed(CA!Finished(q), pin, locked)
      BY <2>0 DEF CA!Finished, CA!Asked, Backed, CA!OnItsWay
    <3>3. between \in [Calls -> CA!Asked]
      BY <3>1 DEF PinInv
    <3>4. \A p \in Calls : Backed(between[p], pin, locked)
      BY <3>2 DEF PinInv
    <3>5. locked' \in BOOLEAN /\ pin' \in Pins \cup {CA!NoPin}
      BY <2>2 DEF PinInv
    <3> HIDE DEF between
    <3> QED
      BY <2>2, <3>3, <3>4, <3>5, SeenBacked DEF between
  <2> QED
    BY <1>4, <2>1, <2>2 DEF CA!Serve
<1>5. ASSUME NEW q \in Calls, CA!AskAuth(q) \/ CA!ReadPin(q) \/ CA!Hear(q) \/ CA!GiveUp(q)
      PROVE  PinInv'
  <2>0. asked[q] \in CA!Asked /\ Backed(asked[q], pin, locked)
    BY DEF PinInv
  <2>1. ASSUME NEW place \in CA!Places, CA!To(q, place), Backed([asked[q] EXCEPT !.at = place], pin, locked)
        PROVE  PinInv'
    <3>1. [asked[q] EXCEPT !.at = place] \in CA!Asked
      BY <2>0 DEF CA!Asked
    <3> QED
      BY <2>1, <3>1, QuietlyBacked DEF CA!To
  <2>2. ASSUME NEW place \in {"heard", "over"}, NEW v \in {"unset", "lost"},
               CA!Quietly(q, [asked[q] EXCEPT !.at = place, !.verdict = v]),
               asked[q].at \in {"calling", "reading", "checking"}
        PROVE  PinInv'
    <3> DEFINE a == [asked[q] EXCEPT !.at = place, !.verdict = v]
    <3>1. a \in CA!Asked
      BY <2>0 DEF CA!Asked, CA!Places
    <3>2. Backed(a, pin, locked)
      BY <2>0, <2>2 DEF CA!Asked, Backed, CA!OnItsWay
    <3> QED
      BY <2>2, <3>1, <3>2, QuietlyBacked
  <2>3. \A v \in {"unset", "lost"} : asked[q].at \in {"calling", "reading"} =>
          \E place \in {"heard", "over"} :
              CA!Verdict(q, v) = [asked[q] EXCEPT !.at = place, !.verdict = v]
    BY DEF CA!Verdict
  <2>4. CASE CA!AskAuth(q)
    <3>1. Backed([asked[q] EXCEPT !.at = "reading"], pin, locked)
      BY <2>0, <2>4 DEF CA!AskAuth, CA!Asked, Backed, CA!OnItsWay
    <3>2. CASE CA!To(q, "reading")
      BY <2>1, <3>1, <3>2 DEF CA!Places
    <3> QED
      BY <2>2, <2>3, <2>4, <3>2 DEF CA!AskAuth
  <2>5. CASE CA!ReadPin(q)
    <3>1. CASE asked[q].route.kind = "set"
      <4>1. Backed([asked[q] EXCEPT !.at = "passed"], pin, locked)
        BY <2>0, <2>5, <3>1 DEF CA!ReadPin, CA!Asked, Backed, CA!OnItsWay, ByPin
      <4>2. Backed([asked[q] EXCEPT !.at = "over"], pin, locked)
        BY <2>0, <2>5, <3>1 DEF CA!ReadPin, CA!Asked, Backed, CA!OnItsWay, ByPin
      <4> QED
        BY <2>1, <2>5, <3>1, <4>1, <4>2 DEF CA!ReadPin, CA!Refuse, CA!Places
    <3>2. CASE asked[q].route.kind # "set" /\ pin = CA!NoPin
      BY <2>2, <2>3, <2>5, <3>2 DEF CA!ReadPin
    <3>3. CASE asked[q].route.kind # "set" /\ pin # CA!NoPin
      <4> DEFINE a == [asked[q] EXCEPT !.at = "checking", !.hash = pin]
      <4>1. a \in CA!Asked
        BY <2>0 DEF CA!Asked, CA!Places, PinInv
      <4>2. Backed(a, pin, locked)
        BY <2>0, <2>5 DEF CA!ReadPin, CA!Asked, Backed, CA!OnItsWay
      <4> QED
        BY <2>5, <3>3, <4>1, <4>2, QuietlyBacked DEF CA!ReadPin
    <3> QED
      BY <3>1, <3>2, <3>3
  <2>6. CASE CA!Hear(q)
    <3>1. Backed([asked[q] EXCEPT !.at = "over"], pin, locked)
      BY <2>0, <2>6 DEF CA!Hear, CA!Asked, Backed, CA!OnItsWay
    <3>2. CA!Accepted(asked[q].verdict) => Backed([asked[q] EXCEPT !.at = "passed"], pin, locked)
      BY <2>0, <2>6 DEF CA!Hear, CA!Asked, Backed, CA!OnItsWay, CA!Accepted
    <3> QED
      BY <2>1, <2>6, <3>1, <3>2 DEF CA!Hear, CA!Places
  <2>7. CASE CA!GiveUp(q)
    BY <2>2, <2>7 DEF CA!GiveUp
  <2> QED
    BY <1>5, <2>4, <2>5, <2>6, <2>7
<1>6. ASSUME NEW q \in Calls, CA!CheckPin(q)
      PROVE  PinInv'
  <2>0. asked[q] \in CA!Asked /\ Backed(asked[q], pin, locked) /\ locked \in BOOLEAN
    BY DEF PinInv
  <2>1. ASSUME NEW v \in {"ok", "wrong", "locked"}, asked' = [asked EXCEPT ![q] = CA!Verdict(q, v)],
               v = "ok" => asked[q].guess = asked[q].hash /\ ~locked,
               pin' = pin, locked' \in BOOLEAN, locked => locked'
        PROVE  PinInv'
    <3> DEFINE a == CA!Verdict(q, v)
    <3>1. a \in CA!Asked
      BY <2>0 DEF CA!Asked, CA!Places, CA!Verdict
    <3>2. Backed(a, pin, locked) /\ Backed(a, pin, locked')
      BY <2>0, <2>1, <1>6 DEF CA!CheckPin, CA!Verdict, CA!Asked, Backed, CA!OnItsWay
    <3>3. \A p \in Calls : Backed(asked[p], pin, locked')
      BY <2>1 DEF PinInv, Backed
    <3> HIDE DEF a
    <3> QED
      BY <2>1, <3>1, <3>2, <3>3 DEF PinInv, a
  <2> QED
    BY <1>6, <2>0, <2>1 DEF CA!CheckPin, CA!Quietly
<1>7. ASSUME NEW q \in Calls, CA!Proceed(q)
      PROVE  PinInv'
  <2>0. /\ asked[q] \in CA!Asked /\ Backed(asked[q], pin, locked) /\ asked[q].at = "passed"
        /\ asked[q].route.kind \in {"set", "reset", "pin", "pay"}
    BY <1>7 DEF PinInv, CA!Proceed, Backed, ByPin
  <2>1. CA!Finished(q) \in CA!Asked
    BY <2>0 DEF CA!Finished, CA!Asked, CA!Places
  <2>2. Backed(CA!Finished(q), pin, locked)
    BY <2>0 DEF CA!Finished, CA!Asked, Backed, CA!OnItsWay
  <2>3. CASE CA!Refuse(q)
    <3>1. [asked[q] EXCEPT !.at = "over"] \in CA!Asked
      BY <2>0 DEF CA!Asked, CA!Places
    <3>2. Backed([asked[q] EXCEPT !.at = "over"], pin, locked)
      BY <2>0 DEF CA!Asked, Backed, CA!OnItsWay
    <3> QED
      BY <2>3, <3>1, <3>2, QuietlyBacked DEF CA!Refuse, CA!To
  <2>4. CASE CA!Quietly(q, CA!Finished(q))
    BY <2>1, <2>2, <2>4, QuietlyBacked
  <2>5. CASE \E p \in Pins : CA!WritePin(q, p)
    <3> DEFINE between == [asked EXCEPT ![q] = CA!Finished(q)]
    <3>1. between \in [Calls -> CA!Asked]
      BY <2>1 DEF PinInv
    <3>2. \A p \in Calls : Backed(between[p], pin, locked)
      BY <2>2 DEF PinInv
    <3>3. /\ asked' = CA!Seen(between, pin', locked')
          /\ locked' \in BOOLEAN /\ pin' \in Pins \cup {CA!NoPin}
      BY <2>5 DEF CA!WritePin, PinInv
    <3> HIDE DEF between
    <3> QED
      BY <3>1, <3>2, <3>3, SeenBacked
  <2> QED
    BY <1>7, <2>0, <2>3, <2>4, <2>5 DEF CA!Proceed, CA!Asked
<1>8. CASE CA!LockTurns
  BY <1>8, SeenBacked DEF CA!LockTurns, PinInv
<1>9. CASE CA!SessionEnds \/ CA!TokenExpires \/ CA!SignIn \/ UNCHANGED CA!vars
  BY <1>9 DEF PinInv, CA!SessionEnds, CA!TokenExpires, CA!SignIn, CA!vars
<1> QED
  BY <1>1, <1>2, <1>3, <1>4, <1>5, <1>6, <1>7, <1>8, <1>9 DEF CA!Next

\* No payment, limit or new PIN goes through unless the PIN presented was the
\* customer's, and not locked, at some moment since the request came in
\* (AuthService.verifyTransactionPin, PinVerifierService).
THEOREM PaymentsHavePin == AccountsSpec => []PinStandsBehind
<1>1. PinInv => PinStandsBehind
  BY DEF PinInv, Backed, PinStandsBehind, CA!PinStandsBehind, ByPin
<1>2. Pins # {}
  BY AroundAssumption
<1> QED
  BY <1>1, <1>2, Parts, PinInit, PinNext, PTL DEF AccountsSpec
=============================================================================
