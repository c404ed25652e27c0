------------------------ MODULE CustomerSignInProofs ------------------------
(***************************************************************************)
(* Proofs about CustomerSignIn, for every set of requests and devices and  *)
(* every limit.                                                            *)
(***************************************************************************)
EXTENDS CustomerSignIn, FiniteSetTheorems, TLAPS

USE SignInAssumption

-----------------------------------------------------------------------------
(***************************************************************************)
(* How the actions move a request.                                         *)
(***************************************************************************)
Ops == {"none", "login", "confirmPin", "pin", "change", "code", "verifyReset", "confirmReset"}
Places == {"idle", "reserve", "check", "clear", "miss", "ticket", "consume", "save", "limit",
           "open", "token", "write", "end", "over"}

RowsType == req \in [Requests -> Request]

\* Request r goes to one of the places, and is otherwise what it was.
Advance(r, places) ==
    /\ RowsType'
    /\ \A q \in Requests \ {r} : req'[q] = req[q]
    /\ req'[r].at \in places /\ req'[r].op = req[r].op
    /\ req'[r].item = req[r].item /\ req'[r].attempts = req[r].attempts
    /\ req'[r].device = req[r].device /\ req'[r].password = req[r].password
    /\ req'[r].keep = req[r].keep /\ req'[r].hasPin = req[r].hasPin

\* A free request starts.
Begin(r, op, place) ==
    /\ RowsType'
    /\ \A q \in Requests \ {r} : req'[q] = req[q]
    /\ req[r].at = "idle" /\ req'[r].op = op /\ req'[r].at = place

LEMMA GoAdvances ==
    ASSUME RowsType, NEW r \in Requests, NEW place \in Places, Go(r, place)
    PROVE  Advance(r, {place}) /\ req'[r].others = req[r].others /\ req'[r].locked = req[r].locked
<1> DEFINE row == [req[r] EXCEPT !.at = place]
<1>1. req' = [req EXCEPT ![r] = row]
  BY DEF Go
<1>2. /\ row \in Request /\ row.at = place /\ row.op = req[r].op /\ row.item = req[r].item
      /\ row.attempts = req[r].attempts /\ row.device = req[r].device
      /\ row.password = req[r].password /\ row.keep = req[r].keep /\ row.hasPin = req[r].hasPin
      /\ row.others = req[r].others /\ row.locked = req[r].locked
  BY DEF RowsType, Request, Places
<1> HIDE DEF row
<1> QED
  BY <1>1, <1>2 DEF Advance, RowsType

\* A device that is trusted already lets the request pass.
LEMMA TrustOrAdvances ==
    ASSUME RowsType, NEW r \in Requests, NEW place \in Places \ {"save"}, TrustOr(r, place)
    PROVE  /\ Advance(r, {place, "save"})
           /\ req'[r].others = (trusted # {})
           /\ req'[r].at = "save" => req[r].device \notin trusted /\ req[r].device \in Devices
<1> DEFINE to == IF Recognised(r) THEN place ELSE "save"
<1> DEFINE mid == [req[r] EXCEPT !.at = to]
<1> DEFINE row == [mid EXCEPT !.others = trusted # {}]
<1>1. req' = [req EXCEPT ![r] = row]
  BY DEF TrustOr, RowsType
<1>2. to \in Places /\ to \in {place, "save"} /\ (to = "save" => ~Recognised(r))
  BY DEF Places
<1>3. ~Recognised(r) => req[r].device \notin trusted /\ req[r].device \in Devices
  BY DEF Recognised, RowsType, Request
<1> HIDE DEF to
<1>4. /\ mid \in Request /\ mid.at = to /\ mid.op = req[r].op /\ mid.item = req[r].item
      /\ mid.attempts = req[r].attempts /\ mid.device = req[r].device
      /\ mid.password = req[r].password /\ mid.keep = req[r].keep /\ mid.hasPin = req[r].hasPin
  BY <1>2 DEF RowsType, Request, Places
<1> HIDE DEF mid
<1>5. (trusted # {}) \in BOOLEAN
  OBVIOUS
<1>6. /\ row \in Request /\ row.at = mid.at /\ row.op = mid.op /\ row.item = mid.item
      /\ row.attempts = mid.attempts /\ row.device = mid.device
      /\ row.password = mid.password /\ row.keep = mid.keep /\ row.hasPin = mid.hasPin
      /\ row.others = (trusted # {})
  BY <1>4, <1>5 DEF Request
<1> HIDE DEF row
<1> QED
  BY <1>1, <1>2, <1>3, <1>4, <1>6 DEF Advance, RowsType

\* What a request holds that is about to start.
LEMMA WaitingType ==
    /\ Waiting \in Request /\ Waiting.keep = None /\ Waiting.item = 0 /\ Waiting.at = "idle"
<1>1. 0 \in 0..MaxPasswords /\ 0 \in 0..MaxItems /\ 0 \in Nat
  OBVIOUS
<1> QED
  BY <1>1 DEF Waiting, Request

LEMMA StartBegins ==
    ASSUME TypeOK, NEW r \in Requests, NEW op \in Ops, NEW place \in Places, NEW i \in Items \cup {0},
           NEW d \in Devices \cup {None}, i = 0 => op # "confirmPin", Start(r, op, place, i, d)
    PROVE  /\ Begin(r, op, place)
           /\ req'[r].item = i /\ req'[r].device = d /\ req'[r].keep = None
           /\ req'[r].password = IF op = "confirmPin" THEN item[i].password ELSE password
           /\ req'[r].attempts = IF i = 0 THEN 0 ELSE item[i].attempts
<1> DEFINE p == IF op = "confirmPin" THEN item[i].password ELSE password
<1> DEFINE a == IF i = 0 THEN 0 ELSE item[i].attempts
<1> DEFINE row == [Waiting EXCEPT !.op = op, !.at = place, !.hasPin = hasPin, !.item = i,
                                  !.device = d, !.password = p, !.attempts = a]
<1>1. req[r].at = "idle" /\ req' = [req EXCEPT ![r] = row]
  BY DEF Start
<1>2. i \in Items => item[i] \in Item
  BY DEF TypeOK
<1>3. p \in 0..MaxPasswords /\ a \in Nat /\ hasPin \in BOOLEAN /\ i \in 0..MaxItems
  BY <1>2 DEF TypeOK, Item, Items
<1> HIDE DEF p, a
<1>4. /\ row \in Request /\ row.op = op /\ row.at = place /\ row.item = i /\ row.device = d
      /\ row.password = p /\ row.attempts = a /\ row.keep = None
  <2> DEFINE one == [Waiting EXCEPT !.op = op]
  <2> DEFINE two == [one EXCEPT !.at = place, !.hasPin = hasPin]
  <2> DEFINE three == [two EXCEPT !.item = i, !.device = d]
  <2>1. row = [three EXCEPT !.password = p, !.attempts = a]
    OBVIOUS
  <2> HIDE DEF row
  <2>2. one \in Request /\ one.op = op /\ one.keep = None
    BY WaitingType DEF Request, Ops
  <2> HIDE DEF one
  <2>3. two \in Request /\ two.op = op /\ two.at = place /\ two.keep = None
    BY <1>3, <2>2 DEF Request, Places
  <2> HIDE DEF two
  <2>4. /\ three \in Request /\ three.op = op /\ three.at = place /\ three.keep = None
        /\ three.item = i /\ three.device = d
    BY <1>3, <2>3 DEF Request
  <2> HIDE DEF three
  <2> QED
    BY <1>3, <2>1, <2>4 DEF Request
<1> HIDE DEF row
<1>5. RowsType' /\ req'[r] = row /\ \A q \in Requests \ {r} : req'[q] = req[q]
  BY <1>1, <1>4 DEF TypeOK, RowsType
<1>6. Begin(r, op, place) /\ req'[r].item = i /\ req'[r].device = d /\ req'[r].keep = None
      /\ req'[r].password = p /\ req'[r].attempts = a
  BY <1>1, <1>4, <1>5 DEF Begin
<1> QED
  BY <1>6 DEF p, a

\* The attempt is taken, or the lock refuses it.
LEMMA AttemptAdvances ==
    ASSUME RowsType, NEW r \in Requests, Reserve(r)
    PROVE  LET g == guard[Kind(r)]
               next == IF g.lock = "past" THEN 1 ELSE g.failures + 1
               locked == next >= MaxFailedAttempts
           IN  \/ /\ g.lock = "future" /\ Advance(r, {"over"}) /\ UNCHANGED <<guard, tried, tripper>>
               \/ /\ g.lock # "future" /\ Advance(r, {"check"}) /\ req'[r].locked = locked
                  /\ guard' = [guard EXCEPT ![Kind(r)] = [failures |-> next,
                                                         lock |-> IF locked THEN "future" ELSE "none"]]
                  /\ tried' = [tried EXCEPT ![Kind(r)] = (IF g.lock = "past" THEN {} ELSE tried[Kind(r)]) \cup {r}]
                  /\ tripper' = IF locked THEN [tripper EXCEPT ![Kind(r)] = r] ELSE tripper
<1> DEFINE k == Kind(r)
           g == guard[k]
           next == IF g.lock = "past" THEN 1 ELSE g.failures + 1
           locked == next >= MaxFailedAttempts
<1>1. CASE g.lock = "future"
  <2>1. Go(r, "over") /\ UNCHANGED <<guard, tried, tripper>>
    BY <1>1 DEF Reserve, Attempt, Over
  <2> QED
    BY <1>1, <2>1, GoAdvances DEF Places
<1>2. CASE g.lock # "future"
  <2>1. /\ guard' = [guard EXCEPT ![k] = [failures |-> next, lock |-> IF locked THEN "future" ELSE "none"]]
        /\ tried' = [tried EXCEPT ![k] = (IF g.lock = "past" THEN {} ELSE @) \cup {r}]
        /\ tripper' = IF locked THEN [tripper EXCEPT ![k] = r] ELSE tripper
        /\ req' = [req EXCEPT ![r].at = "check", ![r].locked = locked]
    BY <1>2 DEF Reserve, Attempt
  <2>2. locked \in BOOLEAN
    OBVIOUS
  <2>3. tried' = [tried EXCEPT ![k] = (IF g.lock = "past" THEN {} ELSE tried[k]) \cup {r}]
    BY <2>1
  <2> DEFINE mid == [req[r] EXCEPT !.at = "check"]
  <2> DEFINE row == [mid EXCEPT !.locked = locked]
  <2> HIDE DEF locked, k
  <2>4. req' = [req EXCEPT ![r] = row]
    BY <2>1 DEF RowsType
  <2>5. /\ mid \in Request /\ mid.at = "check" /\ mid.op = req[r].op /\ mid.item = req[r].item
        /\ mid.attempts = req[r].attempts /\ mid.device = req[r].device
        /\ mid.password = req[r].password /\ mid.keep = req[r].keep /\ mid.hasPin = req[r].hasPin
    BY DEF RowsType, Request
  <2> HIDE DEF mid
  <2>6. /\ row \in Request /\ row.at = "check" /\ row.op = mid.op /\ row.item = mid.item
        /\ row.attempts = mid.attempts /\ row.device = mid.device
        /\ row.password = mid.password /\ row.keep = mid.keep /\ row.hasPin = mid.hasPin
        /\ row.locked = locked
    BY <2>2, <2>5 DEF Request
  <2> HIDE DEF row
  <2>7. Advance(r, {"check"}) /\ req'[r].locked = locked
    BY <2>4, <2>5, <2>6 DEF Advance, RowsType
  <2> QED
    BY <1>2, <2>1, <2>3, <2>7 DEF locked, k
<1> QED
  BY <1>1, <1>2

\* Where the other actions take a request.
LEMMA Moves ==
    ASSUME RowsType, NEW r \in Requests
    PROVE  /\ CheckSecret(r) => Advance(r, {"over", "miss", "clear"}) /\ req[r].at = "check"
           /\ ClearAttempts(r) => Advance(r, {"ticket", "open", "save", "consume", "over", "write"})
                                 /\ req[r].at = "clear"
           /\ IssueTicket(r) => Advance(r, {"over"}) /\ req[r].at = "ticket"
           /\ CountMiss(r) => Advance(r, {"over"}) /\ req[r].at = "miss"
           /\ CheckCode(r) => Advance(r, {"miss", "consume"}) /\ req[r].at = "check"
           /\ Consume(r) => Advance(r, {"open", "save", "token", "write"}) /\ req[r].at = "consume"
           /\ IssueResetToken(r) => Advance(r, {"over"}) /\ req[r].at = "token"
           /\ TrustDevice(r) => Advance(r, {"over", "limit", "open"}) /\ req[r].at = "save"
           /\ StartDeviceLimit(r) => Advance(r, {"over", "open"}) /\ req[r].at = "limit"
           /\ OpenSession(r) => Advance(r, {"over", "save"}) /\ req[r].at = "open"
           /\ WritePassword(r) => Advance(r, {"end"}) /\ req[r].at = "write"
           /\ EndSessions(r) => Advance(r, {"over"}) /\ req[r].at = "end"
           /\ Die(r) => Advance(r, {"over"}) /\ InFlight(r)
<1> USE DEF Over
<1>1. \A place \in Places : Go(r, place) => Advance(r, {place})
  BY GoAdvances
<1>2. \A place \in Places \ {"save"} : TrustOr(r, place) => Advance(r, {place, "save"})
  BY TrustOrAdvances
<1>3. /\ CheckSecret(r) => Advance(r, {"over", "miss", "clear"}) /\ req[r].at = "check"
      /\ CheckCode(r) => Advance(r, {"miss", "consume"}) /\ req[r].at = "check"
  BY <1>1 DEF CheckSecret, CheckCode, Places, Advance
<1>4. ClearAttempts(r) => Advance(r, {"ticket", "open", "save", "consume", "over", "write"})
                          /\ req[r].at = "clear"
  BY <1>1, <1>2 DEF ClearAttempts, Places, Advance
<1>5. Consume(r) => Advance(r, {"open", "save", "token", "write"}) /\ req[r].at = "consume"
  BY <1>1, <1>2 DEF Consume, AfterConsume, Places, Advance
<1>6. TrustDevice(r) => Advance(r, {"over", "limit", "open"}) /\ req[r].at = "save"
  BY <1>1 DEF TrustDevice, Trust, AfterTrust, Places, Advance
<1>7. StartDeviceLimit(r) => Advance(r, {"over", "open"}) /\ req[r].at = "limit"
  BY <1>1 DEF StartDeviceLimit, AfterTrust, Places, Advance
<1>8. OpenSession(r) => Advance(r, {"over", "save"}) /\ req[r].at = "open"
  BY <1>1, <1>2 DEF OpenSession, Places, Advance
<1>9. /\ IssueTicket(r) => Advance(r, {"over"}) /\ req[r].at = "ticket"
      /\ CountMiss(r) => Advance(r, {"over"}) /\ req[r].at = "miss"
      /\ IssueResetToken(r) => Advance(r, {"over"}) /\ req[r].at = "token"
      /\ WritePassword(r) => Advance(r, {"end"}) /\ req[r].at = "write"
      /\ EndSessions(r) => Advance(r, {"over"}) /\ req[r].at = "end"
      /\ Die(r) => Advance(r, {"over"}) /\ InFlight(r)
  BY <1>1 DEF IssueTicket, CountMiss, IssueResetToken, WritePassword, EndSessions, Die, Places
<1> QED
  BY <1>3, <1>4, <1>5, <1>6, <1>7, <1>8, <1>9

\* What the request that begins has read.
BeginWith(r, op, place, i) ==
    /\ Begin(r, op, place)
    /\ req'[r].item = i /\ req'[r].keep = None
    /\ req'[r].password = IF op = "confirmPin" THEN item[i].password ELSE password
    /\ req'[r].attempts = IF i = 0 THEN 0 ELSE item[i].attempts
    /\ together' = [j \in Items |-> together[j] \/ (j = i /\ \E q \in Requests \ {r} :
                                                             InFlight(q) /\ req[q].item = i)]

LEMMA Beginnings ==
    ASSUME TypeOK, NEW r \in Requests
    PROVE  /\ Login(r) => BeginWith(r, "login", "reserve", 0)
           /\ VerifyPin(r) => BeginWith(r, "pin", "reserve", 0)
           /\ ConfirmLoginPin(r) =>
                 \E i \in Items : /\ BeginWith(r, "confirmPin", "reserve", i)
                                 /\ ~item[i].used /\ item[i].attempts < MaxItemAttempts
                                 /\ excused' = IF item[i].password = password THEN excused
                                               ELSE excused \cup {r}
           /\ PresentCode(r) =>
                 \E i \in Items : /\ BeginWith(r, "code", "check", i) \/ BeginWith(r, "verifyReset", "check", i)
                                 /\ ~item[i].used /\ item[i].attempts < MaxItemAttempts
           /\ PresentResetToken(r) =>
                 \E i \in Items : /\ BeginWith(r, "confirmReset", "consume", i)
                                 /\ ~item[i].used
           /\ ChangePassword(r) => /\ Begin(r, "change", "reserve")
                                  /\ req'[r].item = 0 /\ UNCHANGED together
<1>1. ASSUME NEW op \in Ops, NEW place \in Places, NEW i \in Items \cup {0}, NEW d \in Devices \cup {None},
             i = 0 => op # "confirmPin", Start(r, op, place, i, d)
      PROVE  BeginWith(r, op, place, i)
  <2>1. /\ Begin(r, op, place)
        /\ req'[r].item = i /\ req'[r].keep = None
        /\ req'[r].password = IF op = "confirmPin" THEN item[i].password ELSE password
        /\ req'[r].attempts = IF i = 0 THEN 0 ELSE item[i].attempts
    BY <1>1, StartBegins
  <2>2. together' = [j \in Items |-> together[j] \/ (j = i /\ \E q \in Requests \ {r} :
                                                             InFlight(q) /\ req[q].item = i)]
    BY <1>1 DEF Start
  <2> QED
    BY <2>1, <2>2 DEF BeginWith
<1>2. (Login(r) => BeginWith(r, "login", "reserve", 0)) /\ (VerifyPin(r) => BeginWith(r, "pin", "reserve", 0))
  BY <1>1 DEF Login, VerifyPin, Ops, Places
<1>3. ASSUME ConfirmLoginPin(r)
      PROVE  \E i \in Items : /\ BeginWith(r, "confirmPin", "reserve", i)
                             /\ ~item[i].used /\ item[i].attempts < MaxItemAttempts
                             /\ excused' = IF item[i].password = password THEN excused ELSE excused \cup {r}
  <2>1. PICK i \in Items, d \in Devices \cup {None} :
          /\ ~item[i].used /\ item[i].attempts < MaxItemAttempts
          /\ Start(r, "confirmPin", "reserve", i, d)
          /\ excused' = IF item[i].password = password THEN excused ELSE excused \cup {r}
    BY <1>3 DEF ConfirmLoginPin
  <2>2. i # 0
    BY DEF Items
  <2>3. BeginWith(r, "confirmPin", "reserve", i)
    BY <1>1, <2>1, <2>2 DEF Ops, Places
  <2> QED
    BY <2>1, <2>3
<1>4. ASSUME PresentCode(r)
      PROVE  \E i \in Items : /\ BeginWith(r, "code", "check", i) \/ BeginWith(r, "verifyReset", "check", i)
                             /\ ~item[i].used /\ item[i].attempts < MaxItemAttempts
  <2>1. PICK i \in Items :
          /\ ~item[i].used /\ item[i].attempts < MaxItemAttempts
          /\ \/ \E d \in Devices \cup {None} : Start(r, "code", "check", i, d)
             \/ Start(r, "verifyReset", "check", i, None)
    BY <1>4 DEF PresentCode, Newest
  <2>2. BeginWith(r, "code", "check", i) \/ BeginWith(r, "verifyReset", "check", i)
    BY <1>1, <2>1 DEF Ops, Places
  <2> QED
    BY <2>1, <2>2
<1>5. PresentResetToken(r) => \E i \in Items : /\ BeginWith(r, "confirmReset", "consume", i)
                                             /\ ~item[i].used
  BY <1>1 DEF PresentResetToken, Ops, Places
<1>6. ChangePassword(r) => Begin(r, "change", "reserve") /\ req'[r].item = 0 /\ UNCHANGED together
  <2> SUFFICES ASSUME ChangePassword(r) PROVE Begin(r, "change", "reserve") /\ req'[r].item = 0 /\ UNCHANGED together
    OBVIOUS
  <2>1. PICK s \in Sessions :
          /\ req[r].at = "idle"
          /\ req' = [req EXCEPT ![r] = [Waiting EXCEPT !.op = "change", !.at = "reserve", !.keep = s,
                                                       !.password = password]]
    BY DEF ChangePassword
  <2> DEFINE mid == [Waiting EXCEPT !.op = "change", !.at = "reserve"]
  <2> DEFINE row == [mid EXCEPT !.keep = s, !.password = password]
  <2>2. mid \in Request /\ mid.op = "change" /\ mid.at = "reserve" /\ mid.item = 0
    BY WaitingType DEF Request
  <2>3. req' = [req EXCEPT ![r] = row] /\ password \in 0..MaxPasswords
    BY <2>1 DEF TypeOK
  <2> HIDE DEF mid
  <2>4. row \in Request /\ row.op = "change" /\ row.at = "reserve" /\ row.item = 0
    BY <2>2, <2>3 DEF Request
  <2> HIDE DEF row
  <2> QED
    <3>1. RowsType' /\ req'[r] = row /\ \A q \in Requests \ {r} : req'[q] = req[q]
      BY <2>3, <2>4 DEF RowsType, TypeOK
    <3>2. UNCHANGED together
      BY DEF ChangePassword, spending
    <3> QED
      BY <2>1, <2>4, <3>1, <3>2 DEF Begin
<1> QED
  BY <1>2, <1>3, <1>4, <1>5, <1>6

-----------------------------------------------------------------------------
(***************************************************************************)
(* Type correctness, and what the types rest on: a lock comes before the   *)
(* count runs over, and only a device that is there is trusted or limited. *)
(***************************************************************************)
Guarded == {"login", "confirmPin", "pin", "change"}

Shaped ==
    \A r \in Requests : /\ req[r].at = "save" => req[r].device \in Devices
                        /\ req[r].at = "limit" => req[r].device \in trusted
                        /\ req[r].at \in {"reserve", "clear"} => req[r].op \in Guarded
LocksInTime == \A k \in Kinds : guard[k].lock = "none" => guard[k].failures < MaxFailedAttempts

TypeInv == TypeOK /\ Shaped /\ LocksInTime

LEMMA IssueType ==
    ASSUME TypeOK, NEW kind \in {"code", "ticket", "reset"}, NEW d \in Devices \cup {None},
           NEW p \in 0..MaxPasswords, Issue(kind, d, p)
    PROVE  item' \in [Items -> Item]
<1>1. PICK i \in Items : item' = [item EXCEPT ![i] = [NoItem EXCEPT !.kind = kind, !.device = d, !.password = p]]
  BY DEF Issue
<1>2. [NoItem EXCEPT !.kind = kind, !.device = d, !.password = p] \in Item
  BY DEF NoItem, Item
<1> QED
  BY <1>1, <1>2 DEF TypeOK

\* A request that moves keeps its shape, if the place it goes to has what it needs.
LEMMA ShapeKept ==
    ASSUME TypeInv, NEW r \in Requests, NEW S, Advance(r, S), trusted \subseteq trusted',
           req'[r].at = "save" => req[r].device \in Devices,
           req'[r].at = "limit" => req[r].device \in trusted',
           req'[r].at \in {"reserve", "clear"} => req[r].op \in Guarded
    PROVE  Shaped'
  BY DEF TypeInv, Shaped, Advance

LEMMA ShapeBegun ==
    ASSUME TypeInv, NEW r \in Requests, NEW op, NEW place, Begin(r, op, place), trusted' = trusted,
           place \notin {"save", "limit", "clear"}, place = "reserve" => op \in Guarded
    PROVE  Shaped'
  BY DEF TypeInv, Shaped, Begin

LEMMA TypeNext ==
    ASSUME TypeInv, [Next]_vars
    PROVE  TypeInv'
<1> USE DEF user, watched, spending, RowsType
<1>1. TypeOK /\ RowsType
  BY DEF TypeInv, TypeOK
<1>2. CASE UNCHANGED vars
  BY <1>2 DEF TypeInv, TypeOK, Shaped, LocksInTime, vars
<1>3. CASE ClearLockouts
  <2>1. guard' \in [Kinds -> Guard] /\ tried' \in [Kinds -> SUBSET Requests]
    BY <1>1, <1>3 DEF ClearLockouts, ForgetAttempts, TypeOK, Guard, Unlocked
  <2>2. LocksInTime'
    BY <1>3 DEF ClearLockouts, ForgetAttempts, TypeInv, LocksInTime, Unlocked
  <2> QED
    BY <1>1, <1>3, <2>1, <2>2 DEF ClearLockouts, TypeInv, TypeOK, Shaped
<1>4. CASE LockExpires
  <2>1. PICK k \in Kinds : guard[k].lock = "future" /\ guard' = [guard EXCEPT ![k].lock = "past"]
    BY <1>4 DEF LockExpires
  <2>2. guard' \in [Kinds -> Guard]
    BY <1>1, <2>1 DEF TypeOK, Guard
  <2>3. LocksInTime'
    BY <1>1, <2>1 DEF TypeInv, TypeOK, LocksInTime, Guard
  <2> QED
    BY <1>1, <1>4, <2>2, <2>3 DEF LockExpires, TypeInv, TypeOK, Shaped
<1>5. CASE SetTransactionPin \/ GrowOld
  BY <1>1, <1>5 DEF SetTransactionPin, GrowOld, TypeInv, TypeOK, Shaped, LocksInTime
<1>6. CASE GenerateCode
  <2>1. item' \in [Items -> Item]
    BY <1>1, <1>6, IssueType DEF GenerateCode, TypeOK
  <2> QED
    BY <1>1, <1>6, <2>1 DEF GenerateCode, TypeInv, TypeOK, Shaped, LocksInTime
<1>7. ASSUME NEW r \in Requests,
             \/ Login(r) \/ VerifyPin(r) \/ ConfirmLoginPin(r) \/ PresentCode(r)
             \/ PresentResetToken(r) \/ ChangePassword(r)
      PROVE  TypeInv'
  <2>1. /\ RowsType'
        /\ Shaped'
    <3>1. CASE Login(r) \/ VerifyPin(r) \/ ChangePassword(r)
      BY <1>1, <3>1, Beginnings, ShapeBegun DEF BeginWith, Begin, Guarded, Login, VerifyPin, ChangePassword
    <3>2. CASE ConfirmLoginPin(r)
      BY <1>1, <3>2, Beginnings, ShapeBegun DEF BeginWith, Begin, Guarded, ConfirmLoginPin
    <3>3. CASE PresentCode(r)
      BY <1>1, <3>3, Beginnings, ShapeBegun DEF BeginWith, Begin, PresentCode
    <3>4. CASE PresentResetToken(r)
      BY <1>1, <3>4, Beginnings, ShapeBegun DEF BeginWith, Begin, PresentResetToken
    <3> QED
      BY <1>7, <3>1, <3>2, <3>3, <3>4
  <2>2. together' \in [Items -> BOOLEAN]
    <3>1. together \in [Items -> BOOLEAN]
      BY <1>1 DEF TypeOK
    <3>2. UNCHANGED together \/ \E op, place, i : BeginWith(r, op, place, i)
      BY <1>1, <1>7, Beginnings
    <3>3. ASSUME NEW op, NEW place, NEW i, BeginWith(r, op, place, i)
          PROVE  together' \in [Items -> BOOLEAN]
      BY <3>1, <3>3 DEF BeginWith
    <3> QED
      BY <3>1, <3>2, <3>3
  <2>3. excused' \subseteq Devices \cup Sessions
    BY <1>1, <1>7 DEF Login, VerifyPin, ConfirmLoginPin, PresentCode, PresentResetToken,
       ChangePassword, TypeOK, Sessions
  <2>4. UNCHANGED <<user, guard, trusted, limited, item, session, watched, died, gained, missed, first>>
    BY <1>7 DEF Login, VerifyPin, ConfirmLoginPin, PresentCode, PresentResetToken, ChangePassword
  <2> QED
    BY <1>1, <2>1, <2>2, <2>3, <2>4 DEF TypeInv, TypeOK, LocksInTime
<1>8. ASSUME NEW r \in Requests, Reserve(r)
      PROVE  TypeInv'
  <2> DEFINE k == Kind(r)
             g == guard[k]
             next == IF g.lock = "past" THEN 1 ELSE g.failures + 1
             locked == next >= MaxFailedAttempts
  <2>1. k \in Kinds /\ g \in Guard /\ tried[k] \subseteq Requests
    BY <1>1 DEF Kind, Kinds, TypeOK
  <2>2. RowsType' /\ Shaped'
    <3>1. Advance(r, {"over"}) \/ Advance(r, {"check"})
      BY <1>1, <1>8, AttemptAdvances
    <3> QED
      BY <1>8, <3>1, ShapeKept DEF Advance, Reserve
  <2>3. /\ guard' \in [Kinds -> Guard] /\ tried' \in [Kinds -> SUBSET Requests]
        /\ tripper' \in [Kinds -> Requests \cup {None}] /\ LocksInTime'
    <3>1. CASE UNCHANGED <<guard, tried, tripper>>
      BY <1>1, <3>1 DEF TypeInv, TypeOK, LocksInTime
    <3>2. CASE /\ g.lock # "future"
               /\ guard' = [guard EXCEPT ![k] = [failures |-> next, lock |-> IF locked THEN "future" ELSE "none"]]
               /\ tried' = [tried EXCEPT ![k] = (IF g.lock = "past" THEN {} ELSE tried[k]) \cup {r}]
               /\ tripper' = IF locked THEN [tripper EXCEPT ![k] = r] ELSE tripper
      <4>1. next \in 0..MaxFailedAttempts /\ (~locked => next < MaxFailedAttempts)
        BY <2>1, <3>2 DEF TypeInv, LocksInTime, Guard
      <4>2. [failures |-> next, lock |-> IF locked THEN "future" ELSE "none"] \in Guard
        BY <4>1 DEF Guard
      <4> HIDE DEF next, locked, k
      <4>3. guard' \in [Kinds -> Guard] /\ LocksInTime'
        BY <1>1, <2>1, <3>2, <4>1, <4>2 DEF TypeInv, TypeOK, LocksInTime
      <4> QED
        BY <1>1, <2>1, <3>2, <4>3 DEF TypeOK
    <3> QED
      BY <1>1, <1>8, <3>1, <3>2, AttemptAdvances
  <2> QED
    BY <1>1, <1>8, <2>2, <2>3 DEF Reserve, TypeInv, TypeOK
<1>9. ASSUME NEW r \in Requests, CheckSecret(r) \/ CheckCode(r) \/ EndSessions(r)
      PROVE  TypeInv'
  <2>1. RowsType' /\ Shaped'
    <3>1. CASE CheckSecret(r)
      <4>1. /\ Advance(r, {"over", "miss", "clear"}) /\ req[r].op \in Guarded /\ trusted' = trusted
            /\ req'[r].at \in {"over", "miss", "clear"}
        BY <1>1, <3>1, Moves DEF CheckSecret, Guarded, Advance
      <4> QED
        BY <4>1, ShapeKept DEF Advance
    <3>2. CASE CheckCode(r) \/ EndSessions(r)
      BY <1>1, <3>2, Moves, ShapeKept DEF CheckCode, EndSessions, Advance
    <3> QED
      BY <1>9, <3>1, <3>2
  <2>2. told' \subseteq Requests
    BY <1>1, <1>9 DEF CheckSecret, Alert, CheckCode, EndSessions, TypeOK
  <2>3. session' \in [Sessions -> [is : {"none", "live", "revoked"}, password : 0..MaxPasswords]]
    BY <1>1, <1>9 DEF CheckSecret, CheckCode, EndSessions, Revoked, TypeOK
  <2> QED
    BY <1>1, <1>9, <2>1, <2>2, <2>3 DEF CheckSecret, CheckCode, EndSessions, TypeInv, TypeOK, LocksInTime
<1>10. ASSUME NEW r \in Requests, ClearAttempts(r)
       PROVE  TypeInv'
  <2>1. RowsType' /\ Shaped'
    <3>1. req'[r].at = "save" => req[r].device \in Devices
      BY <1>1, <1>10, TrustOrAdvances, GoAdvances DEF ClearAttempts, Places, Advance, Over
    <3> QED
      <4>1. /\ Advance(r, {"ticket", "open", "save", "consume", "over", "write"}) /\ trusted' = trusted
            /\ req'[r].at \in {"ticket", "open", "save", "consume", "over", "write"}
        BY <1>1, <1>10, Moves DEF ClearAttempts, Advance
      <4> QED
        BY <3>1, <4>1, ShapeKept DEF Advance
  <2>2. /\ guard' \in [Kinds -> Guard] /\ tried' \in [Kinds -> SUBSET Requests]
        /\ LocksInTime'
    BY <1>1, <1>10 DEF ClearAttempts, ForgetAttempts, TypeInv, TypeOK, LocksInTime, Guard, Unlocked
  <2> QED
    BY <1>1, <1>10, <2>1, <2>2 DEF ClearAttempts, TypeInv, TypeOK
<1>11. ASSUME NEW r \in Requests, IssueTicket(r) \/ IssueResetToken(r) \/ CountMiss(r)
       PROVE  TypeInv'
  <2>1. RowsType' /\ Shaped'
    BY <1>1, <1>11, Moves, ShapeKept DEF IssueTicket, IssueResetToken, CountMiss, Advance
  <2>2. req[r] \in Request
    BY <1>1
  <2>3. item' \in [Items -> Item]
    <3>1. CASE IssueTicket(r) \/ IssueResetToken(r)
      BY <1>1, <2>2, <3>1, IssueType DEF IssueTicket, IssueResetToken, TypeOK, Request
    <3>2. CASE CountMiss(r)
      <4> DEFINE j == req[r].item
                 new == [item[j] EXCEPT !.attempts = req[r].attempts + 1]
      <4>1. item' = [item EXCEPT ![j] = new] /\ item \in [Items -> Item]
        BY <1>1, <3>2 DEF CountMiss, TypeOK
      <4>2. j \in Items => item[j] \in Item
        BY <4>1
      <4>3. j \in Items => new \in Item
        BY <2>2, <4>2 DEF Request, Item
      <4> HIDE DEF j, new
      <4> QED
        BY <4>1, <4>3
    <3> QED
      BY <1>11, <3>1, <3>2
  <2>4. gained' \in [Items -> 0..2] /\ missed' \in [Items -> Nat]
    BY <1>1, <1>11 DEF IssueTicket, IssueResetToken, CountMiss, Gain, TypeOK
  <2> QED
    BY <1>1, <1>11, <2>1, <2>3, <2>4 DEF IssueTicket, IssueResetToken, CountMiss, TypeInv, TypeOK,
       LocksInTime
<1>12. ASSUME NEW r \in Requests, Consume(r)
       PROVE  TypeInv'
  <2>1. RowsType' /\ Shaped'
    <3>1. req'[r].at = "save" => req[r].device \in Devices
      BY <1>1, <1>12, TrustOrAdvances, GoAdvances DEF Consume, AfterConsume, Places, Advance
    <3> QED
      BY <1>1, <1>12, <3>1, Moves, ShapeKept DEF Consume, Advance
  <2>2. item' \in [Items -> Item]
    <3> DEFINE j == req[r].item
               new == [item[j] EXCEPT !.used = TRUE]
    <3>1. item' = [item EXCEPT ![j] = new] /\ item \in [Items -> Item]
      BY <1>1, <1>12 DEF Consume, TypeOK
    <3>2. j \in Items => item[j] \in Item
      BY <3>1
    <3>3. j \in Items => new \in Item
      BY <3>2 DEF Item
    <3> HIDE DEF j, new
    <3> QED
      BY <3>1, <3>3
  <2> QED
    BY <1>1, <1>12, <2>1, <2>2 DEF Consume, TypeInv, TypeOK, LocksInTime
<1>13. ASSUME NEW r \in Requests, TrustDevice(r)
       PROVE  TypeInv'
  <2>1. req[r].device \in Devices
    BY <1>13 DEF TrustDevice, Trust, TypeInv, Shaped
  <2>2. /\ trusted' \subseteq Devices /\ trusted \subseteq trusted'
        /\ first' \in Devices \cup {None} /\ excused' \subseteq Devices \cup Sessions
        /\ req'[r].at = "limit" => req[r].device \in trusted'
    BY <1>1, <1>13, <2>1, GoAdvances DEF TrustDevice, Trust, TypeOK, Over, Advance, Places
  <2>3. RowsType' /\ Shaped'
    BY <1>1, <1>13, <2>2, Moves, ShapeKept DEF Advance
  <2> QED
    BY <1>1, <1>13, <2>2, <2>3 DEF TrustDevice, Trust, TypeInv, TypeOK, LocksInTime
<1>14. ASSUME NEW r \in Requests, StartDeviceLimit(r)
       PROVE  TypeInv'
  <2>1. RowsType' /\ Shaped'
    BY <1>1, <1>14, Moves, ShapeKept DEF StartDeviceLimit, Advance
  <2>2. limited' \subseteq trusted
    BY <1>1, <1>14 DEF StartDeviceLimit, TypeInv, Shaped, TypeOK
  <2> QED
    BY <1>1, <1>14, <2>1, <2>2 DEF StartDeviceLimit, TypeInv, TypeOK, LocksInTime
<1>15. ASSUME NEW r \in Requests, OpenSession(r)
       PROVE  TypeInv'
  <2>1. RowsType' /\ Shaped'
    <3>1. req'[r].at = "save" => req[r].device \in Devices
      BY <1>1, <1>15, TrustOrAdvances, GoAdvances DEF OpenSession, Places, Advance, Over
    <3> QED
      BY <1>1, <1>15, <3>1, Moves, ShapeKept DEF OpenSession, Advance
  <2>2. session' \in [Sessions -> [is : {"none", "live", "revoked"}, password : 0..MaxPasswords]]
    <3>1. Revoked(Sessions) \in [Sessions -> [is : {"none", "live", "revoked"}, password : 0..MaxPasswords]]
      BY <1>1 DEF Revoked, TypeOK
    <3>2. req[r].password \in 0..MaxPasswords
      BY <1>1 DEF Request
    <3>3. [is |-> "live", password |-> req[r].password] \in [is : {"none", "live", "revoked"}, password : 0..MaxPasswords]
      BY <3>2
    <3> QED
      BY <1>15, <3>1, <3>3 DEF OpenSession, Sessions
  <2>3. gained' \in [Items -> 0..2]
    BY <1>1, <1>15 DEF OpenSession, Gain, TypeOK
  <2> QED
    BY <1>1, <1>15, <2>1, <2>2, <2>3 DEF OpenSession, TypeInv, TypeOK, LocksInTime
<1>16. ASSUME NEW r \in Requests, WritePassword(r)
       PROVE  TypeInv'
  <2>1. RowsType' /\ Shaped'
    BY <1>1, <1>16, Moves, ShapeKept DEF WritePassword, Advance
  <2>2. password' \in 0..MaxPasswords /\ gained' \in [Items -> 0..2]
    BY <1>1, <1>16 DEF WritePassword, Gain, TypeOK
  <2>3. excused' \subseteq Devices \cup Sessions
    <3>1. req[r].keep \in Sessions \cup {None}
      BY <1>1 DEF Request
    <3> QED
      BY <1>1, <1>16, <3>1 DEF WritePassword, TypeOK, Sessions
  <2> QED
    BY <1>1, <1>16, <2>1, <2>2, <2>3 DEF WritePassword, TypeInv, TypeOK, LocksInTime
<1>17. ASSUME NEW r \in Requests, Die(r)
       PROVE  TypeInv'
  <2>1. RowsType' /\ Shaped'
    BY <1>1, <1>17, Moves, ShapeKept DEF Die, Advance
  <2>2. died' \subseteq Requests /\ together' \in [Items -> BOOLEAN]
    BY <1>1, <1>17 DEF Die, TypeOK
  <2>3. excused' \subseteq Devices \cup Sessions
    <3>1. req[r].at = "limit" => req[r].device \in Devices
      BY <1>1 DEF TypeInv, Shaped, TypeOK
    <3> QED
      BY <1>1, <1>17, <3>1 DEF Die, TypeOK
  <2> QED
    BY <1>1, <1>17, <2>1, <2>2, <2>3 DEF Die, TypeInv, TypeOK, LocksInTime
<1> QED
  BY <1>2, <1>3, <1>4, <1>5, <1>6, <1>7, <1>8, <1>9, <1>10, <1>11, <1>12, <1>13, <1>14, <1>15, <1>16,
     <1>17 DEF Next

LEMMA InitParts ==
    ASSUME Init
    PROVE  /\ password = 0 /\ hasPin \in BOOLEAN /\ young \in BOOLEAN
           /\ guard = [k \in Kinds |-> Unlocked]
           /\ req = [r \in Requests |-> Waiting]
           /\ tried = [k \in Kinds |-> {}] /\ tripper = [k \in Kinds |-> None]
           /\ told = {} /\ died = {} /\ limited = {} /\ excused = {}
           /\ gained = [i \in Items |-> 0] /\ missed = [i \in Items |-> 0]
           /\ together = [i \in Items |-> FALSE]
           /\ \/ trusted = {} /\ first = None
              \/ young /\ \E d \in Devices : trusted = {d} /\ first = d
  BY Zenon DEF Init

LEMMA TypeInit ==
    ASSUME Init
    PROVE  TypeInv
<1>1. req \in [Requests -> Request] /\ \A r \in Requests : req[r].at = "idle"
  BY WaitingType, InitParts
<1>2. password \in 0..MaxPasswords /\ hasPin \in BOOLEAN /\ young \in BOOLEAN
  BY InitParts
<1>3. guard \in [Kinds -> Guard] /\ LocksInTime
  BY InitParts DEF Guard, Unlocked, LocksInTime
<1>4. trusted \subseteq Devices /\ limited = {} /\ first \in Devices \cup {None} /\ excused = {}
  BY InitParts
<1>5. item \in [Items -> Item]
  <2>1. NoItem \in Item
    BY DEF NoItem, Item
  <2>2. ASSUME NEW kind \in {"code", "ticket", "reset"}, NEW d \in Devices \cup {None}
        PROVE  [NoItem EXCEPT !.kind = kind, !.device = d] \in Item
    <3>1. 0 \in 0..MaxPasswords
      OBVIOUS
    <3> QED
      BY <3>1 DEF NoItem, Item
  <2>3. CASE item = [i \in Items |-> NoItem]
    BY <2>1, <2>3
  <2>4. ASSUME NEW kind \in {"code", "ticket", "reset"}, NEW d \in Devices \cup {None},
               item = [i \in Items |-> IF i = 1 THEN [NoItem EXCEPT !.kind = kind, !.device = d] ELSE NoItem]
        PROVE  item \in [Items -> Item]
    <3> DEFINE one == [NoItem EXCEPT !.kind = kind, !.device = d]
    <3>1. one \in Item /\ item = [i \in Items |-> IF i = 1 THEN one ELSE NoItem]
      BY <2>2, <2>4
    <3> HIDE DEF one
    <3> QED
      BY <2>1, <3>1
  <2> QED
    BY <2>3, <2>4 DEF Init
<1>6. session \in [Sessions -> [is : {"none", "live", "revoked"}, password : 0..MaxPasswords]]
  <2>1. PICK is \in {"none", "live"} :
          session = [s \in Sessions |-> [is |-> IF s = Earlier THEN is ELSE "none", password |-> 0]]
    BY DEF Init
  <2>2. \A s \in Sessions : [is |-> IF s = Earlier THEN is ELSE "none", password |-> 0]
                             \in [is : {"none", "live", "revoked"}, password : 0..MaxPasswords]
    OBVIOUS
  <2> QED
    BY <2>1, <2>2
<1>7. /\ tried \in [Kinds -> SUBSET Requests] /\ tripper \in [Kinds -> Requests \cup {None}]
      /\ told \subseteq Requests /\ died \subseteq Requests
  BY InitParts
<1>8. gained \in [Items -> 0..2] /\ missed \in [Items -> Nat] /\ together \in [Items -> BOOLEAN]
  <2>1. 0 \in 0..2 /\ 0 \in Nat
    OBVIOUS
  <2> QED
    BY <2>1, InitParts
<1>9. Shaped
  BY <1>1 DEF Shaped
<1> QED
  BY <1>1, <1>2, <1>3, <1>4, <1>5, <1>6, <1>7, <1>8, <1>9 DEF TypeInv, TypeOK

LEMMA TypeInvariant == Spec => []TypeInv
  BY TypeInit, TypeNext, PTL DEF Spec

\* Every reachable state is well typed.
THEOREM SignInTypeCorrect == Spec => []TypeOK
<1>1. TypeInv => TypeOK
  BY DEF TypeInv
<1> QED
  BY <1>1, TypeInvariant, PTL

-----------------------------------------------------------------------------
(***************************************************************************)
(* Guesses.                                                                *)
(***************************************************************************)
\* Who has guessed is counted, and the count stops at the limit.
GuessInv ==
    \A k \in Kinds : IsFiniteSet(tried[k]) /\ Cardinality(tried[k]) <= guard[k].failures

LEMMA GuessNext ==
    ASSUME TypeInv, GuessInv, [Next]_vars
    PROVE  GuessInv'
<1> USE DEF user, watched, spending
<1>1. TypeOK /\ RowsType /\ LocksInTime
  BY DEF TypeInv, TypeOK, RowsType
<1>2. CASE UNCHANGED <<guard, tried>>
  BY <1>2 DEF GuessInv
<1>3. ASSUME NEW K \in SUBSET Kinds, ForgetAttempts(K)
      PROVE  GuessInv'
  <2>1. IsFiniteSet({}) /\ Cardinality({}) = 0
    BY FS_EmptySet
  <2> QED
    BY <1>3, <2>1 DEF ForgetAttempts, GuessInv, Unlocked
<1>4. CASE LockExpires
  BY <1>1, <1>4 DEF LockExpires, GuessInv, TypeOK, Guard
<1>5. ASSUME NEW r \in Requests, Reserve(r)
      PROVE  GuessInv'
  <2> DEFINE k == Kind(r)
             g == guard[k]
             next == IF g.lock = "past" THEN 1 ELSE g.failures + 1
             lock == IF next >= MaxFailedAttempts THEN "future" ELSE "none"
             kept == IF g.lock = "past" THEN {} ELSE tried[k]
  <2>1. k \in Kinds /\ g \in Guard
    BY <1>1 DEF Kind, Kinds, TypeOK
  <2>2. CASE UNCHANGED <<guard, tried>>
    BY <1>2, <2>2
  <2>3. CASE /\ guard' = [guard EXCEPT ![k] = [failures |-> next, lock |-> lock]]
             /\ tried' = [tried EXCEPT ![k] = kept \cup {r}]
    <3>1. IsFiniteSet(kept) /\ Cardinality(kept) \in Nat /\ Cardinality(kept) + 1 <= next
      <4>1. CASE g.lock = "past"
        BY <4>1, FS_EmptySet
      <4>2. CASE g.lock # "past"
        BY <2>1, <4>2, FS_CardinalityType DEF GuessInv, Guard
      <4> QED
        BY <4>1, <4>2
    <3>2. next \in Nat
      BY <2>1 DEF Guard
    <3> HIDE DEF kept, next, lock
    <3>3. IsFiniteSet(kept \cup {r}) /\ Cardinality(kept \cup {r}) <= Cardinality(kept) + 1
      BY <3>1, FS_AddElement
    <3>4. IsFiniteSet(kept \cup {r}) /\ Cardinality(kept \cup {r}) <= next
      <4>1. Cardinality(kept \cup {r}) \in Nat
        BY <3>3, FS_CardinalityType
      <4> QED
        BY <3>1, <3>2, <3>3, <4>1
    <3> HIDE DEF k
    <3> QED
      BY <1>1, <2>1, <2>3, <3>4 DEF GuessInv, TypeOK
  <2> QED
    BY <1>1, <1>5, <2>2, <2>3, AttemptAdvances
<1>6. ASSUME NEW r \in Requests, ClearAttempts(r)
      PROVE  GuessInv'
  <2>1. {Kind(r)} \in SUBSET Kinds
    BY DEF Kind, Kinds
  <2> QED
    BY <1>3, <1>6, <2>1 DEF ClearAttempts
<1>7. CASE ClearLockouts
  BY <1>3, <1>7 DEF ClearLockouts
<1>8. CASE UNCHANGED vars \/ SetTransactionPin \/ GenerateCode \/ GrowOld
  BY <1>2, <1>8 DEF vars, SetTransactionPin, GenerateCode, GrowOld
<1>9. ASSUME NEW r \in Requests,
             \/ Login(r) \/ CheckSecret(r) \/ IssueTicket(r) \/ ConfirmLoginPin(r) \/ CountMiss(r)
             \/ VerifyPin(r) \/ PresentCode(r) \/ CheckCode(r) \/ PresentResetToken(r) \/ Consume(r)
             \/ IssueResetToken(r) \/ TrustDevice(r) \/ StartDeviceLimit(r) \/ OpenSession(r)
             \/ ChangePassword(r) \/ WritePassword(r) \/ EndSessions(r) \/ Die(r)
      PROVE  GuessInv'
  BY <1>2, <1>9 DEF Login, CheckSecret, IssueTicket, ConfirmLoginPin, CountMiss, VerifyPin,
     PresentCode, CheckCode, PresentResetToken, Consume, IssueResetToken, TrustDevice, Trust,
     StartDeviceLimit, OpenSession, ChangePassword, WritePassword, EndSessions, Die
<1> QED
  BY <1>4, <1>5, <1>6, <1>7, <1>8, <1>9 DEF Next

\* However many guesses arrive together, no more secrets are looked at than the
\* limit before the count is cleared (AuthService.guardedVerify).
THEOREM GuessesStayBounded == Spec => []GuessesBounded
<1>1. Init => GuessInv
  BY FS_EmptySet, InitParts DEF GuessInv, Unlocked
<1>2. TypeInv /\ GuessInv => GuessesBounded
  <2> SUFFICES ASSUME TypeInv, GuessInv, NEW k \in Kinds
               PROVE  Cardinality(tried[k]) <= MaxFailedAttempts
    BY DEF GuessesBounded
  <2>1. guard[k].failures \in 0..MaxFailedAttempts
    BY DEF TypeInv, TypeOK, Guard
  <2>2. Cardinality(tried[k]) \in Nat /\ Cardinality(tried[k]) <= guard[k].failures
    BY FS_CardinalityType DEF GuessInv
  <2> QED
    BY <2>1, <2>2
<1> QED
  BY <1>1, <1>2, TypeInvariant, GuessNext, PTL DEF Spec

-----------------------------------------------------------------------------
(***************************************************************************)
(* Locks and those they are told to.                                       *)
(***************************************************************************)
\* A guess under way that set the lock, and will clear it or tell.
Tells(r, k) ==
    /\ req[r].at \in {"check", "clear"} /\ req[r].op \in Guarded /\ Kind(r) = k
    /\ req[r].at = "check" => req[r].locked

LockInv ==
    \A k \in Kinds : guard[k].lock = "future" =>
        /\ tripper[k] \in Requests
        /\ tripper[k] \in told \cup died \/ Tells(tripper[k], k)

\* A step by another request, or by one that neither guesses nor checks.
LEMMA LockKept ==
    ASSUME TypeInv, LockInv, NEW r \in Requests, tripper' = tripper, told \subseteq told', died \subseteq died',
           \A k \in Kinds : guard'[k].lock = "future" => guard[k].lock = "future",
           \A q \in Requests \ {r} : req'[q] = req[q],
           \A k \in Kinds : guard'[k].lock = "future" /\ Tells(r, k) => r \in told' \cup died' \/ Tells(r, k)'
    PROVE  LockInv'
<1> SUFFICES ASSUME NEW k \in Kinds, guard'[k].lock = "future"
             PROVE  /\ tripper[k] \in Requests
                    /\ tripper[k] \in told' \cup died' \/ Tells(tripper[k], k)'
  BY DEF LockInv
<1>1. tripper[k] \in Requests /\ (tripper[k] \in told \cup died \/ Tells(tripper[k], k))
  BY DEF LockInv
<1>2. CASE tripper[k] = r
  BY <1>1, <1>2
<1>3. CASE tripper[k] # r
  BY <1>1, <1>3 DEF Tells, Kind
<1> QED
  BY <1>2, <1>3

LEMMA LockNext ==
    ASSUME TypeInv, LockInv, [Next]_vars
    PROVE  LockInv'
<1> USE DEF user, watched, spending
<1>1. TypeOK /\ RowsType /\ Shaped
  BY DEF TypeInv, TypeOK, RowsType
<1>2. CASE UNCHANGED vars \/ SetTransactionPin \/ GenerateCode \/ GrowOld
  BY <1>2 DEF vars, SetTransactionPin, GenerateCode, GrowOld, LockInv, Tells, Kind
<1>3. CASE LockExpires
  <2>1. \A k \in Kinds : guard'[k].lock = "future" => guard[k].lock = "future"
    BY <1>1, <1>3 DEF LockExpires, TypeOK, Guard
  <2> QED
    BY <1>3, <2>1 DEF LockExpires, LockInv, Tells, Kind
<1>4. CASE ClearLockouts
  <2>1. \A k \in Kinds : guard'[k].lock # "future"
    BY <1>4 DEF ClearLockouts, ForgetAttempts, Unlocked
  <2> QED
    BY <2>1 DEF LockInv
<1>5. ASSUME NEW r \in Requests, Reserve(r)
      PROVE  LockInv'
  <2> DEFINE k == Kind(r)
             g == guard[k]
             next == IF g.lock = "past" THEN 1 ELSE g.failures + 1
             locked == next >= MaxFailedAttempts
  <2>1. /\ k \in Kinds /\ req[r].at = "reserve" /\ req[r].op \in Guarded
        /\ \A l : ~Tells(r, l)
    BY <1>1, <1>5 DEF Kind, Kinds, Reserve, Shaped, Tells
  <2>2. UNCHANGED <<told, died>>
    BY <1>5 DEF Reserve
  <2>3. CASE Advance(r, {"over"}) /\ UNCHANGED <<guard, tripper>>
    BY <2>1, <2>2, <2>3, LockKept DEF Advance
  <2>4. CASE /\ Advance(r, {"check"}) /\ req'[r].locked = locked
             /\ guard' = [guard EXCEPT ![k] = [failures |-> next, lock |-> IF locked THEN "future" ELSE "none"]]
             /\ tripper' = IF locked THEN [tripper EXCEPT ![k] = r] ELSE tripper
    <3>1. req'[r].at = "check" /\ req'[r].op = req[r].op /\ Kind(r)' = k
      BY <2>4 DEF Advance, Kind
    <3> HIDE DEF k, g, next, locked
    <3>2. CASE locked
      <4>1. ASSUME NEW l \in Kinds, l = k
            PROVE  Tells(r, l)'
        <5>1. Kind(r)' = l
          BY <3>1, <4>1
        <5>2. req'[r].at = "check" /\ req'[r].op \in Guarded /\ req'[r].locked
          BY <2>1, <2>4, <3>1, <3>2
        <5> QED
          BY <5>1, <5>2 DEF Tells
      <4>2. ASSUME NEW l \in Kinds, guard'[l].lock = "future"
            PROVE  \E t \in Requests : tripper'[l] = t /\ (t \in told \cup died \/ Tells(t, l)')
        <5>1. CASE l = k
          <6>1. tripper'[l] = r
            BY <1>1, <2>1, <2>4, <3>2, <4>2, <5>1 DEF TypeOK
          <6> QED
            BY <4>1, <4>2, <5>1, <6>1
        <5>2. CASE l # k
          <6>1. guard[l].lock = "future" /\ tripper'[l] = tripper[l]
            BY <1>1, <2>1, <2>4, <3>2, <4>2, <5>2 DEF TypeOK
          <6>2. PICK t \in Requests : tripper[l] = t /\ (t \in told \cup died \/ Tells(t, l))
            BY <4>2, <6>1 DEF LockInv
          <6>3. t # r /\ Tells(t, l) => Tells(t, l)'
            BY <2>4, <6>2 DEF Advance, Tells, Kind
          <6> QED
            BY <2>1, <6>1, <6>2, <6>3
        <5> QED
          BY <5>1, <5>2
      <4> QED
        BY <2>2, <4>2 DEF LockInv, Tells, Kind
    <3>3. CASE ~locked
      <4>1. tripper' = tripper /\ \A l \in Kinds : guard'[l].lock = "future" => guard[l].lock = "future"
        BY <1>1, <2>1, <2>4, <3>3 DEF TypeOK
      <4> QED
        BY <2>1, <2>2, <2>4, <4>1, LockKept DEF Advance
    <3> QED
      BY <3>2, <3>3
  <2> QED
    BY <1>1, <1>5, <2>3, <2>4, AttemptAdvances
<1>6. ASSUME NEW r \in Requests, CheckSecret(r)
      PROVE  LockInv'
  <2>1. Advance(r, {"over", "miss", "clear"}) /\ req[r].at = "check" /\ UNCHANGED <<guard, tripper, died>>
    BY <1>1, <1>6, Moves DEF CheckSecret
  <2>2. told \subseteq told' /\ (req'[r].at = "clear" \/ (req[r].locked => r \in told'))
    BY <1>1, <1>6, GoAdvances DEF CheckSecret, Alert, Over, Advance, Places
  <2>3. \A k \in Kinds : Tells(r, k) => r \in told' \cup died' \/ Tells(r, k)'
    BY <2>1, <2>2 DEF Tells, Kind, Advance
  <2> QED
    BY <2>1, <2>2, <2>3, LockKept DEF Advance
<1>7. ASSUME NEW r \in Requests, ClearAttempts(r)
      PROVE  LockInv'
  <2>1. \A q \in Requests \ {r} : req'[q] = req[q]
    BY <1>1, <1>7, Moves DEF Advance
  <2>2. /\ UNCHANGED <<tripper, told, died>>
        /\ \A k \in Kinds : guard'[k].lock = "future" => k # Kind(r) /\ guard[k].lock = "future"
    BY <1>7 DEF ClearAttempts, ForgetAttempts, Unlocked
  <2> QED
    BY <2>1, <2>2, LockKept DEF Tells
<1>8. ASSUME NEW r \in Requests,
             \/ Login(r) \/ VerifyPin(r) \/ ConfirmLoginPin(r) \/ PresentCode(r)
             \/ PresentResetToken(r) \/ ChangePassword(r)
      PROVE  LockInv'
  <2>1. \E op, place : Begin(r, op, place)
    BY <1>1, <1>8, Beginnings DEF BeginWith
  <2>2. /\ \A q \in Requests \ {r} : req'[q] = req[q]
        /\ req[r].at = "idle"
    BY <2>1 DEF Begin
  <2>3. UNCHANGED <<guard, tripper, told, died>>
    BY <1>8 DEF Login, VerifyPin, ConfirmLoginPin, PresentCode, PresentResetToken, ChangePassword
  <2> QED
    BY <2>2, <2>3, LockKept DEF Tells
<1>9. ASSUME NEW r \in Requests,
             \/ IssueTicket(r) \/ CountMiss(r) \/ CheckCode(r) \/ Consume(r) \/ IssueResetToken(r)
             \/ TrustDevice(r) \/ StartDeviceLimit(r) \/ OpenSession(r) \/ WritePassword(r)
             \/ EndSessions(r)
      PROVE  LockInv'
  <2>1. \A q \in Requests \ {r} : req'[q] = req[q]
    BY <1>1, <1>9, Moves DEF Advance
  <2>2. req[r].at \in {"check", "clear"} => req[r].op \notin Guarded
    BY <1>1, <1>9, Moves DEF CheckCode, Guarded
  <2>3. UNCHANGED <<guard, tripper, told, died>>
    BY <1>9 DEF IssueTicket, CountMiss, CheckCode, Consume, IssueResetToken, TrustDevice, Trust,
       StartDeviceLimit, OpenSession, WritePassword, EndSessions
  <2> QED
    BY <2>1, <2>2, <2>3, LockKept DEF Tells
<1>10. ASSUME NEW r \in Requests, Die(r)
       PROVE  LockInv'
  <2>1. \A q \in Requests \ {r} : req'[q] = req[q]
    BY <1>1, <1>10, Moves DEF Advance
  <2>2. UNCHANGED <<guard, tripper, told>> /\ died' = died \cup {r}
    BY <1>10 DEF Die
  <2> QED
    BY <2>1, <2>2, LockKept
<1> QED
  BY <1>2, <1>3, <1>4, <1>5, <1>6, <1>7, <1>8, <1>9, <1>10 DEF Next

\* Whatever is checked in between, a lock that stands was told to the owner by
\* the guess that set it, once that is over (guardedVerify's onLockout).
THEOREM LocksAreTold == Spec => []LockIsTold
<1>1. Init => LockInv
  BY InitParts DEF LockInv, Unlocked
<1>2. TypeInv /\ LockInv => LockIsTold
  BY DEF LockInv, Tells, LockIsTold, InFlight
<1> QED
  BY <1>1, <1>2, TypeInvariant, LockNext, PTL DEF Spec

-----------------------------------------------------------------------------
(***************************************************************************)
(* Devices.                                                                *)
(***************************************************************************)
\* A step that leaves the devices and those on their way to a limit alone.
LEMMA DevicesKept ==
    ASSUME NewDeviceLimited, NEW r \in Requests, trusted' = trusted, first' = first,
           limited \subseteq limited', excused \subseteq excused',
           \A q \in Requests \ {r} : req'[q] = req[q],
           req[r].at = "limit" => req[r].device \in limited' \cup excused'
    PROVE  NewDeviceLimited'
<1> SUFFICES ASSUME NEW d \in trusted, d \notin limited'
             PROVE  d = first \/ d \in excused' \/ \E q \in Requests : req'[q].at = "limit" /\ req'[q].device = d
  BY DEF NewDeviceLimited
<1>1. d = first \/ d \in excused \/ \E q \in Requests : req[q].at = "limit" /\ req[q].device = d
  BY DEF NewDeviceLimited
<1> QED
  BY <1>1

LEMMA DevicesNext ==
    ASSUME TypeInv, NewDeviceLimited, [Next]_vars
    PROVE  NewDeviceLimited'
<1> USE DEF user, watched, spending
<1>1. TypeOK /\ RowsType
  BY DEF TypeInv, TypeOK, RowsType
<1>2. CASE UNCHANGED <<trusted, limited, req, first, excused>>
  BY <1>2 DEF NewDeviceLimited
<1>3. CASE \/ UNCHANGED vars \/ ClearLockouts \/ LockExpires \/ SetTransactionPin \/ GenerateCode
           \/ GrowOld
  BY <1>2, <1>3 DEF vars, ClearLockouts, LockExpires, SetTransactionPin, GenerateCode, GrowOld
<1>4. ASSUME NEW r \in Requests,
             \/ Login(r) \/ VerifyPin(r) \/ ConfirmLoginPin(r) \/ PresentCode(r)
             \/ PresentResetToken(r) \/ ChangePassword(r)
      PROVE  NewDeviceLimited'
  <2>1. \E op, place : Begin(r, op, place)
    BY <1>1, <1>4, Beginnings DEF BeginWith
  <2>2. (\A q \in Requests \ {r} : req'[q] = req[q]) /\ req[r].at = "idle"
    BY <2>1 DEF Begin
  <2>3. UNCHANGED <<trusted, limited, first>> /\ excused \subseteq excused'
    BY <1>4 DEF Login, VerifyPin, ConfirmLoginPin, PresentCode, PresentResetToken, ChangePassword
  <2> QED
    BY <2>2, <2>3, DevicesKept
<1>5. ASSUME NEW r \in Requests,
             \/ CheckSecret(r) \/ ClearAttempts(r) \/ IssueTicket(r) \/ CountMiss(r) \/ CheckCode(r)
             \/ Consume(r) \/ IssueResetToken(r) \/ OpenSession(r) \/ WritePassword(r)
             \/ EndSessions(r)
      PROVE  NewDeviceLimited'
  <2>1. (\A q \in Requests \ {r} : req'[q] = req[q]) /\ req[r].at # "limit"
    BY <1>1, <1>5, Moves DEF Advance
  <2>2. UNCHANGED <<trusted, limited, first>> /\ excused \subseteq excused'
    BY <1>5 DEF CheckSecret, ClearAttempts, IssueTicket, CountMiss, CheckCode, Consume,
       IssueResetToken, OpenSession, WritePassword, EndSessions
  <2> QED
    BY <2>1, <2>2, DevicesKept
<1>6. ASSUME NEW r \in Requests, Reserve(r)
      PROVE  NewDeviceLimited'
  <2>1. Advance(r, {"over"}) \/ Advance(r, {"check"})
    BY <1>1, <1>6, AttemptAdvances
  <2>2. (\A q \in Requests \ {r} : req'[q] = req[q]) /\ req[r].at # "limit"
    BY <1>6, <2>1 DEF Advance, Reserve
  <2> QED
    BY <1>6, <2>2, DevicesKept DEF Reserve
<1>7. ASSUME NEW r \in Requests, TrustDevice(r)
      PROVE  NewDeviceLimited'
  <2>1. (\A q \in Requests \ {r} : req'[q] = req[q]) /\ req[r].at = "save" /\ req'[r].device = req[r].device
    BY <1>1, <1>7, Moves DEF Advance
  <2>2. CASE req[r].device \in trusted
    BY <1>7, <2>1, <2>2, DevicesKept DEF TrustDevice, Trust
  <2>3. CASE req[r].device \notin trusted
    <3>1. /\ trusted' = trusted \cup {req[r].device} /\ limited' = limited
          /\ first' = IF trusted = {} /\ young THEN req[r].device ELSE first
          /\ excused' = IF trusted # {} /\ ~req[r].others THEN excused \cup {req[r].device} ELSE excused
          /\ Go(r, IF req[r].others \/ ~young THEN "limit" ELSE AfterTrust(r))
      BY <1>7, <2>3 DEF TrustDevice, Trust
    <3>2. ASSUME NEW d \in trusted \ limited
          PROVE  d = first' \/ d \in excused' \/ \E q \in Requests : req'[q].at = "limit" /\ req'[q].device = d
      <4>1. d = first \/ d \in excused \/ \E q \in Requests : req[q].at = "limit" /\ req[q].device = d
        BY <3>2 DEF NewDeviceLimited
      <4> QED
        BY <2>1, <3>1, <3>2, <4>1
    <3>3. req'[r].at = "limit" \/ req[r].device = first' \/ req[r].device \in excused'
      <4>1. CASE req[r].others \/ ~young
        BY <1>1, <3>1, <4>1, GoAdvances DEF Advance, Places
      <4>2. CASE ~(req[r].others \/ ~young)
        BY <3>1, <4>2
      <4> QED
        BY <4>1, <4>2
    <3> QED
      BY <2>1, <3>1, <3>2, <3>3 DEF NewDeviceLimited
  <2> QED
    BY <2>2, <2>3
<1>8. ASSUME NEW r \in Requests, StartDeviceLimit(r) \/ Die(r)
      PROVE  NewDeviceLimited'
  <2>1. \A q \in Requests \ {r} : req'[q] = req[q]
    BY <1>1, <1>8, Moves DEF Advance
  <2> QED
    BY <1>8, <2>1, DevicesKept DEF StartDeviceLimit, Die
<1> QED
  BY <1>3, <1>4, <1>5, <1>6, <1>7, <1>8 DEF Next

\* Every device but a young account's first brings the new-device limit, on
\* whatever way it became trusted (trustDevice), unless the request died or two
\* first devices came at once.
THEOREM DevicesAreLimited == Spec => []NewDeviceLimited
<1>1. Init => NewDeviceLimited
  BY InitParts DEF NewDeviceLimited
<1> QED
  BY <1>1, TypeInvariant, DevicesNext, PTL DEF Spec

-----------------------------------------------------------------------------
(***************************************************************************)
(* Passwords and the sessions opened with them.                            *)
(***************************************************************************)
Opening == {"login", "confirmPin", "code"}

\* What a request is about to open is of the password in force, or excused; and
\* the session that a change spares is excused.
RowRules(r) ==
    /\ req[r].at \in {"open", "save", "limit"} => req[r].op \in Opening
    /\ InFlight(r) /\ req[r].op \in Opening => req[r].password = password \/ r \in excused
    /\ req[r].at = "end" => req[r].keep \in excused \cup {None}

\* A live session is of the password in force, excused, or about to be ended.
PasswordInv ==
    /\ \A r \in Requests : RowRules(r)
    /\ \A s \in Sessions : session[s].is = "live" =>
          session[s].password = password \/ s \in excused \/ \E r \in Requests : req[r].at = "end"

\* A step that changes neither passwords nor sessions.
LEMMA PasswordKept ==
    ASSUME PasswordInv, NEW r \in Requests, UNCHANGED <<password, session>>, excused \subseteq excused',
           \A q \in Requests \ {r} : req'[q] = req[q],
           req[r].at = "end" => req'[r].at = "end" \/ Sessions \subseteq excused',
           RowRules(r)'
    PROVE  PasswordInv'
<1>1. ASSUME NEW q \in Requests
      PROVE  RowRules(q)'
  BY <1>1 DEF PasswordInv, RowRules, InFlight
<1>2. ASSUME NEW s \in Sessions, session[s].is = "live"
      PROVE  session[s].password = password \/ s \in excused' \/ \E q \in Requests : req'[q].at = "end"
  <2>1. session[s].password = password \/ s \in excused \/ \E q \in Requests : req[q].at = "end"
    BY <1>2 DEF PasswordInv
  <2> QED
    BY <1>2, <2>1
<1> QED
  BY <1>1, <1>2 DEF PasswordInv, RowRules

LEMMA PasswordNext ==
    ASSUME TypeInv, PasswordInv, [Next]_vars
    PROVE  PasswordInv'
<1> USE DEF user, watched, spending
<1>1. TypeOK /\ RowsType
  BY DEF TypeInv, TypeOK, RowsType
<1>2. CASE UNCHANGED <<password, session, req, excused>>
  BY <1>2 DEF PasswordInv, RowRules, InFlight
<1>3. CASE \/ UNCHANGED vars \/ ClearLockouts \/ LockExpires \/ SetTransactionPin \/ GenerateCode
           \/ GrowOld
  BY <1>2, <1>3 DEF vars, ClearLockouts, LockExpires, SetTransactionPin, GenerateCode, GrowOld
<1>4. ASSUME NEW r \in Requests,
             \/ Login(r) \/ VerifyPin(r) \/ ConfirmLoginPin(r) \/ PresentCode(r)
             \/ PresentResetToken(r) \/ ChangePassword(r)
      PROVE  PasswordInv'
  <2>1. UNCHANGED <<password, session>> /\ excused \subseteq excused'
    BY <1>4 DEF Login, VerifyPin, ConfirmLoginPin, PresentCode, PresentResetToken, ChangePassword
  <2>2. ASSUME NEW op, NEW place, Begin(r, op, place), place \in {"reserve", "check", "consume"},
               op \in Opening => req'[r].password = password \/ r \in excused'
        PROVE  PasswordInv'
    <3>1. req[r].at = "idle" /\ (\A q \in Requests \ {r} : req'[q] = req[q]) /\ req'[r].op = op /\ req'[r].at = place
      BY <2>2 DEF Begin
    <3>2. RowRules(r)'
      BY <2>1, <2>2, <3>1 DEF RowRules, InFlight
    <3> QED
      BY <2>1, <3>1, <3>2, PasswordKept
  <2>3. CASE Login(r) \/ VerifyPin(r)
    BY <1>1, <2>2, <2>3, Beginnings DEF BeginWith
  <2>4. CASE ConfirmLoginPin(r)
    <3>1. PICK i \in Items : /\ BeginWith(r, "confirmPin", "reserve", i)
                           /\ excused' = IF item[i].password = password THEN excused ELSE excused \cup {r}
      BY <1>1, <2>4, Beginnings
    <3> QED
      BY <2>2, <3>1 DEF BeginWith
  <2>5. CASE PresentCode(r)
    <3>1. PICK i \in Items : BeginWith(r, "code", "check", i) \/ BeginWith(r, "verifyReset", "check", i)
      BY <1>1, <2>5, Beginnings
    <3> QED
      BY <2>2, <3>1 DEF BeginWith, Opening
  <2>6. CASE PresentResetToken(r) \/ ChangePassword(r)
    BY <1>1, <2>2, <2>6, Beginnings DEF BeginWith, Opening
  <2> QED
    BY <1>4, <2>3, <2>4, <2>5, <2>6
<1>5. ASSUME NEW r \in Requests, NEW S, Advance(r, S), UNCHANGED <<password, session, excused>>,
             req[r].at \notin {"end", "idle", "over"}, req'[r].at # "end",
             req'[r].at \in {"open", "save", "limit"} => req[r].op \in Opening
      PROVE  PasswordInv'
  <2>1. RowRules(r)'
    BY <1>5 DEF PasswordInv, RowRules, InFlight, Advance
  <2> QED
    BY <1>5, <2>1, PasswordKept DEF Advance
<1>6. ASSUME NEW r \in Requests, Reserve(r)
      PROVE  PasswordInv'
  <2>1. Advance(r, {"over"}) \/ Advance(r, {"check"})
    BY <1>1, <1>6, AttemptAdvances
  <2> QED
    BY <1>5, <1>6, <2>1 DEF Reserve, Advance
<1>7. ASSUME NEW r \in Requests,
             CheckSecret(r) \/ IssueTicket(r) \/ CountMiss(r) \/ CheckCode(r) \/ IssueResetToken(r)
      PROVE  PasswordInv'
  <2>1. UNCHANGED <<password, session, excused>>
    BY <1>7 DEF CheckSecret, IssueTicket, CountMiss, CheckCode, IssueResetToken
  <2> QED
    BY <1>1, <1>5, <1>7, <2>1, Moves DEF Advance
<1>8. ASSUME NEW r \in Requests, ClearAttempts(r) \/ Consume(r)
      PROVE  PasswordInv'
  <2>1. UNCHANGED <<password, session, excused>>
    BY <1>8 DEF ClearAttempts, Consume
  <2>2. req'[r].at \in {"open", "save", "limit"} => req[r].op \in Opening
    BY <1>1, <1>8, GoAdvances DEF ClearAttempts, Consume, AfterConsume, Opening, Advance, Over, Places
  <2> QED
    BY <1>1, <1>5, <1>8, <2>1, <2>2, Moves DEF Advance
<1>9. ASSUME NEW r \in Requests, TrustDevice(r) \/ StartDeviceLimit(r)
      PROVE  PasswordInv'
  <2>1. UNCHANGED <<password, session>> /\ excused \subseteq excused'
    BY <1>9 DEF TrustDevice, Trust, StartDeviceLimit
  <2>2. Advance(r, {"over", "limit", "open"}) \/ Advance(r, {"over", "open"})
    BY <1>1, <1>9, Moves
  <2>3. req[r].at \in {"save", "limit"} /\ RowRules(r)
    BY <1>1, <1>9, Moves DEF PasswordInv
  <2>4. RowRules(r)'
    BY <2>1, <2>2, <2>3 DEF RowRules, InFlight, Advance
  <2> QED
    BY <2>1, <2>2, <2>3, <2>4, PasswordKept DEF Advance
<1>10. ASSUME NEW r \in Requests, OpenSession(r)
       PROVE  PasswordInv'
  <2>1. Advance(r, {"over", "save"}) /\ req[r].at = "open" /\ UNCHANGED <<password, excused>>
    BY <1>1, <1>10, Moves DEF OpenSession
  <2>2. /\ req[r].op \in Opening
        /\ req[r].password = password \/ r \in excused
    BY <2>1 DEF PasswordInv, RowRules, InFlight
  <2>3. ASSUME NEW q \in Requests
        PROVE  RowRules(q)'
    BY <2>1, <2>2, <2>3 DEF Advance, PasswordInv, RowRules, InFlight
  <2>4. \A s \in Sessions : session'[s].is = "live" => s = r /\ session'[s].password = req[r].password
    BY <1>1, <1>10 DEF OpenSession, Revoked, TypeOK
  <2> QED
    BY <2>1, <2>2, <2>3, <2>4 DEF PasswordInv
<1>11. ASSUME NEW r \in Requests, WritePassword(r)
       PROVE  PasswordInv'
  <2>1. /\ Advance(r, {"end"}) /\ req[r].at = "write" /\ session' = session
        /\ excused' = excused \cup ({req[r].keep} \ {None}) \cup {q \in Requests : InFlight(q)}
    BY <1>1, <1>11, Moves DEF WritePassword
  <2>2. ASSUME NEW q \in Requests
        PROVE  RowRules(q)'
    <3>1. CASE q = r
      BY <2>1, <3>1 DEF Advance, RowRules, InFlight, Opening
    <3>2. CASE q # r
      BY <2>1, <2>2, <3>2 DEF Advance, PasswordInv, RowRules, InFlight
    <3> QED
      BY <3>1, <3>2
  <2> QED
    BY <2>1, <2>2 DEF PasswordInv, Advance
<1>12. ASSUME NEW r \in Requests, EndSessions(r)
       PROVE  PasswordInv'
  <2>1. /\ Advance(r, {"over"}) /\ req[r].at = "end" /\ UNCHANGED <<password, excused>>
        /\ session' = Revoked(Sessions \ {req[r].keep})
    BY <1>1, <1>12, Moves DEF EndSessions
  <2>2. ASSUME NEW q \in Requests
        PROVE  RowRules(q)'
    BY <2>1, <2>2 DEF Advance, PasswordInv, RowRules, InFlight
  <2>3. \A s \in Sessions : session'[s].is = "live" => s = req[r].keep
    BY <1>1, <2>1 DEF Revoked, TypeOK
  <2>4. req[r].keep \in excused \cup {None} /\ None \notin Sessions
    BY <2>1 DEF PasswordInv, RowRules, Sessions
  <2> QED
    BY <2>1, <2>2, <2>3, <2>4 DEF PasswordInv
<1>13. ASSUME NEW r \in Requests, Die(r)
       PROVE  PasswordInv'
  <2>1. /\ Advance(r, {"over"}) /\ UNCHANGED <<password, session>> /\ excused \subseteq excused'
        /\ req[r].at = "end" => Sessions \subseteq excused'
    BY <1>1, <1>13, Moves DEF Die
  <2>2. RowRules(r)'
    BY <2>1 DEF RowRules, InFlight, Advance
  <2> QED
    BY <2>1, <2>2, PasswordKept DEF Advance
<1> QED
  BY <1>3, <1>4, <1>6, <1>7, <1>8, <1>9, <1>10, <1>11, <1>12, <1>13 DEF Next

\* A new password leaves no session of an old one alive, when nothing is under
\* way, but those that a race or a death excuses (changePassword,
\* confirmPasswordReset).
THEOREM PasswordsRule == Spec => []NewPasswordRules
<1>1. Init => PasswordInv
  <2> SUFFICES ASSUME Init PROVE PasswordInv
    OBVIOUS
  <2>1. \A r \in Requests : req[r].at = "idle"
    BY InitParts, WaitingType
  <2>2. \A s \in Sessions : session[s].password = password
    <3>1. PICK is \in {"none", "live"} :
            session = [s \in Sessions |-> [is |-> IF s = Earlier THEN is ELSE "none", password |-> 0]]
      BY Zenon DEF Init
    <3> QED
      BY <3>1, InitParts
  <2> QED
    BY <2>1, <2>2 DEF PasswordInv, RowRules, InFlight
<1>2. PasswordInv => NewPasswordRules
  BY DEF PasswordInv, NewPasswordRules, Quiet, InFlight
<1> QED
  BY <1>1, <1>2, TypeInvariant, PasswordNext, PTL DEF Spec

-----------------------------------------------------------------------------
(***************************************************************************)
(* Codes, tickets and reset tokens.                                        *)
(***************************************************************************)
Holds(r, i) == InFlight(r) /\ req[r].item = i

\* A request that has had what its item gives.
Served(r) == req[r].at = "end" \/ (req[r].op = "code" /\ req[r].at \in {"save", "limit"})

\* An item is used before it gives anything, and only one with a count of
\* attempts is missed.
HeldRules(r) ==
    /\ req[r].item \in Items /\ req[r].at \in {"open", "token", "write", "save", "limit", "end"}
          => item[req[r].item].used
    /\ req[r].op = "confirmReset" => req[r].at \in {"consume", "write", "end", "over"}
    /\ req[r].op \in {"login", "pin", "change"} => req[r].item \notin Items
HeldInv == \A r \in Requests : HeldRules(r)

\* An item that no two requests had at once: what it gave and the wrong answers
\* it took are what the row and its one holder say.
OnceFor(i) ==
    /\ \A q, r \in Requests : Holds(q, i) /\ Holds(r, i) => q = r
    /\ gained[i] <= 1
    /\ ~item[i].used => gained[i] = 0
    /\ \A r \in Requests : Holds(r, i) /\ ~Served(r) => gained[i] = 0
    /\ missed[i] <= item[i].attempts /\ missed[i] <= MaxItemAttempts
    /\ \A r \in Requests : Holds(r, i) /\ req[r].op # "confirmReset" =>
          req[r].attempts = item[i].attempts /\ item[i].attempts < MaxItemAttempts
OnceInv == \A i \in Items : ~together[i] => OnceFor(i)

\* What becomes of the rows: attempts stay, and what is used stays used.
RowsKept ==
    \A i \in Items : item'[i].attempts = item[i].attempts /\ (item[i].used => item'[i].used)

LEMMA IssueKeeps ==
    ASSUME TypeOK, NEW kind, NEW d, NEW p, Issue(kind, d, p)
    PROVE  RowsKept
<1>1. PICK j \in Items : /\ item[j] = NoItem
                        /\ item' = [item EXCEPT ![j] = [NoItem EXCEPT !.kind = kind, !.device = d, !.password = p]]
  BY DEF Issue
<1> DEFINE new == [NoItem EXCEPT !.kind = kind, !.device = d, !.password = p]
<1>2. new.attempts = NoItem.attempts /\ new.used = NoItem.used
  BY DEF NoItem
<1>3. item' = [item EXCEPT ![j] = new] /\ item \in [Items -> Item]
  BY <1>1 DEF TypeOK
<1> HIDE DEF new
<1> QED
  BY <1>1, <1>2, <1>3 DEF RowsKept

LEMMA ConsumeKeeps ==
    ASSUME TypeOK, NEW r \in Requests, Consume(r)
    PROVE  RowsKept /\ (req[r].item \in Items => item'[req[r].item].used)
<1> DEFINE j == req[r].item
           new == [item[j] EXCEPT !.used = TRUE]
<1>1. item' = [item EXCEPT ![j] = new] /\ item \in [Items -> Item]
  BY DEF Consume, TypeOK
<1>2. j \in Items => item[j] \in Item
  BY <1>1
<1>3. j \in Items => new.attempts = item[j].attempts /\ new.used = TRUE
  BY <1>2 DEF Item
<1> HIDE DEF new, j
<1>4. RowsKept /\ (j \in Items => item'[j].used)
  BY <1>1, <1>3 DEF RowsKept
<1> QED
  BY <1>4 DEF j

\* One more wrong answer than was read.
RowMissed(r) ==
    \A i \in Items : /\ (item'[i].used <=> item[i].used)
                     /\ i # req[r].item => item'[i].attempts = item[i].attempts
                     /\ i = req[r].item => item'[i].attempts = req[r].attempts + 1

LEMMA MissKeeps ==
    ASSUME TypeOK, NEW r \in Requests, CountMiss(r)
    PROVE  RowMissed(r)
<1> DEFINE j == req[r].item
           a == req[r].attempts + 1
           new == [item[j] EXCEPT !.attempts = a]
<1>1. item' = [item EXCEPT ![j] = new] /\ item \in [Items -> Item]
  BY DEF CountMiss, TypeOK
<1>2. j \in Items => item[j] \in Item
  BY <1>1
<1> HIDE DEF a
<1>3. j \in Items => new.attempts = a /\ new.used = item[j].used
  BY <1>2 DEF Item
<1> HIDE DEF new, j
<1>4. \A i \in Items : /\ (item'[i].used <=> item[i].used)
                       /\ i # j => item'[i].attempts = item[i].attempts
                       /\ i = j => item'[i].attempts = a
  BY <1>1, <1>3
<1> QED
  BY <1>4 DEF j, a, RowMissed

LEMMA HeldKept ==
    ASSUME HeldInv, NEW r \in Requests, \A q \in Requests \ {r} : req'[q] = req[q],
           \A i \in Items : item[i].used => item'[i].used, HeldRules(r)'
    PROVE  HeldInv'
  BY DEF HeldInv, HeldRules

LEMMA HeldNext ==
    ASSUME TypeInv, HeldInv, [Next]_vars
    PROVE  HeldInv'
<1> USE DEF user, watched, spending
<1>1. TypeOK /\ RowsType /\ Shaped
  BY DEF TypeInv, TypeOK, RowsType
<1>2. CASE UNCHANGED <<req, item>>
  BY <1>2 DEF HeldInv, HeldRules
<1>3. CASE GenerateCode
  BY <1>1, <1>3, IssueKeeps DEF GenerateCode, HeldInv, HeldRules, RowsKept
<1>4. CASE UNCHANGED vars \/ ClearLockouts \/ LockExpires \/ SetTransactionPin \/ GrowOld
  BY <1>2, <1>4 DEF vars, ClearLockouts, LockExpires, SetTransactionPin, GrowOld
<1>5. ASSUME NEW r \in Requests,
             \/ Login(r) \/ VerifyPin(r) \/ ConfirmLoginPin(r) \/ PresentCode(r)
             \/ PresentResetToken(r) \/ ChangePassword(r)
      PROVE  HeldInv'
  <2>1. /\ \A q \in Requests \ {r} : req'[q] = req[q]
        /\ req'[r].at \in {"reserve", "check", "consume"}
        /\ req'[r].op = "confirmReset" => req'[r].at = "consume"
        /\ req'[r].op \in {"login", "pin", "change"} => req'[r].item \notin Items
    <3>1. 0 \notin Items
      BY DEF Items
    <3> QED
      BY <1>1, <1>5, <3>1, Beginnings DEF BeginWith, Begin
  <2>2. item' = item
    BY <1>5 DEF Login, VerifyPin, ConfirmLoginPin, PresentCode, PresentResetToken, ChangePassword
  <2> QED
    BY <2>1, <2>2, HeldKept DEF HeldRules
<1>6. ASSUME NEW r \in Requests, NEW S, Advance(r, S), \A i \in Items : item[i].used => item'[i].used,
             /\ req[r].item \in Items /\ req'[r].at \in {"open", "token", "write", "save", "limit", "end"}
                   => item'[req[r].item].used
             /\ req[r].op = "confirmReset" => req'[r].at \in {"consume", "write", "end", "over"}
      PROVE  HeldInv'
  <2>1. HeldRules(r)'
    BY <1>6 DEF HeldInv, HeldRules, Advance
  <2> QED
    BY <1>6, <2>1, HeldKept DEF Advance
<1>7. ASSUME NEW r \in Requests, Reserve(r)
      PROVE  HeldInv'
  <2>1. Advance(r, {"over"}) \/ Advance(r, {"check"})
    BY <1>1, <1>7, AttemptAdvances
  <2>2. req[r].op # "confirmReset" /\ item' = item
    BY <1>1, <1>7 DEF Reserve, Shaped, Guarded
  <2>3. req'[r].at \in {"over", "check"}
    BY <2>1 DEF Advance
  <2> QED
    BY <1>6, <2>1, <2>2, <2>3
<1>8. ASSUME NEW r \in Requests, CheckSecret(r) \/ CheckCode(r)
      PROVE  HeldInv'
  <2>1. Advance(r, {"over", "miss", "clear"}) \/ Advance(r, {"miss", "consume"})
    BY <1>1, <1>8, Moves
  <2>2. req[r].op # "confirmReset" /\ item' = item
    BY <1>8 DEF CheckSecret, CheckCode
  <2>3. req'[r].at \in {"over", "miss", "clear", "consume"}
    BY <2>1 DEF Advance
  <2> QED
    BY <1>6, <2>1, <2>2, <2>3
<1>9. ASSUME NEW r \in Requests, ClearAttempts(r)
      PROVE  HeldInv'
  <2>1. Advance(r, {"ticket", "open", "save", "consume", "over", "write"}) /\ item' = item
    BY <1>1, <1>9, Moves DEF ClearAttempts
  <2>2. \/ req[r].op \in {"login", "pin", "change"}
        \/ req[r].op = "confirmPin" /\ req'[r].at = "consume"
    BY <1>1, <1>9, GoAdvances DEF ClearAttempts, Advance, Places
  <2>3. req[r].op \in {"login", "pin", "change"} => req[r].item \notin Items
    BY DEF HeldInv, HeldRules
  <2>4. \/ req[r].item \notin Items /\ req[r].op # "confirmReset"
        \/ req'[r].at = "consume" /\ req[r].op # "confirmReset"
    BY <2>2, <2>3
  <2> QED
    BY <1>6, <2>1, <2>4
<1>10. ASSUME NEW r \in Requests, IssueTicket(r) \/ IssueResetToken(r) \/ CountMiss(r)
       PROVE  HeldInv'
  <2>1. Advance(r, {"over"})
    BY <1>1, <1>10, Moves
  <2>2. \A i \in Items : item[i].used => item'[i].used
    <3>1. CASE IssueTicket(r)
      BY <1>1, <3>1, IssueKeeps DEF IssueTicket, RowsKept
    <3>2. CASE IssueResetToken(r)
      BY <1>1, <3>2, IssueKeeps DEF IssueResetToken, RowsKept
    <3>3. CASE CountMiss(r)
      <4>1. RowMissed(r)
        BY <1>1, <1>10, <3>3, MissKeeps
      <4> QED
        BY <4>1 DEF RowMissed
    <3> QED
      BY <1>10, <3>1, <3>2, <3>3
  <2>3. req'[r].at = "over"
    BY <2>1 DEF Advance
  <2> QED
    BY <1>6, <2>1, <2>2, <2>3
<1>11. ASSUME NEW r \in Requests, Consume(r)
       PROVE  HeldInv'
  <2>1. Advance(r, {"open", "save", "token", "write"})
    BY <1>1, <1>11, Moves
  <2>2. (\A i \in Items : item[i].used => item'[i].used) /\ (req[r].item \in Items => item'[req[r].item].used)
    BY <1>1, <1>11, ConsumeKeeps DEF RowsKept
  <2>3. req[r].op = "confirmReset" => req'[r].at = "write"
    BY <1>1, <1>11, GoAdvances DEF Consume, AfterConsume, Advance, Places
  <2> QED
    BY <1>6, <2>1, <2>2, <2>3
<1>12. ASSUME NEW r \in Requests,
              \/ TrustDevice(r) \/ StartDeviceLimit(r) \/ OpenSession(r) \/ WritePassword(r)
              \/ EndSessions(r) \/ Die(r)
       PROVE  HeldInv'
  <2>1. HeldRules(r)
    BY DEF HeldInv
  <2>2. Advance(r, {"over", "limit", "open", "save", "end"})
    BY <1>1, <1>12, Moves DEF Advance
  <2>3. /\ req'[r].at = "over" \/ req[r].at \in {"save", "limit", "open", "write"}
        /\ req[r].at = "write" => req'[r].at \in {"end", "over"}
    BY <1>1, <1>12, Moves DEF Advance
  <2>4. item' = item
    BY <1>12 DEF TrustDevice, Trust, StartDeviceLimit, OpenSession, WritePassword, EndSessions, Die
  <2>5. /\ req[r].item \in Items /\ req'[r].at \in {"open", "token", "write", "save", "limit", "end"}
              => item'[req[r].item].used
        /\ req[r].op = "confirmReset" => req'[r].at \in {"consume", "write", "end", "over"}
    BY <2>1, <2>2, <2>3, <2>4 DEF HeldRules, Advance
  <2> QED
    BY <1>6, <2>2, <2>4, <2>5
<1> QED
  BY <1>3, <1>4, <1>5, <1>7, <1>8, <1>9, <1>10, <1>11, <1>12 DEF Next

\* A step of a request under way that gives what its item is good for, once, or
\* gives nothing.
LEMMA OnceKept ==
    ASSUME OnceInv, NEW r \in Requests, NEW S, Advance(r, S), InFlight(r), RowsKept, missed' = missed,
           \A i \in Items : together[i] => together'[i],
           Served(r) => Served(r)' \/ ~InFlight(r)',
           \A i \in Items : \/ gained'[i] = gained[i]
                           \/ /\ i = req[r].item /\ gained'[i] = gained[i] + 1
                              /\ ~Served(r) /\ item[i].used /\ (Served(r)' \/ ~InFlight(r)')
    PROVE  OnceInv'
<1> SUFFICES ASSUME NEW i \in Items, ~together'[i] PROVE OnceFor(i)'
  BY DEF OnceInv
<1>1. OnceFor(i)
  BY DEF OnceInv
<1>2. item'[i].attempts = item[i].attempts /\ (item[i].used => item'[i].used)
  BY DEF RowsKept
<1>3. \A q \in Requests : Holds(q, i)' => /\ Holds(q, i) /\ (Served(q) => Served(q)')
                                         /\ req'[q].op = req[q].op /\ req'[q].attempts = req[q].attempts
  BY DEF Holds, InFlight, Advance, Served
<1>4. CASE gained'[i] = gained[i]
  BY <1>1, <1>2, <1>3, <1>4 DEF OnceFor
<1>5. CASE gained'[i] # gained[i]
  <2>1. /\ i = req[r].item /\ gained'[i] = gained[i] + 1 /\ ~Served(r) /\ item[i].used
        /\ Served(r)' \/ ~InFlight(r)'
    BY <1>5
  <2>2. Holds(r, i)
    BY <2>1 DEF Holds
  <2>3. gained[i] = 0
    BY <1>1, <2>1, <2>2 DEF OnceFor
  <2>4. \A q \in Requests : Holds(q, i)' => q = r /\ Served(q)'
    BY <1>1, <1>3, <2>1, <2>2 DEF OnceFor, Holds
  <2> QED
    BY <1>1, <1>2, <1>3, <2>1, <2>3, <2>4 DEF OnceFor
<1> QED
  BY <1>4, <1>5

\* A request that begins on an item nobody has, or on none.
LEMMA OnceBegun ==
    ASSUME OnceInv, HeldInv, TypeInv, NEW r \in Requests, NEW op, NEW place, NEW j \in Items \cup {0},
           BeginWith(r, op, place, j), place \in {"reserve", "check", "consume"},
           j # 0 => ~item[j].used, j # 0 /\ op # "confirmReset" => item[j].attempts < MaxItemAttempts,
           UNCHANGED <<item, gained, missed>>
    PROVE  OnceInv'
<1> SUFFICES ASSUME NEW i \in Items, ~together'[i] PROVE OnceFor(i)'
  BY DEF OnceInv
<1>1. ~together[i] /\ (i = j => \A q \in Requests \ {r} : ~Holds(q, i))
  BY DEF BeginWith, Holds
<1>2. OnceFor(i)
  BY <1>1 DEF OnceInv
<1>3. /\ \A q \in Requests \ {r} : req'[q] = req[q]
      /\ ~InFlight(r) /\ req'[r].at = place /\ req'[r].op = op /\ req'[r].item = j
      /\ req'[r].attempts = IF j = 0 THEN 0 ELSE item[j].attempts
  BY DEF BeginWith, Begin, InFlight
<1>4. CASE i = j
  <2>1. i # 0
    BY DEF Items
  <2>2. \A q \in Requests : Holds(q, i)' => q = r
    BY <1>1, <1>3, <1>4 DEF Holds, InFlight
  <2>3. gained[i] = 0
    BY <1>2, <1>4, <2>1 DEF OnceFor
  <2> QED
    BY <1>2, <1>3, <1>4, <2>1, <2>2, <2>3 DEF OnceFor
<1>5. CASE i # j
  <2>1. \A q \in Requests : Holds(q, i)' => /\ Holds(q, i) /\ (Served(q) => Served(q)')
                                           /\ req'[q].op = req[q].op /\ req'[q].attempts = req[q].attempts
    BY <1>3, <1>5 DEF Holds, InFlight, Served
  <2> QED
    BY <1>2, <2>1 DEF OnceFor
<1> QED
  BY <1>4, <1>5

LEMMA OnceNext ==
    ASSUME TypeInv, HeldInv, OnceInv, [Next]_vars
    PROVE  OnceInv'
<1> USE DEF user, watched, spending
<1>1. TypeOK /\ RowsType
  BY DEF TypeInv, TypeOK, RowsType
<1>2. CASE UNCHANGED <<req, gained, missed, together>> /\ RowsKept
  <2>1. ASSUME NEW i \in Items, ~together'[i]
        PROVE  OnceFor(i)'
    <3>1. OnceFor(i) /\ item'[i].attempts = item[i].attempts /\ (item[i].used => item'[i].used)
      BY <1>2, <2>1 DEF OnceInv, RowsKept
    <3> QED
      BY <1>2, <3>1 DEF OnceFor, Holds, InFlight, Served
  <2> QED
    BY <2>1 DEF OnceInv
<1>3. CASE GenerateCode
  BY <1>1, <1>2, <1>3, IssueKeeps DEF GenerateCode
<1>4. CASE UNCHANGED vars \/ ClearLockouts \/ LockExpires \/ SetTransactionPin \/ GrowOld
  <2>1. UNCHANGED <<req, item, gained, missed, together>>
    BY <1>4 DEF vars, ClearLockouts, LockExpires, SetTransactionPin, GrowOld
  <2> QED
    BY <1>2, <2>1 DEF RowsKept
<1>5. CASE \E r \in Requests : Login(r) \/ VerifyPin(r) \/ ConfirmLoginPin(r)
                              \/ PresentCode(r) \/ PresentResetToken(r)
  <2>1. PICK r \in Requests : \/ Login(r) \/ VerifyPin(r) \/ ConfirmLoginPin(r)
                             \/ PresentCode(r) \/ PresentResetToken(r)
    BY <1>5
  <2>2. UNCHANGED <<item, gained, missed>>
    BY <2>1 DEF Login, VerifyPin, ConfirmLoginPin, PresentCode, PresentResetToken
  <2>3. CASE Login(r) \/ VerifyPin(r)
    BY <1>1, <2>2, <2>3, Beginnings, OnceBegun
  <2>4. CASE ConfirmLoginPin(r)
    <3>1. PICK i \in Items : /\ BeginWith(r, "confirmPin", "reserve", i)
                           /\ ~item[i].used /\ item[i].attempts < MaxItemAttempts
      BY <1>1, <2>4, Beginnings
    <3> QED
      BY <2>2, <3>1, OnceBegun
  <2>5. CASE PresentCode(r)
    <3>1. PICK i \in Items : /\ BeginWith(r, "code", "check", i) \/ BeginWith(r, "verifyReset", "check", i)
                           /\ ~item[i].used /\ item[i].attempts < MaxItemAttempts
      BY <1>1, <2>5, Beginnings
    <3> QED
      BY <2>2, <3>1, OnceBegun
  <2>6. CASE PresentResetToken(r)
    <3>1. PICK i \in Items : BeginWith(r, "confirmReset", "consume", i) /\ ~item[i].used
      BY <1>1, <2>6, Beginnings
    <3> QED
      BY <2>2, <3>1, OnceBegun
  <2> QED
    BY <2>1, <2>3, <2>4, <2>5, <2>6
<1>6. ASSUME NEW r \in Requests, ChangePassword(r)
      PROVE  OnceInv'
  <2>1. /\ \A q \in Requests \ {r} : req'[q] = req[q]
        /\ req'[r].item = 0 /\ UNCHANGED <<item, gained, missed, together>>
    BY <1>1, <1>6, Beginnings DEF Begin, ChangePassword
  <2>2. ASSUME NEW i \in Items, ~together'[i]
        PROVE  OnceFor(i)'
    <3>1. OnceFor(i) /\ i # 0
      BY <2>1, <2>2 DEF OnceInv, Items
    <3>2. \A q \in Requests : Holds(q, i)' => q # r
      BY <2>1, <3>1 DEF Holds
    <3> QED
      BY <2>1, <3>1, <3>2 DEF OnceFor, Holds, InFlight, Served
  <2> QED
    BY <2>2 DEF OnceInv
<1>7. ASSUME NEW r \in Requests, Reserve(r)
      PROVE  OnceInv'
  <2>1. Advance(r, {"over"}) \/ Advance(r, {"check"})
    BY <1>1, <1>7, AttemptAdvances
  <2>2. InFlight(r) /\ ~Served(r) /\ UNCHANGED <<item, gained, missed, together>> /\ RowsKept
    BY <1>7 DEF Reserve, InFlight, Served, RowsKept
  <2> QED
    BY <2>1, <2>2, OnceKept
<1>8. ASSUME NEW r \in Requests, CheckSecret(r) \/ ClearAttempts(r) \/ IssueTicket(r) \/ CheckCode(r) \/ Consume(r)
      PROVE  OnceInv'
  <2>1. /\ Advance(r, {"over", "miss", "clear", "ticket", "open", "save", "consume", "write", "token"})
        /\ InFlight(r) /\ ~Served(r)
    BY <1>1, <1>8, Moves DEF Advance, InFlight, Served
  <2>2. UNCHANGED <<gained, missed, together>>
    BY <1>8 DEF CheckSecret, ClearAttempts, IssueTicket, CheckCode, Consume
  <2>3. RowsKept
    <3>1. CASE CheckSecret(r) \/ ClearAttempts(r) \/ CheckCode(r)
      BY <3>1 DEF CheckSecret, ClearAttempts, CheckCode, RowsKept
    <3>2. CASE IssueTicket(r)
      BY <1>1, <3>2, IssueKeeps DEF IssueTicket
    <3>3. CASE Consume(r)
      BY <1>1, <3>3, ConsumeKeeps
    <3> QED
      BY <1>8, <3>1, <3>2, <3>3
  <2> QED
    BY <2>1, <2>2, <2>3, OnceKept
<1>9. ASSUME NEW r \in Requests, TrustDevice(r) \/ StartDeviceLimit(r) \/ EndSessions(r)
      PROVE  OnceInv'
  <2>1. Advance(r, {"over", "limit", "open"}) /\ InFlight(r)
    BY <1>1, <1>9, Moves DEF Advance, InFlight
  <2>2. UNCHANGED <<item, gained, missed, together>> /\ RowsKept
    BY <1>9 DEF TrustDevice, Trust, StartDeviceLimit, EndSessions, RowsKept
  <2>3. Served(r) => Served(r)' \/ ~InFlight(r)'
    BY <1>1, <1>9, GoAdvances DEF TrustDevice, Trust, StartDeviceLimit, EndSessions, AfterTrust, Over,
       Served, InFlight, Advance, Places
  <2> QED
    BY <2>1, <2>2, <2>3, OnceKept
<1>10. ASSUME NEW r \in Requests, IssueResetToken(r) \/ OpenSession(r) \/ WritePassword(r)
       PROVE  OnceInv'
  <2>1. /\ Advance(r, {"over", "save", "end"}) /\ req[r].at \in {"token", "open", "write"}
        /\ InFlight(r) /\ ~Served(r)
    BY <1>1, <1>10, Moves DEF Advance, InFlight, Served
  <2>2. UNCHANGED <<missed, together>> /\ Gain(r)
    BY <1>10 DEF IssueResetToken, OpenSession, WritePassword
  <2>3. RowsKept
    <3>1. CASE IssueResetToken(r)
      BY <1>1, <3>1, IssueKeeps DEF IssueResetToken
    <3>2. CASE OpenSession(r) \/ WritePassword(r)
      BY <3>2 DEF OpenSession, WritePassword, RowsKept
    <3> QED
      BY <1>10, <3>1, <3>2
  <2>4. Served(r)' \/ ~InFlight(r)'
    BY <1>1, <1>10, GoAdvances, Moves DEF IssueResetToken, OpenSession, WritePassword, Over, Served, InFlight,
       Advance, Places
  <2>5. req[r].item \in Items => item[req[r].item].used
    BY <2>1 DEF HeldInv, HeldRules
  <2>6. \A i \in Items : gained'[i] = gained[i] \/ (i = req[r].item /\ gained'[i] = gained[i] + 1)
    BY <2>2 DEF Gain
  <2> QED
    BY <2>1, <2>2, <2>3, <2>4, <2>5, <2>6, OnceKept
<1>11. ASSUME NEW r \in Requests, CountMiss(r)
       PROVE  OnceInv'
  <2>1. Advance(r, {"over"}) /\ req[r].at = "miss" /\ UNCHANGED <<gained, together>>
        /\ missed' = [missed EXCEPT ![req[r].item] = missed[req[r].item] + 1]
    BY <1>1, <1>11, Moves DEF CountMiss
  <2>2. req[r].op # "confirmReset" /\ InFlight(r) /\ ~InFlight(r)'
    BY <2>1 DEF HeldInv, HeldRules, InFlight, Advance
  <2>3. ASSUME NEW i \in Items, ~together'[i]
        PROVE  OnceFor(i)'
    <3>1. OnceFor(i) /\ missed[i] \in Nat /\ item[i].attempts \in Nat
      BY <1>1, <2>1, <2>3 DEF OnceInv, TypeOK, Item
    <3>2. /\ (item'[i].used <=> item[i].used)
          /\ i # req[r].item => item'[i].attempts = item[i].attempts
          /\ i = req[r].item => item'[i].attempts = req[r].attempts + 1
      <4>1. RowMissed(r)
        BY <1>1, <1>11, MissKeeps
      <4> QED
        BY <2>3, <4>1 DEF RowMissed
    <3>3. \A q \in Requests : Holds(q, i)' => /\ Holds(q, i) /\ q # r /\ (Served(q) => Served(q)')
                                             /\ req'[q].op = req[q].op /\ req'[q].attempts = req[q].attempts
      BY <2>1, <2>2 DEF Holds, InFlight, Advance, Served
    <3>4. CASE i = req[r].item
      <4>1. Holds(r, i)
        BY <2>2, <3>4 DEF Holds
      <4>2. req[r].attempts = item[i].attempts /\ item[i].attempts < MaxItemAttempts
        BY <2>2, <3>1, <4>1 DEF OnceFor
      <4>3. \A q \in Requests : ~Holds(q, i)'
        BY <3>1, <3>3, <4>1 DEF OnceFor
      <4>4. missed'[i] = missed[i] + 1
        BY <1>1, <2>1, <3>4 DEF TypeOK
      <4>5. missed'[i] <= item'[i].attempts /\ missed'[i] <= MaxItemAttempts
        BY <3>1, <3>2, <3>4, <4>2, <4>4 DEF OnceFor
      <4> QED
        BY <2>1, <3>1, <3>2, <4>3, <4>5 DEF OnceFor
    <3>5. CASE i # req[r].item
      <4>1. missed'[i] = missed[i]
        BY <1>1, <2>1, <3>5 DEF TypeOK
      <4> QED
        BY <2>1, <3>1, <3>2, <3>3, <3>5, <4>1 DEF OnceFor
    <3> QED
      BY <3>4, <3>5
  <2> QED
    BY <2>3 DEF OnceInv
<1>12. ASSUME NEW r \in Requests, Die(r)
       PROVE  OnceInv'
  <2>1. Advance(r, {"over"}) /\ InFlight(r) /\ ~InFlight(r)'
    BY <1>1, <1>12, Moves DEF Advance, InFlight
  <2>2. /\ UNCHANGED <<item, gained, missed>> /\ RowsKept
        /\ \A i \in Items : together[i] => together'[i]
    BY <1>12 DEF Die, RowsKept
  <2> QED
    BY <2>1, <2>2, OnceKept
<1> QED
  BY <1>3, <1>4, <1>5, <1>6, <1>7, <1>8, <1>9, <1>10, <1>11, <1>12 DEF Next

\* A code, ticket or reset token that no two requests had at once gives one
\* thing and takes no more wrong answers than the limit, whatever dies between
\* its use and its effect (OtpService.verify, consumePasswordResetToken).
THEOREM ItemsAreSpentOnce == Spec => []ItemsSpentOnce
<1>1. Init => HeldInv /\ OnceInv
  <2> SUFFICES ASSUME Init PROVE HeldInv /\ OnceInv
    OBVIOUS
  <2>1. \A r \in Requests : req[r].at = "idle" /\ req[r].item = 0 /\ req[r].op = "none"
    BY InitParts DEF Waiting
  <2>2. \A i \in Items : gained[i] = 0 /\ missed[i] = 0 /\ item[i].attempts \in Nat
    BY InitParts, TypeInit DEF TypeInv, TypeOK, Item
  <2> QED
    BY <2>1, <2>2 DEF HeldInv, HeldRules, OnceInv, OnceFor, Holds, InFlight
<1>2. OnceInv => ItemsSpentOnce
  BY DEF OnceInv, OnceFor, ItemsSpentOnce
<1> QED
  BY <1>1, <1>2, TypeInvariant, HeldNext, OnceNext, PTL DEF Spec
=============================================================================
