----------------------------- MODULE BillsProofs ----------------------------
(***************************************************************************)
(* Proofs about Bills, for every set of wallets, bills and desks and every *)
(* bound.                                                                  *)
(***************************************************************************)
EXTENDS Bills, TLAPS

USE BillsAssumption

-----------------------------------------------------------------------------
(***************************************************************************)
(* Type correctness.                                                       *)
(***************************************************************************)
\* The numbers, for the steps that do arithmetic.
LEMMA Counters ==
    ASSUME TypeOK
    PROVE  /\ balance \in [Wallets -> Nat]
           /\ tries \in [Bills -> Nat] /\ fetches \in [Bills -> Nat]
           /\ aborts \in [Bills -> Nat]
  BY DEF TypeOK

LEMMA StallCounters ==
    ASSUME TypeOK
    PROVE  stalls \in [Bills -> [{"status", "token"} -> Nat]]
  BY DEF TypeOK

\* How a run ends: the actor leaves, and only the worker's job changes.
Ends(b, a) ==
    /\ pc' = [pc EXCEPT ![b][a] = IF a = "request" THEN "over" ELSE "idle"]
    /\ \/ job' = job
       \/ a = "worker" /\ \E j \in Jobs \ {"none"} : job' = [job EXCEPT ![b] = j]

LEMMA ReturnEnds ==
    ASSUME TypeOK, NEW b \in Bills, NEW a \in Actors, Return(b, a)
    PROVE  Ends(b, a) /\ tries' = tries
<1>1. "completed" \in Jobs \ {"none"}
  BY DEF Jobs
<1> QED
  BY <1>1 DEF Return, Leave, Go, Ends

LEMMA ThrowEnds ==
    ASSUME TypeOK, NEW b \in Bills, NEW a \in Actors, Throw(b, a)
    PROVE  /\ Ends(b, a)
           /\ tries' \in [Bills -> Nat] /\ alerted' \in [Bills -> BOOLEAN]
<1>1. pc' = [pc EXCEPT ![b][a] = IF a = "request" THEN "over" ELSE "idle"]
  BY DEF Throw, Leave, Go
<1>2. CASE a # "worker"
  <2>1. UNCHANGED <<job, tries, alerted>>
    BY <1>2 DEF Throw, queue
  <2> QED
    BY <1>1, <2>1 DEF Ends, TypeOK
<1>3. CASE a = "worker"
  <2>1. tries' = [tries EXCEPT ![b] = @ + 1]
    BY <1>3 DEF Throw
  <2>2. {"waiting", "exhausted"} \subseteq Jobs \ {"none"}
    BY DEF Jobs
  <2>3. \/ job' = [job EXCEPT ![b] = "waiting"] /\ alerted' = alerted
        \/ job' = [job EXCEPT ![b] = "exhausted"] /\ alerted' = [alerted EXCEPT ![b] = TRUE]
    BY <1>3 DEF Throw
  <2>4. alerted' \in [Bills -> BOOLEAN]
    BY <2>3 DEF TypeOK
  <2>5. Ends(b, a)
    BY <1>1, <1>3, <2>2, <2>3 DEF Ends
  <2>6. tries' \in [Bills -> Nat]
    BY <2>1, Counters
  <2> QED
    BY <2>4, <2>5, <2>6
<1> QED
  BY <1>2, <1>3

LEMMA EndsType ==
    ASSUME TypeOK, NEW b \in Bills, NEW a \in Actors, Ends(b, a)
    PROVE  pc' \in [Bills -> [Actors -> Phases]] /\ job' \in [Bills -> Jobs]
<1>1. pc' \in [Bills -> [Actors -> Phases]]
  BY DEF TypeOK, Ends, Phases
<1>2. job' \in [Bills -> Jobs]
  <2>1. CASE job' = job
    BY <2>1 DEF TypeOK
  <2>2. ASSUME NEW j \in Jobs, job' = [job EXCEPT ![b] = j]
        PROVE  job' \in [Bills -> Jobs]
    BY <2>2 DEF TypeOK
  <2> QED
    BY <2>1, <2>2 DEF Ends
<1> QED
  BY <1>1, <1>2

LEMMA GoType ==
    ASSUME TypeOK, NEW b \in Bills, NEW a \in Actors, NEW phase \in Phases, Go(b, a, phase)
    PROVE  pc' \in [Bills -> [Actors -> Phases]]
  BY DEF TypeOK, Go

\* What the run learns is an outcome, and the token only if VFD issued it.
LEMMA LearnType ==
    ASSUME TypeOK, NEW b \in Bills, NEW a \in Actors, NEW S \in SUBSET Outcomes,
           Learn(b, a, S)
    PROVE  /\ pc' \in [Bills -> [Actors -> Phases]]
           /\ got' \in [Bills -> [Actors -> BOOLEAN]]
<1>1. PICK o \in S, t \in {FALSE, issued[b]} :
         Go(b, a, o) /\ got' = [got EXCEPT ![b][a] = t]
  BY DEF Learn
<1>2. o \in Phases /\ t \in BOOLEAN
  BY DEF Phases, TypeOK
<1>3. pc' \in [Bills -> [Actors -> Phases]]
  BY <1>1, <1>2, GoType
<1>4. got' \in [Bills -> [Actors -> BOOLEAN]]
  BY <1>1, <1>2 DEF TypeOK
<1> QED
  BY <1>3, <1>4

\* An email that goes out, or does not, is one bill's.
LEMMA EmailType ==
    ASSUME TypeOK, NEW b \in Bills, NEW r \in {"complete", "token missing"}, MayEmail(b, r)
    PROVE  /\ receipt' \in [Bills -> {"none", "complete", "token missing"}]
           /\ receipt'[b] \in {receipt[b], r}
           /\ \A c \in Bills \ {b} : receipt'[c] = receipt[c]
<1>1. receipt' = receipt \/ receipt' = [receipt EXCEPT ![b] = r]
  BY DEF MayEmail
<1> QED
  BY <1>1 DEF TypeOK

LEMMA AnswersAreOutcomes ==
    ASSUME NEW b \in Bills
    PROVE  /\ BillAnswers(b) \in SUBSET Outcomes
           /\ BillQueryAnswers(b) \in SUBSET Outcomes
           /\ TransferQueryAnswers(b) \in SUBSET Outcomes
  BY DEF BillAnswers, BillQueryAnswers, TransferQueryAnswers, Outcomes

LEMMA TotalNat ==
    ASSUME NEW b \in Bills
    PROVE  Total(b) \in Nat
  BY DEF Total

\* Debiting, sending and answering keep the types: what is debited is covered.
LEMMA RequestType ==
    ASSUME TypeOK, NEW b \in Bills,
           PayBill(b) \/ SendToProvider(b) \/ PayAnswered(b) \/ BillMoves(b) \/ IssueToken(b)
    PROVE  TypeOK'
<1> USE DEF ledger, queue, tokens, env, news, bank
<1>0. "request" \in Actors /\ {"sending", "calling"} \subseteq Phases
  BY DEF Actors, Phases
<1>1. CASE PayBill(b)
  <2>1. balance' \in [Wallets -> Nat]
    BY <1>1, TotalNat, Counters DEF PayBill
  <2>2. pc' \in [Bills -> [Actors -> Phases]]
    BY <1>0, <1>1, GoType DEF PayBill, Go
  <2> QED
    BY <1>1, <2>1, <2>2 DEF TypeOK, PayBill, Statuses
<1>2. CASE SendToProvider(b)
  <2>1. pc' \in [Bills -> [Actors -> Phases]]
    BY <1>0, <1>2, GoType DEF SendToProvider
  <2> QED
    BY <1>2, <2>1 DEF TypeOK, SendToProvider, Fates
<1>3. CASE PayAnswered(b)
  BY <1>0, <1>3, LearnType, AnswersAreOutcomes DEF TypeOK, PayAnswered
<1>4. CASE BillMoves(b)
  <2>1. PICK f \in Fates : vfd' = [vfd EXCEPT ![b] = f]
    BY <1>4 DEF BillMoves, Fates
  <2> QED
    BY <1>4, <2>1 DEF TypeOK, BillMoves
<1>5. CASE IssueToken(b)
  BY <1>5 DEF TypeOK, IssueToken
<1> QED
  BY <1>1, <1>2, <1>3, <1>4, <1>5

\* So does asking.
LEMMA QueryType ==
    ASSUME TypeOK, NEW b \in Bills,
           \/ WorkerTakes(b) \/ WorkerAnswered(b)
           \/ \E d \in Desks : DeskRequery(b, d) \/ DeskAnswered(b, d)
    PROVE  TypeOK'
<1> USE DEF ledger, queue, tokens, env, news, bank
<1>0. "worker" \in Actors /\ Desks \subseteq Actors /\ "asking" \in Phases /\ Outcomes \subseteq Phases
  BY DEF Actors, Phases
<1>1. CASE WorkerTakes(b)
  <2>1. PICK j \in Jobs : job' = [job EXCEPT ![b] = j]
    <3>1. {"completed", "active"} \subseteq Jobs
      BY DEF Jobs
    <3> QED
      BY <1>1, <3>1 DEF WorkerTakes
  <2>2. pc' = pc \/ Go(b, "worker", "asking")
    BY <1>1 DEF WorkerTakes
  <2>3. pc' \in [Bills -> [Actors -> Phases]]
    BY <1>0, <2>2, GoType DEF TypeOK
  <2> QED
    BY <1>1, <2>1, <2>3 DEF TypeOK, WorkerTakes
<1>2. CASE WorkerAnswered(b)
  BY <1>0, <1>2, LearnType, AnswersAreOutcomes DEF TypeOK, WorkerAnswered
<1>3. ASSUME NEW d \in Desks, DeskRequery(b, d)
      PROVE  TypeOK'
  <2>1. pc' \in [Bills -> [Actors -> Phases]]
    BY <1>0, <1>3, GoType DEF DeskRequery
  <2> QED
    BY <1>3, <2>1 DEF TypeOK, DeskRequery
<1>4. ASSUME NEW d \in Desks, DeskAnswered(b, d)
      PROVE  TypeOK'
  <2>1. PICK o \in TransferQueryAnswers(b) : Go(b, d, o)
    BY <1>4 DEF DeskAnswered
  <2>2. o \in Phases
    BY <1>0, AnswersAreOutcomes
  <2>3. pc' \in [Bills -> [Actors -> Phases]]
    BY <1>0, <2>1, <2>2, GoType
  <2> QED
    BY <1>4, <2>3 DEF TypeOK, DeskAnswered
<1> QED
  BY <1>1, <1>2, <1>3, <1>4

\* Applying any outcome keeps the types; a refund only adds to a balance.
LEMMA ResolveType ==
    ASSUME TypeOK, NEW b \in Bills, NEW a \in Actors,
           Resolve(b, a) \/ (a \in Desks /\ DeskSuccessful(b, a))
    PROVE  TypeOK'
<1> USE DEF ledger, queue, tokens, env, news, bank
<1>0. {"queueing", "reversing"} \subseteq Phases
  BY DEF Phases
<1>1. CASE MarkSuccessful(b, a)
  <2>1. token' \in [Bills -> BOOLEAN]
    BY <1>1 DEF TypeOK, MarkSuccessful
  <2>2. CASE Holds(b, a)
    <3>1. Go(b, a, "queueing") /\ UNCHANGED <<job, tries, receipt>>
      BY <1>1, <2>2 DEF MarkSuccessful
    <3> QED
      BY <1>0, <1>1, <2>1, <3>1, GoType DEF TypeOK, MarkSuccessful, Statuses, Terminal
  <2>3. CASE ~Holds(b, a)
    <3>1. Return(b, a) /\ MayEmail(b, "complete")
      BY <1>1, <2>3 DEF MarkSuccessful
    <3> QED
      BY <1>1, <2>1, <3>1, ReturnEnds, EndsType, EmailType DEF TypeOK, MarkSuccessful, Statuses, Terminal
  <2> QED
    BY <2>2, <2>3
<1>2. CASE QueueTokenFetch(b, a)
  <2>1. \/ tokenJob' = [tokenJob EXCEPT ![b] = "waiting"] /\ aborts' = aborts
        \/ tokenJob' = tokenJob /\ aborts' = [aborts EXCEPT ![b] = @ + 1]
    BY <1>2 DEF QueueTokenFetch
  <2>2. tokenJob' \in [Bills -> Runs]
    BY <2>1 DEF TypeOK, Runs
  <2>3. aborts' \in [Bills -> Nat]
    BY <2>1, Counters
  <2> QED
    BY <1>2, <2>2, <2>3, ReturnEnds, EndsType DEF TypeOK, QueueTokenFetch
<1>3. CASE a \in Desks /\ DeskSuccessful(b, a)
  BY <1>3, ReturnEnds, EndsType DEF TypeOK, DeskSuccessful, Statuses, Terminal
<1>4. CASE ReadForReversal(b, a)
  <2>1. Return(b, a) \/ (Go(b, a, "reversing") /\ UNCHANGED <<job, tries>>)
    BY <1>4 DEF ReadForReversal
  <2> QED
    BY <1>0, <1>4, <2>1, GoType, ReturnEnds, EndsType DEF TypeOK, ReadForReversal
<1>5. CASE CommitReversal(b, a)
  <2>1. balance' \in [Wallets -> Nat]
    BY <1>5, TotalNat, Counters DEF CommitReversal
  <2> QED
    BY <1>5, <2>1, ReturnEnds, EndsType DEF TypeOK, CommitReversal, Statuses, Terminal
<1>6. CASE RollBackReversal(b, a)
  BY <1>6, ThrowEnds, EndsType DEF TypeOK, RollBackReversal
<1>7. CASE StayUnresolved(b, a)
  <2>1. CASE a = "request"
    <3>1. Leave(b, a) /\ job' = [job EXCEPT ![b] = "waiting"] /\ UNCHANGED <<tries, alerted>>
      BY <1>7, <2>1 DEF StayUnresolved
    <3>2. pc' \in [Bills -> [Actors -> Phases]]
      BY <3>1 DEF TypeOK, Leave, Go, Phases
    <3> QED
      BY <1>7, <3>1, <3>2 DEF TypeOK, StayUnresolved, Jobs
  <2>2. CASE a # "request"
    BY <1>7, <2>2, ThrowEnds, EndsType DEF TypeOK, StayUnresolved
  <2> QED
    BY <2>1, <2>2
<1> QED
  BY <1>1, <1>2, <1>3, <1>4, <1>5, <1>6, <1>7 DEF Resolve

\* The token job and the deaths keep the types.
LEMMA StallType ==
    ASSUME TypeOK, NEW b \in Bills, NEW j \in {"status", "token"}, Stall(b, j)
    PROVE  /\ stalls' \in [Bills -> [{"status", "token"} -> Nat]]
           /\ j = "status" => /\ \E new \in Jobs \ {"none"} : job' = [job EXCEPT ![b] = new]
                              /\ UNCHANGED <<tokenJob, fetches>>
           /\ j = "token" => /\ tokenJob' \in [Bills -> Runs]
                             /\ UNCHANGED <<job, tries, fetches>>
<1> DEFINE next == IF stalls[b][j] < MaxStalls THEN "waiting" ELSE "stalled_out"
<1>1. next \in Jobs \ {"none"} /\ next \in Runs
  BY DEF Jobs, Runs
<1>2. stalls' \in [Bills -> [{"status", "token"} -> Nat]]
  BY StallCounters DEF Stall
<1>3. CASE j = "status"
  <2>1. job' = [job EXCEPT ![b] = next] /\ UNCHANGED <<tokenJob, fetches>>
    BY <1>3 DEF Stall, tokens
  <2> QED
    BY <1>1, <1>2, <1>3, <2>1
<1>4. CASE j = "token"
  <2>1. tokenJob' = [tokenJob EXCEPT ![b] = next] /\ UNCHANGED <<job, tries, fetches>>
    BY <1>4 DEF Stall, queue
  <2>2. tokenJob' \in [Bills -> Runs]
    BY <1>1, <2>1 DEF TypeOK
  <2> QED
    BY <1>2, <1>4, <2>1, <2>2
<1> QED
  BY <1>3, <1>4

LEMMA TokenType ==
    ASSUME TypeOK, NEW b \in Bills, TokenWork(b) \/ AbortFetch(b)
    PROVE  TypeOK'
<1> USE DEF ledger, queue, tokens, env, news, bank
<1>1. ASSUME NEW new \in Runs, tokenJob' = [tokenJob EXCEPT ![b] = new]
      PROVE  tokenJob' \in [Bills -> Runs]
  BY <1>1 DEF TypeOK
<1>2. {"waiting", "asking", "mailing", "failing", "telling", "completed", "exhausted"} \subseteq Runs
  BY DEF Runs
<1>3. ASSUME FetchFails(b)
      PROVE  tokenJob' \in [Bills -> Runs] /\ fetches' \in [Bills -> Nat]
  <2>1. fetches' \in [Bills -> Nat]
    BY <1>3, Counters DEF FetchFails
  <2> QED
    BY <1>1, <1>2, <1>3, <2>1 DEF FetchFails
<1>4. CASE FetchOrMail(b)
  <2>1. tokenJob' \in [Bills -> Runs]
    BY <1>1, <1>2, <1>4 DEF FetchOrMail
  <2> QED
    BY <1>4, <2>1 DEF TypeOK, FetchOrMail
<1>5. CASE StoreToken(b)
  <2>1. tokenJob' \in [Bills -> Runs]
    BY <1>1, <1>2, <1>5 DEF StoreToken
  <2> QED
    BY <1>5, <2>1 DEF TypeOK, StoreToken
<1>6. CASE MailReceipt(b)
  <2>1. tokenJob' \in [Bills -> Runs]
    BY <1>1, <1>2, <1>6 DEF MailReceipt
  <2>2. receipt' \in [Bills -> {"none", "complete", "token missing"}]
    BY <1>6, EmailType DEF MailReceipt
  <2> QED
    BY <1>6, <2>1, <2>2 DEF TypeOK, MailReceipt
<1>9. CASE MailWithoutToken(b)
  <2>1. tokenJob' \in [Bills -> Runs]
    BY <1>1, <1>2, <1>9 DEF MailWithoutToken
  <2>2. receipt' \in [Bills -> {"none", "complete", "token missing"}]
    BY <1>9, EmailType DEF MailWithoutToken
  <2> QED
    BY <1>9, <2>1, <2>2 DEF TypeOK, MailWithoutToken
<1>10. CASE TellStaff(b)
  <2>1. tokenJob' \in [Bills -> Runs]
    BY <1>1, <1>2, <1>10 DEF TellStaff
  <2> QED
    BY <1>10, <2>1 DEF TypeOK, TellStaff
<1>7. CASE TokenNotYet(b)
  BY <1>3, <1>7 DEF TypeOK, TokenNotYet
<1>8. CASE AbortFetch(b)
  <2>1. aborts' \in [Bills -> Nat]
    BY <1>8, Counters DEF AbortFetch
  <2>2. CASE FetchFails(b) /\ UNCHANGED <<job, tries, stalls>>
    BY <1>3, <1>8, <2>1, <2>2 DEF TypeOK, AbortFetch
  <2>3. CASE Stall(b, "token")
    BY <1>8, <2>1, <2>3, StallType DEF TypeOK, AbortFetch
  <2>4. CASE /\ tokenJob' = [tokenJob EXCEPT ![b] = "exhausted"]
             /\ UNCHANGED <<job, tries, fetches, stalls>>
    <3>1. tokenJob' \in [Bills -> Runs]
      BY <1>1, <1>2, <2>4
    <3> QED
      BY <1>8, <2>1, <2>4, <3>1 DEF TypeOK, AbortFetch
  <2> QED
    BY <1>8, <2>2, <2>3, <2>4 DEF AbortFetch
<1> QED
  BY <1>4, <1>5, <1>6, <1>7, <1>8, <1>9, <1>10 DEF TokenWork

LEMMA AbortType ==
    ASSUME TypeOK, NEW b \in Bills, NEW a \in Actors, Abort(b, a)
    PROVE  TypeOK' /\ Ends(b, a)
<1> USE DEF ledger, queue, tokens, env, news, bank
<1>1. aborts' \in [Bills -> Nat]
  BY Counters DEF Abort
<1>2. CASE Throw(b, a) /\ UNCHANGED <<tokenJob, fetches, stalls>>
  BY <1>1, <1>2, ThrowEnds, EndsType DEF TypeOK, Abort
<1>3. CASE a = "worker" /\ Leave(b, a) /\ Stall(b, "status") /\ UNCHANGED <<tries, alerted>>
  <2>1. Ends(b, a)
    BY <1>3, StallType DEF Ends, Leave, Go
  <2> QED
    BY <1>1, <1>3, <2>1, EndsType, StallType DEF TypeOK, Abort
<1> QED
  BY <1>2, <1>3 DEF Abort

\* TypeOK is inductive on its own.
LEMMA NextType ==
    ASSUME TypeOK, [Next]_vars
    PROVE  TypeOK'
<1>1. CASE UNCHANGED vars
  BY <1>1 DEF TypeOK, vars, ledger, queue, tokens, env, news, bank
<1>2. CASE Next
  <2>1. {"request", "worker"} \cup Desks = Actors
    BY DEF Actors
  <2> QED
    BY <1>2, <2>1, RequestType, QueryType, ResolveType, TokenType, AbortType
       DEF Next, Request, Worker, Desk
<1> QED
  BY <1>1, <1>2

\* Every state is well typed, and no balance is ever negative.
THEOREM BillsTypeCorrect == Spec => []TypeOK
<1>1. Init => TypeOK
  BY DEF Init, Each, TypeOK, Statuses, Fates, Phases, Jobs, Runs
<1> QED
  BY <1>1, NextType, PTL DEF Spec

-----------------------------------------------------------------------------
(***************************************************************************)
(* The order of the actors: the request comes first, the worker and staff  *)
(* after it.  A row that can be reversed has its debit in the books.       *)
(***************************************************************************)
Ordered(b) ==
    /\ status[b] = "NONE" <=> pc[b]["request"] = "idle"
    /\ status[b] = "NONE" => reversals[b] = 0
    /\ pc[b]["request"] # "over" =>
          job[b] = "none" /\ \A a \in Actors \ {"request"} : pc[b][a] = "idle"

OrderInv == TypeOK /\ \A b \in Bills : Ordered(b)

\* No step of one bill is seen by another.
Untouched(c) ==
    /\ status'[c] = status[c] /\ reversals'[c] = reversals[c] /\ token'[c] = token[c]
    /\ vfd'[c] = vfd[c] /\ pc'[c] = pc[c] /\ job'[c] = job[c]
    /\ tokenJob'[c] = tokenJob[c] /\ receipt'[c] = receipt[c]

\* What the end of a run leaves alone.
LEMMA EndsFrame ==
    ASSUME TypeOK, NEW b \in Bills, NEW a \in Actors, Ends(b, a)
    PROVE  /\ \A x \in Actors \ {a} : pc'[b][x] = pc[b][x]
           /\ pc'[b][a] = IF a = "request" THEN "over" ELSE "idle"
           /\ a # "worker" => job'[b] = job[b]
           /\ \A c \in Bills \ {b} : pc'[c] = pc[c] /\ job'[c] = job[c]
<1>1. pc' = [pc EXCEPT ![b][a] = IF a = "request" THEN "over" ELSE "idle"]
  BY DEF Ends
<1>2. job' = job \/ (a = "worker" /\ \E j \in Jobs : job' = [job EXCEPT ![b] = j])
  BY DEF Ends
<1>3. \A c \in Bills \ {b} : job'[c] = job[c]
  BY <1>2 DEF TypeOK
<1>4. a # "worker" => job'[b] = job[b]
  BY <1>2
<1> QED
  BY <1>1, <1>3, <1>4 DEF TypeOK

\* The end of a run keeps the order.
LEMMA EndsOrdered ==
    ASSUME OrderInv, NEW b \in Bills, NEW a \in Actors, Ends(b, a),
           pc[b][a] # "idle", status[b] # "NONE",
           status'[b] # "NONE"
    PROVE  Ordered(b)'
<1>1. TypeOK /\ Ordered(b)
  BY DEF OrderInv
<1>2. CASE a = "request"
  <2>1. pc'[b]["request"] = "over"
    BY <1>1, <1>2, EndsFrame
  <2> QED
    BY <2>1 DEF Ordered
<1>3. CASE a # "request"
  <2>1. pc[b]["request"] = "over"
    BY <1>1, <1>3 DEF Ordered
  <2>2. pc'[b]["request"] = "over"
    BY <1>1, <1>3, <2>1, EndsFrame DEF Actors
  <2> QED
    BY <2>2 DEF Ordered
<1> QED
  BY <1>2, <1>3

\* The request and VFD: the frame and the order.
LEMMA RequestOrder ==
    ASSUME OrderInv, NEW b \in Bills,
           PayBill(b) \/ SendToProvider(b) \/ PayAnswered(b) \/ BillMoves(b) \/ IssueToken(b)
    PROVE  Ordered(b)' /\ \A c \in Bills \ {b} : Untouched(c)
<1> USE DEF ledger, queue, tokens, env, news, bank
<1>0. TypeOK /\ Ordered(b) /\ "request" \in Actors
  BY DEF OrderInv, Actors
<1>1. CASE PayBill(b)
  <2>1. /\ status[b] = "NONE" /\ status' = [status EXCEPT ![b] = "PROCESSING"]
        /\ pc' = [pc EXCEPT ![b]["request"] = "sending"]
        /\ UNCHANGED <<reversals, token, vfd, job, tokenJob, receipt>>
    BY <1>1 DEF PayBill
  <2>2. Ordered(b)'
    BY <1>0, <2>1 DEF Ordered, TypeOK
  <2> QED
    BY <1>0, <2>1, <2>2 DEF Untouched, TypeOK
<1>2. CASE SendToProvider(b)
  <2>1. /\ pc[b]["request"] = "sending"
        /\ pc' = [pc EXCEPT ![b]["request"] = "calling"]
        /\ vfd' = [vfd EXCEPT ![b] = "inflight"]
        /\ UNCHANGED <<status, reversals, token, job, tokenJob, receipt>>
    BY <1>2 DEF SendToProvider, Go
  <2>2. Ordered(b)'
    BY <1>0, <2>1 DEF Ordered, TypeOK
  <2> QED
    BY <1>0, <2>1, <2>2 DEF Untouched, TypeOK
<1>3. CASE PayAnswered(b)
  <2>1. PICK o \in Outcomes : pc' = [pc EXCEPT ![b]["request"] = o]
    BY <1>3, AnswersAreOutcomes DEF PayAnswered, Learn, Go
  <2>2. /\ pc[b]["request"] = "calling" /\ o \notin {"idle", "over"}
        /\ UNCHANGED <<status, reversals, token, vfd, job, tokenJob, receipt>>
    BY <1>3 DEF PayAnswered, Outcomes
  <2>3. Ordered(b)'
    BY <1>0, <2>1, <2>2 DEF Ordered, TypeOK
  <2> QED
    BY <1>0, <2>1, <2>2, <2>3 DEF Untouched, TypeOK
<1>4. CASE BillMoves(b) \/ IssueToken(b)
  <2>1. UNCHANGED <<status, reversals, token, pc, job, tokenJob, receipt>>
    BY <1>4 DEF BillMoves, IssueToken
  <2>2. \A c \in Bills \ {b} : vfd'[c] = vfd[c]
    BY <1>0, <1>4 DEF BillMoves, IssueToken, TypeOK
  <2> QED
    BY <1>0, <2>1, <2>2 DEF Ordered, Untouched
<1> QED
  BY <1>1, <1>2, <1>3, <1>4

\* Asking: a worker or a desk enters only when the request is over.
LEMMA QueryOrder ==
    ASSUME OrderInv, NEW b \in Bills,
           \/ WorkerTakes(b) \/ WorkerAnswered(b)
           \/ \E d \in Desks : DeskRequery(b, d) \/ DeskAnswered(b, d)
    PROVE  Ordered(b)' /\ \A c \in Bills \ {b} : Untouched(c)
<1> USE DEF ledger, queue, tokens, env, news, bank
<1>0. TypeOK /\ Ordered(b) /\ "worker" \in Actors /\ Desks \subseteq Actors
  BY DEF OrderInv, Actors
<1>1. pc[b]["request"] = "over"
  <2>1. \/ job[b] = "waiting" \/ pc[b]["worker"] = "asking"
        \/ pc[b]["request"] = "over" \/ \E d \in Desks : pc[b][d] = "asking"
    BY DEF WorkerTakes, WorkerAnswered, DeskRequery, DeskAnswered
  <2> QED
    BY <1>0, <2>1 DEF Ordered
<1>2. \/ pc' = pc
      \/ \E a \in Actors \ {"request"}, phase \in Phases : pc' = [pc EXCEPT ![b][a] = phase]
  <2>1. "asking" \in Phases /\ Outcomes \subseteq Phases
    BY DEF Phases
  <2>2. CASE WorkerTakes(b)
    BY <1>0, <2>1, <2>2 DEF WorkerTakes, Go
  <2>3. CASE WorkerAnswered(b)
    <3>1. PICK o \in Outcomes : pc' = [pc EXCEPT ![b]["worker"] = o]
      BY <2>3, AnswersAreOutcomes DEF WorkerAnswered, Learn, Go
    <3> QED
      BY <1>0, <2>1, <3>1
  <2>4. ASSUME NEW d \in Desks, DeskRequery(b, d) \/ DeskAnswered(b, d)
        PROVE  \E phase \in Phases : pc' = [pc EXCEPT ![b][d] = phase]
    BY <2>1, <2>4, AnswersAreOutcomes DEF DeskRequery, DeskAnswered, Go
  <2> QED
    BY <1>0, <2>2, <2>3, <2>4
<1>3. /\ pc'[b]["request"] = "over"
      /\ \A c \in Bills \ {b} : pc'[c] = pc[c]
  <2>1. pc \in [Bills -> [Actors -> Phases]] /\ "request" \in Actors
    BY <1>0 DEF TypeOK, Actors
  <2>2. CASE pc' = pc
    BY <1>1, <2>2
  <2>3. ASSUME NEW a \in Actors \ {"request"}, NEW phase \in Phases,
               pc' = [pc EXCEPT ![b][a] = phase]
        PROVE  pc'[b]["request"] = "over" /\ \A c \in Bills \ {b} : pc'[c] = pc[c]
    BY <1>1, <2>1, <2>3
  <2> QED
    BY <1>2, <2>2, <2>3
<1>4. /\ UNCHANGED <<status, reversals, token, vfd, tokenJob, receipt>>
      /\ \A c \in Bills \ {b} : job'[c] = job[c]
  <2>1. UNCHANGED <<status, reversals, token, vfd, tokenJob, receipt>>
    BY DEF WorkerTakes, WorkerAnswered, DeskRequery, DeskAnswered
  <2>2. job' = job \/ \E j \in Jobs : job' = [job EXCEPT ![b] = j]
    <3>1. {"completed", "active"} \subseteq Jobs
      BY DEF Jobs
    <3> QED
      BY <3>1 DEF WorkerTakes, WorkerAnswered, DeskRequery, DeskAnswered
  <2> QED
    BY <1>0, <2>1, <2>2 DEF TypeOK
<1> QED
  BY <1>0, <1>1, <1>3, <1>4 DEF Ordered, Untouched

\* Every way to apply an outcome is one of a few effects on the row.
LEMMA ResolveEffect ==
    ASSUME OrderInv, NEW b \in Bills, NEW a \in Actors,
           Resolve(b, a) \/ (a \in Desks /\ DeskSuccessful(b, a))
    PROVE  /\ status[b] # "NONE" /\ pc[b][a] # "idle" /\ pc[b][a] # "over"
           /\ \/ Ends(b, a)
              \/ a = "request" /\ Leave(b, a) /\ job' = [job EXCEPT ![b] = "waiting"]
              \/ pc' = [pc EXCEPT ![b][a] = "queueing"] /\ job' = job
              \/ pc' = [pc EXCEPT ![b][a] = "reversing"] /\ job' = job
           /\ \A c \in Bills \ {b} : Untouched(c)
           /\ status' = status \/ \E new \in Terminal : status' = [status EXCEPT ![b] = new]
           /\ vfd' = vfd
<1> USE DEF ledger, queue, tokens, env, news, bank
<1>0. TypeOK /\ Ordered(b)
  BY DEF OrderInv
<1>1. pc[b][a] # "idle" /\ pc[b][a] # "over"
  BY DEF Resolve, MarkSuccessful, QueueTokenFetch, ReadForReversal, CommitReversal,
     RollBackReversal, StayUnresolved, DeskSuccessful
<1>2. status[b] # "NONE"
  BY <1>0, <1>1 DEF Ordered
<1>3. \/ Ends(b, a)
      \/ a = "request" /\ Leave(b, a) /\ job' = [job EXCEPT ![b] = "waiting"]
      \/ pc' = [pc EXCEPT ![b][a] = "queueing"] /\ job' = job
      \/ pc' = [pc EXCEPT ![b][a] = "reversing"] /\ job' = job
  <2>1. CASE MarkSuccessful(b, a)
    BY <1>0, <2>1, ReturnEnds DEF MarkSuccessful, Go
  <2>2. CASE QueueTokenFetch(b, a) \/ CommitReversal(b, a) \/ DeskSuccessful(b, a)
    BY <1>0, <2>2, ReturnEnds DEF QueueTokenFetch, CommitReversal, DeskSuccessful
  <2>3. CASE ReadForReversal(b, a)
    BY <1>0, <2>3, ReturnEnds DEF ReadForReversal, Go
  <2>4. CASE RollBackReversal(b, a)
    BY <1>0, <2>4, ThrowEnds DEF RollBackReversal
  <2>5. CASE StayUnresolved(b, a)
    BY <1>0, <2>5, ThrowEnds DEF StayUnresolved
  <2> QED
    BY <2>1, <2>2, <2>3, <2>4, <2>5 DEF Resolve
<1>4. \A c \in Bills \ {b} : pc'[c] = pc[c] /\ job'[c] = job[c]
  <2>1. CASE Ends(b, a)
    BY <1>0, <2>1, EndsFrame
  <2>2. CASE Leave(b, a) /\ job' = [job EXCEPT ![b] = "waiting"]
    BY <1>0, <2>2 DEF Leave, Go, TypeOK
  <2>3. CASE ~Ends(b, a) /\ job' = job
    BY <1>0, <1>3, <2>3 DEF Leave, Go, TypeOK
  <2> QED
    BY <1>3, <2>1, <2>2, <2>3
<1>5. status' = status \/ \E new \in Terminal : status' = [status EXCEPT ![b] = new]
  BY DEF Resolve, MarkSuccessful, QueueTokenFetch, ReadForReversal, CommitReversal,
     RollBackReversal, StayUnresolved, DeskSuccessful, Terminal
<1>6. vfd' = vfd
  BY DEF Resolve, MarkSuccessful, QueueTokenFetch, ReadForReversal, CommitReversal,
     RollBackReversal, StayUnresolved, DeskSuccessful
<1>7. \A c \in Bills \ {b} : /\ status'[c] = status[c] /\ reversals'[c] = reversals[c]
                            /\ token'[c] = token[c] /\ tokenJob'[c] = tokenJob[c]
                            /\ receipt'[c] = receipt[c]
  <2>1. CASE MarkSuccessful(b, a)
    <3>1. \A c \in Bills \ {b} : receipt'[c] = receipt[c]
      BY <1>0, <2>1, EmailType DEF MarkSuccessful
    <3> QED
      BY <1>0, <2>1, <3>1 DEF MarkSuccessful, TypeOK
  <2>2. CASE QueueTokenFetch(b, a)
    BY <1>0, <2>2 DEF QueueTokenFetch, TypeOK
  <2>3. CASE CommitReversal(b, a) \/ DeskSuccessful(b, a)
    BY <1>0, <2>3 DEF CommitReversal, DeskSuccessful, TypeOK
  <2>4. CASE ReadForReversal(b, a) \/ RollBackReversal(b, a) \/ StayUnresolved(b, a)
    BY <2>4 DEF ReadForReversal, RollBackReversal, StayUnresolved
  <2> QED
    BY <2>1, <2>2, <2>3, <2>4 DEF Resolve
<1> QED
  BY <1>1, <1>2, <1>3, <1>4, <1>5, <1>6, <1>7 DEF Untouched

LEMMA ResolveOrder ==
    ASSUME OrderInv, NEW b \in Bills, NEW a \in Actors,
           Resolve(b, a) \/ (a \in Desks /\ DeskSuccessful(b, a))
    PROVE  Ordered(b)'
<1>0. TypeOK /\ Ordered(b) /\ "request" \in Actors
  BY DEF OrderInv, Actors
<1>1. status[b] # "NONE" /\ pc[b][a] # "idle" /\ status'[b] # "NONE"
  BY <1>0, ResolveEffect DEF TypeOK, Terminal
<1>2. CASE Ends(b, a)
  BY <1>1, <1>2, EndsOrdered
<1>3. CASE a = "request" /\ Leave(b, a)
  <2>1. pc'[b]["request"] = "over"
    BY <1>0, <1>3 DEF Leave, Go, TypeOK
  <2> QED
    BY <1>1, <2>1 DEF Ordered
<1>4. ASSUME NEW phase \in {"queueing", "reversing"},
             pc' = [pc EXCEPT ![b][a] = phase], job' = job
      PROVE  Ordered(b)'
  <2>1. CASE a = "request"
    <3>1. /\ pc'[b]["request"] = phase
          /\ \A x \in Actors \ {"request"} : pc'[b][x] = pc[b][x]
      BY <1>0, <1>4, <2>1 DEF TypeOK
    <3>2. pc[b]["request"] # "over"
      BY <2>1, ResolveEffect
    <3> QED
      BY <1>0, <1>1, <1>4, <3>1, <3>2 DEF Ordered
  <2>2. CASE a # "request"
    <3>1. pc[b]["request"] = "over" /\ pc'[b]["request"] = pc[b]["request"]
      BY <1>0, <1>1, <1>4, <2>2 DEF Ordered, TypeOK
    <3> QED
      BY <1>1, <3>1 DEF Ordered
  <2> QED
    BY <2>1, <2>2
<1> QED
  BY <1>2, <1>3, <1>4, ResolveEffect

\* The token job and the deaths.
LEMMA TokenOrder ==
    ASSUME OrderInv, NEW b \in Bills, TokenWork(b) \/ AbortFetch(b)
    PROVE  /\ Ordered(b)' /\ \A c \in Bills \ {b} : Untouched(c)
           /\ UNCHANGED <<balance, status, reversals, vfd, pc, job>>
<1> USE DEF ledger, queue, tokens, env, news, bank
<1>0. TypeOK /\ Ordered(b)
  BY DEF OrderInv
<1>1. UNCHANGED <<balance, status, reversals, vfd, pc, job>>
  BY DEF TokenWork, FetchOrMail, StoreToken, MailReceipt, TokenNotYet, MailWithoutToken,
     TellStaff, AbortFetch, Stall
<1>2. tokenJob' = tokenJob \/ \E j \in Runs : tokenJob' = [tokenJob EXCEPT ![b] = j]
  <2>1. {"waiting", "asking", "mailing", "failing", "telling", "completed", "exhausted",
         "stalled_out"} \subseteq Runs
    BY DEF Runs
  <2>2. CASE TokenWork(b)
    BY <2>1, <2>2 DEF TokenWork, FetchOrMail, StoreToken, MailReceipt, TokenNotYet,
       MailWithoutToken, TellStaff, FetchFails
  <2>3. CASE AbortFetch(b)
    BY <2>1, <2>3 DEF AbortFetch, Stall, FetchFails
  <2> QED
    BY <2>2, <2>3
<1>3. \A c \in Bills \ {b} : /\ tokenJob'[c] = tokenJob[c]
                            /\ token'[c] = token[c] /\ receipt'[c] = receipt[c]
  <2>1. \A c \in Bills \ {b} : tokenJob'[c] = tokenJob[c]
    BY <1>0, <1>2 DEF TypeOK
  <2>2. token' = token \/ token' = [token EXCEPT ![b] = TRUE]
    BY DEF TokenWork, FetchOrMail, StoreToken, MailReceipt, TokenNotYet, MailWithoutToken,
       TellStaff, AbortFetch
  <2>3. \A c \in Bills \ {b} : receipt'[c] = receipt[c]
    <3>1. receipt' = receipt \/ \E r \in {"complete", "token missing"} : MayEmail(b, r)
      BY DEF TokenWork, FetchOrMail, StoreToken, MailReceipt, TokenNotYet, MailWithoutToken,
         TellStaff, AbortFetch
    <3> QED
      BY <1>0, <3>1, EmailType
  <2> QED
    BY <1>0, <2>1, <2>2, <2>3 DEF TypeOK
<1> QED
  BY <1>0, <1>1, <1>3 DEF Ordered, Untouched

LEMMA AbortOrder ==
    ASSUME OrderInv, NEW b \in Bills, NEW a \in Actors, Abort(b, a)
    PROVE  /\ Ordered(b)' /\ \A c \in Bills \ {b} : Untouched(c)
           /\ UNCHANGED <<balance, status, reversals, token, vfd, tokenJob, receipt>>
<1> USE DEF ledger, queue, tokens, env, news, bank
<1>0. TypeOK /\ Ordered(b)
  BY DEF OrderInv
<1>1. Ends(b, a) /\ pc[b][a] # "idle"
  BY <1>0, AbortType DEF Abort
<1>2. UNCHANGED <<balance, status, reversals, token, vfd, tokenJob, receipt>>
  BY DEF Abort, Stall
<1>3. status[b] # "NONE"
  BY <1>0, <1>1 DEF Ordered
<1>4. Ordered(b)'
  BY <1>1, <1>2, <1>3, EndsOrdered
<1> QED
  BY <1>0, <1>1, <1>2, <1>4, EndsFrame DEF Untouched

\* OrderInv is inductive, with no assumption on staff or VFD.
LEMMA NextOrder ==
    ASSUME OrderInv, [Next]_vars
    PROVE  OrderInv'
<1>0. TypeOK /\ TypeOK' /\ {"request", "worker"} \cup Desks = Actors
  BY NextType DEF OrderInv, Actors
<1>1. ASSUME NEW c \in Bills, Untouched(c)
      PROVE  Ordered(c)'
  BY <1>1 DEF OrderInv, Ordered, Untouched
<1>2. ASSUME NEW b \in Bills, Ordered(b)', \A c \in Bills \ {b} : Untouched(c)
      PROVE  OrderInv'
  BY <1>0, <1>1, <1>2 DEF OrderInv
<1>3. CASE UNCHANGED vars
  BY <1>0, <1>3 DEF OrderInv, Ordered, vars, ledger, queue, bank
<1>4. CASE Next
  BY <1>0, <1>2, <1>4, RequestOrder, QueryOrder, ResolveOrder, ResolveEffect, TokenOrder,
     AbortOrder DEF Next, Request, Worker, Desk
<1> QED
  BY <1>3, <1>4

LEMMA InitOrder == Init => OrderInv
  BY DEF Init, Each, OrderInv, Ordered, TypeOK, Statuses, Fates, Phases, Jobs, Runs, Actors

-----------------------------------------------------------------------------
(***************************************************************************)
(* The wallet ledger.                                                      *)
(***************************************************************************)
\* The debit writes its entry.
LEMMA DebitBooks ==
    ASSUME OrderInv, NEW b \in Bills, PayBill(b)
    PROVE  Books!Next
<1> DEFINE w == WalletOf[b]
<1>1. /\ status[b] = "NONE" /\ balance[w] >= Total(b)
      /\ balance' = [balance EXCEPT ![w] = @ - Total(b)]
      /\ status' = [status EXCEPT ![b] = "PROCESSING"]
      /\ reversals' = reversals
  BY DEF PayBill
<1>2. Entry[b] = [kind |-> "NONE"]
  BY <1>1 DEF Entry
<1>3. reversals[b] = 0
  BY <1>1 DEF OrderInv, Ordered
<1>4. Entry' = [Entry EXCEPT ![b] = [kind |-> "DEBIT", wallet |-> w, total |-> Total(b)]]
  <2>1. status \in [Bills -> Statuses]
    BY DEF OrderInv, TypeOK
  <2>2. ASSUME NEW c \in Bills
        PROVE  Entry'[c] = [Entry EXCEPT ![b] = [kind |-> "DEBIT", wallet |-> w, total |-> Total(b)]][c]
    <3>1. CASE c = b
      BY <1>1, <1>3, <2>1, <3>1 DEF Entry
    <3>2. CASE c # b
      BY <1>1, <2>1, <3>2 DEF Entry
    <3> QED
      BY <3>1, <3>2
  <2> QED
    BY <2>2 DEF Entry
<1>5. Books!Debit(b, w, Total(b))
  BY <1>1, <1>2, <1>4 DEF Books!Debit, Books!Written, Books!None
<1> QED
  BY <1>5 DEF Books!Next

\* The refund is the entry's, and there was none before.
LEMMA RefundBooks ==
    ASSUME OrderInv, NEW b \in Bills, NEW a \in Actors, CommitReversal(b, a)
    PROVE  Books!Next
<1> DEFINE w == WalletOf[b]
<1>1. /\ reversals[b] = 0 /\ pc[b][a] = "reversing"
      /\ balance' = [balance EXCEPT ![w] = @ + Total(b)]
      /\ status' = [status EXCEPT ![b] = "FAILED"]
      /\ reversals' = [reversals EXCEPT ![b] = 1]
  BY DEF CommitReversal
<1>2. status[b] # "NONE"
  BY <1>1 DEF OrderInv, Ordered
<1>3. Entry[b] = [kind |-> "DEBIT", wallet |-> w, total |-> Total(b)]
  BY <1>1, <1>2 DEF Entry
<1>4. Entry' = [Entry EXCEPT ![b] = [kind |-> "REFUNDED", wallet |-> w, total |-> Total(b)]]
  <2>1. status \in [Bills -> Statuses] /\ reversals \in [Bills -> Nat]
    BY DEF OrderInv, TypeOK
  <2>2. ASSUME NEW c \in Bills
        PROVE  Entry'[c] = [Entry EXCEPT ![b] =
                  [kind |-> "REFUNDED", wallet |-> w, total |-> Total(b)]][c]
    <3>1. CASE c = b
      BY <1>1, <2>1, <3>1 DEF Entry
    <3>2. CASE c # b
      BY <1>1, <2>1, <3>2 DEF Entry
    <3> QED
      BY <3>1, <3>2
  <2> QED
    BY <2>2 DEF Entry
<1>5. Books!Refund(b, w, Total(b))
  BY <1>1, <1>3, <1>4 DEF Books!Refund, Books!Written
<1> QED
  BY <1>5 DEF Books!Next

\* A step that leaves the balance and the reversals alone, and inserts or
\* removes no row, writes no entry.
LEMMA QuietStutters ==
    ASSUME OrderInv, balance' = balance, reversals' = reversals,
           \A c \in Bills : status'[c] = "NONE" <=> status[c] = "NONE"
    PROVE  UNCHANGED <<balance, Entry>>
<1>1. ASSUME NEW c \in Bills
      PROVE  Entry'[c] = Entry[c]
  <2>1. CASE status[c] = "NONE"
    BY <2>1 DEF Entry
  <2>2. CASE status[c] # "NONE"
    BY <2>2 DEF Entry
  <2> QED
    BY <2>1, <2>2
<1> QED
  BY <1>1 DEF Entry

LEMMA NextBooks ==
    ASSUME OrderInv, [Next]_vars
    PROVE  [Books!Next]_<<balance, Entry>>
<1> USE DEF ledger
<1>1. ASSUME NEW b \in Bills, NEW a \in Actors,
             Resolve(b, a) \/ (a \in Desks /\ DeskSuccessful(b, a))
      PROVE  [Books!Next]_<<balance, Entry>>
  <2>1. CASE CommitReversal(b, a)
    BY <2>1, RefundBooks
  <2>2. CASE ~CommitReversal(b, a)
    <3>1. UNCHANGED <<balance, reversals>>
      BY <1>1, <2>2 DEF Resolve, MarkSuccessful, QueueTokenFetch, ReadForReversal,
         RollBackReversal, StayUnresolved, DeskSuccessful
    <3>2. \A c \in Bills : status'[c] = "NONE" <=> status[c] = "NONE"
      <4>1. status \in [Bills -> Statuses] /\ status[b] # "NONE"
        BY <1>1, ResolveEffect DEF OrderInv, TypeOK
      <4>2. status' = status \/ \E new \in Terminal : status' = [status EXCEPT ![b] = new]
        BY <1>1, ResolveEffect
      <4> QED
        BY <4>1, <4>2 DEF Terminal
    <3> QED
      BY <3>1, <3>2, QuietStutters
  <2> QED
    BY <2>1, <2>2
<1>2. ASSUME NEW b \in Bills, PayBill(b)
      PROVE  Books!Next
  BY <1>2, DebitBooks
<1>3. ASSUME UNCHANGED <<balance, status, reversals>>
      PROVE  UNCHANGED <<balance, Entry>>
  BY <1>3 DEF Entry
<1>4. ASSUME NEW b \in Bills,
             \/ SendToProvider(b) \/ PayAnswered(b) \/ BillMoves(b) \/ IssueToken(b)
             \/ WorkerTakes(b) \/ WorkerAnswered(b)
             \/ \E d \in Desks : DeskRequery(b, d) \/ DeskAnswered(b, d)
      PROVE  UNCHANGED <<balance, status, reversals>>
  BY <1>4 DEF SendToProvider, PayAnswered, BillMoves, IssueToken, WorkerTakes, WorkerAnswered,
     DeskRequery, DeskAnswered
<1>5. ASSUME NEW b \in Bills,
             TokenWork(b) \/ AbortFetch(b) \/ \E a \in Actors : Abort(b, a)
      PROVE  UNCHANGED <<balance, status, reversals>>
  BY <1>5, TokenOrder, AbortOrder
<1>6. CASE UNCHANGED vars
  BY <1>3, <1>6 DEF vars
<1>7. CASE Next
  <2>1. {"request", "worker"} \cup Desks = Actors
    BY DEF Actors
  <2> QED
    BY <1>1, <1>2, <1>3, <1>4, <1>5, <1>7, <2>1 DEF Next, Request, Worker, Desk
<1> QED
  BY <1>6, <1>7

\* For every number of wallets, bills, desks, retries and deaths, whatever VFD
\* answers and whichever API staff ask: the bills implement the wallet ledger.
THEOREM BillsKeepTheBooks == Spec => KeepsTheBooks
<1>1. Init => Books!Init
  BY DEF Init, Each, Books!Init, Books!None, Entry
<1> QED
  BY <1>1, InitOrder, NextOrder, NextBooks, PTL DEF Spec, KeepsTheBooks, Books!Spec

-----------------------------------------------------------------------------
(***************************************************************************)
(* Never refunded and served.  What every actor holds is true of the bill, *)
(* and so is what the row, the receipt and the token job say.              *)
(***************************************************************************)
Held(b) ==
    /\ pc[b]["request"] \in {"idle", "sending"} => vfd[b] = "none"
    /\ \A a \in Actors :
          /\ pc[b][a] = "SUCCESSFUL" => vfd[b] = "paid"
          /\ pc[b][a] = "queueing" => vfd[b] = "paid" /\ status[b] = "SUCCESSFUL"
          /\ pc[b][a] \in {"FAILED", "reversing"} => WillNeverBePaid(b)

Told(b) ==
    /\ reversals[b] # 0 => WillNeverBePaid(b)
    /\ status[b] = "SUCCESSFUL" => vfd[b] = "paid"
    /\ receipt[b] # "none" \/ tokenJob[b] # "none" => status[b] = "SUCCESSFUL"
    /\ receipt[b] = "complete" /\ b \in Electric => token[b]
    /\ tokenJob[b] = "mailing" => token[b]

RightInv == OrderInv /\ \A b \in Bills : Held(b) /\ Told(b)

Trusted == NoTransactionIsFinal /\ TransferApiKnowsBills

\* An answer is true of the bill.
LEMMA AnswersSound ==
    ASSUME Trusted, NEW b \in Bills
    PROVE  /\ \A o \in BillAnswers(b) :
                 /\ o = "SUCCESSFUL" => vfd[b] = "paid"
                 /\ o = "FAILED" => vfd[b] = "refused"
           /\ pc[b]["request"] = "over" =>
                 \A o \in BillQueryAnswers(b) \cup TransferQueryAnswers(b) :
                    /\ o = "SUCCESSFUL" => vfd[b] = "paid"
                    /\ o = "FAILED" => WillNeverBePaid(b)
<1>1. ~(~NoTransactionIsFinal)
  BY DEF Trusted
<1>2. TransferQueryAnswers(b) = BillQueryAnswers(b)
  BY DEF Trusted, TransferQueryAnswers
<1>3. NoTransaction(b) => vfd[b] \in {"none", "lost"}
  BY <1>1 DEF NoTransaction
<1>4. \A o \in BillAnswers(b) :
         /\ o = "SUCCESSFUL" => vfd[b] = "paid"
         /\ o = "FAILED" => vfd[b] = "refused"
  BY DEF BillAnswers
<1>5. \A o \in BillQueryAnswers(b) :
         /\ o = "SUCCESSFUL" => vfd[b] = "paid"
         /\ o = "FAILED" => vfd[b] \in {"none", "lost", "refused"}
  BY <1>3, <1>4 DEF BillQueryAnswers
<1>6. ASSUME pc[b]["request"] = "over",
             NEW o \in BillQueryAnswers(b) \cup TransferQueryAnswers(b)
      PROVE  /\ o = "SUCCESSFUL" => vfd[b] = "paid"
             /\ o = "FAILED" => WillNeverBePaid(b)
  <2>1. o \in BillQueryAnswers(b)
    BY <1>2, <1>6
  <2> QED
    BY <1>5, <1>6, <2>1 DEF WillNeverBePaid
<1> QED
  BY <1>4, <1>6

\* The end of a run leaves what the others hold true.
LEMMA EndsHeld ==
    ASSUME RightInv, NEW b \in Bills, NEW a \in Actors, Ends(b, a), pc[b][a] # "idle",
           vfd' = vfd, status[b] = "SUCCESSFUL" => status'[b] = "SUCCESSFUL"
    PROVE  Held(b)' /\ (WillNeverBePaid(b) => WillNeverBePaid(b)')
<1>0. TypeOK /\ Ordered(b) /\ Held(b) /\ "request" \in Actors
  BY DEF RightInv, OrderInv, Actors
<1>1. pc'[b]["request"] = "over"
  BY <1>0, EndsFrame DEF Ordered
<1>2. WillNeverBePaid(b) => WillNeverBePaid(b)'
  BY <1>1 DEF WillNeverBePaid
<1>3. /\ \A x \in Actors \ {a} : pc'[b][x] = pc[b][x]
      /\ pc'[b][a] \in {"over", "idle"}
  BY <1>0, EndsFrame
<1>4. ASSUME NEW x \in Actors
      PROVE  /\ pc'[b][x] = "SUCCESSFUL" => vfd'[b] = "paid"
             /\ pc'[b][x] = "queueing" => vfd'[b] = "paid" /\ status'[b] = "SUCCESSFUL"
             /\ pc'[b][x] \in {"FAILED", "reversing"} => WillNeverBePaid(b)'
  BY <1>0, <1>2, <1>3 DEF Held
<1> QED
  BY <1>1, <1>2, <1>4 DEF Held

\* VFD never takes back what was known of a bill, and the request learns the truth.
LEMMA RequestRight ==
    ASSUME Trusted, RightInv, NEW b \in Bills,
           PayBill(b) \/ SendToProvider(b) \/ PayAnswered(b) \/ BillMoves(b) \/ IssueToken(b)
    PROVE  Held(b)' /\ Told(b)'
<1> USE DEF ledger, queue, tokens, env, news, bank
<1>0. /\ pc \in [Bills -> [Actors -> Phases]] /\ vfd \in [Bills -> Fates]
      /\ status \in [Bills -> Statuses] /\ "request" \in Actors
      /\ Ordered(b) /\ Held(b) /\ Told(b)
  BY DEF RightInv, OrderInv, TypeOK, Actors
<1>1. CASE PayBill(b)
  <2>1. /\ status[b] = "NONE" /\ pc[b]["request"] = "idle"
        /\ status' = [status EXCEPT ![b] = "PROCESSING"]
        /\ pc' = [pc EXCEPT ![b]["request"] = "sending"]
        /\ UNCHANGED <<reversals, token, vfd, tokenJob, receipt>>
    BY <1>1 DEF PayBill
  <2>2. \A a \in Actors : pc'[b][a] \in {"sending", "idle"}
    BY <1>0, <2>1 DEF Ordered
  <2>3. vfd[b] = "none" /\ reversals[b] = 0 /\ receipt[b] = "none" /\ tokenJob[b] = "none"
    BY <1>0, <2>1 DEF Ordered, Held, Told
  <2>4. Held(b)'
    BY <2>1, <2>2, <2>3 DEF Held
  <2> QED
    BY <1>0, <2>1, <2>3, <2>4 DEF Told
<1>2. CASE SendToProvider(b)
  <2>1. /\ pc[b]["request"] = "sending"
        /\ pc' = [pc EXCEPT ![b]["request"] = "calling"]
        /\ vfd' = [vfd EXCEPT ![b] = "inflight"]
        /\ UNCHANGED <<status, reversals, token, tokenJob, receipt>>
    BY <1>2 DEF SendToProvider, Go
  <2>2. \A a \in Actors : pc'[b][a] \in {"calling", "idle"}
    BY <1>0, <2>1 DEF Ordered
  <2>3. pc'[b]["request"] = "calling"
    BY <1>0, <2>1
  <2>4. vfd[b] = "none"
    BY <1>0, <2>1 DEF Held
  <2>5. reversals[b] = 0 /\ status[b] # "SUCCESSFUL"
    BY <1>0, <2>1, <2>4 DEF Told, WillNeverBePaid
  <2>6. Held(b)'
    BY <2>2, <2>3 DEF Held
  <2> QED
    BY <1>0, <2>1, <2>5, <2>6 DEF Told
<1>3. CASE PayAnswered(b)
  <2>1. PICK o \in BillAnswers(b) : pc' = [pc EXCEPT ![b]["request"] = o]
    BY <1>3 DEF PayAnswered, Learn, Go
  <2>2. /\ pc[b]["request"] = "calling"
        /\ UNCHANGED <<status, reversals, token, vfd, tokenJob, receipt>>
    BY <1>3 DEF PayAnswered
  <2>3. /\ o \in Outcomes
        /\ o = "SUCCESSFUL" => vfd[b] = "paid"
        /\ o = "FAILED" => vfd[b] = "refused"
    BY AnswersAreOutcomes, AnswersSound
  <2>4. pc'[b]["request"] = o /\ \A a \in Actors \ {"request"} : pc'[b][a] = "idle"
    BY <1>0, <2>1, <2>2 DEF Ordered
  <2>5. WillNeverBePaid(b) => WillNeverBePaid(b)'
    BY <2>2 DEF WillNeverBePaid
  <2>6. Held(b)'
    BY <2>2, <2>3, <2>4 DEF Held, Outcomes, WillNeverBePaid
  <2> QED
    BY <1>0, <2>2, <2>5, <2>6 DEF Told
<1>4. CASE BillMoves(b) \/ IssueToken(b)
  <2>1. UNCHANGED <<status, reversals, token, pc, tokenJob, receipt>>
    BY <1>4 DEF BillMoves, IssueToken
  <2>2. /\ vfd[b] = "none" => vfd'[b] = "none"
        /\ vfd[b] = "paid" => vfd'[b] = "paid"
        /\ vfd[b] \in {"lost", "refused"} => vfd'[b] = vfd[b]
    BY <1>0, <1>4 DEF BillMoves, IssueToken
  <2>3. WillNeverBePaid(b) => WillNeverBePaid(b)'
    BY <2>1, <2>2 DEF WillNeverBePaid
  <2>4. Held(b)'
    BY <1>0, <2>1, <2>2, <2>3 DEF Held
  <2> QED
    BY <1>0, <2>1, <2>2, <2>3, <2>4 DEF Told
<1> QED
  BY <1>1, <1>2, <1>3, <1>4

\* The worker and staff learn the truth too: the request is over when they ask.
LEMMA QueryRight ==
    ASSUME Trusted, RightInv, NEW b \in Bills,
           \/ WorkerTakes(b) \/ WorkerAnswered(b)
           \/ \E d \in Desks : DeskRequery(b, d) \/ DeskAnswered(b, d)
    PROVE  Held(b)' /\ Told(b)'
<1> USE DEF ledger, queue, tokens, env, news, bank
<1>0. /\ pc \in [Bills -> [Actors -> Phases]] /\ {"request", "worker"} \cup Desks = Actors
      /\ Ordered(b) /\ Held(b) /\ Told(b)
  BY DEF RightInv, OrderInv, TypeOK, Actors
<1>1. pc[b]["request"] = "over"
  <2>1. \/ job[b] = "waiting" \/ pc[b]["worker"] = "asking"
        \/ pc[b]["request"] = "over" \/ \E d \in Desks : pc[b][d] = "asking"
    BY DEF WorkerTakes, WorkerAnswered, DeskRequery, DeskAnswered
  <2>2. "worker" \in Actors \ {"request"} /\ Desks \subseteq Actors \ {"request"}
    BY <1>0
  <2> QED
    BY <1>0, <2>1, <2>2 DEF Ordered
<1>2. UNCHANGED <<status, reversals, token, vfd, tokenJob, receipt>>
  BY DEF WorkerTakes, WorkerAnswered, DeskRequery, DeskAnswered
<1>3. \/ pc' = pc
      \/ \E a \in Actors \ {"request"} :
            \E o \in {"asking"} \cup BillQueryAnswers(b) \cup TransferQueryAnswers(b) :
               pc' = [pc EXCEPT ![b][a] = o]
  <2>1. CASE WorkerTakes(b)
    BY <1>0, <2>1 DEF WorkerTakes, Go
  <2>2. CASE WorkerAnswered(b)
    <3>1. PICK o \in BillQueryAnswers(b) : pc' = [pc EXCEPT ![b]["worker"] = o]
      BY <2>2 DEF WorkerAnswered, Learn, Go
    <3> QED
      BY <1>0, <3>1
  <2>3. ASSUME NEW d \in Desks, DeskRequery(b, d) \/ DeskAnswered(b, d)
        PROVE  \E o \in {"asking"} \cup TransferQueryAnswers(b) : pc' = [pc EXCEPT ![b][d] = o]
    BY <2>3 DEF DeskRequery, DeskAnswered, Go
  <2> QED
    BY <1>0, <2>1, <2>2, <2>3
<1>4. pc'[b]["request"] = "over"
  BY <1>0, <1>1, <1>3
<1>5. WillNeverBePaid(b) => WillNeverBePaid(b)'
  BY <1>2, <1>4 DEF WillNeverBePaid
<1>6. ASSUME NEW x \in Actors
      PROVE  /\ pc'[b][x] = "SUCCESSFUL" => vfd[b] = "paid"
             /\ pc'[b][x] = "queueing" => vfd[b] = "paid" /\ status[b] = "SUCCESSFUL"
             /\ pc'[b][x] \in {"FAILED", "reversing"} => WillNeverBePaid(b)
  <2>1. pc'[b][x] = pc[b][x] \/ pc'[b][x] \in {"asking"} \cup BillQueryAnswers(b) \cup TransferQueryAnswers(b)
    BY <1>0, <1>3
  <2>2. CASE pc'[b][x] = pc[b][x]
    BY <1>0, <2>2 DEF Held
  <2>3. CASE pc'[b][x] = "asking"
    BY <2>3
  <2>4. CASE pc'[b][x] \in BillQueryAnswers(b) \cup TransferQueryAnswers(b)
    <3>1. pc'[b][x] \in Outcomes
      BY <2>4, AnswersAreOutcomes
    <3> QED
      BY <1>1, <2>4, <3>1, AnswersSound DEF Outcomes
  <2> QED
    BY <2>1, <2>2, <2>3, <2>4
<1>7. Held(b)'
  BY <1>2, <1>4, <1>5, <1>6 DEF Held
<1> QED
  BY <1>0, <1>2, <1>5, <1>7 DEF Told

\* A bill is marked as what it is.
LEMMA ResolveRight ==
    ASSUME RightInv, NEW b \in Bills, NEW a \in Actors,
           Resolve(b, a) \/ (a \in Desks /\ DeskSuccessful(b, a))
    PROVE  Held(b)' /\ Told(b)'
<1> USE DEF ledger, queue, tokens, env, news, bank
<1>0. TypeOK /\ OrderInv /\ Ordered(b) /\ Held(b) /\ Told(b) /\ "request" \in Actors
  BY DEF RightInv, OrderInv, Actors
<1>1. pc \in [Bills -> [Actors -> Phases]] /\ status \in [Bills -> Statuses] /\ vfd' = vfd
  BY <1>0, ResolveEffect DEF TypeOK
<1>2. CASE MarkSuccessful(b, a)
  <2>1. /\ pc[b][a] = "SUCCESSFUL" /\ status' = [status EXCEPT ![b] = "SUCCESSFUL"]
        /\ UNCHANGED <<reversals, tokenJob>>
    BY <1>2 DEF MarkSuccessful
  <2>2. vfd[b] = "paid" /\ ~WillNeverBePaid(b)
    BY <1>0, <2>1 DEF Held, WillNeverBePaid
  <2>3. status'[b] = "SUCCESSFUL"
    BY <1>1, <2>1
  <2>4. token[b] => token'[b]
    BY <1>0, <1>2 DEF MarkSuccessful, TypeOK
  <2>5. CASE Holds(b, a)
    <3>1. pc' = [pc EXCEPT ![b][a] = "queueing"] /\ receipt' = receipt
      BY <1>2, <2>5 DEF MarkSuccessful, Go
    <3>2. pc'[b]["request"] \notin {"idle", "sending"}
      BY <1>0, <1>1, <2>2, <3>1 DEF Held
    <3>3. ASSUME NEW x \in Actors
          PROVE  pc'[b][x] \notin {"FAILED", "reversing"}
      BY <1>0, <1>1, <2>2, <3>1 DEF Held
    <3>4. Held(b)'
      BY <1>1, <2>2, <2>3, <3>2, <3>3 DEF Held
    <3> QED
      BY <1>0, <1>1, <2>1, <2>2, <2>3, <2>4, <3>1, <3>4 DEF Told
  <2>6. CASE ~Holds(b, a)
    <3>1. Return(b, a) /\ MayEmail(b, "complete")
      BY <1>2, <2>6 DEF MarkSuccessful
    <3>2. Held(b)'
      BY <1>0, <1>1, <2>1, <2>3, <3>1, ReturnEnds, EndsHeld
    <3>3. b \in Electric => token'[b]
      <4>1. token'[b] = (token[b] \/ got[b][a])
        BY <1>0, <1>2 DEF MarkSuccessful, TypeOK
      <4> QED
        BY <2>6, <4>1 DEF Holds
    <3>4. receipt'[b] \in {receipt[b], "complete"}
      BY <1>0, <3>1, EmailType
    <3> QED
      BY <1>0, <1>1, <2>1, <2>2, <2>3, <2>4, <3>2, <3>3, <3>4 DEF Told
  <2> QED
    BY <2>5, <2>6
<1>3. CASE QueueTokenFetch(b, a)
  <2>1. /\ pc[b][a] = "queueing" /\ Ends(b, a)
        /\ UNCHANGED <<status, reversals, token, receipt>>
    BY <1>0, <1>3, ReturnEnds DEF QueueTokenFetch
  <2>2. status[b] = "SUCCESSFUL" /\ vfd[b] = "paid"
    BY <1>0, <2>1 DEF Held
  <2>3. tokenJob'[b] \in {"waiting", tokenJob[b]}
    BY <1>0, <1>3 DEF QueueTokenFetch, TypeOK
  <2>4. Held(b)' /\ (WillNeverBePaid(b) => WillNeverBePaid(b)')
    BY <1>1, <2>1, EndsHeld
  <2> QED
    BY <1>0, <1>1, <2>1, <2>2, <2>3, <2>4 DEF Told
<1>4. CASE a \in Desks /\ DeskSuccessful(b, a)
  <2>1. /\ pc[b][a] = "SUCCESSFUL" /\ Ends(b, a)
        /\ status' = [status EXCEPT ![b] = "SUCCESSFUL"]
        /\ UNCHANGED <<reversals, token, receipt, tokenJob>>
    BY <1>0, <1>4, ReturnEnds DEF DeskSuccessful
  <2>2. vfd[b] = "paid" /\ ~WillNeverBePaid(b)
    BY <1>0, <2>1 DEF Held, WillNeverBePaid
  <2>3. status'[b] = "SUCCESSFUL"
    BY <1>1, <2>1
  <2>4. Held(b)'
    BY <1>1, <2>1, <2>3, EndsHeld
  <2> QED
    BY <1>0, <1>1, <2>1, <2>2, <2>3, <2>4 DEF Told
<1>5. CASE ReadForReversal(b, a)
  <2>1. pc[b][a] = "FAILED" /\ UNCHANGED <<status, reversals, token, receipt, tokenJob>>
    BY <1>5 DEF ReadForReversal
  <2>2. WillNeverBePaid(b)
    BY <1>0, <2>1 DEF Held
  <2>3. CASE Return(b, a)
    BY <1>0, <1>1, <2>1, <2>3, ReturnEnds, EndsHeld DEF Told
  <2>4. CASE ~Return(b, a)
    <3>1. pc' = [pc EXCEPT ![b][a] = "reversing"]
      BY <1>5, <2>4 DEF ReadForReversal, Go
    <3>2. pc[b]["request"] = "over" => pc'[b]["request"] = "over"
      <4>1. a = "request" => pc[b]["request"] # "over"
        BY <2>1
      <4> QED
        BY <1>0, <1>1, <3>1, <4>1
    <3>3. WillNeverBePaid(b)'
      BY <1>1, <2>2, <3>2 DEF WillNeverBePaid
    <3>4. pc'[b]["request"] \in {"idle", "sending"} => vfd[b] = "none"
      BY <1>0, <1>1, <3>1 DEF Held
    <3>5. ASSUME NEW x \in Actors
          PROVE  /\ pc'[b][x] = "SUCCESSFUL" => vfd[b] = "paid"
                 /\ pc'[b][x] = "queueing" => vfd[b] = "paid" /\ status[b] = "SUCCESSFUL"
      BY <1>0, <1>1, <3>1 DEF Held
    <3>6. Held(b)'
      BY <1>1, <2>1, <3>3, <3>4, <3>5 DEF Held
    <3> QED
      BY <1>0, <1>1, <2>1, <3>3, <3>6 DEF Told
  <2> QED
    BY <2>3, <2>4
<1>6. CASE CommitReversal(b, a)
  <2>1. /\ pc[b][a] = "reversing" /\ Ends(b, a)
        /\ status' = [status EXCEPT ![b] = "FAILED"]
        /\ UNCHANGED <<token, receipt, tokenJob>>
    BY <1>0, <1>6, ReturnEnds DEF CommitReversal
  <2>2. WillNeverBePaid(b)
    BY <1>0, <2>1 DEF Held
  <2>3. vfd[b] # "paid"
    BY <2>2 DEF WillNeverBePaid
  <2>4. status[b] # "SUCCESSFUL" /\ receipt[b] = "none" /\ tokenJob[b] = "none"
    BY <1>0, <2>3 DEF Told
  <2>5. Held(b)' /\ WillNeverBePaid(b)'
    BY <1>1, <2>1, <2>2, <2>4, EndsHeld
  <2>6. status'[b] = "FAILED"
    BY <1>1, <2>1
  <2> QED
    BY <1>0, <1>1, <2>1, <2>4, <2>5, <2>6 DEF Told
<1>7. CASE RollBackReversal(b, a)
  <2>1. /\ Ends(b, a) /\ pc[b][a] # "idle"
        /\ UNCHANGED <<status, reversals, token, receipt, tokenJob>>
    BY <1>0, <1>7, ThrowEnds DEF RollBackReversal
  <2> QED
    BY <1>0, <1>1, <2>1, EndsHeld DEF Told
<1>8. CASE StayUnresolved(b, a)
  <2>1. pc[b][a] # "idle" /\ UNCHANGED <<status, reversals, token, receipt, tokenJob>>
    BY <1>8 DEF StayUnresolved
  <2>2. CASE a = "request"
    <3>1. pc' = [pc EXCEPT ![b]["request"] = "over"]
      BY <1>8, <2>2 DEF StayUnresolved, Leave, Go
    <3>2. /\ pc'[b]["request"] = "over"
          /\ \A x \in Actors \ {"request"} : pc'[b][x] = pc[b][x]
      BY <1>0, <1>1, <3>1
    <3>3. WillNeverBePaid(b) => WillNeverBePaid(b)'
      BY <1>1, <3>2 DEF WillNeverBePaid
    <3>4. ASSUME NEW x \in Actors
          PROVE  /\ pc'[b][x] = "SUCCESSFUL" => vfd'[b] = "paid"
                 /\ pc'[b][x] = "queueing" => vfd'[b] = "paid" /\ status'[b] = "SUCCESSFUL"
                 /\ pc'[b][x] \in {"FAILED", "reversing"} => WillNeverBePaid(b)'
      BY <1>0, <1>1, <2>1, <3>2, <3>3 DEF Held
    <3>5. Held(b)'
      BY <3>2, <3>4 DEF Held
    <3> QED
      BY <1>0, <1>1, <2>1, <3>3, <3>5 DEF Told
  <2>3. CASE a # "request"
    <3>1. Ends(b, a)
      BY <1>0, <1>8, <2>3, ThrowEnds DEF StayUnresolved
    <3> QED
      BY <1>0, <1>1, <2>1, <3>1, EndsHeld DEF Told
  <2> QED
    BY <2>2, <2>3
<1> QED
  BY <1>2, <1>3, <1>4, <1>5, <1>6, <1>7, <1>8 DEF Resolve

\* The token job only runs for a bill that was paid, and mails a token it has.
LEMMA TokenRight ==
    ASSUME RightInv, NEW b \in Bills, TokenWork(b) \/ AbortFetch(b)
    PROVE  Held(b)' /\ Told(b)'
<1>0. TypeOK /\ OrderInv /\ Held(b) /\ Told(b)
  BY DEF RightInv, OrderInv
<1>1. UNCHANGED <<status, reversals, vfd, pc>>
  BY <1>0, TokenOrder
<1>2. tokenJob[b] # "none"
  BY DEF TokenWork, FetchOrMail, StoreToken, MailReceipt, TokenNotYet, MailWithoutToken,
     TellStaff, AbortFetch
<1>3. status[b] = "SUCCESSFUL"
  BY <1>0, <1>2 DEF Told
<1>4. token[b] => token'[b]
  BY <1>0 DEF TokenWork, FetchOrMail, StoreToken, MailReceipt, TokenNotYet, MailWithoutToken,
     TellStaff, AbortFetch, TypeOK, tokens
<1>5. tokenJob'[b] = "mailing" => token'[b]
  <2>1. CASE FetchOrMail(b)
    <3>1. CASE token[b]
      BY <1>4, <3>1
    <3>2. CASE ~token[b]
      <4>1. tokenJob' = [tokenJob EXCEPT ![b] = "asking"]
        BY <2>1, <3>2 DEF FetchOrMail
      <4> QED
        BY <1>0, <4>1 DEF TypeOK
    <3> QED
      BY <3>1, <3>2
  <2>2. CASE StoreToken(b)
    BY <1>0, <2>2 DEF StoreToken, TypeOK
  <2>3. CASE MailReceipt(b) \/ MailWithoutToken(b) \/ TellStaff(b)
    BY <1>0, <2>3 DEF MailReceipt, MailWithoutToken, TellStaff, TypeOK
  <2>4. CASE TokenNotYet(b) \/ AbortFetch(b)
    <3>1. \E new \in {"waiting", "failing", "exhausted", "stalled_out"} :
             tokenJob' = [tokenJob EXCEPT ![b] = new]
      BY <2>4 DEF TokenNotYet, AbortFetch, FetchFails, Stall
    <3> QED
      BY <1>0, <3>1 DEF TypeOK
  <2> QED
    BY <2>1, <2>2, <2>3, <2>4 DEF TokenWork
<1>6. receipt'[b] = "complete" /\ b \in Electric => token'[b]
  <2>1. CASE MailReceipt(b)
    <3>1. token[b]
      BY <1>0, <2>1 DEF MailReceipt, Told
    <3> QED
      BY <1>4, <3>1
  <2>2. CASE MailWithoutToken(b)
    <3>1. receipt'[b] \in {receipt[b], IF token[b] THEN "complete" ELSE "token missing"}
      BY <1>0, <2>2, EmailType DEF MailWithoutToken
    <3> QED
      BY <1>0, <1>4, <3>1 DEF Told
  <2>3. CASE \/ FetchOrMail(b) \/ StoreToken(b) \/ TokenNotYet(b) \/ TellStaff(b)
             \/ AbortFetch(b)
    <3>1. receipt' = receipt
      BY <2>3 DEF FetchOrMail, StoreToken, TokenNotYet, TellStaff, AbortFetch, news
    <3> QED
      BY <1>0, <1>4, <3>1 DEF Told
  <2> QED
    BY <2>1, <2>2, <2>3 DEF TokenWork
<1>7. WillNeverBePaid(b) => WillNeverBePaid(b)'
  BY <1>1 DEF WillNeverBePaid
<1>8. Held(b)'
  BY <1>0, <1>1, <1>7 DEF Held
<1> QED
  BY <1>0, <1>1, <1>3, <1>5, <1>6, <1>7, <1>8 DEF Told

\* RightInv is inductive when VFD can be trusted.
LEMMA NextRight ==
    ASSUME Trusted, RightInv, [Next]_vars
    PROVE  RightInv'
<1>0. OrderInv /\ OrderInv' /\ {"request", "worker"} \cup Desks = Actors
  BY NextOrder DEF RightInv, Actors
<1>1. ASSUME NEW c \in Bills, Untouched(c)
      PROVE  Held(c)' /\ Told(c)'
  BY <1>1 DEF RightInv, Held, Told, Untouched, WillNeverBePaid
<1>2. ASSUME NEW b \in Bills, Held(b)', Told(b)', \A c \in Bills \ {b} : Untouched(c)
      PROVE  RightInv'
  BY <1>0, <1>1, <1>2 DEF RightInv
<1>3. CASE UNCHANGED vars
  BY <1>0, <1>3 DEF RightInv, Held, Told, WillNeverBePaid, vars, ledger, tokens, news, bank
<1>4. ASSUME NEW b \in Bills, NEW a \in Actors, Abort(b, a)
      PROVE  RightInv'
  <2>1. /\ Ends(b, a) /\ pc[b][a] # "idle" /\ \A c \in Bills \ {b} : Untouched(c)
        /\ UNCHANGED <<status, reversals, token, vfd, tokenJob, receipt>>
    BY <1>0, <1>4, AbortOrder, AbortType DEF OrderInv, Abort
  <2>2. Held(b)' /\ (WillNeverBePaid(b) => WillNeverBePaid(b)')
    BY <2>1, EndsHeld
  <2>3. Told(b)'
    BY <2>1, <2>2 DEF RightInv, Told
  <2> QED
    BY <1>2, <2>1, <2>2, <2>3
<1>5. CASE Next
  BY <1>0, <1>2, <1>4, <1>5, RequestRight, RequestOrder, QueryRight, QueryOrder,
     ResolveRight, ResolveEffect, TokenRight, TokenOrder DEF Next, Request, Worker, Desk
<1> QED
  BY <1>3, <1>5

LEMMA InitRight == Init => RightInv
<1>1. Init => OrderInv
  BY InitOrder
<1>2. Init => \A b \in Bills : Held(b) /\ Told(b)
  BY DEF Init, Each, Held, Told, Actors
<1> QED
  BY <1>1, <1>2 DEF RightInv

\* No bill is both refunded and served, and SUCCESSFUL is a bill VFD paid, if 108
\* is final and the transfer query knows bills.
THEOREM BillsNeverRefundedAndPaid ==
    ASSUME Trusted
    PROVE  Spec => []NeverRefundedAndPaid
<1>1. RightInv => NeverRefundedAndPaid
  BY DEF RightInv, Told, NeverRefundedAndPaid
<1> QED
  BY <1>1, InitRight, NextRight, PTL DEF Spec

\* Under the same assumptions every receipt is of a paid bill and names its token.
THEOREM ReceiptsAreUseful ==
    ASSUME Trusted
    PROVE  Spec => []ReceiptIsUseful
<1>1. RightInv => ReceiptIsUseful
  BY DEF RightInv, Told, ReceiptIsUseful
<1> QED
  BY <1>1, InitRight, NextRight, PTL DEF Spec
=============================================================================
