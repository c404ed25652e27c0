---------------------------- MODULE PayinsProofs ----------------------------
(***************************************************************************)
(* Proofs about Payins, for every number of deposits, deliveries, workers, *)
(* retries, stalls and deaths.                                             *)
(***************************************************************************)
EXTENDS Payins, TLAPS

USE PayinsAssumption

-----------------------------------------------------------------------------
(***************************************************************************)
(* Type correctness.                                                       *)
(***************************************************************************)
\* A definite answer of the status query is true of the transfer.
LEMMA TsqAnswersSound ==
    ASSUME NEW d \in Deposits, vfd[d] \in Fates, NEW o \in TsqAnswers(d)
    PROVE  o \in Outcomes /\ (o = "SUCCESSFUL" => vfd[d] = "paid")
<1>1. ASSUME NEW r \in Answers(StatusRows, vfd[d])
      PROVE  r \in Outcomes /\ (r = "SUCCESSFUL" => vfd[d] = "paid")
  BY <1>1 DEF Answers, Consistent, StatusRows, Row, ResolveVfdOutcome, Outcomes, Fates
<1> QED
  BY <1>1 DEF TsqAnswers, Outcomes

\* A worker's step, its return and its failure keep the queue well typed.
LEMMA StepType ==
    ASSUME TypeOK, NEW d \in Deposits, NEW k \in Workers, NEW phase \in WorkPhases,
           Step(d, k, phase)
    PROVE  work' \in [Deposits -> [Workers -> WorkPhases]]
  BY DEF TypeOK, Step

LEMMA ReturnType ==
    ASSUME TypeOK, NEW d \in Deposits, NEW k \in Workers, Return(d, k)
    PROVE  /\ work' \in [Deposits -> [Workers -> WorkPhases]]
           /\ job' \in [Deposits -> Jobs]
           /\ UNCHANGED <<holder, tries, stalls>>
<1>1. work' \in [Deposits -> [Workers -> WorkPhases]]
  BY StepType DEF Return, WorkPhases
<1> QED
  BY <1>1 DEF TypeOK, Return, Jobs

LEMMA ThrowType ==
    ASSUME TypeOK, NEW d \in Deposits, NEW k \in Workers, Throw(d, k)
    PROVE  /\ work' \in [Deposits -> [Workers -> WorkPhases]]
           /\ job' \in [Deposits -> Jobs]
           /\ tries' \in [Deposits -> Nat]
           /\ UNCHANGED <<holder, stalls>>
<1>1. PICK phase \in WorkPhases : Step(d, k, phase)
  <2>1. "idle" \in WorkPhases /\ "failing" \in WorkPhases
    BY DEF WorkPhases
  <2> QED
    BY <2>1 DEF Throw
<1>2. work' \in [Deposits -> [Workers -> WorkPhases]]
  BY <1>1, StepType
<1>3. \/ UNCHANGED <<job, tries>>
      \/ tries' = [tries EXCEPT ![d] = @ + 1]
         /\ job' \in {[job EXCEPT ![d] = "waiting"], [job EXCEPT ![d] = "exhausted"]}
  BY DEF Throw
<1>4. tries' \in [Deposits -> Nat]
  BY <1>3 DEF TypeOK
<1>5. /\ [job EXCEPT ![d] = "waiting"] \in [Deposits -> Jobs]
      /\ [job EXCEPT ![d] = "exhausted"] \in [Deposits -> Jobs]
  BY DEF TypeOK, Jobs
<1>6. job' \in [Deposits -> Jobs]
  BY <1>3, <1>5 DEF TypeOK
<1> QED
  BY <1>2, <1>4, <1>6 DEF Throw

\* The deliveries keep the types.
LEMMA HookType ==
    ASSUME TypeOK, NEW d \in Deposits, NEW h \in Handlers,
           Deliver(d, h) \/ Handle(d, h) \/ AbortDelivery(d, h)
    PROVE  TypeOK'
<1> USE DEF rows, hooks, queue, bank
<1> DEFINE Hooked(new) == hook' = [hook EXCEPT ![d][h] = new]
<1>1. ASSUME NEW new \in HookPhases \cup Outcomes, Hooked(new)
      PROVE  hook' \in [Deposits -> [Handlers -> HookPhases \cup Outcomes]]
  BY <1>1 DEF TypeOK
<1>2. CASE Deliver(d, h)
  <2>1. hook' \in [Deposits -> [Handlers -> HookPhases \cup Outcomes]]
    BY <1>1, <1>2 DEF Deliver, Move, HookPhases
  <2>2. extra' \in [Deposits -> Nat]
    <3>1. extra' = extra \/ extra' = [extra EXCEPT ![d] = @ + 1]
      BY <1>2 DEF Deliver
    <3> QED
      BY <3>1 DEF TypeOK
  <2> QED
    BY <1>2, <2>1, <2>2 DEF TypeOK, Deliver
<1>3. CASE TsqAnswered(d, h)
  <2>1. PICK o \in TsqAnswers(d) : Hooked(o)
    BY <1>3 DEF TsqAnswered, Move
  <2>2. o \in Outcomes
    BY TsqAnswersSound DEF TypeOK
  <2>3. hook' \in [Deposits -> [Handlers -> HookPhases \cup Outcomes]]
    BY <1>1, <2>1, <2>2
  <2> QED
    BY <1>3, <2>3 DEF TypeOK, TsqAnswered
<1>4. CASE RefuseForNow(d, h) \/ Verified(d, h) \/ FindAddress(d, h)
  <2>1. PICK new \in HookPhases : Hooked(new)
    <3>1. {"idle", "recording", "matched", "unmatched"} \subseteq HookPhases
      BY DEF HookPhases
    <3> QED
      BY <1>4, <3>1 DEF RefuseForNow, Verified, FindAddress, Move
  <2>2. hook' \in [Deposits -> [Handlers -> HookPhases \cup Outcomes]]
    BY <1>1, <2>1
  <2> QED
    BY <1>4, <2>2 DEF TypeOK, RefuseForNow, Verified, FindAddress
<1>5. ASSUME Respond(d, h)
      PROVE  /\ hook' \in [Deposits -> [Handlers -> HookPhases \cup Outcomes]]
             /\ answered' \in [Deposits -> BOOLEAN]
  BY <1>1, <1>5 DEF TypeOK, Respond, Move, HookPhases
<1>6. CASE Drop(d, h) \/ IgnoreDuplicate(d, h)
  BY <1>5, <1>6 DEF TypeOK, Drop, IgnoreDuplicate
<1>7. CASE InsertMatched(d, h)
  <2>1. hook' \in [Deposits -> [Handlers -> HookPhases \cup Outcomes]]
    BY <1>1, <1>7 DEF InsertMatched, Move, HookPhases
  <2> QED
    BY <1>7, <2>1 DEF TypeOK, InsertMatched, Statuses
<1>8. CASE InsertUnmatched(d, h)
  BY <1>5, <1>8 DEF TypeOK, InsertUnmatched, Statuses
<1>9. CASE Enqueue(d, h)
  BY <1>5, <1>9 DEF TypeOK, Enqueue, Jobs
<1>10. CASE AbortDelivery(d, h)
  <2>1. hook' \in [Deposits -> [Handlers -> HookPhases \cup Outcomes]]
    BY <1>1, <1>10 DEF AbortDelivery, Move, HookPhases
  <2>2. aborts' \in [Deposits -> Nat]
    BY <1>10 DEF TypeOK, AbortDelivery
  <2> QED
    BY <1>10, <2>1, <2>2 DEF TypeOK, AbortDelivery
<1> QED
  BY <1>2, <1>3, <1>4, <1>6, <1>7, <1>8, <1>9, <1>10 DEF Handle

\* The workers keep the types.
LEMMA WorkType ==
    ASSUME TypeOK, NEW d \in Deposits, NEW k \in Workers, Work(d, k) \/ AbortWork(d, k)
    PROVE  TypeOK'
<1> USE DEF rows, hooks, queue, bank
<1>1. CASE Take(d, k)
  <2>1. CASE status[d] \in Terminal
    <3>1. job' = [job EXCEPT ![d] = "completed"] /\ UNCHANGED work
      BY <1>1, <2>1 DEF Take
    <3> QED
      BY <1>1, <3>1 DEF TypeOK, Take, Jobs
  <2>2. CASE status[d] \notin Terminal
    <3>1. job' = [job EXCEPT ![d] = "active"] /\ Step(d, k, "marking")
      BY <1>1, <2>2 DEF Take
    <3>2. work' \in [Deposits -> [Workers -> WorkPhases]]
      BY <3>1, StepType DEF WorkPhases
    <3> QED
      BY <1>1, <3>1, <3>2 DEF TypeOK, Take, Jobs
  <2> QED
    BY <2>1, <2>2
<1>2. CASE MarkProcessing(d, k)
  <2>1. work' \in [Deposits -> [Workers -> WorkPhases]]
    BY <1>2, StepType DEF MarkProcessing, WorkPhases
  <2> QED
    BY <1>2, <2>1 DEF TypeOK, MarkProcessing, Statuses
<1>3. CASE Credit(d, k)
  <2>1. /\ work' \in [Deposits -> [Workers -> WorkPhases]]
        /\ job' \in [Deposits -> Jobs]
        /\ tries' \in [Deposits -> Nat]
        /\ UNCHANGED <<holder, stalls>>
    BY <1>3, ReturnType, ThrowType DEF Credit, TypeOK
  <2>2. balance' \in [Wallets -> Nat] /\ credited' \in [Deposits -> Nat]
    BY <1>3 DEF TypeOK, Credit
  <2>3. aborts' \in [Deposits -> Nat] /\ unsure' \in [Deposits -> BOOLEAN]
    <3>1. \/ UNCHANGED <<unsure, aborts>>
          \/ unsure' = [unsure EXCEPT ![d] = TRUE] /\ aborts' = [aborts EXCEPT ![d] = @ + 1]
      BY <1>3 DEF Credit
    <3>2. CASE UNCHANGED <<unsure, aborts>>
      BY <3>2 DEF TypeOK
    <3>3. CASE unsure' = [unsure EXCEPT ![d] = TRUE] /\ aborts' = [aborts EXCEPT ![d] = @ + 1]
      BY <3>3 DEF TypeOK
    <3> QED
      BY <3>1, <3>2, <3>3
  <2> QED
    BY <1>3, <2>1, <2>2, <2>3 DEF TypeOK, Credit, Statuses
<1>4. CASE HandleFailed(d, k)
  <2>1. work' \in [Deposits -> [Workers -> WorkPhases]]
    BY <1>4, StepType DEF HandleFailed, WorkPhases
  <2> QED
    BY <1>4, <2>1 DEF TypeOK, HandleFailed, Statuses
<1>5. CASE AbortWork(d, k)
  <2>1. aborts' \in [Deposits -> Nat]
    BY <1>5 DEF TypeOK, AbortWork
  <2>2. CASE Throw(d, k)
    BY <1>5, <2>1, <2>2, ThrowType DEF TypeOK, AbortWork
  <2>3. CASE LoseLock(d, k)
    <3>1. PICK phase \in {"idle", work[d][k]} : Step(d, k, phase)
      BY <2>3 DEF LoseLock
    <3>2. phase \in WorkPhases
      BY DEF TypeOK, WorkPhases
    <3>3. work' \in [Deposits -> [Workers -> WorkPhases]]
      BY <3>1, <3>2, StepType
    <3>4. \/ UNCHANGED <<job, stalls>>
          \/ /\ stalls' = [stalls EXCEPT ![d] = @ + 1]
             /\ job' = [job EXCEPT ![d] = IF stalls[d] < MaxStalls THEN "waiting" ELSE "stalled_out"]
      BY <2>3 DEF LoseLock
    <3>5. stalls' \in [Deposits -> Nat]
      BY <3>4 DEF TypeOK
    <3>6. job' \in [Deposits -> Jobs]
      BY <3>4 DEF TypeOK, Jobs
    <3> QED
      BY <1>5, <2>1, <2>3, <3>3, <3>5, <3>6 DEF TypeOK, AbortWork, LoseLock
  <2> QED
    BY <1>5, <2>2, <2>3 DEF AbortWork
<1> QED
  BY <1>1, <1>2, <1>3, <1>4, <1>5 DEF Work

\* TypeOK is inductive on its own.
LEMMA NextType ==
    ASSUME TypeOK, [Next]_vars
    PROVE  TypeOK'
<1>1. ASSUME NEW d \in Deposits, TransferMoves(d)
      PROVE  TypeOK'
  <2>1. vfd' \in [Deposits -> Fates]
    BY <1>1 DEF TypeOK, TransferMoves, Fates
  <2> QED
    BY <1>1, <2>1 DEF TypeOK, TransferMoves, rows, hooks, queue
<1>2. ASSUME NEW d \in Deposits, InsertActiveAddress(d)
      PROVE  TypeOK'
  BY <1>2 DEF TypeOK, InsertActiveAddress, rows, hooks, queue
<1>3. CASE UNCHANGED vars
  BY <1>3 DEF TypeOK, vars, rows, hooks, queue, bank
<1> QED
  BY <1>1, <1>2, <1>3, HookType, WorkType DEF Next

\* Every state is well typed, overlapping workers included.
THEOREM PayinsTypeCorrect == Spec => []TypeOK
<1>1. Init => TypeOK
  BY DEF Init, TypeOK, Statuses, Fates, HookPhases, Jobs, WorkPhases
<1> QED
  BY <1>1, NextType, PTL DEF Spec

-----------------------------------------------------------------------------
(***************************************************************************)
(* VFD's word.  A delivery that got as far as recording was confirmed, and *)
(* nothing is queued, worked on or credited before a row was recorded.     *)
(***************************************************************************)
OnWord(d) ==
    /\ status[d] # "NONE" => vfd[d] = "paid" /\ agrees[d]
    /\ \A h \in Handlers :
          /\ hook[d][h] = "SUCCESSFUL" => vfd[d] = "paid"
          /\ hook[d][h] \in {"recording", "matched", "unmatched", "enqueueing"} =>
                vfd[d] = "paid" /\ agrees[d]
          /\ hook[d][h] = "enqueueing" => status[d] # "NONE"
    /\ job[d] # "none" \/ credited[d] > 0 => status[d] # "NONE"
    /\ \A k \in Workers : work[d][k] # "idle" => status[d] # "NONE"

WordInv == TypeOK /\ \A d \in Deposits : OnWord(d)

\* No step of one deposit is seen by another.
Untouched(e) ==
    /\ status'[e] = status[e] /\ vfd'[e] = vfd[e] /\ agrees'[e] = agrees[e]
    /\ hook'[e] = hook[e] /\ job'[e] = job[e] /\ holder'[e] = holder[e]
    /\ work'[e] = work[e] /\ credited'[e] = credited[e] /\ unsure'[e] = unsure[e]

\* What the worker's return and failure leave alone.
LEMMA ReturnFrame ==
    ASSUME TypeOK, NEW d \in Deposits, NEW k \in Workers, Return(d, k) \/ Throw(d, k)
    PROVE  \A e \in Deposits \ {d} : work'[e] = work[e] /\ job'[e] = job[e]
<1>1. \E phase \in WorkPhases : work' = [work EXCEPT ![d][k] = phase]
  <2>1. "idle" \in WorkPhases /\ "failing" \in WorkPhases
    BY DEF WorkPhases
  <2> QED
    BY <2>1 DEF Return, Throw, Step
<1>2. job' = job \/ \E j \in Jobs : job' = [job EXCEPT ![d] = j]
  <2>1. {"completed", "waiting", "exhausted"} \subseteq Jobs
    BY DEF Jobs
  <2> QED
    BY <2>1 DEF Return, Throw
<1> QED
  BY <1>1, <1>2 DEF TypeOK

\* A step of a delivery or a worker is a step of its deposit.
LEMMA HookFrame ==
    ASSUME TypeOK, NEW d \in Deposits, NEW h \in Handlers,
           Deliver(d, h) \/ Handle(d, h) \/ AbortDelivery(d, h)
    PROVE  \A e \in Deposits \ {d} : Untouched(e)
<1> USE DEF rows, hooks, queue, bank, Untouched
<1>1. \A e \in Deposits \ {d} : hook'[e] = hook[e]
  <2>1. CASE TsqAnswered(d, h)
    BY <2>1 DEF TypeOK, TsqAnswered, Move
  <2>2. CASE FindAddress(d, h)
    BY <2>2 DEF TypeOK, FindAddress, Move
  <2>3. CASE RefuseForNow(d, h) \/ Verified(d, h) \/ InsertMatched(d, h) \/ AbortDelivery(d, h)
             \/ Deliver(d, h)
    BY <2>3 DEF TypeOK, RefuseForNow, Verified, InsertMatched, AbortDelivery, Deliver, Move
  <2>4. CASE Drop(d, h) \/ InsertUnmatched(d, h) \/ IgnoreDuplicate(d, h) \/ Enqueue(d, h)
    BY <2>4 DEF TypeOK, Drop, InsertUnmatched, IgnoreDuplicate, Enqueue, Respond, Move
  <2> QED
    BY <2>1, <2>2, <2>3, <2>4 DEF Handle
<1>2. CASE InsertMatched(d, h) \/ InsertUnmatched(d, h)
  BY <1>1, <1>2 DEF TypeOK, InsertMatched, InsertUnmatched
<1>3. CASE Enqueue(d, h)
  BY <1>1, <1>3 DEF TypeOK, Enqueue
<1>4. CASE \/ Deliver(d, h) \/ TsqAnswered(d, h) \/ RefuseForNow(d, h) \/ Drop(d, h)
           \/ Verified(d, h) \/ FindAddress(d, h) \/ IgnoreDuplicate(d, h)
           \/ AbortDelivery(d, h)
  BY <1>1, <1>4 DEF Deliver, TsqAnswered, RefuseForNow, Drop, Verified, FindAddress,
     IgnoreDuplicate, AbortDelivery
<1> QED
  BY <1>2, <1>3, <1>4 DEF Handle

LEMMA WorkFrame ==
    ASSUME TypeOK, NEW d \in Deposits, NEW k \in Workers, Work(d, k) \/ AbortWork(d, k)
    PROVE  \A e \in Deposits \ {d} : Untouched(e)
<1> USE DEF rows, hooks, queue, bank, Untouched
<1>1. CASE Take(d, k)
  <2>1. CASE status[d] \in Terminal
    <3>1. job' = [job EXCEPT ![d] = "completed"] /\ UNCHANGED work
      BY <1>1, <2>1 DEF Take
    <3> QED
      BY <1>1, <3>1 DEF TypeOK, Take
  <2>2. CASE status[d] \notin Terminal
    <3>1. job' = [job EXCEPT ![d] = "active"] /\ work' = [work EXCEPT ![d][k] = "marking"]
      BY <1>1, <2>2 DEF Take, Step
    <3> QED
      BY <1>1, <3>1 DEF TypeOK, Take
  <2> QED
    BY <2>1, <2>2
<1>2. CASE MarkProcessing(d, k) \/ HandleFailed(d, k)
  BY <1>2 DEF TypeOK, MarkProcessing, HandleFailed, Step
<1>3. CASE Credit(d, k)
  <2>1. Return(d, k) \/ Throw(d, k)
    BY <1>3 DEF Credit
  <2>2. \A e \in Deposits \ {d} : unsure'[e] = unsure[e]
    <3>1. unsure' = unsure \/ unsure' = [unsure EXCEPT ![d] = TRUE]
      BY <1>3 DEF Credit
    <3> QED
      BY <3>1 DEF TypeOK
  <2>3. holder' = holder
    BY <2>1 DEF Return, Throw
  <2> QED
    BY <1>3, <2>1, <2>2, <2>3, ReturnFrame DEF TypeOK, Credit
<1>4. CASE AbortWork(d, k) /\ Throw(d, k)
  <2>1. holder' = holder
    BY <1>4 DEF Throw
  <2> QED
    BY <1>4, <2>1, ReturnFrame DEF AbortWork
<1>5. CASE AbortWork(d, k) /\ LoseLock(d, k)
  <2>1. PICK phase \in {"idle", work[d][k]} : work' = [work EXCEPT ![d][k] = phase]
    BY <1>5 DEF LoseLock, Step
  <2>2. job' = job \/ job' = [job EXCEPT ![d] = IF stalls[d] < MaxStalls THEN "waiting" ELSE "stalled_out"]
    BY <1>5 DEF LoseLock
  <2>3. \A e \in Deposits \ {d} : work'[e] = work[e] /\ job'[e] = job[e]
    BY <2>1, <2>2 DEF TypeOK
  <2> QED
    BY <1>5, <2>3 DEF AbortWork, LoseLock
<1> QED
  BY <1>1, <1>2, <1>3, <1>4, <1>5 DEF Work, AbortWork

\* The deliveries keep to VFD's word: only its query lets one record.
LEMMA HookWord ==
    ASSUME WordInv, NEW d \in Deposits, NEW h \in Handlers,
           Deliver(d, h) \/ Handle(d, h) \/ AbortDelivery(d, h)
    PROVE  OnWord(d)'
<1> USE DEF rows, hooks, queue, bank
<1>0. TypeOK /\ OnWord(d)
  BY DEF WordInv
<1>1. CASE TsqAnswered(d, h)
  <2>1. PICK o \in TsqAnswers(d) : hook' = [hook EXCEPT ![d][h] = o]
    BY <1>1 DEF TsqAnswered, Move
  <2>2. o \in Outcomes /\ (o = "SUCCESSFUL" => vfd[d] = "paid")
    BY <1>0, TsqAnswersSound DEF TypeOK
  <2> QED
    BY <1>0, <1>1, <2>1, <2>2 DEF OnWord, TypeOK, TsqAnswered, Outcomes
<1>2. CASE RefuseForNow(d, h) \/ AbortDelivery(d, h) \/ Deliver(d, h)
  BY <1>0, <1>2 DEF OnWord, TypeOK, RefuseForNow, AbortDelivery, Deliver, Move
<1>3. CASE Drop(d, h) \/ IgnoreDuplicate(d, h)
  BY <1>0, <1>3 DEF OnWord, TypeOK, Drop, IgnoreDuplicate, Respond, Move
<1>4. CASE Verified(d, h)
  BY <1>0, <1>4 DEF OnWord, TypeOK, Verified, Move
<1>5. CASE FindAddress(d, h)
  <2>1. PICK new \in {"matched", "unmatched"} : hook' = [hook EXCEPT ![d][h] = new]
    BY <1>5 DEF FindAddress, Move
  <2> QED
    BY <1>0, <1>5, <2>1 DEF OnWord, TypeOK, FindAddress
<1>6. CASE InsertMatched(d, h)
  BY <1>0, <1>6 DEF OnWord, TypeOK, InsertMatched, Move
<1>7. CASE InsertUnmatched(d, h)
  BY <1>0, <1>7 DEF OnWord, TypeOK, InsertUnmatched, Respond, Move
<1>8. CASE Enqueue(d, h)
  BY <1>0, <1>8 DEF OnWord, TypeOK, Enqueue, Respond, Move
<1> QED
  BY <1>1, <1>2, <1>3, <1>4, <1>5, <1>6, <1>7, <1>8 DEF Handle

\* The workers only carry on what was recorded: no row ever vanishes.
LEMMA WorkWord ==
    ASSUME WordInv, NEW d \in Deposits, NEW k \in Workers, Work(d, k) \/ AbortWork(d, k)
    PROVE  OnWord(d)'
<1>0. TypeOK /\ OnWord(d)
  BY DEF WordInv
<1>1. status[d] # "NONE"
  <2>1. job[d] # "none" \/ work[d][k] # "idle"
    BY DEF Work, Take, MarkProcessing, Credit, HandleFailed, AbortWork
  <2> QED
    BY <1>0, <2>1 DEF OnWord
<1>2. status' = status \/ \E new \in Statuses \ {"NONE"} : status' = [status EXCEPT ![d] = new]
  BY DEF Work, Take, MarkProcessing, Credit, HandleFailed, AbortWork, rows, Statuses
<1>3. status'[d] # "NONE"
  BY <1>0, <1>1, <1>2 DEF TypeOK
<1>4. UNCHANGED <<vfd, agrees, hook>>
  BY DEF Work, Take, MarkProcessing, Credit, HandleFailed, AbortWork, bank, hooks
<1> QED
  BY <1>0, <1>1, <1>3, <1>4 DEF OnWord

\* WordInv is inductive, overlapping workers or not.
LEMMA NextWord ==
    ASSUME WordInv, [Next]_vars
    PROVE  WordInv'
<1>0. TypeOK /\ TypeOK'
  BY NextType DEF WordInv
<1>1. ASSUME NEW e \in Deposits, Untouched(e)
      PROVE  OnWord(e)'
  BY <1>1 DEF WordInv, OnWord, Untouched
<1>2. ASSUME NEW d \in Deposits, NEW h \in Handlers,
             Deliver(d, h) \/ Handle(d, h) \/ AbortDelivery(d, h)
      PROVE  WordInv'
  BY <1>0, <1>1, <1>2, HookFrame, HookWord DEF WordInv
<1>3. ASSUME NEW d \in Deposits, NEW k \in Workers, Work(d, k) \/ AbortWork(d, k)
      PROVE  WordInv'
  BY <1>0, <1>1, <1>3, WorkFrame, WorkWord DEF WordInv
<1>4. ASSUME NEW d \in Deposits, TransferMoves(d) \/ InsertActiveAddress(d)
      PROVE  WordInv'
  <2>1. UNCHANGED <<status, agrees, hook, job, credited, work>>
    BY <1>4 DEF TransferMoves, InsertActiveAddress, rows, hooks, queue
  <2>2. \A e \in Deposits : vfd[e] = "paid" => vfd'[e] = "paid"
    BY <1>0, <1>4 DEF TransferMoves, InsertActiveAddress, TypeOK
  <2> QED
    BY <1>0, <2>1, <2>2 DEF WordInv, OnWord
<1>5. CASE UNCHANGED vars
  BY <1>0, <1>1, <1>5 DEF WordInv, Untouched, vars, rows, hooks, queue, bank
<1> QED
  BY <1>2, <1>3, <1>4, <1>5 DEF Next

\* No deposit is credited but on VFD's word, however many deliveries and workers
\* race, overlapping workers included.
THEOREM CreditedOnWord == Spec => []NeverCreditedUnconfirmed
<1>1. Init => WordInv
  BY DEF Init, WordInv, OnWord, TypeOK, Statuses, Fates, HookPhases, Jobs, WorkPhases
<1>2. WordInv => NeverCreditedUnconfirmed
  BY DEF WordInv, OnWord, NeverCreditedUnconfirmed
<1> QED
  BY <1>1, <1>2, NextWord, PTL DEF Spec

-----------------------------------------------------------------------------
(***************************************************************************)
(* Once.  One delivery enqueues, one worker at a time has the job, and a   *)
(* job with a worker or to be taken up is of a deposit not yet credited,   *)
(* or of one whose row says so.                                            *)
(***************************************************************************)
OneJob(d) ==
    /\ \A h \in Handlers :
          hook[d][h] = "enqueueing" =>
             /\ job[d] = "none" /\ status[d] = "PENDING"
             /\ \A g \in Handlers : hook[d][g] = "enqueueing" => g = h
    /\ status[d] \in {"NONE", "UNMATCHED"} => job[d] = "none"

OneWorker(d) ==
    \A k \in Workers :
       /\ work[d][k] \in {"marking", "crediting"} => job[d] = "active" /\ holder[d] = k
       /\ work[d][k] = "failing" => job[d] = "exhausted"

OneCredit(d) ==
    /\ credited[d] \in {0, 1}
    /\ status[d] = "SUCCESSFUL" => credited[d] = 1
    /\ job[d] \in {"none", "active"} => credited[d] = 0
    /\ credited[d] = 1 => status[d] = "SUCCESSFUL" \/ (job[d] = "exhausted" /\ unsure[d])
    /\ credited[d] = 1 /\ job[d] = "exhausted" => unsure[d]

Once(d) == OneJob(d) /\ OneWorker(d) /\ OneCredit(d)

OnceInv == TypeOK /\ \A d \in Deposits : Once(d)

\* Only the delivery that inserted the row enqueues.
LEMMA HookOnce ==
    ASSUME OnceInv, NEW d \in Deposits, NEW h \in Handlers,
           Deliver(d, h) \/ Handle(d, h) \/ AbortDelivery(d, h)
    PROVE  Once(d)'
<1> USE DEF rows, hooks, queue, bank
<1>0. TypeOK /\ Once(d)
  BY DEF OnceInv
<1>1. CASE InsertMatched(d, h)
  <2>1. /\ status[d] = "NONE" /\ status' = [status EXCEPT ![d] = "PENDING"]
        /\ hook' = [hook EXCEPT ![d][h] = "enqueueing"]
        /\ UNCHANGED <<job, holder, work, credited, unsure>>
    BY <1>1 DEF InsertMatched, Move
  <2>2. OneJob(d)' /\ OneWorker(d)'
    BY <1>0, <2>1 DEF Once, OneJob, OneWorker, TypeOK
  <2>3. OneCredit(d)'
    BY <1>0, <2>1 DEF Once, OneJob, OneCredit, TypeOK
  <2> QED
    BY <2>2, <2>3 DEF Once
<1>2. CASE Enqueue(d, h)
  <2>1. /\ hook[d][h] = "enqueueing" /\ job' = [job EXCEPT ![d] = "waiting"]
        /\ hook' = [hook EXCEPT ![d][h] = "idle"]
        /\ UNCHANGED <<status, holder, work, credited, unsure>>
    BY <1>2 DEF Enqueue, Respond, Move
  <2>2. OneJob(d)'
    BY <1>0, <2>1 DEF Once, OneJob, TypeOK
  <2>3. OneWorker(d)' /\ OneCredit(d)'
    BY <1>0, <2>1 DEF Once, OneJob, OneWorker, OneCredit, TypeOK
  <2> QED
    BY <2>2, <2>3 DEF Once
<1>3. CASE InsertUnmatched(d, h)
  <2>1. /\ status[d] = "NONE" /\ status' = [status EXCEPT ![d] = "UNMATCHED"]
        /\ hook' = [hook EXCEPT ![d][h] = "idle"]
        /\ UNCHANGED <<job, holder, work, credited, unsure>>
    BY <1>3 DEF InsertUnmatched, Respond, Move
  <2> QED
    BY <1>0, <2>1 DEF Once, OneJob, OneWorker, OneCredit, TypeOK
<1>4. CASE ~InsertMatched(d, h) /\ ~Enqueue(d, h) /\ ~InsertUnmatched(d, h)
  <2>1. UNCHANGED <<status, job, holder, work, credited, unsure>>
    BY <1>4 DEF Handle, Deliver, TsqAnswered, RefuseForNow, Drop, Verified, FindAddress,
       IgnoreDuplicate, AbortDelivery
  <2>2. PICK new \in (HookPhases \cup Outcomes) \ {"enqueueing"} : hook' = [hook EXCEPT ![d][h] = new]
    <3>1. {"idle", "asking", "recording", "matched", "unmatched"} \subseteq HookPhases
      BY DEF HookPhases
    <3>2. CASE TsqAnswered(d, h)
      <4>1. PICK o \in TsqAnswers(d) : hook' = [hook EXCEPT ![d][h] = o]
        BY <3>2 DEF TsqAnswered, Move
      <4>2. o \in Outcomes /\ o # "enqueueing"
        BY <1>0, TsqAnswersSound DEF TypeOK, Outcomes
      <4> QED
        BY <4>1, <4>2
    <3>3. CASE ~TsqAnswered(d, h)
      BY <1>4, <3>1, <3>3 DEF Handle, Deliver, RefuseForNow, Drop, Verified, FindAddress,
         IgnoreDuplicate, AbortDelivery, Respond, Move
    <3> QED
      BY <3>2, <3>3
  <2> QED
    BY <1>0, <2>1, <2>2 DEF Once, OneJob, OneWorker, OneCredit, TypeOK
<1> QED
  BY <1>1, <1>2, <1>3, <1>4

\* A worker that loses the lock stops, so only the holder credits.
LEMMA WorkOnce ==
    ASSUME ~Overlap, OnceInv, NEW d \in Deposits, NEW k \in Workers,
           Work(d, k) \/ AbortWork(d, k)
    PROVE  Once(d)'
<1> USE DEF rows, hooks, queue, bank
<1>0. TypeOK /\ Once(d)
  BY DEF OnceInv
<1>1. CASE Take(d, k)
  <2>1. job[d] = "waiting" /\ UNCHANGED <<hook, status, credited, unsure>>
    BY <1>1 DEF Take
  <2>2. \A j \in Workers : work[d][j] = "idle"
    BY <1>0, <2>1 DEF Once, OneWorker, TypeOK, WorkPhases
  <2>3. CASE status[d] \in Terminal
    <3>1. job' = [job EXCEPT ![d] = "completed"] /\ UNCHANGED work
      BY <1>1, <2>3 DEF Take
    <3> QED
      BY <1>0, <2>1, <2>2, <3>1 DEF Once, OneJob, OneWorker, OneCredit, TypeOK
  <2>4. CASE status[d] \notin Terminal
    <3>1. /\ job' = [job EXCEPT ![d] = "active"] /\ work' = [work EXCEPT ![d][k] = "marking"]
          /\ holder' = [holder EXCEPT ![d] = k]
      BY <1>1, <2>4 DEF Take, Step
    <3>2. credited[d] = 0
      BY <1>0, <2>1, <2>4 DEF Once, OneCredit, Terminal
    <3> QED
      BY <1>0, <2>1, <2>2, <3>1, <3>2 DEF Once, OneJob, OneWorker, OneCredit, TypeOK
  <2> QED
    BY <2>3, <2>4
<1>2. CASE MarkProcessing(d, k)
  <2>1. /\ work[d][k] = "marking" /\ work' = [work EXCEPT ![d][k] = "crediting"]
        /\ status' = [status EXCEPT ![d] = "PROCESSING"]
        /\ UNCHANGED <<hook, job, holder, credited, unsure>>
    BY <1>2 DEF MarkProcessing, Step
  <2> QED
    BY <1>0, <2>1 DEF Once, OneJob, OneWorker, OneCredit, TypeOK
<1>3. ASSUME work[d][k] \in {"marking", "crediting"}, Throw(d, k)
      PROVE  \E to \in {<<"waiting", "idle">>, <<"exhausted", "failing">>} :
                /\ job' = [job EXCEPT ![d] = to[1]]
                /\ work' = [work EXCEPT ![d][k] = to[2]]
                /\ holder' = holder
  <2>1. holder[d] = k
    BY <1>0, <1>3 DEF Once, OneWorker
  <2> QED
    BY <1>3, <2>1 DEF Throw, Step
<1>4. CASE Credit(d, k)
  <2>1. /\ work[d][k] = "crediting"
        /\ status' = [status EXCEPT ![d] = "SUCCESSFUL"]
        /\ credited' = [credited EXCEPT ![d] = @ + 1]
        /\ hook' = hook
    BY <1>4 DEF Credit
  <2>2. job[d] = "active" /\ holder[d] = k /\ credited[d] = 0
    BY <1>0, <2>1 DEF Once, OneWorker, OneCredit
  <2>3. PICK to \in {<<"completed", "idle">>, <<"waiting", "idle">>, <<"exhausted", "failing">>} :
           /\ job' = [job EXCEPT ![d] = to[1]]
           /\ work' = [work EXCEPT ![d][k] = to[2]]
           /\ holder' = holder
           /\ to[1] # "completed" => unsure' = [unsure EXCEPT ![d] = TRUE]
    <3>1. CASE Return(d, k) /\ UNCHANGED <<unsure, aborts>>
      BY <2>2, <3>1 DEF Return, Step
    <3>2. CASE Throw(d, k) /\ unsure' = [unsure EXCEPT ![d] = TRUE]
      BY <1>3, <2>1, <3>2
    <3> QED
      BY <1>4, <3>1, <3>2 DEF Credit
  <2>4. \A j \in Workers \ {k} : work[d][j] = "idle"
    BY <1>0, <2>2 DEF Once, OneWorker, TypeOK, WorkPhases
  <2>5. OneJob(d)'
    BY <1>0, <2>1, <2>2, <2>3 DEF Once, OneJob, TypeOK
  <2>6. OneWorker(d)'
    BY <1>0, <2>3, <2>4 DEF OneWorker, TypeOK
  <2>7. OneCredit(d)'
    BY <1>0, <2>1, <2>2, <2>3 DEF OneCredit, TypeOK
  <2> QED
    BY <2>5, <2>6, <2>7 DEF Once
<1>5. CASE HandleFailed(d, k)
  <2>1. /\ work[d][k] = "failing" /\ work' = [work EXCEPT ![d][k] = "idle"]
        /\ status' = [status EXCEPT ![d] = "FAILED"]
        /\ UNCHANGED <<hook, job, holder, credited, unsure>>
    BY <1>5 DEF HandleFailed, Step
  <2>2. job[d] = "exhausted"
    BY <1>0, <2>1 DEF Once, OneWorker
  <2> QED
    BY <1>0, <2>1, <2>2 DEF Once, OneJob, OneWorker, OneCredit, TypeOK
<1>6. CASE AbortWork(d, k)
  <2>1. work[d][k] # "idle" /\ UNCHANGED <<hook, status, credited, unsure>>
    BY <1>6 DEF AbortWork
  <2>2. CASE Throw(d, k) /\ work[d][k] # "failing"
    <3>1. work[d][k] \in {"marking", "crediting"}
      BY <1>0, <2>1, <2>2 DEF TypeOK, WorkPhases
    <3>2. PICK to \in {<<"waiting", "idle">>, <<"exhausted", "failing">>} :
             /\ job' = [job EXCEPT ![d] = to[1]]
             /\ work' = [work EXCEPT ![d][k] = to[2]]
             /\ holder' = holder
      BY <1>3, <2>2, <3>1
    <3>3. job[d] = "active" /\ \A j \in Workers \ {k} : work[d][j] = "idle"
      BY <1>0, <3>1 DEF Once, OneWorker, TypeOK, WorkPhases
    <3> QED
      BY <1>0, <2>1, <3>2, <3>3 DEF Once, OneJob, OneWorker, OneCredit, TypeOK
  <2>3. CASE LoseLock(d, k)
    <3>1. work' = [work EXCEPT ![d][k] = "idle"] /\ holder' = holder
      BY <2>3 DEF LoseLock, Step
    <3>2. CASE holder[d] = k /\ job[d] = "active"
      <4>1. PICK new \in {"waiting", "stalled_out"} : job' = [job EXCEPT ![d] = new]
        BY <2>3, <3>2 DEF LoseLock
      <4>2. \A j \in Workers \ {k} : work[d][j] = "idle"
        BY <1>0, <3>2 DEF Once, OneWorker, TypeOK, WorkPhases
      <4> QED
        BY <1>0, <2>1, <3>1, <3>2, <4>1, <4>2 DEF Once, OneJob, OneWorker, OneCredit, TypeOK
    <3>3. CASE ~(holder[d] = k /\ job[d] = "active")
      <4>1. job' = job
        BY <2>3, <3>3 DEF LoseLock
      <4> QED
        BY <1>0, <2>1, <3>1, <4>1 DEF Once, OneJob, OneWorker, OneCredit, TypeOK
    <3> QED
      BY <3>2, <3>3
  <2> QED
    BY <1>6, <2>2, <2>3 DEF AbortWork
<1> QED
  BY <1>1, <1>2, <1>4, <1>5, <1>6 DEF Work

\* OnceInv is inductive when a worker that lost the lock stops.
LEMMA NextOnce ==
    ASSUME ~Overlap, OnceInv, [Next]_vars
    PROVE  OnceInv'
<1>0. TypeOK /\ TypeOK'
  BY NextType DEF OnceInv
<1>1. ASSUME NEW e \in Deposits, Untouched(e)
      PROVE  Once(e)'
  BY <1>1 DEF OnceInv, Once, OneJob, OneWorker, OneCredit, Untouched
<1>2. ASSUME NEW d \in Deposits, NEW h \in Handlers,
             Deliver(d, h) \/ Handle(d, h) \/ AbortDelivery(d, h)
      PROVE  OnceInv'
  BY <1>0, <1>1, <1>2, HookFrame, HookOnce DEF OnceInv
<1>3. ASSUME NEW d \in Deposits, NEW k \in Workers, Work(d, k) \/ AbortWork(d, k)
      PROVE  OnceInv'
  BY <1>0, <1>1, <1>3, WorkFrame, WorkOnce DEF OnceInv
<1>4. ASSUME \/ UNCHANGED vars
             \/ \E d \in Deposits : TransferMoves(d) \/ InsertActiveAddress(d)
      PROVE  OnceInv'
  <2>1. UNCHANGED <<status, hook, job, holder, work, credited, unsure>>
    BY <1>4 DEF TransferMoves, InsertActiveAddress, vars, rows, hooks, queue
  <2> QED
    BY <1>0, <2>1 DEF OnceInv, Once, OneJob, OneWorker, OneCredit
<1> QED
  BY <1>2, <1>3, <1>4 DEF Next

LEMMA InitOnce == Init => OnceInv
  BY DEF Init, OnceInv, Once, OneJob, OneWorker, OneCredit, TypeOK, Statuses, Fates,
     HookPhases, Jobs, WorkPhases

\* The row tells what happened to the money, unless a worker could not know.
THEOREM StatusIsTrue ==
    ASSUME ~Overlap
    PROVE  Spec => []StatusTellsCredit
<1>1. OnceInv => StatusTellsCredit
  BY DEF OnceInv, Once, OneCredit, StatusTellsCredit, TypeOK
<1> QED
  BY <1>1, InitOnce, NextOnce, PTL DEF Spec

\* No deposit is ever credited twice.
THEOREM NeverCreditedTwice ==
    ASSUME ~Overlap
    PROVE  Spec => []CreditedAtMostOnce
<1>1. OnceInv => CreditedAtMostOnce
  BY DEF OnceInv, Once, OneCredit, CreditedAtMostOnce
<1> QED
  BY <1>1, InitOnce, NextOnce, PTL DEF Spec

-----------------------------------------------------------------------------
(***************************************************************************)
(* The wallet ledger.                                                      *)
(***************************************************************************)
\* Crediting is the one movement of a deposit.
LEMMA CreditBooks ==
    ASSUME OnceInv, NEW d \in Deposits, NEW k \in Workers, Credit(d, k)
    PROVE  Books!Next
<1>1. /\ work[d][k] = "crediting"
      /\ balance' = [balance EXCEPT ![WalletOf[d]] = @ + Amount[d]]
      /\ credited' = [credited EXCEPT ![d] = @ + 1]
  BY DEF Credit
<1>2. credited[d] = 0
  BY <1>1 DEF OnceInv, Once, OneWorker, OneCredit
<1>3. credited' = [credited EXCEPT ![d] = 1]
  BY <1>1, <1>2
<1>4. Entry[d] = [kind |-> "NONE"]
  BY <1>2 DEF Entry
<1>5. Entry' = [Entry EXCEPT ![d] = [kind |-> "CREDIT", wallet |-> WalletOf[d], total |-> Amount[d]]]
  <2>1. ASSUME NEW e \in Deposits
        PROVE  Entry'[e] = [Entry EXCEPT ![d] =
                  [kind |-> "CREDIT", wallet |-> WalletOf[d], total |-> Amount[d]]][e]
    BY <1>3 DEF Entry, OnceInv, TypeOK
  <2> QED
    BY <2>1 DEF Entry
<1>6. Books!Credit(d, WalletOf[d], Amount[d])
  BY <1>1, <1>4, <1>5 DEF Books!Credit, Books!Written, Books!None
<1> QED
  BY <1>6 DEF Books!Next

\* Every other step is quiet.
LEMMA NextBooks ==
    ASSUME OnceInv, [Next]_vars
    PROVE  [Books!Next]_<<balance, Entry>>
<1>1. CASE \E d \in Deposits, k \in Workers : Credit(d, k)
  BY <1>1, CreditBooks
<1>2. CASE ~\E d \in Deposits, k \in Workers : Credit(d, k)
  <2>1. ASSUME NEW d \in Deposits, NEW h \in Handlers,
               Deliver(d, h) \/ Handle(d, h) \/ AbortDelivery(d, h)
        PROVE  UNCHANGED <<balance, credited>>
    BY <2>1 DEF Deliver, Handle, TsqAnswered, RefuseForNow, Drop, Verified, FindAddress,
       InsertMatched, InsertUnmatched, IgnoreDuplicate, Enqueue, AbortDelivery, rows
  <2>2. ASSUME NEW d \in Deposits, NEW k \in Workers,
               Take(d, k) \/ MarkProcessing(d, k) \/ HandleFailed(d, k) \/ AbortWork(d, k)
        PROVE  UNCHANGED <<balance, credited>>
    BY <2>2 DEF Take, MarkProcessing, HandleFailed, AbortWork, rows
  <2>3. ASSUME NEW d \in Deposits, TransferMoves(d) \/ InsertActiveAddress(d)
        PROVE  UNCHANGED <<balance, credited>>
    BY <2>3 DEF TransferMoves, InsertActiveAddress, rows
  <2>4. UNCHANGED vars => UNCHANGED <<balance, credited>>
    BY DEF vars, rows
  <2>5. UNCHANGED <<balance, credited>>
    BY <1>2, <2>1, <2>2, <2>3, <2>4 DEF Next, Work
  <2> QED
    BY <2>5 DEF Entry
<1> QED
  BY <1>1, <1>2

\* For every number of deposits, deliveries, workers, retries and deaths: the
\* incoming transfers implement the wallet ledger.
THEOREM PayinsKeepTheBooks ==
    ASSUME ~Overlap
    PROVE  Spec => KeepsTheBooks
<1>1. Init => Books!Init
  BY DEF Init, Books!Init, Books!None, Entry
<1> QED
  BY <1>1, InitOnce, NextOnce, NextBooks, PTL DEF Spec, KeepsTheBooks, Books!Spec
=============================================================================
