--------------------------- MODULE PostingsProofs ---------------------------
(***************************************************************************)
(* Proofs about Postings, for every number of wallets, postings, deposits, *)
(* members of staff, concurrent approvals and faults.                      *)
(***************************************************************************)
EXTENDS Postings, TLAPS

USE PostingsAssumption

-----------------------------------------------------------------------------
(***************************************************************************)
(* The inductive invariant, by posting.                                    *)
(***************************************************************************)
Approved == {"PROCESSING", "POSTED", "FAILED"}

\* Before its approval a posting moves nothing and calls nobody.
Quiet(p) ==
    /\ status[p] # "NONE" => draft[p] \in Drafts
    /\ status[p] \notin Approved =>
          /\ ~moved[p]
          /\ \A c \in Calls : server[p][c] = "idle" /\ call[p][c] \in {"idle", "claiming"}

\* Whoever claims it, or is about to, is not the one who asked for it.
SecondPerson(p) ==
    /\ status[p] \in Approved => decider[p] \in Approvers /\ decider[p] # maker[p]
    /\ \A c \in Calls :
          call[p][c] = "claiming" =>
             /\ actor[p][c] \in Approvers /\ actor[p][c] # maker[p]
             /\ status[p] \notin {"NONE", "DRAFT"}

\* A success is told of money that moved.
TrueSuccess(p) ==
    /\ status[p] = "POSTED" => HasMoved(p)
    /\ \A c \in Calls :
          /\ server[p][c] = "applying" => draft[p].source = None
          /\ server[p][c] = "ok" => HasMoved(p)

\* A credit is refused for one reason: its deposit went to another wallet.
Lost(p) ==
    draft[p].type = "CREDIT" =>
       draft[p].source # None /\ owner[draft[p].source] \notin {Free, draft[p].wallet}

TrueRefusal(p) ==
    ~Throttles =>
       /\ status[p] = "FAILED" => Lost(p)
       /\ \A c \in Calls : server[p][c] = "refused" => Lost(p)

Good(p) == Quiet(p) /\ SecondPerson(p) /\ TrueSuccess(p) /\ TrueRefusal(p)

Inv == TypeOK /\ \A p \in Postings : Good(p)

-----------------------------------------------------------------------------
(***************************************************************************)
(* What the steps of one posting do to another.                            *)
(***************************************************************************)
\* The posting's own state does not change, and an assigned deposit stays where
\* it is.
Undisturbed(q) ==
    /\ status'[q] = status[q] /\ draft'[q] = draft[q] /\ maker'[q] = maker[q]
    /\ decider'[q] = decider[q] /\ call'[q] = call[q] /\ actor'[q] = actor[q]
    /\ server'[q] = server[q] /\ moved'[q] = moved[q]

OwnersStay == \A d \in Deposits : owner[d] # Free => owner'[d] = owner[d]

\* A posting whose money moved stays so, as long as its request does.
LEMMA HasMovedStays ==
    ASSUME NEW p \in Postings, draft[p] \in Drafts, draft'[p] = draft[p],
           moved[p] => moved'[p], OwnersStay, HasMoved(p)
    PROVE  HasMoved(p)'
<1>1. draft[p].wallet \in Wallets /\ draft[p].source \in Deposits \cup {None}
  OBVIOUS
<1> QED
  BY <1>1 DEF HasMoved, OwnersStay

\* A lost deposit stays lost.
LEMMA LostStays ==
    ASSUME NEW p \in Postings, draft[p] \in Drafts, draft'[p] = draft[p],
           OwnersStay, Lost(p)
    PROVE  Lost(p)'
<1>1. draft[p].wallet \in Wallets /\ draft[p].source \in Deposits \cup {None}
  OBVIOUS
<1> QED
  BY <1>1 DEF Lost, OwnersStay

\* The steps of one posting keep what is known of the others.
LEMMA OthersStayGood ==
    ASSUME NEW q \in Postings, Good(q), Undisturbed(q), OwnersStay
    PROVE  Good(q)'
<1>1. Quiet(q)'
  BY DEF Good, Quiet, Undisturbed
<1>2. SecondPerson(q)'
  BY DEF Good, SecondPerson, Undisturbed
<1>3. status[q] # "NONE" => draft[q] \in Drafts
  BY DEF Good, Quiet
<1>4. CASE status[q] \notin Approved
  <2>1. \A c \in Calls : server[q][c] = "idle"
    BY <1>4 DEF Good, Quiet
  <2>2. TrueSuccess(q)'
    BY <1>4, <2>1 DEF TrueSuccess, Undisturbed, Approved
  <2>3. TrueRefusal(q)'
    BY <1>4, <2>1 DEF TrueRefusal, Undisturbed, Approved
  <2> QED
    BY <1>1, <1>2, <2>2, <2>3 DEF Good
<1>5. CASE status[q] \in Approved
  <2>1. draft[q] \in Drafts
    BY <1>3, <1>5 DEF Approved
  <2>2. HasMoved(q) => HasMoved(q)'
    BY <2>1, HasMovedStays DEF Undisturbed
  <2>3. Lost(q) => Lost(q)'
    BY <2>1, LostStays DEF Undisturbed
  <2>4. TrueSuccess(q)'
    BY <2>2 DEF Good, TrueSuccess, Undisturbed
  <2>5. TrueRefusal(q)'
    BY <2>3 DEF Good, TrueRefusal, Undisturbed
  <2> QED
    BY <1>1, <1>2, <2>4, <2>5 DEF Good
<1> QED
  BY <1>4, <1>5

-----------------------------------------------------------------------------
(***************************************************************************)
(* The maker's and the approvers' steps.                                   *)
(***************************************************************************)
\* A request, saved, rejected or cancelled, keeps the invariant.
LEMMA RequestKeepsInv ==
    ASSUME Inv, NEW p \in Postings, NEW s \in Makers, NEW r \in Drafts, Request(p, s, r)
    PROVE  Inv'
<1>1. TypeOK'
  BY DEF Inv, TypeOK, Request, Statuses, books
<1>2. Quiet(p)'
  BY DEF Inv, TypeOK, Good, Quiet, Request, Approved, books
<1>3. \A c \in Calls : server[p][c] = "idle" /\ call[p][c] = "idle"
  BY DEF Inv, Good, Quiet, SecondPerson, Request, Approved
<1>4. SecondPerson(p)' /\ TrueSuccess(p)' /\ TrueRefusal(p)'
  BY <1>3 DEF Inv, TypeOK, SecondPerson, TrueSuccess, TrueRefusal, Request, Approved
<1>5. ASSUME NEW q \in Postings, q # p
      PROVE  Undisturbed(q) /\ OwnersStay
  BY <1>5 DEF Inv, TypeOK, Undisturbed, OwnersStay, Request, books
<1> QED
  BY <1>1, <1>2, <1>4, <1>5, OthersStayGood DEF Inv, Good

LEMMA DecisionKeepsInv ==
    ASSUME Inv, NEW p \in Postings,
           Save(p) \/ Cancel(p) \/ \E s \in Approvers : Reject(p, s)
    PROVE  Inv'
<1>1. PICK new \in Statuses \ Approved : status' = [status EXCEPT ![p] = new]
  <2>1. CASE Save(p)
    <3>1. \E new \in {"NONE", "PENDING"} : status' = [status EXCEPT ![p] = new]
      BY <2>1 DEF Save
    <3> QED
      BY <3>1 DEF Statuses, Approved
  <2> QED
    BY <2>1 DEF Cancel, Reject, Statuses, Approved
<1>2. /\ status[p] \notin Approved \cup {"NONE"}
      /\ status[p] = "DRAFT" \/ new \notin {"NONE", "DRAFT"}
      /\ UNCHANGED <<books, form, call, actor, server, faults>>
  BY <1>1 DEF Inv, TypeOK, Save, Cancel, Reject, Approved
<1>3. decider' \in [Postings -> Staff \cup {Nobody}] /\ \A q \in Postings \ {p} : decider'[q] = decider[q]
  <2>1. CASE Save(p)
    BY <2>1 DEF Inv, TypeOK, Save
  <2>2. CASE Cancel(p)
    BY <2>2 DEF Inv, TypeOK, Cancel, Staff
  <2>3. CASE \E s \in Approvers : Reject(p, s)
    BY <2>3 DEF Inv, TypeOK, Reject, Staff
  <2> QED
    BY <2>1, <2>2, <2>3
<1>4. TypeOK'
  BY <1>1, <1>2, <1>3 DEF Inv, TypeOK, books, form
<1>5. \A c \in Calls : server[p][c] = "idle" /\ (status[p] = "DRAFT" => call[p][c] = "idle")
  BY <1>2 DEF Inv, Good, Quiet, SecondPerson
<1>6. Quiet(p)'
  BY <1>1, <1>2 DEF Inv, TypeOK, Good, Quiet, books, form
<1>7. SecondPerson(p)'
  BY <1>1, <1>2, <1>5 DEF Inv, TypeOK, Good, SecondPerson, form
<1>8. TrueSuccess(p)' /\ TrueRefusal(p)'
  BY <1>1, <1>2, <1>5 DEF Inv, TypeOK, TrueSuccess, TrueRefusal, Approved
<1>9. ASSUME NEW q \in Postings, q # p
      PROVE  Undisturbed(q) /\ OwnersStay
  BY <1>1, <1>2, <1>3, <1>9 DEF Inv, TypeOK, Undisturbed, OwnersStay, books, form
<1> QED
  BY <1>4, <1>6, <1>7, <1>8, <1>9, OthersStayGood DEF Inv, Good

-----------------------------------------------------------------------------
(***************************************************************************)
(* The approval and its call.                                              *)
(***************************************************************************)
\* An approval that starts, a claim, won or lost, and a call that gives up keep
\* the invariant.
LEMMA ClaimKeepsInv ==
    ASSUME Inv, NEW p \in Postings, NEW c \in Calls,
           (\E s \in Approvers : Approve(p, c, s)) \/ Claim(p, c)
    PROVE  Inv'
<1>1. ASSUME NEW s \in Approvers, Approve(p, c, s)
      PROVE  Inv'
  <2>1. PICK phase \in {"claiming", "calling"} :
           /\ call' = [call EXCEPT ![p][c] = phase]
           /\ IF phase = "claiming" THEN status[p] = "PENDING" ELSE status[p] = "PROCESSING"
    BY <1>1 DEF Approve, Move
  <2>2. /\ s # maker[p]
        /\ actor' = [actor EXCEPT ![p][c] = s]
        /\ UNCHANGED <<balance, owner, moved, status, draft, maker, decider, server, faults>>
    BY <1>1 DEF Approve, books, form
  <2>3. TypeOK'
    BY <2>1, <2>2 DEF Inv, TypeOK, Phases
  <2>4. Quiet(p)'
    BY <2>1, <2>2 DEF Inv, TypeOK, Good, Quiet, Approved
  <2>5. SecondPerson(p)'
    BY <2>1, <2>2 DEF Inv, TypeOK, Good, SecondPerson
  <2>6. TrueSuccess(p)' /\ TrueRefusal(p)'
    BY <2>2 DEF Inv, Good, TrueSuccess, TrueRefusal, HasMoved, Lost
  <2>7. ASSUME NEW q \in Postings, q # p
        PROVE  Undisturbed(q) /\ OwnersStay
    BY <2>1, <2>2, <2>7 DEF Inv, TypeOK, Undisturbed, OwnersStay
  <2> QED
    BY <2>3, <2>4, <2>5, <2>6, <2>7, OthersStayGood DEF Inv, Good
<1>2. CASE Claim(p, c) /\ status[p] = "PENDING"
  <2>1. /\ call[p][c] = "claiming" /\ status[p] = "PENDING"
        /\ status' = [status EXCEPT ![p] = "PROCESSING"]
        /\ decider' = [decider EXCEPT ![p] = actor[p][c]]
        /\ call' = [call EXCEPT ![p][c] = "calling"]
        /\ UNCHANGED <<balance, owner, moved, draft, maker, actor, server, faults>>
    BY <1>2 DEF Claim, Move, books, form
  <2>2. actor[p][c] \in Approvers /\ actor[p][c] # maker[p]
    BY <2>1 DEF Inv, Good, SecondPerson
  <2>3. TypeOK'
    BY <2>1, <2>2 DEF Inv, TypeOK, Phases, Statuses, Staff
  <2>4. Quiet(p)'
    BY <2>1 DEF Inv, TypeOK, Good, Quiet, Approved
  <2>5. SecondPerson(p)'
    BY <2>1, <2>2 DEF Inv, TypeOK, Good, SecondPerson, Approved
  <2>6. TrueSuccess(p)' /\ TrueRefusal(p)'
    BY <2>1 DEF Inv, TypeOK, Good, TrueSuccess, TrueRefusal, HasMoved, Lost
  <2>7. ASSUME NEW q \in Postings, q # p
        PROVE  Undisturbed(q) /\ OwnersStay
    BY <2>1, <2>7 DEF Inv, TypeOK, Undisturbed, OwnersStay
  <2> QED
    BY <2>3, <2>4, <2>5, <2>6, <2>7, OthersStayGood DEF Inv, Good
<1>3. CASE Claim(p, c) /\ status[p] # "PENDING"
  <2>1. /\ call' = [call EXCEPT ![p][c] = "idle"]
        /\ UNCHANGED <<balance, owner, moved, status, draft, maker, decider, actor, server, faults>>
    BY <1>3 DEF Claim, Move, books, form
  <2>2. TypeOK'
    BY <2>1 DEF Inv, TypeOK, Phases
  <2>3. Good(p)'
    BY <2>1 DEF Inv, TypeOK, Good, Quiet, SecondPerson, TrueSuccess, TrueRefusal, HasMoved, Lost
  <2>4. ASSUME NEW q \in Postings, q # p
        PROVE  Undisturbed(q) /\ OwnersStay
    BY <2>1, <2>4 DEF Inv, TypeOK, Undisturbed, OwnersStay
  <2> QED
    BY <2>2, <2>3, <2>4, OthersStayGood DEF Inv
<1> QED
  BY <1>1, <1>2, <1>3

\* A request sent, an answer heard, a call given up or dead, an answer nobody
\* hears keep the invariant.
LEMMA CallKeepsInv ==
    ASSUME Inv, NEW p \in Postings, NEW c \in Calls,
           Send(p, c) \/ HearAnswer(p, c) \/ GiveUp(p, c) \/ CallDies(p, c)
    PROVE  Inv'
<1>1. CASE Send(p, c)
  <2>1. /\ call[p][c] = "calling"
        /\ call' = [call EXCEPT ![p][c] = "waiting"]
        /\ UNCHANGED <<balance, owner, moved, status, draft, maker, decider, actor, faults>>
    BY <1>1 DEF Send, Move, books, form
  <2>2. PICK run \in {"arrived", "refused"} :
           /\ server' = [server EXCEPT ![p][c] = run]
           /\ run = "refused" => Throttles
    BY <1>1 DEF Send
  <2>3. TypeOK'
    BY <2>1, <2>2 DEF Inv, TypeOK, Phases, Runs, Answers
  <2>4. status[p] \in Approved
    BY <2>1 DEF Inv, Good, Quiet
  <2>5. Quiet(p)' /\ SecondPerson(p)'
    BY <2>1, <2>4 DEF Inv, TypeOK, Good, Quiet, SecondPerson
  <2>6. TrueSuccess(p)'
    BY <2>1, <2>2 DEF Inv, TypeOK, Good, TrueSuccess, HasMoved
  <2>7. TrueRefusal(p)'
    BY <2>1, <2>2 DEF Inv, TypeOK, Good, TrueRefusal, Lost
  <2>8. ASSUME NEW q \in Postings, q # p
        PROVE  Undisturbed(q) /\ OwnersStay
    BY <2>1, <2>2, <2>8 DEF Inv, TypeOK, Undisturbed, OwnersStay
  <2> QED
    BY <2>3, <2>5, <2>6, <2>7, <2>8, OthersStayGood DEF Inv, Good
<1>2. CASE HearAnswer(p, c)
  <2> DEFINE new == IF server[p][c] = "ok" THEN "POSTED" ELSE "FAILED"
  <2>1. /\ server[p][c] \in Answers /\ call[p][c] = "waiting"
        /\ status' = [status EXCEPT ![p] = new]
        /\ call' = [call EXCEPT ![p][c] = "idle"]
        /\ server' = [server EXCEPT ![p][c] = "idle"]
        /\ UNCHANGED <<balance, owner, moved, draft, maker, decider, actor, faults>>
    BY <1>2 DEF HearAnswer, Move, books, form
  <2>2. TypeOK'
    BY <2>1 DEF Inv, TypeOK, Phases, Runs, Statuses
  <2>3. status[p] \in Approved
    BY <2>1 DEF Inv, Good, Quiet
  <2>4. Quiet(p)'
    BY <2>1, <2>3 DEF Inv, TypeOK, Good, Quiet, Approved
  <2>5. SecondPerson(p)'
    BY <2>1, <2>3 DEF Inv, TypeOK, Good, SecondPerson, Approved
  <2>6. TrueSuccess(p)'
    BY <2>1 DEF Inv, TypeOK, Good, TrueSuccess, HasMoved
  <2>7. TrueRefusal(p)'
    BY <2>1 DEF Inv, TypeOK, Good, TrueRefusal, Lost, Answers
  <2>8. ASSUME NEW q \in Postings, q # p
        PROVE  Undisturbed(q) /\ OwnersStay
    BY <2>1, <2>8 DEF Inv, TypeOK, Undisturbed, OwnersStay
  <2> QED
    BY <2>2, <2>4, <2>5, <2>6, <2>7, <2>8, OthersStayGood DEF Inv, Good
<1>3. CASE GiveUp(p, c) \/ CallDies(p, c)
  <2>1. /\ call' = [call EXCEPT ![p][c] = "idle"]
        /\ server' \in {server, [server EXCEPT ![p][c] = "idle"]}
        /\ faults' = [faults EXCEPT ![p] = @ + 1]
        /\ UNCHANGED <<balance, owner, moved, status, draft, maker, decider, actor>>
    BY <1>3 DEF GiveUp, CallDies, Move, Run, books, form
  <2>2. TypeOK'
    <3>1. server' \in [Postings -> [Calls -> Runs]]
      <4>1. [server EXCEPT ![p][c] = "idle"] \in [Postings -> [Calls -> Runs]]
        BY DEF Inv, TypeOK, Runs
      <4> QED
        BY <2>1, <4>1 DEF Inv, TypeOK
    <3>2. faults' \in [Postings -> Nat]
      BY <2>1 DEF Inv, TypeOK
    <3>3. call' \in [Postings -> [Calls -> Phases]]
      BY <2>1 DEF Inv, TypeOK, Phases
    <3> QED
      BY <2>1, <3>1, <3>2, <3>3 DEF Inv, TypeOK
  <2>3. Quiet(p)' /\ SecondPerson(p)'
    BY <2>1 DEF Inv, TypeOK, Good, Quiet, SecondPerson
  <2>4. TrueSuccess(p)'
    BY <2>1 DEF Inv, TypeOK, Good, TrueSuccess, HasMoved
  <2>5. TrueRefusal(p)'
    BY <2>1 DEF Inv, TypeOK, Good, TrueRefusal, Lost
  <2>6. ASSUME NEW q \in Postings, q # p
        PROVE  Undisturbed(q) /\ OwnersStay
    BY <2>1, <2>6 DEF Inv, TypeOK, Undisturbed, OwnersStay
  <2> QED
    BY <2>2, <2>3, <2>4, <2>5, <2>6, OthersStayGood DEF Inv, Good
<1> QED
  BY <1>1, <1>2, <1>3

-----------------------------------------------------------------------------
(***************************************************************************)
(* The payment service.                                                    *)
(***************************************************************************)
\* A handler that only answers.
LEMMA AnswerKeepsInv ==
    ASSUME Inv, NEW p \in Postings, NEW c \in Calls,
           \/ FindExisting(p, c) \/ PostReplayed(p, c) \/ PostRefused(p, c)
           \/ AssignLate(p, c) \/ AnswerUnheard(p, c)
    PROVE  Inv'
<1>1. /\ server[p][c] # "idle"
      /\ UNCHANGED <<balance, owner, moved, status, draft, maker, decider, call, actor, faults>>
  BY DEF FindExisting, PostReplayed, PostRefused, AssignLate, AnswerUnheard, Answers, books, form
<1>2. status[p] \in Approved /\ draft[p] \in Drafts
  BY <1>1 DEF Inv, Good, Quiet, Approved
<1>3. PICK run \in Runs :
         /\ server' = [server EXCEPT ![p][c] = run]
         /\ run = "applying" => draft[p].source = None
         /\ run = "ok" => HasMoved(p)
         /\ run = "refused" => Lost(p)
  <2>1. CASE FindExisting(p, c)
    <3>1. CASE moved[p]
      <4>1. draft[p].source = None /\ server' = [server EXCEPT ![p][c] = "ok"]
        BY <2>1, <3>1 DEF FindExisting, Run
      <4>2. HasMoved(p)
        BY <3>1, <4>1 DEF HasMoved
      <4> QED
        BY <4>1, <4>2 DEF Runs, Answers
    <3>2. CASE ~moved[p]
      <4>1. draft[p].source = None /\ server' = [server EXCEPT ![p][c] = "applying"]
        BY <2>1, <3>2 DEF FindExisting, Run
      <4>2. "applying" \in Runs
        BY DEF Runs
      <4> QED
        BY <4>1, <4>2
    <3> QED
      BY <3>1, <3>2
  <2>2. CASE PostReplayed(p, c)
    <3>1. server[p][c] = "applying" /\ moved[p] /\ server' = [server EXCEPT ![p][c] = "ok"]
      BY <2>2 DEF PostReplayed, Run
    <3>2. HasMoved(p)
      BY <3>1 DEF Inv, Good, TrueSuccess, HasMoved
    <3> QED
      BY <3>1, <3>2 DEF Runs, Answers
  <2>3. CASE PostRefused(p, c)
    BY <2>3 DEF PostRefused, Run, Runs, Answers, Covered, Lost
  <2>4. CASE AssignLate(p, c)
    <3>1. CASE owner[draft[p].source] = draft[p].wallet
      <4>1. draft[p].source # None /\ server' = [server EXCEPT ![p][c] = "ok"]
        BY <2>4, <3>1 DEF AssignLate, Run
      <4> QED
        BY <3>1, <4>1 DEF Runs, Answers, HasMoved
    <3>2. CASE owner[draft[p].source] # draft[p].wallet
      <4>1. /\ draft[p].source # None /\ owner[draft[p].source] # Free
            /\ server' = [server EXCEPT ![p][c] = "refused"]
        BY <2>4, <3>2 DEF AssignLate, Run
      <4> QED
        BY <3>2, <4>1 DEF Runs, Answers, Lost
    <3> QED
      BY <3>1, <3>2
  <2>5. CASE AnswerUnheard(p, c)
    BY <2>5 DEF AnswerUnheard, Run, Runs
  <2> QED
    BY <2>1, <2>2, <2>3, <2>4, <2>5
<1>4. TypeOK'
  BY <1>1, <1>3 DEF Inv, TypeOK
<1>5. Quiet(p)' /\ SecondPerson(p)'
  BY <1>1, <1>2, <1>3 DEF Inv, TypeOK, Good, Quiet, SecondPerson
<1>6. TrueSuccess(p)'
  BY <1>1, <1>3 DEF Inv, TypeOK, Good, TrueSuccess, HasMoved
<1>7. TrueRefusal(p)'
  BY <1>1, <1>3 DEF Inv, TypeOK, Good, TrueRefusal, Lost
<1>8. ASSUME NEW q \in Postings, q # p
      PROVE  Undisturbed(q) /\ OwnersStay
  BY <1>1, <1>3, <1>8 DEF Inv, TypeOK, Undisturbed, OwnersStay
<1> QED
  BY <1>4, <1>5, <1>6, <1>7, <1>8, OthersStayGood DEF Inv, Good

\* Moving the money of a posting keeps every balance a natural number: a debit
\* moves only what is covered.
LEMMA MovedType ==
    ASSUME TypeOK, NEW p \in Postings, draft[p] \in Drafts, Covered(p)
    PROVE  Moved(p) \in [Wallets -> Nat]
<1> DEFINE w == draft[p].wallet
<1>1. w \in Wallets /\ draft[p].amount \in Nat /\ draft[p].type \in {"CREDIT", "DEBIT"}
  OBVIOUS
<1>2. balance[w] \in Nat
  BY <1>1 DEF TypeOK
<1>3. CASE draft[p].type = "CREDIT"
  <2>1. Moved(p) = [balance EXCEPT ![w] = balance[w] + draft[p].amount]
    BY <1>3 DEF Moved
  <2> QED
    BY <1>1, <1>2, <2>1 DEF TypeOK
<1>4. CASE draft[p].type = "DEBIT"
  <2>1. Moved(p) = [balance EXCEPT ![w] = balance[w] - draft[p].amount]
    BY <1>4 DEF Moved
  <2>2. balance[w] - draft[p].amount \in Nat
    BY <1>1, <1>2, <1>4 DEF Covered
  <2> QED
    BY <1>1, <2>1, <2>2 DEF TypeOK
<1> QED
  BY <1>1, <1>3, <1>4

\* The money of a posting moves.
LEMMA PostKeepsInv ==
    ASSUME Inv, NEW p \in Postings, NEW c \in Calls, Post(p, c)
    PROVE  Inv'
<1>1. /\ server[p][c] = "applying"
      /\ moved' = [moved EXCEPT ![p] = TRUE]
      /\ server' = [server EXCEPT ![p][c] = "ok"]
      /\ balance' = Moved(p)
      /\ UNCHANGED <<owner, status, draft, maker, decider, call, actor, faults>>
  BY DEF Post, Run, form
<1>2. status[p] \in Approved /\ draft[p] \in Drafts
  BY <1>1 DEF Inv, Good, Quiet, Approved
<1>3. draft[p].source = None
  BY <1>1 DEF Inv, Good, TrueSuccess
<1>4. moved' \in [Postings -> BOOLEAN]
  BY <1>1 DEF Inv, TypeOK
<1>5. TypeOK'
  BY <1>1, <1>2, <1>4, MovedType DEF Inv, TypeOK, Post, Runs, Answers
<1>6. moved'[p]
  BY <1>1 DEF Inv, TypeOK
<1>7. HasMoved(p)'
  BY <1>1, <1>3, <1>6 DEF HasMoved
<1>8. Quiet(p)' /\ SecondPerson(p)'
  BY <1>1, <1>2 DEF Inv, TypeOK, Good, Quiet, SecondPerson
<1>9. TrueSuccess(p)'
  BY <1>1, <1>3, <1>7 DEF Inv, TypeOK, TrueSuccess
<1>10. TrueRefusal(p)'
  BY <1>1 DEF Inv, TypeOK, Good, TrueRefusal, Lost
<1>11. ASSUME NEW q \in Postings, q # p
       PROVE  Undisturbed(q) /\ OwnersStay
  BY <1>1, <1>11 DEF Inv, TypeOK, Undisturbed, OwnersStay
<1> QED
  BY <1>5, <1>8, <1>9, <1>10, <1>11, OthersStayGood DEF Inv, Good

\* An unmatched deposit is assigned.
LEMMA AssignKeepsInv ==
    ASSUME Inv, NEW p \in Postings, NEW c \in Calls, Assign(p, c)
    PROVE  Inv'
<1> DEFINE d == draft[p].source
           w == draft[p].wallet
<1>1. /\ server[p][c] = "arrived" /\ d # None /\ owner[d] = Free
      /\ balance' = [balance EXCEPT ![w] = @ + Worth[d]]
      /\ owner' = [owner EXCEPT ![d] = w]
      /\ server' = [server EXCEPT ![p][c] = "ok"]
      /\ UNCHANGED <<moved, status, draft, maker, decider, call, actor, faults>>
  BY DEF Assign, Run, form
<1>2. status[p] \in Approved /\ draft[p] \in Drafts
  BY <1>1 DEF Inv, Good, Quiet, Approved
<1>3. d \in Deposits /\ w \in Wallets /\ Worth[d] \in Nat
  BY <1>1, <1>2
<1>4. balance' \in [Wallets -> Nat]
  BY <1>1, <1>3 DEF Inv, TypeOK
<1>5. TypeOK'
  BY <1>1, <1>3, <1>4 DEF Inv, TypeOK, Runs, Answers
<1>6. OwnersStay
  BY <1>1 DEF Inv, TypeOK, OwnersStay
<1>7. HasMoved(p)'
  BY <1>1, <1>3 DEF Inv, TypeOK, HasMoved
<1>8. Quiet(p)' /\ SecondPerson(p)'
  BY <1>1, <1>2 DEF Inv, TypeOK, Good, Quiet, SecondPerson
<1>9. TrueSuccess(p)'
  BY <1>1, <1>7 DEF Inv, TypeOK, Good, TrueSuccess
<1>10. Lost(p) => Lost(p)'
  BY <1>1, <1>2, <1>6, LostStays
<1>11. TrueRefusal(p)'
  BY <1>1, <1>10 DEF Inv, TypeOK, Good, TrueRefusal
<1>12. ASSUME NEW q \in Postings, q # p
       PROVE  Undisturbed(q)
  BY <1>1, <1>12 DEF Inv, TypeOK, Undisturbed
<1> QED
  BY <1>5, <1>6, <1>8, <1>9, <1>11, <1>12, OthersStayGood DEF Inv, Good

-----------------------------------------------------------------------------
(***************************************************************************)
(* The invariant and what follows from it.                                 *)
(***************************************************************************)
\* Inv is inductive.
LEMMA NextKeepsInv ==
    ASSUME Inv, [Next]_vars
    PROVE  Inv'
<1>1. CASE UNCHANGED vars
  BY <1>1 DEF Inv, TypeOK, Good, Quiet, SecondPerson, TrueSuccess, TrueRefusal,
     HasMoved, Lost, vars, books, form
<1>2. CASE Next
  BY <1>2, RequestKeepsInv, DecisionKeepsInv, ClaimKeepsInv, CallKeepsInv,
     AnswerKeepsInv, PostKeepsInv, AssignKeepsInv DEF Next, Serve
<1> QED
  BY <1>1, <1>2

\* The initial state satisfies it.
LEMMA InitInv == Init => Inv
  BY DEF Init, Inv, TypeOK, Good, Quiet, SecondPerson, TrueSuccess, TrueRefusal,
     Statuses, Phases, Runs, Approved, NoDraft

LEMMA AlwaysInv == Spec => []Inv
  BY InitInv, NextKeepsInv, PTL DEF Spec

\* Every state is well typed, and no balance is ever negative.
THEOREM PostingsTypeCorrect == Spec => []TypeOK
<1>1. Inv => TypeOK
  BY DEF Inv
<1> QED
  BY <1>1, AlwaysInv, PTL

\* No posting's money moves, and no call is made for it, unless somebody other
\* than its maker has claimed it.
THEOREM PostingsFourEyes == Spec => []FourEyes
<1>1. Inv => FourEyes
  BY DEF Inv, Good, Quiet, SecondPerson, FourEyes, Approved
<1> QED
  BY <1>1, AlwaysInv, PTL

\* A posting is POSTED only if its money moved, and a second person sent it.
THEOREM PostedIsTrue == Spec => []PostedHasMoved
<1>1. Inv /\ FourEyes => PostedHasMoved
  BY DEF Inv, Good, TrueSuccess, PostedHasMoved
<1> QED
  BY <1>1, AlwaysInv, PostingsFourEyes, PTL

\* Without a rate limit, a credit that FAILED moved nothing.
THEOREM FailedCreditIsTrue ==
    ASSUME ~Throttles
    PROVE  Spec => []FailedCreditMovedNothing
<1>1. Inv => FailedCreditMovedNothing
  BY DEF Inv, Good, TrueRefusal, Lost, HasMoved, FailedCreditMovedNothing
<1> QED
  BY <1>1, AlwaysInv, PTL

-----------------------------------------------------------------------------
(***************************************************************************)
(* The wallet ledger.                                                      *)
(***************************************************************************)
\* A step that moves nothing writes no entry; a request may still change before
\* its posting moves.
LEMMA NothingMoves ==
    ASSUME Inv, balance' = balance, owner' = owner, moved' = moved,
           \A q \in Postings : moved[q] => draft'[q] = draft[q]
    PROVE  UNCHANGED <<balance, Entry>>
<1>1. ASSUME NEW e \in Postings \cup Deposits
      PROVE  Entry'[e] = Entry[e]
  <2>1. CASE e \in Postings
    <3>1. CASE moved[e]
      BY <2>1, <3>1 DEF Entry
    <3>2. CASE ~moved[e]
      BY <2>1, <3>2 DEF Entry
    <3> QED
      BY <3>1, <3>2
  <2>2. CASE e \notin Postings
    BY <2>2 DEF Entry
  <2> QED
    BY <2>1, <2>2
<1> QED
  BY <1>1 DEF Entry

\* Posting is the one movement of its entry.
LEMMA PostBooks ==
    ASSUME Inv, NEW p \in Postings, NEW c \in Calls, Post(p, c)
    PROVE  Books!Next
<1> DEFINE w == draft[p].wallet
           total == draft[p].amount
           kind == draft[p].type
<1>1. /\ ~moved[p] /\ Covered(p) /\ server[p][c] = "applying"
      /\ balance' = Moved(p)
      /\ moved' = [moved EXCEPT ![p] = TRUE]
      /\ owner' = owner /\ draft' = draft
  BY DEF Post, form
<1>2. draft[p] \in Drafts
  BY <1>1 DEF Inv, Good, Quiet, Approved
<1>3. w \in Wallets /\ kind \in {"CREDIT", "DEBIT"} /\ total \in {r.amount : r \in Drafts}
  BY <1>2
<1>4. Entry[p] = [kind |-> "NONE"]
  BY <1>1 DEF Entry
<1>5. \A q \in Postings : moved'[q] = IF q = p THEN TRUE ELSE moved[q]
  BY <1>1 DEF Inv, TypeOK
<1>6. Entry' = [Entry EXCEPT ![p] = [kind |-> kind, wallet |-> w, total |-> total]]
  <2>1. ASSUME NEW e \in Postings \cup Deposits
        PROVE  Entry'[e] = [Entry EXCEPT ![p] = [kind |-> kind, wallet |-> w, total |-> total]][e]
    <3>1. CASE e = p
      BY <1>1, <1>5, <3>1 DEF Entry
    <3>2. CASE e # p
      BY <1>1, <1>5, <3>2 DEF Entry
    <3> QED
      BY <3>1, <3>2
  <2> QED
    BY <2>1 DEF Entry
<1>7. CASE kind = "CREDIT"
  <2>1. balance' = [balance EXCEPT ![w] = @ + total]
    BY <1>1, <1>7 DEF Moved
  <2>2. Books!Credit(p, w, total)
    BY <1>4, <1>6, <1>7, <2>1 DEF Books!Credit, Books!Written, Books!None
  <2> QED
    BY <1>3, <2>2 DEF Books!Next
<1>8. CASE kind = "DEBIT"
  <2>1. balance' = [balance EXCEPT ![w] = @ - total] /\ balance[w] >= total
    BY <1>1, <1>8 DEF Moved, Covered
  <2>2. Books!Debit(p, w, total)
    BY <1>4, <1>6, <1>8, <2>1 DEF Books!Debit, Books!Written, Books!None
  <2> QED
    BY <1>3, <2>2 DEF Books!Next
<1> QED
  BY <1>3, <1>7, <1>8

\* Assigning is the one movement of a deposit.
LEMMA AssignBooks ==
    ASSUME Inv, NEW p \in Postings, NEW c \in Calls, Assign(p, c)
    PROVE  Books!Next
<1> DEFINE d == draft[p].source
           w == draft[p].wallet
<1>1. /\ server[p][c] = "arrived" /\ d # None /\ owner[d] = Free
      /\ balance' = [balance EXCEPT ![w] = @ + Worth[d]]
      /\ owner' = [owner EXCEPT ![d] = w]
      /\ moved' = moved /\ draft' = draft
  BY DEF Assign, form
<1>2. draft[p] \in Drafts
  BY <1>1 DEF Inv, Good, Quiet, Approved
<1>3. d \in Deposits /\ d \notin Postings /\ w \in Wallets /\ w # Free
  BY <1>1, <1>2
<1>4. Entry[d] = [kind |-> "NONE"]
  BY <1>1, <1>3 DEF Entry
<1>5. \A e \in Deposits : owner'[e] = IF e = d THEN w ELSE owner[e]
  BY <1>1 DEF Inv, TypeOK
<1>6. Entry' = [Entry EXCEPT ![d] = [kind |-> "CREDIT", wallet |-> w, total |-> Worth[d]]]
  <2>1. ASSUME NEW e \in Postings \cup Deposits
        PROVE  Entry'[e] = [Entry EXCEPT ![d] = [kind |-> "CREDIT", wallet |-> w, total |-> Worth[d]]][e]
    <3>1. CASE e = d
      BY <1>1, <1>3, <1>5, <3>1 DEF Entry
    <3>2. CASE e # d
      BY <1>1, <1>3, <1>5, <3>2 DEF Entry
    <3> QED
      BY <3>1, <3>2
  <2> QED
    BY <2>1 DEF Entry
<1>7. Books!Credit(d, w, Worth[d])
  BY <1>1, <1>4, <1>6 DEF Books!Credit, Books!Written, Books!None
<1> QED
  BY <1>3, <1>7 DEF Books!Next

\* Every other step is quiet.
LEMMA NextBooks ==
    ASSUME Inv, [Next]_vars
    PROVE  [Books!Next]_<<balance, Entry>>
<1>1. ASSUME NEW p \in Postings, NEW s \in Makers, NEW r \in Drafts, Request(p, s, r)
      PROVE  UNCHANGED <<balance, Entry>>
  <2>1. ~moved[p]
    BY <1>1 DEF Inv, Good, Quiet, Request, Approved
  <2>2. \A q \in Postings : moved[q] => draft'[q] = draft[q]
    BY <1>1, <2>1 DEF Inv, TypeOK, Request
  <2> QED
    BY <1>1, <2>2, NothingMoves DEF Request, books
<1>2. ASSUME NEW p \in Postings, NEW c \in Calls, Post(p, c) \/ Assign(p, c)
      PROVE  Books!Next
  BY <1>2, PostBooks, AssignBooks
<1>3. ASSUME UNCHANGED <<balance, owner, moved, draft>>
      PROVE  UNCHANGED <<balance, Entry>>
  BY <1>3, NothingMoves
<1>4. ASSUME NEW p \in Postings, Save(p) \/ Cancel(p) \/ \E s \in Approvers : Reject(p, s)
      PROVE  UNCHANGED <<balance, owner, moved, draft>>
  BY <1>4 DEF Save, Cancel, Reject, books, form
<1>5. ASSUME NEW p \in Postings, NEW c \in Calls,
             \/ \E s \in Approvers : Approve(p, c, s)
             \/ Claim(p, c) \/ Send(p, c) \/ HearAnswer(p, c) \/ GiveUp(p, c)
             \/ FindExisting(p, c) \/ PostReplayed(p, c) \/ PostRefused(p, c)
             \/ AssignLate(p, c) \/ AnswerUnheard(p, c) \/ CallDies(p, c)
      PROVE  UNCHANGED <<balance, owner, moved, draft>>
  BY <1>5 DEF Approve, Claim, Send, HearAnswer, GiveUp, FindExisting, PostReplayed,
     PostRefused, AssignLate, AnswerUnheard, CallDies, books, form
<1>6. UNCHANGED vars => UNCHANGED <<balance, owner, moved, draft>>
  BY DEF vars, books, form
<1> QED
  BY <1>1, <1>2, <1>3, <1>4, <1>5, <1>6 DEF Next, Serve

\* For every number of postings, approvals, faults and rate limits: the postings
\* implement the wallet ledger.
THEOREM PostingsKeepTheBooks == Spec => KeepsTheBooks
<1>1. Init => Books!Init
  BY DEF Init, Books!Init, Books!None, Entry
<1> QED
  BY <1>1, AlwaysInv, NextBooks, PTL DEF Spec, KeepsTheBooks, Books!Spec
=============================================================================
