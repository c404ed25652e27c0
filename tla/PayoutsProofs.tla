---------------------------- MODULE PayoutsProofs ---------------------------
(***************************************************************************)
(* Proofs about Payouts, for every set of wallets, payouts and desks and   *)
(* every bound.                                                            *)
(***************************************************************************)
EXTENDS Payouts, FiniteSetTheorems, TLAPS

-----------------------------------------------------------------------------
(***************************************************************************)
(* Sums.  SumFunctionOnSet is a recursive function on subsets; what it     *)
(* returns is proved by looking at a smallest subset on which the claim    *)
(* would fail.                                                             *)
(***************************************************************************)

\* A collection of subsets of a finite set has a smallest member.
LEMMA LeastSubset ==
    ASSUME NEW S, IsFiniteSet(S), NEW B, B \subseteq SUBSET S, B # {}
    PROVE  \E T \in B : \A U \in B : U \subseteq T => U = T
<1>1. IsWellFoundedOn(StrictSubsetOrdering(S), SUBSET S)
  BY FS_StrictSubsetOrderingWellFounded, FS_FiniteSubsetsOfFinite
<1>2. \E T \in B : \A U \in B : ~ (<<U, T>> \in StrictSubsetOrdering(S))
  BY <1>1, WFMin
<1>3. ASSUME NEW T \in B, NEW U \in B, U \subseteq T, U # T
      PROVE  <<U, T>> \in StrictSubsetOrdering(S)
  BY <1>3 DEF StrictSubsetOrdering
<1> QED
  BY <1>2, <1>3

Pick(s) == CHOOSE x \in s : TRUE

\* g is the recursive function behind SumFunctionOnSet(f, S).
Sums(f, S, g) ==
    g = [s \in SUBSET S |-> IF s = {} THEN 0 ELSE f[Pick(s)] + g[s \ {Pick(s)}]]

\* ... which it is at every subset.
LEMMA SumsAt ==
    ASSUME NEW f, NEW S, NEW g, Sums(f, S, g), NEW s \in SUBSET S
    PROVE  g[s] = IF s = {} THEN 0 ELSE f[Pick(s)] + g[s \ {Pick(s)}]
  BY DEF Sums

\* The partial sums of a set agree with those of its subsets.
LEMMA SumsAgree ==
    ASSUME NEW f, NEW S, IsFiniteSet(S), NEW R \in SUBSET S,
           NEW g, NEW h, Sums(f, S, g), Sums(f, R, h)
    PROVE  g[R] = h[R]
<1> DEFINE B == {T \in SUBSET R : g[T] # h[T]}
<1>1. SUFFICES ASSUME B # {}
               PROVE  FALSE
  OBVIOUS
<1>2. PICK T \in B : \A U \in B : U \subseteq T => U = T
  <2>1. IsFiniteSet(R) /\ B \subseteq SUBSET R
    BY FS_Subset
  <2> HIDE DEF B
  <2> QED
    BY <1>1, <2>1, LeastSubset
<1>3. T \in SUBSET R /\ T \in SUBSET S
  OBVIOUS
<1>4. /\ g[T] = IF T = {} THEN 0 ELSE f[Pick(T)] + g[T \ {Pick(T)}]
      /\ h[T] = IF T = {} THEN 0 ELSE f[Pick(T)] + h[T \ {Pick(T)}]
  BY <1>3 DEF Sums
<1>5. T # {}
  BY <1>4
<1>6. Pick(T) \in T
  BY <1>5 DEF Pick
<1>7. g[T \ {Pick(T)}] = h[T \ {Pick(T)}]
  BY <1>2, <1>6
<1> QED
  BY <1>4, <1>5, <1>7

\* There are such partial sums.
LEMMA SumsExist ==
    ASSUME NEW f, NEW S, IsFiniteSet(S)
    PROVE  \E g : Sums(f, S, g)
<1> DEFINE B == {T \in SUBSET S : ~ \E g : Sums(f, T, g)}
<1>1. SUFFICES ASSUME B # {}
               PROVE  FALSE
  OBVIOUS
<1>2. PICK T \in B : \A U \in B : U \subseteq T => U = T
  <2>1. B \subseteq SUBSET S
    OBVIOUS
  <2> HIDE DEF B
  <2> QED
    BY <1>1, <2>1, LeastSubset
<1> DEFINE G(U) == CHOOSE g : Sums(f, U, g)
           rest(s) == s \ {Pick(s)}
           g == [s \in SUBSET T |-> IF s = {} THEN 0 ELSE f[Pick(s)] + G(rest(s))[rest(s)]]
<1>3. ASSUME NEW U \in SUBSET T, U # T
      PROVE  Sums(f, U, G(U)) /\ IsFiniteSet(U)
  <2>1. \E k : Sums(f, U, k)
    BY <1>2, <1>3
  <2>2. U \in SUBSET S
    OBVIOUS
  <2> QED
    BY <2>1, <2>2, FS_Subset
<1>4. ASSUME NEW s \in SUBSET T, s # {}
      PROVE  /\ Pick(s) \in s
             /\ rest(s) \in SUBSET T /\ rest(s) # T
  BY <1>4 DEF Pick
<1>5. ASSUME NEW U \in SUBSET T, U # T
      PROVE  g[U] = G(U)[U]
  <2>1. G(U)[U] = IF U = {} THEN 0 ELSE f[Pick(U)] + G(U)[rest(U)]
    BY <1>3, <1>5, SumsAt
  <2>2. CASE U = {}
    BY <2>1, <2>2
  <2>3. CASE U # {}
    <3>1. rest(U) \in SUBSET U /\ rest(U) \in SUBSET T /\ rest(U) # T
      BY <1>4, <2>3
    <3>2. Sums(f, U, G(U)) /\ Sums(f, rest(U), G(rest(U))) /\ IsFiniteSet(U)
      BY <1>3, <1>5, <3>1
    <3>3. G(U)[rest(U)] = G(rest(U))[rest(U)]
      BY <3>1, <3>2, SumsAgree
    <3> QED
      BY <2>1, <2>3, <3>3
  <2> QED
    BY <2>2, <2>3
<1>6. ASSUME NEW s \in SUBSET T
      PROVE  g[s] = IF s = {} THEN 0 ELSE f[Pick(s)] + g[rest(s)]
  <2>1. CASE s = {}
    BY <2>1
  <2>2. CASE s # {}
    <3>1. g[rest(s)] = G(rest(s))[rest(s)]
      BY <1>4, <1>5, <2>2
    <3> QED
      BY <2>2, <3>1
  <2> QED
    BY <2>1, <2>2
<1>7. g = [s \in SUBSET T |-> g[s]]
  OBVIOUS
<1> HIDE DEF g
<1>8. Sums(f, T, g)
  BY <1>6, <1>7, Zenon DEF Sums
<1> QED
  BY <1>2, <1>8

\* What SumFunctionOnSet returns: nothing for nothing, and the chosen element's
\* value on top of the sum of the rest.
LEMMA SumUnfolds ==
    ASSUME NEW f, NEW S, IsFiniteSet(S)
    PROVE  SumFunctionOnSet(f, S) =
             IF S = {} THEN 0 ELSE f[Pick(S)] + SumFunctionOnSet(f, S \ {Pick(S)})
<1> DEFINE G(U) == CHOOSE g : Sums(f, U, g)
<1>1. ASSUME NEW U
      PROVE  SumFunctionOnSet(f, U) = G(U)[U]
  BY Zenon DEF SumFunctionOnSet, FoldFunctionOnSet, MapThenFoldSet, Sums, Pick
<1>2. Sums(f, S, G(S))
  BY SumsExist
<1>3. G(S)[S] = IF S = {} THEN 0 ELSE f[Pick(S)] + G(S)[S \ {Pick(S)}]
  BY <1>2 DEF Sums
<1>4. CASE S # {}
  <2>1. S \ {Pick(S)} \in SUBSET S /\ IsFiniteSet(S \ {Pick(S)})
    BY FS_RemoveElement
  <2>2. Sums(f, S \ {Pick(S)}, G(S \ {Pick(S)}))
    BY <2>1, SumsExist
  <2>3. G(S)[S \ {Pick(S)}] = G(S \ {Pick(S)})[S \ {Pick(S)}]
    BY <1>2, <2>1, <2>2, SumsAgree
  <2> QED
    BY <1>1, <1>3, <1>4, <2>3
<1>5. CASE S = {}
  BY <1>1, <1>3, <1>5
<1> QED
  BY <1>4, <1>5

\* The order does not matter: any element may be split off.
LEMMA SumSplits ==
    ASSUME NEW f, NEW S, IsFiniteSet(S), \A x \in S : f[x] \in Nat
    PROVE  /\ SumFunctionOnSet(f, S) \in Nat
           /\ \A x \in S : SumFunctionOnSet(f, S) = f[x] + SumFunctionOnSet(f, S \ {x})
<1> DEFINE Sum(T) == SumFunctionOnSet(f, T)
           Good(T) == Sum(T) \in Nat /\ \A x \in T : Sum(T) = f[x] + Sum(T \ {x})
           B == {T \in SUBSET S : ~Good(T)}
<1>1. SUFFICES ASSUME B # {}
               PROVE  FALSE
  OBVIOUS
<1>2. PICK T \in B : \A U \in B : U \subseteq T => U = T
  <2>1. B \subseteq SUBSET S
    OBVIOUS
  <2> HIDE DEF B
  <2> QED
    BY <1>1, <2>1, LeastSubset
<1>3. IsFiniteSet(T)
  BY FS_Subset
<1> DEFINE c == Pick(T)
<1>4. Sum(T) = IF T = {} THEN 0 ELSE f[c] + Sum(T \ {c})
  BY <1>3, SumUnfolds
<1>5. T # {}
  BY <1>4
<1>6. c \in T /\ c \in S
  BY <1>5 DEF Pick
<1>7. ASSUME NEW U \in SUBSET T, U # T
      PROVE  Good(U)
  BY <1>2, <1>7
<1> HIDE DEF Sum, c
<1>8. /\ Sum(T \ {c}) \in Nat
      /\ Sum(T) = f[c] + Sum(T \ {c})
      /\ f[c] \in Nat
      /\ Sum(T) \in Nat
  BY <1>4, <1>5, <1>6, <1>7
<1>9. ASSUME NEW x \in T, x # c
      PROVE  Sum(T) = f[x] + Sum(T \ {x})
  <2> DEFINE R == (T \ {c}) \ {x}
  <2>1. R = (T \ {x}) \ {c}
    OBVIOUS
  <2>2. Sum(T \ {c}) = f[x] + Sum(R)
    BY <1>6, <1>7, <1>9
  <2>3. Sum(T \ {x}) = f[c] + Sum(R)
    BY <1>6, <1>7, <1>9, <2>1
  <2>4. Sum(R) \in Nat /\ f[x] \in Nat
    BY <1>6, <1>7
  <2> HIDE DEF R
  <2> QED
    BY <1>8, <2>2, <2>3, <2>4
<1> QED
  BY <1>8, <1>9

\* A part of a set sums up to no more than the set.
LEMMA SumMonotone ==
    ASSUME NEW f, NEW S, IsFiniteSet(S), \A x \in S : f[x] \in Nat, NEW R \in SUBSET S
    PROVE  SumFunctionOnSet(f, R) <= SumFunctionOnSet(f, S)
<1> DEFINE Sum(T) == SumFunctionOnSet(f, T)
           B == {T \in SUBSET S : R \subseteq T /\ ~(Sum(R) <= Sum(T))}
<1>1. SUFFICES ASSUME B # {}
               PROVE  FALSE
  OBVIOUS
<1>2. PICK T \in B : \A U \in B : U \subseteq T => U = T
  <2>1. B \subseteq SUBSET S
    OBVIOUS
  <2> HIDE DEF B
  <2> QED
    BY <1>1, <2>1, LeastSubset
<1>3. ASSUME NEW U \in SUBSET S
      PROVE  Sum(U) \in Nat /\ \A x \in U : Sum(U) = f[x] + Sum(U \ {x})
  BY <1>3, FS_Subset, SumSplits
<1> HIDE DEF Sum
<1>4. PICK x \in T : x \notin R
  BY <1>3
<1>5. Sum(R) <= Sum(T \ {x})
  BY <1>2, <1>4
<1>6. f[x] \in Nat /\ Sum(T \ {x}) \in Nat /\ Sum(R) \in Nat /\ Sum(T) = f[x] + Sum(T \ {x})
  BY <1>3
<1> QED
  BY <1>5, <1>6

\* A sum depends only on what it adds up.
LEMMA SumAgrees ==
    ASSUME NEW S, IsFiniteSet(S), NEW f, NEW h, \A x \in S : f[x] \in Nat /\ f[x] = h[x]
    PROVE  SumFunctionOnSet(f, S) = SumFunctionOnSet(h, S)
<1> DEFINE B == {T \in SUBSET S : SumFunctionOnSet(f, T) # SumFunctionOnSet(h, T)}
<1>1. SUFFICES ASSUME B # {}
               PROVE  FALSE
  OBVIOUS
<1>2. PICK T \in B : \A U \in B : U \subseteq T => U = T
  <2>1. B \subseteq SUBSET S
    OBVIOUS
  <2> HIDE DEF B
  <2> QED
    BY <1>1, <2>1, LeastSubset
<1>3. IsFiniteSet(T) /\ T \in SUBSET S
  BY FS_Subset
<1>4. /\ SumFunctionOnSet(f, T) =
           IF T = {} THEN 0 ELSE f[Pick(T)] + SumFunctionOnSet(f, T \ {Pick(T)})
      /\ SumFunctionOnSet(h, T) =
           IF T = {} THEN 0 ELSE h[Pick(T)] + SumFunctionOnSet(h, T \ {Pick(T)})
  BY <1>3, SumUnfolds
<1>5. T # {}
  BY <1>4
<1>6. Pick(T) \in T
  BY <1>5 DEF Pick
<1>7. SumFunctionOnSet(f, T \ {Pick(T)}) = SumFunctionOnSet(h, T \ {Pick(T)})
  BY <1>2, <1>3, <1>6
<1> QED
  BY <1>3, <1>4, <1>5, <1>6, <1>7

USE PayoutsAssumption

-----------------------------------------------------------------------------
(***************************************************************************)
(* The pure operators.                                                     *)
(***************************************************************************)

\* Every charge is a natural number.
LEMMA ChargesNat ==
    ASSUME NEW amount \in Nat, NEW free \in BOOLEAN
    PROVE  Charges(amount, free) \in Nat
<1>1. CalculateTransferFee(amount) \in {10 * Naira, 25 * Naira, 50 * Naira}
  BY DEF CalculateTransferFee, Naira
<1>2. \A f \in {10 * Naira, 25 * Naira, 50 * Naira} : WithVat(f) \in Nat
  BY DEF WithVat, ToKobo, Naira, Kobo
<1>3. StampDuty(amount) \in Nat
  BY DEF StampDuty, Naira
<1> QED
  BY <1>1, <1>2, <1>3 DEF Charges

\* A definite answer of /transfer is true of the transfer.
LEMMA TransferAnswersSound ==
    ASSUME NEW f \in Fates, NEW o \in Answers(TransferRows, f)
    PROVE  /\ o \in Outcomes
           /\ o = "SUCCESSFUL" => f = "paid"
           /\ o = "FAILED" => f = "refused"
  BY DEF Answers, Consistent, TransferRows, Row, ResolveVfdOutcome, Outcomes

\* ... and so is a definite answer of a status query, 108 included.
LEMMA QueryAnswersSound ==
    ASSUME NEW p \in Payouts, vfd[p] \in Fates, NEW o \in QueryAnswers(p)
    PROVE  /\ o \in Outcomes
           /\ o = "SUCCESSFUL" => vfd[p] = "paid"
           /\ o = "FAILED" => vfd[p] = "refused" \/ NoTransaction(p)
<1>1. ASSUME NEW r \in Answers(StatusRows, vfd[p])
      PROVE  /\ r \in Outcomes
             /\ r = "SUCCESSFUL" => vfd[p] = "paid"
             /\ r = "FAILED" => vfd[p] = "refused"
  BY <1>1 DEF Answers, Consistent, StatusRows, Row, ResolveVfdOutcome, Outcomes
<1> QED
  BY <1>1 DEF QueryAnswers, Outcomes

-----------------------------------------------------------------------------
(***************************************************************************)
(* Type correctness.                                                       *)
(***************************************************************************)

\* A run that ends leaves the actors well typed.
LEMMA LeaveType ==
    ASSUME TypeOK, NEW p \in Payouts, NEW a \in Actors, Leave(p, a)
    PROVE  pc' \in [Payouts -> [Actors -> Phases]]
  BY DEF TypeOK, Leave, Phases

\* A run that returns leaves the actors and the queue well typed.
LEMMA ReturnType ==
    ASSUME TypeOK, NEW p \in Payouts, NEW a \in Actors, Return(p, a)
    PROVE  /\ pc' \in [Payouts -> [Actors -> Phases]]
           /\ job' \in [Payouts -> Jobs]
           /\ tries' \in [Payouts -> Nat] /\ stalls' \in [Payouts -> Nat]
  BY LeaveType DEF TypeOK, Return, Jobs

\* ... and so does one that throws, retried or escalated.
LEMMA ThrowType ==
    ASSUME TypeOK, NEW p \in Payouts, NEW a \in Actors, Throw(p, a)
    PROVE  /\ pc' \in [Payouts -> [Actors -> Phases]]
           /\ job' \in [Payouts -> Jobs]
           /\ tries' \in [Payouts -> Nat] /\ stalls' \in [Payouts -> Nat]
           /\ alerted' \in [Payouts -> BOOLEAN]
<1>1. pc' \in [Payouts -> [Actors -> Phases]]
  BY LeaveType DEF Throw
<1>2. CASE a = "worker"
  <2>1. FailAttempt(p)
    BY <1>2 DEF Throw
  <2>2. CASE tries[p] + 1 < Attempts
    <3>1. /\ job' = [job EXCEPT ![p] = "waiting"]
          /\ alerted' = alerted
          /\ tries' = [tries EXCEPT ![p] = @ + 1]
          /\ stalls' = stalls
      BY <2>1, <2>2 DEF FailAttempt
    <3> QED
      BY <1>1, <3>1 DEF TypeOK, Jobs
  <2>3. CASE ~(tries[p] + 1 < Attempts)
    <3>1. /\ job' = [job EXCEPT ![p] = "exhausted"]
          /\ alerted' = [alerted EXCEPT ![p] = TRUE]
          /\ tries' = [tries EXCEPT ![p] = @ + 1]
          /\ stalls' = stalls
      BY <2>1, <2>3 DEF FailAttempt
    <3>2. alerted' \in [Payouts -> BOOLEAN]
      BY <3>1 DEF TypeOK
    <3> QED
      BY <1>1, <3>1, <3>2 DEF TypeOK, Jobs
  <2> QED
    BY <2>2, <2>3
<1>3. CASE a # "worker"
  BY <1>1, <1>3 DEF TypeOK, Throw, queue
<1> QED
  BY <1>2, <1>3

\* The debit never takes more than the wallet holds (initiatePayout).
LEMMA DebitType ==
    ASSUME TypeOK, NEW p \in Payouts, InitiatePayout(p)
    PROVE  TypeOK'
<1> DEFINE w == WalletOf[p]
           total == Charges(Amount[p], HasFreeSlot(w))
<1>1. HasFreeSlot(w) \in BOOLEAN
  BY DEF HasFreeSlot
<1>2. total \in Nat
  BY <1>1, ChargesNat
<1>3. balance[w] - (Amount[p] + total) \in Nat
  BY <1>2 DEF TypeOK, InitiatePayout, Covers
<1>4. balance' \in [Wallets -> Nat]
  BY <1>3 DEF TypeOK, InitiatePayout
<1>5. charge' \in [Payouts -> Nat]
  BY <1>2 DEF TypeOK, InitiatePayout
<1>6. pc' \in [Payouts -> [Actors -> Phases]] /\ countedOn' \in [Payouts -> Nat]
  BY DEF TypeOK, InitiatePayout, Phases
<1> QED
  BY <1>4, <1>5, <1>6 DEF TypeOK, InitiatePayout, Statuses, queue, env

\* Applying any outcome keeps the types; a refund only adds to a balance.
LEMMA ResolveType ==
    ASSUME TypeOK, NEW p \in Payouts, NEW a \in Actors, Resolve(p, a)
    PROVE  TypeOK'
<1>1. CASE ApplySuccessful(p, a)
  BY <1>1, ReturnType DEF TypeOK, ApplySuccessful, Statuses, env
<1>2. CASE ReadForReversal(p, a)
  <2>1. CASE status[p] \in Terminal
    BY <1>2, <2>1, ReturnType DEF TypeOK, ReadForReversal, ledger, env
  <2>2. CASE status[p] \notin Terminal
    <3>1. /\ pc' = [pc EXCEPT ![p][a] = "reversing"]
          /\ UNCHANGED <<queue, ledger, vfd, alerted, env>>
      BY <1>2, <2>2 DEF ReadForReversal
    <3>2. pc' \in [Payouts -> [Actors -> Phases]]
      BY <3>1 DEF TypeOK, Phases
    <3> QED
      BY <3>1, <3>2 DEF TypeOK, ledger, queue, env
  <2> QED
    BY <2>1, <2>2
<1>3. CASE CommitReversal(p, a)
  <2>1. balance' \in [Wallets -> Nat]
    BY <1>3 DEF TypeOK, CommitReversal
  <2> QED
    BY <1>3, <2>1, ReturnType DEF TypeOK, CommitReversal, Statuses, env
<1>4. CASE RollBackReversal(p, a)
  BY <1>4, ThrowType DEF TypeOK, RollBackReversal, ledger, env
<1>5. CASE HoldForReview(p, a)
  BY <1>5, ReturnType DEF TypeOK, HoldForReview, ledger, env
<1>6. CASE StayUnresolved(p, a)
  BY <1>6, ThrowType DEF TypeOK, StayUnresolved, ledger, env
<1> QED
  BY <1>1, <1>2, <1>3, <1>4, <1>5, <1>6 DEF Resolve

\* A death leaves only well-typed remains.
LEMMA AbortType ==
    ASSUME TypeOK, NEW p \in Payouts, NEW a \in Actors, Abort(p, a)
    PROVE  TypeOK'
<1>1. CASE Throw(p, a)
  BY <1>1, ThrowType DEF TypeOK, Abort, ledger
<1>2. CASE ~Throw(p, a)
  <2>1. pc' \in [Payouts -> [Actors -> Phases]]
    BY <1>2, LeaveType DEF Abort
  <2>2. /\ stalls' = [stalls EXCEPT ![p] = @ + 1]
        /\ job' = [job EXCEPT ![p] = IF stalls[p] < MaxStalls THEN "waiting" ELSE "stalled_out"]
        /\ aborts' = [aborts EXCEPT ![p] = @ + 1]
        /\ UNCHANGED <<ledger, vfd, freeOn, day, tries, alerted>>
    BY <1>2 DEF Abort
  <2>3. job' \in [Payouts -> Jobs]
    BY <2>2 DEF TypeOK, Jobs
  <2> QED
    BY <2>1, <2>2, <2>3 DEF TypeOK, ledger
<1> QED
  BY <1>1, <1>2

\* Whatever a status query answers is an outcome.
LEMMA QueryType ==
    ASSUME TypeOK, NEW p \in Payouts, NEW a \in Actors, QueryAnswered(p, a)
    PROVE  TypeOK'
<1>1. PICK o \in QueryAnswers(p) : pc' = [pc EXCEPT ![p][a] = o]
  BY DEF QueryAnswered
<1>2. o \in Outcomes
  BY QueryAnswersSound DEF TypeOK
<1> QED
  BY <1>1, <1>2 DEF TypeOK, QueryAnswered, Phases, ledger, queue, env

\* TypeOK is inductive on its own.
LEMMA NextType ==
    ASSUME TypeOK, [Next]_vars
    PROVE  TypeOK'
<1> USE DEF ledger, queue, env
<1>1. ASSUME NEW p \in Payouts, InitiatePayout(p)
      PROVE  TypeOK'
  BY <1>1, DebitType
<1>2. ASSUME NEW p \in Payouts, TransferMoves(p)
      PROVE  TypeOK'
  BY <1>2 DEF TypeOK, TransferMoves, Fates
<1>3. ASSUME NEW p \in Payouts, InitiateTransfer(p)
      PROVE  TypeOK'
  BY <1>3 DEF TypeOK, InitiateTransfer, Fates, Phases
<1>4. ASSUME NEW p \in Payouts, TransferAnswered(p)
      PROVE  TypeOK'
  <2>1. PICK o \in Answers(TransferRows, vfd[p]) :
              pc' = [pc EXCEPT ![p]["request"] = o]
    BY <1>4 DEF TransferAnswered
  <2>2. o \in Outcomes
    BY <1>4, TransferAnswersSound DEF TypeOK
  <2> QED
    BY <1>4, <2>1, <2>2 DEF TypeOK, TransferAnswered, Phases
<1>5. ASSUME NEW p \in Payouts, QueueStatusJob(p)
      PROVE  TypeOK'
  BY <1>5 DEF TypeOK, QueueStatusJob, Leave, Phases, Jobs
<1>6. ASSUME NEW p \in Payouts, WorkerTakes(p)
      PROVE  TypeOK'
  <2>1. CASE status[p] \in Terminal
    BY <1>6, <2>1 DEF TypeOK, WorkerTakes, Jobs
  <2>2. CASE status[p] \notin Terminal
    <3>1. /\ job' = [job EXCEPT ![p] = "active"]
          /\ pc' = [pc EXCEPT ![p]["worker"] = "asking"]
          /\ UNCHANGED <<ledger, vfd, tries, stalls, alerted, env>>
      BY <1>6, <2>2 DEF WorkerTakes
    <3> QED
      BY <3>1 DEF TypeOK, Phases, Jobs
  <2> QED
    BY <2>1, <2>2
<1>7. ASSUME NEW p \in Payouts, NEW d \in Desks, DeskRequery(p, d)
      PROVE  TypeOK'
  BY <1>7 DEF TypeOK, DeskRequery, Phases
<1>8. ASSUME NEW p \in Payouts, NEW a \in Actors, QueryAnswered(p, a)
      PROVE  TypeOK'
  BY <1>8, QueryType
<1>9. ASSUME NEW p \in Payouts, NEW a \in Actors, Resolve(p, a)
      PROVE  TypeOK'
  BY <1>9, ResolveType
<1>10. ASSUME NEW p \in Payouts, NEW a \in Actors, Abort(p, a)
       PROVE  TypeOK'
  BY <1>10, AbortType
<1>11. CASE Midnight
  BY <1>11 DEF TypeOK, Midnight
<1>12. CASE SetFreePayouts
  <2>1. freeOn' \in BOOLEAN
    BY <1>12 DEF SetFreePayouts
  <2> QED
    BY <1>12, <2>1 DEF TypeOK, SetFreePayouts
<1>13. CASE UNCHANGED vars
  BY <1>13 DEF TypeOK, vars
<1>14. ASSUME NEW p \in Payouts, BeginPayout(p) \/ RefusePayout(p)
       PROVE  TypeOK'
  <2>1. pc' \in [Payouts -> [Actors -> Phases]]
    <3>1. PICK x \in {"locking", "over"} : pc' = [pc EXCEPT ![p]["request"] = x]
      BY <1>14 DEF BeginPayout, RefusePayout
    <3> QED
      BY <3>1 DEF TypeOK, Phases
  <2>2. CASE BeginPayout(p)
    BY <2>1, <2>2 DEF TypeOK, BeginPayout
  <2>3. CASE RefusePayout(p)
    BY <2>1, <2>3 DEF TypeOK, RefusePayout
  <2> QED
    BY <1>14, <2>2, <2>3
<1> QED
  BY <1>1, <1>2, <1>3, <1>4, <1>5, <1>6, <1>7, <1>8, <1>9, <1>10, <1>11, <1>12,
     <1>13, <1>14 DEF Next, Request, Worker, Desk, Actors

\* Every reachable state is well typed; in particular no interleaving of
\* debits and refunds overdraws a wallet.
THEOREM TypeCorrect == Spec => []TypeOK
<1>1. Init => TypeOK
  BY DEF Init, TypeOK, Statuses, Fates, Phases, Jobs, Actors
<1>2. TypeOK /\ [Next]_vars => TypeOK'
  BY NextType
<1> QED
  BY <1>1, <1>2, PTL DEF Spec

-----------------------------------------------------------------------------
(***************************************************************************)
(* Settlement.  Nothing in NeverRefundedAndPaid or FinalIsLeftAlone speaks *)
(* of the answers still in the hands of an actor, or of who may be asking; *)
(* the inductive invariant does.  It needs staff to wait for the request,  *)
(* and 108 to be final at the provider: MCPayoutEarlyRequery shows what    *)
(* happens without the first.                                              *)
(***************************************************************************)

\* The transfer leaves with the request, after the debit; the others only come
\* into play once the request is over, and never for a payout it did not debit.
OrderKept(p) ==
    /\ pc[p]["request"] \in {"idle", "locking"} => status[p] = "NONE"
    /\ status[p] = "NONE" =>
          /\ pc[p]["request"] \in {"idle", "locking", "over"}
          /\ \A a \in Actors : a # "request" => pc[p][a] = "idle"
          /\ vfd[p] = "none" /\ job[p] = "none"
    /\ pc[p]["request"] = "sending" => status[p] = "PROCESSING" /\ vfd[p] = "none"
    /\ \A a \in Actors : a # "request" /\ pc[p][a] # "idle" => pc[p]["request"] = "over"
    /\ job[p] # "none" => pc[p]["request"] = "over"

\* Every answer in somebody's hands is true of the transfer, and stays true.
AnswersTrue(p) ==
    \A a \in Actors :
        /\ pc[p][a] = "SUCCESSFUL" => vfd[p] = "paid"
        /\ pc[p][a] \in {"FAILED", "reversing"} => WillNeverBePaid(p)

StatusTrue(p) ==
    /\ status[p] = "SUCCESSFUL" => vfd[p] = "paid"
    /\ status[p] = "FAILED" => WillNeverBePaid(p)

Settled(p) ==
    /\ OrderKept(p)
    /\ AnswersTrue(p)
    /\ StatusTrue(p)
    /\ reversals[p] = IF status[p] = "FAILED" THEN 1 ELSE 0

SettledRight == TypeOK /\ \A p \in Payouts : Settled(p)

\* Settled(p) only speaks of p's own row, job, transfer and runs.
LEMMA OthersUntouched ==
    ASSUME NEW q \in Payouts, Settled(q),
           pc'[q] = pc[q], status'[q] = status[q], vfd'[q] = vfd[q],
           job'[q] = job[q], reversals'[q] = reversals[q]
    PROVE  Settled(q)'
  BY DEF Settled, OrderKept, AnswersTrue, StatusTrue, WillNeverBePaid

\* Which row, transfer and runs a settling step may touch, and how.
LEMMA ReturnFrame ==
    ASSUME TypeOK, NEW p \in Payouts, NEW a \in Actors, Return(p, a)
    PROVE  /\ pc' = [pc EXCEPT ![p][a] = IF a = "request" THEN "over" ELSE "idle"]
           /\ \A q \in Payouts \ {p} : job'[q] = job[q]
           /\ a # "worker" => job' = job
  BY DEF TypeOK, Return, Leave

\* ... and the same for a run that throws.
LEMMA ThrowFrame ==
    ASSUME TypeOK, NEW p \in Payouts, NEW a \in Actors, Throw(p, a)
    PROVE  /\ pc' = [pc EXCEPT ![p][a] = IF a = "request" THEN "over" ELSE "idle"]
           /\ \A q \in Payouts \ {p} : job'[q] = job[q]
           /\ a # "worker" => job' = job
<1>1. CASE a = "worker"
  <2>1. FailAttempt(p)
    BY <1>1 DEF Throw
  <2>2. \A q \in Payouts \ {p} : job'[q] = job[q]
    BY <2>1 DEF FailAttempt, TypeOK
  <2> QED
    BY <1>1, <2>2 DEF Throw, Leave
<1>2. CASE a # "worker"
  BY <1>2 DEF Throw, Leave, queue
<1> QED
  BY <1>1, <1>2

\* A run that ends takes its answer with it and gives nobody a turn too early.
LEMMA LeavingKeepsOrder ==
    ASSUME TypeOK, NEW p \in Payouts, NEW a \in Actors, Settled(p),
           pc[p][a] \notin {"idle", "over"},
           pc' = [pc EXCEPT ![p][a] = IF a = "request" THEN "over" ELSE "idle"],
           a # "worker" => job' = job,
           vfd' = vfd, status'[p] # "NONE", status[p] # "NONE"
    PROVE  /\ OrderKept(p)'
           /\ \A b \in Actors : /\ pc'[p][b] = "SUCCESSFUL" => pc[p][b] = "SUCCESSFUL"
                               /\ pc'[p][b] \in {"FAILED", "reversing"} => pc'[p][b] = pc[p][b]
           /\ WillNeverBePaid(p) => WillNeverBePaid(p)'
           /\ AnswersTrue(p)'
<1>1. a = "request" \/ pc[p]["request"] = "over"
  BY DEF Settled, OrderKept
<1>2. pc'[p]["request"] = "over"
  BY <1>1 DEF TypeOK, Actors
<1>3. OrderKept(p)'
  BY <1>2 DEF OrderKept
<1>4. \A b \in Actors : pc'[p][b] = IF b = a THEN (IF a = "request" THEN "over" ELSE "idle")
                                     ELSE pc[p][b]
  BY DEF TypeOK
<1>5. WillNeverBePaid(p) => WillNeverBePaid(p)'
  BY <1>2 DEF WillNeverBePaid
<1> QED
  BY <1>3, <1>4, <1>5 DEF Settled, AnswersTrue

\* Settling a payout keeps it settled right, and never changes a final status.
LEMMA ResolveSettles ==
    ASSUME TypeOK, NEW p \in Payouts, NEW a \in Actors, Settled(p), Resolve(p, a)
    PROVE  /\ Settled(p)'
           /\ status[p] \in Terminal => status'[p] = status[p]
           /\ \A q \in Payouts \ {p} :
                 /\ pc'[q] = pc[q] /\ job'[q] = job[q] /\ vfd'[q] = vfd[q]
                 /\ status'[q] = status[q] /\ reversals'[q] = reversals[q]
<1> USE DEF ledger, env
<1>0. /\ pc[p][a] \notin {"idle", "over"}
      /\ status[p] # "NONE"
  <2>1. pc[p][a] \notin {"idle", "over"}
    BY DEF Resolve, ApplySuccessful, ReadForReversal, CommitReversal,
           RollBackReversal, HoldForReview, StayUnresolved
  <2>2. pc[p][a] # "locking"
    BY DEF Resolve, ApplySuccessful, ReadForReversal, CommitReversal,
           RollBackReversal, HoldForReview, StayUnresolved
  <2> QED
    BY <2>1, <2>2 DEF Settled, OrderKept
<1>1. CASE ApplySuccessful(p, a)
  <2>1. /\ vfd[p] = "paid"
        /\ status' = [status EXCEPT ![p] = "SUCCESSFUL"]
        /\ UNCHANGED <<reversals, vfd>>
    BY <1>1 DEF ApplySuccessful, Settled, AnswersTrue
  <2>2. status[p] # "FAILED"
    BY <1>0, <2>1 DEF Settled, StatusTrue, WillNeverBePaid
  <2>3. /\ pc' = [pc EXCEPT ![p][a] = IF a = "request" THEN "over" ELSE "idle"]
        /\ \A q \in Payouts \ {p} : job'[q] = job[q]
        /\ a # "worker" => job' = job
    BY <1>1, ReturnFrame DEF ApplySuccessful
  <2>4. status'[p] = "SUCCESSFUL"
    BY <2>1 DEF TypeOK
  <2>5. OrderKept(p)' /\ AnswersTrue(p)'
    BY <1>0, <2>1, <2>3, <2>4, LeavingKeepsOrder
  <2> QED
    BY <2>1, <2>2, <2>3, <2>4, <2>5 DEF TypeOK, Settled, StatusTrue, Terminal
<1>2. CASE ReadForReversal(p, a)
  <2>1. UNCHANGED <<status, reversals, vfd>>
    BY <1>2 DEF ReadForReversal
  <2>2. CASE status[p] \in Terminal
    <3>1. /\ pc' = [pc EXCEPT ![p][a] = IF a = "request" THEN "over" ELSE "idle"]
          /\ \A q \in Payouts \ {p} : job'[q] = job[q]
          /\ a # "worker" => job' = job
      BY <1>2, <2>2, ReturnFrame DEF ReadForReversal
    <3>2. OrderKept(p)' /\ AnswersTrue(p)' /\ (WillNeverBePaid(p) => WillNeverBePaid(p)')
      BY <1>0, <2>1, <3>1, LeavingKeepsOrder
    <3> QED
      BY <2>1, <3>1, <3>2 DEF TypeOK, Settled, StatusTrue
  <2>3. CASE status[p] \notin Terminal
    <3>1. pc' = [pc EXCEPT ![p][a] = "reversing"] /\ job' = job
      BY <1>2, <2>3 DEF ReadForReversal, queue
    <3>2. /\ pc[p][a] = "FAILED"
          /\ WillNeverBePaid(p)
      BY <1>2 DEF ReadForReversal, Settled, AnswersTrue
    <3>3. \A b \in Actors : pc'[p][b] = IF b = a THEN "reversing" ELSE pc[p][b]
      BY <3>1 DEF TypeOK
    <3>4. WillNeverBePaid(p)'
      BY <2>1, <3>2, <3>3 DEF WillNeverBePaid, Actors
    <3>5. OrderKept(p)'
      BY <1>0, <2>1, <3>1, <3>2, <3>3, <3>4 DEF Settled, OrderKept, WillNeverBePaid, Actors
    <3> QED
      BY <2>1, <3>1, <3>2, <3>3, <3>4, <3>5 DEF TypeOK, Settled, AnswersTrue, StatusTrue
  <2> QED
    BY <2>2, <2>3
<1>3. CASE CommitReversal(p, a)
  <2>1. /\ status' = [status EXCEPT ![p] = "FAILED"]
        /\ reversals' = [reversals EXCEPT ![p] = 1]
        /\ vfd' = vfd
        /\ reversals[p] = 0
        /\ WillNeverBePaid(p)
    BY <1>3 DEF CommitReversal, Settled, AnswersTrue
  <2>2. status[p] \notin Terminal
    BY <2>1 DEF Settled, StatusTrue, WillNeverBePaid, Terminal
  <2>3. /\ pc' = [pc EXCEPT ![p][a] = IF a = "request" THEN "over" ELSE "idle"]
        /\ \A q \in Payouts \ {p} : job'[q] = job[q]
        /\ a # "worker" => job' = job
    BY <1>3, ReturnFrame DEF CommitReversal
  <2>4. status'[p] = "FAILED" /\ reversals'[p] = 1
    BY <2>1 DEF TypeOK
  <2>5. OrderKept(p)' /\ AnswersTrue(p)' /\ WillNeverBePaid(p)'
    BY <1>0, <2>1, <2>3, <2>4, LeavingKeepsOrder
  <2> QED
    BY <2>1, <2>2, <2>3, <2>4, <2>5 DEF TypeOK, Settled, StatusTrue
<1>4. CASE RollBackReversal(p, a) \/ StayUnresolved(p, a)
  <2>1. UNCHANGED <<status, reversals, vfd>> /\ Throw(p, a)
    BY <1>4 DEF RollBackReversal, StayUnresolved
  <2>2. /\ pc' = [pc EXCEPT ![p][a] = IF a = "request" THEN "over" ELSE "idle"]
        /\ \A q \in Payouts \ {p} : job'[q] = job[q]
        /\ a # "worker" => job' = job
    BY <2>1, ThrowFrame
  <2>3. OrderKept(p)' /\ AnswersTrue(p)' /\ (WillNeverBePaid(p) => WillNeverBePaid(p)')
    BY <1>0, <2>1, <2>2, LeavingKeepsOrder
  <2> QED
    BY <2>1, <2>2, <2>3 DEF TypeOK, Settled, StatusTrue
<1>5. CASE HoldForReview(p, a)
  <2>1. UNCHANGED <<status, reversals, vfd>> /\ Return(p, a)
    BY <1>5 DEF HoldForReview
  <2>2. /\ pc' = [pc EXCEPT ![p][a] = IF a = "request" THEN "over" ELSE "idle"]
        /\ \A q \in Payouts \ {p} : job'[q] = job[q]
        /\ a # "worker" => job' = job
    BY <2>1, ReturnFrame
  <2>3. OrderKept(p)' /\ AnswersTrue(p)' /\ (WillNeverBePaid(p) => WillNeverBePaid(p)')
    BY <1>0, <2>1, <2>2, LeavingKeepsOrder
  <2> QED
    BY <2>1, <2>2, <2>3 DEF TypeOK, Settled, StatusTrue
<1> QED
  BY <1>1, <1>2, <1>3, <1>4, <1>5 DEF Resolve

\* Before the debit the request only begins, is refused or dies.
Undebited(p) ==
    /\ status[p] = "NONE"
    /\ pc[p]["request"] \in {"idle", "locking"}
    /\ pc' \in {[pc EXCEPT ![p]["request"] = "locking"], [pc EXCEPT ![p]["request"] = "over"]}
    /\ UNCHANGED <<status, reversals, vfd, job>>

\* ... which leaves nothing to settle.
LEMMA UndebitedSettles ==
    ASSUME TypeOK, NEW p \in Payouts, Settled(p), Undebited(p)
    PROVE  Settled(p)'
<1>1. /\ pc'[p]["request"] \in {"locking", "over"}
      /\ \A a \in Actors : a # "request" => pc'[p][a] = "idle"
  <2>1. PICK x \in {"locking", "over"} : pc' = [pc EXCEPT ![p]["request"] = x]
    BY DEF Undebited
  <2>2. \A a \in Actors : pc'[p][a] = IF a = "request" THEN x ELSE pc[p][a]
    BY <2>1 DEF TypeOK
  <2>3. \A a \in Actors : a # "request" => pc[p][a] = "idle"
    BY DEF Undebited, Settled, OrderKept
  <2> QED
    BY <2>2, <2>3 DEF Actors
<1>2. vfd[p] = "none" /\ job[p] = "none" /\ reversals[p] = 0
  BY DEF Undebited, Settled, OrderKept
<1> QED
  BY <1>1, <1>2 DEF Undebited, Settled, OrderKept, AnswersTrue, StatusTrue

\* A run that dies loses its answer, and only that.
LEMMA AbortSettles ==
    ASSUME TypeOK, NEW p \in Payouts, NEW a \in Actors, Settled(p), Abort(p, a)
    PROVE  /\ Settled(p)'
           /\ status' = status
           /\ \A q \in Payouts \ {p} :
                 /\ pc'[q] = pc[q] /\ job'[q] = job[q] /\ vfd'[q] = vfd[q]
                 /\ reversals'[q] = reversals[q]
<1>1. /\ pc[p][a] \notin {"idle", "over"}
      /\ UNCHANGED <<status, reversals, vfd>>
  BY DEF Abort, ledger
<1>2. status[p] # "NONE" \/ (status[p] = "NONE" /\ a = "request" /\ pc[p][a] = "locking")
  BY <1>1 DEF Settled, OrderKept
<1>3. /\ pc' = [pc EXCEPT ![p][a] = IF a = "request" THEN "over" ELSE "idle"]
      /\ \A q \in Payouts \ {p} : job'[q] = job[q]
      /\ a # "worker" => job' = job
  <2>1. CASE Throw(p, a)
    BY <2>1, ThrowFrame
  <2>2. CASE ~Throw(p, a)
    <3>1. /\ a = "worker" /\ Leave(p, a)
          /\ job' = [job EXCEPT ![p] = IF stalls[p] < MaxStalls THEN "waiting" ELSE "stalled_out"]
      BY <2>2 DEF Abort
    <3> QED
      BY <3>1 DEF Leave, TypeOK
  <2> QED
    BY <2>1, <2>2
<1>4. CASE status[p] # "NONE"
  <2>1. OrderKept(p)' /\ AnswersTrue(p)' /\ (WillNeverBePaid(p) => WillNeverBePaid(p)')
    BY <1>1, <1>3, <1>4, LeavingKeepsOrder
  <2> QED
    BY <1>1, <1>3, <2>1 DEF TypeOK, Settled, StatusTrue
<1>5. CASE status[p] = "NONE"
  <2>1. pc[p]["request"] = "locking" /\ pc' = [pc EXCEPT ![p]["request"] = "over"] /\ job' = job
    BY <1>2, <1>3, <1>5
  <2>2. Settled(p)'
    BY <1>1, <1>5, <2>1, UndebitedSettles DEF Undebited
  <2> QED
    BY <1>1, <1>3, <2>2 DEF TypeOK
<1> QED
  BY <1>4, <1>5

\* Every step keeps every payout settled right and its final status final.
LEMMA NextSettles ==
    ASSUME ~EarlyRequery, NoTransactionIsFinal, SettledRight, [Next]_vars
    PROVE  /\ SettledRight'
           /\ \A p \in Payouts : status[p] \in Terminal => status'[p] = status[p]
<1> DEFINE Kept(p) == Settled(p)' /\ (status[p] \in Terminal => status'[p] = status[p])
<1> USE DEF ledger, queue, env
<1>0. TypeOK /\ TypeOK'
  BY NextType DEF SettledRight
<1>1. ASSUME NEW p \in Payouts, NEW q \in Payouts, InitiatePayout(p)
      PROVE  Kept(q)
  <2>1. CASE q # p
    BY <1>0, <1>1, <2>1, OthersUntouched DEF InitiatePayout, TypeOK, SettledRight
  <2>2. CASE q = p
    <3>1. /\ status[p] = "NONE" /\ vfd'[p] = "none" /\ job'[p] = "none" /\ reversals'[p] = 0
          /\ \A a \in Actors : a # "request" => pc[p][a] = "idle"
      BY <1>1 DEF InitiatePayout, SettledRight, Settled, OrderKept, queue
    <3>2. /\ \A a \in Actors : pc'[p][a] = IF a = "request" THEN "sending" ELSE "idle"
          /\ status'[p] = "PROCESSING"
      BY <1>0, <1>1, <3>1 DEF InitiatePayout, TypeOK, Actors
    <3> QED
      BY <2>2, <3>1, <3>2 DEF Settled, OrderKept, AnswersTrue, StatusTrue, Terminal, Actors
  <2> QED
    BY <2>1, <2>2
<1>2. ASSUME NEW p \in Payouts, NEW q \in Payouts, TransferMoves(p)
      PROVE  Kept(q)
  <2>1. CASE q # p
    BY <1>0, <1>2, <2>1, OthersUntouched DEF TransferMoves, TypeOK, SettledRight
  <2>2. CASE q = p
    <3>1. /\ vfd[p] \in {"inflight", "processing"} /\ vfd'[p] \notin {"none", "inflight"}
          /\ UNCHANGED <<ledger, pc, queue>>
      BY <1>0, <1>2 DEF TransferMoves, TypeOK
    <3> QED
      BY <1>0, <2>2, <3>1 DEF SettledRight, Settled, OrderKept,
         AnswersTrue, StatusTrue, WillNeverBePaid
  <2> QED
    BY <2>1, <2>2
<1>3. ASSUME NEW p \in Payouts, NEW q \in Payouts, InitiateTransfer(p)
      PROVE  Kept(q)
  <2>1. CASE q # p
    BY <1>0, <1>3, <2>1, OthersUntouched DEF InitiateTransfer, TypeOK, SettledRight
  <2>2. CASE q = p
    <3>1. \A a \in Actors : pc'[p][a] = IF a = "request" THEN "calling" ELSE "idle"
      BY <1>0, <1>3 DEF InitiateTransfer, TypeOK, SettledRight, Settled, OrderKept, Actors
    <3> QED
      BY <1>0, <1>3, <2>2, <3>1 DEF InitiateTransfer, TypeOK, SettledRight, Settled, OrderKept,
         AnswersTrue, StatusTrue, WillNeverBePaid, Actors
  <2> QED
    BY <2>1, <2>2
<1>4. ASSUME NEW p \in Payouts, NEW q \in Payouts, TransferAnswered(p)
      PROVE  Kept(q)
  <2>1. PICK o \in Answers(TransferRows, vfd[p]) :
              pc' = [pc EXCEPT ![p]["request"] = o]
    BY <1>4 DEF TransferAnswered
  <2>2. CASE q # p
    BY <1>0, <1>4, <2>1, <2>2, OthersUntouched DEF TransferAnswered, TypeOK, SettledRight
  <2>3. CASE q = p
    <3>1. /\ o \in Outcomes
          /\ o = "SUCCESSFUL" => vfd[p] = "paid"
          /\ o = "FAILED" => vfd[p] = "refused"
      BY <1>0, TransferAnswersSound DEF TypeOK
    <3>2. \A a \in Actors : pc'[p][a] = IF a = "request" THEN o ELSE pc[p][a]
      BY <1>0, <2>1 DEF TypeOK
    <3> QED
      BY <1>0, <1>4, <2>3, <3>1, <3>2 DEF TransferAnswered, SettledRight, Settled,
         OrderKept, AnswersTrue, StatusTrue, WillNeverBePaid, Actors, Outcomes
  <2> QED
    BY <2>2, <2>3
<1>5. ASSUME NEW p \in Payouts, NEW q \in Payouts, QueueStatusJob(p)
      PROVE  Kept(q)
  <2>1. CASE q # p
    BY <1>0, <1>5, <2>1, OthersUntouched DEF QueueStatusJob, Leave, TypeOK, SettledRight
  <2>2. CASE q = p
    <3>1. \A a \in Actors : pc'[p][a] = IF a = "request" THEN "over" ELSE pc[p][a]
      BY <1>0, <1>5 DEF QueueStatusJob, Leave, TypeOK
    <3> QED
      BY <1>0, <1>5, <2>2, <3>1 DEF QueueStatusJob, TypeOK, SettledRight, Settled, OrderKept,
         AnswersTrue, StatusTrue, WillNeverBePaid, Actors
  <2> QED
    BY <2>1, <2>2
<1>6. ASSUME NEW p \in Payouts, NEW q \in Payouts,
             WorkerTakes(p) \/ \E d \in Desks : DeskRequery(p, d)
      PROVE  Kept(q)
  <2>1. PICK b \in Actors \ {"request"} :
           \/ pc' = pc
           \/ pc' = [pc EXCEPT ![p][b] = "asking"] /\ pc[p]["request"] = "over"
    <3>1. CASE WorkerTakes(p)
      <4>1. pc[p]["request"] = "over"
        BY <3>1 DEF WorkerTakes, SettledRight, Settled, OrderKept
      <4>2. pc' = pc \/ pc' = [pc EXCEPT ![p]["worker"] = "asking"]
        BY <3>1 DEF WorkerTakes
      <4> QED
        BY <4>1, <4>2 DEF Actors
    <3>2. CASE \E d \in Desks : DeskRequery(p, d)
      BY <1>0, <3>2 DEF DeskRequery, Actors
    <3> QED
      BY <1>6, <3>1, <3>2
  <2>2. /\ UNCHANGED <<ledger, vfd>>
        /\ \A r \in Payouts \ {p} : job'[r] = job[r]
        /\ job'[p] # "none" => pc[p]["request"] = "over"
    <3>1. CASE WorkerTakes(p)
      BY <1>0, <3>1 DEF WorkerTakes, TypeOK, SettledRight, Settled, OrderKept
    <3>2. CASE \E d \in Desks : DeskRequery(p, d)
      BY <1>0, <3>2 DEF DeskRequery, SettledRight, Settled, OrderKept
    <3> QED
      BY <1>6, <3>1, <3>2
  <2>3. CASE q # p
    BY <1>0, <2>1, <2>2, <2>3, OthersUntouched DEF TypeOK, SettledRight
  <2>4. CASE q = p
    <3>1. /\ \A c \in Actors : pc'[p][c] \in {pc[p][c], "asking"}
          /\ pc'[p]["request"] = pc[p]["request"]
          /\ pc' = pc \/ pc'[p]["request"] = "over"
      BY <1>0, <2>1 DEF TypeOK, Actors
    <3>2. status[p] # "NONE" /\ pc[p]["request"] = "over"
      BY <1>0, <1>6, <2>2 DEF WorkerTakes, DeskRequery, SettledRight, Settled, OrderKept
    <3> QED
      BY <1>0, <2>2, <2>4, <3>1, <3>2 DEF SettledRight, Settled,
         OrderKept, AnswersTrue, StatusTrue, WillNeverBePaid, Actors
  <2> QED
    BY <2>3, <2>4
<1>7. ASSUME NEW p \in Payouts, NEW q \in Payouts, NEW a \in Actors \ {"request"},
             QueryAnswered(p, a)
      PROVE  Kept(q)
  <2>1. PICK o \in QueryAnswers(p) : pc' = [pc EXCEPT ![p][a] = o]
    BY <1>7 DEF QueryAnswered
  <2>2. CASE q # p
    BY <1>0, <1>7, <2>1, <2>2, OthersUntouched DEF QueryAnswered, TypeOK, SettledRight
  <2>3. CASE q = p
    <3>1. pc[p]["request"] = "over"
      BY <1>7 DEF QueryAnswered, SettledRight, Settled, OrderKept
    <3>2. /\ o \in Outcomes
          /\ o = "SUCCESSFUL" => vfd[p] = "paid"
          /\ o = "FAILED" => WillNeverBePaid(p)
      BY <1>0, <3>1, QueryAnswersSound DEF TypeOK, NoTransaction, WillNeverBePaid
    <3>3. \A b \in Actors : pc'[p][b] = IF b = a THEN o ELSE pc[p][b]
      BY <1>0, <2>1 DEF TypeOK
    <3> QED
      BY <1>0, <1>7, <2>3, <3>1, <3>2, <3>3 DEF QueryAnswered, SettledRight, Settled,
         OrderKept, AnswersTrue, StatusTrue, WillNeverBePaid, Actors, Outcomes
  <2> QED
    BY <2>2, <2>3
<1>8. ASSUME NEW p \in Payouts, NEW q \in Payouts, NEW a \in Actors, Resolve(p, a)
      PROVE  Kept(q)
  BY <1>0, <1>8, ResolveSettles, OthersUntouched DEF SettledRight
<1>9. ASSUME NEW p \in Payouts, NEW q \in Payouts, NEW a \in Actors, Abort(p, a)
      PROVE  Kept(q)
  BY <1>0, <1>9, AbortSettles, OthersUntouched DEF SettledRight
<1>10. ASSUME Midnight \/ SetFreePayouts \/ UNCHANGED vars, NEW q \in Payouts
       PROVE  Kept(q)
  BY <1>10, OthersUntouched DEF Midnight, SetFreePayouts, vars, SettledRight
<1>12. ASSUME NEW p \in Payouts, NEW q \in Payouts, BeginPayout(p) \/ RefusePayout(p)
       PROVE  Kept(q)
  <2>1. Undebited(p)
    BY <1>12 DEF BeginPayout, RefusePayout, Undebited, SettledRight, Settled, OrderKept
  <2>2. CASE q # p
    BY <1>0, <2>1, <2>2, OthersUntouched DEF Undebited, TypeOK, SettledRight
  <2>3. CASE q = p
    BY <1>0, <2>1, <2>3, UndebitedSettles DEF Undebited, SettledRight
  <2> QED
    BY <2>2, <2>3
<1>11. \A q \in Payouts : Kept(q)
  BY <1>1, <1>2, <1>3, <1>4, <1>5, <1>6, <1>7, <1>8, <1>9, <1>10, <1>12
     DEF Next, Request, Worker, Desk, Actors
<1> QED
  BY <1>0, <1>11 DEF SettledRight

\* The initial state is settled right: nothing was sent, and nobody is at work.
LEMMA InitSettled == Init => SettledRight
  BY DEF Init, SettledRight, TypeOK, Settled, OrderKept, AnswersTrue, StatusTrue,
     Statuses, Fates, Phases, Jobs, Actors

\* If staff wait for the request and 108 is final: no payout is both refunded
\* and paid, and none that VFD put on hold is refunded, whoever runs and dies.
THEOREM RefundExcludesPayment ==
    ASSUME ~EarlyRequery, NoTransactionIsFinal
    PROVE  Spec => []NeverRefundedAndPaid
<1>1. SettledRight => NeverRefundedAndPaid
  BY DEF SettledRight, Settled, StatusTrue, NeverRefundedAndPaid
<1> QED
  BY <1>1, InitSettled, NextSettles, PTL DEF Spec

\* ... a payout is FAILED exactly when it was refunded, once,
THEOREM OneReversal ==
    ASSUME ~EarlyRequery, NoTransactionIsFinal
    PROVE  Spec => []FailedIffReversedOnce
<1>1. SettledRight => FailedIffReversedOnce
  BY DEF SettledRight, Settled, FailedIffReversedOnce
<1> QED
  BY <1>1, InitSettled, NextSettles, PTL DEF Spec

\* ... and no racing answer, retry or re-query overwrites a final status.
THEOREM FinalStaysFinal ==
    ASSUME ~EarlyRequery, NoTransactionIsFinal
    PROVE  Spec => FinalIsLeftAlone
<1>1. SettledRight /\ [Next]_vars =>
        [\A p \in Payouts : status[p] \in Terminal => status'[p] = status[p]]_status
  BY NextSettles
<1> QED
  BY <1>1, InitSettled, NextSettles, PTL DEF Spec, FinalIsLeftAlone

-----------------------------------------------------------------------------
(***************************************************************************)
(* The wallet's books.  No assumption on staff or on the provider: not     *)
(* even a wrong answer moves a debit's money twice.                        *)
(***************************************************************************)

\* Before the debit only the request is at work, and it is not past the wallet's
\* lock; after it the charge is one of the two the rule gives.
Booked(p) ==
    IF status[p] = "NONE"
    THEN /\ reversals[p] = 0 /\ job[p] = "none"
         /\ pc[p]["request"] \in {"idle", "locking", "over"}
         /\ \A a \in Actors : a # "request" => pc[p][a] = "idle"
    ELSE /\ pc[p]["request"] \notin {"idle", "locking"}
         /\ \E free \in BOOLEAN : charge[p] = Charges(Amount[p], free)

AllBooked == TypeOK /\ \A p \in Payouts : Booked(p)

\* Only the debit and the refund touch the books, and only p's own entry.
Quiet ==
    /\ UNCHANGED <<balance, charge, reversals>>
    /\ \A p \in Payouts : status'[p] = "NONE" <=> status[p] = "NONE"

\* A step that is neither leaves the books alone.
LEMMA QuietStutters ==
    ASSUME TypeOK, Quiet
    PROVE  UNCHANGED <<balance, Entry>>
  BY DEF Quiet, Entry

\* An actor's step touches p's own runs and job only, and does not bring the request
\* back before the debit.
Turn(p) ==
    /\ \A q \in Payouts \ {p} : pc'[q] = pc[q] /\ job'[q] = job[q]
    /\ \/ pc'[p]["request"] = pc[p]["request"]
       \/ pc'[p]["request"] \notin {"idle", "locking"}

\* A step of an actor that moves no money keeps every payout booked.
LEMMA QuietKeepsBooked ==
    ASSUME AllBooked, TypeOK', NEW p \in Payouts, NEW a \in Actors,
           status[p] # "NONE", Quiet, Turn(p)
    PROVE  AllBooked'
<1>1. ASSUME NEW q \in Payouts
      PROVE  Booked(q)'
  <2>1. CASE q = p
    BY <2>1 DEF AllBooked, Booked, Quiet, Turn
  <2>2. CASE q # p
    BY <1>1, <2>2 DEF AllBooked, Booked, Quiet, Turn
  <2> QED
    BY <2>1, <2>2
<1> QED
  BY <1>1 DEF AllBooked

\* A run that ends is such a step.
LEMMA LeftTurn ==
    ASSUME TypeOK, NEW p \in Payouts, NEW a \in Actors,
           pc' = [pc EXCEPT ![p][a] = IF a = "request" THEN "over" ELSE "idle"],
           \A q \in Payouts \ {p} : job'[q] = job[q]
    PROVE  Turn(p)
  BY DEF Turn, TypeOK, Actors

\* The debit is the entry's.
LEMMA DebitBooks ==
    ASSUME AllBooked, NEW p \in Payouts, InitiatePayout(p)
    PROVE  /\ AllBooked'
           /\ \E total \in Totals : Books!Debit(p, WalletOf[p], total)
<1> DEFINE w == WalletOf[p]
           free == HasFreeSlot(w)
           total == Amount[p] + Charges(Amount[p], free)
<1>1. TypeOK /\ TypeOK'
  BY DebitType DEF AllBooked
<1>2. free \in BOOLEAN /\ Charges(Amount[p], free) \in Nat
  BY ChargesNat DEF HasFreeSlot
<1>3. total \in Totals
  BY <1>2 DEF Totals
<1> HIDE DEF free
<1>4. /\ balance[w] >= total
      /\ balance' = [balance EXCEPT ![w] = @ - total]
      /\ status[p] = "NONE"
      /\ status' = [status EXCEPT ![p] = "PROCESSING"]
      /\ charge' = [charge EXCEPT ![p] = Charges(Amount[p], free)]
      /\ reversals' = reversals
      /\ pc' = [pc EXCEPT ![p]["request"] = "sending"]
      /\ job' = job
  <2>1. status[p] = "NONE"
    BY DEF InitiatePayout, AllBooked, Booked
  <2> QED
    BY <2>1 DEF InitiatePayout, Covers, free, queue
<1>5. reversals[p] = 0
  BY <1>4 DEF AllBooked, Booked
<1>6. Entry[p] = [kind |-> "NONE"]
  BY <1>4 DEF Entry
<1>7. Entry' = [Entry EXCEPT ![p] = [kind |-> "DEBIT", wallet |-> w, total |-> total]]
  <2>1. ASSUME NEW q \in Payouts
        PROVE  Entry'[q] = [Entry EXCEPT ![p] = [kind |-> "DEBIT", wallet |-> w, total |-> total]][q]
    BY <1>1, <1>4, <1>5 DEF Entry, TypeOK
  <2> QED
    BY <2>1 DEF Entry
<1>8. Books!Debit(p, w, total)
  BY <1>4, <1>6, <1>7 DEF Books!Debit, Books!Written, Books!None
<1>9. ASSUME NEW q \in Payouts
      PROVE  Booked(q)'
  <2>1. CASE q = p
    BY <1>1, <1>2, <1>4, <2>1 DEF Booked, TypeOK, Actors
  <2>2. CASE q # p
    BY <1>1, <1>4, <2>2 DEF AllBooked, Booked, TypeOK
  <2> QED
    BY <2>1, <2>2
<1> QED
  BY <1>1, <1>3, <1>8, <1>9 DEF AllBooked

\* The refund is the entry's, and there was none before.
LEMMA RefundBooks ==
    ASSUME AllBooked, NEW p \in Payouts, NEW a \in Actors, CommitReversal(p, a)
    PROVE  /\ AllBooked'
           /\ \E total \in Totals : Books!Refund(p, WalletOf[p], total)
<1> DEFINE w == WalletOf[p]
           total == Amount[p] + charge[p]
<1>1. TypeOK /\ TypeOK'
  BY ResolveType DEF AllBooked, Resolve
<1>2. /\ balance' = [balance EXCEPT ![w] = @ + total]
      /\ status' = [status EXCEPT ![p] = "FAILED"]
      /\ reversals' = [reversals EXCEPT ![p] = 1]
      /\ reversals[p] = 0 /\ pc[p][a] = "reversing"
      /\ charge' = charge
  <2>1. (balance[w] + Amount[p]) + charge[p] = balance[w] + total
    BY <1>1 DEF TypeOK
  <2> QED
    BY <2>1 DEF CommitReversal
<1>3. status[p] # "NONE"
  BY <1>2 DEF AllBooked, Booked
<1>4. total \in Totals
  BY <1>3 DEF AllBooked, Booked, Totals
<1>5. Entry[p] = [kind |-> "DEBIT", wallet |-> w, total |-> total]
  BY <1>2, <1>3 DEF Entry
<1>6. Entry' = [Entry EXCEPT ![p] = [kind |-> "REFUNDED", wallet |-> w, total |-> total]]
  <2>1. ASSUME NEW q \in Payouts
        PROVE  Entry'[q] = [Entry EXCEPT ![p] = [kind |-> "REFUNDED", wallet |-> w, total |-> total]][q]
    BY <1>1, <1>2, <1>3 DEF Entry, TypeOK
  <2> QED
    BY <2>1 DEF Entry
<1>7. Books!Refund(p, w, total)
  BY <1>2, <1>5, <1>6 DEF Books!Refund, Books!Written
<1>8. Turn(p)
  BY <1>1, LeftTurn, ReturnFrame DEF CommitReversal
<1>9. ASSUME NEW q \in Payouts
      PROVE  Booked(q)'
  <2>1. CASE q = p
    BY <1>1, <1>2, <1>3, <1>8, <2>1 DEF AllBooked, Booked, TypeOK, Turn
  <2>2. CASE q # p
    BY <1>1, <1>2, <1>8, <1>9, <2>2 DEF AllBooked, Booked, TypeOK, Turn
  <2> QED
    BY <2>1, <2>2
<1> QED
  BY <1>1, <1>4, <1>7, <1>9 DEF AllBooked

\* Every other step is quiet.
LEMMA NextBooks ==
    ASSUME AllBooked, [Next]_vars
    PROVE  /\ AllBooked'
           /\ [Books!Next]_<<balance, Entry>>
<1> USE DEF ledger, queue, env
<1>0. TypeOK /\ TypeOK'
  BY NextType DEF AllBooked
<1>1. ASSUME NEW p \in Payouts, InitiatePayout(p)
      PROVE  AllBooked' /\ Books!Next
  BY <1>1, DebitBooks DEF Books!Next
<1>2. ASSUME NEW p \in Payouts, NEW a \in Actors, CommitReversal(p, a)
      PROVE  AllBooked' /\ Books!Next
  BY <1>2, RefundBooks DEF Books!Next
<1>3. ASSUME NEW p \in Payouts, NEW a \in Actors, status[p] # "NONE", Quiet, Turn(p)
      PROVE  AllBooked' /\ UNCHANGED <<balance, Entry>>
  BY <1>0, <1>3, QuietKeepsBooked, QuietStutters
<1>11. ASSUME NEW p \in Payouts, status[p] = "NONE", Quiet, job' = job,
              \/ pc' = [pc EXCEPT ![p]["request"] = "locking"]
              \/ pc' = [pc EXCEPT ![p]["request"] = "over"]
       PROVE  AllBooked' /\ UNCHANGED <<balance, Entry>>
  <2>1. ASSUME NEW q \in Payouts
        PROVE  Booked(q)'
    <3>1. CASE q = p
      BY <1>0, <1>11, <3>1 DEF AllBooked, Booked, Quiet, TypeOK, Actors
    <3>2. CASE q # p
      BY <1>0, <1>11, <3>2 DEF AllBooked, Booked, Quiet, TypeOK, Actors
    <3> QED
      BY <3>1, <3>2
  <2> QED
    BY <1>0, <1>11, <2>1, QuietStutters DEF AllBooked
<1>12. ASSUME NEW p \in Payouts, BeginPayout(p) \/ RefusePayout(p)
       PROVE  AllBooked' /\ UNCHANGED <<balance, Entry>>
  <2>1. status[p] = "NONE"
    BY <1>12 DEF BeginPayout, RefusePayout, AllBooked, Booked
  <2>2. Quiet /\ job' = job
    BY <1>12 DEF BeginPayout, RefusePayout, Quiet
  <2> QED
    BY <1>11, <1>12, <2>1, <2>2 DEF BeginPayout, RefusePayout
<1>4. ASSUME NEW p \in Payouts, InitiateTransfer(p) \/ TransferAnswered(p) \/ QueueStatusJob(p)
      PROVE  AllBooked' /\ UNCHANGED <<balance, Entry>>
  <2>1. pc[p]["request"] \notin {"idle", "locking", "over"}
    BY <1>4 DEF InitiateTransfer, TransferAnswered, QueueStatusJob
  <2>2. status[p] # "NONE"
    BY <2>1 DEF AllBooked, Booked, Actors
  <2>3. Quiet /\ Turn(p)
    <3>1. PICK x : pc' = [pc EXCEPT ![p]["request"] = x] /\ x \notin {"idle", "locking"}
      <4>1. CASE InitiateTransfer(p) \/ QueueStatusJob(p)
        BY <4>1 DEF InitiateTransfer, QueueStatusJob, Leave
      <4>2. CASE TransferAnswered(p)
        BY <1>0, <4>2, TransferAnswersSound DEF TransferAnswered, TypeOK, Outcomes
      <4> QED
        BY <1>4, <4>1, <4>2
    <3>2. Quiet /\ \A q \in Payouts \ {p} : job'[q] = job[q]
      BY <1>0, <1>4 DEF InitiateTransfer, TransferAnswered, QueueStatusJob, Quiet, TypeOK
    <3> QED
      BY <1>0, <3>1, <3>2 DEF Turn, TypeOK, Actors
  <2> QED
    BY <1>3, <2>2, <2>3 DEF Actors
<1>5. ASSUME NEW p \in Payouts, WorkerTakes(p)
      PROVE  AllBooked' /\ UNCHANGED <<balance, Entry>>
  <2>1. status[p] # "NONE"
    BY <1>5 DEF AllBooked, Booked, WorkerTakes
  <2>2. Quiet
    BY <1>5 DEF WorkerTakes, Quiet
  <2>3. pc' = pc \/ pc' = [pc EXCEPT ![p]["worker"] = "asking"]
    BY <1>5 DEF WorkerTakes
  <2>4. job' \in {[job EXCEPT ![p] = "completed"], [job EXCEPT ![p] = "active"]}
    BY <1>5 DEF WorkerTakes
  <2>5. Turn(p)
    BY <1>0, <2>3, <2>4 DEF Turn, TypeOK, Actors
  <2> QED
    BY <1>3, <2>1, <2>2, <2>5 DEF Actors
<1>6. ASSUME NEW p \in Payouts, NEW d \in Desks, DeskRequery(p, d)
      PROVE  AllBooked' /\ UNCHANGED <<balance, Entry>>
  <2>1. status[p] # "NONE"
    BY <1>6 DEF DeskRequery
  <2>2. Quiet /\ Turn(p)
    BY <1>0, <1>6 DEF DeskRequery, Quiet, Turn, TypeOK, Actors
  <2> QED
    BY <1>3, <2>1, <2>2 DEF Actors
<1>7. ASSUME NEW p \in Payouts, NEW a \in Actors, QueryAnswered(p, a)
      PROVE  AllBooked' /\ UNCHANGED <<balance, Entry>>
  <2>1. status[p] # "NONE"
    BY <1>7 DEF AllBooked, Booked, QueryAnswered
  <2>2. PICK o \in QueryAnswers(p) : pc' = [pc EXCEPT ![p][a] = o]
    BY <1>7 DEF QueryAnswered
  <2>3. Quiet /\ Turn(p)
    <3>1. o \in Outcomes
      BY <1>0, QueryAnswersSound DEF TypeOK
    <3> QED
      BY <1>0, <1>7, <2>2, <3>1 DEF QueryAnswered, Quiet, Turn, TypeOK, Actors, Outcomes
  <2> QED
    BY <1>3, <2>1, <2>3
<1>8. ASSUME NEW p \in Payouts, NEW a \in Actors, Resolve(p, a), ~CommitReversal(p, a)
      PROVE  AllBooked' /\ UNCHANGED <<balance, Entry>>
  <2>1. status[p] # "NONE"
    BY <1>8 DEF AllBooked, Booked, Resolve, ApplySuccessful, ReadForReversal,
       RollBackReversal, HoldForReview, StayUnresolved
  <2>2. CASE ApplySuccessful(p, a)
    <3>1. Quiet
      BY <1>0, <2>1, <2>2 DEF ApplySuccessful, Quiet, TypeOK
    <3> QED
      BY <1>0, <1>3, <2>1, <2>2, <3>1, ReturnFrame, LeftTurn DEF ApplySuccessful
  <2>3. CASE ReadForReversal(p, a)
    <3>1. Quiet
      BY <2>3 DEF ReadForReversal, Quiet
    <3>2. Turn(p)
      <4>1. CASE Return(p, a)
        BY <1>0, <4>1, ReturnFrame, LeftTurn
      <4>2. CASE ~Return(p, a)
        <5>1. pc' = [pc EXCEPT ![p][a] = "reversing"] /\ job' = job
          BY <2>3, <4>2 DEF ReadForReversal
        <5> QED
          BY <1>0, <5>1 DEF Turn, TypeOK, Actors
      <4> QED
        BY <4>1, <4>2
    <3> QED
      BY <1>3, <2>1, <3>1, <3>2
  <2>4. CASE RollBackReversal(p, a) \/ StayUnresolved(p, a)
    <3>1. Quiet /\ Throw(p, a)
      BY <2>4 DEF RollBackReversal, StayUnresolved, Quiet
    <3> QED
      BY <1>0, <1>3, <2>1, <3>1, ThrowFrame, LeftTurn
  <2>5. CASE HoldForReview(p, a)
    <3>1. Quiet /\ Return(p, a)
      BY <2>5 DEF HoldForReview, Quiet
    <3> QED
      BY <1>0, <1>3, <2>1, <3>1, ReturnFrame, LeftTurn
  <2> QED
    BY <1>8, <2>2, <2>3, <2>4, <2>5 DEF Resolve
<1>9. ASSUME NEW p \in Payouts, NEW a \in Actors, Abort(p, a)
      PROVE  AllBooked' /\ UNCHANGED <<balance, Entry>>
  <2>2. Quiet
    BY <1>9 DEF Abort, Quiet
  <2>3. Turn(p)
    <3>1. CASE Throw(p, a)
      BY <1>0, <3>1, ThrowFrame, LeftTurn
    <3>2. CASE ~Throw(p, a)
      <4>1. /\ Leave(p, a)
            /\ job' = [job EXCEPT ![p] = IF stalls[p] < MaxStalls THEN "waiting" ELSE "stalled_out"]
        BY <1>9, <3>2 DEF Abort
      <4> QED
        BY <1>0, <4>1, LeftTurn DEF Leave, TypeOK
    <3> QED
      BY <3>1, <3>2
  <2>4. CASE status[p] # "NONE"
    BY <1>3, <2>2, <2>3, <2>4
  <2>5. CASE status[p] = "NONE"
    <3>1. a = "request"
      BY <1>9, <2>5 DEF AllBooked, Booked, Abort
    <3>2. pc' = [pc EXCEPT ![p]["request"] = "over"] /\ job' = job
      BY <1>0, <1>9, <3>1, ThrowFrame DEF Abort, Actors
    <3> QED
      BY <1>11, <2>2, <2>5, <3>2
  <2> QED
    BY <2>4, <2>5
<1>10. ASSUME Midnight \/ SetFreePayouts \/ UNCHANGED vars \/ \E p \in Payouts : TransferMoves(p)
       PROVE  AllBooked' /\ UNCHANGED <<balance, Entry>>
  <2>1. Quiet /\ UNCHANGED <<pc, job>> /\ status' = status
    BY <1>10 DEF Midnight, SetFreePayouts, vars, TransferMoves, Quiet
  <2>2. \A q \in Payouts : Booked(q)'
    BY <2>1 DEF AllBooked, Booked, Quiet
  <2> QED
    BY <1>0, <2>1, <2>2, QuietStutters DEF AllBooked
<1> QED
  BY <1>1, <1>2, <1>4, <1>5, <1>6, <1>7, <1>8, <1>9, <1>10, <1>12
     DEF Next, Request, Worker, Desk, Actors

\* For every number of wallets, payouts, desks, retries and deaths, whatever VFD
\* answers and whenever staff ask: the payouts implement the wallet ledger.
THEOREM PayoutsKeepTheBooks == Spec => KeepsTheBooks
<1>1. Init => AllBooked
  BY DEF Init, AllBooked, Booked, TypeOK, Statuses, Fates, Phases, Jobs, Actors
<1>2. Init => Books!Init
  BY DEF Init, Books!Init, Books!None, Entry
<1> QED
  BY <1>1, <1>2, NextBooks, PTL DEF Spec, KeepsTheBooks, Books!Spec

\* What an entry took is in the books exactly while it is not reversed.
LEMMA UnreversedEntries ==
    ASSUME TypeOK, NEW w \in Wallets
    PROVE  /\ Unreversed(w) = {p \in Payouts : Entry[p].kind = "DEBIT" /\ Entry[p].wallet = w}
           /\ \A p \in Unreversed(w) : Taken[p] = Entry[p].total /\ Taken[p] \in Nat
           /\ IsFiniteSet(Unreversed(w))
<1>1. ASSUME NEW p \in Payouts
      PROVE  p \in Unreversed(w) <=> Entry[p].kind = "DEBIT" /\ Entry[p].wallet = w
  BY <1>1 DEF Unreversed, PayoutsOf, Entry
<1>2. Unreversed(w) \subseteq Payouts
  BY DEF Unreversed, PayoutsOf
<1>3. ASSUME NEW p \in Unreversed(w)
      PROVE  Taken[p] = Entry[p].total /\ Taken[p] \in Nat
  BY <1>2, <1>3 DEF Unreversed, Taken, Entry, TypeOK
<1> QED
  BY <1>1, <1>2, <1>3, FS_Subset, FinitePayouts

LEMMA UnreversedEntriesNext ==
    ASSUME TypeOK', NEW w \in Wallets
    PROVE  /\ Unreversed(w)' = {p \in Payouts : Entry'[p].kind = "DEBIT" /\ Entry'[p].wallet = w}
           /\ \A p \in Unreversed(w)' : Taken'[p] = Entry'[p].total /\ Taken'[p] \in Nat
           /\ IsFiniteSet(Unreversed(w)')
<1>1. ASSUME NEW p \in Payouts
      PROVE  p \in Unreversed(w)' <=> Entry'[p].kind = "DEBIT" /\ Entry'[p].wallet = w
  BY <1>1 DEF Unreversed, PayoutsOf, Entry
<1>2. Unreversed(w)' \subseteq Payouts
  BY DEF Unreversed, PayoutsOf
<1>3. ASSUME NEW p \in Unreversed(w)'
      PROVE  Taken'[p] = Entry'[p].total /\ Taken'[p] \in Nat
  BY <1>2, <1>3 DEF Unreversed, Taken, Entry, TypeOK
<1> QED
  BY <1>1, <1>2, <1>3, FS_Subset, FinitePayouts

\* The sums of two functions, over two sets, that differ at one element.
Apart(U, V, f, g, e) ==
    /\ IsFiniteSet(U) /\ IsFiniteSet(V)
    /\ \A p : p # e => (p \in U <=> p \in V)
    /\ \A p \in U : f[p] \in Nat
    /\ \A p \in V : g[p] \in Nat
    /\ \A p \in U \ {e} : f[p] = g[p]

LEMMA SumsApart ==
    ASSUME NEW U, NEW V, NEW f, NEW g, NEW e, Apart(U, V, f, g, e)
    PROVE  /\ SumFunctionOnSet(f, U) \in Nat /\ SumFunctionOnSet(g, V) \in Nat
           /\ e \notin U /\ e \in V => SumFunctionOnSet(g, V) = SumFunctionOnSet(f, U) + g[e]
           /\ e \in U /\ e \notin V => SumFunctionOnSet(f, U) = SumFunctionOnSet(g, V) + f[e]
           /\ e \notin U /\ e \notin V => SumFunctionOnSet(f, U) = SumFunctionOnSet(g, V)
<1> USE DEF Apart
<1>1. IsFiniteSet(U \ {e}) /\ \A p \in U \ {e} : f[p] \in Nat
  BY FS_Subset
<1>2. SumFunctionOnSet(f, U \ {e}) = SumFunctionOnSet(g, V \ {e})
  <2>1. V \ {e} = U \ {e}
    OBVIOUS
  <2>2. SumFunctionOnSet(f, U \ {e}) = SumFunctionOnSet(g, U \ {e})
    BY <1>1, SumAgrees
  <2> QED
    BY <2>1, <2>2, Zenon
<1>3. /\ SumFunctionOnSet(f, U) \in Nat
      /\ \A p \in U : SumFunctionOnSet(f, U) = f[p] + SumFunctionOnSet(f, U \ {p})
  BY SumSplits
<1>4. /\ SumFunctionOnSet(g, V) \in Nat
      /\ \A p \in V : SumFunctionOnSet(g, V) = g[p] + SumFunctionOnSet(g, V \ {p})
  BY SumSplits
<1>5. SumFunctionOnSet(f, U \ {e}) \in Nat
  BY <1>1, SumSplits
<1>6. SumFunctionOnSet(f, U) = SumFunctionOnSet(f, U \ {e}) + IF e \in U THEN f[e] ELSE 0
  <2>1. ASSUME e \notin U
        PROVE  SumFunctionOnSet(f, U \ {e}) = SumFunctionOnSet(f, U)
    <3>1. U \ {e} = U
      BY <2>1
    <3> QED
      BY <3>1, Zenon
  <2>2. CASE e \in U
    BY <1>3, <1>5, <2>2
  <2>3. CASE e \notin U
    BY <1>5, <2>1, <2>3
  <2> QED
    BY <2>2, <2>3
<1>7. SumFunctionOnSet(g, V) = SumFunctionOnSet(f, U \ {e}) + IF e \in V THEN g[e] ELSE 0
  <2>1. ASSUME e \notin V
        PROVE  SumFunctionOnSet(g, V \ {e}) = SumFunctionOnSet(g, V)
    <3>1. V \ {e} = V
      BY <2>1
    <3> QED
      BY <3>1, Zenon
  <2>2. CASE e \in V
    BY <1>2, <1>4, <1>5, <2>2
  <2>3. CASE e \notin V
    BY <1>2, <1>5, <2>1, <2>3
  <2> QED
    BY <2>2, <2>3
<1>8. /\ e \in U => f[e] \in Nat
      /\ e \in V => g[e] \in Nat
  OBVIOUS
<1> DEFINE a == SumFunctionOnSet(f, U)
           b == SumFunctionOnSet(g, V)
           r == SumFunctionOnSet(f, U \ {e})
<1>9. /\ a \in Nat /\ b \in Nat /\ r \in Nat
      /\ a = r + IF e \in U THEN f[e] ELSE 0
      /\ b = r + IF e \in V THEN g[e] ELSE 0
  BY <1>3, <1>4, <1>5, <1>6, <1>7
<1> HIDE DEF a, b, r
<1>10. /\ e \notin U /\ e \in V => b = a + g[e]
       /\ e \in U /\ e \notin V => a = b + f[e]
       /\ e \notin U /\ e \notin V => a = b
  BY <1>8, <1>9
<1> QED
  BY <1>9, <1>10 DEF a, b, r

\* A step of the books that writes one entry moves its money in one wallet only.
LEMMA EntryWritten ==
    ASSUME TypeOK, TypeOK', NEW e \in Payouts, NEW x,
           Entry' = [Entry EXCEPT ![e] = x], NEW w \in Wallets
    PROVE  /\ SumFunctionOnSet(Taken, Unreversed(w)) \in Nat
           /\ SumFunctionOnSet(Taken', Unreversed(w)') \in Nat
           /\ e \notin Unreversed(w) /\ x.kind = "DEBIT" /\ x.wallet = w =>
                SumFunctionOnSet(Taken', Unreversed(w)') =
                  SumFunctionOnSet(Taken, Unreversed(w)) + x.total
           /\ e \in Unreversed(w) /\ x.kind # "DEBIT" =>
                SumFunctionOnSet(Taken, Unreversed(w)) =
                  SumFunctionOnSet(Taken', Unreversed(w)') + Entry[e].total
           /\ e \notin Unreversed(w) /\ ~(x.kind = "DEBIT" /\ x.wallet = w) =>
                SumFunctionOnSet(Taken', Unreversed(w)') = SumFunctionOnSet(Taken, Unreversed(w))
<1>1. /\ Unreversed(w) = {p \in Payouts : Entry[p].kind = "DEBIT" /\ Entry[p].wallet = w}
      /\ \A p \in Unreversed(w) : Taken[p] = Entry[p].total /\ Taken[p] \in Nat
      /\ IsFiniteSet(Unreversed(w))
  BY UnreversedEntries
<1>2. /\ Unreversed(w)' = {p \in Payouts : Entry'[p].kind = "DEBIT" /\ Entry'[p].wallet = w}
      /\ \A p \in Unreversed(w)' : Taken'[p] = Entry'[p].total /\ Taken'[p] \in Nat
      /\ IsFiniteSet(Unreversed(w)')
  BY UnreversedEntriesNext
<1>3. /\ Entry'[e] = x
      /\ \A p \in Payouts \ {e} : Entry'[p] = Entry[p]
  BY DEF Entry
<1>4. \A p : p # e => (p \in Unreversed(w) <=> p \in Unreversed(w)')
  BY <1>1, <1>2, <1>3
<1>5. \A p \in Unreversed(w) \ {e} : Taken[p] = Taken'[p]
  BY <1>1, <1>2, <1>3, <1>4
<1>6. /\ e \in Unreversed(w)' <=> x.kind = "DEBIT" /\ x.wallet = w
      /\ e \in Unreversed(w)' => Taken'[e] = x.total
      /\ e \in Unreversed(w) => Taken[e] = Entry[e].total
  BY <1>1, <1>2, <1>3
<1>7. /\ \A p \in Unreversed(w) : Taken[p] \in Nat
      /\ \A p \in Unreversed(w)' : Taken'[p] \in Nat
  BY <1>1, <1>2
<1>8. /\ SumFunctionOnSet(Taken, Unreversed(w)) \in Nat
      /\ SumFunctionOnSet(Taken', Unreversed(w)') \in Nat
      /\ e \notin Unreversed(w) /\ e \in Unreversed(w)' =>
           SumFunctionOnSet(Taken', Unreversed(w)') =
             SumFunctionOnSet(Taken, Unreversed(w)) + Taken'[e]
      /\ e \in Unreversed(w) /\ e \notin Unreversed(w)' =>
           SumFunctionOnSet(Taken, Unreversed(w)) =
             SumFunctionOnSet(Taken', Unreversed(w)') + Taken[e]
      /\ e \notin Unreversed(w) /\ e \notin Unreversed(w)' =>
           SumFunctionOnSet(Taken, Unreversed(w)) = SumFunctionOnSet(Taken', Unreversed(w)')
  <2>1. IsFiniteSet(Unreversed(w)) /\ IsFiniteSet(Unreversed(w)')
    BY <1>1, <1>2
  <2>2. Apart(Unreversed(w), Unreversed(w)', Taken, Taken', e)
    BY <1>4, <1>5, <1>7, <2>1 DEF Apart
  <2> QED
    BY <2>2, SumsApart
<1> QED
  BY <1>6, <1>8

LEMMA NextMoney ==
    ASSUME AllBooked, MoneyAccountedFor, [Next]_vars
    PROVE  MoneyAccountedFor'
<1>1. TypeOK /\ TypeOK'
  BY NextType DEF AllBooked
<1>2. [Books!Next]_<<balance, Entry>>
  BY NextBooks
<1>3. SUFFICES ASSUME NEW w \in Wallets
               PROVE  balance'[w] = Funds[w] - SumFunctionOnSet(Taken', Unreversed(w)')
  BY DEF MoneyAccountedFor
<1> DEFINE Before == SumFunctionOnSet(Taken, Unreversed(w))
           After == SumFunctionOnSet(Taken', Unreversed(w)')
<1>4. balance[w] = Funds[w] - Before /\ balance[w] \in Int /\ Funds[w] \in Nat
  BY <1>1 DEF MoneyAccountedFor, TypeOK
<1>5. CASE UNCHANGED <<balance, Entry>>
  <2>1. Unreversed(w)' = Unreversed(w)
    BY <1>1, <1>5, UnreversedEntries, UnreversedEntriesNext
  <2>2. \A p \in Unreversed(w) : Taken[p] \in Nat /\ Taken[p] = Taken'[p]
    BY <1>1, <1>5, <2>1, UnreversedEntries, UnreversedEntriesNext
  <2>3. SumFunctionOnSet(Taken, Unreversed(w)) = SumFunctionOnSet(Taken', Unreversed(w))
    BY <1>1, <2>2, UnreversedEntries, SumAgrees
  <2> QED
    BY <1>4, <1>5, <2>1, <2>3
<1>6. ASSUME NEW e \in Payouts, NEW v \in Wallets, NEW total \in Totals, Books!Debit(e, v, total)
      PROVE  balance'[w] = Funds[w] - After
  <2>1. /\ Entry[e] = [kind |-> "NONE"]
        /\ balance' = [balance EXCEPT ![v] = @ - total]
        /\ Entry' = [Entry EXCEPT ![e] = [kind |-> "DEBIT", wallet |-> v, total |-> total]]
    BY <1>6 DEF Books!Debit, Books!Written, Books!None
  <2>2. total \in Nat
    BY ChargesNat DEF Totals
  <2>3. e \notin Unreversed(w)
    BY <1>1, <2>1, UnreversedEntries
  <2>4. Before \in Nat /\ After \in Nat /\ After = IF v = w THEN Before + total ELSE Before
    <3> DEFINE x == [kind |-> "DEBIT", wallet |-> v, total |-> total]
    <3>1. x.kind = "DEBIT" /\ x.wallet = v /\ x.total = total
      OBVIOUS
    <3>2. Entry' = [Entry EXCEPT ![e] = x]
      BY <2>1
    <3> HIDE DEF x
    <3> QED
      BY <1>1, <2>3, <3>1, <3>2, EntryWritten
  <2>5. balance'[w] = IF v = w THEN balance[w] - total ELSE balance[w]
    BY <1>1, <2>1 DEF TypeOK
  <2> HIDE DEF Before, After
  <2> QED
    BY <1>4, <2>2, <2>4, <2>5
<1>7. ASSUME NEW e \in Payouts, NEW v \in Wallets, NEW total \in Totals, Books!Refund(e, v, total)
      PROVE  balance'[w] = Funds[w] - After
  <2>1. /\ Entry[e] = [kind |-> "DEBIT", wallet |-> v, total |-> total]
        /\ balance' = [balance EXCEPT ![v] = @ + total]
        /\ Entry' = [Entry EXCEPT ![e] = [kind |-> "REFUNDED", wallet |-> v, total |-> total]]
    BY <1>7 DEF Books!Refund, Books!Written
  <2>2. total \in Nat
    BY ChargesNat DEF Totals
  <2>3. e \in Unreversed(w) <=> v = w
    BY <1>1, <2>1, UnreversedEntries
  <2>4. Before \in Nat /\ After \in Nat /\ Before = IF v = w THEN After + total ELSE After
    <3> DEFINE x == [kind |-> "REFUNDED", wallet |-> v, total |-> total]
    <3>1. x.kind = "REFUNDED" /\ x.wallet = v /\ x.total = total
      OBVIOUS
    <3>2. Entry' = [Entry EXCEPT ![e] = x] /\ Entry[e].total = total
      BY <2>1
    <3> HIDE DEF x
    <3> QED
      BY <1>1, <2>3, <3>1, <3>2, EntryWritten
  <2>5. balance'[w] = IF v = w THEN balance[w] + total ELSE balance[w]
    BY <1>1, <2>1 DEF TypeOK
  <2> HIDE DEF Before, After
  <2> QED
    BY <1>4, <2>2, <2>4, <2>5
<1>8. ASSUME NEW e \in Payouts, NEW v \in Wallets, NEW total \in Totals, Books!Credit(e, v, total)
      PROVE  FALSE
  <2>1. Entry'[e].kind = "CREDIT"
    BY <1>8 DEF Books!Credit, Books!Written, Entry
  <2> QED
    BY <2>1 DEF Entry
<1> QED
  BY <1>2, <1>5, <1>6, <1>7, <1>8 DEF Books!Next

\* For every number of wallets, payouts, desks, retries and deaths, whatever VFD
\* answers and whenever staff ask: no step makes money or loses it.
THEOREM PayoutsLoseNoMoney == Spec => []MoneyAccountedFor
<1>1. Init => AllBooked
  BY DEF Init, AllBooked, Booked, TypeOK, Statuses, Fates, Phases, Jobs, Actors
<1>2. Init => MoneyAccountedFor
  <2>1. SUFFICES ASSUME Init, NEW w \in Wallets
                 PROVE  balance[w] = Funds[w] - SumFunctionOnSet(Taken, Unreversed(w))
    BY DEF MoneyAccountedFor
  <2>2. Unreversed(w) = {}
    BY <2>1 DEF Init, Unreversed, PayoutsOf
  <2>3. SumFunctionOnSet(Taken, {}) = 0
    BY SumUnfolds, FS_EmptySet
  <2>4. balance[w] = Funds[w] /\ Funds[w] \in Nat
    BY <2>1 DEF Init
  <2> QED
    BY <2>2, <2>3, <2>4
<1>3. AllBooked /\ MoneyAccountedFor /\ [Next]_vars => (AllBooked /\ MoneyAccountedFor)'
  BY NextBooks, NextMoney
<1> QED
  BY <1>1, <1>2, <1>3, PTL DEF Spec

-----------------------------------------------------------------------------
(***************************************************************************)
(* The limits.  A cap is compared with a sum and a free slot with a count, *)
(* both over the payouts that stand; only the debit adds to them, and it   *)
(* counts under the wallet's lock everything dated from today on.  A debit *)
(* dated yesterday, which waited for the lock over midnight, is added to   *)
(* no day's sum here.  A payout that failed must never come back, so the   *)
(* assumptions of the settlement are needed here too.                      *)
(***************************************************************************)

\* The payouts of a wallet that stand, made from one day on, whenever they were counted.
StandingSince(w, d) ==
    {p \in PayoutsOf(w) : status[p] \in {"PROCESSING", "SUCCESSFUL"} /\ madeOn[p] >= d}

\* Those made and counted on a day that the free-payout rule paid for.
FreeOn(w, d) == {p \in StandingOn(w, d) : Free(p)}

\* The limits, by the sets they are about.
CapsByDay ==
    /\ \A w \in Wallets : SumFunctionOnSet(Amount, StandingSince(w, 0)) <= DeviceCap[w]
    /\ EnforceCaps => \A w \in Wallets, d \in 0..LastDay :
          SumFunctionOnSet(Amount, StandingOn(w, d)) <= DailyCap[w]
    /\ \A w \in Wallets, d \in 0..LastDay : Cardinality(FreeOn(w, d)) <= FreePerDay

\* They say the same, in a state and in the next.
LEMMA LimitsAre ==
    /\ LimitsKept <=> CapsByDay
    /\ LimitsKept' <=> CapsByDay'
<1>1. LimitsKept <=> CapsByDay
  BY Zenon DEF LimitsKept, WithinCaps, FreePayoutsPerDayKept, OutflowSince, StandingSince,
     FreeOn, CapsByDay
<1>2. LimitsKept' <=> CapsByDay'
  BY Zenon DEF LimitsKept, WithinCaps, FreePayoutsPerDayKept, OutflowSince, StandingSince,
     FreeOn, CapsByDay
<1> QED
  BY <1>1, <1>2

\* Sums and counts of payouts are natural numbers, and grow with the set.
LEMMA PayoutSums ==
    ASSUME NEW S \in SUBSET Payouts
    PROVE  /\ SumFunctionOnSet(Amount, S) \in Nat
           /\ IsFiniteSet(S) /\ Cardinality(S) \in Nat
           /\ \A R \in SUBSET S : /\ SumFunctionOnSet(Amount, R) <= SumFunctionOnSet(Amount, S)
                                  /\ Cardinality(R) <= Cardinality(S)
           /\ \A p \in Payouts \ S :
                 /\ SumFunctionOnSet(Amount, S \cup {p}) = SumFunctionOnSet(Amount, S) + Amount[p]
                 /\ Cardinality(S \cup {p}) = Cardinality(S) + 1
<1>1. \A T \in SUBSET Payouts : IsFiniteSet(T) /\ \A x \in T : Amount[x] \in Nat
  BY FinitePayouts, FS_Subset
<1>2. \A T \in SUBSET Payouts : SumFunctionOnSet(Amount, T) \in Nat
  BY <1>1, SumSplits
<1>3. ASSUME NEW R \in SUBSET S
      PROVE  /\ SumFunctionOnSet(Amount, R) <= SumFunctionOnSet(Amount, S)
             /\ Cardinality(R) <= Cardinality(S)
  BY <1>1, SumMonotone, FS_Subset
<1>4. ASSUME NEW p \in Payouts \ S
      PROVE  /\ SumFunctionOnSet(Amount, S \cup {p}) = SumFunctionOnSet(Amount, S) + Amount[p]
             /\ Cardinality(S \cup {p}) = Cardinality(S) + 1
  <2>1. (S \cup {p}) \ {p} = S /\ S \cup {p} \in SUBSET Payouts /\ p \in S \cup {p}
    OBVIOUS
  <2>2. SumFunctionOnSet(Amount, S \cup {p}) = Amount[p] + SumFunctionOnSet(Amount, (S \cup {p}) \ {p})
    BY <1>1, <2>1, SumSplits
  <2>3. SumFunctionOnSet(Amount, S) \in Nat /\ Amount[p] \in Nat
    BY <1>2
  <2>4. SumFunctionOnSet(Amount, S \cup {p}) = SumFunctionOnSet(Amount, S) + Amount[p]
    BY <2>1, <2>2, <2>3
  <2>5. IsFiniteSet(S) /\ p \notin S
    BY <1>1
  <2>6. Cardinality(S \cup {p}) = Cardinality(S) + 1
    BY <2>5, FS_AddElement
  <2> QED
    BY <2>4, <2>6
<1> QED
  BY <1>1, <1>2, <1>3, <1>4, FS_CardinalityType

\* A free payout never costs what a charged one does: the fee is not zero.
LEMMA FreeIsCheaper ==
    ASSUME NEW amount \in Nat
    PROVE  Charges(amount, TRUE) # Charges(amount, FALSE)
<1>1. CalculateTransferFee(amount) \in {10 * Naira, 25 * Naira, 50 * Naira}
  BY DEF CalculateTransferFee, Naira
<1>2. \A f \in {10 * Naira, 25 * Naira, 50 * Naira} : WithVat(f) \in Nat \ {0}
  BY DEF WithVat, ToKobo, Naira, Kobo
<1>3. StampDuty(amount) \in Nat
  BY DEF StampDuty, Naira
<1> QED
  BY <1>1, <1>2, <1>3 DEF Charges

\* The debit takes its part of the caps, and its free slot, while they last.  What was
\* made and counted today is among what the debit compares with the cap, and only a
\* debit dated today as well is added to it.
LEMMA DebitKeepsLimits ==
    ASSUME TypeOK, LimitsKept, NEW p \in Payouts, status[p] = "NONE", InitiatePayout(p)
    PROVE  LimitsKept'
<1> DEFINE w == WalletOf[p]
           free == HasFreeSlot(w)
<1>1. free \in BOOLEAN
  BY DEF HasFreeSlot
<1>2. /\ status[p] = "NONE" /\ WithinLimits(p) /\ madeOn' = madeOn /\ day' = day
      /\ \A q \in Payouts :
            /\ status'[q] = IF q = p THEN "PROCESSING" ELSE status[q]
            /\ countedOn'[q] = IF q = p THEN day ELSE countedOn[q]
            /\ charge'[q] = IF q = p THEN Charges(Amount[p], free) ELSE charge[q]
  BY DEF InitiatePayout, TypeOK, env
<1>3. w \in Wallets
  OBVIOUS
<1>5. ASSUME NEW v \in Wallets
      PROVE  SumFunctionOnSet(Amount, StandingSince(v, 0)') <= DeviceCap[v]
  <2>1. StandingSince(v, 0)' = IF v = w THEN StandingSince(v, 0) \cup {p} ELSE StandingSince(v, 0)
    BY <1>2 DEF StandingSince, PayoutsOf, TypeOK
  <2>2. StandingSince(v, 0) \in SUBSET Payouts /\ p \notin StandingSince(v, 0)
    BY <1>2 DEF StandingSince, PayoutsOf
  <2>3. CASE v = w
    <3>1. SumFunctionOnSet(Amount, StandingSince(w, 0)) + Amount[p] <= DeviceCap[w]
      BY <1>2 DEF WithinLimits, OutflowSince, StandingSince
    <3> QED
      BY <2>1, <2>2, <2>3, <3>1, PayoutSums
  <2>4. CASE v # w
    BY <2>1, <2>4, LimitsAre DEF CapsByDay
  <2> QED
    BY <2>3, <2>4
<1>6. ASSUME NEW v \in Wallets, NEW d \in 0..LastDay, v # w \/ d # day
      PROVE  StandingOn(v, d)' = StandingOn(v, d) /\ FreeOn(v, d)' = FreeOn(v, d)
  BY <1>2, <1>6 DEF StandingOn, FreeOn, Free, PayoutsOf
<1>7. /\ StandingOn(w, day)' \subseteq StandingSince(w, day) \cup {p}
      /\ p \notin StandingSince(w, day) /\ StandingSince(w, day) \in SUBSET Payouts
  <2>1. \A q \in Payouts : madeOn[q] = day => madeOn[q] >= day
    BY DEF TypeOK
  <2> QED
    BY <1>2, <2>1 DEF StandingOn, StandingSince, PayoutsOf
<1>9. ASSUME EnforceCaps, NEW v \in Wallets, NEW d \in 0..LastDay
      PROVE  SumFunctionOnSet(Amount, StandingOn(v, d)') <= DailyCap[v]
  <2>1. CASE v = w /\ d = day
    <3>1. SumFunctionOnSet(Amount, StandingSince(w, day)) + Amount[p] <= DailyCap[w]
      BY <1>2, <1>9 DEF WithinLimits, OutflowSince, StandingSince
    <3>2. StandingSince(w, day) \cup {p} \in SUBSET Payouts
      BY <1>7
    <3>3. /\ SumFunctionOnSet(Amount, StandingOn(w, day)')
                <= SumFunctionOnSet(Amount, StandingSince(w, day) \cup {p})
          /\ SumFunctionOnSet(Amount, StandingSince(w, day) \cup {p})
                = SumFunctionOnSet(Amount, StandingSince(w, day)) + Amount[p]
      BY <1>7, <3>2, PayoutSums
    <3>4. /\ SumFunctionOnSet(Amount, StandingOn(w, day)') \in Nat
          /\ SumFunctionOnSet(Amount, StandingSince(w, day)) \in Nat
      <4>1. StandingOn(w, day)' \in SUBSET Payouts
        BY <1>7
      <4> QED
        BY <1>7, <4>1, PayoutSums
    <3>5. DailyCap[w] \in Nat /\ Amount[p] \in Nat
      BY <1>3
    <3>6. SumFunctionOnSet(Amount, StandingOn(w, day)') <= DailyCap[w]
      BY <3>1, <3>3, <3>4, <3>5
    <3> QED
      BY <1>2, <2>1, <3>6
  <2>2. CASE v # w \/ d # day
    BY <1>6, <1>9, <2>2, LimitsAre DEF CapsByDay
  <2> QED
    BY <2>1, <2>2
<1>10. ASSUME NEW v \in Wallets, NEW d \in 0..LastDay
       PROVE  Cardinality(FreeOn(v, d)') <= FreePerDay
  <2>1. CASE v = w /\ d = day /\ free
    <3>1. Cardinality(PayoutsToday(w)) < FreePerDay
      BY <2>1 DEF HasFreeSlot
    <3>2. /\ FreeOn(w, day)' \subseteq PayoutsToday(w) \cup {p}
          /\ p \notin PayoutsToday(w) /\ PayoutsToday(w) \in SUBSET Payouts
      <4>1. \A q \in Payouts : madeOn[q] = day => madeOn[q] >= day
        BY DEF TypeOK
      <4> QED
        BY <1>2, <4>1 DEF FreeOn, StandingOn, PayoutsToday, PayoutsOf
    <3>3. PayoutsToday(w) \cup {p} \in SUBSET Payouts
      BY <3>2
    <3>4. /\ Cardinality(PayoutsToday(w) \cup {p}) = Cardinality(PayoutsToday(w)) + 1
          /\ Cardinality(PayoutsToday(w)) \in Nat
          /\ Cardinality(FreeOn(w, day)') <= Cardinality(PayoutsToday(w) \cup {p})
          /\ Cardinality(FreeOn(w, day)') \in Nat
      BY <3>2, <3>3, PayoutSums
    <3> QED
      BY <1>2, <2>1, <3>1, <3>4
  <2>2. CASE v = w /\ d = day /\ ~free
    <3>1. charge'[p] # Charges(Amount[p], TRUE)
      BY <1>1, <1>2, <2>2, FreeIsCheaper
    <3>2. FreeOn(w, day)' = FreeOn(w, day)
      BY <1>2, <3>1 DEF FreeOn, StandingOn, Free, PayoutsOf
    <3> QED
      BY <1>2, <2>2, <3>2, LimitsAre DEF CapsByDay
  <2>3. CASE v # w \/ d # day
    BY <1>6, <2>3, LimitsAre DEF CapsByDay
  <2> QED
    BY <1>1, <2>1, <2>2, <2>3
<1> HIDE DEF w, free
<1> QED
  BY <1>5, <1>9, <1>10, LimitsAre DEF CapsByDay

\* No other step makes a payout stand, charges or counts it anew, or dates one that
\* stands.
LEMMA OnlyTheDebitCounts ==
    ASSUME ~EarlyRequery, NoTransactionIsFinal, SettledRight, [Next]_vars,
           \A p \in Payouts : ~InitiatePayout(p)
    PROVE  /\ UNCHANGED <<charge, countedOn>>
           /\ \A p \in Payouts : status[p] # "NONE" => madeOn'[p] = madeOn[p]
           /\ \A p \in Payouts : status'[p] \in {"PROCESSING", "SUCCESSFUL"} =>
                                 status[p] \in {"PROCESSING", "SUCCESSFUL"}
<1> DEFINE Kept == /\ UNCHANGED <<charge, countedOn>>
                   /\ \A p \in Payouts : status[p] # "NONE" => madeOn'[p] = madeOn[p]
                   /\ \A p \in Payouts : status[p] = "NONE" => status'[p] = "NONE"
<1> USE DEF ledger
<1>1. ASSUME NEW p \in Payouts, NEW a \in Actors, Resolve(p, a)
      PROVE  Kept
  <2>1. status[p] # "NONE"
    BY <1>1 DEF SettledRight, Settled, OrderKept, Resolve, ApplySuccessful, ReadForReversal,
       CommitReversal, RollBackReversal, HoldForReview, StayUnresolved
  <2>2. /\ UNCHANGED <<charge, madeOn, countedOn>>
        /\ \/ status' = status
           \/ \E s \in Statuses \ {"NONE"} : status' = [status EXCEPT ![p] = s]
    BY <1>1 DEF Resolve, ApplySuccessful, ReadForReversal, CommitReversal,
       RollBackReversal, HoldForReview, StayUnresolved, Statuses
  <2> QED
    BY <2>1, <2>2 DEF SettledRight, TypeOK
<1>2. ASSUME status' = status, UNCHANGED <<charge, madeOn, countedOn>>
      PROVE  Kept
  BY <1>2
<1>3. ASSUME NEW p \in Payouts,
             \/ RefusePayout(p)
             \/ TransferMoves(p) \/ InitiateTransfer(p) \/ TransferAnswered(p)
             \/ QueueStatusJob(p) \/ WorkerTakes(p)
             \/ \E d \in Desks : DeskRequery(p, d)
             \/ \E a \in Actors : QueryAnswered(p, a) \/ Abort(p, a)
      PROVE  Kept
  BY <1>2, <1>3 DEF RefusePayout, TransferMoves, InitiateTransfer, TransferAnswered, QueueStatusJob,
     WorkerTakes, DeskRequery, QueryAnswered, Abort
<1>4. ASSUME Midnight \/ SetFreePayouts \/ UNCHANGED vars
      PROVE  Kept
  BY <1>2, <1>4 DEF Midnight, SetFreePayouts, vars
<1>7. ASSUME NEW p \in Payouts, BeginPayout(p)
      PROVE  Kept
  <2>1. status[p] = "NONE" /\ madeOn' = [madeOn EXCEPT ![p] = day]
    BY <1>7 DEF BeginPayout, SettledRight, Settled, OrderKept
  <2> QED
    BY <1>7, <2>1 DEF BeginPayout, SettledRight, TypeOK
<1>5. Kept
  BY <1>1, <1>3, <1>4, <1>7 DEF Next, Request, Worker, Desk, Actors
<1>6. \A p \in Payouts : status[p] \in Terminal => status'[p] = status[p]
  BY NextSettles
<1> QED
  BY <1>5, <1>6 DEF SettledRight, TypeOK, Statuses, Terminal

\* The inductive invariant of the limits.
LimitsInv == SettledRight /\ LimitsKept

\* Every step keeps the limits.
LEMMA NextKeepsLimits ==
    ASSUME ~EarlyRequery, NoTransactionIsFinal, LimitsInv, [Next]_vars
    PROVE  LimitsInv'
<1>1. TypeOK /\ SettledRight' /\ TypeOK'
  BY NextSettles DEF LimitsInv, SettledRight
<1>2. CASE \E p \in Payouts : InitiatePayout(p)
  <2>1. PICK p \in Payouts : InitiatePayout(p)
    BY <1>2
  <2>2. status[p] = "NONE"
    BY <2>1 DEF InitiatePayout, LimitsInv, SettledRight, Settled, OrderKept
  <2> QED
    BY <1>1, <2>1, <2>2, DebitKeepsLimits DEF LimitsInv
<1>3. CASE \A p \in Payouts : ~InitiatePayout(p)
  <2>1. /\ charge' = charge /\ countedOn' = countedOn
        /\ \A p \in Payouts : status[p] # "NONE" => madeOn'[p] = madeOn[p]
        /\ \A p \in Payouts : status'[p] \in {"PROCESSING", "SUCCESSFUL"} =>
                              status[p] \in {"PROCESSING", "SUCCESSFUL"}
    BY <1>3, OnlyTheDebitCounts DEF LimitsInv
  <2>4. ASSUME NEW w \in Wallets, NEW d \in Nat
        PROVE  /\ StandingSince(w, d)' \subseteq StandingSince(w, d)
               /\ StandingOn(w, d)' \subseteq StandingOn(w, d)
               /\ FreeOn(w, d)' \subseteq FreeOn(w, d)
    BY <2>1 DEF StandingSince, StandingOn, FreeOn, Free, PayoutsOf
  <2>5. \A w \in Wallets, d \in Nat :
           /\ StandingSince(w, d) \in SUBSET Payouts
           /\ StandingOn(w, d) \in SUBSET Payouts
           /\ FreeOn(w, d) \in SUBSET Payouts
    BY DEF StandingSince, StandingOn, FreeOn, PayoutsOf
  <2>6. ASSUME NEW w \in Wallets, NEW d \in Nat
        PROVE  /\ SumFunctionOnSet(Amount, StandingSince(w, d)')
                     <= SumFunctionOnSet(Amount, StandingSince(w, d))
               /\ SumFunctionOnSet(Amount, StandingOn(w, d)')
                     <= SumFunctionOnSet(Amount, StandingOn(w, d))
               /\ Cardinality(FreeOn(w, d)') <= Cardinality(FreeOn(w, d))
               /\ SumFunctionOnSet(Amount, StandingSince(w, d)') \in Nat
               /\ SumFunctionOnSet(Amount, StandingSince(w, d)) \in Nat
               /\ SumFunctionOnSet(Amount, StandingOn(w, d)') \in Nat
               /\ SumFunctionOnSet(Amount, StandingOn(w, d)) \in Nat
               /\ Cardinality(FreeOn(w, d)') \in Nat
               /\ Cardinality(FreeOn(w, d)) \in Nat
    BY <2>4, <2>5, PayoutSums
  <2>7. LimitsKept'
    <3>1. ASSUME NEW w \in Wallets
          PROVE  SumFunctionOnSet(Amount, StandingSince(w, 0)') <= DeviceCap[w]
      <4>1. SumFunctionOnSet(Amount, StandingSince(w, 0)) <= DeviceCap[w]
        BY LimitsAre DEF LimitsInv, CapsByDay
      <4> QED
        BY <2>6, <4>1
    <3>2. ASSUME EnforceCaps, NEW w \in Wallets, NEW d \in 0..LastDay
          PROVE  SumFunctionOnSet(Amount, StandingOn(w, d)') <= DailyCap[w]
      <4>1. SumFunctionOnSet(Amount, StandingOn(w, d)) <= DailyCap[w]
        BY <3>2, LimitsAre DEF LimitsInv, CapsByDay
      <4> QED
        BY <2>6, <4>1
    <3>3. ASSUME NEW w \in Wallets, NEW d \in 0..LastDay
          PROVE  Cardinality(FreeOn(w, d)') <= FreePerDay
      <4>1. Cardinality(FreeOn(w, d)) <= FreePerDay
        BY LimitsAre DEF LimitsInv, CapsByDay
      <4> QED
        BY <2>6, <4>1
    <3> QED
      BY <3>1, <3>2, <3>3, LimitsAre DEF CapsByDay
  <2> QED
    BY <1>1, <2>7 DEF LimitsInv
<1> QED
  BY <1>2, <1>3

\* Nothing stands at first.
LEMMA InitKeepsLimits == Init => LimitsInv
<1> SUFFICES ASSUME Init
             PROVE  LimitsInv
  OBVIOUS
<1>1. SettledRight
  BY InitSettled
<1>2. \A w \in Wallets, d \in Nat : /\ StandingSince(w, d) = {}
                                    /\ StandingOn(w, d) = {} /\ FreeOn(w, d) = {}
  BY DEF Init, StandingSince, StandingOn, FreeOn, PayoutsOf
<1>3. SumFunctionOnSet(Amount, {}) = 0 /\ Cardinality({}) = 0
  BY SumUnfolds, FS_EmptySet
<1>4. ASSUME NEW w \in Wallets, NEW d \in Nat
      PROVE  /\ SumFunctionOnSet(Amount, StandingSince(w, d)) = 0
             /\ SumFunctionOnSet(Amount, StandingOn(w, d)) = 0
             /\ Cardinality(FreeOn(w, d)) = 0
  BY <1>2, <1>3
<1>5. CapsByDay
  BY <1>4 DEF CapsByDay
<1> QED
  BY <1>1, <1>5, LimitsAre DEF LimitsInv

\* If staff wait for the request and 108 is final: whatever number of payouts
\* race for the last of a cap or the last free slot, and fail, and give theirs
\* back, no cap and no day's free payouts are exceeded, but for payouts that
\* waited over midnight for the wallet.
THEOREM LimitsHold ==
    ASSUME ~EarlyRequery, NoTransactionIsFinal
    PROVE  Spec => []LimitsKept
<1>1. LimitsInv => LimitsKept
  BY DEF LimitsInv
<1> QED
  BY <1>1, InitKeepsLimits, NextKeepsLimits, PTL DEF Spec

=============================================================================
