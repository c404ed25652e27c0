---------------------------- MODULE ServicesProofs --------------------------
(***************************************************************************)
(* Proofs about the parts in Services, and about Onboarding, which shares  *)
(* nothing with them, for every value of the constants.                    *)
(***************************************************************************)
EXTENDS Services, Onboarding, FiniteSetTheorems, TLAPS

-----------------------------------------------------------------------------
(***************************************************************************)
(* The parts.  A step of the services is a step of a part, or leaves it    *)
(* alone.                                                                  *)
(***************************************************************************)
servicesVars == <<part, sessionVars, tokenVars, noticeVars>>

\* The sessions start as Sessions says, and move as it says.
LEMMA SessionsPart ==
    /\ ServicesInit => SS!Init
    /\ [ServicesNext]_<<part, sessionVars, tokenVars, noticeVars>> => [SS!Next]_(SS!vars)
<1>1. ServicesInit => SS!Init
  BY DEF ServicesInit
<1>2. [ServicesNext]_<<part, sessionVars, tokenVars, noticeVars>> => [SS!Next]_(SS!vars)
  BY DEF ServicesNext, SS!vars, sessionVars
<1> QED
  BY <1>1, <1>2

\* The requests are told apart by what they are.
LEMMA RequestsApart ==
    /\ SignIns \cap Refreshes = {} /\ SignIns \cap Ends = {} /\ Refreshes \cap Ends = {}
    /\ None \notin SignIns \cup Tokens
  BY ServicesAssumption

USE RequestsApart
-----------------------------------------------------------------------------
(***************************************************************************)
(* Type correctness.                                                       *)
(***************************************************************************)
\* A row of the table is one of its type.
LEMMA RowFields ==
    ASSUME SS!TypeOK, NEW t \in Tokens
    PROVE  /\ token[t].of \in SignIns \cup {None} /\ token[t].live \in BOOLEAN
           /\ token[t].from \in Tokens \cup {None}
           /\ token[t] = [of |-> token[t].of, live |-> token[t].live, from |-> token[t].from]
  BY DEF SS!TypeOK, SS!Row

\* Finding rows and moving on keep the types.
LEMMA FindType ==
    ASSUME SS!TypeOK, NEW a \in SS!Runs, NEW S, SS!Find(a, S)
    PROVE  pc' \in [SS!Runs -> SS!Phases] /\ found' \in [SS!Runs -> SUBSET Tokens]
  BY DEF SS!TypeOK, SS!Find, SS!Go, SS!Phases

\* Every step keeps the types.
LEMMA SessionsNextType ==
    ASSUME SS!TypeOK, [SS!Next]_(SS!vars)
    PROVE  SS!TypeOK'
<1>0. SignIns \subseteq SS!Runs /\ Refreshes \subseteq SS!Runs /\ Ends \subseteq SS!Runs
  BY DEF SS!Runs
<1>1. CASE UNCHANGED SS!vars
  BY <1>1 DEF SS!TypeOK, SS!vars
<1>2. ASSUME NEW s \in SignIns, SS!Login(s)
      PROVE  SS!TypeOK'
  BY <1>0, <1>2, FindType DEF SS!TypeOK, SS!Login
<1>3. ASSUME NEW s \in SignIns, SS!CreateExclusive(s)
      PROVE  SS!TypeOK'
  BY <1>0, <1>3 DEF SS!TypeOK, SS!CreateExclusive, SS!Go, SS!Phases
<1>4. ASSUME NEW s \in SignIns, SS!IssueTokenPair(s)
      PROVE  SS!TypeOK'
  BY <1>0, <1>4 DEF SS!TypeOK, SS!IssueTokenPair, SS!Go, SS!Phases, SS!Row
<1>5. ASSUME NEW r \in Refreshes, SS!Present(r)
      PROVE  SS!TypeOK'
  <2>1. pc' \in [SS!Runs -> SS!Phases] /\ found' \in [SS!Runs -> SUBSET Tokens]
    BY <1>0, <1>5, FindType DEF SS!TypeOK, SS!Present, SS!Go, SS!Phases
  <2> QED
    BY <1>5, <2>1 DEF SS!TypeOK, SS!Present
<1>6. ASSUME NEW r \in Refreshes, SS!LockToken(r)
      PROVE  SS!TypeOK'
  BY <1>0, <1>6 DEF SS!TypeOK, SS!LockToken, SS!Go, SS!Phases
<1>7. ASSUME NEW r \in Refreshes, SS!Rotate(r)
      PROVE  SS!TypeOK'
  <2>1. PICK old \in found[r], new \in Tokens :
           token' = [token EXCEPT ![old].live = FALSE,
                        ![new] = [of |-> token[old].of, live |-> TRUE, from |-> old]]
    BY <1>7 DEF SS!Rotate
  <2>2. old \in Tokens
    BY <1>0 DEF SS!TypeOK
  <2> DEFINE mid  == [token EXCEPT ![old].live = FALSE]
             row2 == [of |-> token[old].of, live |-> TRUE, from |-> old]
  <2>3. token' = [mid EXCEPT ![new] = row2]
    BY <2>1
  <2>4. row2 \in SS!Row
    BY <2>2, RowFields DEF SS!Row
  <2>5. [token[old] EXCEPT !.live = FALSE] \in SS!Row
    <3>1. token[old] \in SS!Row
      BY <2>2 DEF SS!TypeOK
    <3> QED
      BY <3>1 DEF SS!Row
  <2>6. mid \in [Tokens -> SS!Row]
    BY <2>2, <2>5 DEF SS!TypeOK
  <2>7. token' \in [Tokens -> SS!Row]
    <3> HIDE DEF mid, row2
    <3> QED
      BY <2>3, <2>4, <2>6
  <2> QED
    BY <1>0, <1>7, <2>7 DEF SS!TypeOK, SS!Rotate, SS!Go, SS!Phases
<1>8. ASSUME NEW e \in Ends, SS!EndSessions(e) \/ SS!DropSession(e)
      PROVE  SS!TypeOK'
  <2>1. CASE SS!EndSessions(e)
    <3>1. PICK S \in {SignIns} \cup {{s} : s \in SS!Created} \cup {SignIns \ {s} : s \in SS!Created} :
             /\ session' = [s \in SignIns |-> IF s \in S /\ session[s] = "live"
                                              THEN "revoked" ELSE session[s]]
             /\ scope' = [scope EXCEPT ![e] = S]
      BY <2>1 DEF SS!EndSessions
    <3>2. S \subseteq SignIns
      BY DEF SS!Created
    <3> QED
      BY <1>0, <2>1, <3>1, <3>2 DEF SS!TypeOK, SS!EndSessions, SS!Go, SS!Phases
  <2>2. CASE SS!DropSession(e)
    BY <1>0, <2>2 DEF SS!TypeOK, SS!DropSession, SS!Go, SS!Phases
  <2> QED
    BY <1>8, <2>1, <2>2
<1>9. ASSUME NEW e \in Ends, SS!EndTokens(e)
      PROVE  SS!TypeOK'
  BY <1>0, <1>9, FindType DEF SS!TypeOK, SS!EndTokens
<1>10. ASSUME NEW a \in SS!Runs, SS!Revoke(a)
       PROVE  SS!TypeOK'
  <2>1. \A t \in Tokens : token[t] \in SS!Row /\ [token[t] EXCEPT !.live = FALSE] \in SS!Row
    BY DEF SS!TypeOK, SS!Row
  <2>2. token' \in [Tokens -> SS!Row]
    BY <1>10, <2>1 DEF SS!Revoke
  <2> QED
    BY <1>10, <2>2 DEF SS!TypeOK, SS!Revoke, SS!Go, SS!Phases
<1>11. ASSUME NEW a \in SS!Runs, SS!Die(a)
       PROVE  SS!TypeOK'
  BY <1>11 DEF SS!TypeOK, SS!Die, SS!Go, SS!Phases
<1> QED
  BY <1>1, <1>2, <1>3, <1>4, <1>5, <1>6, <1>7, <1>8, <1>9, <1>10, <1>11 DEF SS!Next

\* The initial state is well typed.
LEMMA SessionsInitType == SS!Init => SS!TypeOK
  BY DEF SS!Init, SS!TypeOK, SS!Unissued, SS!Row, SS!Phases

\* Every reachable state is well typed.
THEOREM SessionsTypeCorrect == ServicesSpec => []SS!TypeOK
  BY SessionsInitType, SessionsNextType, SessionsPart, PTL DEF ServicesSpec

-----------------------------------------------------------------------------
(***************************************************************************)
(* At most one live session.                                               *)
(***************************************************************************)
\* At most one session row is live, whatever requests race.
THEOREM NeverTwoSessions == ServicesSpec => []SS!OneLiveSession
<1>1. SS!Init => SS!OneLiveSession
  BY DEF SS!Init, SS!OneLiveSession
<1>2. SS!TypeOK /\ SS!OneLiveSession /\ [SS!Next]_(SS!vars) => SS!OneLiveSession'
  <2> SUFFICES ASSUME SS!TypeOK, SS!OneLiveSession, [SS!Next]_(SS!vars)
               PROVE  SS!OneLiveSession'
    OBVIOUS
  <2>1. CASE session' = session
    BY <2>1 DEF SS!OneLiveSession
  <2>2. ASSUME NEW s \in SignIns, SS!CreateExclusive(s)
        PROVE  SS!OneLiveSession'
    BY <2>2 DEF SS!OneLiveSession, SS!CreateExclusive, SS!TypeOK
  <2>3. ASSUME NEW e \in Ends, SS!EndSessions(e)
        PROVE  SS!OneLiveSession'
    BY <2>3 DEF SS!OneLiveSession, SS!EndSessions, SS!TypeOK
  <2>4. ASSUME NEW e \in Ends, SS!DropSession(e)
        PROVE  SS!OneLiveSession'
    BY <2>4 DEF SS!OneLiveSession, SS!DropSession, SS!TypeOK
  <2> QED
    BY <2>1, <2>2, <2>3, <2>4 DEF SS!Next, SS!vars, SS!Login, SS!IssueTokenPair, SS!Present, SS!LockToken,
       SS!Rotate, SS!EndTokens, SS!Revoke, SS!Die
<1> QED
  BY <1>1, <1>2, SessionsTypeCorrect, SessionsPart, PTL DEF ServicesSpec

-----------------------------------------------------------------------------
(***************************************************************************)
(* Chains.  A session's first token is issued when it has none.  One       *)
(* rotation at a time holds a token, and the token is live; so a token     *)
(* that was replaced is not live, and is not replaced again.               *)
(***************************************************************************)
FirstToken ==
    \A s \in SignIns : pc[s] # "over" => \A t \in Tokens : token[t].of # s

Holding ==
    \A r \in Refreshes :
       /\ pc[r] \in {"presenting", "rotating"} =>
             \E t \in Tokens : found[r] = {t} /\ token[t].of # None
       /\ pc[r] = "rotating" =>
             /\ \A t \in found[r] : token[t].live
             /\ \A q \in Refreshes \ {r} : pc[q] = "rotating" => found[q] \cap found[r] = {}

Links ==
    \A t \in Tokens :
       /\ token[t].live => token[t].of # None
       /\ token[t].from # None =>
             /\ token[t].from \in Tokens
             /\ ~token[token[t].from].live
             /\ token[t].of # None /\ token[token[t].from].of = token[t].of

ChainInv == SS!TypeOK /\ FirstToken /\ Holding /\ Links /\ SS!OneLink

\* The steps that leave the table alone.
LEMMA TableStays ==
    ASSUME ChainInv, token' = token, SS!TypeOK',
           \A s \in SignIns : pc'[s] # "over" => pc[s] # "over",
           Holding'
    PROVE  ChainInv'
<1>1. FirstToken'
  BY DEF ChainInv, FirstToken
<1>2. Links' /\ SS!OneLink'
  BY DEF ChainInv, Links, SS!OneLink
<1> QED
  BY <1>1, <1>2 DEF ChainInv

\* A request that only changes its own phase, and holds no token after it, leaves
\* what the others hold.
LEMMA HoldingStays ==
    ASSUME Holding, SS!TypeOK, NEW a \in SS!Runs,
           \A b \in SS!Runs \ {a} : pc'[b] = pc[b] /\ found'[b] = found[b],
           a \in Refreshes => pc'[a] \notin {"presenting", "rotating"},
           \A t \in Tokens : token[t].of # None => token'[t].of = token[t].of,
           \A r \in Refreshes \ {a} : pc[r] = "rotating" =>
              \A t \in found[r] : token'[t].live
    PROVE  Holding'
<1>1. ASSUME NEW r \in Refreshes, pc'[r] \in {"presenting", "rotating"}
      PROVE  r \in Refreshes \ {a} /\ pc'[r] = pc[r] /\ found'[r] = found[r]
  BY <1>1 DEF SS!Runs
<1>2. ASSUME NEW r \in Refreshes, pc'[r] \in {"presenting", "rotating"}
      PROVE  \E t \in Tokens : found'[r] = {t} /\ token'[t].of # None
  BY <1>1, <1>2, RowFields DEF Holding
<1>3. ASSUME NEW r \in Refreshes, pc'[r] = "rotating"
      PROVE  /\ \A t \in found'[r] : token'[t].live
             /\ \A q \in Refreshes \ {r} : pc'[q] = "rotating" => found'[q] \cap found'[r] = {}
  BY <1>1, <1>3 DEF Holding
<1> QED
  BY <1>2, <1>3 DEF Holding

\* What finding rows changes.
LEMMA FindFrame ==
    ASSUME SS!TypeOK, NEW a \in SS!Runs, NEW S, SS!Find(a, S)
    PROVE  /\ pc'[a] = "revoking"
           /\ \A b \in SS!Runs \ {a} : pc'[b] = pc[b] /\ found'[b] = found[b]
  BY DEF SS!TypeOK, SS!Find, SS!Go

\* ChainInv is inductive.
LEMMA NextChain ==
    ASSUME ChainInv, [SS!Next]_(SS!vars)
    PROVE  ChainInv'
<1>0. /\ SignIns \subseteq SS!Runs /\ Refreshes \subseteq SS!Runs /\ Ends \subseteq SS!Runs
      /\ SS!TypeOK /\ SS!TypeOK' /\ Holding
  BY SessionsNextType DEF SS!Runs, ChainInv
<1>a. pc \in [SS!Runs -> SS!Phases] /\ found \in [SS!Runs -> SUBSET Tokens]
  BY <1>0 DEF SS!TypeOK
<1>1. CASE UNCHANGED SS!vars
  <2>1. Holding'
    BY <1>0, <1>1 DEF Holding, SS!vars
  <2> QED
    BY <1>0, <1>1, <2>1, TableStays DEF SS!vars
<1>2. ASSUME NEW a \in SS!Runs, NEW S, SS!Find(a, S), pc[a] \in {"idle", "ending"}, token' = token
      PROVE  ChainInv'
  <2>1. /\ pc'[a] = "revoking"
        /\ \A b \in SS!Runs \ {a} : pc'[b] = pc[b] /\ found'[b] = found[b]
    BY <1>0, <1>2, FindFrame
  <2>2. Holding'
    BY <1>0, <1>2, <2>1, HoldingStays DEF Holding
  <2>3. \A s \in SignIns : pc'[s] # "over" => pc[s] # "over"
    BY <1>0, <1>2, <2>1
  <2> QED
    BY <1>0, <1>2, <2>2, <2>3, TableStays
<1>3. ASSUME NEW a \in SS!Runs, NEW phase \in SS!Phases \ {"presenting", "rotating"}, SS!Go(a, phase),
             found' = found \/ found' = [found EXCEPT ![a] = {}],
             pc[a] # "over", token' = token
      PROVE  ChainInv'
  <2>1. /\ pc'[a] = phase
        /\ \A b \in SS!Runs \ {a} : pc'[b] = pc[b] /\ found'[b] = found[b]
    BY <1>a, <1>3 DEF SS!Go
  <2>2. Holding'
    BY <1>0, <1>3, <2>1, HoldingStays DEF Holding
  <2>3. \A s \in SignIns : pc'[s] # "over" => pc[s] # "over"
    BY <1>0, <1>3, <2>1
  <2> QED
    BY <1>0, <1>3, <2>2, <2>3, TableStays
<1>4. ASSUME NEW s \in SignIns, SS!IssueTokenPair(s)
      PROVE  ChainInv'
  <2>1. PICK t \in Tokens :
           /\ token[t] = SS!Unissued
           /\ token' = [token EXCEPT ![t] = [of |-> s, live |-> TRUE, from |-> None]]
    BY <1>4 DEF SS!IssueTokenPair
  <2>2. /\ token[t].of = None /\ ~token[t].live
        /\ token'[t].of = s /\ token'[t].live /\ token'[t].from = None
        /\ \A u \in Tokens \ {t} : token'[u] = token[u]
    BY <1>0, <2>1 DEF SS!Unissued, SS!TypeOK
  <2>3. /\ pc[s] = "issuing" /\ pc'[s] = "over"
        /\ \A b \in SS!Runs \ {s} : pc'[b] = pc[b] /\ found'[b] = found[b]
    BY <1>0, <1>a, <1>4 DEF SS!IssueTokenPair, SS!Go
  <2>4. \A u \in Tokens : token[u].of # s
    BY <2>3 DEF ChainInv, FirstToken
  <2>5. s # None /\ s \notin Refreshes
    OBVIOUS
  <2>6. Holding'
    <3>1. \A u \in Tokens : token[u].of # None => token'[u] = token[u]
      BY <2>2
    <3>2. \A r \in Refreshes \ {s} : pc[r] = "rotating" => \A u \in found[r] : token'[u].live
      BY <1>0, <2>2 DEF Holding
    <3> QED
      BY <1>0, <2>3, <2>5, <3>1, <3>2, HoldingStays
  <2>7. FirstToken'
    BY <1>0, <2>2, <2>3 DEF ChainInv, FirstToken
  <2>8. Links'
    <3>1. ASSUME NEW u \in Tokens, token[u].from = t, u # t
          PROVE  FALSE
      BY <2>2, <2>5, <3>1 DEF ChainInv, Links
    <3>2. ASSUME NEW u \in Tokens \ {t}
          PROVE  /\ token'[u].live => token'[u].of # None
                 /\ token'[u].from # None =>
                       /\ token'[u].from \in Tokens
                       /\ ~token'[token'[u].from].live
                       /\ token'[u].of # None /\ token'[token'[u].from].of = token'[u].of
      BY <2>2, <3>1 DEF ChainInv, Links
    <3> QED
      BY <2>2, <2>5, <3>2 DEF Links
  <2>9. SS!OneLink'
    BY <2>2, <2>4 DEF ChainInv, SS!OneLink
  <2> QED
    BY <1>0, <2>6, <2>7, <2>8, <2>9 DEF ChainInv
<1>5. ASSUME NEW r \in Refreshes, SS!Present(r)
      PROVE  ChainInv'
  <2>1. pc[r] = "idle" /\ token' = token
    BY <1>5 DEF SS!Present
  <2>2. PICK t \in Tokens :
           \/ token[t].live /\ found' = [found EXCEPT ![r] = {t}] /\ SS!Go(r, "presenting")
           \/ SS!Find(r, {token[t].of})
    BY <1>5 DEF SS!Present
  <2>3. CASE SS!Find(r, {token[t].of})
    BY <1>0, <1>2, <2>1, <2>3
  <2>4. CASE token[t].live /\ found' = [found EXCEPT ![r] = {t}] /\ SS!Go(r, "presenting")
    <3>1. /\ pc'[r] = "presenting" /\ found'[r] = {t} /\ token[t].of # None
          /\ \A b \in SS!Runs \ {r} : pc'[b] = pc[b] /\ found'[b] = found[b]
      BY <1>0, <1>a, <2>4 DEF SS!Go, ChainInv, Links
    <3>2. Holding'
      BY <1>0, <2>1, <3>1 DEF Holding
    <3>3. \A s \in SignIns : pc'[s] # "over" => pc[s] # "over"
      BY <1>0, <3>1
    <3> QED
      BY <1>0, <2>1, <3>2, <3>3, TableStays
  <2> QED
    BY <2>2, <2>3, <2>4
<1>6. ASSUME NEW r \in Refreshes, SS!LockToken(r)
      PROVE  ChainInv'
  <2>1. pc[r] = "presenting" /\ token' = token /\ \A t \in found[r] : ~SS!Locked(t)
    BY <1>6 DEF SS!LockToken
  <2>2. CASE SS!Go(r, "over") /\ found' = [found EXCEPT ![r] = {}]
    <3>1. "over" \in SS!Phases \ {"presenting", "rotating"}
      BY DEF SS!Phases
    <3> QED
      BY <1>0, <1>3, <2>1, <2>2, <3>1
  <2>3. CASE SS!Go(r, "rotating") /\ found' = found /\ \A t \in found[r] : token[t].live
    <3>1. /\ pc'[r] = "rotating"
          /\ \A b \in SS!Runs \ {r} : pc'[b] = pc[b]
      BY <1>0, <1>a, <2>3 DEF SS!Go
    <3>2. \A q \in Refreshes \ {r} : pc'[q] = "rotating" => found[q] \cap found[r] = {}
      BY <1>0, <2>1, <3>1 DEF SS!Locked
    <3>3. Holding'
      BY <1>0, <2>1, <2>3, <3>1, <3>2 DEF Holding
    <3>4. \A s \in SignIns : pc'[s] # "over" => pc[s] # "over"
      BY <1>0, <3>1
    <3> QED
      BY <1>0, <2>1, <3>3, <3>4, TableStays
  <2> QED
    BY <1>6, <2>2, <2>3 DEF SS!LockToken
<1>7. ASSUME NEW r \in Refreshes, SS!Rotate(r)
      PROVE  ChainInv'
  <2>1. PICK old \in found[r], new \in Tokens :
           /\ token[new] = SS!Unissued
           /\ token' = [token EXCEPT ![old].live = FALSE,
                           ![new] = [of |-> token[old].of, live |-> TRUE, from |-> old]]
    BY <1>7 DEF SS!Rotate
  <2>2. /\ pc[r] = "rotating" /\ pc'[r] = "over"
        /\ \A b \in SS!Runs \ {r} : pc'[b] = pc[b] /\ found'[b] = found[b]
    BY <1>0, <1>a, <1>7 DEF SS!Rotate, SS!Go
  <2>3. old \in Tokens /\ token[old].live /\ token[old].of # None /\ old # None
    BY <1>0, <1>a, <2>2 DEF Holding
  <2>4. token[new].of = None /\ ~token[new].live /\ new # old
    BY <2>1, <2>3 DEF SS!Unissued
  <2>5. /\ token'[new].of = token[old].of /\ token'[new].live /\ token'[new].from = old
        /\ token'[old].of = token[old].of /\ ~token'[old].live /\ token'[old].from = token[old].from
        /\ \A u \in Tokens \ {old, new} : token'[u] = token[u]
    BY <1>0, <2>1, <2>3, <2>4, RowFields DEF SS!TypeOK
  <2>6. \A u \in Tokens : token[u].from \notin {old, new}
    BY <2>3, <2>4 DEF ChainInv, Links
  <2>7. Holding'
    <3>1. \A u \in Tokens : token[u].of # None => token'[u].of = token[u].of
      BY <2>4, <2>5
    <3>2. ASSUME NEW q \in Refreshes \ {r}, pc[q] = "rotating", NEW u \in found[q]
          PROVE  token'[u].live
      <4>1. token[u].live /\ u # old /\ u \in Tokens
        BY <1>0, <1>a, <2>2, <3>2 DEF Holding
      <4> QED
        BY <2>5, <4>1
    <3> QED
      BY <1>0, <2>2, <3>1, <3>2, HoldingStays
  <2>8. FirstToken'
    <3>1. \A s \in SignIns : pc'[s] = pc[s]
      BY <1>0, <2>2
    <3> QED
      BY <2>3, <2>5, <3>1 DEF ChainInv, FirstToken
  <2>9. Links'
    <3>1. ASSUME NEW u \in Tokens \ {new}
          PROVE  /\ token'[u].from = token[u].from /\ token'[u].of = token[u].of
                 /\ token'[u].live => token[u].live
      BY <2>5
    <3>2. ASSUME NEW u \in Tokens \ {new}, token'[u].from # None
          PROVE  /\ token'[u].from \in Tokens /\ ~token'[token'[u].from].live
                 /\ token'[u].of # None /\ token'[token'[u].from].of = token'[u].of
      <4>1. token[u].from \in Tokens \ {old, new}
        BY <2>6, <3>1, <3>2 DEF ChainInv, Links
      <4> QED
        BY <3>1, <3>2, <4>1 DEF ChainInv, Links
    <3>3. \A u \in Tokens : token'[u].live => token'[u].of # None
      BY <2>3, <2>5, <3>1 DEF ChainInv, Links
    <3> QED
      BY <2>3, <2>5, <3>2, <3>3 DEF Links
  <2>10. SS!OneLink'
    <3>1. \A u \in Tokens \ {old, new} :
             token[u].of = token[old].of => ~token[u].live
      BY <2>3 DEF ChainInv, SS!OneLink
    <3>2. ASSUME NEW u \in Tokens \ {new}, token'[u].of = token'[new].of
          PROVE  token'[u].from # token'[new].from /\ ~token'[u].live
      BY <2>5, <2>6, <3>1, <3>2
    <3>3. ASSUME NEW u \in Tokens \ {new}, NEW x \in Tokens \ {new}, u # x,
                 token'[u].of # None, token'[u].of = token'[x].of
          PROVE  token'[u].from # token'[x].from /\ ~(token'[u].live /\ token'[x].live)
      BY <2>5, <3>3 DEF ChainInv, SS!OneLink
    <3> QED
      BY <3>2, <3>3 DEF SS!OneLink
  <2> QED
    BY <1>0, <2>7, <2>8, <2>9, <2>10 DEF ChainInv
<1>8. ASSUME NEW a \in SS!Runs, SS!Revoke(a)
      PROVE  ChainInv'
  <2>1. /\ pc[a] = "revoking" /\ \A t \in found[a] : ~SS!Locked(t)
        /\ pc'[a] \in {"creating", "over"}
        /\ a \in SignIns => pc'[a] = "creating"
        /\ \A b \in SS!Runs \ {a} : pc'[b] = pc[b] /\ found'[b] = found[b]
    BY <1>a, <1>8 DEF SS!Revoke, SS!Go
  <2>2. \A t \in Tokens :
           /\ token'[t].of = token[t].of /\ token'[t].from = token[t].from
           /\ token'[t].live => token[t].live
           /\ t \notin found[a] => token'[t] = token[t]
    BY <1>0, <1>8, RowFields DEF SS!Revoke
  <2>3. Holding'
    <3>1. ASSUME NEW r \in Refreshes \ {a}, pc[r] = "rotating", NEW t \in found[r]
          PROVE  token'[t].live
      <4>1. t \in Tokens /\ t \notin found[a] /\ token[t].live
        BY <1>0, <1>a, <2>1, <3>1 DEF SS!Locked, Holding
      <4> QED
        BY <2>2, <4>1
    <3> QED
      BY <1>0, <2>1, <2>2, <3>1, HoldingStays
  <2>4. FirstToken'
    <3>1. \A s \in SignIns : pc'[s] # "over" => pc[s] # "over"
      BY <1>0, <2>1
    <3> QED
      BY <2>2, <3>1 DEF ChainInv, FirstToken
  <2>5. Links'
    BY <2>2 DEF ChainInv, Links
  <2>6. SS!OneLink'
    BY <2>2 DEF ChainInv, SS!OneLink
  <2> QED
    BY <1>0, <2>3, <2>4, <2>5, <2>6 DEF ChainInv
<1>9. ASSUME NEW s \in SignIns, SS!Login(s) \/ SS!CreateExclusive(s)
      PROVE  ChainInv'
  <2>1. "issuing" \in SS!Phases \ {"presenting", "rotating"}
    BY DEF SS!Phases
  <2> QED
    BY <1>0, <1>2, <1>3, <1>9, <2>1 DEF SS!Login, SS!CreateExclusive
<1>10. ASSUME NEW e \in Ends, SS!EndSessions(e) \/ SS!EndTokens(e) \/ SS!DropSession(e)
       PROVE  ChainInv'
  <2>1. {"ending", "over"} \subseteq SS!Phases \ {"presenting", "rotating"}
    BY DEF SS!Phases
  <2> QED
    BY <1>0, <1>2, <1>3, <1>10, <2>1 DEF SS!EndSessions, SS!EndTokens, SS!DropSession
<1>11. ASSUME NEW a \in SS!Runs, SS!Die(a)
       PROVE  ChainInv'
  <2>1. "over" \in SS!Phases \ {"presenting", "rotating"}
    BY DEF SS!Phases
  <2> QED
    BY <1>3, <1>11, <2>1 DEF SS!Die
<1> QED
  BY <1>1, <1>4, <1>5, <1>6, <1>7, <1>8, <1>9, <1>10, <1>11 DEF SS!Next

\* No token is issued at the start.
LEMMA InitChain == SS!Init => ChainInv
<1>1. SS!Init => FirstToken /\ Holding /\ Links /\ SS!OneLink
  BY DEF SS!Init, FirstToken, Holding, Links, SS!OneLink, SS!Unissued, SS!Runs
<1> QED
  BY <1>1, SessionsInitType DEF ChainInv

\* No token is rotated twice, and a session has at most one live token.
THEOREM TokensFormAChain == ServicesSpec => []OneChain
<1>1. ChainInv /\ SS!OneLiveSession => OneChain
  BY DEF ChainInv, OneChain, SS!OneChain
<1> QED
  BY <1>1, InitChain, NextChain, NeverTwoSessions, SessionsPart, PTL DEF ServicesSpec

\* A session that cannot be refreshed any more stays so.
THEOREM DeadSessionsStayDead == ServicesSpec => DeadStaysDead
<1>1. ASSUME ChainInv, [SS!Next]_(SS!vars), NEW s \in SignIns, SS!Dead(s)
      PROVE  SS!Dead(s)'
  <2>0. s \in SS!Runs /\ SS!TypeOK /\ pc[s] = "over" /\ s # None
    BY <1>1 DEF SS!Runs, ChainInv, SS!Dead
  <2>a. pc \in [SS!Runs -> SS!Phases] /\ found \in [SS!Runs -> SUBSET Tokens] /\ Refreshes \subseteq SS!Runs
    BY <2>0 DEF SS!TypeOK, SS!Runs
  <2>1. CASE pc'[s] = "over" /\ token' = token
    BY <1>1, <2>1 DEF SS!Dead
  <2>2. ASSUME NEW x \in SignIns, SS!IssueTokenPair(x)
        PROVE  SS!Dead(s)'
    <3>1. x # s /\ x \in SS!Runs
      BY <2>0, <2>2 DEF SS!IssueTokenPair, SS!Runs
    <3> QED
      BY <1>1, <2>0, <2>a, <2>2, <3>1 DEF SS!IssueTokenPair, SS!Dead, SS!Go, SS!TypeOK
  <2>3. ASSUME NEW r \in Refreshes, SS!Rotate(r)
        PROVE  SS!Dead(s)'
    <3>1. PICK old \in found[r], new \in Tokens :
             /\ token[new] = SS!Unissued
             /\ token' = [token EXCEPT ![old].live = FALSE,
                             ![new] = [of |-> token[old].of, live |-> TRUE, from |-> old]]
      BY <2>3 DEF SS!Rotate
    <3>2. old \in Tokens /\ token[old].live
      BY <1>1, <2>a, <2>3 DEF SS!Rotate, ChainInv, Holding
    <3>3. token[old].of # s
      BY <1>1, <3>2 DEF SS!Dead
    <3>4. pc'[s] = "over"
      BY <2>0, <2>a, <2>3 DEF SS!Rotate, SS!Go
    <3>5. token'[new].of # s /\ \A u \in Tokens \ {new} :
             token'[u].of = token[u].of /\ (token'[u].live => token[u].live)
      BY <2>0, <3>1, <3>2, <3>3, RowFields DEF SS!TypeOK
    <3> QED
      BY <1>1, <3>4, <3>5 DEF SS!Dead
  <2>4. ASSUME NEW a \in SS!Runs, SS!Revoke(a)
        PROVE  SS!Dead(s)'
    <3>1. a # s
      BY <2>0, <2>4 DEF SS!Revoke
    <3>2. pc'[s] = "over"
      BY <2>0, <2>a, <2>4, <3>1 DEF SS!Revoke, SS!Go
    <3>3. \A t \in Tokens : token'[t].of = token[t].of /\ (token'[t].live => token[t].live)
      BY <2>0, <2>4, RowFields DEF SS!Revoke
    <3> QED
      BY <1>1, <3>2, <3>3 DEF SS!Dead
  <2>5. ASSUME NEW a \in SS!Runs, NEW phase, SS!Go(a, phase), pc[a] # "over"
        PROVE  pc'[s] = "over"
    BY <2>0, <2>a, <2>5 DEF SS!Go
  <2>6. SignIns \subseteq SS!Runs /\ Ends \subseteq SS!Runs
    BY DEF SS!Runs
  <2>7. ASSUME NEW x \in SignIns, SS!Login(x) \/ SS!CreateExclusive(x)
        PROVE  SS!Dead(s)'
    BY <2>1, <2>5, <2>6, <2>7 DEF SS!Login, SS!CreateExclusive, SS!Find
  <2>8. ASSUME NEW r \in Refreshes, SS!Present(r) \/ SS!LockToken(r)
        PROVE  SS!Dead(s)'
    BY <2>a, <2>1, <2>5, <2>8 DEF SS!Present, SS!LockToken, SS!Find
  <2>9. ASSUME NEW e \in Ends, SS!EndSessions(e) \/ SS!EndTokens(e) \/ SS!DropSession(e)
        PROVE  SS!Dead(s)'
    BY <2>1, <2>5, <2>6, <2>9 DEF SS!EndSessions, SS!EndTokens, SS!DropSession, SS!Find
  <2>10. ASSUME NEW a \in SS!Runs, SS!Die(a)
         PROVE  SS!Dead(s)'
    BY <2>1, <2>5, <2>10 DEF SS!Die
  <2>11. CASE UNCHANGED SS!vars
    BY <2>0, <2>1, <2>11 DEF SS!vars
  <2> QED
    BY <1>1, <2>2, <2>3, <2>4, <2>7, <2>8, <2>9, <2>10, <2>11 DEF SS!Next
<1>2. ChainInv /\ [SS!Next]_(SS!vars) => [\A s \in SignIns : SS!Dead(s) => SS!Dead(s)']_(SS!vars)
  BY <1>1
<1> QED
  BY <1>2, InitChain, NextChain, SessionsPart, PTL DEF ServicesSpec, DeadStaysDead, SS!DeadStaysDead

-----------------------------------------------------------------------------
(***************************************************************************)
(* Delivery.  The counts of a message's copies, as the broker, the         *)
(* consumer and the providers change them.  For the second half of         *)
(* DeliveredAsAsked the invariant also counts the copies that may yet be   *)
(* sent.                                                                   *)
(***************************************************************************)
Counted(t) ==
    /\ t.emitted - t.swallowed <= t.waiting + t.sending + t.sent + t.deadLettered + t.dropped
    /\ t.waiting + t.sending + t.sent + t.swallowed <= t.emitted + t.returned

CopiesInv == copies \in [N!Messages -> N!Tally] /\ \A m \in N!Messages : Counted(copies[m])

\* A tally with one count moved on is the tally with that count.
LEMMA TallyFields ==
    ASSUME NEW t \in N!Tally
    PROVE  /\ {t.emitted, t.swallowed, t.waiting, t.sending, t.taken, t.sent, t.deadLettered,
               t.dropped, t.returned} \subseteq Nat
           /\ t = [emitted |-> t.emitted, swallowed |-> t.swallowed, waiting |-> t.waiting,
                   sending |-> t.sending, taken |-> t.taken, sent |-> t.sent,
                   deadLettered |-> t.deadLettered, dropped |-> t.dropped,
                   returned |-> t.returned]
  BY DEF N!Tally

\* A tally with another count in it is a tally.
LEMMA TallyWith ==
    ASSUME NEW t \in N!Tally, NEW n \in Nat
    PROVE  /\ [t EXCEPT !.emitted = n] \in N!Tally
           /\ [t EXCEPT !.swallowed = n] \in N!Tally
           /\ [t EXCEPT !.waiting = n] \in N!Tally
           /\ [t EXCEPT !.sending = n] \in N!Tally
           /\ [t EXCEPT !.taken = n] \in N!Tally
           /\ [t EXCEPT !.sent = n] \in N!Tally
           /\ [t EXCEPT !.deadLettered = n] \in N!Tally
           /\ [t EXCEPT !.dropped = n] \in N!Tally
           /\ [t EXCEPT !.returned = n] \in N!Tally
  BY DEF N!Tally

\* Emitting adds a copy of each message of a set, at the broker or lost.
LEMMA EmitCounts ==
    ASSUME CopiesInv, NEW S, N!Emit(S)
    PROVE  CopiesInv'
<1>1. ASSUME NEW m \in N!Messages
      PROVE  copies'[m] \in N!Tally /\ Counted(copies'[m])
  <2>1. copies[m] \in N!Tally /\ Counted(copies[m])
    BY DEF CopiesInv
  <2>2. \/ copies'[m] = copies[m]
        \/ copies'[m] = [copies[m] EXCEPT !.emitted = @ + 1, !.waiting = @ + 1]
        \/ copies'[m] = [copies[m] EXCEPT !.emitted = @ + 1, !.swallowed = @ + 1]
    BY DEF N!Emit
  <2> DEFINE t == copies[m]
  <2>3. t \in N!Tally /\ Counted(t)
    BY <2>1
  <2> HIDE DEF t
  <2>4. ASSUME NEW u, u = [t EXCEPT !.emitted = @ + 1, !.waiting = @ + 1]
        PROVE  u \in N!Tally /\ Counted(u)
    <3>1. u \in N!Tally
      <4> DEFINE
        u1 == [t EXCEPT !.emitted = t.emitted + 1]
        u2 == [u1 EXCEPT !.waiting = t.waiting + 1]
      <4>1. u = u2
        BY <2>3, <2>4 DEF N!Tally
      <4>2. {t.emitted + 1, t.waiting + 1} \subseteq Nat
        BY <2>3, <2>4, TallyFields
      <4>3. u1 \in N!Tally
        BY <2>3, <2>4, <4>2, TallyWith
      <4>4. u2 \in N!Tally
        BY <4>3, <4>2, TallyWith
      <4> QED
        BY <4>1, <4>4
    <3>2. /\ u.emitted = t.emitted + 1 /\ u.waiting = t.waiting + 1
          /\ u.swallowed = t.swallowed /\ u.sending = t.sending /\ u.sent = t.sent
          /\ u.deadLettered = t.deadLettered /\ u.dropped = t.dropped
          /\ u.returned = t.returned
      BY <2>3, <2>4, TallyFields
    <3> QED
      BY <2>3, <3>1, <3>2, TallyFields DEF Counted
  <2>5. ASSUME NEW u, u = [t EXCEPT !.emitted = @ + 1, !.swallowed = @ + 1]
        PROVE  u \in N!Tally /\ Counted(u)
    <3>1. u \in N!Tally
      <4> DEFINE
        u1 == [t EXCEPT !.emitted = t.emitted + 1]
        u2 == [u1 EXCEPT !.swallowed = t.swallowed + 1]
      <4>1. u = u2
        BY <2>3, <2>5 DEF N!Tally
      <4>2. {t.emitted + 1, t.swallowed + 1} \subseteq Nat
        BY <2>3, <2>5, TallyFields
      <4>3. u1 \in N!Tally
        BY <2>3, <2>5, <4>2, TallyWith
      <4>4. u2 \in N!Tally
        BY <4>3, <4>2, TallyWith
      <4> QED
        BY <4>1, <4>4
    <3>2. /\ u.emitted = t.emitted + 1 /\ u.swallowed = t.swallowed + 1
          /\ u.waiting = t.waiting /\ u.sending = t.sending /\ u.sent = t.sent
          /\ u.deadLettered = t.deadLettered /\ u.dropped = t.dropped
          /\ u.returned = t.returned
      BY <2>3, <2>5, TallyFields
    <3> QED
      BY <2>3, <3>1, <3>2, TallyFields DEF Counted
  <2> QED
    BY <2>1, <2>2, <2>4, <2>5 DEF t
<1>2. copies' \in [N!Messages -> N!Tally]
  <2>1. copies' = [m \in N!Messages |-> copies'[m]]
    BY DEF N!Emit
  <2> QED
    BY <1>1, <2>1
<1> QED
  BY <1>1, <1>2 DEF CopiesInv

\* What the consumer and the providers do to one message's counts.
Handled(t, u) ==
    \/ t.waiting > 0 /\ u = [t EXCEPT !.waiting = @ - 1, !.sending = @ + 1]
    \/ t.sending > 0 /\ u = [t EXCEPT !.sending = @ - 1, !.taken = @ + 1, !.sent = @ + 1]
    \/ t.taken > 0 /\ u = [t EXCEPT !.taken = @ - 1]
    \/ t.sending > 0 /\ u = [t EXCEPT !.sending = @ - 1, !.sent = @ + 1]
    \/ t.sending > 0 /\ u = [t EXCEPT !.sending = @ - 1, !.deadLettered = @ + 1]
    \/ t.taken > 0 /\ u = [t EXCEPT !.taken = @ - 1, !.deadLettered = @ + 1]
    \/ t.sending > 0 /\ u = [t EXCEPT !.sending = @ - 1, !.dropped = @ + 1]
    \/ t.taken > 0 /\ u = [t EXCEPT !.taken = @ - 1, !.dropped = @ + 1]
    \/ u = [t EXCEPT !.waiting = @ + t.sending + t.taken, !.returned = @ + t.taken,
                     !.sending = 0, !.taken = 0]

LEMMA HandledCounts ==
    ASSUME NEW t \in N!Tally, Counted(t), NEW u, Handled(t, u)
    PROVE  u \in N!Tally /\ Counted(u) /\ u.emitted = t.emitted
<1> DEFINE Same(x, y) ==
             /\ x.emitted = y.emitted /\ x.swallowed = y.swallowed
             /\ x.waiting + x.sending + x.sent + x.deadLettered + x.dropped
                   >= y.waiting + y.sending + y.sent + y.deadLettered + y.dropped
             /\ x.waiting + x.sending + x.sent - x.returned
                   <= y.waiting + y.sending + y.sent - y.returned
<1>1. ASSUME u \in N!Tally, Same(u, t)
      PROVE  Counted(u) /\ u.emitted = t.emitted
  BY <1>1, TallyFields DEF Counted
<1>2. CASE t.waiting > 0 /\ u = [t EXCEPT !.waiting = @ - 1, !.sending = @ + 1]
  <2>1. u \in N!Tally
    <3> DEFINE
      u1 == [t EXCEPT !.waiting = t.waiting - 1]
      u2 == [u1 EXCEPT !.sending = t.sending + 1]
    <3>1. u = u2
      BY <1>2 DEF N!Tally
    <3>2. {t.waiting - 1, t.sending + 1} \subseteq Nat
      BY <1>2, TallyFields
    <3>3. u1 \in N!Tally
      BY <3>2, TallyWith
    <3>4. u2 \in N!Tally
      BY <3>3, <3>2, TallyWith
    <3> QED
      BY <3>1, <3>4
  <2>2. Same(u, t)
    BY <1>2, TallyFields
  <2> QED
    BY <1>1, <2>1, <2>2
<1>3. CASE t.sending > 0 /\ u = [t EXCEPT !.sending = @ - 1, !.taken = @ + 1, !.sent = @ + 1]
  <2>1. u \in N!Tally
    <3> DEFINE
      u1 == [t EXCEPT !.sending = t.sending - 1]
      u2 == [u1 EXCEPT !.taken = t.taken + 1]
      u3 == [u2 EXCEPT !.sent = t.sent + 1]
    <3>1. u = u3
      BY <1>3 DEF N!Tally
    <3>2. {t.sending - 1, t.taken + 1, t.sent + 1} \subseteq Nat
      BY <1>3, TallyFields
    <3>3. u1 \in N!Tally
      BY <3>2, TallyWith
    <3>4. u2 \in N!Tally
      BY <3>3, <3>2, TallyWith
    <3>5. u3 \in N!Tally
      BY <3>4, <3>2, TallyWith
    <3> QED
      BY <3>1, <3>5
  <2>2. Same(u, t)
    BY <1>3, TallyFields
  <2> QED
    BY <1>1, <2>1, <2>2
<1>4. CASE t.taken > 0 /\ u = [t EXCEPT !.taken = @ - 1]
  <2>1. u \in N!Tally
    BY <1>4, TallyFields DEF N!Tally
  <2>2. Same(u, t)
    BY <1>4, TallyFields
  <2> QED
    BY <1>1, <2>1, <2>2
<1>5. CASE t.sending > 0 /\ u = [t EXCEPT !.sending = @ - 1, !.sent = @ + 1]
  <2>1. u \in N!Tally
    <3> DEFINE
      u1 == [t EXCEPT !.sending = t.sending - 1]
      u2 == [u1 EXCEPT !.sent = t.sent + 1]
    <3>1. u = u2
      BY <1>5 DEF N!Tally
    <3>2. {t.sending - 1, t.sent + 1} \subseteq Nat
      BY <1>5, TallyFields
    <3>3. u1 \in N!Tally
      BY <3>2, TallyWith
    <3>4. u2 \in N!Tally
      BY <3>3, <3>2, TallyWith
    <3> QED
      BY <3>1, <3>4
  <2>2. Same(u, t)
    BY <1>5, TallyFields
  <2> QED
    BY <1>1, <2>1, <2>2
<1>6. CASE t.sending > 0 /\ u = [t EXCEPT !.sending = @ - 1, !.deadLettered = @ + 1]
  <2>1. u \in N!Tally
    <3> DEFINE
      u1 == [t EXCEPT !.sending = t.sending - 1]
      u2 == [u1 EXCEPT !.deadLettered = t.deadLettered + 1]
    <3>1. u = u2
      BY <1>6 DEF N!Tally
    <3>2. {t.sending - 1, t.deadLettered + 1} \subseteq Nat
      BY <1>6, TallyFields
    <3>3. u1 \in N!Tally
      BY <3>2, TallyWith
    <3>4. u2 \in N!Tally
      BY <3>3, <3>2, TallyWith
    <3> QED
      BY <3>1, <3>4
  <2>2. Same(u, t)
    BY <1>6, TallyFields
  <2> QED
    BY <1>1, <2>1, <2>2
<1>7. CASE t.taken > 0 /\ u = [t EXCEPT !.taken = @ - 1, !.deadLettered = @ + 1]
  <2>1. u \in N!Tally
    <3> DEFINE
      u1 == [t EXCEPT !.taken = t.taken - 1]
      u2 == [u1 EXCEPT !.deadLettered = t.deadLettered + 1]
    <3>1. u = u2
      BY <1>7 DEF N!Tally
    <3>2. {t.taken - 1, t.deadLettered + 1} \subseteq Nat
      BY <1>7, TallyFields
    <3>3. u1 \in N!Tally
      BY <3>2, TallyWith
    <3>4. u2 \in N!Tally
      BY <3>3, <3>2, TallyWith
    <3> QED
      BY <3>1, <3>4
  <2>2. Same(u, t)
    BY <1>7, TallyFields
  <2> QED
    BY <1>1, <2>1, <2>2
<1>8. CASE t.sending > 0 /\ u = [t EXCEPT !.sending = @ - 1, !.dropped = @ + 1]
  <2>1. u \in N!Tally
    <3> DEFINE
      u1 == [t EXCEPT !.sending = t.sending - 1]
      u2 == [u1 EXCEPT !.dropped = t.dropped + 1]
    <3>1. u = u2
      BY <1>8 DEF N!Tally
    <3>2. {t.sending - 1, t.dropped + 1} \subseteq Nat
      BY <1>8, TallyFields
    <3>3. u1 \in N!Tally
      BY <3>2, TallyWith
    <3>4. u2 \in N!Tally
      BY <3>3, <3>2, TallyWith
    <3> QED
      BY <3>1, <3>4
  <2>2. Same(u, t)
    BY <1>8, TallyFields
  <2> QED
    BY <1>1, <2>1, <2>2
<1>9. CASE t.taken > 0 /\ u = [t EXCEPT !.taken = @ - 1, !.dropped = @ + 1]
  <2>1. u \in N!Tally
    <3> DEFINE
      u1 == [t EXCEPT !.taken = t.taken - 1]
      u2 == [u1 EXCEPT !.dropped = t.dropped + 1]
    <3>1. u = u2
      BY <1>9 DEF N!Tally
    <3>2. {t.taken - 1, t.dropped + 1} \subseteq Nat
      BY <1>9, TallyFields
    <3>3. u1 \in N!Tally
      BY <3>2, TallyWith
    <3>4. u2 \in N!Tally
      BY <3>3, <3>2, TallyWith
    <3> QED
      BY <3>1, <3>4
  <2>2. Same(u, t)
    BY <1>9, TallyFields
  <2> QED
    BY <1>1, <2>1, <2>2
<1>10. CASE u = [t EXCEPT !.waiting = @ + t.sending + t.taken, !.returned = @ + t.taken,
                    !.sending = 0, !.taken = 0]
  <2>1. u \in N!Tally
    <3> DEFINE
      u1 == [t EXCEPT !.waiting = t.waiting + t.sending + t.taken]
      u2 == [u1 EXCEPT !.sending = 0]
      u3 == [u2 EXCEPT !.taken = 0]
      u4 == [u3 EXCEPT !.returned = t.returned + t.taken]
    <3>1. u = u4
      BY <1>10 DEF N!Tally
    <3>2. {t.waiting + t.sending + t.taken, 0, 0, t.returned + t.taken} \subseteq Nat
      BY <1>10, TallyFields
    <3>3. u1 \in N!Tally
      BY <3>2, TallyWith
    <3>4. u2 \in N!Tally
      BY <3>3, <3>2, TallyWith
    <3>5. u3 \in N!Tally
      BY <3>4, <3>2, TallyWith
    <3>6. u4 \in N!Tally
      BY <3>5, <3>2, TallyWith
    <3> QED
      BY <3>1, <3>6
  <2>2. Same(u, t)
    BY <1>10, TallyFields
  <2> QED
    BY <1>1, <2>1, <2>2
<1> HIDE DEF Same
<1> QED
  BY <1>2, <1>3, <1>4, <1>5, <1>6, <1>7, <1>8, <1>9, <1>10 DEF Handled

\* A delivery or an answer of a provider is one of these.
LEMMA HandledOne ==
    ASSUME CopiesInv, NEW m \in N!Messages, N!Deliver(m) \/ N!Process(m)
    PROVE  /\ Handled(copies[m], copies'[m])
           /\ copies' = [copies EXCEPT ![m] = copies'[m]]
<1>0. copies \in [N!Messages -> N!Tally]
  BY DEF CopiesInv
<1>1. CASE N!Deliver(m)
  BY <1>0, <1>1 DEF N!Deliver, N!Moved, Handled
<1>2. CASE N!ProviderTakes(m)
  BY <1>0, <1>2 DEF N!ProviderTakes, Handled
<1>3. CASE N!Ack(m)
  BY <1>0, <1>3 DEF N!Ack, Handled
<1>4. CASE N!AckNobody(m)
  BY <1>0, <1>4 DEF N!AckNobody, Handled
<1>5. CASE N!Refused(m)
  BY <1>0, <1>5 DEF N!Refused, N!Nack, N!Moved, Handled
<1>6. CASE N!AnswerLost(m)
  BY <1>0, <1>6 DEF N!AnswerLost, N!Nack, N!Moved, Handled
<1> QED
  BY <1>1, <1>2, <1>3, <1>4, <1>5, <1>6 DEF N!Process

\* The post office keeps the counts.
LEMMA PostCounts ==
    ASSUME CopiesInv, N!PostNext
    PROVE  CopiesInv'
<1>1. ASSUME NEW m \in N!Messages, N!Deliver(m) \/ N!Process(m)
      PROVE  CopiesInv'
  <2>1. /\ Handled(copies[m], copies'[m])
        /\ copies' = [copies EXCEPT ![m] = copies'[m]]
    BY <1>1, HandledOne
  <2>2. copies'[m] \in N!Tally /\ Counted(copies'[m])
    BY <2>1, HandledCounts DEF CopiesInv
  <2> DEFINE u == copies'[m]
  <2> HIDE DEF u
  <2>3. copies' = [copies EXCEPT ![m] = u]
    BY <2>1 DEF u
  <2> QED
    BY <2>2, <2>3 DEF CopiesInv
<1>2. ASSUME N!ConsumerDies
      PROVE  CopiesInv'
  <2>1. ASSUME NEW m \in N!Messages
        PROVE  copies'[m] \in N!Tally /\ Counted(copies'[m])
    <3>1. Handled(copies[m], copies'[m])
      BY <1>2 DEF N!ConsumerDies, Handled
    <3> QED
      BY <3>1, HandledCounts DEF CopiesInv
  <2>2. copies' = [m \in N!Messages |-> copies'[m]]
    BY <1>2 DEF N!ConsumerDies
  <2> QED
    BY <2>1, <2>2 DEF CopiesInv
<1> QED
  BY <1>1, <1>2, EmitCounts DEF N!PostNext, N!Produce

\* Notices and broadcasts only emit.
LEMMA ProducersEmit ==
    ASSUME N!NoticeNext \/ N!BroadcastNext
    PROVE  (\E S : N!Emit(S)) \/ copies' = copies
<1>1. ASSUME NEW n \in Notices,
             \/ N!NotifyTransaction(n) \/ N!SendBillReceiptEmail(n) \/ N!SendReceiptEmail(n)
             \/ N!EmitBillReceipt(n) \/ N!AuthNotice(n) \/ N!SecurityAlert(n)
             \/ N!StaffAlert(n) \/ N!Forget(n)
      PROVE  (\E S : N!Emit(S)) \/ copies' = copies
  BY <1>1 DEF N!NotifyTransaction, N!SendBillReceiptEmail, N!SendReceiptEmail, N!EmitBillReceipt,
     N!AuthNotice, N!SecurityAlert, N!StaffAlert, N!Forget, N!SayByEmail, N!Say, N!postVars
<1>2. CASE N!Publish
  BY <1>2 DEF N!Publish
<1>3. CASE N!BroadcastNext /\ ~N!Publish
  BY <1>3 DEF N!BroadcastNext, N!Create, N!RecordCreated, N!QueueJob, N!RequestFails,
     N!StartRun, N!Complete, N!JobOver, N!JobFails, N!WorkerDies, N!StatusChanges, N!postVars
<1> QED
  BY <1>1, <1>2, <1>3 DEF N!NoticeNext

\* A copy leaves the broker only to a provider or after a send of it failed, whatever
\* consumers die meanwhile; and a message is sent no more often than it was asked
\* for, unless a consumer died after the provider took it.
THEOREM MessagesDelivered == ServicesSpec => []DeliveredAsAsked
<1>1. ServicesInit => CopiesInv
  BY DEF ServicesInit, N!Init, N!PostInit, N!NoCopy, N!Tally, CopiesInv, Counted
<1>2. CopiesInv /\ [ServicesNext]_<<part, sessionVars, tokenVars, noticeVars>> => CopiesInv'
  <2>1. ASSUME CopiesInv, copies' = copies
        PROVE  CopiesInv'
    BY <2>1 DEF CopiesInv
  <2>2. ASSUME CopiesInv, N!NoticeNext \/ N!BroadcastNext
        PROVE  CopiesInv'
    BY <2>1, <2>2, ProducersEmit, EmitCounts
  <2> QED
    BY <2>1, <2>2, PostCounts DEF ServicesNext, noticeVars
<1>3. CopiesInv => DeliveredAsAsked
  <2>1. ASSUME NEW t \in N!Tally, Counted(t)
        PROVE  /\ t.emitted - t.swallowed
                     <= t.waiting + t.sending + t.sent + (t.deadLettered + t.dropped)
               /\ t.sent <= t.emitted + t.returned
    BY <2>1 DEF N!Tally, Counted
  <2> QED
    BY <2>1 DEF CopiesInv, DeliveredAsAsked, N!DeliveredAsAsked
<1> QED
  BY <1>1, <1>2, <1>3, PTL DEF ServicesSpec

-----------------------------------------------------------------------------
(***************************************************************************)
(* The VFD token.  A process asks for a token only when it has none, so    *)
(* its own request is the last to replace the token of its calls; of the   *)
(* calls that nothing outside disturbed, one on its second attempt waits   *)
(* for, or holds, the newest token.                                        *)
(***************************************************************************)
LEMMA TokenPart ==
    [ServicesNext]_<<part, sessionVars, tokenVars, noticeVars>> => [VT!Next]_(VT!vars)
  BY DEF ServicesNext, tokenVars, VT!vars

AskedWithoutToken(p) ==
    /\ tokenRequest[p] # "none" => cachedToken[p] = VT!NoToken
    /\ tokenRequest[p] = "answered" <=> answer[p] # VT!NoToken

\* Call c is at its first attempt, or sure to get through at its second.
OnItsWay(c) ==
    LET p == call[c].process
        sending == call[c].phase = "sending"
        waiting == call[c].phase = "waiting"
        fresh == tokenRequest[p] = "answered" => answer[p] = newest IN
    /\ call[c].phase # "turned_away"
    /\ sending => call[c].token # VT!NoToken
    /\ sending /\ ~call[c].again =>
          fresh /\ cachedToken[p] \in {call[c].token, VT!NoToken, newest}
    /\ sending /\ call[c].again => call[c].token = newest /\ cachedToken[p] = newest
    /\ waiting => tokenRequest[p] # "none"
    /\ waiting /\ call[c].again => fresh

TokenInv ==
    /\ VT!TypeOK
    /\ \A p \in Processes : AskedWithoutToken(p)
    /\ \A c \in VfdCalls \ disturbed : OnItsWay(c)

LEMMA RestingCall ==
    ASSUME NEW phase \in VT!CallPhases
    PROVE  VT!AtRest(phase) \in VT!Call
<1>1. (CHOOSE p \in Processes : TRUE) \in Processes
  BY ServicesAssumption
<1> QED
  BY <1>1 DEF VT!AtRest, VT!Call

\* Every action keeps the types.
LEMMA TokenNextType ==
    ASSUME VT!TypeOK, VT!Next
    PROVE  VT!TypeOK'
<1> USE DEF VT!TypeOK
<1>0. \A c \in VfdCalls : call[c] \in VT!Call /\ call[c].process \in Processes
  BY DEF VT!Call
<1>1. ASSUME NEW c \in VfdCalls, NEW p \in Processes, NEW cached \in VT!Issued \cup {VT!NoToken},
             NEW again \in BOOLEAN, VT!GetAccessToken(c, p, cached, again)
      PROVE  /\ call' \in [VfdCalls -> VT!Call]
             /\ tokenRequest' \in [Processes -> {"none", "asked", "answered"}]
  <2>1. [phase |-> IF cached = VT!NoToken THEN "waiting" ELSE "sending",
         process |-> p, token |-> cached, again |-> again] \in VT!Call
    BY DEF VT!Call, VT!CallPhases
  <2> QED
    BY <1>1, <2>1 DEF VT!GetAccessToken, VT!FetchAccessToken
<1>2. ASSUME NEW c \in VfdCalls, NEW p \in Processes, VT!AuthorizedFetch(c, p)
      PROVE  VT!TypeOK'
  BY <1>1, <1>2 DEF VT!AuthorizedFetch
<1>3. ASSUME NEW c \in VfdCalls, VT!Accepted(c)
      PROVE  VT!TypeOK'
  BY <1>0, <1>3, RestingCall DEF VT!Accepted, VT!CallPhases
<1>4. ASSUME NEW c \in VfdCalls, VT!Rejected(c)
      PROVE  VT!TypeOK'
  <2> DEFINE p == call[c].process
             kept == VT!Discard(p, call[c].token)
  <2>1. p \in Processes /\ kept \in VT!Issued \cup {VT!NoToken}
    BY <1>0 DEF VT!Discard
  <2>2. /\ VT!GetAccessToken(c, p, kept, TRUE)
        /\ cachedToken' = [cachedToken EXCEPT ![p] = kept]
        /\ UNCHANGED <<newest, answer, disturbed>>
    BY <1>4 DEF VT!Rejected
  <2> HIDE DEF p, kept
  <2> QED
    BY <1>1, <2>1, <2>2
<1>5. ASSUME NEW c \in VfdCalls, VT!RejectedAgain(c)
      PROVE  VT!TypeOK'
  BY <1>0, <1>5, RestingCall DEF VT!RejectedAgain, VT!CallPhases
<1>6. ASSUME NEW p \in Processes, VT!VfdIssues(p)
      PROVE  VT!TypeOK'
  <2>1. newest + 1 \in VT!Issued
    BY <1>6, ServicesAssumption DEF VT!VfdIssues, VT!Issued, VT!NoToken
  <2> QED
    BY <1>6, <2>1 DEF VT!VfdIssues, VT!UnderWay
<1>7. ASSUME NEW p \in Processes, VT!RequestAccessToken(p)
      PROVE  VT!TypeOK'
  <2>1. ASSUME NEW c \in VfdCalls
        PROVE  [call[c] EXCEPT !.phase = "sending", !.token = answer[p]] \in VT!Call
    BY <1>0 DEF VT!Call, VT!CallPhases
  <2>2. call' \in [VfdCalls -> VT!Call]
    BY <1>0, <1>7, <2>1 DEF VT!RequestAccessToken
  <2> QED
    BY <1>7, <2>2 DEF VT!RequestAccessToken
<1>8. ASSUME NEW p \in Processes, VT!RequestFails(p)
      PROVE  VT!TypeOK'
  BY <1>0, <1>8, RestingCall DEF VT!RequestFails, VT!CallPhases
<1>9. ASSUME NEW p \in Processes, VT!Expire(p)
      PROVE  VT!TypeOK'
  BY <1>9 DEF VT!Expire, VT!UnderWay
<1>10. ASSUME NEW p \in Processes, VT!Restart(p)
       PROVE  VT!TypeOK'
  BY <1>0, <1>10, RestingCall DEF VT!Restart, VT!CallPhases
<1> QED
  BY <1>2, <1>3, <1>4, <1>5, <1>6, <1>7, <1>8, <1>9, <1>10 DEF VT!Next

\* A request is made only by a process with no token, and kept until it is over.
LEMMA RequestsKept ==
    ASSUME TokenInv, VT!Next, VT!TypeOK'
    PROVE  \A p \in Processes : AskedWithoutToken(p)'
<1> USE DEF TokenInv, VT!TypeOK, AskedWithoutToken
<1>0. \A c \in VfdCalls : call[c].process \in Processes
  BY DEF VT!Call
<1>1. ASSUME NEW c \in VfdCalls, NEW p \in Processes,
             VT!AuthorizedFetch(c, p) \/ VT!Accepted(c) \/ VT!RejectedAgain(c)
      PROVE  \A q \in Processes : AskedWithoutToken(q)'
  BY <1>1 DEF VT!AuthorizedFetch, VT!GetAccessToken, VT!FetchAccessToken, VT!Accepted,
     VT!RejectedAgain
<1>2. ASSUME NEW c \in VfdCalls, VT!Rejected(c)
      PROVE  \A q \in Processes : AskedWithoutToken(q)'
  BY <1>0, <1>2 DEF VT!Rejected, VT!GetAccessToken, VT!FetchAccessToken, VT!Discard
<1>3. ASSUME NEW p \in Processes,
             VT!RequestAccessToken(p) \/ VT!RequestFails(p) \/ VT!Expire(p) \/ VT!Restart(p)
      PROVE  \A q \in Processes : AskedWithoutToken(q)'
  BY <1>3 DEF VT!RequestAccessToken, VT!RequestFails, VT!Expire, VT!Restart
<1>4. ASSUME NEW p \in Processes, VT!VfdIssues(p)
      PROVE  \A q \in Processes : AskedWithoutToken(q)'
  <2>1. newest + 1 # VT!NoToken
    BY DEF VT!Issued, VT!NoToken
  <2> QED
    BY <1>4, <2>1 DEF VT!VfdIssues
<1> QED
  BY <1>1, <1>2, <1>3, <1>4 DEF VT!Next

\* Calls that nothing disturbs stay on their way.
LEMMA CallsKept ==
    ASSUME TokenInv, VT!Next, VT!TypeOK', NEW c \in VfdCalls, c \notin disturbed'
    PROVE  OnItsWay(c)'
<1>0. /\ \A d \in VfdCalls : call[d] \in VT!Call /\ call[d].process \in Processes
      /\ \A p \in Processes : AskedWithoutToken(p)
  BY DEF TokenInv, VT!TypeOK, VT!Call
<1>00. disturbed \subseteq disturbed'
  BY DEF VT!Next, VT!AuthorizedFetch, VT!Accepted, VT!Rejected, VT!RejectedAgain, VT!VfdIssues,
     VT!RequestAccessToken, VT!RequestFails, VT!Expire, VT!Restart
<1>000. OnItsWay(c)
  BY <1>00 DEF TokenInv
<1> USE DEF VT!TypeOK, AskedWithoutToken
\* Call d looks for a token, not having one.
<1>1. ASSUME NEW d \in VfdCalls, NEW p \in Processes, VT!AuthorizedFetch(d, p)
      PROVE  OnItsWay(c)'
  <2>1. CASE c = d
    BY <1>0, <1>1, <2>1 DEF TokenInv, OnItsWay, VT!AuthorizedFetch, VT!GetAccessToken,
       VT!FetchAccessToken
  <2>2. CASE c # d
    <3>1. /\ call'[c] = call[c] /\ cachedToken' = cachedToken /\ newest' = newest
          /\ answer' = answer
      BY <1>1, <2>2 DEF TokenInv, VT!AuthorizedFetch, VT!GetAccessToken
    <3>2. \A q \in Processes : /\ tokenRequest[q] # "none" => tokenRequest'[q] = tokenRequest[q]
                               /\ tokenRequest'[q] = "answered" => tokenRequest[q] = "answered"
      BY <1>1 DEF TokenInv, VT!AuthorizedFetch, VT!GetAccessToken, VT!FetchAccessToken
    <3> QED
      BY <1>0, <1>000, <3>1, <3>2 DEF OnItsWay
  <2> QED
    BY <2>1, <2>2
<1>2. ASSUME NEW d \in VfdCalls, VT!Accepted(d)
      PROVE  OnItsWay(c)'
  BY <1>0, <1>000, <1>2 DEF TokenInv, OnItsWay, VT!Accepted, VT!AtRest
<1>3. ASSUME NEW d \in VfdCalls, VT!RejectedAgain(d)
      PROVE  OnItsWay(c)'
  <2>1. c # d
    BY <1>000, <1>3 DEF OnItsWay, VT!RejectedAgain
  <2>2. /\ call'[c] = call[c] /\ cachedToken' = cachedToken /\ newest' = newest
        /\ answer' = answer /\ tokenRequest' = tokenRequest
    BY <1>3, <2>1 DEF TokenInv, VT!RejectedAgain
  <2> QED
    BY <1>000, <2>2 DEF OnItsWay
\* Call d is refused: what its process has, if anything, is not what was refused.
<1>4. ASSUME NEW d \in VfdCalls, VT!Rejected(d)
      PROVE  OnItsWay(c)'
  <2> DEFINE p == call[d].process
             kept == VT!Discard(p, call[d].token)
  <2>1. /\ call[d].phase = "sending" /\ call[d].token # newest /\ ~call[d].again
        /\ cachedToken' = [cachedToken EXCEPT ![p] = kept]
        /\ newest' = newest /\ answer' = answer
        /\ call' = [call EXCEPT ![d] = [phase |-> IF kept = VT!NoToken THEN "waiting" ELSE "sending",
                                        process |-> p, token |-> kept, again |-> TRUE]]
        /\ IF kept = VT!NoToken THEN VT!FetchAccessToken(p) ELSE UNCHANGED tokenRequest
    BY <1>4 DEF VT!Rejected, VT!GetAccessToken
  <2>2. /\ kept \in {cachedToken[p], VT!NoToken} /\ (kept # call[d].token \/ kept = VT!NoToken)
        /\ kept = cachedToken[p] \/ (cachedToken[p] = call[d].token /\ kept = VT!NoToken)
    BY DEF VT!Discard
  <2>3. \A q \in Processes : /\ tokenRequest[q] # "none" => tokenRequest'[q] = tokenRequest[q]
                             /\ tokenRequest'[q] = "answered" => tokenRequest[q] = "answered"
    BY <2>1 DEF TokenInv, VT!FetchAccessToken
  <2>4. CASE c = d
    <3>1. call'[c] = [phase |-> IF kept = VT!NoToken THEN "waiting" ELSE "sending",
                      process |-> p, token |-> kept, again |-> TRUE]
      BY <2>1, <2>4 DEF TokenInv
    <3>2. /\ cachedToken[p] \in {call[c].token, VT!NoToken, newest}
          /\ tokenRequest[p] = "answered" => answer[p] = newest
      BY <1>000, <2>1, <2>4 DEF OnItsWay
    <3>3. kept \in {VT!NoToken, newest}
      BY <2>2, <2>4, <3>2
    <3>4. kept = VT!NoToken => tokenRequest'[p] # "none"
      BY <1>0, <2>1 DEF TokenInv, VT!FetchAccessToken
    <3>5. cachedToken'[p] = kept
      BY <1>0, <2>1 DEF TokenInv
    <3> HIDE DEF p, kept
    <3>6. tokenRequest'[p] = "answered" => answer'[p] = newest'
      BY <1>0, <2>1, <2>3, <3>2 DEF p
    <3> QED
      BY <2>1, <3>1, <3>3, <3>4, <3>5, <3>6 DEF OnItsWay
  <2>5. CASE c # d
    <3> DEFINE q == call[c].process
    <3>1. call'[c] = call[c]
      BY <2>1, <2>5 DEF TokenInv
    <3>2. \/ cachedToken'[q] = cachedToken[q]
          \/ cachedToken'[q] = VT!NoToken /\ cachedToken[q] # newest
      BY <1>0, <2>1, <2>2 DEF TokenInv
    <3> HIDE DEF p, kept
    <3> QED
      BY <1>0, <1>000, <2>1, <2>3, <3>1, <3>2 DEF OnItsWay
  <2> QED
    BY <2>4, <2>5
\* A request of another process disturbs c; one of its own renews c's token.
<1>5. ASSUME NEW p \in Processes, VT!VfdIssues(p)
      PROVE  OnItsWay(c)'
  <2>1. /\ call' = call /\ cachedToken' = cachedToken /\ newest' = newest + 1
        /\ c \in VT!UnderWay => call[c].process = p
        /\ tokenRequest[p] = "asked" /\ tokenRequest' = [tokenRequest EXCEPT ![p] = "answered"]
        /\ answer'[p] = newest'
    BY <1>5 DEF TokenInv, VT!VfdIssues
  <2>2. CASE c \in VT!UnderWay
    <3>1. cachedToken[p] = VT!NoToken /\ call[c].process = p
      BY <1>0, <2>1, <2>2
    <3>2. ~(call[c].phase = "sending" /\ call[c].again)
      BY <1>000, <3>1 DEF OnItsWay
    <3> QED
      BY <1>000, <2>1, <3>1, <3>2 DEF OnItsWay, TokenInv
  <2>3. CASE c \notin VT!UnderWay
    BY <1>000, <2>1, <2>3 DEF OnItsWay, VT!UnderWay
  <2> QED
    BY <2>2, <2>3
<1>6. ASSUME NEW p \in Processes, VT!RequestAccessToken(p)
      PROVE  OnItsWay(c)'
  <2>1. /\ tokenRequest[p] = "answered" /\ answer[p] # VT!NoToken /\ cachedToken[p] = VT!NoToken
        /\ cachedToken' = [cachedToken EXCEPT ![p] = answer[p]]
        /\ tokenRequest' = [tokenRequest EXCEPT ![p] = "none"]
        /\ newest' = newest
        /\ answer' = [answer EXCEPT ![p] = VT!NoToken]
    BY <1>0, <1>6 DEF VT!RequestAccessToken
  <2>2. CASE call[c].process # p
    <3>1. call'[c] = call[c]
      BY <1>6, <2>2 DEF VT!RequestAccessToken
    <3> QED
      BY <1>0, <1>000, <2>1, <2>2, <3>1 DEF OnItsWay, TokenInv
  <2>3. CASE call[c].process = p /\ call[c].phase = "waiting"
    <3>1. call'[c] = [call[c] EXCEPT !.phase = "sending", !.token = answer[p]]
      BY <1>6, <2>3 DEF VT!RequestAccessToken
    <3>2. /\ call'[c].phase = "sending" /\ call'[c].token = answer[p]
          /\ call'[c].process = p /\ call'[c].again = call[c].again
      BY <1>0, <2>3, <3>1 DEF VT!Call
    <3>3. cachedToken'[p] = answer[p] /\ tokenRequest'[p] = "none"
      BY <2>1 DEF TokenInv
    <3> QED
      BY <1>000, <2>1, <2>3, <3>2, <3>3 DEF OnItsWay
  <2>4. CASE call[c].process = p /\ call[c].phase # "waiting"
    <3>1. call'[c] = call[c]
      BY <1>6, <2>4 DEF VT!RequestAccessToken
    <3>2. cachedToken'[p] = answer[p] /\ tokenRequest'[p] = "none"
      BY <2>1 DEF TokenInv
    <3> QED
      BY <1>000, <2>1, <2>4, <3>1, <3>2 DEF OnItsWay
  <2> QED
    BY <2>2, <2>3, <2>4
<1>7. ASSUME NEW p \in Processes, VT!RequestFails(p)
      PROVE  OnItsWay(c)'
  <2>1. call'[c] = call[c] \/ call'[c] = VT!AtRest("failed")
    BY <1>7 DEF VT!RequestFails
  <2>2. CASE call'[c] = VT!AtRest("failed")
    BY <2>2 DEF OnItsWay, VT!AtRest
  <2>3. CASE call'[c] = call[c]
    <3>1. call[c].process = p => call[c].phase # "waiting"
      BY <1>7, <2>3 DEF VT!RequestFails, VT!AtRest
    <3> QED
      BY <1>0, <1>000, <1>7, <2>3, <3>1 DEF OnItsWay, TokenInv, VT!RequestFails
  <2> QED
    BY <2>1, <2>2, <2>3
<1>8. ASSUME NEW p \in Processes, VT!Expire(p)
      PROVE  OnItsWay(c)'
  <2>1. c \in VT!UnderWay => call[c].process # p
    BY <1>8 DEF VT!Expire
  <2> QED
    BY <1>0, <1>000, <1>8, <2>1 DEF OnItsWay, TokenInv, VT!Expire, VT!UnderWay
<1>9. ASSUME NEW p \in Processes, VT!Restart(p)
      PROVE  OnItsWay(c)'
  <2>1. CASE call[c].process = p /\ c \in VT!UnderWay
    BY <1>9, <2>1 DEF OnItsWay, VT!Restart, VT!AtRest
  <2>2. CASE ~(call[c].process = p /\ c \in VT!UnderWay)
    <3>1. call'[c] = call[c]
      BY <1>9, <2>2 DEF VT!Restart
    <3> QED
      BY <1>0, <1>000, <1>9, <2>2, <3>1 DEF OnItsWay, TokenInv, VT!Restart, VT!UnderWay
  <2> QED
    BY <2>1, <2>2
<1> QED
  BY <1>1, <1>2, <1>3, <1>4, <1>5, <1>6, <1>7, <1>8, <1>9 DEF VT!Next

\* No call to VFD is turned away twice by the doing of its own process.
THEOREM CallsReachVfd == ServicesSpec => []CallsGetThrough
<1>1. ServicesInit => TokenInv
  <2>1. ASSUME VT!Init
        PROVE  TokenInv
    BY <2>1, RestingCall DEF VT!Init, TokenInv, VT!TypeOK, AskedWithoutToken, OnItsWay,
       VT!CallPhases, VT!AtRest
  <2> QED
    BY <2>1 DEF ServicesInit
<1>2. TokenInv /\ [ServicesNext]_<<part, sessionVars, tokenVars, noticeVars>> => TokenInv'
  <2>1. ASSUME TokenInv, UNCHANGED VT!vars
        PROVE  TokenInv'
    BY <2>1 DEF TokenInv, VT!vars, VT!TypeOK, AskedWithoutToken, OnItsWay
  <2>2. ASSUME TokenInv, VT!Next
        PROVE  TokenInv'
    <3>1. VT!TypeOK'
      BY <2>2, TokenNextType DEF TokenInv
    <3> QED
      BY <2>2, <3>1, RequestsKept, CallsKept DEF TokenInv
  <2> QED
    BY <2>1, <2>2, TokenPart
<1>3. TokenInv => CallsGetThrough
  BY DEF TokenInv, OnItsWay, CallsGetThrough, VT!CallsGetThrough
<1> QED
  BY <1>1, <1>2, <1>3, PTL DEF ServicesSpec

-----------------------------------------------------------------------------
(***************************************************************************)
(* Broadcasts.  Pages go by ascending id, and a page takes the next        *)
(* customers without a gap; so the last one sent to, kept in the worker's  *)
(* memory, tells who of those the run is for has his copy.                 *)
(***************************************************************************)
\* A set of numbers has a least, and a bounded one a greatest.
LEMMA LeastOf ==
    ASSUME NEW S \in SUBSET Nat, S # {}
    PROVE  \E n \in S : \A k \in S : n <= k
<1> DEFINE Less == {pair \in Nat \X Nat : pair[1] < pair[2]}
<1>1. IsWellFoundedOn(Less, Nat)
  BY NatLessThanWellFounded DEF OpToRel
<1>2. ASSUME NEW n \in S, NEW k \in S, k < n
      PROVE  <<k, n>> \in Less
  BY <1>2
<1> HIDE DEF Less
<1>3. PICK n \in S : \A k \in S : ~ (<<k, n>> \in Less)
  BY <1>1, WFMin
<1>4. \A k \in S : ~(k < n)
  BY <1>2, <1>3
<1>5. \A k \in S : n <= k
  BY <1>4
<1> QED
  BY <1>5

LEMMA GreatestOf ==
    ASSUME NEW b \in Nat, NEW S \in SUBSET (1..b), S # {}
    PROVE  \E n \in S : \A k \in S : k <= n
<1> DEFINE B == {n \in Nat : \A k \in S : k <= n}
<1>1. b \in B
  OBVIOUS
<1>2. PICK n \in B : \A m \in B : n <= m
  BY <1>1, LeastOf
<1>3. ASSUME n \notin S
      PROVE  FALSE
  <2>1. PICK s \in S : TRUE
    OBVIOUS
  <2>2. n - 1 \in Nat
    BY <1>2, <2>1
  <2>3. ASSUME NEW k \in S
        PROVE  k <= n - 1
    BY <1>2, <1>3
  <2> QED
    BY <1>2, <2>2, <2>3
<1> QED
  BY <1>2, <1>3

LEMMA Counting == \A S : N!Cardinality(S) = Cardinality(S)
  BY DEF N!Cardinality, Cardinality

BroadcastMessages == [channel : {"email", "push"}, about : N!Customers]
ToSteady == [channel : broadcast.channels, about : steady]

RequestInv ==
    /\ broadcast \in N!Broadcast
    /\ job \in {"none", "queued", "active", "over"}
    /\ stalls \in Nat
    /\ after \in 0..NumCustomers
    /\ active \subseteq N!Customers
    /\ job # "none" => broadcast.request = "over"
    /\ job = "none" => steady = {}
    /\ steady \subseteq N!Wanted

\* How many copies the runs so far may have made of message m.
Allowed(m) ==
    IF job \in {"none", "queued"} THEN stalls
    ELSE IF N!Running THEN stalls + (IF m.about <= after THEN 1 ELSE 0)
    ELSE stalls + 1

RunInv ==
    /\ \A m \in BroadcastMessages : copies[m].emitted <= Allowed(m)
    /\ N!Running => \A m \in ToSteady : m.about <= after => copies[m].emitted >= 1
    /\ broadcast.status = "COMPLETED" => \A m \in ToSteady : copies[m].emitted >= 1

BroadcastInv == CopiesInv /\ RequestInv /\ RunInv

\* Messages of a broadcast are messages, and no notice is one.
LEMMA AboutCustomers ==
    /\ BroadcastMessages \subseteq N!Messages
    /\ \A m \in BroadcastMessages : m.about \in N!Customers /\ m.about \notin Notices
    /\ RequestInv => ToSteady \subseteq BroadcastMessages
<1>1. N!Customers \cap Notices = {}
  BY ServicesAssumption DEF N!Customers
<1> QED
  BY <1>1 DEF BroadcastMessages, ToSteady, RequestInv, N!Messages, N!Wanted, N!Broadcast

\* The page after the last: who wants it, of those after him, and nobody between.
LEMMA PageType ==
    ASSUME RequestInv
    PROVE  /\ N!Rows \subseteq N!Wanted /\ N!Wanted \subseteq N!Customers
           /\ IsFiniteSet(N!Wanted) /\ IsFiniteSet(N!Rows) /\ Cardinality(N!Rows) \in Nat
           /\ NumCustomers \in Nat /\ N!Customers = 1..NumCustomers
<1>1. NumCustomers \in Nat /\ N!Customers = 1..NumCustomers
  BY ServicesAssumption DEF N!Customers
<1>2. N!Rows \subseteq N!Wanted /\ N!Wanted \subseteq N!Customers
  BY DEF RequestInv, N!Rows, N!Wanted
<1>3. IsFiniteSet(1..NumCustomers)
  BY <1>1, FS_Interval
<1>4. IsFiniteSet(N!Wanted) /\ IsFiniteSet(N!Rows)
  BY <1>1, <1>2, <1>3, FS_Subset
<1> QED
  BY <1>1, <1>2, <1>4, FS_CardinalityType

LEMMA NoGap ==
    ASSUME RequestInv, NEW c \in N!Rows, NEW d \in N!Wanted, after < d, d <= c
    PROVE  d \in N!Rows
<1> DEFINE Between(x) == {y \in N!Wanted : after < y /\ y < x}
<1>1. \A x : x \in N!Rows <=> x \in N!Wanted /\ x > after /\ Cardinality(Between(x)) < BATCH
  BY Counting DEF N!Rows
<1>2. c \in Nat /\ d \in Nat /\ N!Wanted \subseteq Nat /\ after \in Nat
  BY PageType DEF RequestInv
<1>3. Between(d) \subseteq Between(c)
  <2>1. ASSUME NEW y \in N!Wanted, y < d
        PROVE  y < c
    BY <1>2, <2>1
  <2> QED
    BY <2>1
<1>4. IsFiniteSet(Between(c))
  <2>1. Between(c) \subseteq N!Wanted
    OBVIOUS
  <2> HIDE DEF Between
  <2> QED
    BY <2>1, PageType, FS_Subset
<1>5. BATCH \in Nat
  BY ServicesAssumption
<1> HIDE DEF Between
<1>6. /\ Cardinality(Between(d)) <= Cardinality(Between(c))
      /\ Cardinality(Between(d)) \in Nat /\ Cardinality(Between(c)) \in Nat
  BY <1>3, <1>4, FS_Subset, FS_CardinalityType
<1>7. Cardinality(Between(d)) < BATCH
  BY <1>1, <1>5, <1>6
<1> QED
  BY <1>1, <1>2, <1>7

LEMMA PageStarts ==
    ASSUME RequestInv, N!Rows = {}, NEW c \in N!Wanted
    PROVE  c <= after
<1>1. N!Wanted \subseteq Nat /\ after \in Nat
  BY PageType DEF RequestInv
<1> DEFINE Later == {d \in N!Wanted : after < d}
<1>2. SUFFICES ASSUME Later # {}
               PROVE  FALSE
  BY <1>1
<1>3. PICK d \in Later : \A e \in Later : d <= e
  BY <1>1, <1>2, LeastOf
<1>4. {e \in N!Wanted : after < e /\ e < d} = {}
  <2>1. ASSUME NEW e \in N!Wanted, after < e
        PROVE  ~(e < d)
    <3>1. d <= e
      BY <1>3, <2>1
    <3> QED
      BY <1>1, <1>3, <3>1
  <2> QED
    BY <2>1
<1>5. Cardinality({e \in N!Wanted : after < e /\ e < d}) = 0
  BY <1>4, FS_EmptySet
<1>6. d \in N!Rows
  BY <1>3, <1>5, Counting, ServicesAssumption DEF N!Rows
<1> QED
  BY <1>6

\* Emitting counts one copy of the messages emitted, and of no other.
LEMMA EmitOne ==
    ASSUME CopiesInv, NEW S, N!Emit(S), NEW m \in N!Messages
    PROVE  copies'[m].emitted = copies[m].emitted + (IF m \in S THEN 1 ELSE 0)
<1>1. copies[m] \in N!Tally
  BY DEF CopiesInv
<1>2. m \notin S => copies'[m] = copies[m]
  BY DEF N!Emit
<1>3. m \in S => \/ copies'[m] = [copies[m] EXCEPT !.emitted = @ + 1, !.waiting = @ + 1]
                 \/ copies'[m] = [copies[m] EXCEPT !.emitted = @ + 1, !.swallowed = @ + 1]
  BY DEF N!Emit
<1> DEFINE t == copies[m]
           u == copies'[m]
<1> HIDE DEF t, u
<1>4. t \in N!Tally
  BY <1>1 DEF t
<1>5. ASSUME \/ u = [t EXCEPT !.emitted = @ + 1, !.waiting = @ + 1]
             \/ u = [t EXCEPT !.emitted = @ + 1, !.swallowed = @ + 1]
      PROVE  u.emitted = t.emitted + 1
  BY <1>4, <1>5, TallyFields
<1>6. u = t => u.emitted = t.emitted + 0
  BY <1>4, TallyFields
<1> QED
  BY <1>2, <1>3, <1>5, <1>6 DEF t, u

\* A notice or the post office adds no copy of a broadcast's message.
LEMMA NoticesElsewhere ==
    ASSUME CopiesInv, NEW m \in BroadcastMessages, N!NoticeNext \/ N!PostNext
    PROVE  copies'[m].emitted = copies[m].emitted
<1>1. m \in N!Messages /\ m.about \notin Notices
  BY AboutCustomers
<1>2. copies[m] \in N!Tally /\ Counted(copies[m]) /\ copies[m].emitted \in Nat
  BY <1>1, TallyFields DEF CopiesInv
<1>3. ASSUME NEW n \in Notices, NEW channels, N!Say(n, channels)
      PROVE  copies'[m].emitted = copies[m].emitted
  <2> DEFINE S == [channel : channels, about : {n}]
  <2>1. m \notin S
    BY <1>1
  <2>2. N!Emit(S)
    BY <1>3 DEF N!Say
  <2> HIDE DEF S
  <2>3. copies'[m].emitted = copies[m].emitted + (IF m \in S THEN 1 ELSE 0)
    BY <1>1, <2>2, EmitOne
  <2> QED
    BY <1>2, <2>1, <2>3
<1>4. ASSUME N!NoticeNext
      PROVE  copies'[m].emitted = copies[m].emitted
  <2>1. ASSUME NEW n \in Notices, ~UNCHANGED copies,
               \/ N!NotifyTransaction(n) \/ N!SendBillReceiptEmail(n) \/ N!SendReceiptEmail(n)
               \/ N!EmitBillReceipt(n) \/ N!AuthNotice(n) \/ N!SecurityAlert(n)
               \/ N!StaffAlert(n) \/ N!Forget(n)
        PROVE  \E channels : N!Say(n, channels)
    BY <2>1 DEF N!NotifyTransaction, N!SendBillReceiptEmail, N!SendReceiptEmail,
       N!EmitBillReceipt, N!AuthNotice, N!SecurityAlert, N!StaffAlert, N!Forget, N!SayByEmail,
       N!postVars
  <2> QED
    BY <1>3, <1>4, <2>1 DEF N!NoticeNext
<1>5. ASSUME NEW x \in N!Messages, N!Deliver(x) \/ N!Process(x)
      PROVE  copies'[m].emitted = copies[m].emitted
  <2>1. /\ Handled(copies[x], copies'[x])
        /\ copies' = [copies EXCEPT ![x] = copies'[x]]
    BY <1>5, HandledOne
  <2>2. copies'[x].emitted = copies[x].emitted
    BY <2>1, HandledCounts DEF CopiesInv
  <2>3. x # m => copies'[m] = copies[m]
    <3> DEFINE u == copies'[x]
    <3> HIDE DEF u
    <3>1. copies' = [copies EXCEPT ![x] = u]
      BY <2>1 DEF u
    <3> QED
      BY <1>1, <3>1 DEF CopiesInv
  <2> QED
    BY <2>2, <2>3
<1>6. ASSUME N!ConsumerDies
      PROVE  copies'[m].emitted = copies[m].emitted
  <2>1. Handled(copies[m], copies'[m])
    BY <1>1, <1>6 DEF N!ConsumerDies, Handled
  <2> QED
    BY <1>2, <2>1, HandledCounts
<1>7. ASSUME NEW x \in [channel : N!Channels, about : Notices], N!Produce(x)
      PROVE  copies'[m].emitted = copies[m].emitted
  <2>1. N!Emit({x}) /\ m \notin {x}
    BY <1>1, <1>7 DEF N!Produce
  <2> QED
    BY <1>1, <1>2, <2>1, EmitOne
<1> QED
  BY <1>4, <1>5, <1>6, <1>7 DEF N!PostNext

\* What the request and the runs leave is a request and a run of a job.
LEMMA BroadcastWith ==
    ASSUME NEW b \in N!Broadcast
    PROVE  /\ \A x \in {"none", "QUEUED", "PROCESSING", "COMPLETED", "FAILED"} :
                 [b EXCEPT !.status = x] \in N!Broadcast
           /\ \A x \in {"none", "saved", "recorded", "over"} :
                 [b EXCEPT !.request = x] \in N!Broadcast
           /\ \A x \in SUBSET {"email", "push"} : [b EXCEPT !.channels = x] \in N!Broadcast
           /\ \A x \in SUBSET N!Customers : [b EXCEPT !.customerIds = x] \in N!Broadcast
           /\ \A x \in Nat : [b EXCEPT !.recipientCount = x] \in N!Broadcast
  BY DEF N!Broadcast

\* The last of a page is one of it.
LEMMA PageEnds ==
    ASSUME RequestInv, N!Rows # {}, NEW last, last = CHOOSE c \in N!Rows : \A d \in N!Rows : d <= c
    PROVE  last \in N!Rows /\ \A d \in N!Rows : d <= last
<1>1. N!Rows \subseteq 1..NumCustomers /\ NumCustomers \in Nat
  BY PageType
<1>2. \E c \in N!Rows : \A d \in N!Rows : d <= c
  BY <1>1, GreatestOf
<1> QED
  BY <1>2

LEMMA RequestKept ==
    ASSUME RequestInv, N!BroadcastNext
    PROVE  RequestInv'
<1> USE DEF RequestInv
<1>0. steady \subseteq active /\ steady \subseteq broadcast.customerIds
      /\ steady \subseteq N!Customers
  BY DEF N!Wanted
<1>1. CASE N!Create
  <2>1. PICK channels \in SUBSET {"email", "push"}, S \in SUBSET N!Customers :
           broadcast' = [broadcast EXCEPT !.status = "QUEUED", !.request = "saved",
                                          !.channels = channels, !.customerIds = S]
    BY <1>1 DEF N!Create
  <2> DEFINE b1 == [broadcast EXCEPT !.status = "QUEUED"]
             b2 == [b1 EXCEPT !.request = "saved"]
             b3 == [b2 EXCEPT !.channels = channels]
             b4 == [b3 EXCEPT !.customerIds = S]
  <2>2. broadcast' = b4
    BY <2>1 DEF N!Broadcast
  <2>3. b1 \in N!Broadcast
    BY BroadcastWith
  <2>4. b2 \in N!Broadcast
    BY <2>3, BroadcastWith
  <2>5. b3 \in N!Broadcast
    BY <2>4, BroadcastWith
  <2>6. b4 \in N!Broadcast
    BY <2>5, BroadcastWith
  <2>7. job = "none" /\ UNCHANGED <<job, stalls, after, active, steady>>
    BY <1>1 DEF N!Create
  <2> QED
    BY <2>2, <2>6, <2>7
<1>2. ASSUME N!RecordCreated \/ N!QueueJob \/ N!RequestFails
      PROVE  RequestInv'
  <2>1. \E x \in {"recorded", "over"} : broadcast' = [broadcast EXCEPT !.request = x]
    BY <1>2 DEF N!RecordCreated, N!QueueJob, N!RequestFails
  <2>2. broadcast' \in N!Broadcast /\ broadcast'.customerIds = broadcast.customerIds
    <3>1. broadcast' \in N!Broadcast
      BY <2>1, BroadcastWith
    <3> QED
      BY <2>1, <3>1 DEF N!Broadcast
  <2>3. UNCHANGED <<stalls, after, active, steady>>
    BY <1>2 DEF N!RecordCreated, N!QueueJob, N!RequestFails
  <2>4. job' \in {"none", "queued", "active", "over"}
        /\ (job' # "none" => broadcast'.request = "over") /\ (job' = "none" => job = "none")
    <3>1. CASE N!RecordCreated \/ N!RequestFails
      BY <3>1 DEF N!RecordCreated, N!RequestFails, N!Broadcast
    <3>2. CASE N!QueueJob
      BY <3>2 DEF N!QueueJob, N!Broadcast
    <3> QED
      BY <1>2, <3>1, <3>2
  <2> QED
    BY <1>0, <2>2, <2>3, <2>4 DEF N!Wanted
\* Those that write the row, if anything.
<1>3. ASSUME NEW x \in {"PROCESSING", "COMPLETED", "FAILED"}, N!Written(x)
      PROVE  /\ broadcast' \in N!Broadcast /\ broadcast'.customerIds = broadcast.customerIds
             /\ broadcast'.request = broadcast.request
  <2>1. broadcast' \in N!Broadcast
    BY <1>3, BroadcastWith DEF N!Written
  <2> QED
    BY <1>3, <2>1 DEF N!Written, N!Broadcast
<1>4. CASE N!StartRun
  <2>1. steady' \subseteq active' \cap broadcast'.customerIds
    BY <1>3, <1>4 DEF N!StartRun
  <2>2. job # "none" /\ job' = "active" /\ after' = 0 /\ UNCHANGED <<stalls, active>>
    BY <1>4 DEF N!StartRun
  <2>3. NumCustomers \in Nat
    BY PageType
  <2>4. N!Written("PROCESSING")
    BY <1>4 DEF N!StartRun
  <2> QED
    BY <1>3, <2>1, <2>2, <2>3, <2>4 DEF N!Wanted
<1>5. CASE N!Publish
  <2>1. job = "active" /\ UNCHANGED <<job, stalls, active, steady>>
    BY <1>5 DEF N!Publish, N!Running
  <2>2. after' \in 0..NumCustomers
    BY <1>5, PageEnds, PageType DEF N!Publish
  <2>3. Cardinality(N!Rows) + (IF after = 0 THEN 0 ELSE broadcast.recipientCount) \in Nat
    BY PageType DEF N!Broadcast
  <2>4. \/ \E x \in Nat : broadcast' = [broadcast EXCEPT !.recipientCount = x]
        \/ N!Written("FAILED")
    BY <1>5, <2>3, Counting DEF N!Publish
  <2>5. /\ broadcast' \in N!Broadcast /\ broadcast'.customerIds = broadcast.customerIds
        /\ broadcast'.request = broadcast.request
    <3>1. CASE N!Written("FAILED")
      BY <1>3, <3>1
    <3>2. ASSUME NEW x \in Nat, broadcast' = [broadcast EXCEPT !.recipientCount = x]
          PROVE  /\ broadcast' \in N!Broadcast
                 /\ broadcast'.customerIds = broadcast.customerIds
                 /\ broadcast'.request = broadcast.request
      <4>1. broadcast' \in N!Broadcast
        BY <3>2, BroadcastWith
      <4> QED
        BY <3>2, <4>1 DEF N!Broadcast
    <3> QED
      BY <2>4, <3>1, <3>2
  <2> QED
    BY <1>0, <2>1, <2>2, <2>5 DEF N!Wanted
<1>6. CASE N!Complete
  <2>1. job = "active" /\ UNCHANGED <<job, stalls, after, active, steady>>
    BY <1>6 DEF N!Complete, N!Running
  <2>2. N!Written("COMPLETED") \/ N!Written("FAILED")
    BY <1>6 DEF N!Complete
  <2> QED
    BY <1>0, <1>3, <2>1, <2>2 DEF N!Wanted
<1>7. CASE N!JobOver \/ N!JobFails \/ N!WorkerDies
  <2>1. /\ UNCHANGED <<broadcast, after, active, steady>>
        /\ job # "none" /\ job' \in {"queued", "over"} /\ stalls' \in Nat
    BY <1>7 DEF N!JobOver, N!JobFails, N!WorkerDies
  <2> QED
    BY <1>0, <2>1 DEF N!Wanted
<1>8. ASSUME NEW c \in N!Customers, N!StatusChanges(c)
      PROVE  RequestInv'
  <2>1. /\ UNCHANGED <<broadcast, job, stalls, after>>
        /\ active' = IF c \in active THEN active \ {c} ELSE active \cup {c}
        /\ steady' = steady \ {c}
    BY <1>8 DEF N!StatusChanges
  <2>2. active' \subseteq N!Customers /\ steady' \subseteq active'
        /\ steady' \subseteq broadcast'.customerIds
    BY <1>0, <2>1
  <2> QED
    BY <2>1, <2>2 DEF N!Wanted
<1> QED
  BY <1>1, <1>2, <1>4, <1>5, <1>6, <1>7, <1>8 DEF N!BroadcastNext

\* Every copy counted so far is a number; runs count upwards.
LEMMA RunCounts ==
    ASSUME BroadcastInv
    PROVE  /\ \A m \in BroadcastMessages : copies[m].emitted \in Nat
           /\ stalls \in Nat /\ after \in 0..NumCustomers
           /\ NumCustomers \in Nat
           /\ \A m \in BroadcastMessages : m.about \in 1..NumCustomers
           /\ ToSteady \subseteq BroadcastMessages
<1>1. BroadcastMessages \subseteq N!Messages
  BY AboutCustomers
<1>2. ASSUME NEW m \in BroadcastMessages
      PROVE  copies[m].emitted \in Nat
  <2>1. copies[m] \in N!Tally
    BY <1>1 DEF BroadcastInv, CopiesInv
  <2> QED
    BY <2>1, TallyFields
<1> QED
  BY <1>2, AboutCustomers, PageType DEF BroadcastInv, RequestInv

\* A page gives each of its customers the one copy of the run.
LEMMA PublishOnce ==
    ASSUME BroadcastInv, RequestInv', N!Publish
    PROVE  RunInv'
<1> DEFINE S == [channel : broadcast.channels, about : N!Rows]
<1>1. /\ N!Running /\ N!Emit(S)
      /\ after' \in N!Rows /\ (\A d \in N!Rows : d <= after')
      /\ UNCHANGED <<job, stalls, active, steady>>
  BY PageEnds DEF N!Publish, BroadcastInv
<1>2. /\ broadcast'.channels = broadcast.channels
      /\ broadcast'.status \in {"PROCESSING", "FAILED"}
  BY <1>1 DEF N!Publish, N!Written, N!Running, BroadcastInv, RequestInv, N!Broadcast
<1>3. ASSUME NEW m \in BroadcastMessages
      PROVE  copies'[m].emitted = copies[m].emitted + (IF m \in S THEN 1 ELSE 0)
  <2>1. CopiesInv /\ m \in N!Messages
    BY <1>3, AboutCustomers DEF BroadcastInv
  <2> HIDE DEF S
  <2> QED
    BY <1>1, <2>1, EmitOne
<1>4. N!Rows \subseteq {c \in 1..NumCustomers : c > after}
  BY PageType DEF N!Rows, BroadcastInv
<1>5. ASSUME NEW m \in BroadcastMessages
      PROVE  copies'[m].emitted <= Allowed(m)'
  <2>1. copies[m].emitted <= stalls + (IF m.about <= after THEN 1 ELSE 0)
    BY <1>1, <1>5 DEF BroadcastInv, RunInv, Allowed, N!Running
  <2>2. m \in S => m.about \in N!Rows
    OBVIOUS
  <2>3. /\ m.about \in 1..NumCustomers /\ copies[m].emitted \in Nat /\ stalls \in Nat
        /\ after \in 0..NumCustomers /\ NumCustomers \in Nat
    BY RunCounts
  <2>4. copies'[m].emitted <= stalls + (IF m.about <= after' THEN 1 ELSE 0)
    <3>1. m \in S => m.about > after /\ m.about <= after'
      BY <1>1, <1>4, <2>2
    <3>2. after' \in Nat /\ after < after'
      BY <1>1, <1>4, <2>3
    <3> HIDE DEF S
    <3>3. CASE m \in S
      BY <1>3, <2>1, <2>3, <3>1, <3>2, <3>3
    <3>4. CASE m \notin S
      BY <1>3, <2>1, <2>3, <3>2, <3>4
    <3> QED
      BY <3>3, <3>4
  <2>5. Allowed(m)' = stalls + (IF broadcast'.status = "PROCESSING"
                                THEN IF m.about <= after' THEN 1 ELSE 0 ELSE 1)
    BY <1>1 DEF Allowed, N!Running
  <2>6. after' \in Nat /\ m.about \in Nat /\ copies'[m].emitted \in Nat
    BY <1>1, <1>3, <1>4, <2>3
  <2> QED
    BY <2>3, <2>4, <2>5, <2>6
<1>6. ASSUME NEW m \in ToSteady, m.about <= after'
      PROVE  copies'[m].emitted >= 1
  <2>1. /\ m \in BroadcastMessages /\ m.about \in 1..NumCustomers /\ copies[m].emitted \in Nat
        /\ after \in 0..NumCustomers /\ NumCustomers \in Nat
    BY RunCounts
  <2>2. CASE m.about <= after
    <3>1. copies[m].emitted >= 1
      BY <1>1, <2>2 DEF BroadcastInv, RunInv
    <3> HIDE DEF S
    <3> QED
      BY <1>3, <2>1, <3>1
  <2>3. CASE after < m.about
    <3>1. m.about \in N!Wanted /\ m \in [channel : broadcast.channels, about : steady]
      BY DEF ToSteady, BroadcastInv, RequestInv
    <3>2. m.about \in N!Rows
      BY <1>1, <1>6, <2>3, <3>1, NoGap DEF BroadcastInv
    <3>3. m \in S
      BY <3>1, <3>2
    <3> HIDE DEF S
    <3> QED
      BY <1>3, <2>1, <3>3
  <2> QED
    BY <2>1, <2>2, <2>3
<1>7. ToSteady' = ToSteady
  BY <1>1, <1>2 DEF ToSteady
<1> QED
  BY <1>2, <1>5, <1>6, <1>7 DEF RunInv

LEMMA RunKept ==
    ASSUME BroadcastInv, RequestInv', N!BroadcastNext
    PROVE  RunInv'
<1>1. CASE N!Publish
  BY <1>1, PublishOnce
<1>2. ASSUME ~N!Publish
      PROVE  copies' = copies
  BY <1>2 DEF N!BroadcastNext, N!Create, N!RecordCreated, N!QueueJob, N!RequestFails,
     N!StartRun, N!Complete, N!JobOver, N!JobFails, N!WorkerDies, N!StatusChanges, N!postVars
<1>3. /\ \A m \in BroadcastMessages : /\ copies[m].emitted \in Nat /\ m.about \in 1..NumCustomers
                                      /\ copies[m].emitted <= Allowed(m)
      /\ stalls \in Nat /\ after \in 0..NumCustomers /\ NumCustomers \in Nat
      /\ ToSteady \subseteq BroadcastMessages
  BY RunCounts DEF BroadcastInv, RunInv
<1>4. broadcast \in N!Broadcast /\ broadcast' \in N!Broadcast
  BY DEF BroadcastInv, RequestInv
\* Before there is a job, nobody is waited for.
<1>5. CASE N!Create \/ N!RecordCreated \/ N!QueueJob \/ N!RequestFails
  <2>1. /\ copies' = copies /\ job = "none" /\ steady' = {} /\ job' \in {"none", "queued"}
        /\ stalls' = stalls
    BY <1>5 DEF N!Create, N!RecordCreated, N!QueueJob, N!RequestFails, BroadcastInv, RequestInv,
       N!postVars
  <2> QED
    BY <1>3, <2>1 DEF RunInv, Allowed, ToSteady, N!Running
<1>6. CASE N!StartRun
  <2>1. /\ copies' = copies /\ job = "queued" /\ job' = "active" /\ after' = 0
        /\ stalls' = stalls /\ broadcast'.status = "PROCESSING"
        /\ ToSteady' \subseteq BroadcastMessages
    <3>1. ToSteady' \subseteq BroadcastMessages'
      BY DEF BroadcastMessages, ToSteady, RequestInv, N!Wanted, N!Broadcast
    <3> QED
      BY <1>4, <1>6, <3>1 DEF N!StartRun, N!Written, N!postVars, N!Broadcast, BroadcastMessages
  <2> QED
    BY <1>3, <2>1 DEF RunInv, Allowed, N!Running
<1>7. CASE N!Complete
  <2>1. /\ copies' = copies /\ N!Running /\ job' = job /\ ToSteady' = ToSteady
        /\ stalls' = stalls /\ job = "active"
        /\ \/ N!Rows = {} /\ broadcast'.status = "COMPLETED"
           \/ broadcast'.status = "FAILED"
    BY <1>4, <1>7 DEF N!Complete, N!Written, N!postVars, N!Broadcast, ToSteady, N!Running
  <2>2. ASSUME N!Rows = {}, NEW m \in ToSteady
        PROVE  copies[m].emitted >= 1
    <3>1. m.about \in N!Wanted
      BY DEF ToSteady, BroadcastInv, RequestInv
    <3>2. m.about <= after
      BY <2>2, <3>1, PageStarts DEF BroadcastInv
    <3> QED
      BY <2>1, <3>2 DEF BroadcastInv, RunInv
  <2>3. \A m \in BroadcastMessages : copies[m].emitted <= stalls + 1
    BY <1>3, <2>1 DEF Allowed
  <2> QED
    BY <2>1, <2>2, <2>3 DEF RunInv, Allowed, N!Running
<1>8. CASE N!JobOver \/ N!JobFails \/ N!WorkerDies
  <2>1. /\ copies' = copies /\ ToSteady' = ToSteady /\ broadcast' = broadcast
        /\ job' \in {"queued", "over"}
        /\ \/ stalls' = stalls /\ job' = "over"
           \/ stalls' = stalls + 1
    BY <1>8 DEF N!JobOver, N!JobFails, N!WorkerDies, ToSteady, N!postVars
  <2>2. \A m \in BroadcastMessages : copies[m].emitted <= stalls + 1
    BY <1>3 DEF Allowed
  <2>3. \A m \in BroadcastMessages : copies'[m].emitted <= Allowed(m)'
    BY <1>3, <2>1, <2>2 DEF Allowed, N!Running
  <2> QED
    BY <2>1, <2>3 DEF RunInv, N!Running, BroadcastInv
<1>9. ASSUME NEW c \in N!Customers, N!StatusChanges(c)
      PROVE  RunInv'
  <2>1. /\ copies' = copies /\ UNCHANGED <<broadcast, job, stalls, after>>
        /\ steady' \subseteq steady
    BY <1>9 DEF N!StatusChanges, N!postVars
  <2>2. ToSteady' \subseteq ToSteady
    BY <2>1 DEF ToSteady
  <2> QED
    BY <2>1, <2>2 DEF RunInv, Allowed, N!Running, BroadcastInv
<1> QED
  BY <1>1, <1>5, <1>6, <1>7, <1>8, <1>9 DEF N!BroadcastNext

\* A completed broadcast was sent to everyone it was for who stayed active, and to
\* nobody twice but for the runs a dead worker's job was given again.
THEOREM BroadcastsComplete == ServicesSpec => []EveryoneOncePerRun
<1>1. ServicesInit => BroadcastInv
  <2>1. ASSUME ServicesInit
        PROVE  BroadcastInv
    <3>1. CopiesInv
      BY <2>1 DEF ServicesInit, N!Init, N!PostInit, N!NoCopy, N!Tally, CopiesInv, Counted
    <3>2. RequestInv
      BY <2>1, ServicesAssumption DEF ServicesInit, N!Init, RequestInv, N!Broadcast, N!Wanted
    <3>3. \A m \in BroadcastMessages : copies[m].emitted = 0
      BY <2>1, AboutCustomers DEF ServicesInit, N!Init, N!PostInit, N!NoCopy
    <3>4. RunInv
      BY <2>1, <3>3 DEF ServicesInit, N!Init, RunInv, Allowed, ToSteady, N!Running
    <3> QED
      BY <3>1, <3>2, <3>4 DEF BroadcastInv
  <2> QED
    BY <2>1
<1>2. BroadcastInv /\ [ServicesNext]_<<part, sessionVars, tokenVars, noticeVars>> => BroadcastInv'
  <2>1. ASSUME BroadcastInv, UNCHANGED <<broadcast, job, stalls, after, active, steady>>,
               \A m \in BroadcastMessages : copies'[m].emitted = copies[m].emitted
        PROVE  RequestInv' /\ RunInv'
    <3>1. RequestInv'
      BY <2>1 DEF BroadcastInv, RequestInv, N!Wanted
    <3>2. ToSteady' = ToSteady /\ ToSteady \subseteq BroadcastMessages
      BY <2>1, RunCounts DEF ToSteady
    <3> QED
      BY <2>1, <3>1, <3>2 DEF BroadcastInv, RunInv, Allowed, N!Running
  <2>2. ASSUME BroadcastInv, UNCHANGED noticeVars
        PROVE  BroadcastInv'
    BY <2>1, <2>2 DEF noticeVars, BroadcastInv, CopiesInv
  <2>3. ASSUME BroadcastInv, N!NoticeNext
        PROVE  BroadcastInv'
    <3>1. UNCHANGED <<broadcast, job, stalls, after, active, steady>>
      BY <2>3 DEF N!NoticeNext, N!NotifyTransaction, N!SendBillReceiptEmail,
         N!SendReceiptEmail, N!EmitBillReceipt, N!AuthNotice, N!SecurityAlert, N!StaffAlert,
         N!Forget, N!Step
    <3>2. CopiesInv'
      BY <2>3, ProducersEmit, EmitCounts DEF BroadcastInv, CopiesInv
    <3> QED
      BY <2>1, <2>3, <3>1, <3>2, NoticesElsewhere DEF BroadcastInv
  <2>4. ASSUME BroadcastInv, N!PostNext, UNCHANGED producerVars
        PROVE  BroadcastInv'
    <3>1. UNCHANGED <<broadcast, job, stalls, after, active, steady>>
      BY <2>4 DEF producerVars
    <3> QED
      BY <2>1, <2>4, <3>1, NoticesElsewhere, PostCounts DEF BroadcastInv
  <2>5. ASSUME BroadcastInv, N!BroadcastNext
        PROVE  BroadcastInv'
    <3>1. CopiesInv'
      BY <2>5, ProducersEmit, EmitCounts DEF BroadcastInv, CopiesInv
    <3> QED
      BY <2>5, <3>1, RequestKept, RunKept DEF BroadcastInv
  <2> QED
    BY <2>2, <2>3, <2>4, <2>5 DEF ServicesNext
<1>3. BroadcastInv => EveryoneOncePerRun
  <2>1. ASSUME BroadcastInv, NEW m \in BroadcastMessages
        PROVE  copies[m].emitted <= 1 + stalls
    <3>1. copies[m].emitted <= Allowed(m) /\ copies[m].emitted \in Nat /\ stalls \in Nat
      BY <2>1, RunCounts DEF BroadcastInv, RunInv
    <3> QED
      BY <3>1 DEF Allowed
  <2> QED
    BY <2>1 DEF BroadcastInv, RunInv, ToSteady, EveryoneOncePerRun, N!EveryoneOncePerRun,
       BroadcastMessages
<1> QED
  BY <1>1, <1>2, <1>3, PTL DEF ServicesSpec

-----------------------------------------------------------------------------
(***************************************************************************)
(* Onboarding.  A customer is ready only with a BVN and a date of birth on *)
(* file; the claim on his account is made once, by one request, and the    *)
(* message follows it; until it is made, whoever finished last is about to *)
(* make it.                                                                *)
(***************************************************************************)
Request == [op : Ops, at : Places, pending : BOOLEAN]

\* What a request is for tells where it may be.
Shape(r) ==
    /\ req[r].at = "idle" => req[r].op = "none"
    /\ req[r].at = "code" => req[r].op \in {"register", "addPhone", "bvn"}
    /\ req[r].at \in {"consume", "verify"} => req[r].op \in {"email", "phone", "bvnCode"}
    /\ req[r].at = "verify" /\ req[r].op = "email" => req[r].pending

\* Only who gave a BVN and a date of birth is sent a code for it.
BvnShown ==
    \/ "bvn" \in verified \/ codes["bvn"] > 0
    \/ \E r \in Requests : req[r].op = "bvnCode" \/ At(r, "bvn", "code")

BvnInv ==
    /\ BvnShown => bvn /\ dob
    /\ (\E r \in Requests : At(r, "bvn", "date")) => bvn

Publishing(r) == req[r].at = "publish"
Claiming(r) == req[r].at = "claim"

ClaimInv ==
    /\ asked \in {0, 1}
    /\ claimed => Ready
    /\ ~claimed => asked = 0 /\ \A r \in Requests : ~Publishing(r)
    /\ \A r, s \in Requests : Publishing(r) /\ Publishing(s) => r = s
    /\ asked = 1 => \A r \in Requests : ~Publishing(r)
    /\ faults = 0 /\ Ready /\ ~claimed => \E r \in Requests : Claiming(r)
    /\ faults = 0 /\ claimed => asked = 1 \/ \E r \in Requests : Publishing(r)


Shaped == req \in [Requests -> Request] /\ \A r \in Requests : Shape(r)

\* A request that goes on, is over, or starts leaves the others where they are.
Moves(r, op, place, pending) ==
    /\ req' \in [Requests -> Request]
    /\ req'[r].op = op /\ req'[r].at = place /\ req'[r].pending = pending
    /\ \A s \in Requests : s # r => req'[s] = req[s]

LEMMA GoMoves ==
    ASSUME Shaped, NEW r \in Requests, NEW place \in Places, Go(r, place)
    PROVE  Moves(r, req[r].op, place, req[r].pending)
<1> DEFINE x == req[r]
           y == [x EXCEPT !.at = place]
<1>1. x \in Request
  BY DEF Shaped
<1>2. req' = [req EXCEPT ![r] = y]
  BY DEF Go
<1> HIDE DEF x
<1>3. y \in Request /\ y.op = x.op /\ y.at = place /\ y.pending = x.pending
  BY <1>1 DEF Request
<1> HIDE DEF y
<1> QED
  BY <1>2, <1>3 DEF x, Shaped, Moves

LEMMA OverMoves ==
    ASSUME Shaped, NEW r \in Requests, Over(r)
    PROVE  Moves(r, "none", "idle", FALSE)
<1>1. Waiting \in Request /\ Waiting.op = "none" /\ Waiting.at = "idle" /\ Waiting.pending = FALSE
  BY DEF Request, Waiting, Ops, Places
<1> QED
  BY <1>1 DEF Over, Shaped, Moves

LEMMA StartMoves ==
    ASSUME Shaped, NEW r \in Requests, NEW op \in Ops, NEW place \in Places, Start(r, op, place)
    PROVE  Moves(r, op, place, status = "pending") /\ req[r].at = "idle"
<1> DEFINE pending == status = "pending"
           y == [op |-> op, at |-> place, pending |-> pending]
<1>1. pending \in BOOLEAN
  OBVIOUS
<1>2. req' = [req EXCEPT ![r] = y] /\ req[r].at = "idle"
  BY DEF Start
<1> HIDE DEF pending
<1>3. y \in Request /\ y.op = op /\ y.at = place /\ y.pending = pending
  BY <1>1 DEF Request
<1> HIDE DEF y
<1>4. req'[r] = y /\ req' \in [Requests -> Request]
  BY <1>2, <1>3 DEF Shaped
<1>5. \A s \in Requests : s # r => req'[s] = req[s]
  BY <1>2 DEF Shaped
<1> QED
  BY <1>2, <1>3, <1>4, <1>5 DEF pending, Moves

\* What the requests' actions do to the requests.
LEMMA NextMoves ==
    ASSUME Shaped, Next
    PROVE  \/ req' = req
           \/ \E r \in Requests :
                 \/ Moves(r, "none", "idle", FALSE)
                 \/ /\ req[r].at = "idle"
                    /\ \E op \in Ops \ {"bvnCode"}, pending \in BOOLEAN :
                          Moves(r, op, "write", pending)
                 \/ /\ req[r].at = "idle"
                    /\ \E op \in {"email", "phone", "bvnCode"}, pending \in BOOLEAN :
                          Moves(r, op, "consume", pending) /\ (op = "bvnCode" => codes["bvn"] > 0)
                 \/ /\ req[r].op \in {"register", "addPhone"}
                    /\ Moves(r, req[r].op, "code", req[r].pending)
                 \/ /\ At(r, "bvn", "write") /\ Moves(r, "bvn", "date", req[r].pending) /\ bvn'
                 \/ /\ At(r, "bvn", "date") /\ Moves(r, "bvn", "code", req[r].pending) /\ dob'
                 \/ /\ req[r].at = "consume" /\ (req[r].op = "email" => req[r].pending)
                    /\ Moves(r, req[r].op, "verify", req[r].pending)
                 \/ Moves(r, req[r].op, "claim", req[r].pending)
                 \/ Moves(r, req[r].op, "publish", req[r].pending)
<1> USE DEF Ops, Places
<1>1. CASE \/ Resend \/ RetryProvisioning \/ Suspend \/ Reactivate \/ Close
           \/ \E c \in Consumers : \/ Deliver(c) \/ CreateAccount(c) \/ DeadLetter(c)
                                    \/ InsertActiveAddress(c) \/ Acknowledge(c)
                                    \/ ConsumerDies(c)
  BY <1>1 DEF Resend, RetryProvisioning, Suspend, Reactivate, SetStatus, Close, Deliver,
     CreateAccount, DeadLetter, InsertActiveAddress, Acknowledge, ConsumerDies
<1>2. ASSUME NEW r \in Requests, Generate(r) \/ Publish(r) \/ RequestDies(r)
      PROVE  Moves(r, "none", "idle", FALSE)
  <2>1. Over(r)
    BY <1>2 DEF Generate, Publish, RequestDies
  <2> QED
    BY <2>1, OverMoves
<1>3. ASSUME NEW r \in Requests,
             \/ Register(r) \/ AddPhone(r) \/ SubmitBvn(r) \/ SetTransactionPin(r)
      PROVE  /\ req[r].at = "idle"
             /\ \E op \in Ops \ {"bvnCode"}, pending \in BOOLEAN :
                   Moves(r, op, "write", pending)
  <2>1. \E op \in Ops \ {"bvnCode"} : Start(r, op, "write")
    BY <1>3 DEF Register, AddPhone, SubmitBvn, SetTransactionPin
  <2>2. (status = "pending") \in BOOLEAN
    OBVIOUS
  <2> QED
    BY <2>1, <2>2, StartMoves
<1>4. ASSUME NEW r \in Requests, PresentCode(r)
      PROVE  /\ req[r].at = "idle"
             /\ \E op \in {"email", "phone", "bvnCode"}, pending \in BOOLEAN :
                   Moves(r, op, "consume", pending) /\ (op = "bvnCode" => codes["bvn"] > 0)
  <2>1. \E op \in {"email", "phone", "bvnCode"} :
           Start(r, op, "consume") /\ (op = "bvnCode" => codes["bvn"] > 0)
    BY <1>4 DEF PresentCode
  <2>2. (status = "pending") \in BOOLEAN
    OBVIOUS
  <2> QED
    BY <2>1, <2>2, StartMoves
<1>5. ASSUME NEW r \in Requests, SaveUser(r) \/ SetPhone(r)
      PROVE  \/ Moves(r, "none", "idle", FALSE)
             \/ /\ req[r].op \in {"register", "addPhone"}
                /\ Moves(r, req[r].op, "code", req[r].pending)
  <2>1. req[r].op \in {"register", "addPhone"} /\ (Go(r, "code") \/ Over(r))
    BY <1>5 DEF SaveUser, SetPhone, At
  <2> QED
    BY <2>1, GoMoves, OverMoves
<1>6. ASSUME NEW r \in Requests, SetBvn(r)
      PROVE  At(r, "bvn", "write") /\ Moves(r, "bvn", "date", req[r].pending) /\ bvn'
  <2>1. At(r, "bvn", "write") /\ Go(r, "date") /\ bvn'
    BY <1>6 DEF SetBvn
  <2>2. req[r].op = "bvn"
    BY <2>1 DEF At
  <2> QED
    BY <2>1, <2>2, GoMoves
<1>7. ASSUME NEW r \in Requests, SetDateOfBirth(r)
      PROVE  At(r, "bvn", "date") /\ Moves(r, "bvn", "code", req[r].pending) /\ dob'
  <2>1. At(r, "bvn", "date") /\ Go(r, "code") /\ dob'
    BY <1>7 DEF SetDateOfBirth
  <2>2. req[r].op = "bvn"
    BY <2>1 DEF At
  <2> QED
    BY <2>1, <2>2, GoMoves
<1>8. ASSUME NEW r \in Requests, Consume(r)
      PROVE  \/ Moves(r, "none", "idle", FALSE)
             \/ /\ req[r].at = "consume" /\ (req[r].op = "email" => req[r].pending)
                /\ Moves(r, req[r].op, "verify", req[r].pending)
  <2>1. /\ req[r].at = "consume"
        /\ (((req[r].op = "email" => req[r].pending) /\ Go(r, "verify")) \/ Over(r))
    BY <1>8 DEF Consume, ConsumeFor
  <2> QED
    BY <2>1, GoMoves, OverMoves
<1>9. ASSUME NEW r \in Requests, MarkVerified(r) \/ SetPin(r)
      PROVE  Moves(r, "none", "idle", FALSE) \/ Moves(r, req[r].op, "claim", req[r].pending)
  <2>1. Go(r, "claim") \/ Over(r)
    BY <1>9 DEF MarkVerified, SetPin
  <2> QED
    BY <2>1, GoMoves, OverMoves
<1>10. ASSUME NEW r \in Requests, ClaimProvisioning(r)
       PROVE  Moves(r, "none", "idle", FALSE) \/ Moves(r, req[r].op, "publish", req[r].pending)
  <2>1. Go(r, "publish") \/ Over(r)
    BY <1>10 DEF ClaimProvisioning, ClaimIf
  <2> QED
    BY <2>1, GoMoves, OverMoves
<1> QED
  BY <1>1, <1>2, <1>3, <1>4, <1>5, <1>6, <1>7, <1>8, <1>9, <1>10 DEF Next

\* Whatever a request does, it is somewhere it may be.
LEMMA NextShapes ==
    ASSUME Shaped, Next
    PROVE  Shaped'
<1>1. ASSUME req' = req
      PROVE  Shaped'
  BY <1>1 DEF Shaped, Shape
<1>2. ASSUME NEW r \in Requests, req' \in [Requests -> Request],
             \A s \in Requests : s # r => req'[s] = req[s], Shape(r)'
      PROVE  Shaped'
  BY <1>2 DEF Shaped, Shape
<1>3. \A r \in Requests : Shape(r)
  BY DEF Shaped
<1> QED
  BY <1>1, <1>2, <1>3, NextMoves DEF Moves, Shape, At

OnboardingInv ==
    /\ Shaped
    /\ codes \in [Purposes -> Nat]
    /\ faults \in Nat
    /\ BvnInv
    /\ ClaimInv

\* The purpose of the code a request sends or takes.
LEMMA CodePurpose ==
    ASSUME Shaped, NEW r \in Requests
    PROVE  /\ req[r].at = "code" /\ Purpose(req[r].op) = "bvn" => At(r, "bvn", "code")
           /\ req[r].at \in {"consume", "verify"} /\ Purpose(req[r].op) = "bvn" =>
                 req[r].op = "bvnCode"
           /\ req[r].at \in {"code", "consume"} => Purpose(req[r].op) \in Purposes
  BY DEF Shaped, Shape, Purpose, At, Purposes

LEMMA CodesKept ==
    ASSUME OnboardingInv, Next
    PROVE  /\ codes' \in [Purposes -> Nat]
           /\ codes'["bvn"] > 0 => BvnShown
<1> USE DEF OnboardingInv
<1>0. codes["bvn"] \in Nat
  BY DEF Purposes
<1>1. ASSUME codes' = codes
      PROVE  codes' \in [Purposes -> Nat] /\ (codes'["bvn"] > 0 => BvnShown)
  BY <1>1 DEF BvnShown
<1>2. CASE Resend
  BY <1>0, <1>1, <1>2 DEF Resend, Send, Purposes, BvnShown
<1>3. ASSUME NEW r \in Requests, Generate(r)
      PROVE  codes' \in [Purposes -> Nat] /\ (codes'["bvn"] > 0 => BvnShown)
  <2> DEFINE p == Purpose(req[r].op)
  <2>1. p \in Purposes /\ (p = "bvn" => BvnShown)
    BY <1>3, CodePurpose DEF Generate, BvnShown
  <2>2. \/ codes' = codes
        \/ codes' = [codes EXCEPT ![p] = @ + 1]
    BY <1>3 DEF Generate, Send
  <2> HIDE DEF p
  <2> QED
    BY <1>0, <1>1, <2>1, <2>2 DEF Purposes, BvnShown
<1>4. ASSUME NEW r \in Requests, Consume(r)
      PROVE  codes' \in [Purposes -> Nat] /\ (codes'["bvn"] > 0 => BvnShown)
  <2> DEFINE p == Purpose(req[r].op)
  <2>1. p \in Purposes
    BY <1>4, CodePurpose DEF Consume, ConsumeFor
  <2>2. codes' = [codes EXCEPT ![p] = IF @ > 0 THEN @ - 1 ELSE 0]
    BY <1>4 DEF Consume, ConsumeFor
  <2> HIDE DEF p
  <2> QED
    BY <1>0, <2>1, <2>2 DEF Purposes, BvnShown
<1>5. ASSUME NEW r \in Requests,
             \/ Register(r) \/ SaveUser(r) \/ AddPhone(r) \/ SetPhone(r) \/ SubmitBvn(r)
             \/ SetBvn(r) \/ SetDateOfBirth(r) \/ PresentCode(r) \/ MarkVerified(r)
             \/ SetTransactionPin(r) \/ SetPin(r) \/ ClaimProvisioning(r) \/ Publish(r)
             \/ RequestDies(r)
      PROVE  codes' = codes
  BY <1>5 DEF Register, SaveUser, AddPhone, SetPhone, SubmitBvn, SetBvn, SetDateOfBirth,
     PresentCode, MarkVerified, SetTransactionPin, SetPin, ClaimProvisioning, ClaimIf, Publish,
     RequestDies
<1>6. ASSUME \/ RetryProvisioning \/ Suspend \/ Reactivate \/ Close
             \/ \E c \in Consumers : \/ Deliver(c) \/ CreateAccount(c) \/ DeadLetter(c)
                                      \/ InsertActiveAddress(c) \/ Acknowledge(c)
                                      \/ ConsumerDies(c)
      PROVE  codes' = codes
  BY <1>6 DEF RetryProvisioning, Suspend, Reactivate, SetStatus, Close, Deliver, CreateAccount,
     DeadLetter, InsertActiveAddress, Acknowledge, ConsumerDies
<1> QED
  BY <1>1, <1>2, <1>3, <1>4, <1>5, <1>6 DEF Next

\* What was shown to the registry is on file.
LEMMA BvnKept ==
    ASSUME OnboardingInv, Next
    PROVE  BvnInv'
<1> USE DEF OnboardingInv
<1>1. /\ bvn => bvn'
      /\ dob => dob'
      /\ "bvn" \in verified' => BvnShown
  <2>1. ASSUME NEW r \in Requests, MarkVerified(r)
        PROVE  "bvn" \in verified' => BvnShown
    BY <2>1, CodePurpose DEF MarkVerified, BvnShown
  <2>2. ASSUME NEW r \in Requests, SetBvn(r) \/ SetDateOfBirth(r)
        PROVE  /\ bvn => bvn'
               /\ dob => dob'
               /\ verified' = verified
    BY <2>2 DEF SetBvn, SetDateOfBirth
  <2>3. ASSUME NEW r \in Requests,
               \/ Register(r) \/ SaveUser(r) \/ Generate(r) \/ AddPhone(r) \/ SetPhone(r)
               \/ SubmitBvn(r) \/ PresentCode(r) \/ Consume(r) \/ MarkVerified(r)
               \/ SetTransactionPin(r) \/ SetPin(r) \/ ClaimProvisioning(r) \/ Publish(r)
               \/ RequestDies(r)
        PROVE  bvn' = bvn /\ dob' = dob /\ (verified' = verified \/ MarkVerified(r))
    BY <2>3 DEF Register, SaveUser, Generate, AddPhone, SetPhone, SubmitBvn, PresentCode,
       Consume, ConsumeFor, MarkVerified, SetTransactionPin, SetPin, ClaimProvisioning, ClaimIf,
       Publish, RequestDies, user
  <2>4. ASSUME \/ Resend \/ RetryProvisioning \/ Suspend \/ Reactivate \/ Close
               \/ \E c \in Consumers : \/ Deliver(c) \/ CreateAccount(c) \/ DeadLetter(c)
                                        \/ InsertActiveAddress(c) \/ Acknowledge(c)
                                        \/ ConsumerDies(c)
        PROVE  bvn' = bvn /\ dob' = dob /\ verified' \subseteq verified
    BY <2>4 DEF Resend, RetryProvisioning, Suspend, Reactivate, SetStatus, Close, Deliver,
       CreateAccount, DeadLetter, InsertActiveAddress, Acknowledge, ConsumerDies, user
  <2>5. "bvn" \in verified => BvnShown
    BY DEF BvnShown
  <2> QED
    BY <2>1, <2>2, <2>3, <2>4, <2>5 DEF Next
\* A request that newly shows it had written both.
<1>2. ASSUME NEW r \in Requests, req'[r].op = "bvnCode" \/ At(r, "bvn", "code")', ~BvnShown
      PROVE  bvn' /\ dob'
  <2>1. ~(req[r].op = "bvnCode" \/ At(r, "bvn", "code"))
    BY <1>2 DEF BvnShown
  <2>2. ~(codes["bvn"] > 0)
    BY <1>2 DEF BvnShown
  <2>3. At(r, "bvn", "date") /\ dob'
    BY <1>2, <2>1, <2>2, NextMoves DEF Moves, At
  <2> QED
    BY <1>1, <2>3 DEF BvnInv
<1>3. ASSUME NEW r \in Requests, At(r, "bvn", "date")'
      PROVE  bvn'
  <2>1. At(r, "bvn", "date") \/ bvn'
    BY <1>3, NextMoves DEF Moves, At
  <2> QED
    BY <1>1, <2>1 DEF BvnInv
<1>4. BvnShown => bvn' /\ dob'
  BY <1>1 DEF BvnInv
<1>5. BvnShown' => bvn' /\ dob'
  BY <1>1, <1>2, <1>4, CodesKept DEF BvnShown
<1> QED
  BY <1>3, <1>5 DEF BvnInv

\* Actions that neither claim nor publish, nor are a death: they leave every claim
\* alone, and who makes the customer ready is about to claim.
LEMMA ClaimsAlone ==
    ASSUME OnboardingInv, Next,
           \A r \in Requests : ~ClaimProvisioning(r) /\ ~Publish(r) /\ ~RequestDies(r)
    PROVE  /\ claimed' = claimed /\ asked' = asked
           /\ faults' \in Nat /\ (faults' = 0 => faults = 0)
           /\ \A s \in Requests : Publishing(s)' <=> Publishing(s)
           /\ \A s \in Requests : Claiming(s) => Claiming(s)'
           /\ Ready => Ready'
           /\ Ready' /\ ~Ready => \E s \in Requests : Claiming(s)'
<1> USE DEF OnboardingInv
<1>0. faults \in Nat /\ faults + 1 \in Nat /\ faults + 1 # 0
  OBVIOUS
\* Without a request.
<1>1. CASE \/ Resend \/ RetryProvisioning \/ Suspend \/ Reactivate \/ Close
           \/ \E c \in Consumers : \/ Deliver(c) \/ CreateAccount(c) \/ DeadLetter(c)
                                    \/ InsertActiveAddress(c) \/ Acknowledge(c)
                                    \/ ConsumerDies(c)
  <2>1. claimed' = claimed /\ asked' = asked /\ req' = req /\ pin' = pin
    BY <1>1 DEF Resend, RetryProvisioning, Suspend, Reactivate, SetStatus, Close, Deliver,
       CreateAccount, DeadLetter, InsertActiveAddress, Acknowledge, ConsumerDies, user
  <2>2. faults' = faults \/ faults' = faults + 1
    BY <1>1 DEF Resend, RetryProvisioning, Suspend, Reactivate, SetStatus, Close, Deliver,
       CreateAccount, DeadLetter, InsertActiveAddress, Acknowledge, ConsumerDies, Fault
  <2>3. "bvn" \in verified' <=> "bvn" \in verified
    BY <1>1 DEF Resend, RetryProvisioning, Suspend, Reactivate, SetStatus, Close, Deliver,
       CreateAccount, DeadLetter, InsertActiveAddress, Acknowledge, ConsumerDies, user
  <2> QED
    BY <1>0, <2>1, <2>2, <2>3 DEF Publishing, Claiming, Ready
\* A request that is over, or goes to another place than these.
<1>2. ASSUME NEW r \in Requests, claimed' = claimed, asked' = asked, faults' = faults,
             ~Publishing(r), ~Claiming(r), ~Publishing(r)',
             \A s \in Requests : s # r => req'[s] = req[s],
             "bvn" \in verified => "bvn" \in verified', pin => pin',
             Ready' /\ ~Ready => Claiming(r)'
      PROVE  /\ claimed' = claimed /\ asked' = asked
             /\ faults' \in Nat /\ (faults' = 0 => faults = 0)
             /\ \A s \in Requests : Publishing(s)' <=> Publishing(s)
             /\ \A s \in Requests : Claiming(s) => Claiming(s)'
             /\ Ready => Ready'
             /\ Ready' /\ ~Ready => \E s \in Requests : Claiming(s)'
  BY <1>2 DEF Publishing, Claiming, Ready
<1>3. ASSUME NEW r \in Requests,
             \/ Register(r) \/ AddPhone(r) \/ SubmitBvn(r) \/ SetTransactionPin(r)
             \/ PresentCode(r)
      PROVE  /\ UNCHANGED <<claimed, asked, faults, verified, pin>>
             /\ ~Publishing(r) /\ ~Claiming(r) /\ ~Publishing(r)'
             /\ \A s \in Requests : s # r => req'[s] = req[s]
  <2>1. UNCHANGED <<claimed, asked, faults, verified, pin>>
    BY <1>3 DEF Register, AddPhone, SubmitBvn, SetTransactionPin, PresentCode, user
  <2>2. \E op \in Ops, place \in {"write", "consume"} : Start(r, op, place)
    BY <1>3 DEF Register, AddPhone, SubmitBvn, SetTransactionPin, PresentCode, Ops
  <2> QED
    BY <2>1, <2>2, StartMoves DEF Moves, Publishing, Claiming, Places
<1>4. ASSUME NEW r \in Requests,
             \/ SaveUser(r) \/ Generate(r) \/ SetPhone(r) \/ SetBvn(r) \/ SetDateOfBirth(r)
             \/ Consume(r)
      PROVE  /\ UNCHANGED <<claimed, asked, faults, verified, pin>>
             /\ ~Publishing(r) /\ ~Claiming(r) /\ ~Publishing(r)'
             /\ \A s \in Requests : s # r => req'[s] = req[s]
  <2>1. UNCHANGED <<claimed, asked, faults, verified, pin>>
    BY <1>4 DEF SaveUser, Generate, SetPhone, SetBvn, SetDateOfBirth, Consume, ConsumeFor, user
  <2>2. /\ req[r].at \in {"write", "code", "date", "consume"}
        /\ Over(r) \/ \E place \in {"code", "date", "verify"} : Go(r, place)
    BY <1>4 DEF SaveUser, Generate, SetPhone, SetBvn, SetDateOfBirth, Consume, ConsumeFor, At
  <2>3. Moves(r, "none", "idle", FALSE)
        \/ \E place \in {"code", "date", "verify"} : Moves(r, req[r].op, place, req[r].pending)
    BY <2>2, GoMoves, OverMoves DEF Places
  <2> QED
    BY <2>1, <2>2, <2>3 DEF Moves, Publishing, Claiming
<1>5. ASSUME NEW r \in Requests, MarkVerified(r)
      PROVE  /\ UNCHANGED <<claimed, asked, faults, pin>>
             /\ ~Publishing(r) /\ ~Claiming(r) /\ ~Publishing(r)'
             /\ \A s \in Requests : s # r => req'[s] = req[s]
             /\ "bvn" \in verified => "bvn" \in verified'
             /\ Ready' /\ ~Ready => Claiming(r)'
  <2>1. UNCHANGED <<claimed, asked, faults, pin>> /\ req[r].at = "verify"
        /\ verified' = verified \cup {Purpose(req[r].op)}
        /\ IF req[r].op = "bvnCode" THEN Go(r, "claim") ELSE Over(r)
    BY <1>5 DEF MarkVerified
  <2>2. IF req[r].op = "bvnCode" THEN Moves(r, req[r].op, "claim", req[r].pending)
        ELSE Moves(r, "none", "idle", FALSE)
    BY <2>1, GoMoves, OverMoves DEF Places
  <2>3. req[r].op # "bvnCode" => Purpose(req[r].op) # "bvn"
    BY <2>1, CodePurpose
  <2> QED
    BY <2>1, <2>2, <2>3 DEF Moves, Publishing, Claiming, Ready
<1>6. ASSUME NEW r \in Requests, SetPin(r)
      PROVE  /\ UNCHANGED <<claimed, asked, faults, verified>> /\ pin'
             /\ ~Publishing(r) /\ ~Claiming(r) /\ ~Publishing(r)' /\ Claiming(r)'
             /\ \A s \in Requests : s # r => req'[s] = req[s]
  <2>1. UNCHANGED <<claimed, asked, faults, verified>> /\ pin' /\ req[r].at = "write"
        /\ Go(r, "claim")
    BY <1>6 DEF SetPin, At
  <2>2. Moves(r, req[r].op, "claim", req[r].pending)
    BY <2>1, GoMoves DEF Places
  <2> QED
    BY <2>1, <2>2 DEF Moves, Publishing, Claiming
<1>7. ASSUME NEW r \in Requests,
             \/ Register(r) \/ AddPhone(r) \/ SubmitBvn(r) \/ SetTransactionPin(r)
             \/ PresentCode(r) \/ SaveUser(r) \/ Generate(r) \/ SetPhone(r) \/ SetBvn(r)
             \/ SetDateOfBirth(r) \/ Consume(r) \/ MarkVerified(r) \/ SetPin(r)
      PROVE  /\ claimed' = claimed /\ asked' = asked /\ faults' = faults
             /\ ~Publishing(r) /\ ~Claiming(r) /\ ~Publishing(r)'
             /\ \A s \in Requests : s # r => req'[s] = req[s]
             /\ "bvn" \in verified => "bvn" \in verified'
             /\ pin => pin'
             /\ Ready' /\ ~Ready => Claiming(r)'
  BY <1>3, <1>4, <1>5, <1>6, <1>7 DEF Ready
<1> QED
  BY <1>1, <1>2, <1>7 DEF Next

\* The claim is made once, and followed by the one message.
LEMMA ClaimKept ==
    ASSUME OnboardingInv, Next
    PROVE  ClaimInv' /\ faults' \in Nat
<1> USE DEF OnboardingInv
<1>0. faults \in Nat /\ faults + 1 \in Nat /\ faults + 1 # 0
  OBVIOUS
<1>1. CASE \A r \in Requests : ~ClaimProvisioning(r) /\ ~Publish(r) /\ ~RequestDies(r)
  BY <1>1, ClaimsAlone DEF ClaimInv
\* Of those who come to the claim, the first finds it free.
<1>2. ASSUME NEW r \in Requests, ClaimProvisioning(r)
      PROVE  ClaimInv' /\ faults' \in Nat
  <2>1. /\ UNCHANGED <<asked, faults, verified, pin>> /\ req[r].at = "claim"
        /\ claimed' = (claimed \/ Ready)
        /\ IF Ready /\ ~claimed THEN Go(r, "publish") ELSE Over(r)
    BY <1>2 DEF ClaimProvisioning, ClaimIf
  <2>2. Ready' = Ready
    BY <2>1 DEF Ready
  <2>3. CASE Ready /\ ~claimed
    <3>1. Moves(r, req[r].op, "publish", req[r].pending)
      BY <2>1, <2>3, GoMoves DEF Places
    <3>2. \A s \in Requests : Publishing(s)' <=> s = r
      BY <2>3, <3>1 DEF Moves, Publishing, ClaimInv
    <3>3. asked' = 0 /\ claimed'
      BY <2>1, <2>3 DEF ClaimInv
    <3> QED
      BY <2>1, <2>2, <2>3, <3>2, <3>3 DEF ClaimInv
  <2>4. CASE ~(Ready /\ ~claimed)
    <3>1. Moves(r, "none", "idle", FALSE)
      BY <2>1, <2>4, OverMoves
    <3>2. \A s \in Requests : Publishing(s)' <=> Publishing(s)
      BY <2>1, <3>1 DEF Moves, Publishing
    <3>3. claimed' <=> claimed
      BY <2>1, <2>4 DEF ClaimInv
    <3> QED
      BY <2>1, <2>2, <2>4, <3>2, <3>3 DEF ClaimInv
  <2> QED
    BY <2>3, <2>4
<1>3. ASSUME NEW r \in Requests, Publish(r)
      PROVE  ClaimInv' /\ faults' \in Nat
  <2>1. /\ UNCHANGED <<claimed, verified, pin>> /\ Publishing(r) /\ Over(r)
        /\ asked' = IF bvn /\ dob THEN asked + 1 ELSE asked
        /\ faults' \in {faults, faults + 1}
    BY <1>3 DEF Publish, Publishing, Fault, user
  <2>2. claimed /\ Ready /\ asked = 0
    BY <2>1 DEF ClaimInv
  <2>3. bvn /\ dob
    BY <2>2 DEF BvnInv, BvnShown, Ready
  <2>4. asked' = 1 /\ claimed' /\ Ready'
    BY <2>1, <2>2, <2>3 DEF Ready
  <2>5. Moves(r, "none", "idle", FALSE)
    BY <2>1, OverMoves
  <2>6. \A s \in Requests : ~Publishing(s)'
    BY <2>1, <2>5 DEF Moves, Publishing, ClaimInv
  <2> QED
    BY <1>0, <2>1, <2>4, <2>6 DEF ClaimInv
<1>4. ASSUME NEW r \in Requests, RequestDies(r)
      PROVE  ClaimInv' /\ faults' \in Nat
  <2>1. /\ UNCHANGED <<claimed, verified, pin, asked>> /\ Over(r)
        /\ faults' = faults + 1
    BY <1>4 DEF RequestDies, Fault, user
  <2>2. Moves(r, "none", "idle", FALSE)
    BY <2>1, OverMoves
  <2>3. \A s \in Requests : Publishing(s)' => Publishing(s)
    BY <2>2 DEF Moves, Publishing
  <2>4. Ready' = Ready
    BY <2>1 DEF Ready
  <2> QED
    BY <1>0, <2>1, <2>3, <2>4 DEF ClaimInv
<1> QED
  BY <1>1, <1>2, <1>3, <1>4

\* The account number is asked for once, never twice, and by someone, unless a process
\* died or the message was lost (maybeRequestPaymentProvisioning).
THEOREM AccountAskedForOnce == Spec => []AskedExactlyOnce
<1>1. Init => OnboardingInv
  <2>1. ASSUME Init
        PROVE  OnboardingInv
    <3>1. /\ verified = {} /\ claimed = FALSE /\ pin = FALSE /\ asked = 0 /\ faults = 0
          /\ codes = [p \in Purposes |-> 0] /\ req = [r \in Requests |-> Waiting]
          /\ bvn = FALSE /\ dob = FALSE
      BY <2>1 DEF Init
    <3>2. Waiting \in Request /\ Waiting.op = "none" /\ Waiting.at = "idle"
      BY DEF Request, Waiting, Ops, Places
    <3>3. \A r \in Requests : req[r] = Waiting
      BY <3>1
    <3>4. Shaped
      BY <3>1, <3>2, <3>3 DEF Shaped, Shape
    <3>5. BvnInv
      BY <3>1, <3>2, <3>3 DEF BvnInv, BvnShown, At, Purposes
    <3>6. ClaimInv
      BY <3>1, <3>2, <3>3 DEF ClaimInv, Ready, Publishing
    <3> QED
      BY <3>1, <3>4, <3>5, <3>6 DEF OnboardingInv
  <2> QED
    BY <2>1
<1>2. OnboardingInv /\ [Next]_vars => OnboardingInv'
  <2>1. ASSUME OnboardingInv, UNCHANGED vars
        PROVE  OnboardingInv'
    BY <2>1 DEF OnboardingInv, vars, user, Shaped, Shape, BvnInv, BvnShown, At, ClaimInv, Ready,
       Publishing, Claiming
  <2>2. ASSUME OnboardingInv, Next
        PROVE  OnboardingInv'
    <3>1. Shaped'
      BY <2>2, NextShapes DEF OnboardingInv
    <3> QED
      BY <2>2, <3>1, CodesKept, BvnKept, ClaimKept DEF OnboardingInv
  <2> QED
    BY <2>1, <2>2
<1>3. OnboardingInv => AskedExactlyOnce
  BY DEF OnboardingInv, ClaimInv, AskedExactlyOnce, InFlight, Publishing, Claiming
<1> QED
  BY <1>1, <1>2, <1>3, PTL DEF Spec

\* A barred account becomes active again by staff only, unless a verification that began
\* before was still under way (register, verifyOtp).
THEOREM BarredIsFinal == Spec => BarredStaysBarred
<1>1. Init => Shaped
  <2>1. Waiting \in Request /\ Waiting.op = "none" /\ Waiting.at = "idle"
    BY DEF Request, Waiting, Ops, Places
  <2> QED
    BY <2>1 DEF Init, Shaped, Shape
<1>2. Shaped /\ [Next]_vars => Shaped'
  BY NextShapes DEF vars, Shaped, Shape
<1>3. Shaped /\ [Next]_vars =>
          [Barred /\ ~Verifying => \/ status' \in {status, "closed"}
                                   \/ status = "suspended" /\ Reactivate]_vars
  <2> SUFFICES ASSUME Shaped, Next, Barred, ~Verifying
               PROVE  status' \in {status, "closed"} \/ (status = "suspended" /\ Reactivate)
    BY DEF vars
  <2>1. ASSUME NEW r \in Requests,
               \/ Register(r) \/ SaveUser(r) \/ Generate(r) \/ AddPhone(r) \/ SetPhone(r)
               \/ SubmitBvn(r) \/ SetBvn(r) \/ SetDateOfBirth(r) \/ PresentCode(r)
               \/ Consume(r) \/ SetTransactionPin(r) \/ SetPin(r) \/ ClaimProvisioning(r)
               \/ Publish(r) \/ RequestDies(r)
        PROVE  status' = status
    BY <2>1 DEF Barred, Register, SaveUser, Generate, AddPhone, SetPhone, SubmitBvn, SetBvn,
       SetDateOfBirth, PresentCode, Consume, ConsumeFor, SetTransactionPin, SetPin,
       ClaimProvisioning, ClaimIf, Publish, RequestDies, user
  <2>2. ASSUME NEW r \in Requests, MarkVerified(r)
        PROVE  status' = status
    <3>1. req[r].op # "email"
      BY <2>2 DEF MarkVerified, Shaped, Shape, Verifying
    <3> QED
      BY <2>2, <3>1 DEF MarkVerified
  <2>3. ASSUME \E c \in Consumers : \/ Deliver(c) \/ CreateAccount(c) \/ DeadLetter(c)
                                    \/ InsertActiveAddress(c) \/ Acknowledge(c)
                                    \/ ConsumerDies(c)
        PROVE  status' = status
    BY <2>3 DEF Deliver, CreateAccount, DeadLetter, InsertActiveAddress, Acknowledge,
       ConsumerDies, user
  <2>4. CASE Resend \/ RetryProvisioning \/ Suspend \/ Close
    BY <2>4 DEF Resend, RetryProvisioning, Suspend, Close, Barred, SetStatus, user
  <2>5. CASE Reactivate
    BY <2>5 DEF Reactivate
  <2> QED
    BY <2>1, <2>2, <2>3, <2>4, <2>5 DEF Next
<1> QED
  BY <1>1, <1>2, <1>3, PTL DEF Spec, BarredStaysBarred

=============================================================================
