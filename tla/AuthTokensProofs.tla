-------------------------- MODULE AuthTokensProofs --------------------------
(***************************************************************************)
(* Proofs about AuthTokens for any set of calls, any values of expires_in, *)
(* any timeout and any bound on the clock.                                 *)
(***************************************************************************)
EXTENDS AuthTokens, TLAPS

\* The inductive invariant: each of its parts needs the others, because what the
\* cache holds is what some call had in hand when it stored it in time.
LEMMA Inductive == Spec => []IInv
<1>1. Init => IInv
  BY Clock DEF Init, IInv, TypeOK, CacheOutlivesByTimeout, TokenIsGranted,
     CallsAreTimely, Point, Pending
<1>2. IInv /\ [Next]_vars => IInv'
  <2> SUFFICES ASSUME IInv, [Next]_vars PROVE IInv'
    OBVIOUS
  <2> USE Clock DEF IInv, TypeOK, CacheOutlivesByTimeout, TokenIsGranted,
          CallsAreTimely, Point, Pending, Goto, Starts, End, auth, cache
  <2>1. ASSUME NEW c \in Call, Arrive(c) \/ FetchMiss(c) \/ Ask(c) PROVE IInv'
    BY <2>1 DEF Arrive, FetchMiss, Ask
  <2>2. ASSUME NEW c \in Call, FetchHit(c) PROVE IInv'
    <3>1. /\ cached \in Call
          /\ now < expires[cached] + Timeout
      BY <2>2 DEF FetchHit
    <3>2. QED
      BY <2>2, <3>1 DEF FetchHit
  <2>3. ASSUME NEW c \in Call, NEW l \in Lives, Grant(c, l) PROVE IInv'
    BY <2>3 DEF Grant
  <2>4. ASSUME NEW c \in Call, AnswerBlank(c) \/ Answered(c) PROVE IInv'
    BY <2>4 DEF AnswerBlank, Answered
  <2>5. ASSUME NEW c \in Call, Refused(c) \/ Use(c) \/ Lose(c) PROVE IInv'
    BY <2>5 DEF Refused, Use, Lose
  <2>6. ASSUME NEW c \in Call, StoreToken(c) \/ StoreFails(c) PROVE IInv'
    <3>1. life[c] > 0 /\ pc[c] = "store" =>
            /\ reply[c] = "token" /\ hand[c] = c
            /\ now + life[c] <= expires[c] + Timeout
      OBVIOUS
    <3>2. CASE StoreToken(c)
      BY <3>1, <3>2 DEF StoreToken
    <3>3. CASE StoreFails(c)
      BY <3>1, <3>3 DEF StoreFails
    <3>4. QED
      BY <2>6, <3>2, <3>3
  <2>7. ASSUME NEW c \in Call, Revoke(c) PROVE IInv'
    BY <2>7 DEF Revoke
  <2>8. CASE Tick
    BY <2>8 DEF Tick
  <2>9. CASE UNCHANGED vars
    BY <2>9 DEF vars
  <2>10. QED
    BY <2>1, <2>2, <2>3, <2>4, <2>5, <2>6, <2>7, <2>8, <2>9 DEF Next
<1>3. QED
  BY <1>1, <1>2, PTL DEF Spec

-----------------------------------------------------------------------------
\* Every variable keeps its type.
THEOREM TypeCorrect == Spec => []TypeOK
BY Inductive, PTL DEF IInv

\* The cache keeps no token longer than one timeout past its end.
THEOREM CacheOutlivesByTimeoutHolds == Spec => []CacheOutlivesByTimeout
BY Inductive, PTL DEF IInv

\* No operation is sent with a token the supplier has not granted.
THEOREM TokenIsGrantedHolds == Spec => []TokenIsGranted
BY Inductive, PTL DEF IInv

\* A token that has not been withdrawn is rejected only within two timeouts of
\* its end.
THEOREM RejectedOnlyWhenStaleHolds == Spec => RejectedOnlyWhenStale
<1> DEFINE Stale(c) == pc[c] = "use" /\ pc'[c] = "rejected" =>
             \/ hand[c] \in revoked
             \/ now >= expires[hand[c]] /\ now < expires[hand[c]] + 2 * Timeout
<1>1. IInv /\ [Next]_vars => \A c \in Call : Stale(c)
  <2> SUFFICES ASSUME IInv, [Next]_vars, NEW c \in Call,
                      pc[c] = "use", pc'[c] = "rejected"
               PROVE  Stale(c)
    OBVIOUS
  <2>1. Use(c)
    BY DEF IInv, TypeOK, Next, vars, Goto, End, Arrive, FetchHit, FetchMiss, Ask,
       Grant, AnswerBlank, Answered, Refused, StoreToken, StoreFails, Use, Lose,
       Revoke, Tick
  <2>2. ~Valid(hand[c])
    BY <2>1 DEF Use, End, Goto, IInv, TypeOK
  <2>3. /\ hand[c] \in Call
        /\ now <= since[c] + Timeout
        /\ since[c] < expires[hand[c]] + Timeout
    BY DEF IInv, TokenIsGranted, CallsAreTimely, Pending
  <2>4. QED
    BY <2>2, <2>3, Clock DEF Valid, IInv, TypeOK
<1>2. QED
  BY <1>1, Inductive, PTL DEF Spec, RejectedOnlyWhenStale
=============================================================================
