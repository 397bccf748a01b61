----------------------- MODULE RequestGroupingProofs -----------------------
(***************************************************************************)
(* Proofs about RequestGrouping for any set of requests and any lifetimes  *)
(* of the two Redis keys.                                                  *)
(***************************************************************************)
EXTENDS RequestGrouping, TLAPS

\* The lifetimes of answers are positive, whichever kind they are.
LEMMA TTLIsPositive ==
  ASSUME NEW r \in Response
  PROVE  TTLOf(r) \in Nat \ {0}
BY Durations DEF TTLOf, Response

-----------------------------------------------------------------------------
\* Every variable keeps its type.
THEOREM TypeCorrect == Spec => []TypeOK
<1>1. Init => TypeOK
  BY Durations DEF Init, TypeOK
<1>2. TypeOK /\ [Next]_vars => TypeOK'
  <2> SUFFICES ASSUME TypeOK, [Next]_vars PROVE TypeOK'
    OBVIOUS
  <2> USE Durations DEF TypeOK, Running, Endings, Goto, End, redis
  <2>1. ASSUME NEW c \in Request, Arrive(c) PROVE TypeOK'
    BY <2>1 DEF Arrive
  <2>2. ASSUME NEW c \in Request, CheckContext(c) PROVE TypeOK'
    BY <2>2 DEF CheckContext
  <2>3. ASSUME NEW c \in Request, FetchHit(c) PROVE TypeOK'
    BY <2>3 DEF FetchHit
  <2>4. ASSUME NEW c \in Request, FetchMiss(c) PROVE TypeOK'
    BY <2>4 DEF FetchMiss
  <2>5. ASSUME NEW c \in Request, FetchError(c) PROVE TypeOK'
    BY <2>5 DEF FetchError
  <2>6. ASSUME NEW c \in Request, AcquireLock(c) PROVE TypeOK'
    BY <2>6 DEF AcquireLock
  <2>7. ASSUME NEW c \in Request, AcquireRefused(c) PROVE TypeOK'
    BY <2>7 DEF AcquireRefused
  <2>8. ASSUME NEW c \in Request, AcquireError(c) PROVE TypeOK'
    <3>1. breach' \subseteq Breach
      BY <2>8 DEF AcquireError, Breach
    <3>2. QED
      BY <2>8, <3>1 DEF AcquireError
  <2>9. ASSUME NEW c \in Request, Wake(c) PROVE TypeOK'
    BY <2>9 DEF Wake
  <2>10. ASSUME NEW c \in Request, NEW good \in BOOLEAN, RequesterReturns(c, good)
         PROVE TypeOK'
    BY <2>10 DEF RequesterReturns, Response
  <2>11. ASSUME NEW c \in Request, RequesterFails(c) PROVE TypeOK'
    BY <2>11 DEF RequesterFails
  <2>12. ASSUME NEW c \in Request, RequesterPanics(c) PROVE TypeOK'
    BY <2>12 DEF RequesterPanics
  <2>13. ASSUME NEW c \in Request, NEW good \in BOOLEAN, DirectReturns(c, good)
         PROVE TypeOK'
    BY <2>13 DEF DirectReturns, Response
  <2>14. ASSUME NEW c \in Request, DirectFails(c) PROVE TypeOK'
    BY <2>14 DEF DirectFails
  <2>15. ASSUME NEW c \in Request, StoreResponse(c) PROVE TypeOK'
    <3>1. CASE UNCHANGED <<stored, storedTTL>>
      BY <2>15, <3>1 DEF StoreResponse
    <3>2. CASE stored' = got[c] /\ storedTTL' = TTLOf(got[c])
      <4>1. TTLOf(got[c]) \in Nat
        BY DEF TTLOf
      <4>2. QED
        BY <2>15, <3>2, <4>1 DEF StoreResponse
    <3>3. QED
      BY <2>15, <3>1, <3>2 DEF StoreResponse
  <2>16. ASSUME NEW c \in Request, ReleaseLock(c) PROVE TypeOK'
    BY <2>16 DEF ReleaseLock
  <2>17. ASSUME NEW c \in Request, Disconnect(c) PROVE TypeOK'
    BY <2>17 DEF Disconnect
  <2>18. ASSUME NEW c \in Request, AcquireRepeated(c) PROVE TypeOK'
    BY <2>18 DEF AcquireRepeated
  <2>19. ASSUME NEW c \in Request, StoreRepeated(c) PROVE TypeOK'
    <3>1. TTLOf(got[c]) \in Nat
      BY DEF TTLOf
    <3>2. QED
      BY <2>19, <3>1 DEF StoreRepeated
  <2>20. ASSUME NEW c \in Request, ReleaseRepeated(c) PROVE TypeOK'
    BY <2>20 DEF ReleaseRepeated, Breach
  <2>21. ASSUME NEW c \in Request, Crash(c) PROVE TypeOK'
    BY <2>21 DEF Crash
  <2>22. CASE Tick
    BY <2>22 DEF Tick, Breach
  <2>23. CASE UNCHANGED vars
    BY <2>23 DEF vars
  <2>24. QED
    BY <2>1, <2>2, <2>3, <2>4, <2>5, <2>6, <2>7, <2>8, <2>9, <2>10, <2>11,
       <2>12, <2>13, <2>14, <2>15, <2>16, <2>17, <2>18, <2>19, <2>20,
       <2>21, <2>22, <2>23
       DEF Next, Step, Repetition
<1>3. QED
  BY <1>1, <1>2, PTL DEF Spec
-----------------------------------------------------------------------------
\* Whoever leads holds the lock, until SETNX has failed for some request or a
\* lock has run out under its leader.
LEMMA LeaderHoldsLockInv == Spec => []LeaderHoldsLock
<1>1. Init => LeaderHoldsLock
  BY DEF Init, LeaderHoldsLock, Leads, Lead
<1>2. TypeOK /\ LeaderHoldsLock /\ [Next]_vars => LeaderHoldsLock'
  <2> SUFFICES ASSUME TypeOK, LeaderHoldsLock, [Next]_vars, breach' = {},
                      NEW d \in Request, Leads(d)'
               PROVE  lock' = d
    BY DEF LeaderHoldsLock
  <2> USE NoneIsFresh DEF TypeOK, LeaderHoldsLock, Leads, Lead, Goto, End, redis
  <2>1. ASSUME NEW c \in Request,
               Arrive(c) \/ CheckContext(c) \/ FetchHit(c) \/ FetchMiss(c) \/ FetchError(c)
        PROVE  lock' = d
    BY <2>1 DEF Arrive, CheckContext, FetchHit, FetchMiss, FetchError
  <2>2. ASSUME NEW c \in Request, AcquireLock(c) PROVE lock' = d
    BY <2>2 DEF AcquireLock
  <2>3. ASSUME NEW c \in Request, AcquireRefused(c) \/ Wake(c) PROVE lock' = d
    BY <2>3 DEF AcquireRefused, Wake
  <2>4. ASSUME NEW c \in Request, AcquireError(c) PROVE lock' = d
    BY <2>4 DEF AcquireError
  <2>5. ASSUME NEW c \in Request, NEW good \in BOOLEAN,
               RequesterReturns(c, good) \/ DirectReturns(c, good)
        PROVE  lock' = d
    BY <2>5 DEF RequesterReturns, DirectReturns
  <2>6. ASSUME NEW c \in Request,
               RequesterFails(c) \/ RequesterPanics(c) \/ DirectFails(c) \/ StoreResponse(c)
        PROVE  lock' = d
    BY <2>6 DEF RequesterFails, RequesterPanics, DirectFails, StoreResponse
  <2>7. ASSUME NEW c \in Request, ReleaseLock(c) PROVE lock' = d
    BY <2>7 DEF ReleaseLock
  <2>8. ASSUME NEW c \in Request, Disconnect(c) \/ Crash(c) \/ Repetition(c)
        PROVE  lock' = d
    BY <2>8 DEF Disconnect, Crash, Repetition, AcquireRepeated, StoreRepeated, ReleaseRepeated
  <2>9. CASE Tick
    <3>1. Leads(d) /\ lock = d
      BY <2>9 DEF Tick
    <3>2. QED
      BY <2>9, <3>1 DEF Tick
  <2>10. CASE UNCHANGED vars
    BY <2>10 DEF vars
  <2>11. QED
    BY <2>1, <2>2, <2>3, <2>4, <2>5, <2>6, <2>7, <2>8, <2>9, <2>10 DEF Next, Step, Repetition
<1>3. QED
  BY <1>1, <1>2, TypeCorrect, PTL DEF Spec

THEOREM SingleFlightHolds == Spec => []SingleFlight
<1>1. LeaderHoldsLock => SingleFlight
  BY DEF LeaderHoldsLock, SingleFlight
<1>2. QED
  BY <1>1, LeaderHoldsLockInv, PTL

\* The unconditional DEL of ReleaseLock deletes the request's own lock.
THEOREM ReleasesOwnLockHolds == Spec => ReleasesOwnLock
<1>1. LeaderHoldsLock /\ [Next]_vars =>
        [\A c \in Request :
           breach = {} /\ pc[c] \in {"release", "giveup"} /\ pc'[c] = "done" /\ lock' # lock
             => lock = c]_vars
  BY DEF LeaderHoldsLock, Leads, Lead
<1>2. QED
  BY <1>1, LeaderHoldsLockInv, PTL DEF Spec, ReleasesOwnLock

-----------------------------------------------------------------------------
\* An answer from the cache is the one its owner got, and not one's own.
LEMMA AnswersInv == Spec => [](AnswersHaveOwners /\ HitIsGenuine)
<1> DEFINE Inv == AnswersHaveOwners /\ HitIsGenuine
<1>1. Init => Inv
  BY DEF Init, AnswersHaveOwners, HitIsGenuine, Unanswered
<1>2. TypeOK /\ Inv /\ [Next]_vars => Inv'
  <2> SUFFICES ASSUME TypeOK, Inv, [Next]_vars PROVE Inv'
    OBVIOUS
  <2> USE NoneIsFresh DEF TypeOK, AnswersHaveOwners, HitIsGenuine, Unanswered,
          Running, Goto, End, redis
  <2>1. ASSUME NEW c \in Request,
               Arrive(c) \/ CheckContext(c) \/ FetchMiss(c) \/ FetchError(c)
        PROVE  Inv'
    BY <2>1 DEF Arrive, CheckContext, FetchMiss, FetchError
  <2>2. ASSUME NEW c \in Request, FetchHit(c) PROVE Inv'
    <3>1. stored \in Response /\ got[stored.by] = stored /\ stored.by # c
      BY <2>2 DEF FetchHit, Response
    <3>2. QED
      BY <2>2, <3>1 DEF FetchHit, Response
  <2>3. ASSUME NEW c \in Request,
               AcquireLock(c) \/ AcquireRefused(c) \/ AcquireError(c) \/ Wake(c)
        PROVE  Inv'
    BY <2>3 DEF AcquireLock, AcquireRefused, AcquireError, Wake
  <2>4. ASSUME NEW c \in Request, NEW good \in BOOLEAN,
               RequesterReturns(c, good) \/ DirectReturns(c, good)
        PROVE  Inv'
    <3>1. /\ got[c] = None
          /\ got' = [got EXCEPT ![c] = [by |-> c, good |-> good]]
          /\ stored' = stored
          /\ ended'[c] # "hit"
          /\ \A d \in Request : d # c => ended'[d] = ended[d] /\ pc'[d] = pc[d]
          /\ \/ pc'[c] = "store" /\ ended'[c] = "no"
             \/ pc'[c] = "done"
      BY <2>4 DEF RequesterReturns, DirectReturns
    <3>2. [by |-> c, good |-> good] \in Response
      BY DEF Response
    <3>3. stored # None => stored.by # c
      BY <3>1
    <3>4. \A d \in Request : ended[d] = "hit" => got[d].by # c
      BY <3>1
    <3>5. QED
      BY <3>1, <3>2, <3>3, <3>4 DEF Response
  <2>5. ASSUME NEW c \in Request,
               RequesterFails(c) \/ RequesterPanics(c) \/ DirectFails(c)
        PROVE  Inv'
    BY <2>5 DEF RequesterFails, RequesterPanics, DirectFails
  <2>6. ASSUME NEW c \in Request, StoreResponse(c) \/ StoreRepeated(c) PROVE Inv'
    <3>1. got[c] \in Response /\ got[c].by = c
      BY <2>6 DEF StoreResponse, StoreRepeated
    <3>2. QED
      BY <2>6, <3>1 DEF StoreResponse, StoreRepeated
  <2>7. ASSUME NEW c \in Request, ReleaseLock(c) PROVE Inv'
    BY <2>7 DEF ReleaseLock
  <2>8. ASSUME NEW c \in Request,
               Disconnect(c) \/ Crash(c) \/ AcquireRepeated(c) \/ ReleaseRepeated(c)
        PROVE  Inv'
    BY <2>8 DEF Disconnect, Crash, AcquireRepeated, ReleaseRepeated
  <2>9. CASE Tick
    BY <2>9 DEF Tick
  <2>10. CASE UNCHANGED vars
    BY <2>10 DEF vars
  <2>11. QED
    BY <2>1, <2>2, <2>3, <2>4, <2>5, <2>6, <2>7, <2>8, <2>9, <2>10 DEF Next, Step, Repetition
<1>3. QED
  BY <1>1, <1>2, TypeCorrect, PTL DEF Spec

THEOREM HitIsGenuineHolds == Spec => []HitIsGenuine
BY AnswersInv, PTL

-----------------------------------------------------------------------------
\* No key is without an expiry, and an error answer never lasts longer than
\* the short lifetime, also when it takes the place of a good answer.
THEOREM KeysAreMortalHolds == Spec => []KeysAreMortal
<1>1. Init => KeysAreMortal
  BY DEF Init, KeysAreMortal
<1>2. TypeOK /\ AnswersHaveOwners /\ KeysAreMortal /\ [Next]_vars => KeysAreMortal'
  <2> SUFFICES ASSUME TypeOK, AnswersHaveOwners, KeysAreMortal, [Next]_vars
               PROVE  KeysAreMortal'
    OBVIOUS
  <2> USE Durations, NoneIsFresh DEF TypeOK, KeysAreMortal, Goto, End, redis
  <2>1. CASE UNCHANGED redis
    BY <2>1
  <2>2. ASSUME NEW c \in Request, AcquireLock(c) \/ AcquireError(c) \/ AcquireRepeated(c)
        PROVE  KeysAreMortal'
    BY <2>2 DEF AcquireLock, AcquireError, AcquireRepeated
  <2>3. ASSUME NEW c \in Request, StoreResponse(c) \/ StoreRepeated(c)
        PROVE  KeysAreMortal'
    <3>1. got[c] \in Response
      BY <2>3 DEF StoreResponse, StoreRepeated, AnswersHaveOwners
    <3>2. TTLOf(got[c]) \in Nat \ {0}
      BY <3>1, TTLIsPositive
    <3>3. QED
      BY <2>3, <3>1, <3>2 DEF StoreResponse, StoreRepeated
  <2>4. ASSUME NEW c \in Request, ReleaseLock(c) \/ ReleaseRepeated(c) PROVE KeysAreMortal'
    BY <2>4 DEF ReleaseLock, ReleaseRepeated
  <2>5. CASE Tick
    <3>1. stored # None => TTLOf(stored) \in Nat \ {0}
      BY TTLIsPositive
    <3>2. QED
      BY <2>5, <3>1 DEF Tick
  <2>6. QED
    BY <2>1, <2>2, <2>3, <2>4, <2>5
       DEF Next, Step, Repetition, vars, Arrive, CheckContext, FetchHit, FetchMiss, FetchError,
           AcquireRefused, Wake, RequesterReturns, RequesterFails, RequesterPanics,
           DirectReturns, DirectFails, Disconnect, Crash
<1>3. QED
  BY <1>1, <1>2, TypeCorrect, AnswersInv, PTL DEF Spec

-----------------------------------------------------------------------------
\* The manager implements SharedAnswer: every Redis command, failure, crash and
\* tick is one step of the promise, or none.
THEOREM PromiseKept == Spec => KeepsPromise
<1> DEFINE phase == [c \in Request |-> PhaseOf(c)]
<1>1. Init => Promise!Init
  BY DEF Init, Promise!Init, PhaseOf, Running
<1>2. TypeOK /\ AnswersHaveOwners /\ [Next]_vars => [Promise!Next]_(Promise!vars)
  <2> SUFFICES ASSUME TypeOK, AnswersHaveOwners, [Next]_vars
               PROVE  [Promise!Next]_(Promise!vars)
    OBVIOUS
  <2> USE DEF TypeOK, Running, Goto, End, redis, PhaseOf
  <2>1. ASSUME NEW c \in Request, Arrive(c) PROVE Promise!Open(c)
    BY <2>1 DEF Arrive, Promise!Open
  <2>2. ASSUME NEW c \in Request, FetchHit(c) PROVE Promise!Reuse(c)
    BY <2>2 DEF FetchHit, AnswersHaveOwners, Unanswered, Promise!Reuse
  <2>3. ASSUME NEW c \in Request, NEW good \in BOOLEAN,
               RequesterReturns(c, good) \/ DirectReturns(c, good)
        PROVE  Promise!Obtain(c)
    <3>1. pc[c] \in {"request", "direct"} /\ got[c] = None
      BY <2>3 DEF RequesterReturns, DirectReturns, AnswersHaveOwners, Unanswered
    <3>2. /\ got' = [got EXCEPT ![c] = [by |-> c, good |-> good]]
          /\ stored' = stored
      BY <2>3 DEF RequesterReturns, DirectReturns
    <3>3. \E p \in {"open", "closed"} : phase' = [phase EXCEPT ![c] = p]
      <4>1. CASE pc' = [pc EXCEPT ![c] = "store"]
        <5>1. phase' = [phase EXCEPT ![c] = "open"]
          BY <3>1, <4>1
        <5>2. QED
          BY <5>1
      <4>2. CASE pc' = [pc EXCEPT ![c] = "done"]
        <5>1. phase' = [phase EXCEPT ![c] = "closed"]
          BY <3>1, <4>2
        <5>2. QED
          BY <5>1
      <4>3. QED
        BY <2>3, <4>1, <4>2 DEF RequesterReturns, DirectReturns
    <3>4. phase[c] = "open"
      BY <3>1
    <3>5. QED
      BY <3>1, <3>2, <3>3, <3>4 DEF Promise!Obtain
  <2>4. ASSUME NEW c \in Request, StoreResponse(c) \/ StoreRepeated(c)
        PROVE  Promise!Publish(c) \/ UNCHANGED Promise!vars
    <3>1. UNCHANGED <<phase, got>>
      BY <2>4 DEF StoreResponse, StoreRepeated
    <3>2. QED
      BY <2>4, <3>1 DEF StoreResponse, StoreRepeated, AnswersHaveOwners, Promise!Publish, Promise!vars
  <2>5. ASSUME NEW c \in Request,
               \/ CheckContext(c) /\ pc'[c] = "done"
               \/ RequesterPanics(c) \/ DirectFails(c) \/ ReleaseLock(c) \/ Crash(c)
        PROVE  Promise!Close(c)
    BY <2>5 DEF CheckContext, RequesterPanics, DirectFails, ReleaseLock, Crash, Promise!Close
  <2>6. ASSUME NEW c \in Request,
               \/ CheckContext(c) /\ pc'[c] # "done"
               \/ FetchMiss(c) \/ FetchError(c) \/ AcquireLock(c) \/ AcquireRefused(c)
               \/ AcquireError(c) \/ Wake(c) \/ RequesterFails(c) \/ Disconnect(c)
               \/ AcquireRepeated(c) \/ ReleaseRepeated(c)
        PROVE  UNCHANGED Promise!vars
    <3>1. UNCHANGED <<got, stored>>
      BY <2>6 DEF CheckContext, FetchMiss, FetchError, AcquireLock, AcquireRefused,
                  AcquireError, Wake, RequesterFails, Disconnect, AcquireRepeated,
                  ReleaseRepeated
    <3>2. UNCHANGED phase
      BY <2>6 DEF CheckContext, FetchMiss, FetchError, AcquireLock, AcquireRefused,
                  AcquireError, Wake, RequesterFails, Disconnect, AcquireRepeated,
                  ReleaseRepeated
    <3>3. QED
      BY <3>1, <3>2 DEF Promise!vars
  <2>7. CASE Tick
    <3>1. UNCHANGED <<phase, got>> /\ (stored' = None \/ stored' = stored)
      BY <2>7 DEF Tick
    <3>2. QED
      BY <3>1 DEF Promise!Forget, Promise!Next, Promise!vars
  <2>8. CASE UNCHANGED vars
    BY <2>8 DEF vars, Promise!vars
  <2>9. QED
    BY <2>1, <2>2, <2>3, <2>4, <2>5, <2>6, <2>7, <2>8 DEF Next, Step, Repetition, Promise!Next
<1>3. QED
  BY <1>1, <1>2, TypeCorrect, AnswersInv, PTL DEF Spec, KeepsPromise, Promise!Spec
=============================================================================
