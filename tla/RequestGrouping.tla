-------------------------- MODULE RequestGrouping --------------------------
(***************************************************************************)
(* The request manager of src/internal/trafficlight/grouping: concurrent   *)
(* /rates requests that map to one cache key share one supplier request.   *)
(* The first request to SETNX the lock key asks the supplier and stores    *)
(* the answer under "res:" + key; the others poll that answer every 400ms. *)
(* Requests live on any number of hub instances and meet only in Redis, so *)
(* every Redis command is a step of its own.                               *)
(*                                                                         *)
(* One module instance is one cache key.  Time is a Tick that ages the two *)
(* Redis keys.  A request is one HTTP request: it runs once and ends.      *)
(***************************************************************************)
EXTENDS Integers

CONSTANTS
  Request,  \* the HTTP requests that map to this cache key
  None,     \* no request, no response
  LockTTL,  \* ticks the lock key lives                    (1 minute)
  GoodTTL,  \* ticks a response without errors is kept     (10 minutes)
  BadTTL    \* ticks any other response is kept            (1 minute)

ASSUME Durations ==
  /\ LockTTL \in Nat \ {0}
  /\ GoodTTL \in Nat \ {0}
  /\ BadTTL \in Nat \ {0}

\* A supplier's answer: who obtained it, and whether it is a 2xx body that
\* parses and has no entry in "errors".
Response == [by : Request, good : BOOLEAN]

ASSUME NoneIsFresh == None \notin Request \cup Response

VARIABLES
  pc,         \* where each request is in requestOrWait
  ctx,        \* its context.Context: "live" or "cancelled"
  got,        \* the response it has in hand
  ended,      \* how it ended, "no" while it runs
  lock,       \* holder of the lock key (Redis itself keeps only "")
  lockTTL,    \* remaining life of the lock key
  stored,     \* value of the response key
  storedTTL,  \* remaining life of the response key
  breach      \* history: what has already undermined the lock

vars == <<pc, ctx, got, ended, lock, lockTTL, stored, storedTTL, breach>>
redis == <<lock, lockTTL, stored, storedTTL>>

\* A request led although SETNX failed; a lock ran out under its leader; a DEL
\* was sent once more after it had taken effect.
Breach == {"lockless", "overrun", "repeated"}

Running == {"check", "fetch", "acquire", "sleep", "request", "direct",
            "store", "release", "giveup"}
Endings == {"own", "hit", "cancelled", "failed", "panicked", "crashed"}

\* Between taking the lead in requestOrWait and the end of the DEL.
Lead == {"request", "store", "release", "giveup"}
Leads(c) == pc[c] \in Lead

TTLOf(r) == IF r.good THEN GoodTTL ELSE BadTTL

Init ==
  /\ pc = [c \in Request |-> "idle"]
  /\ ctx = [c \in Request |-> "live"]
  /\ got = [c \in Request |-> None]
  /\ ended = [c \in Request |-> "no"]
  /\ lock = None /\ lockTTL = 0
  /\ stored = None /\ storedTTL = 0
  /\ breach = {}

Goto(c, from, to) == pc[c] = from /\ pc' = [pc EXCEPT ![c] = to]

End(c, from, how) ==
  /\ Goto(c, from, "done")
  /\ ended' = [ended EXCEPT ![c] = how]

-----------------------------------------------------------------------------
(***************************************************************************)
(* Mistakes this code could contain.  No action below uses them: each      *)
(* takes the place of one action to show that a property notices.          *)
(***************************************************************************)
\* SET instead of SETNX.
AcquireLockAlways(c) ==
  /\ ctx[c] = "live"
  /\ Goto(c, "acquire", "request")
  /\ lock' = c /\ lockTTL' = LockTTL
  /\ UNCHANGED <<ctx, got, ended, stored, storedTTL, breach>>

\* A poll prolongs the lock it is refused.
RefusalRenewsLock(c) ==
  /\ ctx[c] = "live"
  /\ lock # None
  /\ Goto(c, "acquire", "sleep")
  /\ lockTTL' = LockTTL
  /\ UNCHANGED <<ctx, got, ended, lock, stored, storedTTL, breach>>

\* It adds to the life the lock still has.
RefusalAddsToLock(c) ==
  /\ ctx[c] = "live"
  /\ lock # None
  /\ Goto(c, "acquire", "sleep")
  /\ lockTTL' = lockTTL + LockTTL
  /\ UNCHANGED <<ctx, got, ended, lock, stored, storedTTL, breach>>

\* A waiter that gives up deletes the lock as if it held it.
CancelledWaiterReleases(c) ==
  /\ \/ ctx[c] = "live" /\ Goto(c, "check", "fetch") /\ UNCHANGED <<ended, lock, lockTTL>>
     \/ ctx[c] = "cancelled" /\ End(c, "check", "cancelled") /\ lock' = None /\ lockTTL' = 0
  /\ UNCHANGED <<ctx, got, stored, storedTTL, breach>>

\* A hit does not return: the request goes on to refresh the answer.
HitGoesOn(c) ==
  /\ stored # None
  /\ Goto(c, "fetch", "acquire")
  /\ got' = [got EXCEPT ![c] = stored]
  /\ UNCHANGED <<ctx, ended, redis, breach>>

\* The answer is stored without the errors it carries.
StoreWithoutErrors(c) ==
  /\ Goto(c, "store", "release")
  /\ stored' = [got[c] EXCEPT !.good = TRUE] /\ storedTTL' = TTLOf(stored')
  /\ UNCHANGED <<ctx, got, ended, lock, lockTTL, breach>>

\* SET with KEEPTTL.
StoreKeepsTTL(c) ==
  /\ Goto(c, "store", "release")
  /\ stored' = got[c]
  /\ UNCHANGED <<ctx, got, ended, lock, lockTTL, storedTTL, breach>>

-----------------------------------------------------------------------------
\* HandleRequest is entered.
Arrive(c) ==
  /\ Goto(c, "idle", "check")
  /\ UNCHANGED <<ctx, got, ended, redis, breach>>

\* select on ctx.Done() at the head of every round.
CheckContext(c) ==
  /\ \/ ctx[c] = "live" /\ Goto(c, "check", "fetch") /\ UNCHANGED ended
     \/ ctx[c] = "cancelled" /\ End(c, "check", "cancelled")
  /\ UNCHANGED <<ctx, got, redis, breach>>

\* GET of the response key; it uses a background context, so a cancelled
\* request is answered too.
FetchHit(c) ==
  /\ stored # None
  /\ End(c, "fetch", "hit")
  /\ got' = [got EXCEPT ![c] = stored]
  /\ UNCHANGED <<ctx, redis, breach>>

FetchMiss(c) ==
  /\ stored = None
  /\ Goto(c, "fetch", "acquire")
  /\ UNCHANGED <<ctx, got, ended, redis, breach>>

\* Redis fails, or the value does not inflate or parse: the supplier is asked
\* outside the protocol, without lock and without storing.
FetchError(c) ==
  /\ Goto(c, "fetch", "direct")
  /\ UNCHANGED <<ctx, got, ended, redis, breach>>

\* SETNX of the lock key.
AcquireLock(c) ==
  /\ ctx[c] = "live"
  /\ lock = None
  /\ Goto(c, "acquire", "request")
  /\ lock' = c /\ lockTTL' = LockTTL
  /\ UNCHANGED <<ctx, got, ended, stored, storedTTL, breach>>

AcquireRefused(c) ==
  /\ ctx[c] = "live"
  /\ lock # None
  /\ Goto(c, "acquire", "sleep")
  /\ UNCHANGED <<ctx, got, ended, redis, breach>>

\* SETNX reports an error, Redis' or that of a cancelled context; the command
\* may still have been executed.  The request leads all the same.
AcquireError(c) ==
  /\ Goto(c, "acquire", "request")
  /\ \/ /\ ctx[c] = "live"
        /\ lock = None
        /\ lock' = c /\ lockTTL' = LockTTL
        /\ UNCHANGED breach
     \/ /\ breach' = breach \cup {"lockless"}
        /\ UNCHANGED <<lock, lockTTL>>
  /\ UNCHANGED <<ctx, got, ended, stored, storedTTL>>

\* time.Sleep is over, requestOrWait calls itself.
Wake(c) ==
  /\ Goto(c, "sleep", "check")
  /\ UNCHANGED <<ctx, got, ended, redis, breach>>

-----------------------------------------------------------------------------
\* requester() returns a response.  The supplier call carries the request's
\* context: once that is cancelled the answer can only be an error response.
RequesterReturns(c, good) ==
  /\ ctx[c] = "cancelled" => ~good
  /\ Goto(c, "request", "store")
  /\ got' = [got EXCEPT ![c] = [by |-> c, good |-> good]]
  /\ UNCHANGED <<ctx, ended, redis, breach>>

\* requester() returns an error.  The middleware's does so only if gin's context
\* falls back to the request's (c.Err()), which the router does not ask for: the
\* manager's path for it is kept, for whatever requester it is given.
RequesterFails(c) ==
  /\ Goto(c, "request", "giveup")
  /\ UNCHANGED <<ctx, got, ended, redis, breach>>

\* The rates handler panics: neither store nor DEL is deferred.
RequesterPanics(c) ==
  /\ \/ End(c, "request", "panicked")
     \/ End(c, "direct", "panicked")
  /\ UNCHANGED <<ctx, got, redis, breach>>

DirectReturns(c, good) ==
  /\ ctx[c] = "cancelled" => ~good
  /\ End(c, "direct", "own")
  /\ got' = [got EXCEPT ![c] = [by |-> c, good |-> good]]
  /\ UNCHANGED <<ctx, redis, breach>>

DirectFails(c) ==
  /\ End(c, "direct", "failed")
  /\ UNCHANGED <<ctx, got, redis, breach>>

\* SET of the response key.  Its error is ignored, so it may not happen.
StoreResponse(c) ==
  /\ Goto(c, "store", "release")
  /\ \/ stored' = got[c] /\ storedTTL' = TTLOf(got[c])
     \/ UNCHANGED <<stored, storedTTL>>
  /\ UNCHANGED <<ctx, got, ended, lock, lockTTL, breach>>

\* DEL of the lock key, whoever set it.  Its error is ignored as well.
ReleaseLock(c) ==
  /\ \/ End(c, "release", "own")
     \/ End(c, "giveup", "failed")
  /\ \/ lock' = None /\ lockTTL' = 0
     \/ UNCHANGED <<lock, lockTTL>>
  /\ UNCHANGED <<ctx, got, stored, storedTTL, breach>>

-----------------------------------------------------------------------------
(***************************************************************************)
(* redisfactory leaves the Redis client its retries: a command that took   *)
(* effect and whose reply was lost is sent again, after another request's  *)
(* commands maybe.  Each action is the first, lost, execution.             *)
(***************************************************************************)
\* The SETNX that follows is refused by the request's own lock.
AcquireRepeated(c) ==
  /\ pc[c] = "acquire" /\ ctx[c] = "live"
  /\ lock = None
  /\ lock' = c /\ lockTTL' = LockTTL
  /\ UNCHANGED <<pc, ctx, got, ended, stored, storedTTL, breach>>

StoreRepeated(c) ==
  /\ pc[c] = "store"
  /\ stored' = got[c] /\ storedTTL' = TTLOf(got[c])
  /\ UNCHANGED <<pc, ctx, got, ended, lock, lockTTL, breach>>

\* The DEL that follows may delete the lock of the next leader.
ReleaseRepeated(c) ==
  /\ pc[c] \in {"release", "giveup"}
  /\ lock' = None /\ lockTTL' = 0
  /\ breach' = breach \cup {"repeated"}
  /\ UNCHANGED <<pc, ctx, got, ended, stored, storedTTL>>

-----------------------------------------------------------------------------
\* The client hangs up while its request runs.
Disconnect(c) ==
  /\ pc[c] \in Running
  /\ ctx[c] = "live"
  /\ ctx' = [ctx EXCEPT ![c] = "cancelled"]
  /\ UNCHANGED <<pc, got, ended, redis, breach>>

\* The hub instance that serves the request dies.
Crash(c) ==
  /\ pc[c] \in Running
  /\ End(c, pc[c], "crashed")
  /\ UNCHANGED <<ctx, got, redis, breach>>

\* Redis expires the two keys.  Nobody prolongs the lock of a request that
\* is still asking its supplier.
Tick ==
  /\ lock # None \/ stored # None
  /\ lockTTL' = IF lockTTL = 0 THEN 0 ELSE lockTTL - 1
  /\ lock' = IF lockTTL' = 0 THEN None ELSE lock
  /\ storedTTL' = IF storedTTL = 0 THEN 0 ELSE storedTTL - 1
  /\ stored' = IF storedTTL' = 0 THEN None ELSE stored
  /\ breach' = IF \E c \in Request : Leads(c) /\ lock = c /\ lock' # c
               THEN breach \cup {"overrun"} ELSE breach
  /\ UNCHANGED <<pc, ctx, got, ended>>

-----------------------------------------------------------------------------
\* The program's own steps: what a scheduled goroutine does next.
Step(c) ==
  \/ CheckContext(c)
  \/ FetchHit(c) \/ FetchMiss(c) \/ FetchError(c)
  \/ AcquireLock(c) \/ AcquireRefused(c) \/ AcquireError(c)
  \/ Wake(c)
  \/ \E good \in BOOLEAN : RequesterReturns(c, good)
  \/ RequesterFails(c)
  \/ RequesterPanics(c)
  \/ \E good \in BOOLEAN : DirectReturns(c, good)
  \/ DirectFails(c)
  \/ StoreResponse(c)
  \/ ReleaseLock(c)

Repetition(c) == AcquireRepeated(c) \/ StoreRepeated(c) \/ ReleaseRepeated(c)

Next ==
  \/ \E c \in Request :
       Arrive(c) \/ Step(c) \/ Repetition(c) \/ Disconnect(c) \/ Crash(c)
  \/ Tick

Spec == Init /\ [][Next]_vars

\* A goroutine that can run does (supplier calls have timeouts), and time
\* passes.  Redis does not lose the reply to a free lock's SETNX every time.
\* Clients need not come or hang up, and instances need not crash.
Fairness ==
  /\ \A c \in Request : WF_vars(Step(c)) /\ SF_vars(AcquireLock(c))
  /\ WF_vars(Tick)

FairSpec == Spec /\ Fairness

-----------------------------------------------------------------------------
TypeOK ==
  /\ pc \in [Request -> {"idle", "done"} \cup Running]
  /\ ctx \in [Request -> {"live", "cancelled"}]
  /\ got \in [Request -> Response \cup {None}]
  /\ ended \in [Request -> Endings \cup {"no"}]
  /\ lock \in Request \cup {None}
  /\ lockTTL \in 0..LockTTL
  /\ stored \in Response \cup {None}
  /\ storedTTL \in Nat
  /\ breach \in SUBSET Breach

\* Two requests of one key are never both between taking the lead and
\* releasing the lock, in any interleaving with panics, crashes, disconnects
\* and lost replies, until a request has led without the lock (SETNX failed),
\* asked its supplier for longer than the lock lives, or sent its DEL twice.
SingleFlight ==
  breach = {} => \A c, d \in Request : Leads(c) /\ Leads(d) => c = d

\* Under the same condition the DEL of a request removes its own lock, although
\* ReleaseLock does not look whose lock it deletes.
ReleasesOwnLock ==
  [][\A c \in Request :
       breach = {} /\ pc[c] \in {"release", "giveup"} /\ pc'[c] = "done" /\ lock' # lock
         => lock = c]_vars

\* An answer taken from the cache is the very answer another request obtained
\* from the supplier, whatever has failed, crashed or been stored twice since:
\* never an answer of a request whose requester failed, and never one's own.
HitIsGenuine ==
  \A c \in Request :
    ended[c] = "hit" => /\ got[c] \in Response
                        /\ got[c].by # c
                        /\ got[got[c].by] = got[c]

\* No key outlives its time: a lock or an answer is there only with time left,
\* and an error answer never has more than the short time left, also when it
\* replaced a good one.
KeysAreMortal ==
  /\ lock # None <=> lockTTL > 0
  /\ stored # None <=> storedTTL > 0
  /\ stored # None => storedTTL <= TTLOf(stored)

\* Every request that arrives ends, waiters of crashed or panicked leaders
\* included: the poll loop in requestOrWait does not run for ever.
EveryRequestEnds ==
  \A c \in Request : (pc[c] # "idle") ~> (pc[c] = "done")

\* A lock does not stay with a request that is gone, nor an answer in the cache.
KeysExpire ==
  /\ \A c \in Request : (lock = c) ~> (lock # c)
  /\ \A r \in Response : (stored = r) ~> (stored # r)

\* Inductive strengthenings.  SingleFlight: whoever leads holds the lock.
LeaderHoldsLock ==
  breach = {} => \A c \in Request : Leads(c) => lock = c

\* HitIsGenuine: an answer in hand is either the request's own, or came with the
\* hit that ended it; one's own is set once; a shared one is still in the hands
\* of the request that obtained it.
Unanswered == {"idle", "check", "fetch", "acquire", "sleep", "request", "direct", "giveup"}

AnswersHaveOwners ==
  /\ \A c \in Request :
       /\ pc[c] # "done" => ended[c] = "no"
       /\ pc[c] \in Unanswered => got[c] = None
       /\ pc[c] \in {"store", "release"} => got[c] # None
       /\ got[c] # None /\ ended[c] # "hit" => got[c].by = c
  /\ stored # None => got[stored.by] = stored

IInv == TypeOK /\ LeaderHoldsLock /\ AnswersHaveOwners /\ HitIsGenuine /\ KeysAreMortal

\* Request grouping keeps its promise to the clients: every step of the manager
\* is a step of SharedAnswer or changes nothing there.
PhaseOf(c) == IF pc[c] \in Running THEN "open"
              ELSE IF pc[c] = "done" THEN "closed" ELSE "new"

Promise == INSTANCE SharedAnswer WITH
  phase <- [c \in Request |-> PhaseOf(c)], answer <- got, shared <- stored

KeepsPromise == Promise!Spec

-----------------------------------------------------------------------------
\* What requesst_manager_test.go:119 says: "should wait for other process to
\* finish requesting".  Nobody starts to ask the supplier while another request
\* is still asking, as long as Redis answers every command.
WaitsForOther ==
  [][\A c, d \in Request :
       c # d /\ pc[d] = "request" /\ pc[c] = "acquire" /\ breach' \subseteq {"overrun"}
         => pc'[c] # "request"]_vars

\* What requesst_manager_test.go:100 says: "should get the request from cache".
\* Nobody starts to ask the supplier while an answer is in the cache, with a
\* lock that nothing has undermined.
AnswersFromCache ==
  [][\A c \in Request :
       pc[c] = "acquire" /\ stored # None /\ breach' = {} => pc'[c] # "request"]_vars
=============================================================================
