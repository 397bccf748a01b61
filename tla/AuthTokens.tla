----------------------------- MODULE AuthTokens -----------------------------
(***************************************************************************)
(* authRequest.Execute of the AnyRent and Rently implementations           *)
(* (src/internal/platform/implementations/{anyrent,rently}/auth.go): every *)
(* operation takes the supplier's access token from a Redis cache shared   *)
(* by all requests and instances, or asks the supplier for one and caches  *)
(* it for the seconds the supplier grants.  The supplier's clock for a     *)
(* token starts when it grants it, the cache's when it is stored.          *)
(*                                                                         *)
(* One module instance is one account (one cache key).  A call asks for at *)
(* most one token, so the token is named after the call it was granted to. *)
(***************************************************************************)
EXTENDS Integers

CONSTANTS
  Call,     \* operations of the hub that need a token
  Blank,    \* the empty token of an answer without one
  None,     \* no token
  Lives,    \* values of expires_in, in ticks
  Timeout,  \* ticks within which an auth request is answered and its token
            \* stored, or an operation's request is, or they have failed
  MaxTime   \* bound on the clock

ASSUME Clock ==
  /\ Lives \subseteq Nat
  /\ Timeout \in Nat
  /\ MaxTime \in Nat
  /\ Blank \notin Call /\ None \notin Call /\ Blank # None

VARIABLES
  now,         \* the clock
  pc,          \* control point of each call
  since,       \* when it sent the request it waits for, 0 if none
  reply,       \* the supplier's answer on its way: "none", "token" or "blank"
  life,        \* expires_in of that answer
  hand,        \* authResponse.Token
  expires,     \* when the token granted to each call ends at the supplier
  revoked,     \* tokens the supplier has withdrawn before their time
  cached,      \* value of the cache key
  cacheUntil   \* when Redis drops it

auth == <<reply, life, expires>>
cache == <<cached, cacheUntil>>
vars == <<now, pc, since, auth, hand, revoked, cache>>

Point == {"idle", "fetch", "ask", "asked", "store", "use",
          "accepted", "rejected", "unauthorised", "failed"}
Pending == {"asked", "store", "use"}

Init ==
  /\ now = 0
  /\ pc = [c \in Call |-> "idle"]
  /\ since = [c \in Call |-> 0]
  /\ reply = [c \in Call |-> "none"]
  /\ life = [c \in Call |-> 0]
  /\ hand = [c \in Call |-> None]
  /\ expires = [c \in Call |-> 0]
  /\ revoked = {}
  /\ cached = None /\ cacheUntil = 0

Goto(c, from, to) == pc[c] = from /\ pc' = [pc EXCEPT ![c] = to]
Starts(c) == since' = [since EXCEPT ![c] = now]
End(c, from, how) == Goto(c, from, how) /\ since' = [since EXCEPT ![c] = 0]

-----------------------------------------------------------------------------
\* Mistakes this code could contain; see RequestGrouping.

\* Every token is kept for as long as the longest-lived one.
StoreForLongest(c) ==
  /\ Goto(c, "store", "use")
  /\ life[c] > 0
  /\ cached' = hand[c]
  /\ \E l \in Lives : (\A k \in Lives : k <= l) /\ cacheUntil' = now + l
  /\ Starts(c)
  /\ UNCHANGED <<now, auth, hand, revoked>>

\* SET, for which an expiry of zero is none, instead of SETEX.
StoreWithoutExpiry(c) ==
  /\ Goto(c, "store", "use")
  /\ cached' = hand[c]
  /\ cacheUntil' = IF life[c] = 0 THEN MaxTime + 1 ELSE now + life[c]
  /\ Starts(c)
  /\ UNCHANGED <<now, auth, hand, revoked>>

\* An expired value is served as well.
FetchExpired(c) ==
  /\ cached # None
  /\ Goto(c, "fetch", "use")
  /\ hand' = [hand EXCEPT ![c] = cached]
  /\ Starts(c)
  /\ UNCHANGED <<now, auth, revoked, cache>>

-----------------------------------------------------------------------------
\* An operation starts.
Arrive(c) ==
  /\ Goto(c, "idle", "fetch")
  /\ UNCHANGED <<now, since, auth, hand, revoked, cache>>

\* cache.Fetch; whatever goes wrong there counts as a miss.
FetchHit(c) ==
  /\ now < cacheUntil
  /\ Goto(c, "fetch", "use")
  /\ hand' = [hand EXCEPT ![c] = cached]
  /\ Starts(c)
  /\ UNCHANGED <<now, auth, revoked, cache>>

FetchMiss(c) ==
  /\ Goto(c, "fetch", "ask")
  /\ UNCHANGED <<now, since, auth, hand, revoked, cache>>

\* makeRequest
Ask(c) ==
  /\ Goto(c, "ask", "asked")
  /\ Starts(c)
  /\ UNCHANGED <<now, auth, hand, revoked, cache>>

\* The supplier grants a token for l ticks, or answers 2xx without one.
Grant(c, l) ==
  /\ pc[c] = "asked" /\ reply[c] = "none"
  /\ reply' = [reply EXCEPT ![c] = "token"]
  /\ life' = [life EXCEPT ![c] = l]
  /\ expires' = [expires EXCEPT ![c] = now + l]
  /\ UNCHANGED <<now, pc, since, hand, revoked, cache>>

AnswerBlank(c) ==
  /\ pc[c] = "asked" /\ reply[c] = "none"
  /\ reply' = [reply EXCEPT ![c] = "blank"]
  /\ UNCHANGED <<now, pc, since, life, expires, hand, revoked, cache>>

\* The answer parses and has no error text.
Answered(c) ==
  /\ reply[c] # "none"
  /\ Goto(c, "asked", "store")
  /\ hand' = [hand EXCEPT ![c] = IF reply[c] = "token" THEN c ELSE Blank]
  /\ UNCHANGED <<now, since, auth, revoked, cache>>

\* Timeout, connection error, a code outside 2xx or an error text: the operation
\* ends with the error and without a token.  An unreadable body is a Go error.
Refused(c) ==
  /\ \/ End(c, "asked", "unauthorised")
     \/ End(c, "asked", "failed")
  /\ UNCHANGED <<now, auth, hand, revoked, cache>>

\* cache.Store; Redis takes no expiry of zero.
StoreToken(c) ==
  /\ life[c] > 0
  /\ Goto(c, "store", "use")
  /\ cached' = hand[c] /\ cacheUntil' = now + life[c]
  /\ Starts(c)
  /\ UNCHANGED <<now, auth, hand, revoked>>

\* Its error, after a SETEX that Redis may have executed, fails the operation
\* although the token is there.
StoreFails(c) ==
  /\ End(c, "store", "failed")
  /\ \/ life[c] > 0 /\ cached' = hand[c] /\ cacheUntil' = now + life[c]
     \/ UNCHANGED cache
  /\ UNCHANGED <<now, auth, hand, revoked>>

\* The operation's request with its bearer token reaches the supplier ...
Valid(t) == t \in Call /\ t \notin revoked /\ now < expires[t]

Use(c) ==
  /\ \/ Valid(hand[c]) /\ End(c, "use", "accepted")
     \/ ~Valid(hand[c]) /\ End(c, "use", "rejected")
  /\ UNCHANGED <<now, auth, hand, revoked, cache>>

\* ... or does not.
Lose(c) ==
  /\ End(c, "use", "failed")
  /\ UNCHANGED <<now, auth, hand, revoked, cache>>

\* The supplier withdraws a token; the cache does not learn of it.
Revoke(t) ==
  /\ reply[t] = "token"
  /\ revoked' = revoked \cup {t}
  /\ UNCHANGED <<now, pc, since, auth, hand, cache>>

\* http.Client's and Redis' timeouts leave nobody waiting for longer.
Tick ==
  /\ now < MaxTime
  /\ \A c \in Call : pc[c] \in Pending => now < since[c] + Timeout
  /\ now' = now + 1
  /\ UNCHANGED <<pc, since, auth, hand, revoked, cache>>

Next ==
  \/ \E c \in Call :
       \/ Arrive(c) \/ FetchHit(c) \/ FetchMiss(c) \/ Ask(c)
       \/ \E l \in Lives : Grant(c, l)
       \/ AnswerBlank(c) \/ Answered(c) \/ Refused(c)
       \/ StoreToken(c) \/ StoreFails(c) \/ Use(c) \/ Lose(c) \/ Revoke(c)
  \/ Tick

Spec == Init /\ [][Next]_vars
-----------------------------------------------------------------------------
TypeOK ==
  /\ now \in Nat
  /\ pc \in [Call -> Point]
  /\ since \in [Call -> Nat]
  /\ reply \in [Call -> {"none", "token", "blank"}]
  /\ life \in [Call -> Nat]
  /\ hand \in [Call -> Call \cup {Blank, None}]
  /\ expires \in [Call -> Nat]
  /\ revoked \subseteq Call
  /\ cached \in Call \cup {None}
  /\ cacheUntil \in Nat

\* However many calls miss the cache at once and whatever order their answers are
\* stored in, the cache keeps a token no longer than one timeout past its end at
\* the supplier, and no token the supplier has not granted.
CacheOutlivesByTimeout ==
  cached # None =>
    /\ reply[cached] = "token"
    /\ cacheUntil <= expires[cached] + Timeout

\* No operation is sent with an empty token: an answer without a token has no
\* expires_in either, and the SETEX that Redis refuses for it fails the call.
TokenIsGranted ==
  \A c \in Call : pc[c] = "use" => hand[c] \in Call /\ reply[hand[c]] = "token"

\* The supplier rejects a token only in the two timeouts after its end, unless it
\* withdrew the token: what the cache's late clock costs, and all it costs.
RejectedOnlyWhenStale ==
  [][\A c \in Call :
       pc[c] = "use" /\ pc'[c] = "rejected" =>
         \/ hand[c] \in revoked
         \/ now >= expires[hand[c]] /\ now < expires[hand[c]] + 2 * Timeout]_vars

\* Inductive strengthening of the three: what is known of a call at each point.
CallsAreTimely ==
  /\ cached = None => cacheUntil = 0
  /\ \A c \in Call :
       /\ pc[c] \in Pending => since[c] <= now /\ now <= since[c] + Timeout
       /\ pc[c] \in {"idle", "fetch", "ask"} => reply[c] = "none"
       /\ reply[c] # "token" => life[c] = 0
       /\ pc[c] \in {"asked", "store"} /\ reply[c] = "token" =>
            since[c] + life[c] <= expires[c]
       /\ pc[c] = "store" => /\ reply[c] = "token" => hand[c] = c
                            /\ reply[c] # "none"
       /\ pc[c] = "use" => since[c] < expires[hand[c]] + Timeout

IInv == TypeOK /\ CacheOutlivesByTimeout /\ TokenIsGranted /\ CallsAreTimely
=============================================================================
