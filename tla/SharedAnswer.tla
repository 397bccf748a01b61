---------------------------- MODULE SharedAnswer ----------------------------
(***************************************************************************)
(* What request grouping promises a client of /rates, whatever happens to  *)
(* locks, leases, Redis and other requests (RequestGrouping implements it, *)
(* src/internal/trafficlight/grouping): a request ends once, with the      *)
(* answer it obtained itself, or with an answer somebody else obtained     *)
(* and published and that is still shared at that moment, or with none.    *)
(* It obtains an answer at most once and publishes only that one.          *)
(***************************************************************************)
CONSTANTS Request, None

VARIABLES
  phase,   \* of each request
  answer,  \* the answer each request has
  shared   \* the answer that is there for everybody

vars == <<phase, answer, shared>>

Answer == [by : Request, good : BOOLEAN]

Init ==
  /\ phase = [c \in Request |-> "new"]
  /\ answer = [c \in Request |-> None]
  /\ shared = None

Open(c) ==
  /\ phase[c] = "new"
  /\ phase' = [phase EXCEPT ![c] = "open"]
  /\ UNCHANGED <<answer, shared>>

\* The request gets its own answer from the supplier, and may end with it.
Obtain(c) ==
  /\ phase[c] = "open" /\ answer[c] = None
  /\ \E good \in BOOLEAN :
       answer' = [answer EXCEPT ![c] = [by |-> c, good |-> good]]
  /\ \E p \in {"open", "closed"} : phase' = [phase EXCEPT ![c] = p]
  /\ UNCHANGED shared

Publish(c) ==
  /\ phase[c] = "open" /\ answer[c] # None
  /\ shared' = answer[c]
  /\ UNCHANGED <<phase, answer>>

Reuse(c) ==
  /\ phase[c] = "open" /\ answer[c] = None
  /\ shared # None
  /\ answer' = [answer EXCEPT ![c] = shared]
  /\ phase' = [phase EXCEPT ![c] = "closed"]
  /\ UNCHANGED shared

Close(c) ==
  /\ phase[c] = "open"
  /\ phase' = [phase EXCEPT ![c] = "closed"]
  /\ UNCHANGED <<answer, shared>>

Forget ==
  /\ shared' = None
  /\ UNCHANGED <<phase, answer>>

Next ==
  \/ \E c \in Request : Open(c) \/ Obtain(c) \/ Publish(c) \/ Reuse(c) \/ Close(c)
  \/ Forget

Spec == Init /\ [][Next]_vars
=============================================================================
