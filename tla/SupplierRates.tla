---------------------------- MODULE SupplierRates ----------------------------
(***************************************************************************)
(* ratesRequest.Execute of the five platforms, as it runs.  Hertz asks for *)
(* rates and, unless its cache has them, for extras, each in a goroutine   *)
(* that hands over one message in one of two channels of capacity one;     *)
(* Execute waits for the extras, then for the rates, and closes all four   *)
(* when it returns.  ProfitMax and Booking.com do the same with the rates  *)
(* alone.  AnyRent and Rently get a token first and ask without goroutines.*)
(*                                                                         *)
(* What is made of the vehicles is the subject of HertzOffers and the      *)
(* platforms' modules, how a token is found that of AuthTokens.            *)
(***************************************************************************)
EXTENDS Integers, FiniteSets

CONSTANTS
  Request,  \* calls of Execute, for the same branch and length of rental
  Mixes,    \* which platforms they may be of: functions from Request
  None

Platform == {"hertz", "profitmaxdht", "bookingcom", "anyrent", "rently"}

ASSUME CallsHavePlatforms == Mixes \subseteq [Request -> Platform]

ASSUME NoneIsFresh == None \notin {"some", "none", "error"}

Branch == {"rates", "extras"}
BranchesOf(p) ==
  CASE p = "hertz" -> Branch
    [] p \in {"profitmaxdht", "bookingcom"} -> {"rates"}
    [] p \in {"anyrent", "rently"} -> {}

VARIABLES
  platform,  \* which of the platforms a call is of
  main,      \* control point of Execute
  worker,    \* control points of its goroutines
  channel,   \* what is in the two channels of a goroutine
  closed,    \* have they been closed
  failed,    \* history: the branches that failed and said so
  errors,    \* length of errorsBucket
  vehicles,  \* whether the answer has vehicles
  equips,    \* Redis: whether it has the extras of the branch
  crashed    \* a goroutine's panic has ended the process

ratesVars == <<platform, main, worker, channel, closed, failed, errors, vehicles,
               equips, crashed>>

InitRates ==
  /\ platform \in Mixes
  /\ main = [q \in Request |-> "idle"]
  /\ worker = [q \in Request |-> [b \in Branch |-> "unborn"]]
  /\ channel = [q \in Request |-> [b \in Branch |-> None]]
  /\ closed = [q \in Request |-> FALSE]
  /\ failed = [q \in Request |-> {}]
  /\ errors = [q \in Request |-> 0]
  /\ vehicles = [q \in Request |-> FALSE]
  /\ equips = FALSE /\ crashed = FALSE

At(q, point) == ~crashed /\ main[q] = point
WorkerAt(q, b, point) == ~crashed /\ worker[q][b] = point
Go(q, point) == main' = [main EXCEPT ![q] = point]
MoveWorker(q, b, point) == worker' = [worker EXCEPT ![q][b] = point]

\* Execute returns, with the deferred close of its channels.
Return(q, how) == Go(q, how) /\ closed' = [closed EXCEPT ![q] = TRUE]

AddErrors(q, n) == errors' = [errors EXCEPT ![q] = @ + n]

Asking(p) == IF p = "hertz" THEN "extras" ELSE "rates"

-----------------------------------------------------------------------------
\* Mistakes this code could contain: each stands for the definition of the
\* same shape below it.

\* Execute does not wait for extras once the rates have failed.
ReturnAtOnce(q) ==
  /\ At(q, "extras")
  /\ \/ channel[q]["extras"] # None /\ Go(q, "rates") /\ UNCHANGED closed
     \/ channel[q]["rates"] = "error" /\ Return(q, "done")
  /\ AddErrors(q, IF channel[q]["extras"] = "error" THEN 1 ELSE 0)
  /\ channel' = [channel EXCEPT ![q]["extras"] = None]
  /\ UNCHANGED <<platform, worker, failed, vehicles, equips, crashed>>

\* An error in getting extras does not get into the bucket.
ExtrasErrorDropped(q) ==
  /\ At(q, "extras") /\ channel[q]["extras"] # None
  /\ channel' = [channel EXCEPT ![q]["extras"] = None]
  /\ Go(q, "rates")
  /\ UNCHANGED <<platform, worker, closed, failed, errors, vehicles, equips, crashed>>

\* recoverPanic only logs.
PanicSilently(q, b) ==
  /\ WorkerAt(q, b, "asking")
  /\ MoveWorker(q, b, "ended")
  /\ failed' = [failed EXCEPT ![q] = @ \cup {b}]
  /\ UNCHANGED <<platform, main, channel, closed, errors, vehicles, equips, crashed>>

-----------------------------------------------------------------------------
\* The beginning of Execute.  With a SupplierApiUrl that is none the request
\* made of it is nil: the handler panics before there is a goroutine.
Start(q) ==
  /\ At(q, "idle")
  /\ IF platform[q] \in {"anyrent", "rently"}
     THEN Go(q, "token") /\ UNCHANGED <<worker, closed>>
     ELSE \/ /\ Go(q, Asking(platform[q]))
             /\ worker' = [worker EXCEPT ![q] =
                  [b \in Branch |-> IF b \notin BranchesOf(platform[q]) THEN "unborn"
                                    ELSE IF b = "extras" THEN "fetching" ELSE "asking"]]
             /\ UNCHANGED closed
          \/ Return(q, "panicked") /\ UNCHANGED worker
  /\ UNCHANGED <<platform, channel, failed, errors, vehicles, equips, crashed>>

\* A goroutine's message.  After the close it is a panic, and another one in
\* recoverPanic, which nothing recovers.
Send(q, b, message) ==
  /\ MoveWorker(q, b, "ended")
  /\ IF closed[q]
     THEN crashed' = TRUE /\ UNCHANGED channel
     ELSE channel' = [channel EXCEPT ![q][b] = message] /\ UNCHANGED crashed

\* extrasFromCache
FetchExtras(q) ==
  /\ WorkerAt(q, "extras", "fetching")
  /\ IF equips
     THEN Send(q, "extras", "some")
     ELSE MoveWorker(q, "extras", "asking") /\ UNCHANGED <<channel, crashed>>
  /\ UNCHANGED <<platform, main, closed, failed, errors, vehicles, equips>>

\* The supplier answers with vehicles or without, and an error element without
\* a text is like the latter.  Extras are those of the first vehicle, which
\* storeExtras keeps for others, if Redis takes them.
Answer(q, b, message) ==
  /\ WorkerAt(q, b, "asking")
  /\ Send(q, b, message)
  /\ equips' \in IF b = "extras" /\ message = "some" THEN {equips, TRUE} ELSE {equips}
  /\ UNCHANGED <<platform, main, closed, failed, errors, vehicles>>

\* No answer in time, one with a bad status, that does not parse, with a fault or
\* an error: the goroutine sends an error.
AskFails(q, b) ==
  /\ WorkerAt(q, b, "asking")
  /\ Send(q, b, "error")
  /\ failed' = [failed EXCEPT ![q] = @ \cup {b}]
  /\ UNCHANGED <<platform, main, closed, errors, vehicles, equips>>

\* A panic on the way, which recoverPanic makes an error as well.
Panic(q, b) ==
  /\ WorkerAt(q, b, "asking")
  /\ Send(q, b, "error")
  /\ failed' = [failed EXCEPT ![q] = @ \cup {b}]
  /\ UNCHANGED <<platform, main, closed, errors, vehicles, equips>>

\* The first select of hertz: go on without extras if need be.
ReceiveExtras(q) ==
  /\ At(q, "extras") /\ channel[q]["extras"] # None
  /\ AddErrors(q, IF channel[q]["extras"] = "error" THEN 1 ELSE 0)
  /\ channel' = [channel EXCEPT ![q]["extras"] = None]
  /\ Go(q, "rates")
  /\ UNCHANGED <<platform, worker, closed, failed, vehicles, equips, crashed>>

\* The select for the rates, and the loop over the vehicles.
ReceiveRates(q) ==
  /\ At(q, "rates") /\ channel[q]["rates"] # None
  /\ AddErrors(q, IF channel[q]["rates"] = "error" THEN 1 ELSE 0)
  /\ vehicles' = [vehicles EXCEPT ![q] = channel[q]["rates"] = "some"]
  /\ channel' = [channel EXCEPT ![q]["rates"] = None]
  /\ Return(q, "done")
  /\ UNCHANGED <<platform, worker, failed, equips, crashed>>

\* authRequest.Execute of anyrent and rently: a token, or an error in the bucket,
\* or an answer that does not parse, which Execute returns.
Token(q) ==
  /\ At(q, "token")
  /\ \/ Go(q, "ask") /\ UNCHANGED <<closed, failed, errors>>
     \/ /\ Return(q, "done") /\ AddErrors(q, 1)
        /\ failed' = [failed EXCEPT ![q] = {"rates"}]
     \/ Return(q, "error") /\ UNCHANGED <<failed, errors>>
  /\ UNCHANGED <<platform, worker, channel, vehicles, equips, crashed>>

\* makeRequest and the loop over its answer.
AskWithToken(q) ==
  /\ At(q, "ask")
  /\ \/ \E some \in BOOLEAN : vehicles' = [vehicles EXCEPT ![q] = some]
        /\ Return(q, "done") /\ UNCHANGED <<failed, errors>>
     \/ /\ Return(q, "done") /\ AddErrors(q, 1) /\ UNCHANGED vehicles
        /\ failed' = [failed EXCEPT ![q] = {"rates"}]
     \/ Return(q, "panicked") /\ UNCHANGED <<failed, errors, vehicles>>
  /\ UNCHANGED <<platform, worker, channel, equips, crashed>>

\* The extras' time in Redis is over.
ExpireExtras ==
  /\ equips /\ equips' = FALSE
  /\ UNCHANGED <<platform, main, worker, channel, closed, failed, errors, vehicles, crashed>>

\* What goes on without the caller.
WorkerStep(q, b) ==
  \/ \E message \in {"some", "none"} : Answer(q, b, message)
  \/ AskFails(q, b) \/ Panic(q, b)

ExecuteStep(q) == ReceiveExtras(q) \/ ReceiveRates(q) \/ Token(q) \/ AskWithToken(q)

RatesStep(q) ==
  \/ ExecuteStep(q) \/ FetchExtras(q)
  \/ \E b \in Branch : WorkerStep(q, b)

-----------------------------------------------------------------------------
RatesTypeOK ==
  /\ platform \in [Request -> Platform]
  /\ main \in [Request -> {"idle", "token", "ask", "extras", "rates", "done", "error",
                           "panicked"}]
  /\ worker \in [Request -> [Branch -> {"unborn", "fetching", "asking", "ended"}]]
  /\ channel \in [Request -> [Branch -> {None, "some", "none", "error"}]]
  /\ closed \in [Request -> BOOLEAN]
  /\ failed \in [Request -> SUBSET Branch]
  /\ errors \in [Request -> 0 .. 2]
  /\ vehicles \in [Request -> BOOLEAN]
  /\ equips \in BOOLEAN /\ crashed \in BOOLEAN

\* When Execute closes the channels no goroutine is left that would send on one:
\* that is a panic, and a second one in recoverPanic ends the process with all
\* its requests.
NoSendOnClosed ==
  \A q \in Request : closed[q] =>
    \A b \in Branch : worker[q][b] \in {"unborn", "ended"}

\* What is answered tells of every branch that failed and said so, once, and has
\* no vehicles when the rates are among them.
FailuresReported ==
  \A q \in Request : main[q] = "done" =>
    /\ errors[q] = Cardinality(failed[q])
    /\ vehicles[q] => "rates" \notin failed[q]
=============================================================================
