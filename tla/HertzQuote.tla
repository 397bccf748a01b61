----------------------------- MODULE HertzQuote -----------------------------
(***************************************************************************)
(* quoteRequest.Execute of src/internal/platform/implementations/hertz/    *)
(* quote.go: re-quotes every vehicle of a rates answer for an existing     *)
(* booking.  One goroutine per vehicle asks the supplier and sends exactly *)
(* one message, a vehicle or an error, on one of two channels; one         *)
(* collector goroutine per channel records the messages and counts them    *)
(* down on the WaitGroup that Execute waits for before it closes both      *)
(* channels and returns.                                                   *)
(***************************************************************************)
EXTENDS Integers, Sequences, FiniteSets

CONSTANT Vehicle   \* the vehicles of the rates answer

ASSUME VehiclesAreFinite == IsFiniteSet(Vehicle)

VARIABLES
  main,      \* control point of Execute
  worker,    \* of the goroutine of each vehicle
  result,    \* what that goroutine came to: "vehicle" or "error"
  wait,      \* counter of the sync.WaitGroup
  queue,     \* contents of vehicleQueue and errQueue
  closed,    \* have the two been closed
  collector, \* control point of the two collectors
  hand,      \* message a collector has received and not yet recorded
  recorded   \* the slice "vehicles" and the new entries of errorsBucket

vars == <<main, worker, result, wait, queue, closed, collector, hand, recorded>>

\* The two channels, named for what they carry.  make(chan ..., len(Vehicles))
\* and make(chan ..., 1).
Channel == {"vehicle", "error"}
Capacity(q) == IF q = "vehicle" THEN Cardinality(Vehicle) ELSE 1

Init ==
  /\ main = "spawn"
  /\ worker = [v \in Vehicle |-> "unborn"]
  /\ result = [v \in Vehicle |-> "none"]
  /\ wait = 0
  /\ queue = [q \in Channel |-> <<>>]
  /\ closed = FALSE
  /\ collector = [q \in Channel |-> "off"]
  /\ hand = [q \in Channel |-> <<>>]
  /\ recorded = [q \in Channel |-> <<>>]

-----------------------------------------------------------------------------
\* Mistakes this code could contain; see RequestGrouping.
\* wait.Add(1) at the head of the goroutine instead of before it.
SpawnWithoutAdd(v) ==
  /\ main = "spawn"
  /\ worker[v] = "unborn"
  /\ worker' = [worker EXCEPT ![v] = "request"]
  /\ wait' = wait
  /\ UNCHANGED <<main, result, queue, closed, collector, hand, recorded>>

\* The return after errQueue <- is missing: the goroutine sends a vehicle too.
SendAndGoOn(v) ==
  /\ worker[v] = "send"
  /\ Len(queue[result[v]]) < Capacity(result[v])
  /\ queue' = [queue EXCEPT ![result[v]] = Append(@, v)]
  /\ IF result[v] = "error"
     THEN result' = [result EXCEPT ![v] = "vehicle"] /\ worker' = worker
     ELSE result' = result /\ worker' = [worker EXCEPT ![v] = "exit"]
  /\ UNCHANGED <<main, wait, closed, collector, hand, recorded>>

\* The goroutine's panic is recovered and nothing is sent.
PanicUnreported(v) ==
  /\ worker[v] = "request"
  /\ \/ /\ \E r \in Channel : result' = [result EXCEPT ![v] = r]
        /\ worker' = [worker EXCEPT ![v] = "send"]
     \/ /\ worker' = [worker EXCEPT ![v] = "exit"]
        /\ UNCHANGED result
  /\ UNCHANGED <<main, wait, queue, closed, collector, hand, recorded>>

-----------------------------------------------------------------------------
\* The loop over rates.Vehicles: wait.Add(1), go func.
Spawn(v) ==
  /\ main = "spawn"
  /\ worker[v] = "unborn"
  /\ worker' = [worker EXCEPT ![v] = "request"]
  /\ wait' = wait + 1
  /\ UNCHANGED <<main, result, queue, closed, collector, hand, recorded>>

\* The loop is over: both collectors are started.
StartCollectors ==
  /\ main = "spawn"
  /\ \A v \in Vehicle : worker[v] # "unborn"
  /\ collector' = [q \in Channel |-> "receive"]
  /\ main' = "wait"
  /\ UNCHANGED <<worker, result, wait, queue, closed, hand, recorded>>

\* The supplier's answer becomes a vehicle or an error: a transport error, an
\* unreadable or rejected answer, one without a price, or a panic on the way,
\* which recoverPanic turns into an error message.
Requested(v) ==
  /\ worker[v] = "request"
  /\ \E r \in Channel : result' = [result EXCEPT ![v] = r]
  /\ worker' = [worker EXCEPT ![v] = "send"]
  /\ UNCHANGED <<main, wait, queue, closed, collector, hand, recorded>>

\* vehicleQueue <- or errQueue <-, which blocks on a full channel.
Send(v) ==
  /\ worker[v] = "send"
  /\ Len(queue[result[v]]) < Capacity(result[v])
  /\ queue' = [queue EXCEPT ![result[v]] = Append(@, v)]
  /\ worker' = [worker EXCEPT ![v] = "exit"]
  /\ UNCHANGED <<main, result, wait, closed, collector, hand, recorded>>

\* for ... := range queue
Receive(q) ==
  /\ collector[q] = "receive"
  /\ queue[q] # <<>>
  /\ hand' = [hand EXCEPT ![q] = <<Head(queue[q])>>]
  /\ queue' = [queue EXCEPT ![q] = Tail(@)]
  /\ collector' = [collector EXCEPT ![q] = "record"]
  /\ UNCHANGED <<main, worker, result, wait, closed, recorded>>

RangeEnds(q) ==
  /\ collector[q] = "receive"
  /\ queue[q] = <<>> /\ closed
  /\ collector' = [collector EXCEPT ![q] = "exit"]
  /\ UNCHANGED <<main, worker, result, wait, queue, closed, hand, recorded>>

\* append, or errorsBucket.AddError
Record(q) ==
  /\ collector[q] = "record"
  /\ recorded' = [recorded EXCEPT ![q] = @ \o hand[q]]
  /\ hand' = [hand EXCEPT ![q] = <<>>]
  /\ collector' = [collector EXCEPT ![q] = "count"]
  /\ UNCHANGED <<main, worker, result, wait, queue, closed>>

\* wait.Done()
CountDown(q) ==
  /\ collector[q] = "count"
  /\ wait' = wait - 1
  /\ collector' = [collector EXCEPT ![q] = "receive"]
  /\ UNCHANGED <<main, worker, result, queue, closed, hand, recorded>>

\* wait.Wait() returns, both channels are closed, Execute returns.
Return ==
  /\ main = "wait"
  /\ wait = 0
  /\ closed' = TRUE
  /\ main' = "returned"
  /\ UNCHANGED <<worker, result, wait, queue, collector, hand, recorded>>

-----------------------------------------------------------------------------
WorkerStep(v) == Requested(v) \/ Send(v)
CollectorStep(q) == Receive(q) \/ RangeEnds(q) \/ Record(q) \/ CountDown(q)
MainStep == (\E v \in Vehicle : Spawn(v)) \/ StartCollectors \/ Return

\* Execute has returned and every goroutine it started is gone.
Quiet ==
  /\ main = "returned"
  /\ \A q \in Channel : collector[q] = "exit"
  /\ UNCHANGED vars

Next ==
  \/ MainStep
  \/ \E v \in Vehicle : WorkerStep(v)
  \/ \E q \in Channel : CollectorStep(q)
  \/ Quiet

Spec == Init /\ [][Next]_vars

\* Every goroutine that can run does; the supplier answers or times out.
FairSpec ==
  /\ Spec
  /\ WF_vars(MainStep)
  /\ \A v \in Vehicle : WF_vars(WorkerStep(v))
  /\ \A q \in Channel : WF_vars(CollectorStep(q))

-----------------------------------------------------------------------------
TypeOK ==
  /\ main \in {"spawn", "wait", "returned"}
  /\ worker \in [Vehicle -> {"unborn", "request", "send", "exit"}]
  /\ result \in [Vehicle -> Channel \cup {"none"}]
  /\ wait \in Nat
  /\ queue \in [Channel -> Seq(Vehicle)]
  /\ closed \in BOOLEAN
  /\ collector \in [Channel -> {"off", "receive", "record", "count", "exit"}]
  /\ hand \in [Channel -> Seq(Vehicle)]
  /\ recorded \in [Channel -> Seq(Vehicle)]

Occurrences(v, s) == Cardinality({i \in DOMAIN s : s[i] = v})

\* When Execute returns, each vehicle of the rates answer is accounted for
\* exactly once, as a vehicle or as an error according to what its goroutine
\* came to: nothing is lost in a channel or in a collector's hands.
AccountedForOnce ==
  main = "returned" =>
    \A v \in Vehicle, q \in Channel :
      Occurrences(v, recorded[q]) = IF result[v] = q THEN 1 ELSE 0

\* The slices Execute returns do not change any more once it has returned: no
\* collector still appends to them behind the caller's back.
ReturnedIsFinal == [][main = "returned" => recorded' = recorded]_vars

\* No goroutine is left that would send on a closed channel, which is a panic
\* in a goroutine and, sent again by recoverPanic, the end of the process.
NoSendOnClosed ==
  closed => \A v \in Vehicle : worker[v] = "exit"

\* Execute returns, and no goroutine outlives it: the error channel of capacity
\* one, filled before its collector starts, does not block anybody for ever.
EverythingEnds ==
  <>[](main = "returned" /\ \A q \in Channel : collector[q] = "exit")
=============================================================================
