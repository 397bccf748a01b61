-------------------------- MODULE HertzQuoteProofs --------------------------
(***************************************************************************)
(* Proofs about HertzQuote for any finite set of vehicles.                 *)
(***************************************************************************)
EXTENDS HertzQuote, FiniteSetTheorems, SequenceTheorems, TLAPS

\* The vehicles whose goroutine has not sent its message.
Pending == {v \in Vehicle : worker[v] \in {"request", "send"}}

\* The messages on a channel that its collector has not counted down for.
Uncounted(q) == Len(queue[q]) + IF collector[q] \in {"record", "count"} THEN 1 ELSE 0

\* All that was sent on a channel, wherever it has got to.
Way(q) == recorded[q] \o (hand[q] \o queue[q])

Phases ==
  /\ main = "spawn" => \A q \in Channel : collector[q] = "off"
  /\ main # "spawn" => \A v \in Vehicle : worker[v] # "unborn"
  /\ closed <=> main = "returned"
  /\ main = "returned" => wait = 0

\* The WaitGroup counts the messages that are still to be sent or recorded.
Balance == wait = Cardinality(Pending) + Uncounted("vehicle") + Uncounted("error")

\* A message is on its way once its goroutine has sent it, on the one channel that
\* it is for.
Tracked ==
  /\ \A q \in Channel : collector[q] # "record" => hand[q] = <<>>
  /\ \A v \in Vehicle : worker[v] \in {"send", "exit"} => result[v] \in Channel
  /\ \A v \in Vehicle, q \in Channel :
       Occurrences(v, Way(q)) = IF worker[v] = "exit" /\ result[v] = q THEN 1 ELSE 0

IInv == TypeOK /\ Phases /\ Balance /\ Tracked
-----------------------------------------------------------------------------
LEMMA PendingIsFinite == IsFiniteSet(Pending) /\ Cardinality(Pending) \in Nat
<1>1. Pending \in SUBSET Vehicle
  BY DEF Pending
<1>2. QED
  BY <1>1, VehiclesAreFinite, FS_Subset, FS_CardinalityType

\* A vehicle occurs once more in a sequence to which it has been appended.
LEMMA OccurrencesOfAppend ==
  ASSUME NEW s \in Seq(Vehicle), NEW w \in Vehicle, NEW v \in Vehicle
  PROVE  Occurrences(v, Append(s, w)) = Occurrences(v, s) + IF v = w THEN 1 ELSE 0
<1> DEFINE Before == {i \in DOMAIN s : s[i] = v}
           After == {i \in DOMAIN Append(s, w) : Append(s, w)[i] = v}
<1>1. DOMAIN s = 1 .. Len(s) /\ Len(s) \in Nat
  BY LenProperties
<1>2. /\ DOMAIN Append(s, w) = 1 .. Len(s) + 1
      /\ \A i \in 1 .. Len(s) : Append(s, w)[i] = s[i]
      /\ Append(s, w)[Len(s) + 1] = w
  BY AppendProperties, LenProperties
<1>3. IsFiniteSet(Before) /\ Cardinality(Before) \in Nat
  <2>1. Before \in SUBSET (1 .. Len(s)) /\ IsFiniteSet(1 .. Len(s))
    BY <1>1, FS_Interval
  <2>2. QED
    BY <2>1, FS_Subset, FS_CardinalityType
<1>4. CASE v = w
  <2>1. After = Before \cup {Len(s) + 1} /\ Len(s) + 1 \notin Before
    BY <1>1, <1>2, <1>4
  <2> HIDE DEF Before, After
  <2>2. Cardinality(After) = Cardinality(Before) + 1
    BY <1>3, <2>1, FS_AddElement
  <2>3. QED
    BY <1>4, <2>2 DEF Before, After, Occurrences
<1>5. CASE v # w
  <2>1. After = Before
    BY <1>1, <1>2, <1>5
  <2>2. Occurrences(v, Append(s, w)) = Occurrences(v, s) /\ Occurrences(v, s) \in Nat
    BY <1>3, <2>1, Zenon DEF Occurrences
  <2>3. QED
    BY <1>5, <2>2
<1>6. QED
  BY <1>4, <1>5

\* Concatenation of messages is associative.
LEMMA Associative ==
  \A r, s, t \in Seq(Vehicle) : (r \o s) \o t = r \o (s \o t)
<1> SUFFICES ASSUME NEW r \in Seq(Vehicle), NEW s \in Seq(Vehicle), NEW t \in Seq(Vehicle)
             PROVE  (r \o s) \o t = r \o (s \o t)
  OBVIOUS
<1>1. QED
  BY ConcatAssociative

\* What a collector does to a channel moves messages along and loses none.
LEMMA WayMoved ==
  ASSUME TypeOK, NEW q \in Channel,
         \/ /\ queue[q] # <<>> /\ hand[q] = <<>> /\ recorded'[q] = recorded[q]
            /\ hand'[q] = <<Head(queue[q])>> /\ queue'[q] = Tail(queue[q])
         \/ /\ recorded'[q] = recorded[q] \o hand[q]
            /\ hand'[q] = <<>> /\ queue'[q] = queue[q]
  PROVE  Way(q)' = Way(q)
<1>1. recorded[q] \in Seq(Vehicle) /\ hand[q] \in Seq(Vehicle) /\ queue[q] \in Seq(Vehicle)
  BY DEF TypeOK
<1>2. CASE /\ queue[q] # <<>> /\ hand[q] = <<>> /\ recorded'[q] = recorded[q]
           /\ hand'[q] = <<Head(queue[q])>> /\ queue'[q] = Tail(queue[q])
  <2>1. <<Head(queue[q])>> \o Tail(queue[q]) = queue[q]
    BY <1>1, <1>2
  <2>2. <<>> \o queue[q] = queue[q]
    BY <1>1, ConcatEmptySeq
  <2>3. QED
    BY <1>2, <2>1, <2>2 DEF Way
<1>3. CASE /\ recorded'[q] = recorded[q] \o hand[q]
           /\ hand'[q] = <<>> /\ queue'[q] = queue[q]
  <2>1. <<>> \o queue[q] = queue[q]
    BY <1>1, ConcatEmptySeq
  <2>2. (recorded[q] \o hand[q]) \o queue[q] = recorded[q] \o (hand[q] \o queue[q])
    BY <1>1, Associative, Zenon
  <2>3. QED
    BY <1>3, <2>1, <2>2 DEF Way
<1>4. QED
  BY <1>2, <1>3

\* A message that is sent gets to the end of the way.
LEMMA WayAppended ==
  ASSUME TypeOK, NEW q \in Channel, NEW v \in Vehicle,
         recorded'[q] = recorded[q], hand'[q] = hand[q],
         queue'[q] = Append(queue[q], v)
  PROVE  Way(q) \in Seq(Vehicle) /\ Way(q)' = Append(Way(q), v)
<1>1. /\ recorded[q] \in Seq(Vehicle) /\ hand[q] \in Seq(Vehicle)
      /\ queue[q] \in Seq(Vehicle) /\ <<v>> \in Seq(Vehicle)
  BY DEF TypeOK
<1>2. hand[q] \o queue[q] \in Seq(Vehicle) /\ Way(q) \in Seq(Vehicle)
  BY <1>1, ConcatProperties DEF Way
<1>3. /\ Append(queue[q], v) = queue[q] \o <<v>>
      /\ Append(Way(q), v) = Way(q) \o <<v>>
  BY <1>1, <1>2, AppendIsConcat
<1>4. hand[q] \o (queue[q] \o <<v>>) = (hand[q] \o queue[q]) \o <<v>>
  BY <1>1, Associative, Zenon
<1>5. recorded[q] \o ((hand[q] \o queue[q]) \o <<v>>) = Way(q) \o <<v>>
  BY <1>1, <1>2, Associative, Zenon DEF Way
<1>6. QED
  BY <1>2, <1>3, <1>4, <1>5 DEF Way

-----------------------------------------------------------------------------
LEMMA InitIInv == Init => IInv
<1> SUFFICES ASSUME Init PROVE IInv
  OBVIOUS
<1>1. TypeOK
  BY EmptySeq DEF Init, TypeOK
<1>2. Phases
  BY DEF Init, Phases
<1>3. Balance
  <2>1. Pending = {}
    BY DEF Init, Pending
  <2>2. Uncounted("vehicle") = 0 /\ Uncounted("error") = 0
    BY EmptySeq DEF Init, Uncounted, Channel
  <2>3. QED
    BY <2>1, <2>2, FS_EmptySet DEF Init, Balance
<1>4. Tracked
  <2>1. ASSUME NEW v \in Vehicle, NEW q \in Channel PROVE Occurrences(v, Way(q)) = 0
    <3>1. Way(q) = <<>>
      BY ConcatEmptySeq, EmptySeq DEF Init, Way
    <3>2. {i \in DOMAIN <<>> : <<>>[i] = v} = {}
      OBVIOUS
    <3>3. QED
      BY <3>1, <3>2, FS_EmptySet DEF Occurrences
  <2>2. QED
    BY <2>1 DEF Init, Tracked
<1>5. QED
  BY <1>1, <1>2, <1>3, <1>4 DEF IInv

\* What is tracked stays so when nothing is sent.
LEMMA NothingSent ==
  ASSUME TypeOK, Tracked,
         \A q \in Channel : Way(q)' = Way(q),
         \A q \in Channel : collector'[q] # "record" => hand'[q] = <<>>,
         \A v \in Vehicle : worker'[v] \in {"send", "exit"} => result'[v] \in Channel,
         \A v \in Vehicle : worker'[v] = "exit" <=> worker[v] = "exit",
         \A v \in Vehicle : worker[v] = "exit" => result'[v] = result[v]
  PROVE  Tracked'
<1>1. ASSUME NEW v \in Vehicle, NEW q \in Channel
      PROVE  Occurrences(v, Way(q))' = Occurrences(v, Way(q))
  BY Zenon DEF Occurrences
<1>2. QED
  BY <1>1 DEF Tracked

LEMMA NextKeeps == IInv /\ [Next]_vars => IInv'
<1> SUFFICES ASSUME IInv, [Next]_vars PROVE IInv'
  OBVIOUS
<1>1. TypeOK /\ Phases /\ Balance /\ Tracked
  BY DEF IInv
<1>2. ASSUME UNCHANGED <<recorded, hand, queue>> PROVE \A q \in Channel : Way(q)' = Way(q)
  BY <1>2 DEF Way
<1>3. ASSUME NEW v \in Vehicle, Spawn(v) PROVE IInv'
  <2>1. TypeOK' /\ Phases'
    BY <1>1, <1>3 DEF Spawn, TypeOK, Phases
  <2>2. Balance'
    <3>1. Pending' = Pending \cup {v} /\ v \notin Pending
      BY <1>1, <1>3 DEF Spawn, TypeOK, Pending
    <3>2. Cardinality(Pending') = Cardinality(Pending) + 1
      BY <3>1, PendingIsFinite, FS_AddElement
    <3>3. Uncounted("vehicle")' = Uncounted("vehicle") /\ Uncounted("error")' = Uncounted("error")
      BY <1>3 DEF Spawn, Uncounted
    <3>4. Uncounted("vehicle") \in Nat /\ Uncounted("error") \in Nat
      BY <1>1, LenProperties DEF TypeOK, Uncounted, Channel
    <3>5. QED
      BY <1>1, <1>3, <3>2, <3>3, <3>4, PendingIsFinite DEF Spawn, Balance
  <2>3. Tracked'
    BY <1>1, <1>2, <1>3, NothingSent DEF Spawn, TypeOK, Tracked
  <2>4. QED
    BY <2>1, <2>2, <2>3 DEF IInv
<1>4. CASE StartCollectors
  <2>1. TypeOK' /\ Phases'
    BY <1>1, <1>4 DEF StartCollectors, TypeOK, Phases
  <2>2. Balance'
    <3>1. Pending' = Pending
      BY <1>4 DEF StartCollectors, Pending
    <3>2. Uncounted("vehicle")' = Uncounted("vehicle") /\ Uncounted("error")' = Uncounted("error")
      BY <1>1, <1>4 DEF StartCollectors, Uncounted, Phases, Channel
    <3>3. QED
      BY <1>1, <1>4, <3>1, <3>2 DEF StartCollectors, Balance
  <2>3. \A q \in Channel : hand'[q] = <<>>
    BY <1>1, <1>4 DEF StartCollectors, Phases, Tracked
  <2>4. Tracked'
    BY <1>1, <1>2, <1>4, <2>3, NothingSent DEF StartCollectors, Tracked
  <2>5. QED
    BY <2>1, <2>2, <2>4 DEF IInv
<1>5. ASSUME NEW v \in Vehicle, Requested(v) PROVE IInv'
  <2>1. TypeOK' /\ Phases'
    BY <1>1, <1>5 DEF Requested, TypeOK, Phases
  <2>2. Balance'
    <3>1. Pending' = Pending
      BY <1>1, <1>5 DEF Requested, TypeOK, Pending
    <3>2. QED
      BY <1>1, <1>5, <3>1 DEF Requested, Balance, Uncounted
  <2>3. /\ \A w \in Vehicle : worker'[w] \in {"send", "exit"} => result'[w] \in Channel
        /\ \A w \in Vehicle : worker'[w] = "exit" <=> worker[w] = "exit"
        /\ \A w \in Vehicle : worker[w] = "exit" => result'[w] = result[w]
    BY <1>1, <1>5 DEF Requested, TypeOK, Tracked
  <2>4. Tracked'
    BY <1>1, <1>2, <1>5, <2>3, NothingSent DEF Requested, Tracked
  <2>5. QED
    BY <2>1, <2>2, <2>4 DEF IInv
<1>6. ASSUME NEW v \in Vehicle, Send(v) PROVE IInv'
  <2>0. PICK q \in Channel : q = result[v]
    BY <1>1, <1>6 DEF Send, Tracked
  <2>1. worker[v] = "send" /\ main # "returned"
    <3>1. worker[v] = "send"
      BY <1>6 DEF Send
    <3>2. v \in Pending
      BY <3>1 DEF Pending
    <3>3. Cardinality(Pending) # 0
      BY <3>2, PendingIsFinite, FS_EmptySet
    <3>4. Uncounted("vehicle") \in Nat /\ Uncounted("error") \in Nat
      BY <1>1, LenProperties DEF TypeOK, Uncounted, Channel
    <3>5. QED
      BY <1>1, <3>1, <3>3, <3>4, PendingIsFinite DEF Balance, Phases
  <2>2. /\ queue'[q] = Append(queue[q], v)
        /\ \A r \in Channel \ {q} : queue'[r] = queue[r]
        /\ queue' \in [Channel -> Seq(Vehicle)] /\ Len(queue'[q]) = Len(queue[q]) + 1
    BY <1>1, <1>6, <2>0, AppendProperties DEF Send, TypeOK
  <2>3. TypeOK' /\ Phases'
    BY <1>1, <1>6, <2>2 DEF Send, TypeOK, Phases
  <2>4. Balance'
    <3>1. Pending = Pending' \cup {v} /\ v \notin Pending'
      BY <1>1, <1>6 DEF Send, TypeOK, Pending
    <3>2. Pending' = Pending \ {v} /\ v \in Pending
      BY <3>1
    <3>3. Cardinality(Pending') = Cardinality(Pending) - 1
      BY <3>2, PendingIsFinite, FS_RemoveElement
    <3>4. /\ Uncounted(q)' = Uncounted(q) + 1
          /\ \A r \in Channel \ {q} : Uncounted(r)' = Uncounted(r)
          /\ \A r \in Channel : Uncounted(r) \in Nat
      <4>1. collector' = collector
        BY <1>6 DEF Send
      <4>2. \A r \in Channel : Len(queue[r]) \in Nat
        BY <1>1, LenProperties DEF TypeOK
      <4>3. ASSUME NEW r \in Channel PROVE Uncounted(r) \in Nat
        <5>1. Len(queue[r]) \in Nat
          BY <4>2
        <5>2. CASE collector[r] \in {"record", "count"}
          <6>1. Uncounted(r) = Len(queue[r]) + 1
            BY <5>2, Zenon DEF Uncounted
          <6>2. QED
            BY <5>1, <6>1
        <5>3. CASE collector[r] \notin {"record", "count"}
          <6>1. Uncounted(r) = Len(queue[r]) + 0
            BY <5>3, Zenon DEF Uncounted
          <6>2. QED
            BY <5>1, <6>1
        <5>4. QED
          BY <5>2, <5>3
      <4>4. \A r \in Channel \ {q} : Uncounted(r)' = Uncounted(r)
        BY <2>2, <4>1 DEF Uncounted
      <4>5. Uncounted(q)' = Len(queue[q]) + 1 + IF collector[q] \in {"record", "count"} THEN 1 ELSE 0
        BY <2>2, <4>1 DEF Uncounted
      <4>6. Uncounted(q)' = Uncounted(q) + 1
        <5>1. Len(queue[q]) \in Nat
          BY <4>2
        <5>2. CASE collector[q] \in {"record", "count"}
          <6>1. Uncounted(q) = Len(queue[q]) + 1 /\ Uncounted(q)' = Len(queue[q]) + 1 + 1
            BY <4>5, <5>2, Zenon DEF Uncounted
          <6>2. QED
            BY <5>1, <6>1
        <5>3. CASE collector[q] \notin {"record", "count"}
          <6>1. Uncounted(q) = Len(queue[q]) + 0 /\ Uncounted(q)' = Len(queue[q]) + 1 + 0
            BY <4>5, <5>3, Zenon DEF Uncounted
          <6>2. QED
            BY <5>1, <6>1
        <5>4. QED
          BY <5>2, <5>3
      <4>7. QED
        BY <4>3, <4>4, <4>6
    <3>5. Uncounted("vehicle")' + Uncounted("error")' =
            Uncounted("vehicle") + Uncounted("error") + 1
      <4>1. CASE q = "vehicle"
        BY <3>4, <4>1 DEF Channel
      <4>2. CASE q = "error"
        BY <3>4, <4>2 DEF Channel
      <4>3. QED
        BY <4>1, <4>2 DEF Channel
    <3>6. /\ Uncounted("vehicle") \in Nat /\ Uncounted("error") \in Nat
          /\ Uncounted("vehicle")' \in Nat /\ Uncounted("error")' \in Nat
      BY <3>4 DEF Channel
    <3>7. wait' = wait
      BY <1>6 DEF Send
    <3>8. QED
      BY <1>1, <3>3, <3>5, <3>6, <3>7, PendingIsFinite DEF Balance
  <2>5. Tracked'
    <3>1. /\ Way(q) \in Seq(Vehicle) /\ Way(q)' = Append(Way(q), v)
          /\ \A r \in Channel \ {q} : Way(r)' = Way(r)
      BY <1>1, <1>6, <2>2, WayAppended DEF Send, Way
    <3>2. ASSUME NEW w \in Vehicle
          PROVE  Occurrences(w, Way(q))' = Occurrences(w, Way(q)) + IF w = v THEN 1 ELSE 0
      <4>1. Occurrences(w, Append(Way(q), v)) = Occurrences(w, Way(q)) + IF w = v THEN 1 ELSE 0
        BY <3>1, OccurrencesOfAppend
      <4>2. Occurrences(w, Way(q))' = Occurrences(w, Append(Way(q), v))
        BY <3>1, Zenon DEF Occurrences
      <4>3. QED
        BY <4>1, <4>2
    <3>3. ASSUME NEW w \in Vehicle, NEW r \in Channel \ {q}
          PROVE  Occurrences(w, Way(r))' = Occurrences(w, Way(r))
      BY <3>1, Zenon DEF Occurrences
    <3>4. QED
      BY <1>1, <1>6, <2>0, <2>1, <3>2, <3>3 DEF Send, Tracked, TypeOK
  <2>6. QED
    BY <2>3, <2>4, <2>5 DEF IInv
<1>7. ASSUME NEW q \in Channel, Receive(q) \/ Record(q) \/ RangeEnds(q) PROVE IInv'
  <2>1. /\ recorded[q] \in Seq(Vehicle) /\ hand[q] \in Seq(Vehicle)
        /\ queue[q] \in Seq(Vehicle) /\ Len(queue[q]) \in Nat
    BY <1>1, LenProperties DEF TypeOK
  <2>2. /\ queue[q] # <<>> => /\ <<Head(queue[q])>> \in Seq(Vehicle)
                             /\ Tail(queue[q]) \in Seq(Vehicle)
                             /\ Len(Tail(queue[q])) = Len(queue[q]) - 1
        /\ recorded[q] \o hand[q] \in Seq(Vehicle) /\ <<>> \in Seq(Vehicle)
    BY <2>1, HeadTailProperties, ConcatProperties, EmptySeq
  <2>3. TypeOK'
    <3>1. CASE Receive(q)
      BY <1>1, <2>2, <3>1 DEF Receive, TypeOK
    <3>2. CASE Record(q)
      BY <1>1, <2>2, <3>2 DEF Record, TypeOK
    <3>3. CASE RangeEnds(q)
      BY <1>1, <3>3 DEF RangeEnds, TypeOK
    <3>4. QED
      BY <1>7, <3>1, <3>2, <3>3
  <2>4. Phases'
    BY <1>1, <1>7 DEF Receive, Record, RangeEnds, TypeOK, Phases
  <2>5. Balance'
    <3>1. Pending' = Pending
      BY <1>7 DEF Receive, Record, RangeEnds, Pending
    <3>2. \A r \in Channel : Uncounted(r)' = Uncounted(r)
      <4>1. CASE Receive(q)
        <5>1. /\ Len(queue'[q]) = Len(queue[q]) - 1
              /\ collector[q] = "receive" /\ collector'[q] = "record"
          BY <1>1, <2>2, <4>1 DEF Receive, TypeOK
        <5>2. \A r \in Channel \ {q} : queue'[r] = queue[r] /\ collector'[r] = collector[r]
          BY <1>1, <4>1 DEF Receive, TypeOK
        <5>3. Uncounted(q)' = Uncounted(q)
          BY <2>1, <5>1 DEF Uncounted
        <5>4. QED
          BY <5>2, <5>3 DEF Uncounted
      <4>2. CASE Record(q) \/ RangeEnds(q)
        BY <1>1, <4>2 DEF Record, RangeEnds, Uncounted, TypeOK
      <4>3. QED
        BY <1>7, <4>1, <4>2
    <3>3. QED
      BY <1>1, <1>7, <3>1, <3>2 DEF Receive, Record, RangeEnds, Balance, Channel
  <2>6. Tracked'
    <3>1. Way(q)' = Way(q)
      <4>1. CASE Receive(q)
        BY <1>1, <4>1, WayMoved DEF Receive, Tracked, TypeOK
      <4>2. CASE Record(q)
        BY <1>1, <4>2, WayMoved DEF Record, TypeOK
      <4>3. CASE RangeEnds(q)
        BY <1>2, <4>3 DEF RangeEnds
      <4>4. QED
        BY <1>7, <4>1, <4>2, <4>3
    <3>2. \A r \in Channel \ {q} : Way(r)' = Way(r)
      BY <1>1, <1>7 DEF Receive, Record, RangeEnds, TypeOK, Way
    <3>3. \A r \in Channel : collector'[r] # "record" => hand'[r] = <<>>
      BY <1>1, <1>7 DEF Receive, Record, RangeEnds, TypeOK, Tracked
    <3>4. UNCHANGED <<worker, result>>
      BY <1>7 DEF Receive, Record, RangeEnds
    <3>5. QED
      BY <1>1, <3>1, <3>2, <3>3, <3>4, NothingSent DEF Tracked
  <2>7. QED
    BY <2>3, <2>4, <2>5, <2>6 DEF IInv
<1>8. ASSUME NEW q \in Channel, CountDown(q) PROVE IInv'
  <2>1. /\ Uncounted(q)' = Uncounted(q) - 1 /\ Uncounted(q) \in Nat \ {0}
        /\ \A r \in Channel \ {q} : Uncounted(r)' = Uncounted(r) /\ Uncounted(r) \in Nat
    BY <1>1, <1>8, LenProperties DEF CountDown, Uncounted, TypeOK
  <2>2. Pending' = Pending
    BY <1>8 DEF CountDown, Pending
  <2>3. Balance' /\ wait \in Nat \ {0} /\ wait' \in Nat
    BY <1>1, <1>8, <2>1, <2>2, PendingIsFinite DEF CountDown, Balance, Channel
  <2>4. TypeOK' /\ Phases'
    BY <1>1, <1>8, <2>3 DEF CountDown, TypeOK, Phases
  <2>5. Tracked'
    BY <1>1, <1>2, <1>8, NothingSent DEF CountDown, TypeOK, Tracked
  <2>6. QED
    BY <2>3, <2>4, <2>5 DEF IInv
<1>9. CASE Return \/ Quiet \/ UNCHANGED vars
  <2>1. TypeOK' /\ Phases'
    <3>1. CASE Return
      BY <1>1, <3>1 DEF Return, TypeOK, Phases
    <3>2. CASE UNCHANGED vars
      BY <1>1, <3>2 DEF vars, TypeOK, Phases
    <3>3. QED
      BY <1>9, <3>1, <3>2 DEF Quiet
  <2>2. Balance'
    BY <1>1, <1>9 DEF Return, Quiet, vars, Balance, Pending, Uncounted
  <2>3. UNCHANGED <<worker, result, recorded, hand, queue, collector>>
    BY <1>9 DEF Return, Quiet, vars
  <2>4. Tracked'
    BY <1>1, <1>2, <2>3, NothingSent DEF Tracked
  <2>5. QED
    BY <2>1, <2>2, <2>4 DEF IInv
<1>10. QED
  BY <1>3, <1>4, <1>5, <1>6, <1>7, <1>8, <1>9
     DEF Next, MainStep, WorkerStep, CollectorStep

LEMMA Inductive == Spec => []IInv
BY InitIInv, NextKeeps, PTL DEF Spec

\* When Execute has returned nothing is pending or on its way.
LEMMA AllCounted ==
  ASSUME IInv, main = "returned"
  PROVE  /\ \A v \in Vehicle : worker[v] = "exit"
         /\ \A q \in Channel : /\ queue[q] = <<>> /\ hand[q] = <<>>
                               /\ collector[q] \notin {"record", "count"}
<1>1. TypeOK /\ Phases /\ Balance /\ Tracked
  BY DEF IInv
<1>2. \A q \in Channel : Len(queue[q]) \in Nat /\ queue[q] \in Seq(Vehicle)
  BY <1>1, LenProperties DEF TypeOK
<1>3. /\ Cardinality(Pending) = 0
      /\ \A q \in Channel : Len(queue[q]) = 0 /\ collector[q] \notin {"record", "count"}
  <2>1. \A q \in Channel :
          /\ Uncounted(q) \in Nat
          /\ Uncounted(q) = 0 =>
               Len(queue[q]) = 0 /\ collector[q] \notin {"record", "count"}
    <3>1. ASSUME NEW q \in Channel, collector[q] \in {"record", "count"}
          PROVE  Uncounted(q) \in Nat \ {0}
      BY <1>2, <3>1 DEF Uncounted
    <3>2. ASSUME NEW q \in Channel, collector[q] \notin {"record", "count"}
          PROVE  Uncounted(q) = Len(queue[q]) /\ Len(queue[q]) \in Nat
      BY <1>2, <3>2 DEF Uncounted
    <3>3. QED
      BY <3>1, <3>2
  <2>2. /\ Cardinality(Pending) = 0
        /\ Uncounted("vehicle") = 0 /\ Uncounted("error") = 0
    BY <1>1, <2>1, PendingIsFinite DEF Phases, Balance, Channel
  <2>3. QED
    BY <2>1, <2>2 DEF Channel
<1>4. Pending = {}
  BY <1>3, PendingIsFinite, FS_EmptySet
<1>5. \A q \in Channel : queue[q] = <<>>
  BY <1>2, <1>3, EmptySeq
<1>6. QED
  BY <1>1, <1>3, <1>4, <1>5 DEF Pending, Phases, Tracked, TypeOK

-----------------------------------------------------------------------------
\* Every variable keeps its type; the WaitGroup does not go below zero, which
\* would be a panic.
THEOREM TypeCorrect == Spec => []TypeOK
BY Inductive, PTL DEF IInv

\* When the channels are closed no goroutine is left to send on one.
THEOREM NoSendOnClosedHolds == Spec => []NoSendOnClosed
<1>1. IInv => NoSendOnClosed
  BY AllCounted DEF IInv, Phases, NoSendOnClosed
<1>2. QED
  BY <1>1, Inductive, PTL

\* When Execute returns every vehicle is accounted for once, by what its goroutine
\* came to.
THEOREM AccountedForOnceHolds == Spec => []AccountedForOnce
<1>1. IInv => AccountedForOnce
  <2> SUFFICES ASSUME IInv, main = "returned", NEW v \in Vehicle, NEW q \in Channel
               PROVE  Occurrences(v, recorded[q]) = IF result[v] = q THEN 1 ELSE 0
    BY DEF AccountedForOnce
  <2>1. queue[q] = <<>> /\ hand[q] = <<>> /\ worker[v] = "exit"
    BY AllCounted
  <2>2. recorded[q] \in Seq(Vehicle) /\ <<>> \in Seq(Vehicle)
    BY EmptySeq DEF IInv, TypeOK
  <2>3. Way(q) = recorded[q]
    BY <2>1, <2>2, ConcatEmptySeq DEF Way
  <2>4. QED
    BY <2>1, <2>3 DEF IInv, Tracked
<1>2. QED
  BY <1>1, Inductive, PTL

\* Nothing is appended to the slices that Execute has returned.
THEOREM ReturnedIsFinalHolds == Spec => ReturnedIsFinal
<1>1. IInv /\ [Next]_vars => (main = "returned" => recorded' = recorded)
  <2> SUFFICES ASSUME IInv, [Next]_vars, main = "returned" PROVE recorded' = recorded
    OBVIOUS
  <2>1. \A q \in Channel : collector[q] # "record"
    BY AllCounted
  <2>2. QED
    BY <2>1 DEF Next, MainStep, WorkerStep, CollectorStep, Quiet, Spawn, StartCollectors,
       Return, Requested, Send, Receive, RangeEnds, Record, CountDown, vars
<1>2. QED
  BY <1>1, Inductive, PTL DEF Spec, ReturnedIsFinal
=============================================================================
