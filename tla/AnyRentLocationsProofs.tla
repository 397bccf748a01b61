----------------------- MODULE AnyRentLocationsProofs -----------------------
(***************************************************************************)
(* Proofs about AnyRentLocations for any number of pages and stations.     *)
(***************************************************************************)
EXTENDS AnyRentLocations, FiniteSetTheorems, TLAPS

\* The pages whose goroutine has said that it is done.
Exited == {p \in Page : worker[p] = "exit"}

\* A goroutine for every page but the first, and before the first answer nothing.
Started ==
  /\ \A p \in Page : worker[p] = "unborn" <=> p \notin 2 .. total
  /\ main \in {"first", "panicked"} =>
       /\ total = 0 /\ finished = 0 /\ done = 0
       /\ \A p \in Page : stations[p] = 0 /\ located[p] = 0 /\ left[p] = 0

\* Execute counts what was said, and stops when everybody has said it.
Counted ==
  /\ finished + done = Cardinality(Exited)
  /\ main = "collect" => finished < RestOfPages
  /\ main = "check" => finished >= RestOfPages

\* A station is located or still to be handed over, by a goroutine that is at it.
Handing ==
  /\ \A p \in Page : left[p] > 0 <=> worker[p] = "send"
  /\ \A p \in Page : worker[p] \in {"ask", "error"} => stations[p] = 0
  /\ main # "returned" => \A p \in Page : located[p] + left[p] = stations[p]

\* When Execute has returned the goroutines have.
Closing ==
  /\ main = "returned" => \A p \in Page : Gone(p)
  /\ closed => main = "returned"

IInv == TypeOK /\ Started /\ Counted /\ Handing /\ Closing /\ AllOrNothing

-----------------------------------------------------------------------------
LEMMA PagesAreFinite ==
  ASSUME NEW S \in SUBSET Page
  PROVE  IsFiniteSet(S) /\ Cardinality(S) \in Nat
<1>1. IsFiniteSet(Page)
  BY Bounds, FS_Interval DEF Page
<1>2. QED
  BY <1>1, FS_Subset, FS_CardinalityType

\* What is counted stays right when no goroutine says that it is done and Execute
\* counts none.
LEMMA NotCounted ==
  ASSUME TypeOK, Counted, UNCHANGED <<total, finished, done>>,
         \A p \in Page : worker'[p] = "exit" <=> worker[p] = "exit",
         \/ main' = main
         \/ main' \notin {"collect", "check"}
  PROVE  Counted'
<1>1. Exited' = Exited
  BY DEF Exited
<1>2. QED
  BY <1>1 DEF Counted, RestOfPages

LEMMA InitIInv == Init => IInv
<1> SUFFICES ASSUME Init PROVE IInv
  OBVIOUS
<1> USE Bounds DEF Init
<1>1. TypeOK
  <2>1. 0 \in 0 .. MaxStations /\ 0 \in 0 .. MaxPages
    OBVIOUS
  <2>2. QED
    BY <2>1 DEF TypeOK
<1>2. Started /\ Handing /\ Closing /\ AllOrNothing
  BY DEF Page, Started, Handing, Closing, AllOrNothing
<1>3. Counted
  <2>1. Exited = {}
    BY DEF Exited
  <2>2. QED
    BY <2>1, FS_EmptySet DEF Counted
<1>4. QED
  BY <1>1, <1>2, <1>3 DEF IInv

LEMMA NextKeeps == IInv /\ [Next]_vars => IInv'
<1> SUFFICES ASSUME IInv, [Next]_vars PROVE IInv'
  OBVIOUS
<1> USE Bounds
<1>1. TypeOK /\ Started /\ Counted /\ Handing /\ Closing /\ AllOrNothing
  BY DEF IInv
<1>2. CASE FirstPageFails \/ FirstPagePanics
  <2>1. \A p \in Page : located[p] = 0 /\ worker[p] = "unborn"
    BY <1>1, <1>2 DEF FirstPageFails, FirstPagePanics, Started, Page
  <2>2. TypeOK' /\ AllOrNothing'
    BY <1>1, <1>2, <2>1 DEF FirstPageFails, FirstPagePanics, TypeOK, AllOrNothing
  <2>3. Started' /\ Handing' /\ Closing'
    BY <1>1, <1>2, <2>1 DEF FirstPageFails, FirstPagePanics, Started, Handing, Closing, Gone
  <2>4. Counted'
    BY <1>1, <1>2, NotCounted DEF FirstPageFails, FirstPagePanics
  <2>5. QED
    BY <2>2, <2>3, <2>4 DEF IInv
<1>3. ASSUME NEW pages \in 0 .. MaxPages, NEW n \in 0 .. MaxStations, FirstPage(pages, n)
      PROVE  IInv'
  <2>1. TypeOK' /\ Closing' /\ AllOrNothing'
    BY <1>1, <1>3 DEF FirstPage, TypeOK, Closing, AllOrNothing, Page
  <2>2. Started' /\ Handing'
    <3>1. /\ total' = pages /\ main' \in {"collect", "check"} /\ UNCHANGED left
          /\ \A p \in Page : worker'[p] = IF p \in 2 .. pages THEN "ask" ELSE "unborn"
      BY <1>3 DEF FirstPage
    <3>2. /\ \A p \in Page : left[p] = 0
          /\ \A p \in Page : stations'[p] = located'[p] /\ located'[p] \in Nat
          /\ \A p \in 2 .. pages : stations'[p] = 0
      BY <1>1, <1>3 DEF FirstPage, TypeOK, Started, Page
    <3>3. Started'
      BY <3>1 DEF Started
    <3>4. Handing'
      <4>1. \A p \in Page : (left'[p] > 0 <=> worker'[p] = "send")
        BY <3>1, <3>2
      <4>2. \A p \in Page : worker'[p] \in {"ask", "error"} => stations'[p] = 0
        BY <3>1, <3>2
      <4>3. \A p \in Page : located'[p] + left'[p] = stations'[p]
        BY <3>1, <3>2
      <4>4. QED
        BY <4>1, <4>2, <4>3 DEF Handing
    <3>5. QED
      BY <3>3, <3>4
  <2>3. Counted'
    <3>1. Exited' = {}
      BY <1>1, <1>3 DEF FirstPage, Exited
    <3>2. QED
      BY <1>1, <1>3, <3>1, FS_EmptySet DEF FirstPage, Started, Counted, RestOfPages
  <2>4. QED
    BY <2>1, <2>2, <2>3 DEF IInv
<1>4. ASSUME NEW p \in Page, NEW n \in 0 .. MaxStations, PageAnswered(p, n) PROVE IInv'
  <2>1. main # "returned" /\ main \notin {"first", "panicked"}
    BY <1>1, <1>4 DEF PageAnswered, At, Closing, Gone, Started, Page
  <2>2. TypeOK' /\ Started' /\ Closing' /\ AllOrNothing'
    BY <1>1, <1>4, <2>1 DEF PageAnswered, At, Move, TypeOK, Started, Closing, AllOrNothing
  <2>3. Handing'
    BY <1>1, <1>4, <2>1 DEF PageAnswered, At, Move, TypeOK, Handing
  <2>4. Counted'
    BY <1>1, <1>4, NotCounted DEF PageAnswered, At, Move, TypeOK
  <2>5. QED
    BY <2>2, <2>3, <2>4 DEF IInv
<1>5. ASSUME NEW p \in Page, PageFails(p) PROVE IInv'
  <2>1. main # "returned" /\ main \notin {"first", "panicked"}
    BY <1>1, <1>5 DEF PageFails, At, Closing, Gone, Started, Page
  <2>2. TypeOK' /\ Started' /\ Handing' /\ Closing' /\ AllOrNothing'
    BY <1>1, <1>5, <2>1 DEF PageFails, At, Move, TypeOK, Started, Handing, Closing,
       AllOrNothing
  <2>3. Counted'
    BY <1>1, <1>5, NotCounted DEF PageFails, At, Move, TypeOK
  <2>4. QED
    BY <2>2, <2>3 DEF IInv
<1>6. ASSUME NEW p \in Page, PagePanics(p) PROVE IInv'
  <2>1. TypeOK' /\ Started' /\ Handing' /\ Closing' /\ AllOrNothing'
    BY <1>1, <1>6 DEF PagePanics, TypeOK, Started, Handing, Closing, Gone, AllOrNothing
  <2>2. Counted'
    BY <1>1, <1>6, NotCounted DEF PagePanics
  <2>3. QED
    BY <2>1, <2>2 DEF IInv
<1>7. ASSUME NEW p \in Page, HandOver(p) PROVE IInv'
  <2>1. /\ left[p] \in 1 .. MaxStations /\ located[p] + left[p] = stations[p]
        /\ located[p] + 1 \in 0 .. MaxStations
    BY <1>1, <1>7 DEF HandOver, Collecting, At, TypeOK, Handing
  <2>2. TypeOK' /\ Started' /\ Closing' /\ AllOrNothing'
    BY <1>1, <1>7, <2>1 DEF HandOver, Collecting, At, Move, TypeOK, Started, Closing,
       AllOrNothing
  <2>3. Handing'
    BY <1>1, <1>7, <2>1 DEF HandOver, Collecting, At, Move, TypeOK, Handing
  <2>4. Counted'
    BY <1>1, <1>7, NotCounted DEF HandOver, At, Move, TypeOK
  <2>5. QED
    BY <2>2, <2>3, <2>4 DEF IInv
<1>8. ASSUME NEW p \in Page, HandError(p) PROVE IInv'
  <2>1. main' = main
    BY <1>1, <1>8 DEF HandError, Collecting, NextRound, Counted
  <2>2. TypeOK' /\ Started' /\ Handing' /\ Closing' /\ AllOrNothing'
    BY <1>1, <1>8, <2>1 DEF HandError, Collecting, At, Move, TypeOK, Started, Handing,
       Closing, AllOrNothing
  <2>3. Counted'
    BY <1>1, <1>8, <2>1, NotCounted DEF HandError, At, Move, TypeOK
  <2>4. QED
    BY <2>2, <2>3 DEF IInv
<1>9. ASSUME NEW p \in Page, SayDone(p) PROVE IInv'
  <2>1. main # "returned" /\ main \notin {"first", "panicked"}
    BY <1>1, <1>9 DEF SayDone, At, Closing, Gone, Started, Page
  <2>2. TypeOK' /\ Started' /\ Handing' /\ Closing' /\ AllOrNothing'
    BY <1>1, <1>9, <2>1 DEF SayDone, At, Move, TypeOK, Started, Handing, Closing,
       AllOrNothing
  <2>3. Counted'
    <3>1. Exited' = Exited \cup {p} /\ p \notin Exited
      BY <1>1, <1>9 DEF SayDone, At, Move, TypeOK, Exited
    <3>2. Cardinality(Exited') = Cardinality(Exited) + 1
      BY <3>1, PagesAreFinite, FS_AddElement DEF Exited
    <3>3. QED
      BY <1>1, <1>9, <3>2 DEF SayDone, Counted, TypeOK, RestOfPages
  <2>4. QED
    BY <2>2, <2>3 DEF IInv
<1>10. CASE CountDone
  <2>1. finished + 1 <= RestOfPages /\ main = "collect"
    BY <1>1, <1>10 DEF CountDone, Collecting, Counted, TypeOK, RestOfPages
  <2>2. TypeOK' /\ Started' /\ Handing' /\ Closing' /\ AllOrNothing'
    BY <1>1, <1>10, <2>1 DEF CountDone, NextRound, RestOfPages, TypeOK, Started, Handing,
       Closing, AllOrNothing
  <2>3. Counted'
    <3>1. Exited' = Exited
      BY <1>10 DEF CountDone, Exited
    <3>2. QED
      BY <1>1, <1>10, <2>1, <3>1 DEF CountDone, NextRound, RestOfPages, Counted, TypeOK
  <2>4. QED
    BY <2>2, <2>3 DEF IInv
<1>11. CASE Return
  <2>1. \A p \in 2 .. total : worker[p] = "exit"
    <3>1. CASE total > 1
      <4>1. Exited \subseteq 2 .. total
        BY <1>1 DEF Started, Exited
      <4>2. IsFiniteSet(2 .. total) /\ Cardinality(2 .. total) = total - 1
        BY <1>1, <3>1, FS_Interval DEF TypeOK
      <4>3. Cardinality(Exited) \in Nat /\ Cardinality(Exited) <= total - 1
        BY <4>1, <4>2, FS_Subset, PagesAreFinite DEF Exited
      <4>4. Cardinality(Exited) = total - 1
        BY <1>1, <1>11, <4>3 DEF Return, Counted, RestOfPages, TypeOK
      <4>5. Exited = 2 .. total
        BY <4>1, <4>2, <4>4, FS_Subset
      <4>6. QED
        BY <4>5 DEF Exited
    <3>2. CASE total <= 1
      BY <1>1, <3>2 DEF TypeOK
    <3>3. QED
      BY <1>1, <3>1, <3>2 DEF TypeOK
  <2>2. \A p \in Page : Gone(p)
    BY <1>1, <2>1 DEF Started, Gone
  <2>3. \A p \in Page : left[p] = 0 /\ located[p] = stations[p]
    BY <1>1, <1>11, <2>2 DEF Return, Handing, TypeOK, Gone
  <2>4. TypeOK' /\ Started' /\ Handing'
    BY <1>1, <1>11 DEF Return, TypeOK, Started, Handing
  <2>5. Closing'
    BY <1>11, <2>2 DEF Return, Closing, Gone
  <2>6. AllOrNothing'
    BY <1>1, <1>11, <2>1, <2>3 DEF Return, AllOrNothing, TypeOK
  <2>7. Counted'
    BY <1>1, <1>11, NotCounted DEF Return
  <2>8. QED
    BY <2>4, <2>5, <2>6, <2>7 DEF IInv
<1>12. CASE UNCHANGED vars
  BY <1>1, <1>12 DEF vars, IInv, TypeOK, Started, Counted, Exited, RestOfPages, Handing,
     Closing, Gone, AllOrNothing
<1>13. QED
  BY <1>2, <1>3, <1>4, <1>5, <1>6, <1>7, <1>8, <1>9, <1>10, <1>11, <1>12
     DEF Next, MainStep, WorkerStep

LEMMA Inductive == Spec => []IInv
BY InitIInv, NextKeeps, PTL DEF Spec

-----------------------------------------------------------------------------
\* Every variable keeps its type.
THEOREM TypeCorrect == Spec => []TypeOK
BY Inductive, PTL DEF IInv

\* What Execute returns is every station of every page, or none and an error.
THEOREM AllOrNothingHolds == Spec => []AllOrNothing
BY Inductive, PTL DEF IInv

\* When the channels are closed no goroutine is left to send on one.
THEOREM NoSendOnClosedHolds == Spec => []NoSendOnClosed
<1>1. IInv => NoSendOnClosed
  BY DEF IInv, Closing, NoSendOnClosed
<1>2. QED
  BY <1>1, Inductive, PTL
=============================================================================
