-------------------------- MODULE AnyRentLocations --------------------------
(***************************************************************************)
(* locationsRequest.Execute of src/internal/platform/implementations/      *)
(* anyrent/locations.go, from its first page on.  Each further page has a  *)
(* goroutine, which hands its locations or its error to Execute over two   *)
(* unbuffered channels and then says that it is done over a third, of      *)
(* capacity one.  Execute counts the pages that are done, throws all       *)
(* locations away if there was an error, closes the channels and returns.  *)
(* Stations are counted, not told apart.                                   *)
(***************************************************************************)
EXTENDS Integers, FiniteSets

CONSTANTS
  MaxPages,     \* bound on total_pages of the supplier's first answer
  MaxStations   \* bound on the stations of a page

ASSUME Bounds == MaxPages \in Nat \ {0} /\ MaxStations \in Nat

Page == 1 .. MaxPages

VARIABLES
  main,      \* control point of Execute
  total,     \* total_pages, zero before the first answer
  worker,    \* control point of the goroutine of each page
  stations,  \* stations the supplier listed on each page it answered
  left,      \* of these, the ones the page's goroutine still has to hand over
  located,   \* of these, the ones in locations.Locations
  errors,    \* entries of errorsBucket
  finished,  \* pages Execute has counted as done
  done,      \* messages in locationsDoneResultChannel
  closed,    \* have the channels been closed
  alive      \* FALSE once a goroutine's panic has ended the process

vars == <<main, total, worker, stations, left, located, errors, finished,
          done, closed, alive>>

Init ==
  /\ main = "first" /\ total = 0
  /\ worker = [p \in Page |-> "unborn"]
  /\ stations = [p \in Page |-> 0]
  /\ left = [p \in Page |-> 0]
  /\ located = [p \in Page |-> 0]
  /\ errors = 0 /\ finished = 0 /\ done = 0
  /\ closed = FALSE /\ alive = TRUE

RestOfPages == total - 1
At(p, point) == alive /\ worker[p] = point
Move(p, point) == worker' = [worker EXCEPT ![p] = point]
Collecting == alive /\ main = "collect"

\* Where the loop of the select goes on, when n pages are done.
NextRound(n) == IF n < RestOfPages THEN "collect" ELSE "check"

-----------------------------------------------------------------------------
\* Mistakes this code could contain: each stands for the definition of the
\* same shape below it.

\* The collecting loop ends at the first error.
ErrorEndsLoop(p) ==
  /\ Collecting /\ At(p, "error")
  /\ errors' = errors + 1
  /\ main' = "check"
  /\ Move(p, "done")
  /\ UNCHANGED <<total, stations, left, located, finished, done, closed, alive>>

\* Locations collected before an error are returned with it.
ReturnPartial ==
  /\ alive /\ main = "check"
  /\ located' = located
  /\ closed' = (total > 1)
  /\ main' = "returned"
  /\ UNCHANGED <<total, worker, stations, left, errors, finished, done, alive>>

\* A page that fails does not say that it is done.
ErrorWithoutDone(p) ==
  /\ Collecting /\ At(p, "error")
  /\ errors' = errors + 1
  /\ main' = "collect"
  /\ Move(p, "exit")
  /\ UNCHANGED <<total, stations, left, located, finished, done, closed, alive>>

-----------------------------------------------------------------------------
\* The first page.  A transport error, an unreadable answer or one with an
\* error message ends the request without locations.
FirstPageFails ==
  /\ alive /\ main = "first"
  /\ errors' = errors + 1
  /\ main' = "returned"
  /\ UNCHANGED <<total, worker, stations, left, located, finished, done,
                 closed, alive>>

\* parseLocation indexes the two halves of an opening time and panics when there
\* is one only; web.PanicRecovery answers the request.
FirstPagePanics ==
  /\ alive /\ main = "first"
  /\ main' = "panicked"
  /\ UNCHANGED <<total, worker, stations, left, located, errors, finished,
                 done, closed, alive>>

\* Its locations are recorded and a goroutine is started for every other page.
FirstPage(pages, n) ==
  /\ alive /\ main = "first"
  /\ total' = pages
  /\ stations' = [stations EXCEPT ![1] = n]
  /\ located' = [located EXCEPT ![1] = n]
  /\ worker' = [p \in Page |-> IF p \in 2 .. pages THEN "ask" ELSE "unborn"]
  /\ main' = IF pages > 1 THEN "collect" ELSE "check"
  /\ UNCHANGED <<left, errors, finished, done, closed, alive>>

\* makeExtraRequest: makeRequest gives n stations, or an error.
PageAnswered(p, n) ==
  /\ At(p, "ask")
  /\ stations' = [stations EXCEPT ![p] = n]
  /\ left' = [left EXCEPT ![p] = n]
  /\ Move(p, IF n = 0 THEN "done" ELSE "send")
  /\ UNCHANGED <<main, total, located, errors, finished, done, closed, alive>>

PageFails(p) ==
  /\ At(p, "ask")
  /\ Move(p, "error")
  /\ UNCHANGED <<main, total, stations, left, located, errors, finished, done,
                 closed, alive>>

\* parseLocation panics in the page's goroutine, where nothing recovers it.
PagePanics(p) ==
  /\ At(p, "send")
  /\ alive' = FALSE
  /\ UNCHANGED <<main, total, worker, stations, left, located, errors,
                 finished, done, closed>>

\* The page's goroutine sends a location and the select of Execute receives it.
HandOver(p) ==
  /\ Collecting /\ At(p, "send")
  /\ left' = [left EXCEPT ![p] = @ - 1]
  /\ located' = [located EXCEPT ![p] = @ + 1]
  /\ Move(p, IF left[p] = 1 THEN "done" ELSE "send")
  /\ UNCHANGED <<main, total, stations, errors, finished, done, closed, alive>>

\* Likewise its error.
HandError(p) ==
  /\ Collecting /\ At(p, "error")
  /\ errors' = errors + 1
  /\ main' = NextRound(finished)
  /\ Move(p, "done")
  /\ UNCHANGED <<total, stations, left, located, finished, done, closed, alive>>

\* locationsDoneResultChannel <- true
SayDone(p) ==
  /\ At(p, "done") /\ done = 0
  /\ done' = 1
  /\ Move(p, "exit")
  /\ UNCHANGED <<main, total, stations, left, located, errors, finished,
                 closed, alive>>

\* <-locationsDoneResultChannel
CountDone ==
  /\ Collecting /\ done = 1
  /\ done' = 0
  /\ finished' = finished + 1
  /\ main' = NextRound(finished + 1)
  /\ UNCHANGED <<total, worker, stations, left, located, errors, closed, alive>>

\* The check for errors and the deferred closes.
Return ==
  /\ alive /\ main = "check"
  /\ located' = IF errors > 0 THEN [p \in Page |-> 0] ELSE located
  /\ closed' = (total > 1)
  /\ main' = "returned"
  /\ UNCHANGED <<total, worker, stations, left, errors, finished, done, alive>>

-----------------------------------------------------------------------------
MainStep ==
  \/ FirstPageFails \/ FirstPagePanics
  \/ \E pages \in 0 .. MaxPages, n \in 0 .. MaxStations : FirstPage(pages, n)
  \/ CountDone \/ Return
  \/ \E p \in Page : HandOver(p) \/ HandError(p)

WorkerStep(p) ==
  \/ \E n \in 0 .. MaxStations : PageAnswered(p, n)
  \/ PageFails(p) \/ PagePanics(p) \/ SayDone(p)

Gone(p) == worker[p] \in {"unborn", "exit"}

\* Nothing is left to do: the request is answered or the process has died.
Over ==
  \/ ~alive
  \/ main \in {"returned", "panicked"} /\ \A p \in Page : Gone(p)

Next ==
  \/ MainStep
  \/ \E p \in Page : WorkerStep(p)
  \/ Over /\ UNCHANGED vars

Spec == Init /\ [][Next]_vars

\* Every goroutine that can run does; the client's timeout bounds each request
\* to the supplier.
FairSpec ==
  /\ Spec
  /\ WF_vars(MainStep)
  /\ \A p \in Page : WF_vars(WorkerStep(p))

-----------------------------------------------------------------------------
TypeOK ==
  /\ main \in {"first", "collect", "check", "returned", "panicked"}
  /\ total \in 0 .. MaxPages
  /\ worker \in [Page -> {"unborn", "ask", "send", "error", "done", "exit"}]
  /\ stations \in [Page -> 0 .. MaxStations]
  /\ left \in [Page -> 0 .. MaxStations]
  /\ located \in [Page -> 0 .. MaxStations]
  /\ errors \in Nat
  /\ finished \in 0 .. MaxPages
  /\ done \in {0, 1}
  /\ closed \in BOOLEAN /\ alive \in BOOLEAN

\* What Execute returns is either every station of every page, each once, with
\* no error, or no station at all and at least one error: never a part of the
\* supplier's locations, whatever the order in which the pages come in.
AllOrNothing ==
  main = "returned" =>
    IF errors = 0
    THEN located = stations /\ \A p \in 2 .. total : worker[p] = "exit"
    ELSE \A p \in Page : located[p] = 0

\* No goroutine is left that would send on a closed channel, a panic that
\* nothing recovers and that ends the process for every other request.
NoSendOnClosed == closed => \A p \in Page : Gone(p)

\* Unless a goroutine's panic ends the process, the request is answered and no
\* goroutine stays behind, blocked on a channel nobody reads any more.
EverythingEnds == <>[]Over
=============================================================================
