-------------------------- MODULE SupplierBookings --------------------------
(***************************************************************************)
(* A client's calls to /booking, /cancel, /booking-status and /modify of   *)
(* one platform, the hub's handlers (platform.go and the Execute methods   *)
(* of the implementations) and the supplier behind them.  Handlers run     *)
(* with a background context: neither a client that hangs up nor the hub's *)
(* timeout stops what the supplier has been sent, so the supplier may act  *)
(* after the client has its answer.  The hub keeps no state between calls. *)
(***************************************************************************)
EXTENDS PlatformReplies

CONSTANT Call   \* the calls the client makes, one after the other or at once

ASSUME NoneIsFresh == None \notin Status \cup Booking \cup Call

VARIABLES
  platform,  \* the platform all of this is about
  pc,        \* control point of each call's handler
  op,        \* its operation
  target,    \* the booking it names
  wire,      \* its request to the supplier, or the supplier's reply to it
  learned,   \* Booking.com: the reference in the reply to the booking
  answer,    \* what the client was told
  held,      \* state of each booking at the supplier
  madeBy,    \* the call that made it
  modified,  \* the bookings the supplier has modified
  known,     \* the references the client has been told
  wasGone    \* calls that began when their booking was cancelled already

hub == <<pc, op, target, wire, learned, answer, known>>
supplier == <<held, madeBy, modified>>
vars == <<platform, hub, supplier, wasGone>>

Operation == {"booking", "cancel", "status", "modify"}

\* What a wire carries: a request, a Reply, or nothing.
Message(kind) == [kind |-> kind, ref |-> None, status |-> None]
Silent == Message("silent")

Init ==
  /\ platform \in Platform
  /\ pc = [c \in Call |-> "idle"]
  /\ op = [c \in Call |-> "none"]
  /\ target = [c \in Call |-> None]
  /\ wire = [c \in Call |-> Silent]
  /\ learned = [c \in Call |-> None]
  /\ answer = [c \in Call |-> None]
  /\ held = [b \in Booking |-> "unmade"]
  /\ madeBy = [b \in Booking |-> None]
  /\ modified = {}
  /\ known = {}
  /\ wasGone = {}

\* Handlers with something to obtain before they call the supplier: a user token
\* and then card data, or the supplier's auth token.
FirstStep(o) ==
  CASE platform = "bookingcom" /\ o = "booking" -> "token"
    [] platform \in {"anyrent", "rently"} -> "auth"
    [] OTHER -> "ask"

Asking == {"ask", "askstatus"}
Waiting == {"wait", "waitstatus"}
Asked(point) == IF point = "ask" THEN "wait" ELSE "waitstatus"

\* The client takes any reference in an answer for one it can use.
RespondUnread(c, a) ==
  /\ pc' = [pc EXCEPT ![c] = "done"]
  /\ answer' = [answer EXCEPT ![c] = a]
  /\ known' = known \cup {a.ref}

\* The handler ends and the client reads a.
Respond(c, a) ==
  /\ pc' = [pc EXCEPT ![c] = "done"]
  /\ answer' = [answer EXCEPT ![c] = a]
  /\ known' = known \cup ({a.ref} \cap Booking)

-----------------------------------------------------------------------------
\* The client calls the hub, for a booking whose reference it has been told.
Arrive(c, o, b) ==
  /\ pc[c] = "idle"
  /\ o \in Offers(platform)
  /\ IF o = "booking" THEN b = None ELSE b \in known
  /\ op' = [op EXCEPT ![c] = o]
  /\ target' = [target EXCEPT ![c] = b]
  /\ pc' = [pc EXCEPT ![c] = FirstStep(o)]
  /\ wasGone' = IF b \in Booking /\ held[b] = "cancelled"
                THEN wasGone \cup {c} ELSE wasGone
  /\ UNCHANGED <<platform, wire, learned, answer, known, supplier>>

\* Token, card data or auth token is there.
Prepared(c) ==
  /\ \/ pc[c] = "token" /\ pc' = [pc EXCEPT ![c] = "card"]
     \/ pc[c] \in {"card", "auth"} /\ pc' = [pc EXCEPT ![c] = "ask"]
  /\ UNCHANGED <<platform, op, target, wire, learned, answer, known, supplier, wasGone>>

\* It is not, the rate reference does not parse, or building the request panics:
\* a Go error (500), or for the auth token also an answer with the supplier's error.
Unprepared(c) ==
  /\ \/ pc[c] \in {"token", "card", "auth"} /\ Respond(c, Internal)
     \/ pc[c] = "auth" /\ Respond(c, Blame("FAILED"))
     \/ pc[c] = "ask" /\ op[c] \in {"booking", "modify"} /\ Respond(c, Internal)
  /\ UNCHANGED <<platform, op, target, wire, learned, supplier, wasGone>>

\* client.Do
Ask(c) ==
  /\ pc[c] \in Asking
  /\ pc' = [pc EXCEPT ![c] = Asked(pc[c])]
  /\ wire' = [wire EXCEPT ![c] = Message(IF pc[c] = "ask" THEN op[c] ELSE "status")]
  /\ UNCHANGED <<platform, op, target, learned, answer, known, supplier, wasGone>>

-----------------------------------------------------------------------------
\* The supplier carries out a request or refuses it, and replies.

\* The state of a booking in the schema's words, as GetBookingStatus and Status
\* put the names the supplier has for it.
NameOf(b) ==
  IF held'[b] = "cancelled" THEN {IF platform = "anyrent" THEN "CANCELLED" ELSE "FAILED"}
  ELSE {"OK", "FAILED"} \cup (IF platform = "rently" THEN {} ELSE {"PENDING"})

Done(b) == [kind : {"done"}, ref : {b}, status : NameOf(b)]
Bare(kinds) == {Message(k) : k \in kinds}

\* An empty 2xx answer to the JSON suppliers' DELETE is not a refusal.
Refusals(o) ==
  Bare({"badcode"} \cup
       (IF platform = "profitmaxdht" THEN {"fault"} ELSE {}) \cup
       (IF platform = "rently" THEN {} ELSE {"refused"}) \cup
       (IF platform \in {"anyrent", "rently"} /\ o = "cancel" THEN {} ELSE {"blank"}))

Replies(c, replies) ==
  \E r \in replies :
    wire' = [wire EXCEPT ![c] = IF pc[c] \in Waiting THEN r ELSE Silent]

Receives(c, request) == wire[c].kind = request
Untouched == UNCHANGED <<platform, pc, op, target, learned, answer, known, wasGone>>

SupplierBooks(c, b) ==
  /\ Receives(c, "booking")
  /\ held[b] = "unmade"
  /\ held' = [held EXCEPT ![b] = "live"]
  /\ madeBy' = [madeBy EXCEPT ![b] = c]
  /\ Replies(c, Done(b))
  /\ UNCHANGED modified /\ Untouched

SupplierCancels(c) ==
  /\ Receives(c, "cancel")
  /\ held[target[c]] = "live"
  /\ held' = [held EXCEPT ![target[c]] = "cancelled"]
  /\ Replies(c, Bare({"done"}))
  /\ UNCHANGED <<madeBy, modified>> /\ Untouched

SupplierModifies(c) ==
  /\ Receives(c, "modify")
  /\ held[target[c]] = "live"
  /\ modified' = modified \cup {target[c]}
  /\ UNCHANGED <<held, madeBy>>
  /\ Replies(c, [kind : {"done"}, ref : {target[c]}, status : {None}])
  /\ Untouched

\* The booking a status request names.
StatusOf(c) == IF op[c] = "status" THEN target[c] ELSE learned[c]

SupplierReports(c) ==
  /\ Receives(c, "status")
  /\ StatusOf(c) # None
  /\ UNCHANGED supplier
  /\ Replies(c, Done(StatusOf(c)))
  /\ Untouched

\* A booking that is cancelled already has an error code of its own with the
\* two OTA suppliers; the others refuse or confirm once more.
SupplierRefuses(c) ==
  /\ wire[c].kind \in Operation
  /\ UNCHANGED supplier
  /\ IF wire[c].kind = "cancel" /\ held[target[c]] = "cancelled"
     THEN Replies(c, IF platform \in {"hertz", "profitmaxdht"} THEN Bare({"already"})
                     ELSE Refusals("cancel") \cup Bare({"done"}))
     ELSE Replies(c, Refusals(wire[c].kind))
  /\ Untouched

-----------------------------------------------------------------------------
\* The hub reads the reply, the body of which may have been damaged or cut on
\* the way: the errors of io.ReadAll are ignored.
Heard(r) == IF r.kind = "badcode" THEN {r} ELSE {r, Message("garbled")}

Hears(c, r) ==
  \/ pc[c] = "waitstatus" /\ Respond(c, BookingComBooks(learned[c], r))
  \/ /\ pc[c] = "wait"
     /\ ~(platform = "bookingcom" /\ op[c] = "booking" /\ BookingComGoesOn(r))
     /\ Respond(c, AnswerOf(platform, op[c], r))

Hear(c) ==
  /\ pc[c] \in Waiting /\ wire[c].kind \in Kind
  /\ \E r \in Heard(wire[c]) : Hears(c, r)
  /\ wire' = [wire EXCEPT ![c] = Silent]
  /\ UNCHANGED <<platform, op, target, learned, supplier, wasGone>>

\* Booking.com has booked: its status is asked next.
AskStatus(c) ==
  /\ platform = "bookingcom" /\ op[c] = "booking" /\ pc[c] = "wait"
  /\ wire[c].kind \in Kind /\ BookingComGoesOn(wire[c])
  /\ learned' = [learned EXCEPT ![c] = wire[c].ref]
  /\ wire' = [wire EXCEPT ![c] = Silent]
  /\ pc' = [pc EXCEPT ![c] = "askstatus"]
  /\ UNCHANGED <<platform, op, target, answer, known, supplier, wasGone>>

\* The client's timeout, or a broken connection.  What has been sent stays sent.
GiveUp(c) ==
  /\ pc[c] \in Waiting
  /\ Hears(c, Message("lost"))
  /\ wire' = [wire EXCEPT ![c] = IF @.kind \in Operation THEN @ ELSE Silent]
  /\ UNCHANGED <<platform, op, target, learned, supplier, wasGone>>

-----------------------------------------------------------------------------
HubStep(c) ==
  Prepared(c) \/ Unprepared(c) \/ Ask(c) \/ Hear(c) \/ AskStatus(c) \/ GiveUp(c)

SupplierStep(c) ==
  \/ \E b \in Booking : SupplierBooks(c, b)
  \/ SupplierCancels(c) \/ SupplierModifies(c) \/ SupplierReports(c) \/ SupplierRefuses(c)

Next ==
  \E c \in Call :
    \/ \E o \in Operation, b \in Booking \cup {None} :
         Arrive(c, o, b)
    \/ HubStep(c) \/ SupplierStep(c)

Spec == Init /\ [][Next]_vars
-----------------------------------------------------------------------------
TypeOK ==
  /\ platform \in Platform
  /\ pc \in [Call -> {"idle", "token", "card", "auth", "done"} \cup Asking \cup Waiting]
  /\ op \in [Call -> Operation \cup {"none"}]
  /\ target \in [Call -> Booking \cup {None}]
  /\ wire \in [Call -> Reply \cup {Message(k) : k \in Operation \cup {"silent"}}]
  /\ learned \in [Call -> Booking \cup {None}]
  /\ answer \in [Call -> Answer \cup {None}]
  /\ held \in [Booking -> {"unmade", "live", "cancelled"}]
  /\ madeBy \in [Booking -> Call \cup {None}]
  /\ modified \subseteq Booking
  /\ known \subseteq Booking
  /\ wasGone \subseteq Call

Told(c, o, s) == op[c] = o /\ answer[c] # None /\ answer[c].status = s

\* What the client is told is done has been done: a booking answered OK was made
\* for that very call, under the reference in the answer, a cancellation or a
\* modification answered OK has reached the booking.
OKIsTrue ==
  \A c \in Call :
    /\ Told(c, "booking", "OK") =>
         answer[c].ref \in Booking /\ madeBy[answer[c].ref] = c
    /\ Told(c, "cancel", "OK") => held[target[c]] = "cancelled"
    /\ Told(c, "modify", "OK") => target[c] \in modified

\* A booking the supplier has made, or makes after the hub has given up, is never
\* passed over in silence: the call's answer has its reference, or an error.
NoSilentBooking ==
  \A b \in Booking :
    LET c == madeBy[b]
    IN  c # None /\ answer[c] # None => answer[c].ref = b \/ answer[c].errors

\* A client that cancels again, because it does not know what came of its first
\* attempt, is never told FAILED for a booking that is cancelled.  The two OTA
\* platforms see to that with alreadyCancelled; the others have no such thing.
RepeatedCancelIsOK ==
  platform \in {"hertz", "profitmaxdht"} =>
    \A c \in wasGone : ~Told(c, "cancel", "FAILED")

\* A status asked for a booking that was cancelled before is not answered OK, by
\* the platforms that look at the state in the supplier's reply.
StatusIsNotStale ==
  platform \in {"bookingcom", "anyrent"} =>
    \A c \in wasGone : ~Told(c, "status", "OK")

-----------------------------------------------------------------------------
\* The calls as BookingDesk sees them: without the platform, the wires and the
\* steps of the handlers.
PhaseOf(c) ==
  CASE pc[c] = "idle" -> "new"
    [] pc[c] = "done" -> "closed"
    [] OTHER -> "open"

NoticeOf(a) ==
  [done |-> a.status = "OK", ref |-> IF a.ref \in Booking THEN a.ref ELSE None, errors |-> a.errors]

NoticeTo(c) == IF pc[c] = "done" THEN NoticeOf(answer[c]) ELSE None

Desk == INSTANCE BookingDesk WITH
          phase <- [c \in Call |-> PhaseOf(c)],
          told <- [c \in Call |-> NoticeTo(c)]

\* The hub and the suppliers keep the promise of BookingDesk: besides what the
\* invariants say of one moment, a call that was answered without an error is over
\* for good, and the supplier acts once on any call, in whatever order requests,
\* replies and timeouts come.
KeepsDesk == Desk!Spec

-----------------------------------------------------------------------------
\* What schema/gen_schema.go:432 says of CancelResponse.status: "Was the
\* cancellation successful."  FAILED is told of cancellations that were not.
FailedIsTrue ==
  \A c \in Call : Told(c, "cancel", "FAILED") => held[target[c]] # "cancelled"
=============================================================================
