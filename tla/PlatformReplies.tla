--------------------------- MODULE PlatformReplies ---------------------------
(***************************************************************************)
(* How each platform of src/internal/platform/implementations turns a      *)
(* supplier's reply to a booking, cancellation, status or modification     *)
(* request into the hub's answer: the part of every Execute that follows   *)
(* client.Do, with the error mapping of tools/requesting and the 500 of    *)
(* platform.go for a Go error.                                             *)
(***************************************************************************)
CONSTANTS
  Booking,  \* what the supplier can book: stands for its references
  None,     \* no reference, or no status
  ZeroId    \* the "0" strconv.Itoa makes of an AnyRent answer without an id

Platform == {"hertz", "profitmaxdht", "bookingcom", "anyrent", "rently"}

\* Operations a platform implements (interfaces.With...); the others are
\* answered with 400 before anything happens.
Offers(platform) ==
  {"booking", "cancel"} \cup
  (IF platform = "hertz" THEN {"modify"}
   ELSE IF platform = "rently" THEN {} ELSE {"status"})

\* What can become of a request: no answer within the timeout, or a broken
\* connection ("lost"), a code outside 2xx ("badcode"), a SOAP fault, a body that
\* does not parse ("garbled"), one with an error text ("refused"), with the code
\* of a reservation already cancelled ("already"), with nothing in it ("blank"),
\* or the confirmation that the supplier did what it was asked ("done").
Kind == {"lost", "badcode", "fault", "garbled", "refused", "already", "blank", "done"}

Status == {"OK", "PENDING", "FAILED", "CANCELLED"}

Reply == [kind : Kind, ref : Booking \cup {None}, status : Status \cup {None}]

Answer == [http : {200, 500}, status : Status \cup {None},
           ref : Booking \cup {None, ZeroId}, errors : BOOLEAN]

Tell(status, ref) == [http |-> 200, status |-> status, ref |-> ref, errors |-> FALSE]
Blame(status) == [http |-> 200, status |-> status, ref |-> None, errors |-> TRUE]

\* A Go error, or a panic that web.PanicRecovery catches: the response that
\* Execute returns with it is dropped.
Internal == [http |-> 500, status |-> None, ref |-> None, errors |-> TRUE]

\* The code of the reply is not checked.
RequestFailsUnchecked(r) == r.kind = "lost"

\* requesting.RequestErrors.
RequestFails(r) == r.kind \in {"lost", "badcode"}

-----------------------------------------------------------------------------
HertzBooks(r) ==
  CASE RequestFails(r) \/ r.kind = "refused" -> Blame("FAILED")
    [] r.kind = "blank" -> Tell("FAILED", None)
    [] r.kind = "done" -> Tell("OK", r.ref)
    [] OTHER -> Internal

\* AlreadyCancelled is not asked.
HertzCancelsOnce(r) ==
  CASE RequestFails(r) -> Blame(None)
    [] r.kind = "done" -> Tell("OK", None)
    [] r.kind \in {"already", "refused", "blank"} -> Blame("FAILED")
    [] OTHER -> Internal

\* The error of a request that fails is not put into the bucket.
HertzCancelsQuietly(r) ==
  CASE RequestFails(r) -> Tell("FAILED", None)
    [] r.kind \in {"already", "done"} -> Tell("OK", None)
    [] r.kind \in {"refused", "blank"} -> Blame("FAILED")
    [] OTHER -> Internal

HertzCancels(r) ==
  CASE RequestFails(r) -> Blame(None)
    [] r.kind \in {"already", "done"} -> Tell("OK", None)
    [] r.kind \in {"refused", "blank"} -> Blame("FAILED")
    [] OTHER -> Internal

HertzModifies(r) ==
  CASE RequestFails(r) \/ r.kind = "refused" -> Blame(None)
    [] r.kind = "blank" -> Tell("FAILED", None)
    [] r.kind = "done" -> Tell("OK", r.ref)
    [] OTHER -> Internal

ProfitMaxBooks(r) ==
  IF r.kind = "fault" THEN Blame("FAILED") ELSE HertzBooks(r)

ProfitMaxCancels(r) ==
  IF r.kind = "fault" THEN Blame(None) ELSE HertzCancels(r)

\* Any answer with a confirmation id counts, whatever state it reports.
ProfitMaxStatus(r) ==
  CASE RequestFails(r) \/ r.kind \in {"fault", "refused"} -> Blame("FAILED")
    [] r.kind = "blank" -> Tell("FAILED", None)
    [] r.kind = "done" -> Tell("OK", r.ref)
    [] OTHER -> Internal

\* An answer without a status is a nil dereference.
BookingComStatus(r) ==
  CASE RequestFails(r) \/ r.kind = "refused" -> Blame("FAILED")
    [] r.kind = "done" -> Tell(r.status, None)
    [] OTHER -> Internal

\* The booking's own reply ends the call, or gives the reference ...
BookingComGoesOn(r) == r.kind \in {"done", "blank"}
BookingComRejects(r) ==
  IF RequestFails(r) \/ r.kind = "refused" THEN Blame("FAILED") ELSE Internal

\* ... for which the status is then asked.
BookingComBooks(ref, s) ==
  LET asked == BookingComStatus(s)
  IN  IF asked = Internal THEN Internal ELSE [asked EXCEPT !.ref = ref]

BookingComCancels(r) ==
  CASE RequestFails(r) \/ r.kind = "refused" -> Blame("FAILED")
    [] r.kind = "done" -> Tell("OK", None)
    [] r.kind = "blank" -> Tell("FAILED", None)
    [] OTHER -> Internal

\* The error is returned without being put into the bucket.
AnyRentBooksQuietly(r) ==
  CASE r.kind = "done" -> Tell(r.status, r.ref)
    [] r.kind = "blank" -> Tell("FAILED", ZeroId)
    [] OTHER -> Tell("FAILED", None)

AnyRentBooks(r) ==
  CASE r.kind = "done" -> Tell(r.status, r.ref)
    [] r.kind = "blank" -> Tell("FAILED", ZeroId)
    [] OTHER -> Blame("FAILED")

AnyRentCancels(r) ==
  IF r.kind \in {"done", "blank"} THEN Tell("OK", None) ELSE Blame("FAILED")

\* Every state that is not known as pending or failed is OK.
AnyRentStatusByDefault(r) ==
  CASE r.kind = "done" -> Tell(IF r.status = "CANCELLED" THEN "OK" ELSE r.status, None)
    [] r.kind = "blank" -> Tell("FAILED", None)
    [] OTHER -> Blame("FAILED")

AnyRentStatus(r) ==
  CASE r.kind = "done" -> Tell(r.status, None)
    [] r.kind = "blank" -> Tell("FAILED", None)
    [] OTHER -> Blame("FAILED")

RentlyBooks(r) ==
  CASE r.kind = "done" -> Tell(r.status, r.ref)
    [] r.kind = "blank" -> Tell("FAILED", None)
    [] OTHER -> Blame("FAILED")

\* Only the code is looked at.
RentlyCancels(r) == IF RequestFails(r) THEN Blame("FAILED") ELSE Tell("OK", None)

-----------------------------------------------------------------------------
Books(platform, r) ==
  CASE platform = "hertz" -> HertzBooks(r)
    [] platform = "profitmaxdht" -> ProfitMaxBooks(r)
    [] platform = "bookingcom" -> BookingComRejects(r)
    [] platform = "anyrent" -> AnyRentBooks(r)
    [] platform = "rently" -> RentlyBooks(r)

Cancels(platform, r) ==
  CASE platform = "hertz" -> HertzCancels(r)
    [] platform = "profitmaxdht" -> ProfitMaxCancels(r)
    [] platform = "bookingcom" -> BookingComCancels(r)
    [] platform = "anyrent" -> AnyRentCancels(r)
    [] platform = "rently" -> RentlyCancels(r)

Statuses(platform, r) ==
  CASE platform = "profitmaxdht" -> ProfitMaxStatus(r)
    [] platform = "bookingcom" -> BookingComStatus(r)
    [] platform = "anyrent" -> AnyRentStatus(r)

\* The answer of an operation to a reply that ends it.
AnswerOf(platform, op, r) ==
  CASE op = "booking" -> Books(platform, r)
    [] op = "cancel" -> Cancels(platform, r)
    [] op = "status" -> Statuses(platform, r)
    [] op = "modify" -> HertzModifies(r)
=============================================================================
