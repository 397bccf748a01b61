----------------------- MODULE SupplierBookingsProofs -----------------------
(***************************************************************************)
(* Proofs about SupplierBookings for any calls, bookings and platform.     *)
(***************************************************************************)
EXTENDS SupplierBookings, TLAPS

\* The bookings the supplier has made for a call.
Made(c) == {b \in Booking : madeBy[b] = c}

\* Which handler is at which point, and which calls are on the wire.
Handlers(c) ==
  /\ pc[c] = "idle" <=> op[c] = "none"
  /\ pc[c] # "idle" => op[c] \in Offers(platform)
  /\ op[c] \in {"cancel", "status", "modify"} => target[c] \in Booking
  /\ pc[c] \in {"askstatus", "waitstatus"} => op[c] = "booking" /\ platform = "bookingcom"
  /\ pc[c] \in {"token", "card"} => op[c] = "booking"
  /\ pc[c] = "auth" => platform \in {"anyrent", "rently"}
  /\ answer[c] # None => pc[c] = "done"
  /\ pc[c] \notin Waiting \cup {"done"} => wire[c] = Silent
  /\ wire[c].kind \in Kind => pc[c] \in Waiting
  /\ wire[c].kind \in Operation \ {"status"} => wire[c].kind = op[c] /\ pc[c] # "waitstatus"
  /\ wire[c].kind = "status" => op[c] \in {"status", "booking"}
  /\ pc[c] = "wait" => wire[c].kind \in {op[c]} \cup Kind

\* A booking belongs to the call that the supplier made it for, and a call has one
\* at most: its reference is on the wire, with the handler, or in the answer.
Bookings(c) ==
  /\ Made(c) # {} => op[c] = "booking" /\ pc[c] \in Waiting \cup {"askstatus", "done"}
  /\ wire[c].kind = "booking" => Made(c) = {}
  /\ wire[c].kind = "blank" => wire[c].ref \notin Booking
  /\ op[c] = "booking" /\ pc[c] = "wait" =>
       IF wire[c].kind = "done" THEN wire[c].ref \in Booking /\ Made(c) = {wire[c].ref}
       ELSE Made(c) = {}
  /\ pc[c] \in {"askstatus", "waitstatus"} =>
       Made(c) = {learned[c]} \cap Booking
  /\ pc[c] = "waitstatus" /\ wire[c].kind = "done" => learned[c] \in Booking
  /\ op[c] = "booking" /\ pc[c] = "done" =>
       /\ wire[c].kind = "booking" => answer[c].errors
       /\ answer[c].status = "OK" => answer[c].ref \in Made(c)
       /\ answer[c].errors \/ \A b \in Made(c) : answer[c].ref = b

\* A confirmation, or the word that a booking is cancelled already, is true.
Confirmations(c) ==
  /\ op[c] = "cancel" =>
       /\ wire[c].kind \in {"done", "already"} => held[target[c]] = "cancelled"
       /\ platform = "anyrent" => wire[c].kind # "blank"
       /\ platform = "rently" => wire[c].kind \in {"cancel", "silent", "badcode", "done"}
       /\ Told(c, "cancel", "OK") => held[target[c]] = "cancelled"
  /\ op[c] = "modify" =>
       /\ wire[c].kind = "done" => target[c] \in modified
       /\ Told(c, "modify", "OK") => target[c] \in modified

\* What a call can hear of a booking that was cancelled when it began.
Repetitions(c) ==
  c \in wasGone =>
    /\ target[c] \in Booking /\ held[target[c]] = "cancelled" /\ pc[c] # "idle" /\ op[c] # "booking"
    /\ op[c] = "cancel" /\ platform \in {"hertz", "profitmaxdht"} =>
         wire[c].kind \in {"cancel", "silent", "already"} /\ ~Told(c, "cancel", "FAILED")
    /\ op[c] = "status" /\ platform \in {"bookingcom", "anyrent"} =>
         wire[c].status # "OK" /\ ~Told(c, "status", "OK")

IInv ==
  /\ TypeOK
  /\ \A b \in Booking : held[b] = "unmade" => madeBy[b] = None
  /\ \A c \in Call : Handlers(c) /\ Bookings(c) /\ Confirmations(c) /\ Repetitions(c)
-----------------------------------------------------------------------------
\* What the platforms make of replies.

LEMMA AnswersAreRecords ==
  ASSUME NEW s \in Status \cup {None}, NEW x \in Booking \cup {None, ZeroId}
  PROVE  Tell(s, x) \in Answer /\ Blame(s) \in Answer /\ Internal \in Answer
BY DEF Tell, Blame, Internal, Answer

LEMMA NoneIsNoStatus == None # "OK" /\ None # "FAILED"
BY NoneIsFresh DEF Status

\* A booking is answered OK only when it is confirmed, and by its reference; an
\* answer that is lost or does not parse is an error.
LEMMA BooksIsTrue ==
  ASSUME NEW p \in Platform, NEW r \in Reply
  PROVE  /\ Books(p, r) \in Answer
         /\ Books(p, r).status = "OK" => r.kind = "done"
         /\ r.kind = "done" /\ p # "bookingcom" => Books(p, r).ref = r.ref
         /\ r.kind \in {"lost", "garbled"} => Books(p, r).errors
<1> USE NoneIsNoStatus DEF RequestFails
<1>0. /\ r.status \in Status \cup {None} /\ r.ref \in Booking \cup {None, ZeroId}
      /\ {"OK", "FAILED"} \subseteq Status
  BY DEF Reply, Status
<1>2. CASE p = "hertz"
  <2>1. HertzBooks(r) \in Answer
    BY <1>0, AnswersAreRecords DEF HertzBooks
  <2>2. QED
    BY <1>2, <2>1 DEF Books, HertzBooks, Tell, Blame, Internal
<1>3. CASE p = "profitmaxdht"
  <2>1. ProfitMaxBooks(r) \in Answer
    BY <1>0, AnswersAreRecords DEF ProfitMaxBooks, HertzBooks
  <2>2. QED
    BY <1>3, <2>1 DEF Books, ProfitMaxBooks, HertzBooks, Tell, Blame, Internal
<1>4. CASE p = "bookingcom"
  <2>1. BookingComRejects(r) \in Answer
    BY <1>0, AnswersAreRecords DEF BookingComRejects
  <2>2. QED
    BY <1>4, <2>1 DEF Books, BookingComRejects, Tell, Blame, Internal
<1>5. CASE p = "anyrent"
  <2>1. AnyRentBooks(r) \in Answer
    BY <1>0, AnswersAreRecords DEF AnyRentBooks
  <2>2. QED
    BY <1>5, <2>1 DEF Books, AnyRentBooks, Tell, Blame, Internal
<1>6. CASE p = "rently"
  <2>1. RentlyBooks(r) \in Answer
    BY <1>0, AnswersAreRecords DEF RentlyBooks
  <2>2. QED
    BY <1>6, <2>1 DEF Books, RentlyBooks, Tell, Blame, Internal
<1>7. QED
  BY <1>2, <1>3, <1>4, <1>5, <1>6 DEF Platform

\* Booking.com's answer to a booking is that to the status asked afterwards, with
\* the reference in the first reply.
LEMMA BookingComBooksIsTrue ==
  ASSUME NEW ref \in Booking \cup {None}, NEW r \in Reply
  PROVE  /\ BookingComBooks(ref, r) \in Answer
         /\ BookingComBooks(ref, r).status = "OK" =>
              r.kind = "done" /\ BookingComBooks(ref, r).ref = ref
         /\ BookingComBooks(ref, r).errors \/ BookingComBooks(ref, r).ref = ref
         /\ r.kind \in {"lost", "garbled"} => BookingComBooks(ref, r).errors
<1> USE NoneIsNoStatus DEF RequestFails
<1>0. /\ r.status \in Status \cup {None} /\ r.ref \in Booking \cup {None, ZeroId}
      /\ {"OK", "FAILED"} \subseteq Status
  BY DEF Reply, Status
<1>1. BookingComStatus(r) \in Answer
  BY <1>0, AnswersAreRecords DEF BookingComStatus
<1>2. /\ BookingComStatus(r).status = "OK" => r.kind = "done"
      /\ r.kind \in {"lost", "garbled"} => BookingComStatus(r).errors
  BY DEF BookingComStatus, Tell, Blame, Internal
<1>3. CASE BookingComStatus(r) = Internal
  BY <1>1, <1>3 DEF BookingComBooks, Internal
<1>4. CASE BookingComStatus(r) # Internal
  BY <1>1, <1>2, <1>4 DEF BookingComBooks, Answer
<1>5. QED
  BY <1>3, <1>4

\* A cancellation is answered OK when the supplier says that it is done, or was
\* already, and by the two JSON platforms also when it says nothing.
LEMMA CancelsIsTrue ==
  ASSUME NEW p \in Platform, NEW r \in Reply
  PROVE  /\ Cancels(p, r) \in Answer
         /\ Cancels(p, r).status = "OK" =>
              \/ r.kind \in {"done", "already"}
              \/ p = "anyrent" /\ r.kind = "blank"
              \/ p = "rently" /\ r.kind \notin {"lost", "badcode"}
         /\ p \in {"hertz", "profitmaxdht"} /\ r.kind \in {"already", "garbled", "lost"} =>
              Cancels(p, r).status # "FAILED"
         /\ r.kind = "lost" => Cancels(p, r).errors
<1> USE NoneIsNoStatus DEF RequestFails
<1>0. /\ r.status \in Status \cup {None} /\ r.ref \in Booking \cup {None, ZeroId}
      /\ {"OK", "FAILED"} \subseteq Status
  BY DEF Reply, Status
<1>2. CASE p = "hertz"
  <2>1. HertzCancels(r) \in Answer
    BY <1>0, AnswersAreRecords DEF HertzCancels
  <2>2. QED
    BY <1>2, <2>1 DEF Cancels, HertzCancels, Tell, Blame, Internal
<1>3. CASE p = "profitmaxdht"
  <2>1. ProfitMaxCancels(r) \in Answer
    BY <1>0, AnswersAreRecords DEF ProfitMaxCancels, HertzCancels
  <2>2. QED
    BY <1>3, <2>1 DEF Cancels, ProfitMaxCancels, HertzCancels, Tell, Blame, Internal
<1>4. CASE p = "bookingcom"
  <2>1. BookingComCancels(r) \in Answer
    BY <1>0, AnswersAreRecords DEF BookingComCancels
  <2>2. QED
    BY <1>4, <2>1 DEF Cancels, BookingComCancels, Tell, Blame, Internal
<1>5. CASE p = "anyrent"
  <2>1. AnyRentCancels(r) \in Answer
    BY <1>0, AnswersAreRecords DEF AnyRentCancels
  <2>2. QED
    BY <1>5, <2>1 DEF Cancels, AnyRentCancels, Tell, Blame, Internal
<1>6. CASE p = "rently"
  <2>1. RentlyCancels(r) \in Answer
    BY <1>0, AnswersAreRecords DEF RentlyCancels
  <2>2. QED
    BY <1>6, <2>1 DEF Cancels, RentlyCancels, Tell, Blame, Internal
<1>7. QED
  BY <1>2, <1>3, <1>4, <1>5, <1>6 DEF Platform

LEMMA StatusesIsTrue ==
  ASSUME NEW p \in {"profitmaxdht", "bookingcom", "anyrent"}, NEW r \in Reply
  PROVE  /\ Statuses(p, r) \in Answer
         /\ p # "profitmaxdht" /\ Statuses(p, r).status = "OK" =>
              r.kind = "done" /\ r.status = "OK"
<1> USE NoneIsNoStatus DEF RequestFails
<1>0. /\ r.status \in Status \cup {None} /\ r.ref \in Booking \cup {None, ZeroId}
      /\ {"OK", "FAILED"} \subseteq Status
  BY DEF Reply, Status
<1>1. CASE p = "profitmaxdht"
  <2>1. ProfitMaxStatus(r) \in Answer
    BY <1>0, AnswersAreRecords DEF ProfitMaxStatus
  <2>2. QED
    BY <1>1, <2>1 DEF Statuses, Tell, Blame, Internal
<1>2. CASE p = "bookingcom"
  <2>1. BookingComStatus(r) \in Answer
    BY <1>0, AnswersAreRecords DEF BookingComStatus
  <2>2. QED
    BY <1>2, <2>1 DEF Statuses, BookingComStatus, Tell, Blame, Internal
<1>3. CASE p = "anyrent"
  <2>1. AnyRentStatus(r) \in Answer
    BY <1>0, AnswersAreRecords DEF AnyRentStatus
  <2>2. QED
    BY <1>3, <2>1 DEF Statuses, AnyRentStatus, Tell, Blame, Internal
<1>4. QED
  BY <1>1, <1>2, <1>3

LEMMA ModifiesIsTrue ==
  ASSUME NEW r \in Reply
  PROVE  /\ HertzModifies(r) \in Answer
         /\ HertzModifies(r).status = "OK" => r.kind = "done"
         /\ r.kind = "lost" => HertzModifies(r).errors
<1> USE NoneIsNoStatus DEF RequestFails
<1>0. /\ r.status \in Status \cup {None} /\ r.ref \in Booking \cup {None, ZeroId}
      /\ {"OK", "FAILED"} \subseteq Status
  BY DEF Reply, Status
<1>1. HertzModifies(r) \in Answer
  BY <1>0, AnswersAreRecords DEF HertzModifies
<1>2. QED
  BY <1>1 DEF HertzModifies, Tell, Blame, Internal

-----------------------------------------------------------------------------
\* The four parts of the invariant that are about one call.
Own(c) == Handlers(c) /\ Bookings(c) /\ Confirmations(c) /\ Repetitions(c)

\* What is said of a call survives a step of another call, or of the supplier for
\* another call: cancellations and modifications are not taken back.
LEMMA Elsewhere ==
  ASSUME NEW d \in Call, Own(d), platform' = platform,
         pc'[d] = pc[d], op'[d] = op[d], target'[d] = target[d], wire'[d] = wire[d],
         learned'[d] = learned[d], answer'[d] = answer[d], Made(d)' = Made(d),
         \A b \in Booking : held[b] = "cancelled" => held'[b] = "cancelled",
         modified \subseteq modified', d \in wasGone' => d \in wasGone
  PROVE  Own(d)'
<1>1. Handlers(d)'
  BY DEF Own, Handlers
<1>2. Bookings(d)'
  BY DEF Own, Bookings, Handlers
<1>3. Confirmations(d)'
  BY DEF Own, Confirmations, Handlers, Told
<1>4. Repetitions(d)'
  BY DEF Own, Repetitions, Told
<1>5. QED
  BY <1>1, <1>2, <1>3, <1>4 DEF Own

LEMMA WireKinds ==
  ASSUME TypeOK, NEW c \in Call
  PROVE  /\ wire[c].kind \in Kind => wire[c] \in Reply
         /\ wire[c].kind \notin Kind =>
              wire[c].kind \in Operation \cup {"silent"} /\ wire[c] = Message(wire[c].kind)
<1>1. wire[c] \in Reply \cup {Message(k) : k \in Operation \cup {"silent"}}
  BY DEF TypeOK
<1>2. CASE wire[c] \in Reply
  BY <1>2 DEF Reply
<1>3. ASSUME NEW k \in Operation \cup {"silent"}, wire[c] = Message(k)
      PROVE  wire[c].kind = k /\ k \notin Kind
  BY <1>3 DEF Message, Operation, Kind
<1>4. QED
  BY <1>1, <1>2, <1>3

LEMMA MessagesAreTyped ==
  /\ \A k \in Kind : Message(k) \in Reply /\ Message(k).kind = k
  /\ \A k \in Operation \cup {"silent"} :
       Message(k) \in {Message(j) : j \in Operation \cup {"silent"}} /\ Message(k).kind = k
  /\ \A k \in Kind \cup Operation \cup {"silent"} :
       Message(k).status = None /\ Message(k).ref = None
BY DEF Message, Reply

\* The handler's answer a to what it has heard, r, is true of what the supplier has
\* done, and of what it may still do.
LEMMA HearsIsTrue ==
  ASSUME TypeOK, NEW c \in Call, Own(c), pc[c] \in Waiting, NEW r \in Reply, Hears(c, r),
         \/ r = wire[c]
         \/ r.kind = "garbled" /\ wire[c].kind \in Kind \ {"badcode"}
         \/ r.kind = "lost"
  PROVE  \E a \in Answer :
           /\ Respond(c, a)
           /\ op[c] = "booking" =>
                /\ a.status = "OK" => a.ref \in Made(c)
                /\ a.errors \/ \A b \in Made(c) : a.ref = b
                /\ r.kind = "lost" => a.errors
           /\ op[c] = "cancel" =>
                /\ a.status = "OK" => held[target[c]] = "cancelled"
                /\ c \in wasGone /\ platform \in {"hertz", "profitmaxdht"} => a.status # "FAILED"
                /\ r.kind = "lost" => a.errors
           /\ op[c] = "modify" =>
                /\ a.status = "OK" => target[c] \in modified
                /\ r.kind = "lost" => a.errors
           /\ op[c] = "status" /\ c \in wasGone /\ platform \in {"bookingcom", "anyrent"} =>
                a.status # "OK"
<1> DEFINE Fits(a) ==
       /\ op[c] = "booking" =>
            /\ a.status = "OK" => a.ref \in Made(c)
            /\ a.errors \/ \A b \in Made(c) : a.ref = b
            /\ r.kind = "lost" => a.errors
       /\ op[c] = "cancel" =>
            /\ a.status = "OK" => held[target[c]] = "cancelled"
            /\ c \in wasGone /\ platform \in {"hertz", "profitmaxdht"} => a.status # "FAILED"
            /\ r.kind = "lost" => a.errors
       /\ op[c] = "modify" =>
            /\ a.status = "OK" => target[c] \in modified
            /\ r.kind = "lost" => a.errors
       /\ op[c] = "status" /\ c \in wasGone /\ platform \in {"bookingcom", "anyrent"} =>
            a.status # "OK"
<1>1. platform \in Platform /\ learned[c] \in Booking \cup {None} /\ Made(c) \subseteq Booking
  BY DEF TypeOK, Made
<1>2. CASE pc[c] = "waitstatus"
  <2> DEFINE a == BookingComBooks(learned[c], r)
  <2>1. Respond(c, a) /\ op[c] = "booking"
    BY <1>2 DEF Hears, Own, Handlers
  <2>2. /\ a \in Answer
        /\ a.status = "OK" => r.kind = "done" /\ a.ref = learned[c]
        /\ a.errors \/ a.ref = learned[c]
        /\ r.kind = "lost" => a.errors
    BY <1>1, BookingComBooksIsTrue
  <2>3. r.kind = "done" => learned[c] \in Made(c)
    BY <1>2 DEF Own, Bookings
  <2>4. \A b \in Made(c) : learned[c] = b
    BY <1>2 DEF Own, Bookings
  <2>5. QED
    BY <2>1, <2>2, <2>3, <2>4, Zenon
<1>3. CASE pc[c] = "wait"
  <2> DEFINE a == AnswerOf(platform, op[c], r)
  <2>1. Respond(c, a)
    BY <1>3 DEF Hears
  <2>2. a \in Answer /\ Fits(a)
    <3>1. op[c] \in Offers(platform)
      BY <1>3 DEF Own, Handlers
    <3>2. CASE op[c] = "booking"
      <4>1. a = Books(platform, r)
        BY <3>2 DEF AnswerOf
      <4>2. ~(platform = "bookingcom" /\ r.kind = "done")
        BY <1>3, <3>2 DEF Hears, BookingComGoesOn
      <4>3. r.kind = "done" => Made(c) = {r.ref}
        BY <1>3, <3>2 DEF Own, Bookings
      <4>4. r.kind \in {"lost", "garbled", "done"} \/ Made(c) = {}
        BY <1>3, <3>2 DEF Own, Bookings
      <4>5. a \in Answer /\ (a.status = "OK" => a.ref \in Made(c))
        BY <1>1, <4>1, <4>2, <4>3, BooksIsTrue
      <4>6. (a.errors \/ \A b \in Made(c) : a.ref = b) /\ (r.kind = "lost" => a.errors)
        BY <1>1, <4>1, <4>2, <4>3, <4>4, BooksIsTrue
      <4>7. QED
        BY <3>2, <4>5, <4>6
    <3>3. CASE op[c] = "cancel"
      <4>1. a = Cancels(platform, r)
        BY <3>3 DEF AnswerOf
      <4>2. a \in Answer
        BY <1>1, <4>1, CancelsIsTrue
      <4>3. a.status = "OK" => held[target[c]] = "cancelled"
        <5>1. r.kind \in {"done", "already"} => held[target[c]] = "cancelled"
          BY <3>3 DEF Own, Confirmations
        <5>2. platform = "anyrent" => r.kind # "blank"
          BY <3>3 DEF Own, Confirmations
        <5>3. platform = "rently" /\ r.kind \notin {"lost", "badcode"} =>
                held[target[c]] = "cancelled"
          <6>1. r.kind \in Kind
            BY DEF Reply
          <6>2. platform = "rently" => wire[c].kind \in {"cancel", "silent", "badcode", "done"}
            BY <3>3 DEF Own, Confirmations
          <6>3. wire[c].kind = "done" => held[target[c]] = "cancelled"
            BY <3>3 DEF Own, Confirmations
          <6>4. QED
            BY <6>1, <6>2, <6>3 DEF Kind
        <5>4. QED
          BY <1>1, <4>1, <5>1, <5>2, <5>3, CancelsIsTrue
      <4>4. c \in wasGone /\ platform \in {"hertz", "profitmaxdht"} => a.status # "FAILED"
        <5>1. c \in wasGone /\ platform \in {"hertz", "profitmaxdht"} =>
                r.kind \in {"already", "garbled", "lost"}
          BY <3>3 DEF Own, Repetitions, Reply, Kind
        <5>2. QED
          BY <1>1, <4>1, <5>1, CancelsIsTrue
      <4>5. r.kind = "lost" => a.errors
        BY <1>1, <4>1, CancelsIsTrue
      <4>6. QED
        BY <3>3, <4>2, <4>3, <4>4, <4>5
    <3>4. CASE op[c] = "status"
      <4>1. a = Statuses(platform, r)
        BY <3>4 DEF AnswerOf
      <4>2. platform \in {"profitmaxdht", "bookingcom", "anyrent"}
        BY <1>1, <3>1, <3>4 DEF Offers, Platform
      <4>3. a \in Answer
        BY <4>1, <4>2, StatusesIsTrue
      <4>4. c \in wasGone /\ platform \in {"bookingcom", "anyrent"} => a.status # "OK"
        BY <3>4, <4>1, <4>2, StatusesIsTrue DEF Own, Repetitions
      <4>5. QED
        BY <3>4, <4>3, <4>4
    <3>5. CASE op[c] = "modify"
      <4>1. a = HertzModifies(r)
        BY <3>5 DEF AnswerOf
      <4>2. /\ a \in Answer /\ (r.kind = "lost" => a.errors)
            /\ a.status = "OK" => target[c] \in modified
        BY <3>5, <4>1, ModifiesIsTrue DEF Own, Confirmations
      <4>3. QED
        BY <3>5, <4>2
    <3>6. QED
      BY <3>1, <3>2, <3>3, <3>4, <3>5 DEF Offers
  <2>3. QED
    BY <2>1, <2>2
<1>4. QED
  BY <1>2, <1>3 DEF Waiting

-----------------------------------------------------------------------------
\* The handlers' steps.

\* A handler that answers a keeps the types, and tells true things if a is fit.
LEMMA RespondKeepsTypes ==
  ASSUME TypeOK, NEW c \in Call, NEW a \in Answer, Respond(c, a)
  PROVE  /\ pc' \in [Call -> {"idle", "token", "card", "auth", "done"} \cup Asking \cup Waiting]
         /\ answer' \in [Call -> Answer \cup {None}] /\ known' \subseteq Booking
         /\ pc'[c] = "done" /\ answer'[c] = a
         /\ \A d \in Call \ {c} : pc'[d] = pc[d] /\ answer'[d] = answer[d]
BY DEF TypeOK, Respond

LEMMA ArriveKeeps ==
  ASSUME IInv, NEW c \in Call, NEW o \in Operation, NEW b \in Booking \cup {None}, Arrive(c, o, b)
  PROVE  IInv'
<1>1. TypeOK'
  BY DEF IInv, Arrive, TypeOK, FirstStep, Asking, Waiting, Operation, supplier
<1>2. /\ UNCHANGED <<platform, wire, learned, answer, known, held, madeBy, modified>>
      /\ op'[c] = o /\ target'[c] = b /\ pc'[c] = FirstStep(o) /\ pc[c] = "idle"
      /\ \A d \in Call \ {c} : op'[d] = op[d] /\ target'[d] = target[d] /\ pc'[d] = pc[d]
      /\ \A d \in Call \ {c} : d \in wasGone' => d \in wasGone
      /\ o \in Offers(platform) /\ (o # "booking" => b \in Booking)
  BY DEF IInv, Arrive, TypeOK, supplier
<1>3. \A e \in Call : Made(e)' = Made(e)
  BY <1>2 DEF Made
<1>4. \A d \in Call \ {c} : Own(d)'
  BY <1>2, <1>3, Elsewhere DEF IInv, Own
<1>5. /\ FirstStep(o) \in {"token", "auth", "ask"}
      /\ FirstStep(o) = "token" => o = "booking"
      /\ FirstStep(o) = "auth" => platform \in {"anyrent", "rently"}
  BY <1>2 DEF FirstStep
<1>6. wire[c] = Silent /\ answer[c] = None /\ Made(c) = {} /\ Silent.kind = "silent"
  BY <1>2, MessagesAreTyped DEF IInv, Handlers, Bookings, Waiting, Silent
<1>7. Handlers(c)'
  BY <1>2, <1>5, <1>6 DEF Handlers, Waiting, Operation, Kind
<1>8. Bookings(c)'
  BY <1>2, <1>3, <1>5, <1>6 DEF Bookings
<1>9. Confirmations(c)'
  BY <1>2, <1>6 DEF Confirmations, Told
<1>10. Repetitions(c)'
  <2>1. c \notin wasGone
    BY <1>2 DEF IInv, Repetitions
  <2>2. c \in wasGone' => b \in Booking /\ held[b] = "cancelled"
    BY <2>1 DEF Arrive
  <2>3. c \in wasGone' => o # "booking"
    BY <2>2, NoneIsFresh DEF Arrive
  <2>4. Silent.status # "OK"
    BY MessagesAreTyped, NoneIsNoStatus DEF Silent
  <2>5. QED
    BY <1>2, <1>5, <1>6, <2>2, <2>3, <2>4 DEF Repetitions, Told
<1>11. QED
  BY <1>1, <1>2, <1>4, <1>7, <1>8, <1>9, <1>10 DEF IInv, Own

LEMMA PreparedKeeps ==
  ASSUME IInv, NEW c \in Call, Prepared(c)
  PROVE  IInv'
<1>1. TypeOK'
  BY DEF IInv, Prepared, TypeOK, Asking, Waiting, supplier
<1>2. /\ UNCHANGED <<platform, op, target, wire, learned, answer, known, held, madeBy, modified, wasGone>>
      /\ \A d \in Call \ {c} : pc'[d] = pc[d]
      /\ \/ pc[c] = "token" /\ pc'[c] = "card"
         \/ pc[c] \in {"card", "auth"} /\ pc'[c] = "ask"
  BY DEF IInv, Prepared, TypeOK, supplier
<1>3. \A e \in Call : Made(e)' = Made(e)
  BY <1>2 DEF Made
<1>4. \A d \in Call \ {c} : Own(d)'
  BY <1>2, <1>3, Elsewhere DEF IInv, Own
<1>5. Own(c)'
  BY <1>2, <1>3 DEF IInv, Own, Handlers, Bookings, Confirmations, Repetitions, Told, Waiting
<1>6. QED
  BY <1>1, <1>2, <1>4, <1>5 DEF IInv, Own

LEMMA UnpreparedKeeps ==
  ASSUME IInv, NEW c \in Call, Unprepared(c)
  PROVE  IInv'
<1>1. PICK a : /\ Respond(c, a) /\ pc[c] \in {"token", "card", "auth", "ask"}
               /\ a = Internal \/ (pc[c] = "auth" /\ a = Blame("FAILED"))
  BY Zenon DEF Unprepared
<1>2. a \in Answer /\ a.errors /\ a.status # "OK" /\ (a.status = "FAILED" => pc[c] = "auth")
  <2>1. /\ Internal \in Answer /\ Internal.errors
        /\ Internal.status # "OK" /\ Internal.status # "FAILED"
    BY NoneIsNoStatus DEF Internal, Answer
  <2>2. Blame("FAILED") \in Answer /\ Blame("FAILED").errors /\ Blame("FAILED").status # "OK"
    BY DEF Blame, Answer, Status
  <2>3. QED
    BY <1>1, <2>1, <2>2
<1>3. UNCHANGED <<platform, op, target, wire, learned, held, madeBy, modified, wasGone>>
  BY DEF Unprepared, supplier
<1>4. TypeOK'
  BY <1>1, <1>2, <1>3, RespondKeepsTypes DEF IInv, TypeOK
<1>5. /\ pc'[c] = "done" /\ answer'[c] = a
      /\ \A d \in Call \ {c} : pc'[d] = pc[d] /\ answer'[d] = answer[d]
  BY <1>1, <1>2, RespondKeepsTypes DEF IInv
<1>6. \A e \in Call : Made(e)' = Made(e)
  BY <1>3 DEF Made
<1>7. \A d \in Call \ {c} : Own(d)'
  BY <1>3, <1>5, <1>6, Elsewhere DEF IInv, Own
<1>8. wire[c] = Silent /\ Made(c) = {} /\ Silent.kind = "silent"
  BY <1>1, MessagesAreTyped DEF IInv, Handlers, Bookings, Waiting, Asking, Silent
<1>9. Handlers(c)' /\ Bookings(c)' /\ Confirmations(c)'
  BY <1>1, <1>2, <1>3, <1>5, <1>6, <1>8
     DEF IInv, Handlers, Bookings, Confirmations, Told, Waiting, Operation, Kind
<1>10. Repetitions(c)'
  BY <1>1, <1>2, <1>3, <1>5 DEF IInv, Handlers, Repetitions, Told
<1>11. QED
  BY <1>3, <1>4, <1>7, <1>9, <1>10 DEF IInv, Own

LEMMA AskKeeps ==
  ASSUME IInv, NEW c \in Call, Ask(c)
  PROVE  IInv'
<1> DEFINE k == IF pc[c] = "ask" THEN op[c] ELSE "status"
<1>1. /\ UNCHANGED <<platform, op, target, learned, answer, known, held, madeBy, modified, wasGone>>
      /\ pc[c] \in Asking /\ pc'[c] = Asked(pc[c]) /\ wire'[c] = Message(k)
      /\ \A d \in Call \ {c} : pc'[d] = pc[d] /\ wire'[d] = wire[d]
  BY DEF IInv, Ask, TypeOK, supplier
<1>2. k \in Operation /\ k \notin Kind /\ Message(k).kind = k /\ Message(k).status # "OK"
  <2>1. k \in Operation
    BY <1>1 DEF IInv, Handlers, TypeOK, Asking, Operation
  <2>2. QED
    BY <2>1, MessagesAreTyped, NoneIsNoStatus DEF Operation, Kind
<1>3. TypeOK'
  <2>1. Message(k) \in {Message(j) : j \in Operation \cup {"silent"}}
    BY <1>2
  <2>2. QED
    BY <2>1 DEF IInv, Ask, TypeOK, Asking, Waiting, Asked, supplier
<1>4. \A e \in Call : Made(e)' = Made(e)
  BY <1>1 DEF Made
<1>5. \A d \in Call \ {c} : Own(d)'
  BY <1>1, <1>4, Elsewhere DEF IInv, Own
<1>6. \/ pc[c] = "ask" /\ pc'[c] = "wait" /\ k = op[c] /\ Made(c) = {}
      \/ pc[c] = "askstatus" /\ pc'[c] = "waitstatus" /\ k = "status"
  BY <1>1 DEF IInv, Asked, Asking, Bookings, Waiting
<1>7. Handlers(c)'
  BY <1>1, <1>2, <1>6 DEF IInv, Handlers, Waiting
<1>8. Bookings(c)'
  BY <1>1, <1>2, <1>4, <1>6 DEF IInv, Handlers, Bookings, Waiting, Kind
<1>9. Confirmations(c)'
  BY <1>1, <1>2, <1>6 DEF IInv, Handlers, Confirmations, Told, Kind
<1>10. Repetitions(c)'
  BY <1>1, <1>2, <1>6 DEF IInv, Handlers, Repetitions, Told
<1>11. QED
  BY <1>1, <1>3, <1>5, <1>7, <1>8, <1>9, <1>10 DEF IInv, Own

-----------------------------------------------------------------------------
\* The supplier's steps.

LEMMA DoneIs ==
  ASSUME NEW b \in Booking, NEW r \in Done(b)
  PROVE  /\ r \in Reply /\ r.kind = "done" /\ r.ref = b
         /\ held'[b] = "cancelled" => r.status # "OK"
<1>1. NameOf(b) \subseteq Status
  <2>1. CASE held'[b] = "cancelled"
    BY <2>1 DEF NameOf, Status
  <2>2. CASE held'[b] # "cancelled"
    BY <2>2 DEF NameOf, Status
  <2>3. QED
    BY <2>1, <2>2
<1>2. held'[b] = "cancelled" => "OK" \notin NameOf(b)
  BY DEF NameOf
<1>3. r.kind = "done" /\ r.ref = b /\ r.status \in NameOf(b) /\ r \in Reply
  BY <1>1 DEF Done, Reply, Kind
<1>4. QED
  BY <1>2, <1>3

LEMMA BareIs ==
  ASSUME NEW kinds \in SUBSET Kind, NEW r \in Bare(kinds)
  PROVE  r \in Reply /\ r.kind \in kinds /\ r.status # "OK" /\ r.ref \notin Booking
BY MessagesAreTyped, NoneIsNoStatus, NoneIsFresh DEF Bare

LEMMA RefusalsAre ==
  ASSUME NEW o \in Operation, NEW r \in Refusals(o)
  PROVE  /\ r \in Reply /\ r.status # "OK" /\ r.ref \notin Booking
         /\ r.kind \in {"badcode", "fault", "refused", "blank"}
         /\ o = "cancel" /\ platform = "anyrent" => r.kind # "blank"
         /\ o = "cancel" /\ platform = "rently" => r.kind = "badcode"
<1> DEFINE kinds == {"badcode"} \cup
       (IF platform = "profitmaxdht" THEN {"fault"} ELSE {}) \cup
       (IF platform = "rently" THEN {} ELSE {"refused"}) \cup
       (IF platform \in {"anyrent", "rently"} /\ o = "cancel" THEN {} ELSE {"blank"})
<1>1. kinds \in SUBSET Kind /\ r \in Bare(kinds)
  BY DEF Refusals, Kind
<1>2. r \in Reply /\ r.kind \in kinds /\ r.status # "OK" /\ r.ref \notin Booking
  BY <1>1, BareIs
<1>3. QED
  BY <1>2

\* The supplier has answered the request of c.  The handler is where it was, and
\* gets the reply r unless it has ended.
Replied(c, r) ==
  /\ Untouched
  /\ wire[c].kind \in Operation
  /\ r \in Reply
  /\ wire'[c] = IF pc[c] \in Waiting THEN r ELSE Silent
  /\ \A d \in Call \ {c} : wire'[d] = wire[d]
  /\ wire' \in [Call -> Reply \cup {Message(k) : k \in Operation \cup {"silent"}}]

LEMMA RepliesAre ==
  ASSUME TypeOK, NEW c \in Call, wire[c].kind \in Operation, NEW R \in SUBSET Reply,
         Replies(c, R), Untouched
  PROVE  \E r \in R : Replied(c, r)
<1>1. PICK r \in R : wire' = [wire EXCEPT ![c] = IF pc[c] \in Waiting THEN r ELSE Silent]
  BY DEF Replies
<1>2. Silent \in {Message(k) : k \in Operation \cup {"silent"}}
  BY DEF Silent
<1>3. QED
  BY <1>1, <1>2 DEF Replied, TypeOK

\* What a reply leaves of the first part of the invariant, and where it can find
\* the handler.
LEMMA RepliedKeeps ==
  ASSUME NEW c \in Call, Handlers(c), NEW r \in Reply, Replied(c, r)
  PROVE  /\ Handlers(c)'
         /\ pc[c] \in Waiting \cup {"done"}
         /\ pc[c] = "wait" => wire[c].kind = op[c] /\ wire'[c] = r
         /\ pc[c] = "waitstatus" => wire[c].kind = "status" /\ wire'[c] = r
         /\ pc[c] = "done" => wire'[c] = Silent
         /\ Silent.kind = "silent" /\ Silent.status # "OK" /\ r.kind \in Kind
<1>1. /\ UNCHANGED <<platform, pc, op, target, learned, answer, known, wasGone>>
      /\ wire[c].kind \in Operation /\ wire[c].kind \notin Kind
      /\ wire'[c] = IF pc[c] \in Waiting THEN r ELSE Silent
  BY DEF Replied, Untouched, Operation, Kind
<1>2. r.kind \in Kind /\ Silent.kind = "silent" /\ Silent.status # "OK"
  BY MessagesAreTyped, NoneIsNoStatus DEF Reply, Silent
<1>3. pc[c] \in Waiting \cup {"done"}
  BY <1>1, <1>2 DEF Handlers, Operation
<1>4. /\ pc[c] = "wait" => wire[c].kind = op[c]
      /\ pc[c] = "waitstatus" => wire[c].kind = "status"
  BY <1>1 DEF Handlers
<1>5. Handlers(c)'
  BY <1>1, <1>2, <1>3 DEF Handlers, Waiting, Operation, Kind
<1>6. QED
  BY <1>1, <1>2, <1>3, <1>4, <1>5 DEF Waiting

LEMMA SupplierBooksKeeps ==
  ASSUME IInv, NEW c \in Call, NEW b \in Booking, SupplierBooks(c, b)
  PROVE  IInv'
<1>1. PICK r \in Done(b) : Replied(c, r)
  BY DoneIs, RepliesAre DEF IInv, SupplierBooks, Receives, Operation
<1>2. r \in Reply /\ r.kind = "done" /\ r.ref = b
  BY DoneIs
<1>3. /\ UNCHANGED <<platform, pc, op, target, learned, answer, known, wasGone, modified>>
      /\ \A d \in Call \ {c} : wire'[d] = wire[d]
  BY <1>1 DEF Replied, Untouched, SupplierBooks
<1>4. TypeOK'
  BY <1>1 DEF IInv, TypeOK, SupplierBooks, Untouched, Replied
<1>5. held[b] = "unmade" /\ madeBy[b] = None /\ wire[c].kind = "booking" /\ op[c] = "booking"
  BY DEF IInv, SupplierBooks, Receives, Handlers, Operation
<1>6. /\ held' = [held EXCEPT ![b] = "live"] /\ held \in [Booking -> {"unmade", "live", "cancelled"}]
      /\ madeBy' = [madeBy EXCEPT ![b] = c] /\ madeBy \in [Booking -> Call \cup {None}]
  BY DEF IInv, TypeOK, SupplierBooks
<1>7. \A x \in Booking : held'[x] = "unmade" => madeBy'[x] = None
  BY <1>6 DEF IInv
<1>8. Made(c)' = {b} /\ \A d \in Call \ {c} : Made(d)' = Made(d)
  <2>1. Made(c) = {}
    BY <1>5 DEF IInv, Bookings
  <2>2. QED
    BY <1>5, <1>6, <2>1, NoneIsFresh DEF Made
<1>9. \A x \in Booking : held[x] = "cancelled" => held'[x] = "cancelled"
  BY <1>5, <1>6
<1>10. \A d \in Call \ {c} : Own(d)'
  BY <1>3, <1>8, <1>9, Elsewhere DEF IInv, Own
<1>11. Handlers(c)' /\ pc[c] \in {"wait", "done"}
  BY <1>1, <1>2, <1>5, RepliedKeeps DEF IInv, Waiting
<1>12. Bookings(c)'
  <2>1. CASE pc[c] = "wait"
    <3>1. wire'[c] = r
      BY <1>1, <1>2, <2>1, RepliedKeeps DEF IInv
    <3>2. QED
      BY <1>2, <1>3, <1>5, <1>8, <2>1, <3>1 DEF Bookings, Waiting
  <2>2. CASE pc[c] = "done"
    <3>1. wire'[c].kind = "silent"
      BY <1>1, <1>2, <2>2, RepliedKeeps DEF IInv
    <3>2. answer[c].errors /\ (answer[c].status = "OK" => answer[c].ref \in Made(c)) /\ Made(c) = {}
      BY <1>5, <2>2 DEF IInv, Bookings
    <3>3. QED
      BY <1>3, <1>5, <1>8, <2>2, <3>1, <3>2 DEF Bookings
  <2>3. QED
    BY <1>11, <2>1, <2>2
<1>13. Confirmations(c)' /\ Repetitions(c)'
  BY <1>3, <1>5 DEF IInv, Confirmations, Repetitions
<1>14. QED
  BY <1>4, <1>7, <1>10, <1>11, <1>12, <1>13 DEF IInv, Own

LEMMA SupplierCancelsKeeps ==
  ASSUME IInv, NEW c \in Call, SupplierCancels(c)
  PROVE  IInv'
<1>1. PICK r \in Bare({"done"}) : Replied(c, r)
  <2>1. Bare({"done"}) \in SUBSET Reply
    BY BareIs DEF Kind
  <2>2. QED
    BY <2>1, RepliesAre DEF IInv, SupplierCancels, Receives, Operation
<1>2. r \in Reply /\ r.kind = "done"
  BY BareIs DEF Kind
<1>3. /\ UNCHANGED <<platform, pc, op, target, learned, answer, known, wasGone, modified, madeBy>>
      /\ \A d \in Call \ {c} : wire'[d] = wire[d]
  BY <1>1 DEF Replied, Untouched, SupplierCancels
<1>4. wire[c].kind = "cancel" /\ op[c] = "cancel" /\ target[c] \in Booking /\ held[target[c]] = "live"
  BY DEF IInv, SupplierCancels, Receives, Handlers, Operation
<1>5. TypeOK' /\ \A x \in Booking : held'[x] = "unmade" => madeBy'[x] = None
  BY <1>1, <1>3, <1>4 DEF IInv, TypeOK, SupplierCancels, Replied
<1>6. /\ \A x \in Booking : held[x] = "cancelled" => held'[x] = "cancelled"
      /\ held'[target[c]] = "cancelled"
  BY <1>4 DEF IInv, TypeOK, SupplierCancels
<1>7. \A e \in Call : Made(e)' = Made(e)
  BY <1>3 DEF Made
<1>8. \A d \in Call \ {c} : Own(d)'
  BY <1>3, <1>6, <1>7, Elsewhere DEF IInv, Own
<1>9. Handlers(c)' /\ pc[c] \in {"wait", "done"} /\ wire'[c].kind \in {"done", "silent"}
  BY <1>1, <1>2, <1>4, RepliedKeeps DEF IInv, Waiting
<1>10. Bookings(c)' /\ Confirmations(c)' /\ Repetitions(c)'
  BY <1>3, <1>4, <1>6, <1>7, <1>9 DEF IInv, Bookings, Confirmations, Repetitions
<1>11. QED
  BY <1>5, <1>8, <1>9, <1>10 DEF IInv, Own

LEMMA SupplierModifiesKeeps ==
  ASSUME IInv, NEW c \in Call, SupplierModifies(c)
  PROVE  IInv'
<1> DEFINE R == [kind : {"done"}, ref : {target[c]}, status : {None}]
<1>1. wire[c].kind = "modify" /\ op[c] = "modify" /\ target[c] \in Booking
  BY DEF IInv, SupplierModifies, Receives, Handlers, Operation
<1>2. PICK r \in R : Replied(c, r)
  <2>1. R \in SUBSET Reply
    BY <1>1 DEF Reply, Kind
  <2>2. QED
    BY <1>1, <2>1, RepliesAre DEF IInv, SupplierModifies, Operation
<1>3. r \in Reply /\ r.kind = "done"
  BY <1>1 DEF Reply, Kind
<1>4. /\ UNCHANGED <<platform, pc, op, target, learned, answer, known, wasGone, held, madeBy>>
      /\ \A d \in Call \ {c} : wire'[d] = wire[d]
      /\ modified' = modified \cup {target[c]}
  BY <1>2 DEF Replied, Untouched, SupplierModifies
<1>5. TypeOK' /\ \A x \in Booking : held'[x] = "unmade" => madeBy'[x] = None
  BY <1>1, <1>2, <1>4 DEF IInv, TypeOK, Replied
<1>6. \A e \in Call : Made(e)' = Made(e)
  BY <1>4 DEF Made
<1>7. \A d \in Call \ {c} : Own(d)'
  BY <1>4, <1>6, Elsewhere DEF IInv, Own
<1>8. Handlers(c)' /\ pc[c] \in {"wait", "done"} /\ wire'[c].kind \in {"done", "silent"}
  BY <1>1, <1>2, <1>3, RepliedKeeps DEF IInv, Waiting
<1>9. Bookings(c)' /\ Confirmations(c)' /\ Repetitions(c)'
  BY <1>1, <1>4, <1>6, <1>8 DEF IInv, Bookings, Confirmations, Repetitions, Told
<1>10. QED
  BY <1>5, <1>7, <1>8, <1>9 DEF IInv, Own

LEMMA SupplierReportsKeeps ==
  ASSUME IInv, NEW c \in Call, SupplierReports(c)
  PROVE  IInv'
<1>1. /\ wire[c].kind = "status" /\ op[c] \in {"status", "booking"}
      /\ op[c] = "status" => target[c] \in Booking
      /\ StatusOf(c) # None /\ learned[c] \in Booking \cup {None}
  BY DEF IInv, TypeOK, SupplierReports, Receives, Handlers
<1>2. StatusOf(c) \in Booking
  BY <1>1 DEF StatusOf
<1>3. PICK r \in Done(StatusOf(c)) : Replied(c, r)
  BY <1>1, <1>2, DoneIs, RepliesAre DEF IInv, SupplierReports, Operation
<1>4. /\ r \in Reply /\ r.kind = "done"
      /\ held'[StatusOf(c)] = "cancelled" => r.status # "OK"
  BY <1>2, DoneIs
<1>5. /\ UNCHANGED <<platform, pc, op, target, learned, answer, known, wasGone, held, madeBy, modified>>
      /\ \A d \in Call \ {c} : wire'[d] = wire[d]
  BY <1>3 DEF Replied, Untouched, SupplierReports, supplier
<1>6. TypeOK' /\ \A x \in Booking : held'[x] = "unmade" => madeBy'[x] = None
  BY <1>3, <1>5 DEF IInv, TypeOK, Replied
<1>7. \A e \in Call : Made(e)' = Made(e)
  BY <1>5 DEF Made
<1>8. \A d \in Call \ {c} : Own(d)'
  BY <1>5, <1>7, Elsewhere DEF IInv, Own
<1>9. Handlers(c)'
  BY <1>3, <1>4, RepliedKeeps DEF IInv
<1>10. /\ pc[c] = "wait" => op[c] = "status"
       /\ pc[c] = "waitstatus" => op[c] = "booking"
       /\ pc[c] \in {"wait", "waitstatus", "done"}
       /\ wire'[c] \in {r, Silent} /\ wire'[c].kind \in {"done", "silent"} /\ Silent.status # "OK"
  <2>1. /\ pc[c] \in Waiting \cup {"done"}
        /\ pc[c] = "wait" => wire[c].kind = op[c] /\ wire'[c] = r
        /\ pc[c] = "waitstatus" => wire'[c] = r
        /\ pc[c] = "done" => wire'[c] = Silent
        /\ Silent.kind = "silent" /\ Silent.status # "OK"
    BY <1>3, <1>4, RepliedKeeps DEF IInv
  <2>2. pc[c] = "waitstatus" => op[c] = "booking"
    BY DEF IInv, Handlers
  <2>3. QED
    BY <1>1, <1>4, <2>1, <2>2 DEF Waiting
<1>11. Bookings(c)'
  <2>1. op[c] = "booking" => learned[c] \in Booking
    BY <1>2 DEF StatusOf
  <2>2. QED
    BY <1>5, <1>7, <1>10, <2>1 DEF IInv, Bookings
<1>12. Confirmations(c)'
  BY <1>1, <1>5 DEF Confirmations
<1>13. Repetitions(c)'
  <2>1. op[c] = "status" /\ c \in wasGone => r.status # "OK"
    BY <1>4, <1>5 DEF IInv, Repetitions, StatusOf
  <2>2. QED
    BY <1>1, <1>5, <1>10, <2>1 DEF IInv, Repetitions, Told
<1>14. QED
  BY <1>6, <1>8, <1>9, <1>11, <1>12, <1>13 DEF IInv, Own

LEMMA SupplierRefusesKeeps ==
  ASSUME IInv, NEW c \in Call, SupplierRefuses(c)
  PROVE  IInv'
<1> DEFINE gone == wire[c].kind = "cancel" /\ held[target[c]] = "cancelled"
           R == IF gone
                THEN IF platform \in {"hertz", "profitmaxdht"} THEN Bare({"already"})
                     ELSE Refusals("cancel") \cup Bare({"done"})
                ELSE Refusals(wire[c].kind)
<1>1. wire[c].kind \in Operation /\ Replies(c, R) /\ Untouched /\ UNCHANGED supplier
  BY DEF SupplierRefuses
<1>2. ASSUME NEW r \in R
      PROVE  /\ r \in Reply /\ r.status # "OK" /\ r.ref \notin Booking
             /\ r.kind \in {"badcode", "fault", "refused", "blank"} \/ (gone /\ r.kind \in {"already", "done"})
             /\ wire[c].kind = "cancel" =>
                  /\ platform = "anyrent" => r.kind # "blank"
                  /\ platform = "rently" => r.kind \in {"badcode", "done"}
                  /\ gone /\ platform \in {"hertz", "profitmaxdht"} => r.kind = "already"
  <2>1. CASE r \in Bare({"already"}) /\ gone /\ platform \in {"hertz", "profitmaxdht"}
    BY <2>1, BareIs DEF Kind
  <2>2. CASE r \in Bare({"done"}) /\ gone /\ platform \notin {"hertz", "profitmaxdht"}
    BY <2>2, BareIs DEF Kind
  <2>3. CASE r \in Refusals(wire[c].kind) /\ ~(gone /\ platform \in {"hertz", "profitmaxdht"})
    BY <1>1, <2>3, RefusalsAre
  <2>4. QED
    BY <1>2, <2>1, <2>2, <2>3
<1>3. PICK r \in R : Replied(c, r)
  BY <1>1, <1>2, RepliesAre DEF IInv
<1>4. /\ UNCHANGED <<platform, pc, op, target, learned, answer, known, wasGone, held, madeBy, modified>>
      /\ \A d \in Call \ {c} : wire'[d] = wire[d]
  BY <1>1, <1>3 DEF Replied, Untouched, supplier
<1>5. TypeOK' /\ \A x \in Booking : held'[x] = "unmade" => madeBy'[x] = None
  BY <1>3, <1>4 DEF IInv, TypeOK, Replied
<1>6. \A e \in Call : Made(e)' = Made(e)
  BY <1>4 DEF Made
<1>7. \A d \in Call \ {c} : Own(d)'
  BY <1>4, <1>6, Elsewhere DEF IInv, Own
<1>8. /\ Handlers(c)' /\ pc[c] \in Waiting \cup {"done"}
      /\ pc[c] = "wait" => wire[c].kind = op[c] /\ wire'[c] = r
      /\ pc[c] = "waitstatus" => wire[c].kind = "status" /\ wire'[c] = r
      /\ pc[c] = "done" => wire'[c] = Silent
      /\ Silent.kind = "silent" /\ Silent.status # "OK" /\ r.kind \in Kind
  BY <1>2, <1>3, RepliedKeeps DEF IInv
<1>9. Bookings(c)'
  <2>1. CASE pc[c] = "wait"
    <3>1. op[c] = "booking" => wire[c].kind = "booking" /\ r.kind # "done" /\ Made(c) = {}
      BY <1>2, <1>8, <2>1 DEF IInv, Bookings
    <3>2. QED
      BY <1>2, <1>4, <1>6, <1>8, <2>1, <3>1 DEF IInv, Bookings, Kind
  <2>2. CASE pc[c] = "waitstatus"
    <3>1. r.kind # "done" /\ r.kind # "booking" /\ op[c] = "booking"
      BY <1>2, <1>8, <2>2 DEF IInv, Handlers, Kind
    <3>2. QED
      BY <1>2, <1>4, <1>6, <1>8, <2>2, <3>1 DEF IInv, Bookings
  <2>3. CASE pc[c] = "done"
    BY <1>4, <1>6, <1>8, <2>3 DEF IInv, Bookings
  <2>4. QED
    BY <1>8, <2>1, <2>2, <2>3 DEF Waiting
<1>10. wire'[c].kind = "silent" \/ (wire'[c] = r /\ (op[c] # "booking" => wire[c].kind = op[c]))
  BY <1>8 DEF IInv, Handlers, Waiting
<1>11. Confirmations(c)'
  BY <1>2, <1>4, <1>10 DEF IInv, Confirmations, Told
<1>12. Repetitions(c)'
  <2>1. wire'[c].status # "OK"
    BY <1>2, <1>8 DEF Waiting
  <2>2. op[c] = "cancel" /\ c \in wasGone /\ platform \in {"hertz", "profitmaxdht"} =>
          wire'[c].kind \in {"silent", "already"}
    BY <1>2, <1>10 DEF IInv, Repetitions
  <2>3. QED
    BY <1>4, <2>1, <2>2 DEF IInv, Repetitions, Told
<1>13. QED
  BY <1>5, <1>7, <1>8, <1>9, <1>11, <1>12 DEF IInv, Own

-----------------------------------------------------------------------------
\* The handlers' steps that read a reply, or stop waiting for one.

\* A handler that has heard r ends with an answer that fits what is on the wire
\* afterwards, which is nothing or the request that nobody waits for any more.
LEMMA HearingKeeps ==
  ASSUME IInv, NEW c \in Call, pc[c] \in Waiting, NEW r \in Reply, Hears(c, r),
         \/ r = wire[c]
         \/ r.kind = "garbled" /\ wire[c].kind \in Kind \ {"badcode"}
         \/ r.kind = "lost",
         wire' = [wire EXCEPT ![c] = Silent]
           \/ (r.kind = "lost" /\ wire[c].kind \in Operation /\ wire' = wire),
         UNCHANGED <<platform, op, target, learned, supplier, wasGone>>
  PROVE  IInv'
<1>1. PICK a \in Answer :
        /\ Respond(c, a)
        /\ op[c] = "booking" =>
             /\ a.status = "OK" => a.ref \in Made(c)
             /\ a.errors \/ \A b \in Made(c) : a.ref = b
             /\ r.kind = "lost" => a.errors
        /\ op[c] = "cancel" =>
             /\ a.status = "OK" => held[target[c]] = "cancelled"
             /\ c \in wasGone /\ platform \in {"hertz", "profitmaxdht"} => a.status # "FAILED"
        /\ op[c] = "modify" /\ a.status = "OK" => target[c] \in modified
        /\ op[c] = "status" /\ c \in wasGone /\ platform \in {"bookingcom", "anyrent"} =>
             a.status # "OK"
  BY HearsIsTrue DEF IInv, Own
<1>2. /\ pc'[c] = "done" /\ answer'[c] = a
      /\ \A d \in Call \ {c} : pc'[d] = pc[d] /\ answer'[d] = answer[d]
  BY <1>1, RespondKeepsTypes DEF IInv
<1>3. /\ UNCHANGED <<held, madeBy, modified>>
      /\ \A d \in Call \ {c} : wire'[d] = wire[d]
      /\ wire'[c] = Silent \/ (r.kind = "lost" /\ wire[c].kind \in Operation /\ wire'[c] = wire[c])
  BY DEF IInv, TypeOK, supplier
<1>4. Silent.kind = "silent" /\ Silent.status # "OK"
  BY MessagesAreTyped, NoneIsNoStatus DEF Silent
<1>5. TypeOK' /\ \A b \in Booking : held'[b] = "unmade" => madeBy'[b] = None
  <2>1. Silent \in {Message(k) : k \in Operation \cup {"silent"}}
    BY DEF Silent
  <2>2. wire' \in [Call -> Reply \cup {Message(k) : k \in Operation \cup {"silent"}}]
    BY <2>1 DEF IInv, TypeOK
  <2>3. QED
    BY <1>1, <1>3, <2>2, RespondKeepsTypes DEF IInv, TypeOK
<1>6. \A e \in Call : Made(e)' = Made(e)
  BY <1>3 DEF Made
<1>7. \A d \in Call \ {c} : Own(d)'
  BY <1>2, <1>3, <1>6, Elsewhere DEF IInv, Own
<1>8. Handlers(c)'
  BY <1>2, <1>3, <1>4 DEF IInv, Handlers, Waiting, Operation, Kind
<1>9. Bookings(c)'
  <2>1. Made(c) # {} => op[c] = "booking"
    BY DEF IInv, Bookings
  <2>2. op[c] = "booking" /\ wire'[c].kind = "booking" => a.errors
    BY <1>1, <1>3, <1>4
  <2>3. wire'[c].kind = "booking" => Made(c) = {}
    BY <1>3, <1>4 DEF IInv, Bookings
  <2>4. wire'[c].kind = "blank" => wire'[c].ref \notin Booking
    BY <1>3, <1>4 DEF IInv, Bookings
  <2>5. QED
    BY <1>1, <1>2, <1>3, <1>4, <1>6, <2>1, <2>2, <2>3, <2>4 DEF Bookings, Waiting
<1>10. Confirmations(c)'
  BY <1>1, <1>2, <1>3, <1>4 DEF IInv, Confirmations, Told, Operation
<1>11. Repetitions(c)'
  BY <1>1, <1>2, <1>3, <1>4 DEF IInv, Repetitions, Told
<1>12. QED
  BY <1>5, <1>7, <1>8, <1>9, <1>10, <1>11 DEF IInv, Own

LEMMA HearKeeps ==
  ASSUME IInv, NEW c \in Call, Hear(c)
  PROVE  IInv'
<1>1. PICK r \in Heard(wire[c]) : Hears(c, r)
  BY DEF Hear
<1>2. r \in Reply /\ (r = wire[c] \/ (r.kind = "garbled" /\ wire[c].kind # "badcode"))
  <2>1. wire[c] \in Reply
    BY WireKinds DEF IInv, Hear
  <2>2. Message("garbled") \in Reply /\ Message("garbled").kind = "garbled"
    BY MessagesAreTyped DEF Kind
  <2>3. QED
    BY <1>1, <2>1, <2>2 DEF Heard
<1>3. QED
  BY <1>1, <1>2, HearingKeeps DEF Hear

LEMMA GiveUpKeeps ==
  ASSUME IInv, NEW c \in Call, GiveUp(c)
  PROVE  IInv'
<1>1. Message("lost") \in Reply /\ Message("lost").kind = "lost"
  BY MessagesAreTyped DEF Kind
<1>2. wire' = [wire EXCEPT ![c] = Silent] \/ (wire[c].kind \in Operation /\ wire' = wire)
  BY DEF IInv, TypeOK, GiveUp
<1>3. QED
  BY <1>1, <1>2, HearingKeeps DEF GiveUp

LEMMA AskStatusKeeps ==
  ASSUME IInv, NEW c \in Call, AskStatus(c)
  PROVE  IInv'
<1>1. /\ UNCHANGED <<platform, op, target, answer, known, held, madeBy, modified, wasGone>>
      /\ platform = "bookingcom" /\ op[c] = "booking" /\ pc[c] = "wait" /\ pc'[c] = "askstatus"
      /\ wire'[c] = Silent /\ learned'[c] = wire[c].ref
      /\ wire[c].kind \in {"done", "blank"} /\ wire[c] \in Reply
      /\ \A d \in Call \ {c} : pc'[d] = pc[d] /\ wire'[d] = wire[d] /\ learned'[d] = learned[d]
  BY WireKinds DEF IInv, AskStatus, TypeOK, BookingComGoesOn, supplier
<1>2. Silent.kind = "silent"
  BY MessagesAreTyped DEF Silent
<1>3. TypeOK' /\ \A b \in Booking : held'[b] = "unmade" => madeBy'[b] = None
  <2>1. Silent \in {Message(k) : k \in Operation \cup {"silent"}} /\ wire[c].ref \in Booking \cup {None}
    BY <1>1 DEF Silent, Reply
  <2>2. QED
    BY <1>1, <2>1 DEF IInv, TypeOK, AskStatus, Asking
<1>4. \A e \in Call : Made(e)' = Made(e)
  BY <1>1 DEF Made
<1>5. \A d \in Call \ {c} : Own(d)'
  BY <1>1, <1>4, Elsewhere DEF IInv, Own
<1>6. Handlers(c)'
  BY <1>1, <1>2 DEF IInv, Handlers, Waiting, Operation, Kind
<1>7. Made(c) = {wire[c].ref} \cap Booking
  BY <1>1 DEF IInv, Bookings
<1>8. Bookings(c)' /\ Confirmations(c)'
  BY <1>1, <1>2, <1>4, <1>7 DEF Bookings, Confirmations, Waiting
<1>9. Repetitions(c)'
  BY <1>1 DEF IInv, Repetitions
<1>10. QED
  BY <1>3, <1>5, <1>6, <1>8, <1>9 DEF IInv, Own

-----------------------------------------------------------------------------
LEMMA InitIsSound == Init => IInv
<1> SUFFICES ASSUME Init PROVE IInv
  OBVIOUS
<1>1. Silent \in {Message(k) : k \in Operation \cup {"silent"}} /\ Silent.kind = "silent"
  BY MessagesAreTyped DEF Silent
<1>2. TypeOK
  BY <1>1 DEF Init, TypeOK
<1>3. \A c \in Call : Made(c) = {}
  BY NoneIsFresh DEF Init, Made
<1>4. \A c \in Call : Own(c)
  BY <1>1, <1>3 DEF Init, Own, Handlers, Bookings, Confirmations, Repetitions, Told, Waiting,
     Operation, Kind
<1>5. QED
  BY <1>2, <1>4 DEF Init, IInv, Own

LEMMA StepKeeps == IInv /\ [Next]_vars => IInv'
<1> SUFFICES ASSUME IInv, [Next]_vars PROVE IInv'
  OBVIOUS
<1>1. CASE UNCHANGED vars
  BY <1>1 DEF vars, hub, supplier, IInv, TypeOK, Handlers, Bookings, Confirmations, Repetitions,
     Told, Made
<1>2. ASSUME NEW c \in Call, NEW o \in Operation, NEW b \in Booking \cup {None}, Arrive(c, o, b)
      PROVE  IInv'
  BY <1>2, ArriveKeeps
<1>3. ASSUME NEW c \in Call, HubStep(c) PROVE IInv'
  BY <1>3, PreparedKeeps, UnpreparedKeeps, AskKeeps, HearKeeps, AskStatusKeeps, GiveUpKeeps
     DEF HubStep
<1>4. ASSUME NEW c \in Call, SupplierStep(c) PROVE IInv'
  BY <1>4, SupplierBooksKeeps, SupplierCancelsKeeps, SupplierModifiesKeeps, SupplierReportsKeeps,
     SupplierRefusesKeeps DEF SupplierStep
<1>5. QED
  BY <1>1, <1>2, <1>3, <1>4 DEF Next

LEMMA Invariance == Spec => []IInv
BY InitIsSound, StepKeeps, PTL DEF Spec

\* The types hold for any calls and bookings, of what is on the wire too.
THEOREM TypeCorrect == Spec => []TypeOK
BY Invariance, PTL DEF IInv

\* What booking.go, cancel.go and modify.go of the platforms answer OK is done.
THEOREM OKIsTrueHolds == Spec => []OKIsTrue
<1>1. IInv => OKIsTrue
  BY DEF IInv, Bookings, Confirmations, Handlers, OKIsTrue, Told, Made
<1>2. QED
  BY <1>1, Invariance, PTL

\* No answer of a booking.go passes over a booking that the supplier has made or
\* is still to make.
THEOREM NoSilentBookingHolds == Spec => []NoSilentBooking
<1>1. ASSUME IInv PROVE NoSilentBooking
  <2> SUFFICES ASSUME NEW b \in Booking, madeBy[b] # None, answer[madeBy[b]] # None
               PROVE  answer[madeBy[b]].ref = b \/ answer[madeBy[b]].errors
    BY DEF NoSilentBooking
  <2>1. madeBy[b] \in Call /\ b \in Made(madeBy[b])
    BY <1>1 DEF IInv, TypeOK, Made
  <2>2. QED
    BY <1>1, <2>1 DEF IInv, Handlers, Bookings
<1>2. QED
  BY <1>1, Invariance, PTL

\* A cancellation repeated is not FAILED where cancel.go knows the supplier's code
\* for a booking that is cancelled already.
THEOREM RepeatedCancelIsOKHolds == Spec => []RepeatedCancelIsOK
<1>1. IInv => RepeatedCancelIsOK
  BY DEF IInv, TypeOK, Repetitions, RepeatedCancelIsOK, Told
<1>2. QED
  BY <1>1, Invariance, PTL

\* A status is not OK for a booking that was cancelled before, on the platforms
\* whose bookingstatus.go looks at the state.
THEOREM StatusIsNotStaleHolds == Spec => []StatusIsNotStale
<1>1. IInv => StatusIsNotStale
  BY DEF IInv, TypeOK, Repetitions, StatusIsNotStale, Told
<1>2. QED
  BY <1>1, Invariance, PTL

-----------------------------------------------------------------------------
\* What BookingDesk is told.

\* After the answer the supplier acts for a call only if the answer is an error.
Closing(c) ==
  pc[c] = "done" =>
    /\ answer[c] \in Answer
    /\ wire[c].kind \in {"cancel", "modify"} => answer[c].errors

\* The client has its references from answers.
Remembered ==
  \A b \in known : \E c \in Call : pc[c] = "done" /\ answer[c].ref = b

Closings == Remembered /\ \A c \in Call : Closing(c)

\* The handler of c ends with a, which is true, and an error if the supplier may
\* still act.
Ending(c, a) ==
  /\ Respond(c, a)
  /\ pc[c] \notin {"idle", "done"}
  /\ a.status = "OK" =>
       /\ op[c] = "booking" => a.ref \in Made(c)
       /\ op[c] = "cancel" => held[target[c]] = "cancelled"
       /\ op[c] = "modify" => target[c] \in modified
  /\ a.errors \/ \A b \in Made(c) : a.ref = b
  /\ wire'[c].kind \in {"cancel", "modify"} => a.errors
  /\ \A d \in Call \ {c} : wire'[d] = wire[d]
  /\ UNCHANGED <<op, target, supplier>>

LEMMA HearingEnds ==
  ASSUME IInv, NEW c \in Call, Hear(c) \/ GiveUp(c)
  PROVE  \E a \in Answer : Ending(c, a)
<1>1. /\ pc[c] \in Waiting /\ UNCHANGED <<op, target, supplier>>
      /\ \A d \in Call \ {c} : wire'[d] = wire[d]
  BY DEF IInv, TypeOK, Hear, GiveUp
<1>2. PICK r \in Reply :
        /\ Hears(c, r)
        /\ \/ r = wire[c]
           \/ r.kind = "garbled" /\ wire[c].kind \in Kind \ {"badcode"}
           \/ r.kind = "lost"
        /\ wire'[c] = Silent \/ (r.kind = "lost" /\ wire'[c] = wire[c])
  <2>1. CASE Hear(c)
    <3>1. PICK r \in Heard(wire[c]) : Hears(c, r)
      BY <2>1 DEF Hear
    <3>2. wire[c] \in Reply /\ wire[c].kind \in Kind /\ wire'[c] = Silent
      BY <2>1, WireKinds DEF IInv, TypeOK, Hear
    <3>3. Message("garbled") \in Reply /\ Message("garbled").kind = "garbled"
      BY MessagesAreTyped DEF Kind
    <3>4. r \in Reply /\ (r = wire[c] \/ (r.kind = "garbled" /\ wire[c].kind # "badcode"))
      BY <3>1, <3>2, <3>3 DEF Heard
    <3>5. QED
      BY <3>1, <3>2, <3>4
  <2>2. CASE GiveUp(c)
    <3>1. Message("lost") \in Reply /\ Message("lost").kind = "lost"
      BY MessagesAreTyped DEF Kind
    <3>2. wire'[c] = Silent \/ wire'[c] = wire[c]
      BY <2>2 DEF IInv, TypeOK, GiveUp
    <3>3. QED
      BY <2>2, <3>1, <3>2 DEF GiveUp
  <2>3. QED
    BY <2>1, <2>2
<1>3. PICK a \in Answer :
        /\ Respond(c, a)
        /\ op[c] = "booking" =>
             /\ a.status = "OK" => a.ref \in Made(c)
             /\ a.errors \/ \A b \in Made(c) : a.ref = b
             /\ r.kind = "lost" => a.errors
        /\ op[c] = "cancel" =>
             /\ a.status = "OK" => held[target[c]] = "cancelled"
             /\ r.kind = "lost" => a.errors
        /\ op[c] = "modify" =>
             /\ a.status = "OK" => target[c] \in modified
             /\ r.kind = "lost" => a.errors
  BY <1>1, <1>2, HearsIsTrue DEF IInv, Own
<1>4. op[c] # "booking" => Made(c) = {}
  BY DEF IInv, Bookings
<1>5. wire'[c].kind \in {"cancel", "modify"} => a.errors
  <2>1. Silent.kind = "silent"
    BY MessagesAreTyped DEF Silent
  <2>2. wire[c].kind \in {"cancel", "modify"} => op[c] = wire[c].kind
    BY DEF IInv, Handlers, Operation
  <2>3. QED
    BY <1>2, <1>3, <2>1, <2>2
<1>6. Ending(c, a)
  BY <1>1, <1>3, <1>4, <1>5 DEF Ending, Waiting
<1>7. QED
  BY <1>6

LEMMA UnpreparedEnds ==
  ASSUME IInv, NEW c \in Call, Unprepared(c)
  PROVE  \E a \in Answer : Ending(c, a)
<1>1. PICK a : /\ Respond(c, a) /\ pc[c] \in {"token", "card", "auth", "ask"}
               /\ a = Internal \/ a = Blame("FAILED")
  BY Zenon DEF Unprepared
<1>2. a \in Answer /\ a.errors /\ a.status # "OK"
  <2>1. Internal \in Answer /\ Internal.errors /\ Internal.status # "OK"
    BY NoneIsNoStatus DEF Internal, Answer
  <2>2. Blame("FAILED") \in Answer /\ Blame("FAILED").errors /\ Blame("FAILED").status # "OK"
    BY DEF Blame, Answer, Status
  <2>3. QED
    BY <1>1, <2>1, <2>2
<1>3. UNCHANGED <<op, target, wire, supplier>>
  BY DEF Unprepared
<1>4. Ending(c, a)
  BY <1>1, <1>2, <1>3 DEF Ending
<1>5. QED
  BY <1>2, <1>4

LEMMA EndingCloses ==
  ASSUME IInv, Closings, NEW c \in Call, NEW a \in Answer, Ending(c, a)
  PROVE  Closings'
<1>1. /\ pc'[c] = "done" /\ answer'[c] = a /\ known' = known \cup ({a.ref} \cap Booking)
      /\ \A d \in Call \ {c} : pc'[d] = pc[d] /\ answer'[d] = answer[d] /\ wire'[d] = wire[d]
  BY DEF IInv, TypeOK, Ending, Respond
<1>2. Remembered'
  <2> SUFFICES ASSUME NEW b \in known'
               PROVE  \E d \in Call : pc'[d] = "done" /\ answer'[d].ref = b
    BY DEF Remembered
  <2>1. CASE b \in known
    BY <1>1, <2>1 DEF Closings, Remembered, Ending
  <2>2. CASE b = a.ref
    BY <1>1, <2>2
  <2>3. QED
    BY <1>1, <2>1, <2>2
<1>3. \A d \in Call : Closing(d)'
  BY <1>1 DEF Closings, Closing, Ending
<1>4. QED
  BY <1>2, <1>3 DEF Closings

LEMMA ClosingsKept == IInv /\ Closings /\ [Next]_vars => Closings'
<1> SUFFICES ASSUME IInv, Closings, [Next]_vars PROVE Closings'
  OBVIOUS
<1>1. ASSUME /\ UNCHANGED <<answer, known>>
             /\ \A c \in Call : pc'[c] = "done" <=> pc[c] = "done"
             /\ \A c \in Call : pc[c] = "done" => wire'[c] \in {wire[c], Silent}
      PROVE  Closings'
  <2>1. Silent.kind = "silent"
    BY MessagesAreTyped DEF Silent
  <2>2. QED
    BY <1>1, <2>1 DEF Closings, Closing, Remembered
<1>2. ASSUME NEW c \in Call, NEW o \in Operation, NEW b \in Booking \cup {None}, Arrive(c, o, b)
      PROVE  Closings'
  BY <1>1, <1>2 DEF IInv, TypeOK, Arrive, FirstStep
<1>3. ASSUME NEW c \in Call, Prepared(c) PROVE Closings'
  BY <1>1, <1>3 DEF IInv, TypeOK, Prepared
<1>4. ASSUME NEW c \in Call, Ask(c) \/ AskStatus(c) PROVE Closings'
  BY <1>1, <1>4 DEF IInv, TypeOK, Ask, AskStatus, Asking, Asked
<1>5. ASSUME NEW c \in Call, Unprepared(c) \/ Hear(c) \/ GiveUp(c) PROVE Closings'
  BY <1>5, HearingEnds, UnpreparedEnds, EndingCloses
<1>6. ASSUME NEW c \in Call, SupplierStep(c) PROVE Closings'
  <2>1. Untouched /\ \E replies : Replies(c, replies)
    BY <1>6 DEF SupplierStep, SupplierBooks, SupplierCancels, SupplierModifies, SupplierReports,
       SupplierRefuses
  <2>2. \A d \in Call : pc[d] = "done" => wire'[d] \in {wire[d], Silent}
    BY <2>1 DEF IInv, TypeOK, Replies, Waiting
  <2>3. QED
    BY <1>1, <2>1, <2>2 DEF Untouched
<1>7. CASE UNCHANGED vars
  BY <1>1, <1>7 DEF vars, hub
<1>8. QED
  BY <1>2, <1>3, <1>4, <1>5, <1>6, <1>7 DEF Next, HubStep

LEMMA ClosingsInv == Spec => []Closings
<1>1. Init => Closings
  BY DEF Init, Closings, Closing, Remembered
<1>2. QED
  BY <1>1, Invariance, ClosingsKept, PTL DEF Spec

\* An answer is one step of the desk.
LEMMA EndingTells ==
  ASSUME IInv, NEW c \in Call, NEW a \in Answer, Ending(c, a)
  PROVE  \E t \in Desk!Notice : Desk!Tell(c, t)
<1> DEFINE phase == [d \in Call |-> PhaseOf(d)]
           told == [d \in Call |-> NoticeTo(d)]
           t == NoticeOf(a)
<1>1. /\ t \in Desk!Notice
      /\ t.done <=> a.status = "OK"
      /\ t.errors = a.errors
      /\ a.ref \in Booking => t.ref = a.ref
  BY DEF NoticeOf, Answer, Desk!Notice
<1>2. phase[c] = "open" /\ phase' = [phase EXCEPT ![c] = "closed"]
  BY DEF IInv, TypeOK, Ending, Respond, PhaseOf
<1>3. told' = [told EXCEPT ![c] = t]
  BY DEF IInv, TypeOK, Ending, Respond, NoticeTo
<1>4. t.done => Desk!IsDone(c, t.ref)
  BY <1>1 DEF Ending, Made, Desk!IsDone
<1>5. t.errors \/ \A b \in Booking : madeBy[b] = c => t.ref = b
  BY <1>1 DEF Ending, Made
<1>6. UNCHANGED <<op, target, held, madeBy, modified>>
  BY DEF Ending, supplier
<1>7. Desk!Tell(c, t)
  BY <1>2, <1>3, <1>4, <1>5, <1>6 DEF Desk!Tell, Desk!asked, Desk!books
<1>8. QED
  BY <1>1, <1>7

\* So is what the supplier does, which it may still do.
LEMMA SupplierActs ==
  ASSUME IInv, Closings, NEW c \in Call, SupplierStep(c)
  PROVE  \/ \E b \in Booking : Desk!Book(c, b)
         \/ Desk!Cancel(c) \/ Desk!Modify(c) \/ UNCHANGED Desk!vars
<1> DEFINE phase == [d \in Call |-> PhaseOf(d)]
           told == [d \in Call |-> NoticeTo(d)]
<1>1. UNCHANGED <<pc, op, target, answer, phase, told>>
  BY DEF SupplierStep, SupplierBooks, SupplierCancels, SupplierModifies, SupplierReports,
     SupplierRefuses, Untouched, PhaseOf, NoticeTo, NoticeOf
<1>2. ASSUME wire[c].kind \in {"booking", "cancel", "modify"}
      PROVE  op[c] = wire[c].kind /\ Desk!Pending(c)
  <2>1. op[c] = wire[c].kind
    BY <1>2 DEF IInv, Handlers, Operation
  <2>2. pc[c] \in Waiting \cup {"done"}
    <3>1. Silent.kind = "silent"
      BY MessagesAreTyped DEF Silent
    <3>2. QED
      BY <1>2, <3>1 DEF IInv, Handlers
  <2>3. CASE pc[c] = "done"
    <3>1. answer[c].errors
      BY <1>2, <2>1, <2>3 DEF IInv, Bookings, Closings, Closing
    <3>2. phase[c] = "closed" /\ told[c].errors
      BY <2>3, <3>1 DEF PhaseOf, NoticeTo, NoticeOf
    <3>3. QED
      BY <2>1, <3>2 DEF Desk!Pending
  <2>4. CASE pc[c] \in Waiting
    <3>1. phase[c] = "open"
      BY <2>4 DEF PhaseOf, Waiting
    <3>2. QED
      BY <2>1, <3>1 DEF Desk!Pending
  <2>5. QED
    BY <2>1, <2>2, <2>3, <2>4
<1>3. ASSUME NEW b \in Booking, SupplierBooks(c, b) PROVE Desk!Book(c, b)
  <2>1. \A other \in Booking : madeBy[other] # c
    BY <1>3 DEF IInv, Bookings, Made, SupplierBooks, Receives
  <2>2. QED
    BY <1>1, <1>2, <1>3, <2>1 DEF SupplierBooks, Receives, Desk!Book, Desk!asked
<1>4. ASSUME SupplierCancels(c) PROVE Desk!Cancel(c)
  BY <1>1, <1>2, <1>4 DEF SupplierCancels, Receives, Desk!Cancel, Desk!asked
<1>5. ASSUME SupplierModifies(c) PROVE Desk!Modify(c)
  BY <1>1, <1>2, <1>5 DEF SupplierModifies, Receives, Desk!Modify, Desk!asked
<1>6. ASSUME SupplierReports(c) \/ SupplierRefuses(c) PROVE UNCHANGED Desk!vars
  BY <1>1, <1>6 DEF SupplierReports, SupplierRefuses, supplier, Desk!vars, Desk!asked, Desk!books
<1>7. QED
  BY <1>3, <1>4, <1>5, <1>6 DEF SupplierStep

\* Every step of a handler of /booking, /cancel, /booking-status and /modify, of
\* the network and of the supplier is one step of the desk, or none.
THEOREM DeskKept == Spec => KeepsDesk
<1> DEFINE phase == [c \in Call |-> PhaseOf(c)]
           told == [c \in Call |-> NoticeTo(c)]
<1>1. Init => Desk!Init
  BY DEF Init, Desk!Init, PhaseOf, NoticeTo
<1>2. IInv /\ Closings /\ [Next]_vars => [Desk!Next]_(Desk!vars)
  <2> SUFFICES ASSUME IInv, Closings, [Next]_vars
               PROVE  [Desk!Next]_(Desk!vars)
    OBVIOUS
  <2>1. ASSUME NEW c \in Call, NEW o \in Operation, NEW b \in Booking \cup {None}, Arrive(c, o, b)
        PROVE  Desk!Ask(c, o, b)
    <3>1. phase[c] = "new" /\ phase' = [phase EXCEPT ![c] = "open"] /\ told' = told
      BY <2>1 DEF IInv, TypeOK, Arrive, FirstStep, PhaseOf, NoticeTo
    <3>2. b \in known => b \in Desk!Known
      <4>1. ASSUME b \in known
            PROVE  b \in Booking /\ \E d \in Call : phase[d] = "closed" /\ told[d].ref = b
        BY <4>1 DEF IInv, TypeOK, Closings, Remembered, PhaseOf, NoticeTo, NoticeOf
      <4>2. QED
        BY <4>1 DEF Desk!Known
    <3>3. QED
      BY <2>1, <3>1, <3>2 DEF Arrive, supplier, Desk!Ask, Desk!books
  <2>2. ASSUME NEW c \in Call, Prepared(c) \/ Ask(c) \/ AskStatus(c)
        PROVE  UNCHANGED Desk!vars
    <3>1. UNCHANGED phase /\ UNCHANGED told
      BY <2>2 DEF IInv, TypeOK, Prepared, Ask, AskStatus, Asking, Asked, PhaseOf, NoticeTo
    <3>2. QED
      BY <2>2, <3>1 DEF Prepared, Ask, AskStatus, supplier, Desk!vars, Desk!asked, Desk!books
  <2>3. ASSUME NEW c \in Call, Unprepared(c) \/ Hear(c) \/ GiveUp(c)
        PROVE  \E t \in Desk!Notice : Desk!Tell(c, t)
    BY <2>3, HearingEnds, UnpreparedEnds, EndingTells
  <2>4. CASE UNCHANGED vars
    BY <2>4 DEF vars, hub, supplier, PhaseOf, NoticeTo, Desk!vars, Desk!asked, Desk!books
  <2>5. QED
    BY <2>1, <2>2, <2>3, <2>4, SupplierActs
       DEF Next, HubStep, Operation, Desk!Next, Desk!Operation
<1>3. QED
  BY <1>1, <1>2, Invariance, ClosingsInv, PTL DEF Spec, KeepsDesk, Desk!Spec
=============================================================================
