-------------------------- MODULE HubProcessProofs --------------------------
(***************************************************************************)
(* Proofs about HubProcess, and SupplierRates in it, for any set of        *)
(* requests of any mix of platforms.                                       *)
(***************************************************************************)
EXTENDS HubProcess, FiniteSetTheorems, TLAPS

\* The goroutine of a branch still owes its message, or has delivered it, and
\* the message says what became of it.
Owed(q, b) ==
  worker[q][b] \in {"fetching", "asking"} /\ channel[q][b] = None /\ b \notin failed[q]

Delivered(q, b) ==
  /\ worker[q][b] = "ended" /\ channel[q][b] # None
  /\ channel[q][b] = "error" <=> b \in failed[q]

Over == {"done", "error", "panicked"}

Count(q, b) == IF b \in failed[q] THEN 1 ELSE 0

\* What is known of a call of Execute at each of its points: which goroutines have
\* a message for it, and how the bucket stands to the branches that failed.
Accounts(q) ==
  /\ closed[q] <=> main[q] \in Over
  /\ main[q] \in {"idle", "token", "ask"} =>
       /\ failed[q] = {} /\ errors[q] = 0
       /\ \A b \in Branch : worker[q][b] = "unborn" /\ channel[q][b] = None
  /\ main[q] = "extras" =>
       /\ errors[q] = 0
       /\ \A b \in Branch : Owed(q, b) \/ Delivered(q, b)
  /\ main[q] = "rates" =>
       /\ Owed(q, "rates") \/ Delivered(q, "rates")
       /\ worker[q]["extras"] \in {"unborn", "ended"}
       /\ errors[q] = Count(q, "extras")
  /\ main[q] \in Over => \A b \in Branch : worker[q][b] \in {"unborn", "ended"}
  /\ main[q] = "done" =>
       /\ errors[q] = Count(q, "rates") + Count(q, "extras")
       /\ vehicles[q] => "rates" \notin failed[q]
  /\ main[q] # "done" => ~vehicles[q]

\* What is known of a request at each function of the route: whether the handler
\* has run, and how many answers there may be by then.
Progress(q) ==
  /\ stage[q] \notin {"handler", "ended"} => main[q] = "idle"
  /\ stage[q] \in {"client", "validate"} => bodies[q] = 0
  /\ stage[q] \in {"platform", "register", "params", "grouping"} =>
       bodies[q] <= IF errorAborts THEN 0 ELSE 1
  /\ stage[q] = "handler" => bodies[q] <= IF errorAborts THEN 0 ELSE 2
  /\ stage[q] = "ended" =>
       IF errorAborts THEN bodies[q] = 1
       ELSE bodies[q] \in IF main[q] # "idle" THEN 1 .. 3 ELSE 1 .. 2

\* The listener is closed by the goroutine that has set the flag.
Stopping ==
  /\ shutdown <=> stopper # "waiting"
  /\ listener = "closed" => shutdown
  /\ exit = 1 => listener = "failed"

IInv ==
  /\ TypeOK /\ Stopping
  /\ \A q \in Request : Accounts(q) /\ Progress(q)
-----------------------------------------------------------------------------
LEMMA InitIInv == Init => IInv
<1> SUFFICES ASSUME Init PROVE IInv
  OBVIOUS
<1>1. RatesTypeOK
  <2>1. platform \in [Request -> Platform]
    BY CallsHavePlatforms DEF Init, InitRates
  <2>2. failed \in [Request -> SUBSET Branch] /\ errors \in [Request -> 0 .. 2]
    BY DEF Init, InitRates
  <2>3. QED
    BY <2>1, <2>2 DEF Init, InitRates, RatesTypeOK
<1>2. TypeOK
  <2>1. bodies \in [Request -> 0 .. 3] /\ registry \subseteq Platform
    BY DEF Init
  <2>2. QED
    BY <1>1, <2>1 DEF Init, TypeOK
<1>3. ASSUME NEW q \in Request PROVE Accounts(q)
  BY <1>3 DEF Init, InitRates, Accounts, Over
<1>4. ASSUME NEW q \in Request PROVE Progress(q)
  BY <1>4 DEF Init, InitRates, Progress
<1>5. Stopping
  BY NoneIsNoCode DEF Init, Stopping
<1>6. QED
  BY <1>2, <1>3, <1>4, <1>5 DEF IInv

\* The accounts of a call that a step does not touch.
LEMMA Untouched ==
  ASSUME NEW r \in Request, Accounts(r),
         main'[r] = main[r], worker'[r] = worker[r], channel'[r] = channel[r],
         closed'[r] = closed[r], failed'[r] = failed[r], errors'[r] = errors[r],
         vehicles'[r] = vehicles[r]
  PROVE  Accounts(r)'
BY DEF Accounts, Owed, Delivered, Count

\* A step of Execute or of its goroutines leaves the accounts of every call in
\* order, ends no process, and starts no call.
LEMMA RatesStepKeeps ==
  ASSUME RatesTypeOK, \A r \in Request : Accounts(r), NEW q \in Request,
         RatesStep(q)
  PROVE  /\ RatesTypeOK' /\ \A r \in Request : Accounts(r)'
         /\ crashed' = crashed /\ platform' = platform
         /\ \A r \in Request : main'[r] = "idle" <=> main[r] = "idle"
<1> DEFINE Kept == /\ RatesTypeOK' /\ \A r \in Request : Accounts(r)'
                   /\ crashed' = crashed /\ platform' = platform
                   /\ \A r \in Request : main'[r] = "idle" <=> main[r] = "idle"
<1> USE NoneIsFresh DEF RatesTypeOK, At, WorkerAt, Go, MoveWorker, Return, AddErrors
<1>1. ASSUME NEW b \in Branch, worker[q][b] \in {"fetching", "asking"}
      PROVE  ~closed[q] /\ main[q] \in {"extras", "rates"} /\ Owed(q, b)
  BY <1>1 DEF Accounts, Over, Owed, Delivered, Branch
<1>2. CASE ReceiveExtras(q)
  <2>1. RatesTypeOK'
    BY <1>2 DEF ReceiveExtras, Accounts, Branch
  <2>2. Accounts(q)'
    BY <1>2 DEF ReceiveExtras, Accounts, Owed, Delivered, Over, Count, Branch
  <2>3. ASSUME NEW r \in Request \ {q} PROVE Accounts(r)'
    BY <1>2, <2>3, Untouched DEF ReceiveExtras
  <2>4. QED
    BY <1>2, <2>1, <2>2, <2>3 DEF ReceiveExtras
<1>3. CASE ReceiveRates(q)
  <2>1. RatesTypeOK'
    BY <1>3 DEF ReceiveRates, Accounts, Count, Branch
  <2>2. Accounts(q)'
    BY <1>3 DEF ReceiveRates, Accounts, Owed, Delivered, Over, Count, Branch
  <2>3. ASSUME NEW r \in Request \ {q} PROVE Accounts(r)'
    BY <1>3, <2>3, Untouched DEF ReceiveRates
  <2>4. QED
    BY <1>3, <2>1, <2>2, <2>3 DEF ReceiveRates
<1>4. CASE Token(q)
  <2>1. RatesTypeOK'
    <3>1. errors[q] = 0 /\ {"rates"} \in SUBSET Branch
      BY <1>4 DEF Token, Accounts, Branch
    <3>2. errors' \in [Request -> 0 .. 2]
      BY <1>4, <3>1 DEF Token
    <3>3. failed' \in [Request -> SUBSET Branch]
      <4>1. [failed EXCEPT ![q] = {"rates"}] \in [Request -> SUBSET Branch]
        BY <3>1
      <4>2. QED
        BY <1>4, <4>1 DEF Token
    <3>5. QED
      BY <1>4, <3>2, <3>3 DEF Token
  <2>2. Accounts(q)'
    BY <1>4 DEF Token, Accounts, Over, Count, Branch
  <2>3. ASSUME NEW r \in Request \ {q} PROVE Accounts(r)'
    BY <1>4, <2>3, Untouched DEF Token
  <2>4. QED
    BY <1>4, <2>1, <2>2, <2>3 DEF Token
<1>5. CASE AskWithToken(q)
  <2>1. RatesTypeOK'
    <3>1. errors[q] = 0 /\ {"rates"} \in SUBSET Branch
      BY <1>5 DEF AskWithToken, Accounts, Branch
    <3>2. errors' \in [Request -> 0 .. 2]
      BY <1>5, <3>1 DEF AskWithToken
    <3>3. failed' \in [Request -> SUBSET Branch]
      <4>1. [failed EXCEPT ![q] = {"rates"}] \in [Request -> SUBSET Branch]
        BY <3>1
      <4>2. QED
        BY <1>5, <4>1 DEF AskWithToken
    <3>4. vehicles' \in [Request -> BOOLEAN]
      BY <1>5 DEF AskWithToken
    <3>5. QED
      BY <1>5, <3>2, <3>3, <3>4 DEF AskWithToken
  <2>2. Accounts(q)'
    BY <1>5 DEF AskWithToken, Accounts, Over, Count, Branch
  <2>3. ASSUME NEW r \in Request \ {q} PROVE Accounts(r)'
    BY <1>5, <2>3, Untouched DEF AskWithToken
  <2>4. QED
    BY <1>5, <2>1, <2>2, <2>3 DEF AskWithToken
<1>6. ASSUME NEW b \in Branch, NEW message \in {"some", "none", "error"},
             worker[q][b] \in {"fetching", "asking"}, Send(q, b, message),
             failed' = IF message = "error"
                       THEN [failed EXCEPT ![q] = @ \cup {b}] ELSE failed,
             equips' \in BOOLEAN, UNCHANGED <<platform, main, closed, errors, vehicles>>
      PROVE  Kept
  <2>1. /\ worker' = [worker EXCEPT ![q][b] = "ended"]
        /\ channel' = [channel EXCEPT ![q][b] = message]
        /\ UNCHANGED crashed
    BY <1>1, <1>6 DEF Send
  <2>2. RatesTypeOK'
    BY <1>6, <2>1
  <2>3. Accounts(q)'
    BY <1>1, <1>6, <2>1 DEF Accounts, Owed, Delivered, Over, Count, Branch
  <2>4. ASSUME NEW r \in Request \ {q} PROVE Accounts(r)'
    BY <1>6, <2>1, <2>4, Untouched
  <2>5. QED
    BY <1>6, <2>1, <2>2, <2>3, <2>4
<1>7. CASE FetchExtras(q)
  <2>1. CASE equips
    BY <1>6, <1>7, <2>1 DEF FetchExtras, Branch
  <2>2. CASE ~equips
    <3>1. RatesTypeOK'
      <4>1. "extras" \in Branch
        BY DEF Branch
      <4>2. worker' = [worker EXCEPT ![q]["extras"] = "asking"]
        BY <1>7, <2>2 DEF FetchExtras
      <4>3. worker' \in [Request -> [Branch -> {"unborn", "fetching", "asking", "ended"}]]
        BY <4>1, <4>2
      <4>4. QED
        BY <1>7, <2>2, <4>3 DEF FetchExtras
    <3>2. Accounts(q)'
      BY <1>1, <1>7, <2>2 DEF FetchExtras, Accounts, Owed, Delivered, Over, Count, Branch
    <3>3. ASSUME NEW r \in Request \ {q} PROVE Accounts(r)'
      BY <1>7, <2>2, <3>3, Untouched DEF FetchExtras
    <3>4. QED
      BY <1>7, <2>2, <3>1, <3>2, <3>3 DEF FetchExtras
  <2>3. QED
    BY <2>1, <2>2
<1>8. ASSUME NEW b \in Branch, NEW message \in {"some", "none"}, Answer(q, b, message)
      PROVE  Kept
  BY <1>6, <1>8 DEF Answer
<1>9. ASSUME NEW b \in Branch, AskFails(q, b) \/ Panic(q, b)
      PROVE  Kept
  BY <1>6, <1>9 DEF AskFails, Panic
<1>10. QED
  BY <1>2, <1>3, <1>4, <1>5, <1>7, <1>8, <1>9 DEF RatesStep, ExecuteStep, WorkerStep

\* So does the beginning of Execute, which starts the goroutines.
LEMMA StartKeeps ==
  ASSUME RatesTypeOK, \A r \in Request : Accounts(r), NEW q \in Request, Start(q)
  PROVE  /\ RatesTypeOK' /\ \A r \in Request : Accounts(r)'
         /\ UNCHANGED <<crashed, platform>>
         /\ main'[q] # "idle" /\ \A r \in Request \ {q} : main'[r] = main[r]
<1> USE DEF RatesTypeOK, Start, At, Go, Return
<1>1. platform[q] \in Platform /\ Asking(platform[q]) \in {"extras", "rates"}
  BY DEF Asking
<1>2. RatesTypeOK'
  <2>1. main' \in [Request -> {"idle", "token", "ask", "extras", "rates", "done", "error",
                              "panicked"}]
    BY <1>1
  <2>2. worker' \in [Request -> [Branch -> {"unborn", "fetching", "asking", "ended"}]]
    <3>1. [b \in Branch |-> IF b \notin BranchesOf(platform[q]) THEN "unborn"
                            ELSE IF b = "extras" THEN "fetching" ELSE "asking"]
            \in [Branch -> {"unborn", "fetching", "asking", "ended"}]
      OBVIOUS
    <3>2. QED
      BY <3>1
  <2>3. QED
    BY <2>1, <2>2
<1>3. Accounts(q)'
  <2>1. /\ main[q] = "idle" /\ ~closed[q] /\ failed[q] = {} /\ errors[q] = 0 /\ ~vehicles[q]
        /\ \A b \in Branch : worker[q][b] = "unborn" /\ channel[q][b] = None
    BY DEF Accounts, Over
  <2>2. CASE platform[q] \in {"anyrent", "rently"}
    BY <2>1, <2>2 DEF Accounts, Over
  <2>3. CASE Return(q, "panicked") /\ UNCHANGED worker
    BY <2>1, <2>3 DEF Accounts, Over
  <2>4. CASE /\ Go(q, Asking(platform[q])) /\ UNCHANGED closed
             /\ worker' = [worker EXCEPT ![q] =
                  [b \in Branch |-> IF b \notin BranchesOf(platform[q]) THEN "unborn"
                                    ELSE IF b = "extras" THEN "fetching" ELSE "asking"]]
             /\ platform[q] \notin {"anyrent", "rently"}
    <3>1. CASE platform[q] = "hertz"
      BY <2>1, <2>4, <3>1 DEF Accounts, Owed, Over, Branch, BranchesOf, Asking
    <3>2. CASE platform[q] \in {"profitmaxdht", "bookingcom"}
      BY <2>1, <2>4, <3>2 DEF Accounts, Owed, Over, Count, Branch, BranchesOf, Asking
    <3>3. QED
      BY <1>1, <2>4, <3>1, <3>2 DEF Platform
  <2>5. QED
    BY <2>2, <2>3, <2>4
<1>4. ASSUME NEW r \in Request \ {q} PROVE Accounts(r)'
  BY <1>4, Untouched
<1>5. QED
  BY <1>1, <1>2, <1>3, <1>4

-----------------------------------------------------------------------------
\* The progress of a request that a step leaves where it is.
LEMMA ProgressOf ==
  ASSUME NEW r \in Request, Progress(r), errorAborts' = errorAborts,
         main'[r] = "idle" <=> main[r] = "idle",
         stage'[r] = stage[r], bodies'[r] = bodies[r]
  PROVE  Progress(r)'
BY DEF Progress

LEMMA NextKeeps == IInv /\ [Next]_vars => IInv'
<1> SUFFICES ASSUME IInv, [Next]_vars PROVE IInv'
  OBVIOUS
<1>1. RatesTypeOK /\ (\A r \in Request : Accounts(r)) /\ \A r \in Request : Progress(r)
  BY DEF IInv, TypeOK
<1>2. ASSUME UNCHANGED ratesVars PROVE RatesTypeOK' /\ \A r \in Request : Accounts(r)'
  BY <1>1, <1>2 DEF ratesVars, RatesTypeOK, Accounts, Owed, Delivered, Count
<1>3. ASSUME UNCHANGED <<stage, bodies, errorAborts>>, UNCHANGED main
      PROVE  \A r \in Request : Progress(r)'
  BY <1>1, <1>3 DEF Progress
<1>4. CASE Stop
  <2>1. RatesTypeOK' /\ (\A r \in Request : Accounts(r)') /\ \A r \in Request : Progress(r)'
    BY <1>2, <1>3, <1>4 DEF Stop, ratesVars
  <2>2. Stopping'
    BY <1>4 DEF Stop, Stopping, TypeOK, IInv, Running
  <2>3. TypeOK'
    BY <1>4, <2>1 DEF Stop, TypeOK, IInv
  <2>4. QED
    BY <2>1, <2>2, <2>3 DEF IInv
<1>5. CASE Fail \/ Exit
  <2>1. RatesTypeOK' /\ (\A r \in Request : Accounts(r)') /\ \A r \in Request : Progress(r)'
    BY <1>2, <1>3, <1>5 DEF Fail, Exit, ratesVars
  <2>2. Stopping' /\ TypeOK'
    BY <1>5, <2>1, NoneIsNoCode DEF Fail, Exit, Stopping, TypeOK, IInv, Running
  <2>3. QED
    BY <2>1, <2>2 DEF IInv
<1>6. ASSUME UNCHANGED serverVars, RatesTypeOK', \A r \in Request : Accounts(r)',
             \A r \in Request : Progress(r)',
             stage' \in [Request -> {"client", "validate", "platform", "register",
                                     "params", "grouping", "handler", "ended"}],
             bodies' \in [Request -> 0 .. 3], registry' \subseteq Platform,
             UNCHANGED errorAborts
      PROVE  IInv'
  BY <1>6 DEF IInv, TypeOK, Stopping, serverVars
<1>7. CASE Expire
  <2>1. RatesTypeOK' /\ (\A r \in Request : Accounts(r)') /\ \A r \in Request : Progress(r)'
    BY <1>1, <1>3, <1>7, Untouched DEF Expire, ExpireExtras, hubVars, RatesTypeOK
  <2>2. QED
    BY <1>6, <1>7, <2>1 DEF Expire, hubVars, serverVars, IInv, TypeOK
<1>8. ASSUME NEW q \in Request, Work(q) PROVE IInv'
  <2>1. /\ RatesTypeOK' /\ \A r \in Request : Accounts(r)'
        /\ \A r \in Request : main'[r] = "idle" <=> main[r] = "idle"
    BY <1>1, <1>8, RatesStepKeeps DEF Work
  <2>2. \A r \in Request : Progress(r)'
    BY <1>1, <1>8, <2>1, ProgressOf DEF Work, hubVars, IInv
  <2>3. QED
    BY <1>6, <1>8, <2>1, <2>2 DEF Work, hubVars, serverVars, IInv, TypeOK
<1>9. ASSUME NEW q \in Request, CallExecute(q) PROVE IInv'
  <2>1. /\ RatesTypeOK' /\ \A r \in Request : Accounts(r)'
        /\ main'[q] # "idle" /\ \A r \in Request \ {q} : main'[r] = main[r]
    BY <1>1, <1>9, StartKeeps DEF CallExecute
  <2>2. \A r \in Request : Progress(r)'
    BY <1>1, <1>9, <2>1 DEF CallExecute, InStage, hubVars, Progress
  <2>3. QED
    BY <1>6, <1>9, <2>1, <2>2 DEF CallExecute, hubVars, serverVars, IInv, TypeOK
<1>10. ASSUME NEW q \in Request,
              \/ Accept(q) \/ Validate(q) \/ LookUp(q) \/ Register(q)
              \/ UnknownPlatform(q) \/ PrepareParams(q) \/ Group(q) \/ Respond(q)
       PROVE  IInv'
  <2>1. RatesTypeOK' /\ \A r \in Request : Accounts(r)'
    <3>1. CASE LookUp(q)
      <4>1. Writing \in BOOLEAN
        BY DEF Writing
      <4>2. QED
        BY <1>1, <3>1, <4>1, Untouched DEF LookUp, RatesTypeOK
    <3>2. CASE UNCHANGED ratesVars
      BY <1>2, <3>2
    <3>3. QED
      BY <1>10, <3>1, <3>2 DEF Accept, Validate, Register, UnknownPlatform,
         PrepareParams, Group, Respond
  <2>2. UNCHANGED <<main, errorAborts, serverVars>>
    BY <1>10 DEF Accept, Validate, LookUp, Register, UnknownPlatform, PrepareParams,
       Group, Respond, ratesVars
  <2>3. /\ bodies[q] \in 0 .. 3 /\ bodies'[q] \in {bodies[q], bodies[q] + 1}
        /\ stage' = [stage EXCEPT ![q] = stage'[q]]
        /\ bodies' = [bodies EXCEPT ![q] = bodies'[q]]
        /\ stage'[q] \in {"validate", "platform", "register", "params", "grouping",
                          "handler", "ended"}
    BY <1>10 DEF Accept, Validate, LookUp, Register, UnknownPlatform, PrepareParams,
       Group, Respond, HandleError, Enter, Write, End, IInv, TypeOK
  <2>4. Progress(q)' /\ bodies'[q] \in 0 .. 3
    <3>1. Progress(q)
      BY <1>1
    <3>2. CASE Accept(q) \/ LookUp(q) \/ Register(q)
      BY <2>2, <2>3, <3>1, <3>2 DEF Accept, LookUp, Register, Enter, InStage, Progress,
         IInv, TypeOK
    <3>3. CASE Validate(q) \/ UnknownPlatform(q) \/ PrepareParams(q)
      BY <2>2, <2>3, <3>1, <3>3 DEF Validate, UnknownPlatform, PrepareParams, HandleError,
         Write, End, Enter, InStage, Progress, IInv, TypeOK
    <3>4. CASE Group(q)
      BY <2>2, <2>3, <3>1, <3>4 DEF Group, HandleError, Write, End, Enter, InStage,
         Progress, IInv, TypeOK
    <3>5. CASE Respond(q)
      BY <2>2, <2>3, <3>1, <3>5 DEF Respond, Write, End, Enter, InStage, Progress,
         IInv, TypeOK
    <3>6. QED
      BY <1>10, <3>2, <3>3, <3>4, <3>5
  <2>5. ASSUME NEW r \in Request \ {q} PROVE Progress(r)'
    BY <1>1, <2>2, <2>3, <2>5, ProgressOf DEF IInv, TypeOK
  <2>6. registry' \subseteq Platform
    <3>1. registry \subseteq Platform /\ platform[q] \in Platform
      BY DEF IInv, TypeOK, RatesTypeOK
    <3>2. registry' \in {registry, registry \cup {platform[q]}}
      BY <1>10 DEF Accept, Validate, LookUp, Register, UnknownPlatform, PrepareParams,
         Group, Respond
    <3>3. QED
      BY <3>1, <3>2
  <2>7. QED
    BY <1>6, <2>1, <2>2, <2>3, <2>4, <2>5, <2>6 DEF IInv, TypeOK
<1>11. CASE UNCHANGED vars
  BY <1>1, <1>2, <1>3, <1>6, <1>11 DEF vars, hubVars, serverVars, ratesVars, IInv, TypeOK
<1>12. QED
  BY <1>4, <1>5, <1>7, <1>8, <1>9, <1>10, <1>11 DEF Next, RouteStep

LEMMA Inductive == Spec => []IInv
BY InitIInv, NextKeeps, PTL DEF Spec

-----------------------------------------------------------------------------
\* Every variable keeps its type.
THEOREM TypeCorrect == Spec => []TypeOK
BY Inductive, PTL DEF IInv

\* Execute closes its channels when no goroutine is left to send on one.
THEOREM NoSendOnClosedHolds == Spec => []NoSendOnClosed
<1>1. IInv => NoSendOnClosed
  BY DEF IInv, Accounts, NoSendOnClosed
<1>2. QED
  BY <1>1, Inductive, PTL

\* How many branches a set of them has.
LEMMA BranchesCounted ==
  ASSUME NEW S \in SUBSET Branch
  PROVE  Cardinality(S) =
           (IF "rates" \in S THEN 1 ELSE 0) + (IF "extras" \in S THEN 1 ELSE 0)
<1>1. Cardinality({}) = 0 /\ Cardinality({"rates"}) = 1 /\ Cardinality({"extras"}) = 1
  BY FS_EmptySet, FS_Singleton
<1>2. Cardinality(Branch) = 2
  <2> DEFINE R == {"rates"}
  <2>1. IsFiniteSet(R) /\ Cardinality(R) = 1 /\ "extras" \notin R
    BY <1>1, FS_Singleton
  <2>2. R \cup {"extras"} = Branch
    BY DEF Branch
  <2> HIDE DEF R
  <2>3. Cardinality(R \cup {"extras"}) = Cardinality(R) + 1
    BY <2>1, FS_AddElement
  <2>4. QED
    BY <2>1, <2>2, <2>3
<1>3. S = {} \/ S = {"rates"} \/ S = {"extras"} \/ S = Branch
  BY DEF Branch
<1>4. CASE S = Branch
  BY <1>2, <1>4 DEF Branch
<1>5. CASE S # Branch
  BY <1>1, <1>3, <1>5
<1>6. QED
  BY <1>4, <1>5

\* What is answered tells of every branch that failed, once, and has no vehicles
\* when the rates are among them.
THEOREM FailuresReportedHolds == Spec => []FailuresReported
<1>1. IInv => FailuresReported
  <2> SUFFICES ASSUME IInv, NEW q \in Request, main[q] = "done"
               PROVE  /\ errors[q] = Cardinality(failed[q])
                      /\ vehicles[q] => "rates" \notin failed[q]
    BY DEF FailuresReported
  <2>1. Accounts(q) /\ failed[q] \in SUBSET Branch
    BY DEF IInv, TypeOK, RatesTypeOK
  <2>2. QED
    BY <2>1, BranchesCounted DEF Accounts, Count
<1>2. QED
  BY <1>1, Inductive, PTL

\* Every request that ends has been answered, as often as errorAborts says.
THEOREM AnsweredHolds == Spec => []Answered
<1>1. IInv => Answered
  <2> SUFFICES ASSUME IInv, NEW q \in Request
               PROVE  /\ bodies[q] > 0 => stage[q] # "client"
                      /\ stage[q] = "ended" =>
                           IF errorAborts THEN bodies[q] = 1
                           ELSE bodies[q] \in IF main[q] # "idle" THEN 1 .. 3 ELSE 1 .. 2
    BY DEF Answered
  <2>1. Progress(q)
    BY DEF IInv
  <2>2. QED
    BY <2>1 DEF Progress
<1>2. QED
  BY <1>1, Inductive, PTL

\* A signal never makes the exit code 1.
THEOREM ExitCodeHolds == Spec => []ExitCode
<1>1. IInv => ExitCode
  BY DEF IInv, Stopping, ExitCode
<1>2. QED
  BY <1>1, Inductive, PTL

\* A process in which every platform has been made stays so, and no goroutine ends
\* it.
THEOREM SafeWhenWarmHolds == Spec => SafeWhenWarm
<1>1. IInv /\ [Next]_vars => (Warm /\ ~crashed => Warm' /\ ~crashed')
  <2> SUFFICES ASSUME IInv, [Next]_vars, Warm, ~crashed PROVE Warm' /\ ~crashed'
    OBVIOUS
  <2>1. /\ RatesTypeOK /\ (\A q \in Request : Accounts(q))
        /\ DOMAIN stage = Request /\ stage = [q \in Request |-> stage[q]]
    BY DEF IInv, TypeOK
  <2>2. ASSUME ~crashed', UNCHANGED platform, registry \subseteq registry',
               \A q \in Request : stage'[q] # "register" \/ stage'[q] = stage[q]
        PROVE  Warm' /\ ~crashed'
    BY <2>2 DEF Warm, Writing
  <2>3. ASSUME NEW q \in Request, Work(q) PROVE Warm' /\ ~crashed'
    BY <2>1, <2>2, <2>3, RatesStepKeeps DEF Work, hubVars
  <2>4. ASSUME NEW q \in Request, CallExecute(q) PROVE Warm' /\ ~crashed'
    BY <2>1, <2>2, <2>4, StartKeeps DEF CallExecute, hubVars
  <2>5. ASSUME NEW q \in Request, LookUp(q) PROVE Warm' /\ ~crashed'
    <3>1. platform[q] \in registry /\ ~Writing
      BY DEF Warm
    <3>2. Writing = FALSE
      BY <3>1 DEF Writing
    <3>3. ~crashed'
      BY <2>5, <3>2 DEF LookUp
    <3>4. /\ UNCHANGED platform /\ registry \subseteq registry'
          /\ \A r \in Request : stage'[r] # "register" \/ stage'[r] = stage[r]
      BY <2>1, <2>5, <3>1 DEF LookUp, Enter
    <3>5. QED
      BY <2>2, <3>3, <3>4
  <2>6. ASSUME NEW q \in Request,
               \/ Accept(q) \/ Validate(q) \/ Register(q)
               \/ UnknownPlatform(q) \/ PrepareParams(q) \/ Group(q) \/ Respond(q)
        PROVE  Warm' /\ ~crashed'
    BY <2>1, <2>2, <2>6 DEF Accept, Validate, Register, UnknownPlatform, PrepareParams,
       Group, Respond, HandleError, Enter, End, ratesVars
  <2>7. CASE Expire \/ Stop \/ Fail \/ Exit \/ UNCHANGED vars
    BY <2>2, <2>7 DEF Expire, ExpireExtras, Stop, Fail, Exit, vars, hubVars, ratesVars
  <2>8. QED
    BY <2>3, <2>4, <2>5, <2>6, <2>7 DEF Next, RouteStep
<1>2. QED
  BY <1>1, Inductive, PTL DEF Spec, SafeWhenWarm
=============================================================================
