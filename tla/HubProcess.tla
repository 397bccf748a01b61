----------------------------- MODULE HubProcess -----------------------------
(***************************************************************************)
(* A hub process: the server of src/cmd/server.go and, within it, POST     *)
(* /:platform/rates as SetupRouter (web.go) and RegisterRoutes             *)
(* (platform.go) put it together.  gin runs the functions of a route one   *)
(* after the other; one that returns without Abort lets the next one run.  *)
(* The handler at the end is Execute of SupplierRates.                     *)
(*                                                                         *)
(* StartRequest, CorrelationId, RegisterLogger, TraceLog and TapLogger set *)
(* what logging needs and are left out.                                    *)
(***************************************************************************)
EXTENDS SupplierRates

CONSTANT Unregistered  \* the platforms that no request was made of before

ASSUME NoneIsNoCode == None \notin {0, 1}

VARIABLES
  stage,         \* the function of the route at which a request is
  bodies,        \* how many JSON bodies its response has got
  errorAborts,   \* service-helpers, external: does HandleError abort the chain
  registry,      \* Factory.platforms: the names that GetPlatform has made a platform for
  listener,      \* of the HTTP server: "open", "closed" or "failed"
  shutdown,      \* serverApp's variable
  stopper,       \* its goroutine that waits for a signal
  exit           \* the process's exit code, None while it runs

hubVars == <<stage, bodies, errorAborts, registry, listener, shutdown, stopper, exit>>
vars == <<ratesVars, hubVars>>
serverVars == <<listener, shutdown, stopper, exit>>

Init ==
  /\ InitRates
  /\ stage = [q \in Request |-> "client"]
  /\ bodies = [q \in Request |-> 0]
  /\ errorAborts \in BOOLEAN
  /\ registry = Platform \ Unregistered
  /\ listener = "open" /\ shutdown = FALSE /\ stopper = "waiting" /\ exit = None

Running == exit = None /\ ~crashed
InStage(q, s) == Running /\ stage[q] = s
Enter(q, s) == stage' = [stage EXCEPT ![q] = s]
Write(q) == bodies' = [bodies EXCEPT ![q] = @ + 1]
End(q) == Enter(q, "ended")

\* HandleError and a return: to the next function, unless it aborts.
HandleError(q, next) ==
  /\ Write(q)
  /\ IF errorAborts THEN End(q) ELSE Enter(q, next)

\* A goroutine is writing the factory's map.
Writing == \E q \in Request : stage[q] = "register"

-----------------------------------------------------------------------------
\* Mistakes this code could contain: each stands for the definition of the
\* same shape below it.

\* The platform is made again for every request.
LookUpAlwaysMakes(q) ==
  /\ InStage(q, "platform")
  /\ Enter(q, "register")
  /\ crashed' \in {FALSE, Writing}
  /\ UNCHANGED <<platform, main, worker, channel, closed, failed, errors, vehicles,
                 equips, bodies, errorAborts, registry, serverVars>>

\* An unknown platform is registered as none before it is refused.
UnknownPlatformKept(q) ==
  /\ InStage(q, "platform")
  /\ Write(q) /\ End(q)
  /\ registry' = registry \cup {None}
  /\ UNCHANGED <<ratesVars, errorAborts, serverVars>>

\* The grouping middleware does not abort when it has written an answer.
GroupWithoutAbort(q) ==
  /\ InStage(q, "grouping")
  /\ \/ Enter(q, "handler") /\ UNCHANGED bodies
     \/ platform[q] \notin {"anyrent", "rently"} /\ Write(q) /\ Enter(q, "handler")
     \/ platform[q] \notin {"anyrent", "rently"} /\ HandleError(q, "handler")
  /\ UNCHANGED <<ratesVars, errorAborts, registry, serverVars>>

\* The flag is set when Shutdown is through.
StopThenFlag ==
  /\ Running
  /\ \/ /\ stopper = "waiting" /\ stopper' = "flagged"
        /\ listener' = IF listener = "open" THEN "closed" ELSE listener
        /\ UNCHANGED shutdown
     \/ stopper = "flagged" /\ stopper' = "draining" /\ shutdown' = TRUE /\ UNCHANGED listener
  /\ UNCHANGED <<ratesVars, stage, bodies, errorAborts, registry, exit>>

-----------------------------------------------------------------------------
\* The server takes a request.
Accept(q) ==
  /\ InStage(q, "client") /\ listener = "open"
  /\ Enter(q, "validate")
  /\ UNCHANGED <<ratesVars, bodies, errorAborts, registry, serverVars>>

\* OpenapiValidator: good, of an unknown path, or not what the document says.
Validate(q) ==
  /\ InStage(q, "validate")
  /\ \/ Enter(q, "platform") /\ UNCHANGED bodies
     \/ Write(q) /\ End(q)
     \/ HandleError(q, "platform")
  /\ UNCHANGED <<ratesVars, errorAborts, registry, serverVars>>

\* PreparePlatform and GetPlatform up to the write to the map, which no lock
\* protects: the Go runtime ends a process that it finds reading or writing a map
\* while another goroutine writes it, and may not find it.
LookUp(q) ==
  /\ InStage(q, "platform")
  /\ Enter(q, IF platform[q] \in registry THEN "params" ELSE "register")
  /\ crashed' \in {FALSE, Writing}
  /\ UNCHANGED <<platform, main, worker, channel, closed, failed, errors, vehicles,
                 equips, bodies, errorAborts, registry, serverVars>>

Register(q) ==
  /\ InStage(q, "register")
  /\ registry' = registry \cup {platform[q]}
  /\ Enter(q, "params")
  /\ UNCHANGED <<ratesVars, bodies, errorAborts, serverVars>>

\* A platform that is none: PreparePlatform answers and aborts.
UnknownPlatform(q) ==
  /\ InStage(q, "platform")
  /\ Write(q) /\ End(q)
  /\ UNCHANGED <<ratesVars, errorAborts, registry, serverVars>>

\* PrepareParams
PrepareParams(q) ==
  /\ InStage(q, "params")
  /\ \/ Enter(q, "grouping") /\ UNCHANGED bodies
     \/ Write(q) /\ End(q)
  /\ UNCHANGED <<ratesVars, errorAborts, registry, serverVars>>

\* Middleware of grouping: the request manager has the handler run, or has an
\* answer already, which is written before Abort, or an error, which is written
\* without.  Two platforms have no key and go on to the handler.
Group(q) ==
  /\ InStage(q, "grouping")
  /\ \/ Enter(q, "handler") /\ UNCHANGED bodies
     \/ platform[q] \notin {"anyrent", "rently"} /\ Write(q) /\ End(q)
     \/ platform[q] \notin {"anyrent", "rently"} /\ HandleError(q, "handler")
  /\ UNCHANGED <<ratesVars, errorAborts, registry, serverVars>>

\* The rates handler of platform.go calls GetRates.
CallExecute(q) ==
  /\ InStage(q, "handler") /\ Start(q)
  /\ UNCHANGED hubVars

\* It answers with what comes back, HandleError with an error that does, and
\* PanicRecovery with HandleError for one that panics.  Nothing runs after it.
Respond(q) ==
  /\ InStage(q, "handler") /\ main[q] \in {"done", "error", "panicked"}
  /\ Write(q) /\ End(q)
  /\ UNCHANGED <<ratesVars, errorAborts, registry, serverVars>>

\* Execute's own steps, while the process runs.
Work(q) == Running /\ RatesStep(q) /\ UNCHANGED hubVars

Expire == ExpireExtras /\ exit = None /\ UNCHANGED hubVars

\* serverApp's second goroutine: at a signal the flag, then Shutdown, which first
\* of all makes ListenAndServe return.  It goes on to wait for the requests.
Stop ==
  /\ Running
  /\ \/ stopper = "waiting" /\ stopper' = "flagged" /\ shutdown' = TRUE /\ UNCHANGED listener
     \/ /\ stopper = "flagged" /\ stopper' = "draining"
        /\ listener' = IF listener = "open" THEN "closed" ELSE listener
        /\ UNCHANGED shutdown
  /\ UNCHANGED <<ratesVars, stage, bodies, errorAborts, registry, exit>>

\* ListenAndServe fails of itself.
Fail ==
  /\ Running /\ listener = "open" /\ listener' = "failed"
  /\ UNCHANGED <<ratesVars, stage, bodies, errorAborts, registry, shutdown, stopper, exit>>

\* serverApp returns when ListenAndServe has, and with it main: whatever request
\* is being served, the process is over.  The read of the flag is ordered after its
\* write only by Shutdown: when ListenAndServe fails of itself either value may be
\* read once the other goroutine has written.
Exit ==
  /\ Running /\ listener # "open"
  /\ exit' \in IF ~shutdown THEN {1} ELSE IF listener = "closed" THEN {0} ELSE {0, 1}
  /\ UNCHANGED <<ratesVars, stage, bodies, errorAborts, registry, listener, shutdown, stopper>>

RouteStep(q) ==
  \/ Validate(q) \/ LookUp(q) \/ Register(q) \/ UnknownPlatform(q) \/ PrepareParams(q)
  \/ Group(q) \/ CallExecute(q) \/ Respond(q)

Next ==
  \/ \E q \in Request : Accept(q) \/ RouteStep(q) \/ Work(q)
  \/ Expire \/ Stop \/ Fail \/ Exit

\* A goroutine that can run does; nothing makes a signal or a failure come.
Fairness ==
  /\ \A q \in Request :
       /\ WF_vars(RouteStep(q))
       /\ WF_vars(Running /\ ExecuteStep(q) /\ UNCHANGED hubVars)
       /\ WF_vars(Running /\ FetchExtras(q) /\ UNCHANGED hubVars)
       /\ \A b \in Branch : WF_vars(Running /\ WorkerStep(q, b) /\ UNCHANGED hubVars)
  /\ WF_vars(Exit)

Spec == Init /\ [][Next]_vars /\ Fairness

-----------------------------------------------------------------------------
TypeOK ==
  /\ RatesTypeOK
  /\ stage \in [Request -> {"client", "validate", "platform", "register", "params",
                            "grouping", "handler", "ended"}]
  /\ bodies \in [Request -> 0 .. 3]
  /\ errorAborts \in BOOLEAN
  /\ registry \subseteq Platform
  /\ listener \in {"open", "closed", "failed"}
  /\ shutdown \in BOOLEAN
  /\ stopper \in {"waiting", "flagged", "draining"}
  /\ exit \in {None, 0, 1}

\* Every request that ends has been answered.  It has been answered once if
\* HandleError aborts; if it does not, the validator and the grouping middleware
\* may each have answered before the handler does, and nobody else.
Answered ==
  \A q \in Request :
    /\ bodies[q] > 0 => stage[q] # "client"
    /\ stage[q] = "ended" =>
         IF errorAborts THEN bodies[q] = 1
         ELSE bodies[q] \in IF main[q] # "idle" THEN 1 .. 3 ELSE 1 .. 2

\* The exit code is 1 only if the server has failed: a signal never makes it one,
\* though the flag that tells the two apart is written by another goroutine.
ExitCode == exit = 1 => listener = "failed"

\* Every platform that is asked for has been made.
Warm == {platform[q] : q \in Request} \subseteq registry /\ ~Writing

\* Only the first requests for a platform can end the process through its map:
\* once the process is warm it stays so, and no goroutine ends it any more.
SafeWhenWarm == [][Warm /\ ~crashed => Warm' /\ ~crashed']_vars

\* A request the server has taken ends, unless the process does.
EverythingEnds ==
  \A q \in Request :
    stage[q] = "validate" ~> stage[q] = "ended" \/ exit # None \/ crashed
=============================================================================
