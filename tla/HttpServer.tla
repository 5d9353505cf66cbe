----------------------------- MODULE HttpServer -----------------------------
(***************************************************************************)
(* A server that has booted: the router with its middleware (MWMetrics     *)
(* around everything, MWAuth around the generator's routes), the handlers, *)
(* and the two goroutines of main: one in ListenAndServe, and one, the     *)
(* stopper, that waits for a signal and calls Shutdown.                    *)
(*                                                                         *)
(* net/http and chi are external: a goroutine per request, only the first  *)
(* WriteHeader of a request counts, Shutdown closes the listener, upon     *)
(* which ListenAndServe returns ErrServerClosed, and returns nil when no   *)
(* request is left or the error of its context.                            *)
(***************************************************************************)
EXTENDS Naturals, Sequences, FiniteSets

CONSTANTS
  Slots,     \* goroutines of requests
  Inquiries, \* what clients send: [method, path, token, input]
  Outcomes,  \* how calls of service.Generator and service.Auth end
  PortTaken  \* whether the port may be in use

\* AppErr.HTTPStatus of each error in domain/errors.go.
StatusOf ==
  [ErrInternal |-> 500, ErrBadRequest |-> 400, ErrNotFound |-> 404, ErrConflict |-> 409,
   ErrUnprocessableEntity |-> 422, ErrUnauthorized |-> 401, ErrStorageBadRequest |-> 500,
   ErrWrongSigningMethod |-> 401, ErrInvalidToken |-> 401, ErrGenClient |-> 500,
   ErrJobNotFinished |-> 400, ErrHashComparing |-> 401]

ASSUME ServerAssumption ==
  /\ IsFiniteSet(Slots)
  /\ Inquiries \subseteq
       [method : {"GET", "POST"}, path : STRING, token : {"none", "no prefix", "invalid", "valid"},
        input : {"good", "no id", "unreadable", "unparsable"}]
  /\ Outcomes \subseteq {"ok", "unexpected"} \cup DOMAIN StatusOf
  /\ PortTaken \in BOOLEAN

VARIABLES
  req,       \* the request in each slot and where its goroutine stands
  gauge,     \* http_requests_in_flight
  listener,  \* "none", "open" or "closed"
  serve,     \* the goroutine of ListenAndServe
  stopper,   \* the goroutine of Shutdown
  err,       \* the variable of main that both assign
  logged,    \* what they have logged
  signalled, \* SIGTERM or SIGINT came
  expired,   \* shutDownCtx has ended
  drained,   \* Shutdown has returned nil
  exited,    \* main has returned
  cut        \* slots whose request ended with the process

goroutines == <<listener, serve, stopper, err, logged, signalled, expired, drained, exited, cut>>
vars == <<req, gauge, goroutines>>

Free == [at |-> "free"]
Busy == {s \in Slots : req[s] # Free}

Errors   == {"nil", "ErrServerClosed", "address in use", "deadline exceeded"}
Messages == {"can't start http server", "can't stop server gracefully",
             "server have been stopped gracefully"}

TypeOK ==
  /\ \A s \in Busy :
       /\ req[s].at \in {"guard", "handler", "service", "sent"}
       /\ req[s].inquiry \in Inquiries
       /\ req[s].outcome \in Outcomes \cup {"none", "ok"}
       /\ req[s].answers \in Seq(Nat)
  /\ gauge \in Nat
  /\ listener \in {"none", "open", "closed"}
  /\ serve \in {"starting", "listening", "checking", "returned"}
  /\ stopper \in {"waiting", "stopping", "checking", "returned"}
  /\ err \in Errors
  /\ logged \subseteq Messages
  /\ {signalled, expired, drained, exited} \subseteq BOOLEAN
  /\ cut \subseteq Slots

Init ==
  /\ req = [s \in Slots |-> Free]
  /\ gauge = 0
  /\ listener = "none"
  /\ serve = "starting"
  /\ stopper = "waiting"
  /\ err = "nil"
  /\ logged = {}
  /\ signalled = FALSE
  /\ expired = FALSE
  /\ drained = FALSE
  /\ exited = FALSE
  /\ cut = {}

-----------------------------------------------------------------------------
(* Routes and middleware                                                   *)

Guarded   == {"/bulk_generate", "/get_job_status", "/get_archive_info", "/get_archive"}
Unmetered == {"/health", "/metrics"}

Routes ==
  {<<"GET", "/health">>, <<"GET", "/metrics">>, <<"POST", "/metrics">>,
   <<"POST", "/bulk_generate">>, <<"GET", "/get_job_status">>,
   <<"GET", "/get_archive_info">>, <<"GET", "/get_archive">>,
   <<"POST", "/auth/register">>, <<"GET", "/auth/login">>}

Stage(l, q, o, a) == [at |-> l, inquiry |-> q, outcome |-> o, answers |-> a]

\* chi looks for the route inside MWMetrics; MWAuth belongs to the routes it guards.
Enter(q) ==
  IF <<q.method, q.path>> \in Routes
  THEN Stage(IF q.path \in Guarded THEN "guard" ELSE "handler", q, "none", <<>>)
  ELSE Stage("sent", q, "none", <<IF \E r \in Routes : r[2] = q.path THEN 405 ELSE 404>>)

\* The request in slot s becomes r.
Put(s, r) == req' = [req EXCEPT ![s] = r]

Accept(s, q) ==
  /\ listener = "open"
  /\ req[s] = Free
  /\ Put(s, Enter(q))
  /\ gauge' = IF q.path \in Unmetered THEN gauge ELSE gauge + 1
  /\ UNCHANGED goroutines

\* The last thing a handler or a middleware does: each of the codes is a WriteHeader.
Answer(s, o, codes) ==
  Put(s, Stage("sent", req[s].inquiry, o, req[s].answers \o codes))

Continue(s, l) == Put(s, Stage(l, req[s].inquiry, "none", req[s].answers))

\* MUTANT: no return after writeError.
GuardFallsThrough(s) ==
  /\ req[s].at = "guard"
  /\ Put(s, Stage("handler", req[s].inquiry, "none",
                 IF req[s].inquiry.token = "valid" THEN <<>> ELSE <<401>>))
  /\ UNCHANGED <<gauge, goroutines>>

\* MWAuth
Guard(s) ==
  /\ req[s].at = "guard"
  /\ IF req[s].inquiry.token = "valid" THEN Continue(s, "handler") ELSE Answer(s, "none", <<401>>)
  /\ UNCHANGED <<gauge, goroutines>>

\* writeResponse for "ok", whose Write fails when the client is gone: writeError then
\* tries a second header.  writeError for an error: 500 unless it wraps an AppErr.
Reply(s, o) ==
  IF o = "ok"
  THEN Answer(s, o, <<200>>) \/ Answer(s, o, <<200, 500>>)
  ELSE Answer(s, o, <<IF o = "unexpected" THEN 500 ELSE StatusOf[o]>>)

\* What a handler answers to an input it cannot use; 200 if it can.
InputStatus(q) ==
  LET auth == {"/auth/register", "/auth/login"}
  IN  CASE q.input = "unreadable" /\ q.path \in auth \cup {"/bulk_generate"} -> 500
        [] q.input = "unparsable" /\ q.path \in auth -> 422
        [] q.input = "no id" /\ q.path \in Guarded \ {"/bulk_generate"} -> 400
        [] OTHER -> 200

\* The handlers up to their call of the service.
Handle(s) ==
  /\ req[s].at = "handler"
  /\ LET q == req[s].inquiry
     IN  IF q.path \in Unmetered THEN Reply(s, "ok")
         ELSE IF InputStatus(q) = 200 THEN Continue(s, "service")
         ELSE Answer(s, "none", <<InputStatus(q)>>)
  /\ UNCHANGED <<gauge, goroutines>>

\* The service returns, and the handler answers accordingly.
Serve(s) ==
  /\ req[s].at = "service"
  /\ \E o \in Outcomes : Reply(s, o)
  /\ UNCHANGED <<gauge, goroutines>>

\* MUTANT: the deferred Dec runs for /health and /metrics, too.
LeaveCountsAll(s) ==
  /\ req[s].at = "sent"
  /\ gauge' = gauge - 1
  /\ Put(s, Free)
  /\ UNCHANGED goroutines

\* The middleware returns; MWMetrics runs its deferred Dec.
Leave(s) ==
  /\ req[s].at = "sent"
  /\ gauge' = IF req[s].inquiry.path \in Unmetered THEN gauge ELSE gauge - 1
  /\ Put(s, Free)
  /\ UNCHANGED goroutines

-----------------------------------------------------------------------------
(* The goroutine of ListenAndServe                                         *)

ServeGets(e) == err' = e /\ serve' = "checking"

Listen ==
  /\ serve = "starting"
  /\ \/ listener = "closed" /\ ServeGets("ErrServerClosed") /\ UNCHANGED listener
     \/ listener = "none" /\ PortTaken /\ ServeGets("address in use") /\ UNCHANGED listener
     \/ listener = "none" /\ listener' = "open" /\ serve' = "listening" /\ UNCHANGED err
  /\ UNCHANGED <<req, gauge, stopper, logged, signalled, expired, drained, exited, cut>>

ServeReturns ==
  /\ serve = "listening"
  /\ listener = "closed"
  /\ ServeGets("ErrServerClosed")
  /\ UNCHANGED <<req, gauge, listener, stopper, logged, signalled, expired, drained, exited, cut>>

Log(m) == logged' = logged \cup m

ServeChecks ==
  /\ serve = "checking"
  /\ Log(IF err # "nil" THEN {"can't start http server"} ELSE {})
  /\ serve' = "returned"
  /\ UNCHANGED <<req, gauge, listener, stopper, err, signalled, expired, drained, exited, cut>>

-----------------------------------------------------------------------------
(* The stopper                                                             *)

Signal ==
  /\ ~signalled /\ ~exited
  /\ signalled' = TRUE
  /\ UNCHANGED <<req, gauge, listener, serve, stopper, err, logged, expired, drained, exited, cut>>

\* The call of Shutdown; a server that does not listen yet will not any more.
Stop ==
  /\ stopper = "waiting" /\ signalled
  /\ stopper' = "stopping"
  /\ listener' = "closed"
  /\ UNCHANGED <<req, gauge, serve, err, logged, signalled, expired, drained, exited, cut>>

\* shutdown_duration is over.
Deadline ==
  /\ stopper = "stopping" /\ ~expired
  /\ expired' = TRUE
  /\ UNCHANGED <<req, gauge, listener, serve, stopper, err, logged, signalled, drained, exited, cut>>

StopperGets(e) == err' = e /\ stopper' = "checking"

\* MUTANT: Close instead of Shutdown.
ShutdownAtOnce ==
  /\ stopper = "stopping"
  /\ StopperGets("nil")
  /\ drained' = TRUE
  /\ UNCHANGED <<req, gauge, listener, serve, logged, signalled, expired, exited, cut>>

\* MUTANT: Shutdown with a context that never ends.
ShutdownWaits ==
  /\ stopper = "stopping"
  /\ Busy = {} /\ StopperGets("nil") /\ drained' = TRUE
  /\ UNCHANGED <<req, gauge, listener, serve, logged, signalled, expired, exited, cut>>

ShutdownReturns ==
  /\ stopper = "stopping"
  /\ \/ Busy = {} /\ StopperGets("nil") /\ drained' = TRUE
     \/ expired /\ StopperGets("deadline exceeded") /\ UNCHANGED drained
  /\ UNCHANGED <<req, gauge, listener, serve, logged, signalled, expired, exited, cut>>

\* Only whether err is nil decides, so a torn read of the interface changes nothing
\* but the text.
StopperChecks ==
  /\ stopper = "checking"
  /\ Log(IF err # "nil" THEN {"can't stop server gracefully"}
         ELSE {"server have been stopped gracefully"})
  /\ stopper' = "returned"
  /\ UNCHANGED <<req, gauge, listener, serve, err, signalled, expired, drained, exited, cut>>

\* wg.Wait returns, main ends, and requests end with it.
Exit ==
  /\ serve = "returned" /\ stopper = "returned" /\ ~exited
  /\ exited' = TRUE
  /\ cut' = Busy
  /\ UNCHANGED <<req, gauge, listener, serve, stopper, err, logged, signalled, expired, drained>>

-----------------------------------------------------------------------------
Request(s) ==
  /\ ~exited
  /\ \/ Guard(s) \/ Handle(s) \/ Serve(s) \/ Leave(s)
     \/ \E q \in Inquiries : Accept(s, q)

Goroutines ==
  \/ Listen \/ ServeReturns \/ ServeChecks
  \/ Stop \/ Deadline \/ ShutdownReturns \/ StopperChecks \/ Exit

Next ==
  \/ \E s \in Slots : Request(s)
  \/ Goroutines
  \/ Signal

Spec == Init /\ [][Next]_vars

\* The two goroutines run and time passes; no request need ever return.
FairSpec == Spec /\ WF_vars(Goroutines)

-----------------------------------------------------------------------------
(* Properties                                                              *)

\* The services behind MWAuth are called for nobody without a valid token, and no
\* service is called for a request that has been answered already.
OnlyAuthorisedAreServed ==
  \A s \in Busy :
    req[s].at = "service" =>
      /\ req[s].answers = <<>>
      /\ req[s].inquiry.path \in Guarded => req[s].inquiry.token = "valid"

\* Every request gets an answer, one only, and it is 200 exactly if the service did
\* what was asked.  What comes after the first header is the attempt of
\* writeResponse to report that the client has gone.
AnswersAreHonest ==
  \A s \in Busy :
    req[s].at = "sent" =>
      /\ req[s].answers # <<>>
      /\ req[s].answers[1] = 200 <=> req[s].outcome = "ok"
      /\ Len(req[s].answers) > 1 => req[s].answers = <<200, 500>>

\* http_requests_in_flight is the number of requests in flight that it is about,
\* on whatever path each of them leaves.
GaugeIsTrue ==
  gauge = Cardinality({s \in Busy : req[s].inquiry.path \notin Unmetered})

\* A stop that is logged as graceful cut no request off, although the goroutine that
\* logs it looks at a variable that the other one writes to.
GracefulIsComplete == "server have been stopped gracefully" \in logged => drained /\ Busy = {} /\ cut = {}

Stopping == signalled /\ ~exited

\* Neither goroutine ever waits for the other, nor both for the requests: until main has
\* returned, one of the two can go on.
StopIsNeverStuck == Stopping => ENABLED <<Goroutines>>_vars

\* After a signal the process ends, even if requests hang, if the port was taken, or
\* if the signal came before the server listened.
StopEnds == signalled ~> exited
=============================================================================
