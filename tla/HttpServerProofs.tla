--------------------------- MODULE HttpServerProofs ---------------------------
(***************************************************************************)
(* Theorems about HttpServer, for any number of request slots, whatever    *)
(* clients send and services answer.                                       *)
(***************************************************************************)
EXTENDS HttpServer, FiniteSetTheorems, TLAPS

Metered == {s \in Busy : req[s].inquiry.path \notin Unmetered}

\* What Next does, action by action, in one disjunction.
LEMMA Cases ==
  ASSUME Next
  PROVE  \/ \E s \in Slots :
              ~exited /\ \/ \E q \in Inquiries : Accept(s, q)
                         \/ Guard(s) \/ Handle(s) \/ Serve(s) \/ Leave(s)
         \/ Listen \/ ServeReturns \/ ServeChecks
         \/ Stop \/ Deadline \/ ShutdownReturns \/ StopperChecks \/ Exit
         \/ Signal
  BY DEF Next, Request, Goroutines

-----------------------------------------------------------------------------
(* The stop                                                                *)

\* Once the stopper has called Shutdown nobody is let in; only the stopper sets err
\* to nil, and it does so when everybody has left.
StopInv ==
  /\ drained \in BOOLEAN /\ exited \in BOOLEAN
  /\ stopper # "waiting" => listener = "closed"
  /\ drained => stopper \notin {"waiting", "stopping"} /\ Busy = {}
  /\ stopper = "checking" /\ err = "nil" => drained
  /\ stopper # "returned" => ~exited /\ "server have been stopped gracefully" \notin logged
  /\ "server have been stopped gracefully" \in logged => drained
  /\ ~exited => cut = {}
  /\ drained => cut = {}

\* A step of a request changes nothing but its slot and the gauge, and only a
\* listener that is open lets a new one in.
LEMMA RequestStep ==
  ASSUME NEW s \in Slots,
         (\E q \in Inquiries : Accept(s, q)) \/ Guard(s) \/ Handle(s) \/ Serve(s) \/ Leave(s)
  PROVE  /\ goroutines' = goroutines
         /\ \E r : Put(s, r)
         /\ listener = "open" \/ s \in Busy
<1>1. CASE \E q \in Inquiries : Accept(s, q)
  BY <1>1 DEF Accept
<1>2. CASE Guard(s)
  BY <1>2 DEF Guard, Continue, Answer, Busy, Free
<1>3. CASE Handle(s)
  BY <1>3 DEF Handle, Continue, Answer, Reply, Busy, Free
<1>4. CASE Serve(s)
  BY <1>4 DEF Serve, Reply, Answer, Busy, Free
<1>5. CASE Leave(s)
  BY <1>5 DEF Leave, Busy, Free
<1> QED BY <1>1, <1>2, <1>3, <1>4, <1>5

LEMMA StopStep == StopInv /\ [Next]_vars => StopInv'
<1> SUFFICES ASSUME StopInv, [Next]_vars PROVE StopInv'
  OBVIOUS
<1>1. ASSUME NEW s \in Slots,
             (\E q \in Inquiries : Accept(s, q)) \/ Guard(s) \/ Handle(s) \/ Serve(s) \/ Leave(s)
      PROVE  StopInv'
  <2>1. UNCHANGED <<listener, serve, stopper, err, logged, drained, exited, cut>>
    BY <1>1, RequestStep DEF goroutines
  <2>2. ~drained
    <3>1. listener = "open" \/ s \in Busy
      BY <1>1, RequestStep
    <3> QED BY <3>1 DEF StopInv
  <2> QED BY <2>1, <2>2 DEF StopInv
<1>2. CASE Listen
  BY <1>2 DEF StopInv, Listen, ServeGets, Busy
<1>3. CASE ServeReturns
  BY <1>3 DEF StopInv, ServeReturns, ServeGets, Busy
<1>4. CASE ServeChecks
  BY <1>4 DEF StopInv, ServeChecks, Log, Busy
<1>5. CASE Stop
  BY <1>5 DEF StopInv, Stop, Busy
<1>6. CASE Deadline
  BY <1>6 DEF StopInv, Deadline, Busy
<1>7. CASE ShutdownReturns
  <2>1. /\ stopper = "stopping" /\ stopper' = "checking"
        /\ UNCHANGED <<req, listener, logged, exited, cut>>
        /\ \/ Busy = {} /\ drained' = TRUE
           \/ err' = "deadline exceeded" /\ drained' = drained
    BY <1>7 DEF ShutdownReturns, StopperGets
  <2>2. Busy' = Busy
    BY <2>1 DEF Busy
  <2>3. ~exited /\ ~drained /\ cut = {}
    BY <2>1 DEF StopInv
  <2>4. CASE Busy = {} /\ drained' = TRUE
    BY <2>1, <2>2, <2>3, <2>4 DEF StopInv
  <2>5. CASE err' = "deadline exceeded" /\ drained' = drained
    BY <2>1, <2>2, <2>3, <2>5 DEF StopInv
  <2> QED BY <2>1, <2>4, <2>5
<1>8. CASE StopperChecks
  BY <1>8 DEF StopInv, StopperChecks, Log, Busy
<1>9. CASE Exit
  BY <1>9 DEF StopInv, Exit, Busy
<1>10. CASE Signal
  BY <1>10 DEF StopInv, Signal, Busy
<1>11. CASE UNCHANGED vars
  BY <1>11 DEF StopInv, vars, goroutines, Busy
<1> QED
  BY <1>1, <1>2, <1>3, <1>4, <1>5, <1>6, <1>7, <1>8, <1>9, <1>10, <1>11, Cases

\* A stop that is logged as graceful cut no request off: the two goroutines may
\* overwrite each other's err, but what the other one writes is never nil.
THEOREM GracefulStop == Spec => []GracefulIsComplete
<1>1. Init => StopInv
  BY DEF Init, StopInv, Busy
<1>2. StopInv => GracefulIsComplete
  BY DEF StopInv, GracefulIsComplete
<1> QED BY <1>1, <1>2, StopStep, PTL DEF Spec

-----------------------------------------------------------------------------
(* The requests                                                            *)

\* Where a request may stand, and with what answers.
Legal(r) ==
  /\ r.at \in {"guard", "handler", "service"} => r.answers = <<>>
  /\ r.at \in {"handler", "service"} /\ r.inquiry.path \in Guarded => r.inquiry.token = "valid"
  /\ r.at = "sent" =>
       \/ r.outcome = "ok" /\ r.answers \in {<<200>>, <<200, 500>>}
       \/ r.outcome # "ok" /\ \E c \in Nat \ {200} : r.answers = <<c>>

RequestInv ==
  /\ req \in [Slots -> {Free} \cup {req[s] : s \in Slots}]
  /\ \A s \in Slots : req[s] = Free \/ Legal(req[s])

LEMMA FieldsOfStage ==
  ASSUME NEW l, NEW q, NEW o, NEW a
  PROVE  LET r == Stage(l, q, o, a)
         IN  r.at = l /\ r.inquiry = q /\ r.outcome = o /\ r.answers = a /\ r # Free
  <1>1. Stage(l, q, o, a).at = l /\ Stage(l, q, o, a).inquiry = q
        /\ Stage(l, q, o, a).outcome = o /\ Stage(l, q, o, a).answers = a
    BY DEF Stage
  <1>2. Stage(l, q, o, a) # Free
    BY DEF Stage, Free
  <1> QED BY <1>1, <1>2

\* No error of the domain is answered with 200.
LEMMA ErrorsAreErrors ==
  ASSUME NEW o \in DOMAIN StatusOf
  PROVE  o # "ok" /\ StatusOf[o] \in Nat \ {200}
  BY DEF StatusOf

LEMMA InputStatuses ==
  ASSUME NEW q
  PROVE  InputStatus(q) \in {500, 422, 400, 200}
  BY DEF InputStatus

LEMMA PutLegal ==
  ASSUME RequestInv, NEW s \in Slots, NEW r, Put(s, r), r = Free \/ Legal(r)
  PROVE  RequestInv'
<1>1. /\ \A t \in Slots : req'[t] = IF t = s THEN r ELSE req[t]
      /\ req' = [t \in Slots |-> req'[t]]
  BY DEF RequestInv, Put
<1>2. \A t \in Slots : req'[t] = Free \/ Legal(req'[t])
  BY <1>1 DEF RequestInv
<1>3. req' \in [Slots -> {Free} \cup {req'[t] : t \in Slots}]
  BY <1>1
<1> QED BY <1>2, <1>3 DEF RequestInv

LEMMA AnswerLegal ==
  ASSUME RequestInv, NEW s \in Slots, req[s] # Free, req[s].at # "sent", req[s].at \in {"guard", "handler", "service"},
         NEW o, NEW codes, Answer(s, o, codes),
         \/ o = "ok" /\ codes \in {<< 200 >>, <<200, 500>>}
         \/ o # "ok" /\ \E c \in Nat \ {200} : codes = <<c>>
  PROVE  RequestInv'
<1> DEFINE r == Stage("sent", req[s].inquiry, o, req[s].answers \o codes)
<1>1. req[s].answers = <<>>
  BY DEF RequestInv, Legal
<1>2. codes \in Seq(Nat)
  <2>1. CASE codes = <<200>>
    BY <2>1
  <2>2. CASE codes = <<200, 500>>
    BY <2>2
  <2>3. CASE \E c \in Nat \ {200} : codes = <<c>>
    BY <2>3
  <2> QED BY <2>1, <2>2, <2>3
<1>3. req[s].answers \o codes = codes
  BY <1>1, <1>2
<1>4. r.at = "sent" /\ r.outcome = o /\ r.answers = codes
  BY <1>3, FieldsOfStage
<1>5. Legal(r)
  BY <1>4 DEF Legal
<1>6. Put(s, r)
  BY DEF Answer
<1> QED BY <1>5, <1>6, PutLegal

LEMMA ReplyLegal ==
  ASSUME RequestInv, NEW s \in Slots, req[s] # Free, req[s].at \in {"handler", "service"},
         NEW o \in {"ok", "unexpected"} \cup DOMAIN StatusOf, Reply(s, o)
  PROVE  RequestInv'
<1>1. CASE o = "ok"
  BY <1>1, AnswerLegal DEF Reply
<1>2. CASE o = "unexpected"
  <2>1. Answer(s, o, <<500>>)
    BY <1>2 DEF Reply
  <2> QED BY <1>2, <2>1, AnswerLegal
<1>3. CASE o \in DOMAIN StatusOf
  <2>1. o # "ok" /\ StatusOf[o] \in Nat \ {200}
    BY <1>3, ErrorsAreErrors
  <2>2. CASE o = "unexpected"
    BY <1>2, <2>2
  <2>3. CASE o # "unexpected"
    <3>1. Answer(s, o, <<StatusOf[o]>>)
      BY <2>1, <2>3 DEF Reply
    <3> QED BY <2>1, <3>1, AnswerLegal
  <2> QED BY <2>2, <2>3
<1> QED BY <1>1, <1>2, <1>3

LEMMA ContinueLegal ==
  ASSUME RequestInv, NEW s \in Slots, req[s] # Free, req[s].at \in {"guard", "handler"},
         NEW l \in {"handler", "service"}, Continue(s, l),
         req[s].at = "guard" => req[s].inquiry.token = "valid"
  PROVE  RequestInv'
<1> DEFINE r == Stage(l, req[s].inquiry, "none", req[s].answers)
<1>1. r.at = l /\ r.inquiry = req[s].inquiry /\ r.answers = req[s].answers
  BY FieldsOfStage
<1>2. Legal(req[s])
  BY DEF RequestInv
<1>3. Legal(r)
  BY <1>1, <1>2 DEF Legal
<1>4. Put(s, r)
  BY DEF Continue
<1> QED BY <1>3, <1>4, PutLegal

LEMMA RequestInvStep == RequestInv /\ [Next]_vars => RequestInv'
<1> SUFFICES ASSUME RequestInv, [Next]_vars PROVE RequestInv'
  OBVIOUS
<1>1. ASSUME NEW s \in Slots, NEW q \in Inquiries, Accept(s, q) PROVE RequestInv'
  <2>1. Put(s, Enter(q))
    BY <1>1 DEF Accept
  <2>2. CASE <<q.method, q.path>> \in Routes
    <3> DEFINE l == IF q.path \in Guarded THEN "guard" ELSE "handler"
    <3>1. Enter(q) = Stage(l, q, "none", <<>>)
      BY <2>2 DEF Enter
    <3>2. Enter(q).at = l /\ Enter(q).inquiry = q /\ Enter(q).answers = <<>>
      BY <3>1, FieldsOfStage
    <3>3. Legal(Enter(q))
      BY <3>2 DEF Legal
    <3> QED BY <2>1, <3>3, PutLegal
  <2>3. CASE <<q.method, q.path>> \notin Routes
    <3> DEFINE c == IF \E r \in Routes : r[2] = q.path THEN 405 ELSE 404
    <3>1. Enter(q) = Stage("sent", q, "none", <<c>>)
      BY <2>3 DEF Enter
    <3>2. Enter(q).at = "sent" /\ Enter(q).outcome = "none" /\ Enter(q).answers = <<c>>
      BY <3>1, FieldsOfStage
    <3>3. c \in Nat \ {200}
      OBVIOUS
    <3>4. Legal(Enter(q))
      BY <3>2, <3>3 DEF Legal
    <3> QED BY <2>1, <3>4, PutLegal
  <2> QED BY <2>2, <2>3
<1>2. ASSUME NEW s \in Slots, Guard(s) PROVE RequestInv'
  <2>1. req[s] # Free /\ req[s].at = "guard"
    BY <1>2 DEF Guard, Free
  <2>2. CASE req[s].inquiry.token = "valid"
    BY <1>2, <2>1, <2>2, ContinueLegal DEF Guard
  <2>3. CASE req[s].inquiry.token # "valid"
    <3>1. Answer(s, "none", <<401>>)
      BY <1>2, <2>3 DEF Guard
    <3> QED BY <2>1, <3>1, AnswerLegal
  <2> QED BY <2>2, <2>3
<1>3. ASSUME NEW s \in Slots, Handle(s) PROVE RequestInv'
  <2>1. req[s] # Free /\ req[s].at = "handler"
    BY <1>3 DEF Handle, Free
  <2> DEFINE q == req[s].inquiry
  <2>2. CASE q.path \in Unmetered
    BY <1>3, <2>1, <2>2, ReplyLegal DEF Handle
  <2>3. CASE q.path \notin Unmetered /\ InputStatus(q) = 200
    BY <1>3, <2>1, <2>3, ContinueLegal DEF Handle
  <2>4. CASE q.path \notin Unmetered /\ InputStatus(q) # 200
    <3>1. InputStatus(q) \in Nat \ {200}
      BY <2>4, InputStatuses
    <3>2. Answer(s, "none", <<InputStatus(q)>>)
      BY <1>3, <2>4 DEF Handle
    <3> QED BY <2>1, <3>1, <3>2, AnswerLegal
  <2> QED BY <2>2, <2>3, <2>4
<1>4. ASSUME NEW s \in Slots, Serve(s) PROVE RequestInv'
  <2>1. req[s] # Free /\ req[s].at = "service"
    BY <1>4 DEF Serve, Free
  <2>2. PICK o \in Outcomes : Reply(s, o)
    BY <1>4 DEF Serve
  <2>3. o \in {"ok", "unexpected"} \cup DOMAIN StatusOf
    BY ServerAssumption
  <2> QED BY <2>1, <2>2, <2>3, ReplyLegal
<1>5. ASSUME NEW s \in Slots, Leave(s) PROVE RequestInv'
  BY <1>5, PutLegal DEF Leave
<1>6. CASE UNCHANGED req
  BY <1>6 DEF RequestInv
<1>7. CASE \/ Listen \/ ServeReturns \/ ServeChecks
           \/ Stop \/ Deadline \/ ShutdownReturns \/ StopperChecks \/ Exit
           \/ Signal \/ UNCHANGED vars
  BY <1>6, <1>7 DEF Listen, ServeReturns, ServeChecks, Stop, Deadline, ShutdownReturns,
                    StopperChecks, Exit, Signal, vars
<1> QED BY <1>1, <1>2, <1>3, <1>4, <1>5, <1>7, Cases

\* Whoever clients are and whatever services answer, a service behind MWAuth is only
\* called with a valid token, and no service for a request already answered.
THEOREM ServicesAreGuarded == Spec => []OnlyAuthorisedAreServed
<1>1. Init => RequestInv
  BY DEF Init, RequestInv
<1>2. RequestInv => OnlyAuthorisedAreServed
  BY DEF RequestInv, Legal, OnlyAuthorisedAreServed, Busy
<1> QED BY <1>1, <1>2, RequestInvStep, PTL DEF Spec

\* A request gets one answer, which is 200 exactly if the service succeeded.
THEOREM OneHonestAnswer == Spec => []AnswersAreHonest
<1>1. Init => RequestInv
  BY DEF Init, RequestInv
<1>2. RequestInv => AnswersAreHonest
  <2> SUFFICES ASSUME RequestInv, NEW s \in Busy, req[s].at = "sent"
               PROVE  /\ req[s].answers # <<>>
                      /\ req[s].answers[1] = 200 <=> req[s].outcome = "ok"
                      /\ Len(req[s].answers) > 1 => req[s].answers = <<200, 500>>
    BY DEF AnswersAreHonest
  <2>1. Legal(req[s])
    BY DEF RequestInv, Busy
  <2>2. CASE req[s].outcome = "ok" /\ req[s].answers \in {<<200>>, <<200, 500>>}
    <3>1. CASE req[s].answers = <<200>>
      BY <2>2, <3>1
    <3>2. CASE req[s].answers = <<200, 500>>
      BY <2>2, <3>2
    <3> QED BY <2>2, <3>1, <3>2
  <2>3. CASE req[s].outcome # "ok" /\ \E c \in Nat \ {200} : req[s].answers = <<c>>
    BY <2>3
  <2> QED BY <2>1, <2>2, <2>3 DEF Legal
<1> QED BY <1>1, <1>2, RequestInvStep, PTL DEF Spec

-----------------------------------------------------------------------------
(* The gauge                                                               *)

GaugeInv == RequestInv /\ GaugeIsTrue

LEMMA MeteredIsFinite == IsFiniteSet(Metered) /\ Cardinality(Metered) \in Nat
<1>1. Metered \subseteq Slots
  BY DEF Metered, Busy
<1> QED BY <1>1, ServerAssumption, FS_Subset, FS_CardinalityType

\* A request that keeps its slot and its inquiry keeps its place in the gauge.
LEMMA SameMetered ==
  ASSUME RequestInv, NEW s \in Slots, req[s] # Free, NEW l, NEW o, NEW a,
         Put(s, Stage(l, req[s].inquiry, o, a))
  PROVE  Metered' = Metered
<1> DEFINE r == Stage(l, req[s].inquiry, o, a)
<1>1. r.inquiry = req[s].inquiry /\ r # Free
  BY FieldsOfStage
<1>2. \A t \in Slots : req'[t] = IF t = s THEN r ELSE req[t]
  BY DEF RequestInv, Put
<1>3. \A t \in Slots : (req'[t] # Free <=> req[t] # Free)
                     /\ (req[t] # Free => req'[t].inquiry = req[t].inquiry)
  BY <1>1, <1>2
<1> QED BY <1>3 DEF Metered, Busy

LEMMA GaugeStep == GaugeInv /\ [Next]_vars => GaugeInv'
<1> SUFFICES ASSUME GaugeInv, [Next]_vars PROVE GaugeInv'
  OBVIOUS
<1>1. RequestInv /\ RequestInv' /\ gauge = Cardinality(Metered)
  BY RequestInvStep DEF GaugeInv, GaugeIsTrue, Metered
<1>2. SUFFICES gauge' = Cardinality(Metered')
  BY <1>1 DEF GaugeInv, GaugeIsTrue, Metered
<1>3. ASSUME NEW s \in Slots, NEW q \in Inquiries, Accept(s, q)
      PROVE  gauge' = Cardinality(Metered')
  <2>1. \A t \in Slots : req'[t] = IF t = s THEN Enter(q) ELSE req[t]
    BY <1>1, <1>3 DEF RequestInv, Accept, Put
  <2>2. Enter(q).inquiry = q /\ Enter(q) # Free
    BY FieldsOfStage DEF Enter
  <2>3. s \notin Metered
    BY <1>3 DEF Accept, Metered, Busy
  <2>4. CASE q.path \in Unmetered
    <3>1. Metered' = Metered
      BY <2>1, <2>2, <2>3, <2>4 DEF Metered, Busy
    <3> QED BY <1>1, <1>3, <2>4, <3>1 DEF Accept
  <2>5. CASE q.path \notin Unmetered
    <3>1. Metered' = Metered \cup {s}
      BY <2>1, <2>2, <2>3, <2>5 DEF Metered, Busy
    <3>2. gauge' = gauge + 1
      BY <1>3, <2>5 DEF Accept
    <3> QED BY <1>1, <2>3, <3>1, <3>2, MeteredIsFinite, FS_AddElement
  <2> QED BY <2>4, <2>5
<1>4. ASSUME NEW s \in Slots, Leave(s)
      PROVE  gauge' = Cardinality(Metered')
  <2>1. \A t \in Slots : req'[t] = IF t = s THEN Free ELSE req[t]
    BY <1>1, <1>4 DEF RequestInv, Leave, Put
  <2>2. s \in Busy
    BY <1>4 DEF Leave, Busy, Free
  <2>3. CASE req[s].inquiry.path \in Unmetered
    <3>1. Metered' = Metered
      BY <2>1, <2>2, <2>3 DEF Metered, Busy
    <3> QED BY <1>1, <1>4, <2>3, <3>1 DEF Leave
  <2>4. CASE req[s].inquiry.path \notin Unmetered
    <3>1. s \in Metered /\ Metered' = Metered \ {s}
      BY <2>1, <2>2, <2>4 DEF Metered, Busy
    <3>2. gauge' = gauge - 1
      BY <1>4, <2>4 DEF Leave
    <3> QED BY <1>1, <3>1, <3>2, MeteredIsFinite, FS_RemoveElement
  <2> QED BY <2>3, <2>4
<1>5. ASSUME NEW s \in Slots, Guard(s) \/ Handle(s) \/ Serve(s)
      PROVE  gauge' = Cardinality(Metered')
  <2>1. req[s] # Free /\ gauge' = gauge
    BY <1>5 DEF Guard, Handle, Serve, Free
  <2> DEFINE Keeps == \E l, o, a : Put(s, Stage(l, req[s].inquiry, o, a))
  <2>a. ASSUME NEW o, NEW codes, Answer(s, o, codes) PROVE Keeps
    BY <2>a DEF Answer
  <2>b. ASSUME NEW l, Continue(s, l) PROVE Keeps
    BY <2>b DEF Continue
  <2>c. ASSUME NEW o, Reply(s, o) PROVE Keeps
    BY <2>a, <2>c DEF Reply
  <2>2. Keeps
    <3> HIDE DEF Keeps
    <3>1. CASE Guard(s)
      BY <2>a, <2>b, <3>1 DEF Guard
    <3>2. CASE Handle(s)
      BY <2>a, <2>b, <2>c, <3>2 DEF Handle
    <3>3. CASE Serve(s)
      BY <2>c, <3>3 DEF Serve
    <3> QED BY <1>5, <3>1, <3>2, <3>3
  <2>3. Metered' = Metered
    BY <1>1, <2>1, <2>2, SameMetered
  <2> QED BY <1>1, <2>1, <2>3
<1>6. CASE UNCHANGED <<req, gauge>>
  BY <1>1, <1>6 DEF Metered, Busy
<1>7. CASE \/ Listen \/ ServeReturns \/ ServeChecks
           \/ Stop \/ Deadline \/ ShutdownReturns \/ StopperChecks \/ Exit
           \/ Signal \/ UNCHANGED vars
  BY <1>6, <1>7 DEF Listen, ServeReturns, ServeChecks, Stop, Deadline, ShutdownReturns,
                    StopperChecks, Exit, Signal, vars
<1> QED BY <1>3, <1>4, <1>5, <1>7, Cases

\* http_requests_in_flight counts the requests in flight, whichever way they leave.
THEOREM GaugeCountsRequests == Spec => []GaugeIsTrue
<1>1. Init => GaugeInv
  <2> SUFFICES ASSUME Init PROVE GaugeInv
    OBVIOUS
  <2>1. RequestInv
    BY DEF Init, RequestInv
  <2>2. {s \in Busy : req[s].inquiry.path \notin Unmetered} = {}
    BY DEF Init, Busy
  <2> QED BY <2>1, <2>2, FS_EmptySet DEF GaugeInv, GaugeIsTrue, Init
<1>2. GaugeInv => GaugeIsTrue
  BY DEF GaugeInv
<1> QED BY <1>1, <1>2, GaugeStep, PTL DEF Spec

-----------------------------------------------------------------------------
(* Types                                                                   *)

\* What the legality of a request leaves open.
Placed(r) ==
  /\ r.at \in {"guard", "handler", "service", "sent"}
  /\ r.inquiry \in Inquiries
  /\ r.outcome \in Outcomes \cup {"none", "ok"}

AllPlaced == \A s \in Slots : req[s] = Free \/ Placed(req[s])

GoroutinesTyped ==
  /\ listener \in {"none", "open", "closed"}
  /\ serve \in {"starting", "listening", "checking", "returned"}
  /\ stopper \in {"waiting", "stopping", "checking", "returned"}
  /\ err \in Errors
  /\ logged \subseteq Messages
  /\ {signalled, expired, drained, exited} \subseteq BOOLEAN
  /\ cut \subseteq Slots

TypeInv == GaugeInv /\ AllPlaced /\ GoroutinesTyped

\* A legal request that has its place has answers of the right type, and a gauge that
\* counts is a number.
LEMMA InvIsTyped == TypeInv => TypeOK
<1> SUFFICES ASSUME TypeInv PROVE TypeOK
  OBVIOUS
<1>1. ASSUME NEW s \in Busy PROVE Placed(req[s]) /\ req[s].answers \in Seq(Nat)
  <2>1. Placed(req[s]) /\ Legal(req[s])
    BY DEF TypeInv, AllPlaced, GaugeInv, RequestInv, Busy
  <2>2. CASE req[s].answers = <<>>
    BY <2>1, <2>2
  <2>3. CASE req[s].answers = <<200>>
    BY <2>1, <2>3
  <2>4. CASE req[s].answers = <<200, 500>>
    BY <2>1, <2>4
  <2>5. CASE \E n \in Nat \ {200} : req[s].answers = <<n>>
    BY <2>1, <2>5
  <2> QED BY <2>1, <2>2, <2>3, <2>4, <2>5 DEF Legal, Placed
<1>2. gauge \in Nat
  BY MeteredIsFinite DEF TypeInv, GaugeInv, GaugeIsTrue, Metered
<1> QED BY <1>1, <1>2 DEF TypeOK, Placed, TypeInv, GoroutinesTyped

LEMMA PutPlaced ==
  ASSUME RequestInv, AllPlaced, NEW s \in Slots, NEW r, Put(s, r), r = Free \/ Placed(r)
  PROVE  AllPlaced'
<1>1. \A t \in Slots : req'[t] = IF t = s THEN r ELSE req[t]
  BY DEF RequestInv, Put
<1> QED BY <1>1 DEF AllPlaced, Placed

LEMMA AnswerPlaced ==
  ASSUME RequestInv, AllPlaced, NEW s \in Slots, req[s] # Free,
         NEW o \in Outcomes \cup {"none", "ok"}, NEW codes, Answer(s, o, codes)
  PROVE  AllPlaced'
<1> DEFINE r == Stage("sent", req[s].inquiry, o, req[s].answers \o codes)
<1>1. r.at = "sent" /\ r.inquiry = req[s].inquiry /\ r.outcome = o
  BY FieldsOfStage
<1>2. Placed(r) /\ Put(s, r)
  BY <1>1 DEF AllPlaced, Placed, Answer
<1> QED BY <1>2, PutPlaced

LEMMA ContinuePlaced ==
  ASSUME RequestInv, AllPlaced, NEW s \in Slots, req[s] # Free,
         NEW l \in {"handler", "service"}, Continue(s, l)
  PROVE  AllPlaced'
<1> DEFINE r == Stage(l, req[s].inquiry, "none", req[s].answers)
<1>1. r.at = l /\ r.inquiry = req[s].inquiry /\ r.outcome = "none"
  BY FieldsOfStage
<1>2. Placed(r) /\ Put(s, r)
  BY <1>1 DEF AllPlaced, Placed, Continue
<1> QED BY <1>2, PutPlaced

LEMMA ReplyPlaced ==
  ASSUME RequestInv, AllPlaced, NEW s \in Slots, req[s] # Free,
         NEW o \in Outcomes \cup {"none", "ok"}, Reply(s, o)
  PROVE  AllPlaced'
BY AnswerPlaced DEF Reply

LEMMA PlacedStep == RequestInv /\ AllPlaced /\ [Next]_vars => AllPlaced'
<1> SUFFICES ASSUME RequestInv, AllPlaced, [Next]_vars PROVE AllPlaced'
  OBVIOUS
<1>1. ASSUME NEW s \in Slots, NEW q \in Inquiries, Accept(s, q) PROVE AllPlaced'
  <2>1. Put(s, Enter(q))
    BY <1>1 DEF Accept
  <2>2. \E l \in {"guard", "handler", "sent"} : \E a : Enter(q) = Stage(l, q, "none", a)
    BY DEF Enter
  <2>3. Placed(Enter(q))
    BY <2>2, FieldsOfStage DEF Placed
  <2> QED BY <2>1, <2>3, PutPlaced
<1>2. ASSUME NEW s \in Slots, Guard(s) PROVE AllPlaced'
  <2>1. req[s] # Free
    BY <1>2 DEF Guard, Free
  <2> QED BY <1>2, <2>1, ContinuePlaced, AnswerPlaced DEF Guard
<1>3. ASSUME NEW s \in Slots, Handle(s) PROVE AllPlaced'
  <2>1. req[s] # Free
    BY <1>3 DEF Handle, Free
  <2>2. \/ Reply(s, "ok") \/ Continue(s, "service")
        \/ Answer(s, "none", <<InputStatus(req[s].inquiry)>>)
    BY <1>3 DEF Handle
  <2> QED BY <2>1, <2>2, ReplyPlaced, ContinuePlaced, AnswerPlaced
<1>4. ASSUME NEW s \in Slots, Serve(s) PROVE AllPlaced'
  <2>1. req[s] # Free
    BY <1>4 DEF Serve, Free
  <2> QED BY <1>4, <2>1, ReplyPlaced DEF Serve
<1>5. ASSUME NEW s \in Slots, Leave(s) PROVE AllPlaced'
  BY <1>5, PutPlaced DEF Leave
<1>6. CASE UNCHANGED req
  BY <1>6 DEF AllPlaced, Placed
<1>7. CASE \/ Listen \/ ServeReturns \/ ServeChecks
           \/ Stop \/ Deadline \/ ShutdownReturns \/ StopperChecks \/ Exit
           \/ Signal \/ UNCHANGED vars
  BY <1>6, <1>7 DEF Listen, ServeReturns, ServeChecks, Stop, Deadline, ShutdownReturns,
                    StopperChecks, Exit, Signal, vars
<1> QED BY <1>1, <1>2, <1>3, <1>4, <1>5, <1>7, Cases

LEMMA GoroutinesStep == GoroutinesTyped /\ [Next]_vars => GoroutinesTyped'
<1> SUFFICES ASSUME GoroutinesTyped, [Next]_vars PROVE GoroutinesTyped'
  OBVIOUS
<1> USE DEF GoroutinesTyped
<1>1. ASSUME NEW s \in Slots,
             (\E q \in Inquiries : Accept(s, q)) \/ Guard(s) \/ Handle(s) \/ Serve(s) \/ Leave(s)
      PROVE  GoroutinesTyped'
  <2>1. goroutines' = goroutines
    BY <1>1 DEF Accept, Guard, Handle, Serve, Leave
  <2> QED BY <2>1 DEF goroutines
<1>2. CASE Listen
  BY <1>2 DEF Listen, ServeGets, Errors
<1>3. CASE ServeReturns
  BY <1>3 DEF ServeReturns, ServeGets, Errors
<1>4. CASE ServeChecks
  BY <1>4 DEF ServeChecks, Log, Messages
<1>5. CASE Stop
  BY <1>5 DEF Stop
<1>6. CASE Deadline
  BY <1>6 DEF Deadline
<1>7. CASE ShutdownReturns
  BY <1>7 DEF ShutdownReturns, StopperGets, Errors
<1>8. CASE StopperChecks
  BY <1>8 DEF StopperChecks, Log, Messages
<1>9. CASE Exit
  BY <1>9 DEF Exit, Busy
<1>10. CASE Signal
  BY <1>10 DEF Signal
<1>11. CASE UNCHANGED vars
  BY <1>11 DEF vars, goroutines
<1> QED
  BY <1>1, <1>2, <1>3, <1>4, <1>5, <1>6, <1>7, <1>8, <1>9, <1>10, <1>11, Cases

\* Every variable stays in its type, the gauge in particular: it never falls below zero.
THEOREM TypeCorrect == Spec => []TypeOK
<1>1. Init => TypeInv
  <2> SUFFICES ASSUME Init PROVE TypeInv
    OBVIOUS
  <2>1. RequestInv
    BY DEF Init, RequestInv
  <2>2. {s \in Busy : req[s].inquiry.path \notin Unmetered} = {}
    BY DEF Init, Busy
  <2>3. GaugeInv
    BY <2>1, <2>2, FS_EmptySet DEF GaugeInv, GaugeIsTrue, Init
  <2>4. AllPlaced /\ GoroutinesTyped
    BY DEF Init, AllPlaced, GoroutinesTyped, Errors, Messages
  <2> QED BY <2>3, <2>4 DEF TypeInv
<1>2. TypeInv /\ [Next]_vars => TypeInv'
  BY GaugeStep, PlacedStep, GoroutinesStep DEF TypeInv, GaugeInv
<1> QED BY <1>1, <1>2, InvIsTyped, PTL DEF Spec

-----------------------------------------------------------------------------
(* Nobody waits for the other                                              *)

\* The guards that StopIsNeverStuck asks for.  The stopper waits for the signal, which is
\* there, and in Shutdown for the deadline at most; ListenAndServe has a closed listener
\* to return from as soon as the stopper has called Shutdown; and main waits for both.
StopperHasAWay ==
  \/ stopper = "waiting" /\ signalled
  \/ stopper \in {"stopping", "checking"}

ServeHasAWay ==
  \/ serve = "starting" /\ listener \in {"closed", "none"}
  \/ serve = "listening" /\ listener = "closed"
  \/ serve = "checking"

SomeoneHasAWay ==
  StopperHasAWay \/ ServeHasAWay \/ (serve = "returned" /\ stopper = "returned" /\ ~exited)

\* After a signal the one can go on whatever the other does, and so can main in the end:
\* for every number of requests, none of which need ever return.
THEOREM NobodyWaitsForEver ==
  Spec => [](Stopping => /\ stopper # "returned" => StopperHasAWay
                         /\ stopper # "waiting" /\ serve # "returned" => ServeHasAWay
                         /\ SomeoneHasAWay)
<1> DEFINE Ways == /\ stopper # "returned" => StopperHasAWay
                   /\ stopper # "waiting" /\ serve # "returned" => ServeHasAWay
                   /\ SomeoneHasAWay
<1>1. Init => StopInv /\ GoroutinesTyped
  BY DEF Init, StopInv, Busy, GoroutinesTyped, Errors, Messages
<1>2. StopInv /\ GoroutinesTyped /\ Stopping => Ways
  BY DEF StopInv, GoroutinesTyped, Stopping, StopperHasAWay, ServeHasAWay, SomeoneHasAWay
<1> HIDE DEF Ways
<1>3. Spec => [](Stopping => Ways)
  BY <1>1, <1>2, StopStep, GoroutinesStep, PTL DEF Spec
<1> QED BY <1>3 DEF Ways

-----------------------------------------------------------------------------
(* Progress.  The prover does not know ENABLED, so the fairness of FairSpec *)
(* is taken in the form it has wherever StopIsNeverStuck holds: one of the  *)
(* goroutines goes on again and again, or there is nothing to stop.         *)

Scheduled == []<>~Stopping \/ []<><<Goroutines>>_vars

\* The steps that the two goroutines and the deadline have left.
ServeLeft ==
  IF serve = "starting" THEN 3 ELSE IF serve = "listening" THEN 2 ELSE IF serve = "checking" THEN 1 ELSE 0

StopperLeft ==
  IF stopper = "waiting" THEN 3 ELSE IF stopper = "stopping" THEN 2 ELSE IF stopper = "checking" THEN 1 ELSE 0

StepsLeft == ServeLeft + StopperLeft + (IF expired THEN 0 ELSE 1)

\* A stop with at most n steps before it.
Within(n) == exited \/ (signalled /\ StepsLeft < n)

\* Steps never become more, and each of the goroutines' steps makes them fewer.
Descends(m, n) ==
  /\ Within(m) /\ [Next]_vars => Within(m)'
  /\ Within(m) /\ <<Goroutines>>_vars => Within(n)'
  /\ Within(m) /\ ~Within(n) => Stopping

LEMMA StepsType == StepsLeft \in 0..7
BY DEF StepsLeft, ServeLeft, StopperLeft

LEMMA StepsDescend ==
  ASSUME GoroutinesTyped, NEW m \in Nat, NEW n \in Nat, m = n + 1
  PROVE  Descends(m, n)
<1>1. ASSUME Goroutines
      PROVE  /\ signalled' = signalled /\ (exited => exited')
             /\ exited' \/ StepsLeft' < StepsLeft
  <2> USE DEF StepsLeft, ServeLeft, StopperLeft
  <2>1. CASE Listen
    <3>1. serve = "starting" /\ serve' \in {"checking", "listening"}
      BY <2>1 DEF Listen, ServeGets
    <3>2. UNCHANGED <<stopper, signalled, expired, exited>>
      BY <2>1 DEF Listen
    <3> QED BY <3>1, <3>2
  <2>2. CASE ServeReturns
    BY <2>2 DEF ServeReturns, ServeGets
  <2>3. CASE ServeChecks
    <3>1. serve = "checking" /\ serve' = "returned"
      BY <2>3 DEF ServeChecks
    <3>2. UNCHANGED <<stopper, signalled, expired, exited>>
      BY <2>3 DEF ServeChecks
    <3> QED BY <3>1, <3>2
  <2>4. CASE Stop
    BY <2>4 DEF Stop
  <2>5. CASE Deadline
    BY <2>5 DEF Deadline
  <2>6. CASE ShutdownReturns
    <3>1. stopper = "stopping" /\ stopper' = "checking"
      BY <2>6 DEF ShutdownReturns, StopperGets
    <3>2. UNCHANGED <<serve, signalled, expired, exited>>
      BY <2>6 DEF ShutdownReturns
    <3> QED BY <3>1, <3>2
  <2>7. CASE StopperChecks
    <3>1. stopper = "checking" /\ stopper' = "returned"
      BY <2>7 DEF StopperChecks
    <3>2. UNCHANGED <<serve, signalled, expired, exited>>
      BY <2>7 DEF StopperChecks
    <3> QED BY <3>1, <3>2
  <2>8. CASE Exit
    BY <2>8 DEF Exit
  <2> QED BY <1>1, <2>1, <2>2, <2>3, <2>4, <2>5, <2>6, <2>7, <2>8 DEF Goroutines
<1>2. ASSUME [Next]_vars, ~Goroutines
      PROVE  StepsLeft' = StepsLeft /\ exited' = exited /\ (signalled => signalled')
  <2> USE DEF StepsLeft, ServeLeft, StopperLeft
  <2>1. ASSUME NEW s \in Slots,
               (\E q \in Inquiries : Accept(s, q)) \/ Guard(s) \/ Handle(s) \/ Serve(s) \/ Leave(s)
        PROVE  UNCHANGED <<serve, stopper, expired, exited, signalled>>
    BY <2>1, RequestStep DEF goroutines
  <2>2. CASE Signal
    BY <2>2 DEF Signal
  <2>3. CASE UNCHANGED <<serve, stopper, expired, exited, signalled>>
    BY <2>3
  <2>4. CASE UNCHANGED vars
    BY <2>3, <2>4 DEF vars, goroutines
  <2> QED BY <1>2, <2>1, <2>2, <2>3, <2>4, Cases DEF Goroutines
<1>3. StepsLeft \in Int /\ StepsLeft' \in Int
  BY DEF StepsLeft, ServeLeft, StopperLeft
<1>4. ASSUME Within(m), [Next]_vars PROVE Within(m)'
  BY <1>1, <1>2, <1>3, <1>4 DEF Within
<1>5. ASSUME Within(m), <<Goroutines>>_vars PROVE Within(n)'
  BY <1>1, <1>3, <1>5 DEF Within
<1>6. ASSUME Within(m), ~Within(n) PROVE Stopping
  BY <1>3, <1>6 DEF Within, Stopping
<1> QED BY <1>4, <1>5, <1>6 DEF Descends

\* The stop ends, whatever the requests do: what two goroutines and a deadline have left
\* runs out.
THEOREM StopAlwaysEnds == Spec /\ Scheduled => StopEnds
<1>1. Init => GoroutinesTyped
  BY DEF Init, GoroutinesTyped, Errors, Messages
<1>2. GoroutinesTyped /\ [Next]_vars => GoroutinesTyped'
  BY GoroutinesStep
<1>3. signalled => Within(8)
  BY StepsType DEF Within
<1>4. Within(0) => exited
  BY StepsType DEF Within
<1>5. GoroutinesTyped => /\ Descends(8, 7) /\ Descends(7, 6) /\ Descends(6, 5) /\ Descends(5, 4)
                         /\ Descends(4, 3) /\ Descends(3, 2) /\ Descends(2, 1) /\ Descends(1, 0)
  BY StepsDescend
<1> QED BY <1>1, <1>2, <1>3, <1>4, <1>5, PTL DEF Spec, Scheduled, Descends, StopEnds
=============================================================================
