----------------------------- MODULE AppLifecycle -----------------------------
(***************************************************************************)
(* The life of one process of an application, client or server: main,      *)
(* create_application and start_application with its select! over the      *)
(* services and the shutdown signal (application/context.rs, the same code *)
(* in both), beside the tasks it waits for: the HTTP server                *)
(* (common/src/http/http_server.rs) and the workers                        *)
(* (common/src/messaging/consumer.rs).                                     *)
(*                                                                         *)
(* A poll of the main task is an action, and so is each step of a service  *)
(* between two awaits.  select! polls its branches in random order: main   *)
(* takes either one that is ready, and a worker either the next message or *)
(* the cancellation.  What a request or a message asks for is left out.    *)
(***************************************************************************)
EXTENDS Naturals

CONSTANTS
  Http,        \* the task of the HTTP server
  Workers,     \* the worker_consumer tasks of the process
  MaxRequests  \* bound: HTTP requests in flight

ASSUME AppLifecycleAssumption ==
  /\ Http \notin Workers
  /\ MaxRequests \in Nat \ {0}

Services == {Http} \cup Workers

Signals == {"SIGTERM", "SIGINT"}

VARIABLES
  main,       \* where main stands
  primary,    \* the result of the branch of select! that was taken
  result,     \* what start_application returned
  token,      \* shutdown, the CancellationToken, is cancelled
  waiter,     \* the future wait_for_shutdown_signal
  installed,  \* the signals the process has a handler for
  delivered,  \* the signals that handler has got
  service,    \* service[s]: where the task s stands
  inHand      \* inHand[s]: requests or messages s is working on

mainVars == <<main, primary, result>>
signalVars == <<token, waiter, installed, delivered>>
serviceVars == <<service, inHand>>
vars == <<mainVars, signalVars, serviceVars>>

(* The tasks run until main has returned and the runtime is dropped.       *)
Alive == main \notin {"exited", "killed"}

------------------------------------------------------------------------------
(* main and create_application.                                            *)

(* The database client, the producer and the consumers are created; then   *)
(* start_application spawns the services.  A failure is the result of main *)
(* (and of the process, where DatabaseClient::new panics on its URI).      *)
CreateApplication ==
  /\ main = "creating"
  /\ \/ /\ main' = "selecting"
        /\ service' = [s \in Services |-> IF s = Http THEN "starting" ELSE "running"]
        /\ UNCHANGED result
     \/ /\ main' = "flushing"
        /\ result' = "err"
        /\ UNCHANGED service
     \/ /\ main' = "killed"
        /\ UNCHANGED <<result, service>>
  /\ UNCHANGED <<primary, signalVars, inHand>>

(* opentelemetry_handler.shutdown(), whose errors are only printed; main   *)
(* returns and the runtime drops the tasks that are left.                  *)
Exit ==
  /\ main = "flushing"
  /\ main' = "exited"
  /\ inHand' = [s \in Services |-> 0]
  /\ UNCHANGED <<primary, result, signalVars, service>>

------------------------------------------------------------------------------
(* start_application.                                                      *)

(* Faulty variant: the later error wins.                                   *)
LastError(first, second) == second

FirstError(first, second) == IF first = "err" THEN first ELSE second

(* try_join_all over the handles: the first error, or Ok once all ended.   *)
Joined(outcome) ==
  \/ outcome = "err" /\ \E s \in Services : service[s] = "failed"
  \/ outcome = "ok" /\ \A s \in Services : service[s] = "ended"

(* The first poll of wait_for_shutdown_signal installs the handlers, first *)
(* SIGTERM's, then SIGINT's; the first that fails ends it.                 *)
InstallHandlers ==
  \/ waiter' = "waiting" /\ installed' = Signals
  \/ waiter' = "failed" /\ installed' \in {{}, {"SIGTERM"}}

(* select! polls the signal branch for the first time.                     *)
WatchSignals ==
  /\ main = "selecting"
  /\ waiter = "new"
  /\ InstallHandlers
  /\ IF waiter' = "failed"
     THEN main' = "awaitServices" /\ primary' = "err"
     ELSE UNCHANGED <<main, primary>>
  /\ UNCHANGED <<result, token, delivered, serviceVars>>

(* Faulty variant: the signal does not cancel the token.                   *)
OnlyLogSignal ==
  /\ main = "selecting"
  /\ waiter = "waiting"
  /\ delivered # {}
  /\ waiter' = "ended"
  /\ main' = "awaitServices"
  /\ primary' = "ok"
  /\ UNCHANGED <<result, token, installed, delivered, serviceVars>>

(* A signal is received: the token is cancelled and the branch is taken.   *)
ReceiveSignal ==
  /\ main = "selecting"
  /\ waiter = "waiting"
  /\ delivered # {}
  /\ waiter' = "ended"
  /\ token' = TRUE
  /\ main' = "awaitServices"
  /\ primary' = "ok"
  /\ UNCHANGED <<result, installed, delivered, serviceVars>>

(* Faulty variant: the other services are not told.                        *)
LeaveTokenAlone ==
  /\ main = "selecting"
  /\ \E outcome \in {"ok", "err"} : Joined(outcome) /\ primary' = outcome
  /\ main' = "awaitSignal"
  /\ UNCHANGED <<result, signalVars, serviceVars>>

(* The services end first: shutdown.cancel().                              *)
ServicesEnd ==
  /\ main = "selecting"
  /\ \E outcome \in {"ok", "err"} : Joined(outcome) /\ primary' = outcome
  /\ token' = TRUE
  /\ main' = "awaitSignal"
  /\ UNCHANGED <<result, waiter, installed, delivered, serviceVars>>

(* signal.await: a signal, or the token; the handlers are installed now if *)
(* that branch had not been polled yet.                                    *)
AwaitSignal ==
  /\ main = "awaitSignal"
  /\ \/ /\ waiter = "waiting"
        /\ token \/ delivered # {}
        /\ waiter' = "ended"
        /\ UNCHANGED installed
     \/ /\ waiter = "new"
        /\ token
        /\ \/ waiter' = "ended" /\ installed' = Signals
           \/ InstallHandlers /\ waiter' = "failed"
  /\ token' = (token \/ waiter' = "ended")
  /\ result' = FirstError(primary, IF waiter' = "failed" THEN "err" ELSE "ok")
  /\ main' = "flushing"
  /\ UNCHANGED <<primary, delivered, serviceVars>>

(* Faulty variant: start_application returns when the signal comes.        *)
ReturnAtOnce ==
  /\ main = "awaitServices"
  /\ result' = primary
  /\ main' = "flushing"
  /\ UNCHANGED <<primary, signalVars, serviceVars>>

(* services.await.                                                         *)
AwaitServices ==
  /\ main = "awaitServices"
  /\ \E outcome \in {"ok", "err"} :
       Joined(outcome) /\ result' = FirstError(primary, outcome)
  /\ main' = "flushing"
  /\ UNCHANGED <<primary, signalVars, serviceVars>>

------------------------------------------------------------------------------
(* The services.                                                           *)

(* TcpListener::bind.                                                      *)
Bind ==
  /\ Alive
  /\ service[Http] = "starting"
  /\ service' \in {[service EXCEPT ![Http] = outcome] : outcome \in {"running", "failed"}}
  /\ UNCHANGED <<mainVars, signalVars, inHand>>

(* A worker has one message in hand, the HTTP server many requests.        *)
Capacity(s) == IF s = Http THEN MaxRequests ELSE 1

(* recv returns a message, or a request is accepted, also when the token   *)
(* is cancelled and the task has not seen it yet.                          *)
Take(s) ==
  /\ Alive
  /\ service[s] = "running"
  /\ inHand[s] < Capacity(s)
  /\ inHand' = [inHand EXCEPT ![s] = @ + 1]
  /\ UNCHANGED <<mainVars, signalVars, service>>

(* A handler returns.                                                      *)
Finish(s) ==
  /\ Alive
  /\ service[s] \in {"running", "draining"}
  /\ inHand[s] > 0
  /\ inHand' = [inHand EXCEPT ![s] = @ - 1]
  /\ UNCHANGED <<mainVars, signalVars, service>>

(* A handler panics in the release build (panic = "abort"), the one that   *)
(* is deployed: the process ends on the spot.                              *)
Abort ==
  /\ Alive
  /\ \E s \in Services : inHand[s] > 0
  /\ main' = "killed"
  /\ inHand' = [s \in Services |-> 0]
  /\ UNCHANGED <<primary, result, signalVars, service>>

(* A message handler panics in the development build, which unwinds: the   *)
(* handle of its worker yields an error, and nobody finishes the message.  *)
(* A request handler that panics there takes only its connection with it,  *)
(* which is Finish.                                                        *)
Panic(w) ==
  /\ Alive
  /\ service[w] = "running"
  /\ inHand[w] > 0
  /\ service' = [service EXCEPT ![w] = "failed"]
  /\ UNCHANGED <<mainVars, signalVars, inHand>>

(* with_graceful_shutdown: no connection is accepted any more.             *)
StopAccepting ==
  /\ Alive
  /\ token
  /\ service[Http] = "running"
  /\ service' = [service EXCEPT ![Http] = "draining"]
  /\ UNCHANGED <<mainVars, signalVars, inHand>>

(* Faulty variant: cancellation is looked at inside a message, too.        *)
ReturnAnywhere(s) ==
  /\ Alive
  /\ token
  /\ service[s] = IF s = Http THEN "draining" ELSE "running"
  /\ service' = [service EXCEPT ![s] = "ended"]
  /\ UNCHANGED <<mainVars, signalVars, inHand>>

(* A worker returns between two messages, the HTTP server when the         *)
(* requests in flight are answered.                                        *)
Return(s) ==
  /\ Alive
  /\ token
  /\ service[s] = IF s = Http THEN "draining" ELSE "running"
  /\ inHand[s] = 0
  /\ service' = [service EXCEPT ![s] = "ended"]
  /\ UNCHANGED <<mainVars, signalVars, inHand>>

------------------------------------------------------------------------------
(* A signal arrives: the process dies of it unless a handler is installed. *)
(* tokio keeps a handler for good, even when nobody listens any more.      *)
Signal(sig) ==
  /\ Alive
  /\ \/ /\ sig \in installed
        /\ delivered' = delivered \cup {sig}
        /\ UNCHANGED <<main, inHand>>
     \/ /\ sig \notin installed
        /\ main' = "killed"
        /\ inHand' = [s \in Services |-> 0]
        /\ UNCHANGED delivered
  /\ UNCHANGED <<primary, result, token, waiter, installed, service>>

Init ==
  /\ main = "creating"
  /\ primary = "none"
  /\ result = "none"
  /\ token = FALSE
  /\ waiter = "new"
  /\ installed = {}
  /\ delivered = {}
  /\ service = [s \in Services |-> "none"]
  /\ inHand = [s \in Services |-> 0]

MainStep ==
  \/ CreateApplication
  \/ WatchSignals
  \/ ReceiveSignal
  \/ ServicesEnd
  \/ AwaitSignal
  \/ AwaitServices
  \/ Exit

Next ==
  \/ MainStep
  \/ Bind
  \/ \E s \in Services : Take(s) \/ Finish(s) \/ Return(s)
  \/ \E w \in Workers : Panic(w)
  \/ Abort
  \/ StopAccepting
  \/ \E sig \in Signals : Signal(sig)

Spec == Init /\ [][Next]_vars

(* Fairness.  tokio polls main when something it waits for is ready;       *)
(* create_application and every handler return, since their calls have     *)
(* timeouts.  A task that finds the token cancelled and a message ready at *)
(* the same time chooses at random, so it does not choose the message for  *)
(* ever: strong fairness.  Nothing is fair about panics and signals.       *)
Fairness ==
  /\ WF_vars(MainStep)
  /\ WF_vars(Bind)
  /\ SF_vars(StopAccepting)
  /\ \A s \in Services : WF_vars(Finish(s)) /\ SF_vars(Return(s))

FairSpec == Spec /\ Fairness

------------------------------------------------------------------------------
(* Properties.                                                             *)

(* Types, and a task that has ended well has nothing in hand.              *)
TypeOK ==
  /\ main \in {"creating", "selecting", "awaitSignal", "awaitServices", "flushing",
               "exited", "killed"}
  /\ primary \in {"none", "ok", "err"}
  /\ result \in {"none", "ok", "err"}
  /\ token \in BOOLEAN
  /\ waiter \in {"new", "waiting", "ended", "failed"}
  /\ installed \subseteq Signals
  /\ delivered \subseteq installed
  /\ service \in [Services ->
       {"none", "starting", "running", "draining", "ended", "failed"}]
  /\ inHand \in [Services -> Nat]
  /\ \A s \in Services :
       service[s] \in {"none", "starting", "ended"} => inHand[s] = 0

(* No error is lost: the process ends with Ok only if every service ended  *)
(* well and the wait for the signal did, whichever came first and whatever *)
(* failed afterwards (client context.rs:96-116).                           *)
ErrorReported ==
  result = "ok" => waiter = "ended" /\ \A s \in Services : service[s] = "ended"

(* The state of the abstract process.                                      *)
State ==
  CASE main = "killed" -> "crashed"
    [] main = "exited" -> IF result = "ok" THEN "stopped" ELSE "crashed"
    [] OTHER -> "up"

Instance == INSTANCE InstanceLife WITH state <- State, work <- inHand

(* A process that ends with Ok has nothing in hand, so that work is cut    *)
(* short only by a crash, as JobSystem has it (client context.rs:93-104,   *)
(* common consumer.rs:203-208, http_server.rs:61-63).                      *)
ImplementsInstance == Instance!Spec

Over == main \in {"exited", "killed"}

(* A process told to stop stops, even while messages keep coming, once its *)
(* handlers are installed (client context.rs:118-129).  When one of them   *)
(* cannot be, SIGTERM is swallowed and start_application waits for         *)
(* services nobody stops: hence the condition.                             *)
StopsWhenTold == delivered # {} /\ waiter # "failed" ~> Over

(* A service that fails takes the process down, so that it is started      *)
(* again (client context.rs:97-102), even if the handlers could not be     *)
(* installed.                                                              *)
FailureStops == (\E s \in Services : service[s] = "failed") ~> Over
===============================================================================
