-------------------------- MODULE AppLifecycleProofs --------------------------
(* Theorems about AppLifecycle, for any set of workers and any number of   *)
(* requests in flight.                                                     *)
EXTENDS AppLifecycle, TLAPS

(* What main knows at each of its awaits: which branch was taken, and what *)
(* the result it carries stands for.                                       *)
MainInStep ==
  /\ main = "creating" => \A s \in Services : service[s] = "none"
  /\ main = "awaitServices" => primary = "err" \/ waiter = "ended"
  /\ main = "awaitSignal" => primary = "err" \/ \A s \in Services : service[s] = "ended"
  /\ main \in {"awaitServices", "awaitSignal"} => primary \in {"ok", "err"}
  /\ result = "ok" => main \in {"flushing", "exited", "killed"}
  /\ waiter = "new" => installed = {}

IInv == TypeOK /\ MainInStep /\ ErrorReported

(* The invariant holds at the beginning.                                   *)
LEMMA InitIInv == Init => IInv
<1> SUFFICES ASSUME Init PROVE IInv
  OBVIOUS
<1>1. service \in [Services -> {"none"}] /\ inHand \in [Services -> {0}]
  BY DEF Init
<1>2. TypeOK
  BY <1>1 DEF Init, TypeOK
<1> QED
  BY <1>2 DEF Init, IInv, MainInStep, ErrorReported

(* A poll of main keeps the types.                                         *)
LEMMA MainStepType == ASSUME IInv, MainStep PROVE TypeOK'
<1>1. CASE CreateApplication
  BY <1>1, AppLifecycleAssumption
  DEF CreateApplication, IInv, TypeOK, MainInStep, Services, signalVars
<1>2. CASE WatchSignals
  BY <1>2 DEF WatchSignals, InstallHandlers, IInv, TypeOK, MainInStep, serviceVars, Signals
<1>3. CASE ReceiveSignal
  BY <1>3 DEF ReceiveSignal, IInv, TypeOK, serviceVars
<1>4. CASE ServicesEnd
  BY <1>4 DEF ServicesEnd, IInv, TypeOK, serviceVars
<1>5. CASE AwaitSignal
  BY <1>5
  DEF AwaitSignal, InstallHandlers, FirstError, IInv, TypeOK, MainInStep, serviceVars, Signals
<1>6. CASE AwaitServices
  BY <1>6 DEF AwaitServices, FirstError, IInv, TypeOK, MainInStep, signalVars, serviceVars
<1>7. CASE Exit
  BY <1>7 DEF Exit, IInv, TypeOK, signalVars
<1> QED
  BY <1>1, <1>2, <1>3, <1>4, <1>5, <1>6, <1>7 DEF MainStep

(* A poll of main keeps what main knows, and loses no error.               *)
LEMMA MainStepKnows == ASSUME IInv, MainStep PROVE MainInStep' /\ ErrorReported'
<1>1. CASE CreateApplication
  BY <1>1 DEF CreateApplication, IInv, MainInStep, ErrorReported, signalVars
<1>2. CASE WatchSignals
  BY <1>2 DEF WatchSignals, InstallHandlers, IInv, MainInStep, ErrorReported, serviceVars
<1>3. CASE ReceiveSignal
  BY <1>3 DEF ReceiveSignal, IInv, MainInStep, ErrorReported, serviceVars
<1>4. CASE ServicesEnd
  BY <1>4 DEF ServicesEnd, Joined, IInv, MainInStep, ErrorReported, serviceVars
<1>5. CASE AwaitSignal
  BY <1>5
  DEF AwaitSignal, InstallHandlers, FirstError, IInv, TypeOK, MainInStep, ErrorReported,
      serviceVars
<1>6. CASE AwaitServices
  BY <1>6
  DEF AwaitServices, Joined, FirstError, IInv, MainInStep, ErrorReported, signalVars,
      serviceVars
<1>7. CASE Exit
  BY <1>7 DEF Exit, IInv, MainInStep, ErrorReported, signalVars
<1> QED
  BY <1>1, <1>2, <1>3, <1>4, <1>5, <1>6, <1>7 DEF MainStep

ServiceStep ==
  \/ Bind
  \/ \E s \in Services : Take(s) \/ Finish(s) \/ Return(s)
  \/ \E w \in Workers : Panic(w)
  \/ StopAccepting

(* What a step of a service leaves as it is.                               *)
LeavesMainAlone ==
  /\ UNCHANGED <<mainVars, signalVars>>
  /\ main # "creating"
  /\ \A s \in Services : service[s] = "ended" => service'[s] = "ended"

(* A step of a service keeps the types, and no task that has ended goes on.*)
LEMMA ServiceStepKeeps == ASSUME IInv, ServiceStep PROVE TypeOK' /\ LeavesMainAlone
<1>0. \A s \in Services : service[s] # "none" => main # "creating"
  BY DEF IInv, MainInStep
<1>1. CASE Bind
  <2>1. Http \in Services
    BY DEF Services
  <2> QED
    BY <1>0, <1>1, <2>1 DEF Bind, IInv, TypeOK, LeavesMainAlone, mainVars, signalVars
<1>2. ASSUME NEW s \in Services, Take(s) PROVE TypeOK' /\ LeavesMainAlone
  BY <1>0, <1>2 DEF Take, IInv, TypeOK, LeavesMainAlone, mainVars, signalVars
<1>3. ASSUME NEW s \in Services, Finish(s) PROVE TypeOK' /\ LeavesMainAlone
  BY <1>0, <1>3 DEF Finish, IInv, TypeOK, LeavesMainAlone, mainVars, signalVars
<1>4. ASSUME NEW s \in Services, Return(s) PROVE TypeOK' /\ LeavesMainAlone
  BY <1>0, <1>4 DEF Return, IInv, TypeOK, LeavesMainAlone, mainVars, signalVars
<1>5. ASSUME NEW w \in Workers, Panic(w) PROVE TypeOK' /\ LeavesMainAlone
  <2>1. w \in Services
    BY DEF Services
  <2> QED
    BY <1>0, <1>5, <2>1 DEF Panic, IInv, TypeOK, LeavesMainAlone, mainVars, signalVars
<1>6. CASE StopAccepting
  <2>1. Http \in Services
    BY DEF Services
  <2> QED
    BY <1>0, <1>6, <2>1 DEF StopAccepting, IInv, TypeOK, LeavesMainAlone, mainVars, signalVars
<1> QED
  BY <1>1, <1>2, <1>3, <1>4, <1>5, <1>6 DEF ServiceStep

(* Every step keeps the invariant.                                         *)
LEMMA StepIInv == IInv /\ [Next]_vars => IInv'
<1> SUFFICES ASSUME IInv, [Next]_vars PROVE IInv'
  OBVIOUS
<1>1. CASE MainStep
  BY <1>1, MainStepType, MainStepKnows DEF IInv
<1>2. CASE ServiceStep
  <2>1. TypeOK' /\ LeavesMainAlone
    BY <1>2, ServiceStepKeeps
  <2> QED
    BY <2>1
    DEF LeavesMainAlone, IInv, MainInStep, ErrorReported, mainVars, signalVars
<1>3. ASSUME NEW sig \in Signals, Signal(sig) PROVE IInv'
  BY <1>3 DEF Signal, Alive, IInv, TypeOK, MainInStep, ErrorReported
<1>4. CASE Abort
  BY <1>4 DEF Abort, Alive, signalVars, IInv, TypeOK, MainInStep, ErrorReported
<1>5. CASE UNCHANGED vars
  BY <1>5
  DEF vars, mainVars, signalVars, serviceVars, IInv, TypeOK, MainInStep, ErrorReported
<1> QED
  BY <1>1, <1>2, <1>3, <1>4, <1>5 DEF Next, ServiceStep

(* The invariant of the life cycle.                                        *)
THEOREM IInvCorrect == Spec => []IInv
  BY InitIInv, StepIInv, PTL DEF Spec

(* The types, and a task that has ended well has nothing in hand.          *)
THEOREM TypeCorrect == Spec => []TypeOK
<1>1. IInv => TypeOK
  BY DEF IInv
<1> QED
  BY <1>1, IInvCorrect, PTL

(* start_application returns Ok only when all services and the wait for    *)
(* the signal ended well.                                                  *)
THEOREM ErrorReportedCorrect == Spec => []ErrorReported
<1>1. IInv => ErrorReported
  BY DEF IInv
<1> QED
  BY <1>1, IInvCorrect, PTL

------------------------------------------------------------------------------
(* AppLifecycle implements InstanceLife.                                   *)

(* An application begins as an instance does.                              *)
LEMMA InitRefines == Init => Instance!Init
BY DEF Init, Instance!Init, Instance!Nothing, State

(* The step by which main returns.                                         *)
LEMMA ExitRefines == ASSUME IInv, Exit PROVE Instance!Next
<1>1. State = "up" /\ inHand' = Instance!Nothing
  BY DEF Exit, State, Instance!Nothing
<1>2. CASE result = "ok"
  <2>1. \A s \in Services : inHand[s] = 0
    BY <1>2 DEF IInv, ErrorReported, TypeOK
  <2>2. inHand = Instance!Nothing
    BY <2>1 DEF IInv, TypeOK, Instance!Nothing
  <2>3. State' = "stopped"
    BY <1>2 DEF Exit, State
  <2> QED
    BY <1>1, <2>2, <2>3 DEF Instance!Next, Instance!Stop
<1>3. CASE result # "ok"
  <2>1. State' = "crashed"
    BY <1>3 DEF Exit, State
  <2> QED
    BY <1>1, <2>1 DEF Instance!Next, Instance!Crash
<1> QED
  BY <1>2, <1>3

(* create_application gives up in one way or another, or goes on.          *)
LEMMA CreateRefines ==
  ASSUME IInv, CreateApplication PROVE [Instance!Next]_<<State, inHand>>
<1>1. State = "up" /\ inHand' = inHand
  BY DEF CreateApplication, State
<1>2. CASE main' = "killed"
  <2>1. \A s \in Services : inHand[s] = 0
    BY DEF CreateApplication, IInv, MainInStep, TypeOK
  <2>2. inHand = Instance!Nothing
    BY <2>1 DEF IInv, TypeOK, Instance!Nothing
  <2>3. State' = "crashed"
    BY <1>2 DEF State
  <2> QED
    BY <1>1, <2>2, <2>3 DEF Instance!Next, Instance!Crash
<1>3. CASE main' # "killed"
  <2>1. State' = "up"
    BY <1>3 DEF CreateApplication, State
  <2> QED
    BY <1>1, <2>1
<1> QED
  BY <1>2, <1>3

(* Every step is one of the instance, or none.                             *)
LEMMA StepRefines ==
  IInv /\ [Next]_vars => [Instance!Next]_<<State, inHand>>
<1> SUFFICES ASSUME IInv, [Next]_vars PROVE [Instance!Next]_<<State, inHand>>
  OBVIOUS
<1>1. CASE CreateApplication
  BY <1>1, CreateRefines
<1>2. CASE Exit
  BY <1>2, ExitRefines
<1>3. CASE WatchSignals \/ ReceiveSignal \/ ServicesEnd \/ AwaitSignal \/ AwaitServices
  <2>1. State = "up" /\ State' = "up" /\ inHand' = inHand
    BY <1>3
    DEF WatchSignals, ReceiveSignal, ServicesEnd, AwaitSignal, AwaitServices, serviceVars,
        State
  <2> QED
    BY <2>1
<1>4. CASE ServiceStep
  <2>1. State' = State
    BY <1>4, ServiceStepKeeps DEF LeavesMainAlone, mainVars, State
  <2>2. Alive => State = "up"
    BY DEF Alive, State
  <2>3. ASSUME NEW s \in Services, Take(s) PROVE Instance!Take(s)
    BY <2>1, <2>2, <2>3 DEF Take, Instance!Take
  <2>4. ASSUME NEW s \in Services, Finish(s) PROVE Instance!Finish(s)
    BY <2>1, <2>2, <2>4 DEF Finish, Instance!Finish
  <2>5. ASSUME \/ Bind \/ StopAccepting
               \/ \E s \in Services : Return(s)
               \/ \E w \in Workers : Panic(w)
        PROVE  inHand' = inHand
    BY <2>5 DEF Bind, StopAccepting, Return, Panic
  <2> QED
    BY <1>4, <2>1, <2>3, <2>4, <2>5 DEF ServiceStep, Instance!Next
<1>5. ASSUME NEW sig \in Signals, Signal(sig) PROVE [Instance!Next]_<<State, inHand>>
  <2>1. State = "up"
    BY <1>5 DEF Signal, Alive, State
  <2>2. CASE main' = "killed"
    <3>1. State' = "crashed" /\ inHand' = Instance!Nothing
      BY <1>5, <2>2 DEF Signal, Alive, State, Instance!Nothing
    <3> QED
      BY <2>1, <3>1 DEF Instance!Next, Instance!Crash
  <2>3. CASE main' # "killed"
    <3>1. State' = State /\ inHand' = inHand
      BY <1>5, <2>3 DEF Signal, State
    <3> QED
      BY <3>1
  <2> QED
    BY <2>2, <2>3
<1>6. CASE Abort
  <2>1. State = "up" /\ State' = "crashed" /\ inHand' = Instance!Nothing
    BY <1>6 DEF Abort, Alive, State, Instance!Nothing
  <2> QED
    BY <2>1 DEF Instance!Next, Instance!Crash
<1>7. CASE UNCHANGED vars
  BY <1>7 DEF vars, mainVars, serviceVars, State
<1> QED
  BY <1>1, <1>2, <1>3, <1>4, <1>5, <1>6, <1>7 DEF Next, MainStep, ServiceStep

(* A process of an application is an instance as JobSystem sees it: it     *)
(* stops only with nothing in hand, or crashes.                            *)
THEOREM LifecycleImplementsInstance == Spec => ImplementsInstance
<1>1. Spec => []IInv
  BY IInvCorrect
<1> QED
  BY <1>1, InitRefines, StepRefines, PTL DEF Spec, ImplementsInstance, Instance!Spec,
  Instance!vars
===============================================================================
