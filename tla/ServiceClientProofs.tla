------------------------ MODULE ServiceClientProofs ------------------------
(***************************************************************************)
(* What ServiceClient promises of the timeout of a call, of the socket and *)
(* of the errors, for any calls and any timeout, in three parts, each with *)
(* an inductive invariant that contains the one before:                    *)
(*                                                                         *)
(*  - TimeInv.  The handlers compute the next deadline from the AsyncState:*)
(*    startTime and timeout add up to the timeout that asyncCall was given *)
(*    while a part is under way.                                           *)
(*  - OwnInv.  The call that the manager takes to be running, and no other,*)
(*    has one part under way, and the one worker is in one handler.        *)
(*  - OutcomeInv.  What the handler of a part looks at, is_open() of its   *)
(*    socket or resolver, is false exactly when its call was interrupted.  *)
(***************************************************************************)
EXTENDS ServiceClient, AsyncOperationManagerProofs, FiniteSetTheorems

-----------------------------------------------------------------------------
(* The client and its manager.                                             *)

(* A call starts an operation of the manager, its last part notifies it and*)
(* the state that is destroyed ends it; nothing else concerns the manager. *)
LEMMA ClientStepIsManagerStep ==
    [ClientNext]_clientVars => [ManagerNext]_managerVars
<1> SUFFICES ASSUME [ClientNext]_clientVars PROVE [ManagerNext]_managerVars
  OBVIOUS
<1>1. ASSUME NEW c \in Op, AsyncCall(c) \/ InitiateFirst(c)
      PROVE  StartOperation(c) \/ UNCHANGED managerVars
  BY <1>1 DEF AsyncCall, InitiateFirst
<1>2. ASSUME NEW p \in Part,
             \/ SystemDone(p) \/ ExpireTimer(p) \/ EnterTimeout(p) \/ Complete(p)
             \/ CloseOnTimeout(p) \/ Decide(p) \/ Continue(p)
      PROVE  UNCHANGED managerVars
  BY <1>2 DEF SystemDone, ExpireTimer, EnterTimeout, Complete, CloseOnTimeout,
    Decide, Continue
<1>3. ASSUME NEW p \in Part, FinishCall(p) \/ Return(p)
      PROVE  p[1] \in Op /\ (Notify(p[1]) \/ DestroyState(p[1]))
  BY <1>3 DEF FinishCall, Return, Part
<1>4. Tick \/ UNCHANGED clientVars => UNCHANGED managerVars
  BY DEF Tick, clientVars
<1>5. Cancel => CancelOperation
  BY DEF Cancel
<1> QED BY <1>1, <1>2, <1>3, <1>4, <1>5 DEF ClientNext, WorkerStep, ManagerNext

(* What is proved of the manager holds in the client, however the parts of *)
(* its calls go.                                                           *)
THEOREM ClientUsesManager == ClientSafety => ManagerSafety
<1>1. ClientInit => ManagerInit
  BY DEF ClientInit
<1> QED BY <1>1, ClientStepIsManagerStep, PTL DEF ClientSafety, ManagerSafety

(* Calls are executed one at a time and in the order of asyncCall, and     *)
(* those that wait are given up by cancel() only: the abstract execution.  *)
THEOREM ClientImplementsSequential == ClientSafety => SequentialSafety
<1> QED BY ClientUsesManager, ManagerImplementsSequential, PTL

-----------------------------------------------------------------------------
(* The times of a call.                                                    *)

Underway(p) == stage[p] \notin {"idle", "calling"}

StateAddsUp == \A p \in Part : Underway(p) => startTime + timeout = CallTimeout

TimeInv ==
    /\ {age, timeout, startTime, deadline} \subseteq Int
    /\ timer \in [Part -> Socket!TimerStage]
    /\ stage \in [Part -> Socket!Stage]
    /\ StateAddsUp
    /\ TimeoutKept

(* A step that begins no part and leaves the times of the call alone,      *)
(* whatever the clock does, preserves the invariant.                       *)
LEMMA QuietStep ==
    ASSUME TimeInv,
           age' \in Int, UNCHANGED <<timeout, startTime, deadline>>,
           timer' \in [Part -> Socket!TimerStage],
           stage' \in [Part -> Socket!Stage],
           \A p \in Part : timer'[p] = "waiting" => timer[p] = "waiting",
           \A p \in Part : stage'[p] \in {"idle", "calling"} \/ Underway(p)
    PROVE  TimeInv'
BY DEF TimeInv, StateAddsUp, TimeoutKept, Underway

(* asyncCallOperation sets the times of the call, and begins a part of it. *)
LEMMA LaunchStep ==
    ASSUME TimeInv, Launch, Launched \subseteq Part,
           stage' \in [Part -> Socket!Stage],
           \A p \in Part \ Launched :
                stage'[p] \in {"idle", "calling"} \/ Underway(p)
    PROVE  TimeInv'
<1>1. timer' = [p \in Part |-> IF p \in Launched THEN "waiting" ELSE timer[p]]
  BY DEF Launch, Socket!TimerBegun
<1>2. timer' \in [Part -> Socket!TimerStage]
  BY <1>1 DEF TimeInv, Socket!TimerStage
<1>3. CASE Launched = {}
  BY <1>1, <1>2, <1>3, QuietStep DEF Launch, timeVars, TimeInv
<1>4. CASE Launched # {}
  BY <1>1, <1>2, <1>4, ClientAssumption
  DEF Launch, TimeInv, StateAddsUp, TimeoutKept, Underway
<1> QED BY <1>3, <1>4

(* What the manager launches begins with a part of its own.                *)
LEMMA LaunchedParts == Launched \subseteq Part
<1> SUFFICES ASSUME NEW c \in Live' \ Live PROVE FirstPart(c) \in Part
  BY DEF Launched
<1>1. c \in Op
  BY DEF Live
<1> QED BY <1>1 DEF FirstPart, Part, Kind

(* What Launch makes of the stages.                                        *)
LEMMA BegunTypes ==
    ASSUME TimeInv
    PROVE  /\ Socket!StageBegun(Launched) \in [Part -> Socket!Stage]
           /\ \A p \in Part \ Launched : Socket!StageBegun(Launched)[p] = stage[p]
BY DEF TimeInv, Socket!StageBegun, Socket!Stage

(* The steps of the timed operations begin no part.                        *)
LEMMA TimedStepPreserves ==
    ASSUME TimeInv, NEW p \in Part,
           \/ SystemDone(p) \/ ExpireTimer(p) \/ EnterTimeout(p)
           \/ CloseOnTimeout(p) \/ Complete(p) \/ Decide(p)
    PROVE  TimeInv'
<1>1. /\ timer' \in [Part -> Socket!TimerStage]
      /\ stage' \in [Part -> Socket!Stage]
      /\ \A q \in Part : timer'[q] = "waiting" => timer[q] = "waiting"
      /\ \A q \in Part : stage'[q] \in {"idle", "calling"} \/ Underway(q)
  <2>1. CASE SystemDone(p)
    BY <2>1 DEF SystemDone, Socket!SystemDone, TimeInv, Underway, Socket!Stage
  <2>2. CASE ExpireTimer(p)
    BY <2>2 DEF ExpireTimer, Socket!ExpireTimer, TimeInv, Underway,
                Socket!TimerStage, StateAddsUp
  <2>3. CASE EnterTimeout(p)
    BY <2>3 DEF EnterTimeout, Socket!EnterTimeout, TimeInv, Underway,
                Socket!TimerStage
  <2>4. CASE CloseOnTimeout(p)
    BY <2>4 DEF CloseOnTimeout, Completed, TimeInv, Underway,
                Socket!TimerStage, Socket!Stage
  <2>5. CASE Complete(p)
    BY <2>5 DEF Complete, Socket!Complete, TimeInv, Underway,
                Socket!TimerStage, Socket!Stage
  <2>6. CASE Decide(p)
    BY <2>6 DEF Decide, TimeInv, Underway, Socket!Stage
  <2> QED BY <2>1, <2>2, <2>3, <2>4, <2>5, <2>6
<1>2. UNCHANGED timeVars
  BY DEF SystemDone, ExpireTimer, EnterTimeout, CloseOnTimeout, Complete, Decide
<1> QED BY <1>1, <1>2, QuietStep DEF timeVars, TimeInv

(* A handler that continues passes on what is left of the call's timeout.  *)
LEMMA ContinuePreserves ==
    ASSUME TimeInv, NEW p \in Part, Continue(p)
    PROVE  TimeInv'
<1> DEFINE q == <<p[1], Following[p[2]]>>
<1>1. Underway(p) /\ startTime + timeout = CallTimeout
  BY DEF Continue, Underway, TimeInv, StateAddsUp
<1>2. /\ startTime' + timeout' = CallTimeout
      /\ deadline' = CallTimeout
      /\ {age', timeout', startTime', deadline'} \subseteq Int
  <2>1. CASE UpdateTimeout
    BY <1>1, <2>1, ClientAssumption DEF UpdateTimeout, Remaining, TimeInv
  <2>2. CASE PassRemaining
    BY <1>1, <2>2, ClientAssumption DEF PassRemaining, Remaining, TimeInv
  <2> QED BY <2>1, <2>2 DEF Continue
<1>3. timer' \in [Part -> Socket!TimerStage] /\ stage' \in [Part -> Socket!Stage]
  BY DEF Continue, TimeInv, Socket!TimerStage, Socket!Stage
<1> QED BY <1>2, <1>3 DEF TimeInv, StateAddsUp, TimeoutKept

(* The end of a call, which may launch the next.                           *)
LEMMA FinishCallPreserves ==
    ASSUME TimeInv, NEW p \in Part, FinishCall(p)
    PROVE  TimeInv'
<1>1. /\ stage' = [Socket!StageBegun(Launched) EXCEPT ![p] = "calling"]
      /\ Launch
  BY DEF FinishCall
<1>2. stage' \in [Part -> Socket!Stage]
  BY <1>1, BegunTypes DEF Socket!Stage
<1>3. \A r \in Part \ Launched : stage'[r] \in {"idle", "calling"} \/ Underway(r)
  BY <1>1, BegunTypes DEF Underway
<1> QED BY <1>1, <1>2, <1>3, LaunchedParts, LaunchStep

(* A call that is started runs at once or is stored.                       *)
LEMMA AsyncCallPreserves ==
    ASSUME TimeInv, NEW c \in Op, AsyncCall(c)
    PROVE  TimeInv'
<1>1. stage' = Socket!StageBegun(Launched) /\ Launch
  BY DEF AsyncCall
<1>2. \A r \in Part \ Launched : stage'[r] \in {"idle", "calling"} \/ Underway(r)
  BY <1>1, BegunTypes DEF Underway
<1> QED BY <1>1, <1>2, BegunTypes, LaunchedParts, LaunchStep

(* Every step preserves the invariant.                                     *)
LEMMA TimeInvNext == TimeInv /\ [ClientNext]_clientVars => TimeInv'
<1> SUFFICES ASSUME TimeInv, [ClientNext]_clientVars PROVE TimeInv'
  OBVIOUS
<1>1. ASSUME NEW c \in Op, InitiateFirst(c) PROVE TimeInv'
  <2>1. /\ timer' \in [Part -> Socket!TimerStage]
        /\ stage' \in [Part -> Socket!Stage]
        /\ \A p \in Part : stage'[p] \in {"idle", "calling"} \/ Underway(p)
    BY <1>1 DEF InitiateFirst, TimeInv, Underway, Socket!Stage
  <2> QED BY <1>1, <2>1, QuietStep DEF InitiateFirst, timeVars, TimeInv
<1>2. ASSUME NEW p \in Part, Return(p) PROVE TimeInv'
  <2>1. /\ timer' \in [Part -> Socket!TimerStage]
        /\ stage' \in [Part -> Socket!Stage]
        /\ \A q \in Part : stage'[q] \in {"idle", "calling"} \/ Underway(q)
    BY <1>2 DEF Return, TimeInv, Underway, Socket!Stage
  <2> QED BY <1>2, <2>1, QuietStep DEF Return, timeVars, TimeInv
<1>3. CASE Tick
  BY <1>3, QuietStep DEF Tick, ioVars, TimeInv, Underway
<1>4. CASE Cancel
  <2>1. /\ stage' \in [Part -> Socket!Stage]
        /\ \A q \in Part : stage'[q] \in {"idle", "calling"} \/ Underway(q)
    BY <1>4 DEF Cancel, Completed, TimeInv, Underway, Socket!Stage
  <2> QED BY <1>4, <2>1, QuietStep DEF Cancel, timeVars, TimeInv
<1>5. CASE UNCHANGED clientVars
  BY <1>5 DEF clientVars, ioVars, timeVars, TimeInv, StateAddsUp, TimeoutKept,
              Underway
<1> QED BY <1>1, <1>2, <1>3, <1>4, <1>5, AsyncCallPreserves, ContinuePreserves,
           FinishCallPreserves, TimedStepPreserves DEF ClientNext, WorkerStep

(* No part is under way in the initial state.                              *)
LEMMA TimeInvInit == ClientInit => TimeInv
BY ClientAssumption
DEF ClientInit, TimeInv, StateAddsUp, TimeoutKept, Underway, Socket!TimerStage,
    Socket!Stage

(* The deadline of every part of a call is that of the call, whatever the  *)
(* timeout and however long each part of the call takes.                   *)
THEOREM ClientTimeoutKept == ClientSafety => []TimeoutKept
<1>1. TimeInv => TimeoutKept
  BY DEF TimeInv
<1> QED BY <1>1, TimeInvInit, TimeInvNext, PTL DEF ClientSafety

-----------------------------------------------------------------------------
(* Who uses the socket.                                                    *)

Handled(p) == stage[p] \in {"handling", "decided", "calling"}

(* The live call, and no other, has one part under way.                    *)
PartsAreLive ==
    /\ \A p \in Part : Underway(p) => p[1] \in Live
    /\ \A p, q \in Part : Underway(p) /\ Underway(q) => p = q
    /\ \A c \in Live : \E p \in Part : Underway(p) /\ p[1] = c

(* A timer belongs to a part whose completion handler has not begun.       *)
TimersArePending ==
    \A p \in Part : timer[p] # "off" => Underway(p) /\ ~Handled(p)

(* One worker: one handler at a time has begun and not returned.           *)
OneHandler ==
    /\ \A p, q \in Part : Handled(p) /\ Handled(q) => p = q
    /\ \A p, q \in Part : timer[p] = "passed" => ~Handled(q)

OwnInv ==
    /\ TimeInv
    /\ ManagerInv
    /\ PartsAreLive
    /\ TimersArePending
    /\ OneHandler
    /\ \A p \in Part : stage[p] = "calling" => notifier[p[1]] = "disabled"
    /\ open \in BOOLEAN
    /\ open => Live # {}

(* The parts of a call.                                                    *)
LEMMA PartFacts ==
    /\ \A p \in Part : p[1] \in Op /\ p[2] \in Kind /\ p = <<p[1], p[2]>>
    /\ \A c \in Op : FirstPart(c) \in Part /\ FirstPart(c)[1] = c
BY DEF Part, FirstPart, Kind

(* TimedOperation counts with the same operator.                           *)
LEMMA SameCardinality == \A S : Socket!Cardinality(S) = Cardinality(S)
BY Zenon DEF Cardinality, Socket!Cardinality

(* A free worker is in no handler, as there is only the one.               *)
LEMMA FreeWorkerFacts ==
    ASSUME IsFiniteSet(Op), Socket!WorkerFree, timer \in [Part -> Socket!TimerStage],
           stage \in [Part -> Socket!Stage]
    PROVE  \A p \in Part : timer[p] # "passed" /\ ~Handled(p)
<1>1. IsFiniteSet(Kind)
  <2>1. Kind = {"resolve", "connect"} \cup {"write", "header"} \cup {"data"}
    BY DEF Kind
  <2>2. /\ IsFiniteSet({"resolve"}) /\ IsFiniteSet({"connect"})
        /\ IsFiniteSet({"write"}) /\ IsFiniteSet({"header"}) /\ IsFiniteSet({"data"})
    BY FS_Singleton
  <2>3. Kind = ((({"resolve"} \cup {"connect"}) \cup {"write"}) \cup {"header"})
                    \cup {"data"}
    BY <2>1
  <2> QED BY <2>2, <2>3, FS_Union
<1>2. IsFiniteSet(Part)
  BY <1>1, FS_Product DEF Part
<1>3. IsFiniteSet(Socket!InTimer) /\ IsFiniteSet(Socket!InCompletion)
  BY <1>2, FS_Subset DEF Socket!InTimer, Socket!InCompletion
<1>4. Cardinality(Socket!InTimer) = 0 /\ Cardinality(Socket!InCompletion) = 0
  BY <1>3, SameCardinality, FS_CardinalityType DEF Socket!WorkerFree
<1>5. Socket!InTimer = {} /\ Socket!InCompletion = {}
  BY <1>3, <1>4, FS_EmptySet
<1> QED BY <1>5 DEF Socket!InTimer, Socket!InCompletion, Handled

(* A call that is started is launched if nothing runs.                     *)
LEMMA StartFacts ==
    ASSUME ManagerInv, NEW c \in Op, StartOperation(c)
    PROVE  /\ ManagerInv'
           /\ \/ /\ Live = {} /\ Live' = {c}
                 /\ notifier' = [notifier EXCEPT ![c] = "enabled"]
              \/ Live' = Live /\ notifier' = notifier
<1>1. ManagerInv'
  BY ManagerInvNext DEF ManagerNext
<1>2. CASE ~running
  <2>1. Live = {} /\ notifier' = [notifier EXCEPT ![c] = "enabled"]
    BY <1>2 DEF StartOperation, ManagerInv, RunningMeansLive
  <2>2. Live' = Live \cup {c}
    BY <2>1, LiveAfterLaunch DEF ManagerInv, ManagerTypeOK
  <2> QED BY <1>1, <2>1, <2>2
<1>3. CASE running
  BY <1>1, <1>3 DEF StartOperation, Live
<1> QED BY <1>2, <1>3 DEF ManagerInv, ManagerTypeOK

(* The end of the one live call may launch one that was stored.            *)
LEMMA NotifyFacts ==
    ASSUME ManagerInv, NEW c \in Op, Notify(c)
    PROVE  /\ ManagerInv'
           /\ Live = {c}
           /\ notifier'[c] = "disabled"
           /\ \/ Live' = {} /\ \A d \in Op \ {c} : notifier'[d] = notifier[d]
              \/ \E h \in Op \ {c} :
                    /\ Live' = {h} /\ notifier[h] = "none"
                    /\ \A d \in Op \ {c, h} : notifier'[d] = notifier[d]
<1> USE DEF ManagerInv, ManagerTypeOK
<1>1. ManagerInv'
  BY ManagerInvNext DEF ManagerNext
<1>2. notifier[c] = "enabled" /\ FinishOperation(c, "disabled")
  BY DEF Notify
<1>3. Live = {c}
  BY <1>2 DEF Live, OneAtATime
<1>4. CASE pending = <<>>
  <2>1. notifier' = [notifier EXCEPT ![c] = "disabled"]
    BY <1>2, <1>4 DEF FinishOperation
  <2>2. Live' = {}
    BY <1>2, <2>1, LiveAfterLastFinish
  <2> QED BY <1>1, <1>3, <2>1, <2>2
<1>5. CASE pending # <<>>
  <2> DEFINE h == Head(pending)
  <2>1. h \in Op /\ notifier[h] = "none" /\ h # c
    BY <1>2, <1>5, PoppedFacts
  <2>2. notifier' = [notifier EXCEPT ![c] = "disabled", ![h] = "enabled"]
    BY <1>2, <1>5 DEF FinishOperation
  <2>3. Live' = {h}
    BY <1>2, <2>1, <2>2, LiveAfterHandOver
  <2>4. notifier'[c] = "disabled" /\ \A d \in Op \ {c, h} : notifier'[d] = notifier[d]
    BY <2>1, <2>2
  <2> QED BY <1>1, <1>3, <2>1, <2>3, <2>4
<1> QED BY <1>4, <1>5

(* A step that leaves the manager alone and begins and ends no part.       *)
LEMMA OwnQuietStep ==
    ASSUME OwnInv, TimeInv', UNCHANGED managerVars,
           \A p \in Part : Underway(p)' <=> Underway(p),
           \A p \in Part : stage'[p] = "calling" => stage[p] = "calling",
           TimersArePending', OneHandler',
           open' \in BOOLEAN, open' => open \/ \E p \in Part : Underway(p)
    PROVE  OwnInv'
<1>1. ManagerInv'
  BY ManagerInvNext DEF OwnInv
<1>2. Live' = Live /\ notifier' = notifier
  BY DEF managerVars, Live
<1>3. PartsAreLive'
  BY <1>2 DEF OwnInv, PartsAreLive
<1>4. open' => Live' # {}
  BY <1>2 DEF OwnInv, PartsAreLive
<1> QED BY <1>1, <1>2, <1>3, <1>4 DEF OwnInv

(* What is completed is no longer outstanding, and under way still.        *)
LEMMA CompletedFacts ==
    ASSUME stage \in [Part -> Socket!Stage], NEW parts \in SUBSET Part,
           Completed(parts)
    PROVE  \A p \in Part :
                /\ Underway(p)' <=> Underway(p)
                /\ Handled(p)' <=> Handled(p)
                /\ stage'[p] = "calling" <=> stage[p] = "calling"
BY DEF Completed, Underway, Handled, Socket!Stage

(* The steps of the timed operations leave the part that is under way so.  *)
LEMMA OwnTimedStep ==
    ASSUME OwnInv, IsFiniteSet(Op), NEW p \in Part,
           \/ SystemDone(p) \/ ExpireTimer(p) \/ EnterTimeout(p)
           \/ CloseOnTimeout(p) \/ Complete(p) \/ Decide(p)
    PROVE  OwnInv'
<1>1. TimeInv' /\ UNCHANGED managerVars
  BY TimedStepPreserves
  DEF OwnInv, SystemDone, ExpireTimer, EnterTimeout, CloseOnTimeout, Complete, Decide
<1>2. timer \in [Part -> Socket!TimerStage] /\ stage \in [Part -> Socket!Stage]
  BY DEF OwnInv, TimeInv
<1> USE DEF TimersArePending, OneHandler, Underway, Handled
<1>3. CASE SystemDone(p)
  <2>1. /\ stage[p] = "outstanding" /\ stage' = [stage EXCEPT ![p] = "completed"]
        /\ UNCHANGED <<timer, open>>
    BY <1>3 DEF SystemDone, Socket!SystemDone
  <2> QED BY <1>1, <1>2, <2>1, OwnQuietStep DEF OwnInv
<1>4. CASE ExpireTimer(p)
  <2>1. /\ timer[p] = "waiting" /\ timer' = [timer EXCEPT ![p] = "expired"]
        /\ UNCHANGED <<stage, open>>
    BY <1>4 DEF ExpireTimer, Socket!ExpireTimer
  <2> QED BY <1>1, <1>2, <2>1, OwnQuietStep DEF OwnInv
<1>5. CASE EnterTimeout(p)
  <2>1. /\ timer[p] = "expired" /\ timer' = [timer EXCEPT ![p] = "passed"]
        /\ UNCHANGED <<stage, open>> /\ Socket!WorkerFree
    BY <1>5 DEF EnterTimeout, Socket!EnterTimeout
  <2>2. \A q \in Part : ~Handled(q)
    BY <1>2, <2>1, FreeWorkerFacts
  <2> QED BY <1>1, <1>2, <2>1, <2>2, OwnQuietStep DEF OwnInv
<1>6. CASE CloseOnTimeout(p)
  <2>1. /\ timer[p] = "passed" /\ timer' = [timer EXCEPT ![p] = "off"]
        /\ open' \in BOOLEAN /\ (open' => open)
        /\ \/ Completed({p})
           \/ Completed(SocketParts)
    BY <1>6 DEF CloseOnTimeout, OwnInv
  <2>2. \A q \in Part :
            /\ Underway(q)' <=> Underway(q)
            /\ Handled(q)' <=> Handled(q)
            /\ stage'[q] = "calling" <=> stage[q] = "calling"
    <3>1. {p} \in SUBSET Part /\ SocketParts \in SUBSET Part
      BY DEF SocketParts
    <3> HIDE DEF Underway, Handled
    <3> QED BY <1>2, <2>1, <3>1, CompletedFacts
  <2>3. TimersArePending' /\ OneHandler'
    <3> HIDE DEF Underway, Handled
    <3> QED BY <1>2, <2>1, <2>2 DEF OwnInv
  <2> HIDE DEF Underway, Handled, TimersArePending, OneHandler
  <2> QED BY <1>1, <2>1, <2>2, <2>3, OwnQuietStep
<1>7. CASE Complete(p)
  <2>1. /\ stage[p] = "completed" /\ stage' = [stage EXCEPT ![p] = "handling"]
        /\ timer' = [timer EXCEPT ![p] = IF @ = "passed" THEN @ ELSE "off"]
        /\ UNCHANGED open /\ Socket!WorkerFree
    BY <1>7 DEF Complete, Socket!Complete
  <2>2. \A q \in Part : timer[q] # "passed" /\ ~Handled(q)
    BY <1>2, <2>1, FreeWorkerFacts
  <2>3. TimersArePending' /\ OneHandler'
    BY <1>2, <2>1, <2>2 DEF OwnInv
  <2> QED BY <1>1, <1>2, <2>1, <2>3, OwnQuietStep DEF OwnInv
<1>8. CASE Decide(p)
  <2>1. /\ stage[p] = "handling" /\ stage' = [stage EXCEPT ![p] = "decided"]
        /\ UNCHANGED <<timer, open>>
    BY <1>8 DEF Decide
  <2> QED BY <1>1, <1>2, <2>1, OwnQuietStep DEF OwnInv
<1> QED BY <1>3, <1>4, <1>5, <1>6, <1>7, <1>8

(* A part follows another of the same call.                                *)
LEMMA FollowingFacts ==
    ASSUME NEW p \in Part, p[2] # "data"
    PROVE  /\ <<p[1], Following[p[2]]>> \in Part
           /\ <<p[1], Following[p[2]]>> # p
BY PartFacts DEF Part, Kind, Following

(* The part that is under way is followed by another of its call.          *)
LEMMA OwnContinue ==
    ASSUME OwnInv, NEW p \in Part, Continue(p)
    PROVE  OwnInv'
<1> DEFINE q == <<p[1], Following[p[2]]>>
<1>1. TimeInv' /\ UNCHANGED managerVars
  BY ContinuePreserves DEF OwnInv, Continue
<1>2. timer \in [Part -> Socket!TimerStage] /\ stage \in [Part -> Socket!Stage]
  BY DEF OwnInv, TimeInv
<1>3. /\ stage[p] = "decided" /\ q \in Part /\ q # p /\ q[1] = p[1]
      /\ timer' = [timer EXCEPT ![q] = "waiting"]
      /\ stage' = [stage EXCEPT ![p] = "idle",
                       ![q] = IF open' THEN "outstanding" ELSE "completed"]
      /\ open' = (open \/ q[2] = "connect")
  BY FollowingFacts DEF Continue
<1>4. /\ Underway(p) /\ Handled(p) /\ ~Underway(p)'
      /\ Underway(q)' /\ ~Handled(q)'
      /\ \A r \in Part \ {p, q} : stage'[r] = stage[r] /\ timer'[r] = timer[r]
      /\ stage'[p] = "idle" /\ timer'[p] = timer[p]
  BY <1>2, <1>3 DEF Underway, Handled
<1>5. \A r \in Part : /\ Underway(r) => r = p
                      /\ Handled(r) => r = p
                      /\ timer[r] = "off"
  BY <1>2, <1>3, <1>4 DEF OwnInv, PartsAreLive, TimersArePending, OneHandler
<1>6. \A r \in Part : /\ Underway(r)' <=> r = q
                      /\ ~Handled(r)'
                      /\ timer'[r] # "off" <=> r = q
                      /\ timer'[r] # "passed"
  BY <1>2, <1>3, <1>4, <1>5 DEF Underway, Handled
<1>7. Live' = Live /\ notifier' = notifier /\ ManagerInv'
  BY <1>1, ManagerInvNext DEF managerVars, Live, OwnInv
<1>8. p[1] \in Live /\ \A c \in Live : c = p[1]
  BY <1>4, PartFacts DEF OwnInv, PartsAreLive, ManagerInv, OneAtATime
<1>9. PartsAreLive' /\ TimersArePending' /\ OneHandler'
  BY <1>3, <1>6, <1>7, <1>8 DEF PartsAreLive, TimersArePending, OneHandler
<1>10. \A r \in Part : stage'[r] # "calling"
  BY <1>6 DEF Handled
<1> QED BY <1>1, <1>3, <1>7, <1>8, <1>9, <1>10 DEF OwnInv

(* The first part of the launched call is the only one under way.          *)
LEMMA LaunchedFacts ==
    ASSUME NEW h \in Op, Live' \ Live = {h}
    PROVE  Launched = {FirstPart(h)}
BY DEF Launched

(* A call that is launched at once is the only one; others are stored.     *)
LEMMA OwnAsyncCall ==
    ASSUME OwnInv, NEW c \in Op, AsyncCall(c)
    PROVE  OwnInv'
<1>1. /\ TimeInv' /\ ManagerInv'
      /\ timer \in [Part -> Socket!TimerStage] /\ stage \in [Part -> Socket!Stage]
  BY AsyncCallPreserves, StartFacts DEF AsyncCall, OwnInv, TimeInv
<1>2. /\ timer' = Socket!TimerBegun(Launched) /\ stage' = Socket!StageBegun(Launched)
      /\ open' = (open /\ Launched = {})
      /\ notifier[c] = "none" /\ timer[FirstPart(c)] = "off"
  <2>1. FirstPart(c) = <<c, "resolve">> \/ FirstPart(c) = <<c, "connect">>
    BY DEF FirstPart
  <2> QED BY <2>1 DEF AsyncCall, Launch, StartOperation, Fresh, Socket!Unused, Kind
<1>3. CASE Live' = Live /\ notifier' = notifier
  <2>1. Launched = {}
    BY <1>3 DEF Launched
  <2>2. timer' = timer /\ stage' = stage /\ open' = open
    BY <1>1, <1>2, <2>1 DEF Socket!TimerBegun, Socket!StageBegun, OwnInv
  <2> QED BY <1>1, <1>3, <2>2
        DEF OwnInv, PartsAreLive, TimersArePending, OneHandler, Underway, Handled
<1>4. CASE /\ Live = {} /\ Live' = {c}
           /\ notifier' = [notifier EXCEPT ![c] = "enabled"]
  <2> DEFINE f == FirstPart(c)
  <2>1. Launched = {f} /\ f \in Part /\ f[1] = c
    BY <1>4, LaunchedFacts, PartFacts
  <2>2. \A r \in Part : ~Underway(r) /\ timer[r] = "off"
    BY <1>4 DEF OwnInv, PartsAreLive, TimersArePending
  <2>3. /\ \A r \in Part \ {f} : stage'[r] = stage[r] /\ timer'[r] = timer[r]
        /\ stage'[f] = "starting" /\ timer'[f] = "waiting"
    BY <1>2, <2>1 DEF Socket!TimerBegun, Socket!StageBegun
  <2>4. \A r \in Part : /\ Underway(r)' <=> r = f
                        /\ Handled(r)' <=> Handled(r) /\ r # f
                        /\ timer'[r] # "off" <=> r = f
                        /\ timer'[r] # "passed"
    BY <2>2, <2>3 DEF Underway, Handled
  <2>5. PartsAreLive' /\ TimersArePending' /\ OneHandler'
    BY <1>4, <2>1, <2>4 DEF PartsAreLive, TimersArePending, OneHandler, OwnInv
  <2>6. \A r \in Part : stage'[r] = "calling" => notifier'[r[1]] = "disabled"
    <3> SUFFICES ASSUME NEW r \in Part, stage'[r] = "calling"
                 PROVE  notifier'[r[1]] = "disabled"
      OBVIOUS
    <3>1. stage[r] = "calling" /\ notifier[r[1]] = "disabled"
      BY <2>3 DEF OwnInv
    <3> QED BY <1>2, <1>4, <3>1
  <2> QED BY <1>1, <1>2, <1>4, <2>1, <2>5, <2>6 DEF OwnInv
<1> QED BY <1>3, <1>4, StartFacts DEF AsyncCall, OwnInv

(* A call that ends hands over to the one that waits longest, or to none.  *)
LEMMA OwnFinishCall ==
    ASSUME OwnInv, NEW p \in Part, FinishCall(p)
    PROVE  OwnInv'
<1>1. /\ TimeInv' /\ ManagerInv' /\ Live = {p[1]} /\ notifier'[p[1]] = "disabled"
      /\ timer \in [Part -> Socket!TimerStage] /\ stage \in [Part -> Socket!Stage]
  BY FinishCallPreserves, NotifyFacts, PartFacts DEF FinishCall, OwnInv, TimeInv
<1>2. /\ timer' = Socket!TimerBegun(Launched)
      /\ stage' = [Socket!StageBegun(Launched) EXCEPT ![p] = "calling"]
      /\ open' = FALSE /\ stage[p] = "decided"
  BY DEF FinishCall, Launch
<1>3. \A r \in Part : /\ Underway(r) <=> r = p
                      /\ Handled(r) <=> r = p
                      /\ timer[r] = "off"
  BY <1>2 DEF OwnInv, PartsAreLive, TimersArePending, OneHandler, Underway, Handled
<1>4. CASE Live' = {}
  <2>1. Launched = {}
    BY <1>4 DEF Launched
  <2>2. timer' = timer /\ stage' = [stage EXCEPT ![p] = "calling"]
    BY <1>1, <1>2, <2>1 DEF Socket!TimerBegun, Socket!StageBegun
  <2>3. \A r \in Part : /\ ~Underway(r)' /\ timer'[r] = "off"
                        /\ Handled(r)' <=> r = p
                        /\ stage'[r] = "calling" => r = p
    BY <1>1, <1>3, <2>2 DEF Underway, Handled
  <2>4. PartsAreLive' /\ TimersArePending' /\ OneHandler'
    BY <1>4, <2>3 DEF PartsAreLive, TimersArePending, OneHandler
  <2> QED BY <1>1, <1>2, <2>3, <2>4 DEF OwnInv
<1>5. ASSUME NEW h \in Op \ {p[1]}, Live' = {h}
      PROVE  OwnInv'
  <2> DEFINE f == FirstPart(h)
  <2>1. Launched = {f} /\ f \in Part /\ f[1] = h /\ f # p
    BY <1>1, <1>5, LaunchedFacts, PartFacts
  <2>2. \A r \in Part : /\ stage'[r] = IF r = f THEN "starting"
                                        ELSE IF r = p THEN "calling" ELSE stage[r]
                        /\ timer'[r] = IF r = f THEN "waiting" ELSE timer[r]
    BY <1>2, <2>1 DEF Socket!TimerBegun, Socket!StageBegun
  <2>3. \A r \in Part : /\ Underway(r)' <=> r = f
                        /\ Handled(r)' <=> r = p
                        /\ timer'[r] # "off" <=> r = f
                        /\ timer'[r] # "passed"
                        /\ stage'[r] = "calling" => r = p
    BY <1>3, <2>1, <2>2 DEF Underway, Handled
  <2>4. PartsAreLive' /\ TimersArePending' /\ OneHandler'
    BY <1>5, <2>1, <2>3 DEF PartsAreLive, TimersArePending, OneHandler
  <2> QED BY <1>1, <1>2, <1>5, <2>3, <2>4 DEF OwnInv
<1> QED BY <1>4, <1>5, NotifyFacts, PartFacts DEF FinishCall, OwnInv

(* The state of a call is destroyed after its user's handler.              *)
LEMMA OwnReturn ==
    ASSUME OwnInv, NEW p \in Part, Return(p), TimeInv'
    PROVE  OwnInv'
<1>1. /\ stage[p] = "calling" /\ notifier[p[1]] = "disabled" /\ DestroyState(p[1])
      /\ stage' = [stage EXCEPT ![p] = "idle"] /\ UNCHANGED <<open, timer>>
      /\ stage \in [Part -> Socket!Stage] /\ p[1] \in Op
      /\ notifier \in [Op -> NotifierState]
  BY PartFacts DEF Return, OwnInv, TimeInv, ManagerInv, ManagerTypeOK
<1>2. notifier' = [notifier EXCEPT ![p[1]] = "none"] /\ Live' = Live
  BY <1>1 DEF DestroyState, Live
<1>3. ManagerInv'
  BY <1>1, ManagerInvNext DEF ManagerNext, OwnInv
<1>4. \A r \in Part : /\ Underway(r)' <=> Underway(r)
                      /\ ~Handled(r)'
                      /\ stage'[r] # "calling"
  BY <1>1 DEF OwnInv, OneHandler, Underway, Handled
<1>5. PartsAreLive' /\ TimersArePending' /\ OneHandler'
  BY <1>1, <1>2, <1>4 DEF OwnInv, PartsAreLive, TimersArePending, OneHandler
<1> QED BY <1>1, <1>2, <1>3, <1>4, <1>5 DEF OwnInv

(* Every step preserves the invariant.                                     *)
LEMMA OwnInvNext ==
    ASSUME IsFiniteSet(Op), OwnInv, [ClientNext]_clientVars
    PROVE  OwnInv'
<1>1. TimeInv'
  BY TimeInvNext DEF OwnInv
<1>2. timer \in [Part -> Socket!TimerStage] /\ stage \in [Part -> Socket!Stage]
  BY DEF OwnInv, TimeInv
<1>3. ASSUME NEW c \in Op, InitiateFirst(c) PROVE OwnInv'
  <2> DEFINE p == FirstPart(c)
  <2>1. /\ p \in Part /\ stage[p] = "starting"
        /\ stage' = [stage EXCEPT ![p] = "outstanding"]
        /\ UNCHANGED <<managerVars, timer>> /\ open' = (open \/ p[2] = "connect")
    BY <1>3, PartFacts DEF InitiateFirst
  <2>2. /\ Underway(p)
        /\ \A r \in Part : /\ Underway(r)' <=> Underway(r)
                           /\ Handled(r)' <=> Handled(r)
                           /\ stage'[r] = "calling" => stage[r] = "calling"
    BY <1>2, <2>1 DEF Underway, Handled
  <2>3. TimersArePending' /\ OneHandler'
    BY <2>1, <2>2 DEF OwnInv, TimersArePending, OneHandler
  <2> QED BY <1>1, <2>1, <2>2, <2>3, OwnQuietStep DEF OwnInv
<1>4. CASE Cancel
  <2>1. /\ CancelOperation /\ open' = FALSE /\ Completed(SocketParts)
        /\ UNCHANGED timer /\ SocketParts \in SUBSET Part
    BY <1>4 DEF Cancel, SocketParts
  <2>2. ManagerInv' /\ Live' = Live /\ notifier' = notifier
    BY <2>1, ManagerInvNext DEF ManagerNext, OwnInv, CancelOperation, Live
  <2>3. \A r \in Part : /\ Underway(r)' <=> Underway(r)
                        /\ Handled(r)' <=> Handled(r)
                        /\ stage'[r] = "calling" <=> stage[r] = "calling"
    BY <1>2, <2>1, CompletedFacts
  <2>4. PartsAreLive' /\ TimersArePending' /\ OneHandler'
    BY <2>1, <2>2, <2>3 DEF OwnInv, PartsAreLive, TimersArePending, OneHandler
  <2> QED BY <1>1, <2>1, <2>2, <2>3, <2>4 DEF OwnInv
<1>5. CASE Tick \/ UNCHANGED clientVars
  <2>1. UNCHANGED <<managerVars, ioVars>>
    BY <1>5 DEF Tick, clientVars
  <2> QED BY <1>1, <2>1, OwnQuietStep
        DEF ioVars, OwnInv, TimersArePending, OneHandler, Underway, Handled
<1> QED
  BY <1>1, <1>3, <1>4, <1>5, OwnTimedStep, OwnContinue, OwnAsyncCall, OwnFinishCall,
     OwnReturn DEF ClientNext, WorkerStep

(* Nothing runs in the initial state.                                     *)
LEMMA OwnInvInit == ClientInit => OwnInv
<1> SUFFICES ASSUME ClientInit PROVE OwnInv
  OBVIOUS
<1>1. TimeInv
  BY TimeInvInit
<1>2. ManagerInv
  BY ManagerInvInit DEF ClientInit
<1>3. Live = {}
  BY DEF ClientInit, ManagerInit, Live
<1> QED BY <1>1, <1>2, <1>3
      DEF ClientInit, OwnInv, PartsAreLive, TimersArePending, OneHandler,
          Underway, Handled

(* The parts that have not come to the user's handler are counted.         *)
LEMMA OwnInvSocket == OwnInv => SocketHasOneUser
<1> SUFFICES ASSUME OwnInv PROVE SocketHasOneUser
  OBVIOUS
<1>1. ASSUME NEW c \in Op
      PROVE  Cardinality(Busy(c)) = IF c \in Live THEN 1 ELSE 0
  <2>1. Busy(c) = {p \in Part : p[1] = c /\ Underway(p)}
    BY DEF Busy, Part, Underway
  <2>2. CASE c \in Live
    <3>1. PICK p \in Part : Busy(c) = {p}
      BY <2>1, <2>2 DEF OwnInv, PartsAreLive
    <3> QED BY <2>2, <3>1, FS_Singleton
  <2>3. CASE c \notin Live
    <3>1. Busy(c) = {}
      BY <2>1, <2>3 DEF OwnInv, PartsAreLive
    <3> QED BY <2>3, <3>1, FS_EmptySet
  <2> QED BY <2>2, <2>3
<1>2. ASSUME NEW p \in Part, timer[p] # "off" PROVE p \in Busy(p[1])
  BY <1>2, PartFacts DEF OwnInv, TimersArePending, Busy, Part, Underway
<1> QED BY <1>1, <1>2 DEF SocketHasOneUser, OwnInv, ManagerInv

(* One call at a time uses the socket, with one timed operation at a time, *)
(* and leaves no timer behind, for any finite set of calls.                *)
THEOREM ClientSocketHasOneUser ==
    ASSUME IsFiniteSet(Op) PROVE ClientSafety => []SocketHasOneUser
<1>1. OwnInv /\ [ClientNext]_clientVars => OwnInv'
  BY OwnInvNext
<1> QED BY <1>1, OwnInvInit, OwnInvSocket, PTL DEF ClientSafety

-----------------------------------------------------------------------------
(* Why calls fail.                                                         *)

(* What is not used says nothing of an earlier call.                       *)
IdleIsClear == \A p \in Part : stage[p] = "idle" => code[p] = "none" /\ error[p] = "none"

(* The socket is not open yet while the host is resolved, nor when a first *)
(* part is yet to be initiated.                                            *)
SocketComesLater ==
    \A p \in Part : Underway(p) /\ (p[2] = "resolve" \/ stage[p] = "starting") => ~open

(* A call that was interrupted has lost the object of its part, and a part *)
(* that was initiated has lost its object only if its call was interrupted.*)
InterruptedIsClosed ==
    \A p \in Part : Underway(p) /\ p[1] \in interrupted => ~IsOpen(p)

ClosedIsInterrupted ==
    \A p \in Part :
        Underway(p) /\ stage[p] # "starting" /\ ~IsOpen(p) => p[1] \in interrupted

(* async_connect is yet to open the socket: there was nothing to lose.     *)
NothingToLose ==
    \A p \in Part :
        stage[p] = "starting" /\ p[2] = "connect" => p[1] \notin interrupted

(* A resolver that was found open when it was done stays open.             *)
ResolvedIsOpen ==
    \A p \in Part :
        stage[p] = "decided" /\ p[2] = "resolve" /\ error[p] = "success" => IsOpen(p)

OutcomeInv ==
    /\ OwnInv
    /\ code \in [Part -> Socket!Code]
    /\ error \in [Part -> Socket!Result \cup {"invalidFrame", "decoding"}]
    /\ interrupted \subseteq {c \in Op : notifier[c] # "none"}
    /\ closedResolver \subseteq interrupted
    /\ IdleIsClear
    /\ SocketComesLater
    /\ InterruptedIsClosed
    /\ ClosedIsInterrupted
    /\ NothingToLose
    /\ ResolvedIsOpen
    /\ AbortedOnlyIfInterrupted

(* Nothing has failed in the initial state.                                *)
LEMMA OutcomeInvInit == ClientInit => OutcomeInv
BY OwnInvInit
DEF ClientInit, OutcomeInv, IdleIsClear, SocketComesLater, InterruptedIsClosed,
    ClosedIsInterrupted, NothingToLose, ResolvedIsOpen, AbortedOnlyIfInterrupted, Underway,
    Socket!Code, Socket!Result

(* A step that touches neither the objects nor the outcome of a part.      *)
LEMMA OutcomeQuietStep ==
    ASSUME OutcomeInv, OwnInv',
           UNCHANGED <<notifier, open, closedResolver, code, error, interrupted>>,
           \A p \in Part : Underway(p)' <=> Underway(p),
           \A p \in Part : stage'[p] = "starting" <=> stage[p] = "starting",
           \A p \in Part : stage'[p] = "decided" => stage[p] = "decided",
           \A p \in Part : stage'[p] = "idle" <=> stage[p] = "idle"
    PROVE  OutcomeInv'
BY DEF OutcomeInv, IdleIsClear, SocketComesLater, InterruptedIsClosed,
    ClosedIsInterrupted, NothingToLose, ResolvedIsOpen, AbortedOnlyIfInterrupted, IsOpen

(* The one handler's error.                                                *)
LEMMA PartErrorsFacts ==
    ASSUME NEW p \in Part, NEW e \in PartErrors(p)
    PROVE  /\ e \in Socket!Result \cup {"invalidFrame", "decoding"}
           /\ e \in {"success", "aborted"} => (e = "success" <=> IsOpen(p))
BY DEF PartErrors, Socket!Result

(* The steps of a timed operation that take nothing from any call.         *)
LEMMA OutcomeTimedStep ==
    ASSUME OutcomeInv, OwnInv', NEW p \in Part,
           \/ SystemDone(p) \/ ExpireTimer(p) \/ EnterTimeout(p)
           \/ Complete(p) \/ Decide(p)
    PROVE  OutcomeInv'
<1> DEFINE Types == /\ timer \in [Part -> Socket!TimerStage]
                    /\ stage \in [Part -> Socket!Stage]
                    /\ code \in [Part -> Socket!Code]
                    /\ error \in [Part -> Socket!Result \cup {"invalidFrame", "decoding"}]
<1>1. Types
  BY DEF OutcomeInv, OwnInv, TimeInv
<1>2. CASE ExpireTimer(p) \/ EnterTimeout(p)
  <2>1. UNCHANGED <<notifier, open, closedResolver, code, error, interrupted, stage>>
    BY <1>2 DEF ExpireTimer, EnterTimeout, Socket!ExpireTimer, Socket!EnterTimeout,
                managerVars
  <2> QED BY <2>1, OutcomeQuietStep DEF Underway
<1>3. CASE Complete(p)
  <2>1. /\ UNCHANGED <<notifier, open, closedResolver, code, error, interrupted>>
        /\ stage[p] = "completed" /\ stage' = [stage EXCEPT ![p] = "handling"]
    BY <1>3 DEF Complete, Socket!Complete, managerVars
  <2> QED BY <1>1, <2>1, OutcomeQuietStep DEF Underway
<1>4. CASE SystemDone(p)
  <2>1. /\ UNCHANGED <<notifier, open, closedResolver, error, interrupted>>
        /\ stage[p] = "outstanding" /\ stage' = [stage EXCEPT ![p] = "completed"]
        /\ \E c \in {"ok", "system"} : code' = [code EXCEPT ![p] = c]
    BY <1>4 DEF SystemDone, Socket!SystemDone, managerVars
  <2>2. /\ code' \in [Part -> Socket!Code]
        /\ \A q \in Part : code'[q] = code[q] \/ (q = p /\ code'[q] # "closed")
    BY <1>1, <2>1 DEF Socket!Code
  <2>3. \A q \in Part : /\ Underway(q)' <=> Underway(q)
                        /\ stage'[q] = "starting" <=> stage[q] = "starting"
                        /\ stage'[q] = "decided" <=> stage[q] = "decided"
                        /\ stage'[q] = "idle" => stage[q] = "idle" /\ q # p
    BY <1>1, <2>1 DEF Underway
  <2> QED BY <1>1, <2>1, <2>2, <2>3
        DEF OutcomeInv, IdleIsClear, SocketComesLater, InterruptedIsClosed,
            ClosedIsInterrupted, NothingToLose, ResolvedIsOpen,
            AbortedOnlyIfInterrupted, IsOpen
<1>5. CASE Decide(p)
  <2>1. /\ UNCHANGED <<notifier, open, closedResolver, code, interrupted>>
        /\ stage[p] = "handling" /\ stage' = [stage EXCEPT ![p] = "decided"]
    BY <1>5 DEF Decide, managerVars
  <2>2. PICK e \in PartErrors(p) : error' = [error EXCEPT ![p] = e]
    BY <1>5 DEF Decide
  <2>3. /\ error' \in [Part -> Socket!Result \cup {"invalidFrame", "decoding"}]
        /\ \A q \in Part : error'[q] = IF q = p THEN e ELSE error[q]
        /\ e = "success" => IsOpen(p)
        /\ e = "aborted" => p[1] \in interrupted
    <3>1. e = "aborted" => ~IsOpen(p) /\ Underway(p) /\ stage[p] # "starting"
      BY <2>1, PartErrorsFacts DEF Underway
    <3> QED BY <1>1, <2>2, <3>1, PartErrorsFacts DEF OutcomeInv, ClosedIsInterrupted
  <2>4. \A q \in Part : /\ Underway(q)' <=> Underway(q)
                        /\ stage'[q] = "starting" <=> stage[q] = "starting"
                        /\ stage'[q] = "decided" => stage[q] = "decided" \/ q = p
                        /\ stage'[q] = "idle" => stage[q] = "idle" /\ q # p
    BY <1>1, <2>1 DEF Underway
  <2>5. /\ IdleIsClear' /\ SocketComesLater' /\ InterruptedIsClosed'
        /\ ClosedIsInterrupted' /\ NothingToLose'
    BY <1>1, <2>1, <2>3, <2>4
    DEF OutcomeInv, IdleIsClear, SocketComesLater, InterruptedIsClosed,
        ClosedIsInterrupted, NothingToLose, IsOpen
  <2>6. ResolvedIsOpen'
    BY <2>1, <2>3, <2>4 DEF OutcomeInv, ResolvedIsOpen, IsOpen
  <2>7. AbortedOnlyIfInterrupted'
    BY <2>1, <2>3 DEF OutcomeInv, AbortedOnlyIfInterrupted
  <2> QED BY <2>1, <2>3, <2>5, <2>6, <2>7 DEF OutcomeInv
<1> QED BY <1>2, <1>3, <1>4, <1>5

(* When one part is under way, the invariant is about that part.           *)
LEMMA OutcomeOfOne ==
    ASSUME NEW p \in Part, OwnInv', \A q \in Part : Underway(q)' => q = p,
           code' \in [Part -> Socket!Code],
           error' \in [Part -> Socket!Result \cup {"invalidFrame", "decoding"}],
           interrupted' \subseteq {c \in Op : notifier'[c] # "none"},
           closedResolver' \subseteq interrupted',
           IdleIsClear', AbortedOnlyIfInterrupted',
           stage'[p] # "decided",
           p[2] = "resolve" \/ stage'[p] = "starting" => ~open',
           p[1] \in interrupted' => ~IsOpen(p)',
           stage'[p] # "starting" /\ ~IsOpen(p)' => p[1] \in interrupted',
           stage'[p] = "starting" /\ p[2] = "connect" => p[1] \notin interrupted'
    PROVE  OutcomeInv'
<1>1. \A q \in Part : stage'[q] = "decided" \/ stage'[q] = "starting" => Underway(q)'
  BY DEF Underway
<1>2. ResolvedIsOpen' /\ NothingToLose'
  BY <1>1 DEF ResolvedIsOpen, NothingToLose
<1>3. SocketComesLater'
  BY DEF SocketComesLater
<1>4. InterruptedIsClosed' /\ ClosedIsInterrupted'
  BY DEF InterruptedIsClosed, ClosedIsInterrupted
<1> QED BY <1>2, <1>3, <1>4 DEF OutcomeInv

(* A timeout takes the object of the part that is under way.               *)
LEMMA OutcomeCloseOnTimeout ==
    ASSUME OutcomeInv, OwnInv', NEW p \in Part, CloseOnTimeout(p)
    PROVE  OutcomeInv'
<1>1. /\ stage \in [Part -> Socket!Stage] /\ code \in [Part -> Socket!Code]
      /\ Underway(p) /\ ~Handled(p) /\ p[1] \in Op /\ notifier[p[1]] = "enabled"
      /\ \A q \in Part : Underway(q) => q = p
  BY PartFacts DEF OutcomeInv, OwnInv, TimeInv, CloseOnTimeout, TimersArePending,
     PartsAreLive, Live
<1>2. /\ UNCHANGED <<notifier, error>>
      /\ interrupted' = IF IsOpen(p) THEN interrupted \cup {p[1]} ELSE interrupted
      /\ IF p[2] = "resolve"
         THEN closedResolver' = closedResolver \cup {p[1]} /\ open' = open
         ELSE open' = FALSE /\ closedResolver' = closedResolver
      /\ Completed({p}) \/ Completed(SocketParts)
  BY DEF CloseOnTimeout, managerVars
<1>3. /\ \A q \in Part \ {p} : stage'[q] = stage[q] /\ code'[q] = code[q]
      /\ \/ stage'[p] = stage[p] /\ code'[p] = code[p]
         \/ /\ stage[p] = "outstanding"
            /\ stage'[p] = "completed" /\ code'[p] = "closed"
      /\ code' \in [Part -> Socket!Code]
  <2>1. \A q \in Part : stage[q] = "outstanding" => q = p
    BY <1>1 DEF Underway
  <2> QED BY <1>1, <1>2, <2>1 DEF Completed, Socket!Code
<1>4. /\ \A q \in Part : Underway(q)' => q = p
      /\ stage'[p] # "decided"
      /\ stage'[p] = "starting" <=> stage[p] = "starting"
  BY <1>1, <1>3 DEF Underway, Handled
<1>5. ~IsOpen(p)'
  BY <1>2 DEF IsOpen
<1>6. stage[p] # "starting" => p[1] \in interrupted'
  BY <1>1, <1>2 DEF OutcomeInv, ClosedIsInterrupted
<1>7. /\ interrupted' \subseteq {c \in Op : notifier'[c] # "none"}
      /\ interrupted \subseteq interrupted'
  BY <1>1, <1>2 DEF OutcomeInv
<1>8. closedResolver' \subseteq interrupted'
  BY <1>2 DEF OutcomeInv, IsOpen
<1>9. IdleIsClear' /\ AbortedOnlyIfInterrupted'
  <2>1. IdleIsClear'
    BY <1>1, <1>2, <1>3 DEF OutcomeInv, IdleIsClear, Underway
  <2>2. AbortedOnlyIfInterrupted'
    BY <1>2, <1>3, <1>6, <1>7 DEF OutcomeInv, AbortedOnlyIfInterrupted
  <2> QED BY <2>1, <2>2
<1>10. stage'[p] = "starting" /\ p[2] = "connect" => p[1] \notin interrupted'
  BY <1>1, <1>2, <1>4
  DEF OutcomeInv, NothingToLose, SocketComesLater, IsOpen
<1>11. p[2] = "resolve" \/ stage'[p] = "starting" => ~open'
  BY <1>1, <1>2, <1>4 DEF OutcomeInv, SocketComesLater
<1> QED BY <1>2, <1>3, <1>4, <1>5, <1>6, <1>7, <1>8, <1>9, <1>10, <1>11,
           OutcomeOfOne DEF OutcomeInv

(* The first part is initiated, on a socket that async_connect opens.      *)
LEMMA OutcomeInitiateFirst ==
    ASSUME OutcomeInv, OwnInv', NEW c \in Op, InitiateFirst(c)
    PROVE  OutcomeInv'
<1> DEFINE p == FirstPart(c)
<1>1. /\ p \in Part /\ stage \in [Part -> Socket!Stage]
      /\ stage[p] = "starting" /\ stage' = [stage EXCEPT ![p] = "outstanding"]
      /\ open' = (open \/ p[2] = "connect")
      /\ UNCHANGED <<notifier, closedResolver, code, error, interrupted>>
      /\ p[2] = "resolve" \/ p[2] = "connect"
  BY PartFacts DEF InitiateFirst, managerVars, OutcomeInv, OwnInv, TimeInv, FirstPart
<1>2. /\ Underway(p) /\ \A q \in Part : Underway(q)' => q = p
      /\ \A q \in Part \ {p} : stage'[q] = stage[q]
      /\ stage'[p] = "outstanding"
  BY <1>1 DEF OutcomeInv, OwnInv, PartsAreLive, Underway
<1>3. ~open
  BY <1>1, <1>2 DEF OutcomeInv, SocketComesLater
<1>4. IdleIsClear' /\ AbortedOnlyIfInterrupted'
  BY <1>1, <1>2 DEF OutcomeInv, IdleIsClear, AbortedOnlyIfInterrupted
<1>5. p[1] \in interrupted' <=> ~IsOpen(p)'
  BY <1>1, <1>2
  DEF OutcomeInv, InterruptedIsClosed, NothingToLose, IsOpen
<1> HIDE DEF p
<1> QED BY <1>1, <1>2, <1>3, <1>4, <1>5, OutcomeOfOne DEF OutcomeInv

(* cancel() takes the socket of the call that runs.                        *)
LEMMA OutcomeCancel ==
    ASSUME OutcomeInv, OwnInv', Cancel
    PROVE  OutcomeInv'
<1>1. /\ stage \in [Part -> Socket!Stage] /\ code \in [Part -> Socket!Code]
      /\ open' = FALSE /\ Completed(SocketParts)
      /\ interrupted' = IF open THEN interrupted \cup Live ELSE interrupted
      /\ UNCHANGED <<notifier, closedResolver, error>>
  BY DEF OutcomeInv, OwnInv, TimeInv, Cancel, CancelOperation
<1>2. \A q \in Part :
        \/ stage'[q] = stage[q] /\ code'[q] = code[q]
        \/ /\ stage[q] = "outstanding" /\ q[2] # "resolve"
           /\ stage'[q] = "completed" /\ code'[q] = "closed"
  BY <1>1 DEF Completed, SocketParts
<1>3. \A q \in Part : /\ Underway(q)' <=> Underway(q)
                      /\ stage'[q] = "starting" <=> stage[q] = "starting"
                      /\ stage'[q] = "decided" <=> stage[q] = "decided"
                      /\ stage'[q] = "idle" => stage[q] = "idle" /\ code'[q] = code[q]
  BY <1>2 DEF Underway
<1>4. /\ \A q \in Part : Underway(q) => q[1] \in Live
      /\ interrupted \subseteq interrupted'
      /\ interrupted' \subseteq interrupted \cup Live
  BY <1>1 DEF OutcomeInv, OwnInv, PartsAreLive
<1>5. /\ interrupted' \subseteq {c \in Op : notifier'[c] # "none"}
      /\ closedResolver' \subseteq interrupted'
      /\ code' \in [Part -> Socket!Code]
  <2>1. code' \in [Part -> Socket!Code]
    BY <1>1 DEF Completed, Socket!Code
  <2> QED BY <1>1, <1>4, <2>1 DEF OutcomeInv, Live
<1>6. /\ IdleIsClear' /\ SocketComesLater'
      /\ \A q \in Part : Underway(q) /\ (q[2] = "resolve" \/ stage[q] = "starting")
            => ~open
  BY <1>1, <1>3 DEF OutcomeInv, IdleIsClear, SocketComesLater
<1>7. InterruptedIsClosed'
  <2> SUFFICES ASSUME NEW q \in Part, Underway(q)', q[1] \in interrupted'
               PROVE  ~IsOpen(q)'
    BY DEF InterruptedIsClosed
  <2>1. CASE q[2] # "resolve"
    BY <1>1, <2>1 DEF IsOpen
  <2>2. CASE q[2] = "resolve"
    <3>1. Underway(q) /\ q[1] \in interrupted
      BY <1>1, <1>3, <1>6, <2>2
    <3> QED BY <1>1, <2>2, <3>1 DEF OutcomeInv, InterruptedIsClosed, IsOpen
  <2> QED BY <2>1, <2>2
<1>8. ClosedIsInterrupted'
  <2> SUFFICES ASSUME NEW q \in Part, Underway(q)', stage'[q] # "starting", ~IsOpen(q)'
               PROVE  q[1] \in interrupted'
    BY DEF ClosedIsInterrupted
  <2>1. CASE IsOpen(q)
    BY <1>1, <1>3, <1>4, <2>1 DEF IsOpen
  <2>2. CASE ~IsOpen(q)
    BY <1>3, <1>4, <2>2 DEF OutcomeInv, ClosedIsInterrupted
  <2> QED BY <2>1, <2>2
<1>9. NothingToLose' /\ ResolvedIsOpen'
  <2>1. NothingToLose'
    <3>1. \A q \in Part : stage[q] = "starting" => Underway(q)
      BY DEF Underway
    <3> QED BY <1>1, <1>3, <1>6, <3>1 DEF OutcomeInv, NothingToLose
  <2>2. ResolvedIsOpen'
    BY <1>1, <1>3 DEF OutcomeInv, ResolvedIsOpen, IsOpen
  <2> QED BY <2>1, <2>2
<1>10. AbortedOnlyIfInterrupted'
  <2> SUFFICES ASSUME NEW q \in Part, code'[q] = "closed" \/ error'[q] = "aborted"
               PROVE  q[1] \in interrupted'
    BY DEF AbortedOnlyIfInterrupted
  <2>1. CASE code'[q] = code[q]
    BY <1>1, <1>4, <2>1 DEF OutcomeInv, AbortedOnlyIfInterrupted
  <2>2. CASE stage'[q] = "completed" /\ q[2] # "resolve"
    BY <1>1, <1>8, <2>2 DEF ClosedIsInterrupted, Underway, IsOpen
  <2> QED BY <1>2, <2>1, <2>2
<1> QED BY <1>1, <1>5, <1>6, <1>7, <1>8, <1>9, <1>10 DEF OutcomeInv

(* Only the resolution of the host is followed by opening the socket.      *)
LEMMA FollowingConnect ==
    ASSUME NEW p \in Part, p[2] # "data"
    PROVE  /\ Following[p[2]] # "resolve"
           /\ Following[p[2]] = "connect" <=> p[2] = "resolve"
BY PartFacts DEF Kind, Following

(* A part that follows one that was found successful.                      *)
LEMMA OutcomeContinue ==
    ASSUME OutcomeInv, OwnInv', NEW p \in Part, Continue(p)
    PROVE  OutcomeInv'
<1> DEFINE q == <<p[1], Following[p[2]]>>
<1>1. /\ stage \in [Part -> Socket!Stage] /\ code \in [Part -> Socket!Code]
      /\ error \in [Part -> Socket!Result \cup {"invalidFrame", "decoding"}]
      /\ stage[p] = "decided" /\ error[p] = "success" /\ p[2] # "data"
      /\ q \in Part /\ q # p /\ q[1] = p[1]
      /\ q[2] # "resolve" /\ (q[2] = "connect" <=> p[2] = "resolve")
      /\ open' = (open \/ q[2] = "connect")
      /\ UNCHANGED <<notifier, closedResolver, interrupted>>
  BY FollowingFacts, FollowingConnect
  DEF OutcomeInv, OwnInv, TimeInv, Continue, managerVars
<1>2. /\ stage' = [stage EXCEPT ![p] = "idle",
                       ![q] = IF open' THEN "outstanding" ELSE "completed"]
      /\ code' = [code EXCEPT ![p] = "none",
                       ![q] = IF open' THEN "none" ELSE "closed"]
      /\ error' = [error EXCEPT ![p] = "none"]
  BY DEF Continue
<1> HIDE DEF q
<1>3. Underway(p) /\ \A r \in Part : Underway(r) => r = p
  BY <1>1 DEF OutcomeInv, OwnInv, PartsAreLive, Underway
<1>4. /\ \A r \in Part \ {p, q} : /\ stage'[r] = stage[r] /\ code'[r] = code[r]
                                  /\ error'[r] = error[r]
      /\ stage'[p] = "idle" /\ code'[p] = "none" /\ error'[p] = "none"
      /\ stage'[q] = IF open' THEN "outstanding" ELSE "completed"
      /\ code'[q] = IF open' THEN "none" ELSE "closed"
      /\ error'[q] = error[q]
  BY <1>1, <1>2
<1>5. /\ \A r \in Part : Underway(r)' => r = q
      /\ stage'[q] \notin {"decided", "starting", "idle"}
  BY <1>3, <1>4 DEF Underway
<1>6. /\ code' \in [Part -> Socket!Code]
      /\ error' \in [Part -> Socket!Result \cup {"invalidFrame", "decoding"}]
  BY <1>1, <1>2 DEF Socket!Code, Socket!Result
<1>7. IdleIsClear'
  BY <1>4, <1>5 DEF OutcomeInv, IdleIsClear
<1>8. p[1] \in interrupted <=> ~IsOpen(p)
  BY <1>1, <1>3 DEF OutcomeInv, InterruptedIsClosed, ClosedIsInterrupted
<1>9. q[1] \in interrupted' <=> ~IsOpen(q)'
  <2>1. CASE p[2] = "resolve"
    BY <1>1, <1>8, <2>1 DEF OutcomeInv, ResolvedIsOpen, IsOpen
  <2>2. CASE p[2] # "resolve"
    BY <1>1, <1>8, <2>2 DEF IsOpen
  <2> QED BY <2>1, <2>2
<1>10. AbortedOnlyIfInterrupted'
  <2>1. code'[q] = "closed" => q[1] \in interrupted'
    BY <1>1, <1>4, <1>9 DEF IsOpen
  <2> QED BY <1>1, <1>4, <2>1 DEF OutcomeInv, AbortedOnlyIfInterrupted
<1> QED BY <1>1, <1>5, <1>6, <1>7, <1>9, <1>10, OutcomeOfOne DEF OutcomeInv

(* When no part is under way, the invariant is about what is over.         *)
LEMMA OutcomeOfNone ==
    ASSUME OwnInv', \A q \in Part : ~Underway(q)',
           code' \in [Part -> Socket!Code],
           error' \in [Part -> Socket!Result \cup {"invalidFrame", "decoding"}],
           interrupted' \subseteq {c \in Op : notifier'[c] # "none"},
           closedResolver' \subseteq interrupted',
           IdleIsClear', AbortedOnlyIfInterrupted'
    PROVE  OutcomeInv'
<1>1. \A q \in Part : stage'[q] # "decided" /\ stage'[q] # "starting"
  BY DEF Underway
<1>2. ResolvedIsOpen' /\ NothingToLose'
  BY <1>1 DEF ResolvedIsOpen, NothingToLose
<1>3. SocketComesLater' /\ InterruptedIsClosed' /\ ClosedIsInterrupted'
  BY DEF SocketComesLater, InterruptedIsClosed, ClosedIsInterrupted
<1> QED BY <1>2, <1>3 DEF OutcomeInv

(* A call that is launched has a name that nothing refers to.              *)
LEMMA OutcomeAsyncCall ==
    ASSUME OutcomeInv, OwnInv', NEW c \in Op, AsyncCall(c)
    PROVE  OutcomeInv'
<1>1. /\ stage \in [Part -> Socket!Stage] /\ open \in BOOLEAN
      /\ stage' = Socket!StageBegun(Launched) /\ open' = (open /\ Launched = {})
      /\ notifier[c] = "none" /\ notifier \in [Op -> NotifierState]
      /\ UNCHANGED <<closedResolver, code, error, interrupted>>
  BY DEF OutcomeInv, OwnInv, TimeInv, ManagerInv, ManagerTypeOK, AsyncCall,
         StartOperation, Fresh
<1>2. CASE Live' = Live /\ notifier' = notifier
  <2>1. Launched = {}
    BY <1>2 DEF Launched
  <2>2. stage' = stage /\ open' = open
    BY <1>1, <2>1 DEF Socket!StageBegun
  <2> QED BY <1>1, <1>2, <2>2, OutcomeQuietStep DEF Underway
<1>3. CASE /\ Live = {} /\ Live' = {c}
           /\ notifier' = [notifier EXCEPT ![c] = "enabled"]
  <2> DEFINE f == FirstPart(c)
  <2>1. Launched = {f} /\ f \in Part /\ f[1] = c /\ f[2] \in {"resolve", "connect"}
    BY <1>3, LaunchedFacts, PartFacts DEF FirstPart
  <2>2. \A r \in Part : stage'[r] = IF r = f THEN "starting" ELSE stage[r]
    BY <1>1, <2>1 DEF Socket!StageBegun
  <2>3. /\ \A r \in Part : ~Underway(r)
        /\ \A r \in Part : stage[r] = "calling" => notifier[r[1]] = "disabled"
    BY <1>3 DEF OutcomeInv, OwnInv, PartsAreLive
  <2>4. \A r \in Part : Underway(r)' => r = f
    BY <2>2, <2>3 DEF Underway
  <2>5. c \notin interrupted' /\ c \notin closedResolver'
    BY <1>1 DEF OutcomeInv
  <2>6. interrupted' \subseteq {d \in Op : notifier'[d] # "none"}
    BY <1>1, <1>3 DEF OutcomeInv
  <2>7. IdleIsClear' /\ AbortedOnlyIfInterrupted'
    BY <1>1, <2>2 DEF OutcomeInv, IdleIsClear, AbortedOnlyIfInterrupted
  <2>8. stage'[f] = "starting" /\ ~open'
    BY <1>1, <2>1, <2>2
  <2> HIDE DEF f
  <2> QED BY <1>1, <2>1, <2>4, <2>5, <2>6, <2>7, <2>8, OutcomeOfOne DEF OutcomeInv
<1> QED BY <1>2, <1>3, StartFacts DEF AsyncCall, OutcomeInv, OwnInv

(* The user is told of an abort only if there was one.                     *)
LEMMA ReportedFacts ==
    ASSUME NEW p \in Part, NEW e \in Reported(p),
           error \in [Part -> Socket!Result \cup {"invalidFrame", "decoding"}]
    PROVE  /\ e \in Socket!Result \cup {"invalidFrame", "decoding"}
           /\ e = "aborted" => error[p] = "aborted"
BY DEF Reported, Socket!Result

(* The end of a call, with the socket closed for the next.                 *)
LEMMA OutcomeFinishCall ==
    ASSUME OutcomeInv, OwnInv', NEW p \in Part, FinishCall(p)
    PROVE  OutcomeInv'
<1>1. /\ stage \in [Part -> Socket!Stage]
      /\ error \in [Part -> Socket!Result \cup {"invalidFrame", "decoding"}]
      /\ stage[p] = "decided" /\ open' = FALSE
      /\ stage' = [Socket!StageBegun(Launched) EXCEPT ![p] = "calling"]
      /\ UNCHANGED <<closedResolver, code, interrupted>>
      /\ Live = {p[1]} /\ notifier'[p[1]] = "disabled" /\ p[1] \in Op
  BY NotifyFacts, PartFacts DEF OutcomeInv, OwnInv, TimeInv, FinishCall
<1>2. PICK e \in Reported(p) : error' = [error EXCEPT ![p] = e]
  BY DEF FinishCall
<1>3. /\ error' \in [Part -> Socket!Result \cup {"invalidFrame", "decoding"}]
      /\ \A r \in Part : error'[r] = IF r = p THEN e ELSE error[r]
      /\ AbortedOnlyIfInterrupted'
  <2>1. /\ error' \in [Part -> Socket!Result \cup {"invalidFrame", "decoding"}]
        /\ \A r \in Part : error'[r] = IF r = p THEN e ELSE error[r]
    BY <1>1, <1>2, ReportedFacts
  <2> QED BY <1>1, <2>1, ReportedFacts DEF OutcomeInv, AbortedOnlyIfInterrupted
<1>4. \A r \in Part : /\ Underway(r) => r = p
                      /\ Handled(r) => r = p
  BY <1>1 DEF OutcomeInv, OwnInv, PartsAreLive, OneHandler, Underway, Handled
<1>5. CASE Live' = {} /\ \A d \in Op \ {p[1]} : notifier'[d] = notifier[d]
  <2>1. Launched = {}
    BY <1>5 DEF Launched
  <2>2. stage' = [stage EXCEPT ![p] = "calling"]
    BY <1>1, <2>1 DEF Socket!StageBegun
  <2>3. \A r \in Part : ~Underway(r)'
    BY <1>1, <1>4, <2>2 DEF Underway
  <2>4. IdleIsClear' /\ interrupted' \subseteq {d \in Op : notifier'[d] # "none"}
    BY <1>1, <1>3, <1>5, <2>2 DEF OutcomeInv, IdleIsClear
  <2> QED BY <1>1, <1>3, <2>3, <2>4, OutcomeOfNone DEF OutcomeInv
<1>6. ASSUME NEW h \in Op \ {p[1]}, Live' = {h}, notifier[h] = "none",
             \A d \in Op \ {p[1], h} : notifier'[d] = notifier[d]
      PROVE  OutcomeInv'
  <2> DEFINE f == FirstPart(h)
  <2>1. /\ Launched = {f} /\ f \in Part /\ f[1] = h /\ f # p
        /\ f[2] \in {"resolve", "connect"}
    BY <1>1, <1>6, LaunchedFacts, PartFacts DEF FirstPart
  <2>2. \A r \in Part : stage'[r] = IF r = f THEN "starting"
                                    ELSE IF r = p THEN "calling" ELSE stage[r]
    BY <1>1, <2>1 DEF Socket!StageBegun
  <2>3. \A r \in Part : Underway(r)' => r = f
    BY <1>4, <2>2 DEF Underway
  <2>4. h \notin interrupted' /\ h \notin closedResolver'
    BY <1>1, <1>6 DEF OutcomeInv
  <2>5. interrupted' \subseteq {d \in Op : notifier'[d] # "none"}
    BY <1>1, <1>6, <2>4 DEF OutcomeInv
  <2>6. IdleIsClear'
    BY <1>1, <1>3, <2>2 DEF OutcomeInv, IdleIsClear
  <2>7. stage'[f] = "starting" /\ ~open'
    BY <1>1, <2>1, <2>2
  <2> HIDE DEF f
  <2> QED BY <1>1, <1>3, <2>1, <2>3, <2>4, <2>5, <2>6, <2>7, OutcomeOfOne
        DEF OutcomeInv
<1> QED BY <1>5, <1>6, NotifyFacts, PartFacts DEF FinishCall, OutcomeInv, OwnInv

(* What is left of a call whose user's handler has returned is nothing.    *)
LEMMA OutcomeReturn ==
    ASSUME OutcomeInv, OwnInv', NEW p \in Part, Return(p)
    PROVE  OutcomeInv'
<1>1. /\ stage[p] = "calling" /\ notifier[p[1]] = "disabled" /\ p[1] \in Op
      /\ stage' = [stage EXCEPT ![p] = "idle"] /\ UNCHANGED open
      /\ code' = [code EXCEPT ![p] = "none"]
      /\ error' = [error EXCEPT ![p] = "none"]
      /\ closedResolver' = closedResolver \ {p[1]}
      /\ interrupted' = interrupted \ {p[1]}
      /\ stage \in [Part -> Socket!Stage] /\ code \in [Part -> Socket!Code]
      /\ error \in [Part -> Socket!Result \cup {"invalidFrame", "decoding"}]
      /\ notifier \in [Op -> NotifierState]
  BY PartFacts
  DEF Return, OutcomeInv, OwnInv, TimeInv, ManagerInv, ManagerTypeOK
<1>2. notifier' = [notifier EXCEPT ![p[1]] = "none"]
  BY <1>1 DEF Return, DestroyState
<1>3. \A r \in Part : /\ Underway(r)' <=> Underway(r)
                      /\ stage'[r] = IF r = p THEN "idle" ELSE stage[r]
                      /\ code'[r] = IF r = p THEN "none" ELSE code[r]
                      /\ error'[r] = IF r = p THEN "none" ELSE error[r]
  BY <1>1 DEF Underway
<1>4. \A r \in Part : r[1] = p[1] /\ r # p => stage[r] = "idle"
  <2> SUFFICES ASSUME NEW r \in Part, r[1] = p[1], r # p PROVE stage[r] = "idle"
    OBVIOUS
  <2>1. ~Underway(r)
    BY <1>1 DEF OutcomeInv, OwnInv, PartsAreLive, Live
  <2>2. ~Handled(r)
    BY <1>1 DEF OutcomeInv, OwnInv, OneHandler, Handled
  <2> QED BY <2>1, <2>2 DEF Underway, Handled
<1>5. \A r \in Part : Underway(r) => r[1] # p[1]
  BY <1>1 DEF OutcomeInv, OwnInv, PartsAreLive, Live
<1>6. \A r \in Part : Underway(r) => /\ r[1] \in interrupted' <=> r[1] \in interrupted
                                     /\ IsOpen(r)' <=> IsOpen(r)
  BY <1>1, <1>5 DEF IsOpen
<1>7. /\ code' \in [Part -> Socket!Code]
      /\ error' \in [Part -> Socket!Result \cup {"invalidFrame", "decoding"}]
      /\ interrupted' \subseteq {c \in Op : notifier'[c] # "none"}
      /\ closedResolver' \subseteq interrupted'
  BY <1>1, <1>2 DEF OutcomeInv, Socket!Code, Socket!Result
<1>8. IdleIsClear' /\ AbortedOnlyIfInterrupted'
  BY <1>1, <1>3, <1>4 DEF OutcomeInv, IdleIsClear, AbortedOnlyIfInterrupted
<1>9. SocketComesLater' /\ InterruptedIsClosed' /\ ClosedIsInterrupted'
  BY <1>1, <1>3, <1>6
  DEF OutcomeInv, SocketComesLater, InterruptedIsClosed, ClosedIsInterrupted
<1>10. NothingToLose' /\ ResolvedIsOpen'
  <2>1. \A r \in Part : stage'[r] = "starting" \/ stage'[r] = "decided" => Underway(r)
    BY <1>3 DEF Underway
  <2>2. NothingToLose'
    BY <1>1, <1>3 DEF OutcomeInv, NothingToLose
  <2>3. ResolvedIsOpen'
    BY <1>3, <1>6, <2>1 DEF OutcomeInv, ResolvedIsOpen
  <2> QED BY <2>2, <2>3
<1> QED BY <1>7, <1>8, <1>9, <1>10 DEF OutcomeInv

(* Every step preserves the invariant.                                     *)
LEMMA OutcomeInvNext ==
    ASSUME IsFiniteSet(Op), OutcomeInv, [ClientNext]_clientVars
    PROVE  OutcomeInv'
<1>1. OwnInv'
  BY OwnInvNext DEF OutcomeInv
<1>2. CASE Tick \/ UNCHANGED clientVars
  <2>1. UNCHANGED <<managerVars, ioVars, interrupted>>
    BY <1>2 DEF Tick, clientVars
  <2> QED BY <1>1, <2>1, OutcomeQuietStep DEF managerVars, ioVars, Underway
<1> QED
  BY <1>1, <1>2, OutcomeTimedStep, OutcomeCloseOnTimeout, OutcomeInitiateFirst,
     OutcomeCancel, OutcomeContinue, OutcomeAsyncCall, OutcomeFinishCall, OutcomeReturn
  DEF ClientNext, WorkerStep

(* No call is aborted by the timeout of another, for any finite set of     *)
(* calls: the close lambda of a call that is over never runs, and the call *)
(* that follows finds the socket and its resolver as new.                  *)
THEOREM ClientAbortedOnlyIfInterrupted ==
    ASSUME IsFiniteSet(Op) PROVE ClientSafety => []AbortedOnlyIfInterrupted
<1>1. OutcomeInv /\ [ClientNext]_clientVars => OutcomeInv'
  BY OutcomeInvNext
<1>2. OutcomeInv => AbortedOnlyIfInterrupted
  BY DEF OutcomeInv
<1> QED BY <1>1, <1>2, OutcomeInvInit, PTL DEF ClientSafety

(* A part comes by its error in its own handler.                           *)
LEMMA DecidedByItsHandler ==
    ASSUME OutcomeInv, [ClientNext]_clientVars, NEW p \in Part,
           stage[p] = "handling", stage'[p] = "decided"
    PROVE  Decide(p)
<1>1. stage \in [Part -> Socket!Stage]
  BY DEF OutcomeInv, OwnInv, TimeInv
<1>2. ASSUME Completed(SocketParts) \/ \E q \in Part : Completed({q})
      PROVE  FALSE
  BY <1>2 DEF Completed
<1>3. ASSUME NEW c \in Op, AsyncCall(c) \/ InitiateFirst(c) PROVE FALSE
  BY <1>1, <1>3 DEF AsyncCall, InitiateFirst, Socket!StageBegun
<1>4. ASSUME NEW q \in Part, SystemDone(q) \/ ExpireTimer(q) \/ EnterTimeout(q)
                             \/ Complete(q)
      PROVE  FALSE
  BY <1>1, <1>4
  DEF SystemDone, ExpireTimer, EnterTimeout, Complete, Socket!SystemDone,
      Socket!ExpireTimer, Socket!EnterTimeout, Socket!Complete
<1>5. ASSUME NEW q \in Part, CloseOnTimeout(q) PROVE FALSE
  BY <1>2, <1>5 DEF CloseOnTimeout
<1>6. ASSUME NEW q \in Part, Continue(q) PROVE FALSE
  BY <1>1, <1>6 DEF Continue
<1>7. ASSUME NEW q \in Part, FinishCall(q) \/ Return(q) PROVE FALSE
  BY <1>1, <1>7 DEF FinishCall, Return, Socket!StageBegun
<1>8. CASE Cancel
  BY <1>2, <1>8 DEF Cancel
<1>9. CASE Tick \/ UNCHANGED clientVars
  BY <1>9 DEF Tick, clientVars, ioVars
<1>10. ASSUME NEW q \in Part, Decide(q) PROVE Decide(p)
  BY <1>1, <1>10 DEF Decide
<1> QED BY <1>3, <1>4, <1>5, <1>6, <1>7, <1>8, <1>9, <1>10 DEF ClientNext, WorkerStep

(* Whatever was interrupted is not found successful, for any finite set of *)
(* calls: what the handler of a part looks at, is_open() of the object, is *)
(* what the timeout or cancel() has done to it, also when the system       *)
(* completed the part first.                                               *)
THEOREM ClientInterruptedCallFails ==
    ASSUME IsFiniteSet(Op) PROVE ClientSafety => InterruptedCallFails
<1> DEFINE Fails(p) ==
        stage[p] = "handling" /\ stage'[p] = "decided" /\ p[1] \in interrupted
            => error'[p] # "success"
<1>1. OutcomeInv /\ [ClientNext]_clientVars => OutcomeInv'
  BY OutcomeInvNext
<1>2. OutcomeInv /\ [ClientNext]_clientVars => [\A p \in Part : Fails(p)]_clientVars
  <2> SUFFICES ASSUME OutcomeInv, [ClientNext]_clientVars, NEW p \in Part,
                      stage[p] = "handling", stage'[p] = "decided",
                      p[1] \in interrupted
               PROVE  error'[p] # "success"
    OBVIOUS
  <2>1. Decide(p)
    BY DecidedByItsHandler
  <2>2. ~IsOpen(p)
    BY DEF OutcomeInv, InterruptedIsClosed, Underway
  <2>3. PICK e \in PartErrors(p) : error' = [error EXCEPT ![p] = e]
    BY <2>1 DEF Decide
  <2> QED BY <2>2, <2>3, PartErrorsFacts DEF OutcomeInv
<1> QED BY <1>1, <1>2, OutcomeInvInit, PTL DEF ClientSafety, InterruptedCallFails
=============================================================================
