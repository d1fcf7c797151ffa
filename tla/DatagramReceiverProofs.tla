----------------------- MODULE DatagramReceiverProofs -----------------------
(***************************************************************************)
(* DatagramReceiver, whose receives replace each other, for every set of   *)
(* receives: with any number of workers where it can be, with one worker   *)
(* where the socket and the close lambda of the timeout are concerned.     *)
(***************************************************************************)
EXTENDS DatagramReceiver, ManagedOperationProofs

-----------------------------------------------------------------------------
(* The receiver.                                                           *)

(* What asyncReceive does, in terms of the two modules.                    *)
LEMMA ReceiveFacts ==
    ASSUME NEW o \in Op, AsyncReceive(o)
    PROVE  /\ MutexFree /\ Unused(o) /\ StartOperation(o) /\ error' = error
           /\ \/ /\ ~running /\ Launching /\ stage' = StageBegun(Launched)
                 /\ UNCHANGED <<code, stopped>>
              \/ /\ running /\ CloseObject /\ timer' = timer
                 /\ stopped' = stopped \cup Undecided
  <1>1. Launch <=> Launching
    BY DEF Launch, Launching
  <1> QED BY <1>1 DEF AsyncReceive

(* The same of the handler that notifies the manager and calls the user.   *)
LEMMA NotifyFacts ==
    ASSUME NEW o \in Op, NotifyAndCall(o)
    PROVE  /\ stage[o] = "checked" /\ Notify(o) /\ Launching
           /\ stage' = [StageBegun(Launched) EXCEPT ![o] = "calling"]
           /\ \E e \in {"success", "decoding", error[o]} :
                  /\ error' = [error EXCEPT ![o] = e]
                  /\ error[o] # "success" => e # "success"
           /\ UNCHANGED <<code, stopped>>
  <1>1. Launch <=> Launching
    BY DEF Launch, Launching
  <1> QED BY <1>1
            DEF NotifyAndCall, Reported

(* The same of the return of the handler.                                  *)
LEMMA ReturnFacts ==
    ASSUME NEW o \in Op, Return(o)
    PROVE  /\ stage[o] \in {"calling", "leaving"} /\ DestroyState(o) /\ Launching
           /\ stage' = [StageBegun(Launched) EXCEPT ![o] = "idle"]
           /\ code' = [code EXCEPT ![o] = "none"]
           /\ error' = [error EXCEPT ![o] = "none"]
           /\ stopped' = stopped \ {o}
  <1>1. Launch <=> Launching
    BY DEF Launch, Launching
  <1> QED BY <1>1 DEF Return

(* The same of cancel().                                                   *)
LEMMA CancelFacts ==
    ASSUME Cancel
    PROVE  /\ MutexFree /\ CancelOperation /\ CloseObject
           /\ stopped' = stopped \cup Undecided /\ UNCHANGED <<timer, error>>
  BY DEF Cancel

(* Every step but that of an exception is one of the manager, or leaves it *)
(* alone.                                                                  *)
LEMMA ReceiverStepIsManagerStep ==
    [ReceiverNext]_receiverVars
        => \/ [ManagerNext]_managerVars
           \/ \E o \in Op : AsyncReceiveThrows(o)
  <1>1. ASSUME NEW o \in Op, ReceiverTimedStep(o) \/ CheckCanceled(o)
        PROVE  UNCHANGED managerVars
    BY <1>1 DEF ReceiverTimedStep, CheckCanceled, managerVars
  <1>2. UNCHANGED receiverVars => UNCHANGED managerVars
    BY DEF receiverVars, managerVars
  <1> QED BY <1>1, <1>2, ReceiveFacts, NotifyFacts, ReturnFacts, CancelFacts
            DEF ReceiverNext, ManagerNext

(* What is kept of the manager's invariant is kept by every step.          *)
LEMMA ReceiverKeeps ==
    ASSUME KeptInv, [ReceiverNext]_receiverVars
    PROVE  KeptInv'
  <1>1. ASSUME NEW o \in Op, AsyncReceiveThrows(o) PROVE KeptInv'
    <2>1. running' = TRUE /\ UNCHANGED <<canceled, pending, notifier, asked, struck, doomed>>
      BY <1>1 DEF AsyncReceiveThrows
    <2>2. Live' = Live
      BY <2>1 DEF Live
    <2> QED BY <2>1, <2>2 DEF KeptInv, ManagerTypeOK, OneAtATime,
              NoStrandedOperation, ExecutedOnce, ReplacementIsAnnounced,
              CancelSticks, CancelHasCause
  <1> QED BY <1>1, ReceiverStepIsManagerStep, KeptInvNext

(* While the port is free the receiver uses its manager as specified, and  *)
(* what is proved of the manager holds in it.  When bind() throws it does  *)
(* not: the manager is left running without an operation.                  *)
THEOREM ReceiverUsesManager ==
    ASSUME ~BindMayFail
    PROVE  ReceiverSafety => ManagerSafety
  <1>1. ReceiverInit => ManagerInit
    BY DEF ReceiverInit
  <1>2. [ReceiverNext]_receiverVars => [ManagerNext]_managerVars
    BY ReceiverStepIsManagerStep DEF AsyncReceiveThrows
  <1> QED BY <1>1, <1>2, PTL DEF ReceiverSafety, ManagerSafety

(* While the port is free receives are executed one at a time, the next    *)
(* the last that was begun: the abstract execution.                        *)
THEOREM ReceiverImplementsSequential ==
    ASSUME ~BindMayFail
    PROVE  ReceiverSafety => SequentialSafety
  BY ReceiverUsesManager, ManagerImplementsSequential, PTL

-----------------------------------------------------------------------------
(* The types, but for the manager's.                                       *)
ReceiverTypes ==
    /\ open \in BOOLEAN
    /\ timer \in [Op -> TimerStage]
    /\ stage \in [Op -> Stage \cup {"checked", "leaving"}]
    /\ code \in [Op -> Code]
    /\ error \in [Op -> Result \cup {"invalidFrame", "decoding"}]
    /\ stopped \subseteq Op

(* Once a receive waits to replace the one that runs, that one neither     *)
(* waits for a datagram nor is about to.                                   *)
ReceiverInv ==
    /\ KeptInv
    /\ ReceiverTypes
    /\ StageFollowsNotifier
    /\ pending # <<>> => \A o \in Op : stage[o] \notin {"starting", "outstanding"}

(* The invariant holds of a new receiver.                                  *)
LEMMA ReceiverInvInit == ReceiverInit => ReceiverInv
  <1> SUFFICES ASSUME ReceiverInit PROVE ReceiverInv
    OBVIOUS
  <1>1. ManagerInit /\ TimedInit
    BY DEF ReceiverInit
  <1>2. KeptInv /\ pending = <<>>
    BY <1>1, ManagerInvInit, KeptIsManagerInv DEF ManagerInit
  <1>3. ReceiverTypes /\ StageFollowsNotifier
    BY <1>1 DEF TimedInit, ReceiverTypes, StageFollowsNotifier, ManagerInit,
      TimerStage, Stage, Code, Result
  <1> QED BY <1>2, <1>3 DEF ReceiverInv

(* Every step keeps the types.                                             *)
LEMMA ReceiverTypesNext ==
    ASSUME ReceiverTypes, [ReceiverNext]_receiverVars
    PROVE  ReceiverTypes'
  <1>1. ASSUME Launching PROVE open' \in BOOLEAN /\ timer' \in [Op -> TimerStage]
    BY <1>1 DEF ReceiverTypes, Launching, TimerBegun, TimerStage
  <1>2. ASSUME CloseObject
        PROVE  /\ open' \in BOOLEAN /\ code' \in [Op -> Code]
               /\ stage' \in [Op -> Stage \cup {"checked", "leaving"}]
    BY <1>2 DEF ReceiverTypes, CloseObject, Stage, Code
  <1>3. StageBegun(Launched) \in [Op -> Stage \cup {"checked", "leaving"}]
    BY DEF ReceiverTypes, StageBegun, Stage
  <1>4. Undecided \subseteq Op
    BY DEF Undecided
  <1>5. ASSUME NEW o \in Op, AsyncReceive(o) PROVE ReceiverTypes'
    BY <1>1, <1>2, <1>3, <1>4, <1>5, ReceiveFacts DEF ReceiverTypes
  <1>6. ASSUME NEW o \in Op, AsyncReceiveThrows(o) PROVE ReceiverTypes'
    BY <1>6 DEF AsyncReceiveThrows, ReceiverTypes
  <1>7. ASSUME NEW o \in Op, ReceiverTimedStep(o) PROVE ReceiverTypes'
    <2>1. CASE Initiate(o) \/ SystemDone(o)
      BY <2>1 DEF Initiate, SystemDone, ReceiverTypes, Stage, Code
    <2>2. CASE ExpireTimer(o) \/ EnterTimeout(o)
      BY <2>2 DEF ExpireTimer, EnterTimeout, ReceiverTypes, TimerStage
    <2>3. CASE CloseOnTimeout(o)
      BY <1>2, <1>4, <2>3 DEF CloseOnTimeout, ReceiverTypes, TimerStage
    <2>4. CASE Complete(o)
      BY <2>4 DEF Complete, ReceiverTypes, Stage, TimerStage
    <2>5. CASE DecideFrame(o)
      BY <2>5 DEF DecideFrame, FramedErrors,
        TimedError, ReceiverTypes, Stage, Result
    <2> QED BY <1>7, <2>1, <2>2, <2>3, <2>4, <2>5
              DEF ReceiverTimedStep
  <1>8. ASSUME NEW o \in Op, CheckCanceled(o) PROVE ReceiverTypes'
    BY <1>8 DEF CheckCanceled, ReceiverTypes
  <1>9. ASSUME NEW o \in Op, NotifyAndCall(o) PROVE ReceiverTypes'
    <2>1. error' \in [Op -> Result \cup {"invalidFrame", "decoding"}]
      BY <1>9, NotifyFacts DEF ReceiverTypes, Result
    <2>2. stage' \in [Op -> Stage \cup {"checked", "leaving"}]
      BY <1>3, <1>9, NotifyFacts DEF Stage
    <2> QED BY <1>1, <1>9, <2>1, <2>2, NotifyFacts DEF ReceiverTypes
  <1>10. ASSUME NEW o \in Op, Return(o) PROVE ReceiverTypes'
    <2>1. /\ error' \in [Op -> Result \cup {"invalidFrame", "decoding"}]
          /\ code' \in [Op -> Code] /\ stopped' \subseteq Op
      BY <1>10, ReturnFacts DEF ReceiverTypes, Result, Code
    <2>2. stage' \in [Op -> Stage \cup {"checked", "leaving"}]
      BY <1>3, <1>10, ReturnFacts DEF Stage
    <2> QED BY <1>1, <1>10, <2>1, <2>2, ReturnFacts DEF ReceiverTypes
  <1>11. ASSUME Cancel PROVE ReceiverTypes'
    BY <1>2, <1>4, <1>11, CancelFacts DEF ReceiverTypes
  <1>12. CASE UNCHANGED receiverVars
    BY <1>12 DEF receiverVars, timedVars, ReceiverTypes
  <1> QED BY <1>5, <1>6, <1>7, <1>8, <1>9, <1>10, <1>11, <1>12
            DEF ReceiverNext

(* Every step keeps the invariant.                                         *)
LEMMA ReceiverInvNext ==
    ReceiverInv /\ [ReceiverNext]_receiverVars
               => ReceiverInv'
  <1> SUFFICES ASSUME ReceiverInv, [ReceiverNext]_receiverVars
               PROVE  ReceiverInv'
    OBVIOUS
  <1> DEFINE Waits == pending # <<>> =>
                 \A o \in Op : stage[o] \notin {"starting", "outstanding"}
  <1>1. KeptInv' /\ ReceiverTypes'
    BY ReceiverKeeps, ReceiverTypesNext DEF ReceiverInv
  <1>2. KeptInv /\ ReceiverTypes /\ StageFollowsNotifier /\ Waits
    BY DEF ReceiverInv
  <1>3. DOMAIN stage = Op
    BY <1>2 DEF ReceiverTypes
  <1>4. CloseObject => \A p \in Op :
            /\ stage'[p] # "outstanding"
            /\ stage'[p] = stage[p]
               \/ {stage[p], stage'[p]} \cap {"idle", "calling"} = {}
            /\ stage'[p] = "starting" => stage[p] = "starting"
    BY DEF CloseObject
  <1>5. ASSUME NEW o \in Op, AsyncReceive(o)
        PROVE  StageFollowsNotifier' /\ Waits'
    <2>1. StartOperation(o) /\ MutexFree
      BY <1>5, ReceiveFacts
    <2>2. CASE ~running
      <3>1. stage' = StageBegun(Launched)
        BY <1>5, <2>2, ReceiveFacts
      <3>2. pending' = <<>>
        BY <1>2, <2>1, <2>2, StartFacts
      <3> QED BY <1>2, <2>1, <3>1, <3>2, StartFollows
    <2>3. CASE running
      <3>1. CloseObject
        BY <1>5, <2>3, ReceiveFacts
      <3>2. notifier' = notifier
        BY <1>2, <2>1, <2>3, StartFacts
      <3>3. StageFollowsNotifier'
        BY <1>2, <1>4, <3>1, <3>2, WorkFollows
      <3> QED BY <1>4, <2>1, <3>1, <3>3 DEF MutexFree
    <2> QED BY <2>2, <2>3
  <1>6. ASSUME NEW o \in Op, AsyncReceiveThrows(o)
        PROVE  StageFollowsNotifier' /\ Waits'
    <2>1. UNCHANGED <<pending, notifier, stage>>
      BY <1>6 DEF AsyncReceiveThrows
    <2> QED BY <1>2, <2>1 DEF StageFollowsNotifier
  <1>7. ASSUME NEW o \in Op,
               ReceiverTimedStep(o) \/ CheckCanceled(o)
        PROVE  StageFollowsNotifier' /\ Waits'
    <2>1. notifier' = notifier /\ pending' = pending
      BY <1>7 DEF ReceiverTimedStep, CheckCanceled,
        managerVars
    <2>2. \A p \in Op :
             /\ stage'[p] = stage[p]
                \/ {stage[p], stage'[p]} \cap {"idle", "calling"} = {}
             /\ stage'[p] \in {"starting", "outstanding"}
                    => stage[p] \in {"starting", "outstanding"}
      BY <1>3, <1>4, <1>7 DEF ReceiverTimedStep,
        CheckCanceled, Initiate, SystemDone, ExpireTimer, EnterTimeout,
        CloseOnTimeout, Complete, DecideFrame
    <2>3. StageFollowsNotifier'
      BY <1>2, <2>1, <2>2, WorkFollows
    <2> QED BY <1>2, <2>1, <2>2, <2>3
  <1>8. ASSUME NEW o \in Op, NotifyAndCall(o)
        PROVE  StageFollowsNotifier' /\ Waits'
    <2>1. /\ FinishOperation(o, "disabled") /\ notifier[o] = "enabled"
          /\ stage' = [StageBegun(Launched) EXCEPT ![o] = "calling"]
      BY <1>8, NotifyFacts DEF Notify
    <2>2. pending' = <<>>
      BY <1>2, <2>1, FinishFacts, ReceiverAssumption
    <2>3. StageFollowsNotifier'
      BY <1>2, <1>3, <2>1, FinishFollows
    <2> QED BY <2>2, <2>3
  <1>9. ASSUME NEW o \in Op, Return(o)
        PROVE  StageFollowsNotifier' /\ Waits'
    <2>1. /\ stage[o] \in {"calling", "leaving"} /\ DestroyState(o)
          /\ stage' = [StageBegun(Launched) EXCEPT ![o] = "idle"]
      BY <1>9, ReturnFacts
    <2>2. CASE notifier[o] = "enabled"
      <3>1. FinishOperation(o, "none")
        BY <2>1, <2>2 DEF DestroyState
      <3>2. pending' = <<>>
        BY <1>2, <2>2, <3>1, FinishFacts, ReceiverAssumption
      <3>3. StageFollowsNotifier'
        BY <1>2, <1>3, <2>1, <2>2, <3>1, FinishFollows
      <3> QED BY <3>2, <3>3
    <2>3. CASE notifier[o] = "disabled"
      <3>1. pending' = pending /\ Launched = {}
        BY <1>2, <2>1, <2>3, DestroyFacts DEF Launched
      <3>2. stage' = [stage EXCEPT ![o] = "idle"] /\ stage[o] = "calling"
        BY <1>2, <2>1, <2>3, <3>1 DEF StageBegun, ReceiverTypes, StageFollowsNotifier
      <3>3. StageFollowsNotifier'
        BY <1>2, <1>3, <2>1, <3>2, ReturnFollows
      <3> QED BY <1>2, <1>3, <3>1, <3>2, <3>3
    <2> QED BY <2>1, <2>2, <2>3 DEF DestroyState
  <1>10. ASSUME Cancel PROVE StageFollowsNotifier' /\ Waits'
    <2>1. CloseObject /\ notifier' = notifier /\ pending' = <<>>
      BY <1>10, CancelFacts DEF CancelOperation
    <2> QED BY <1>2, <1>4, <2>1, WorkFollows
  <1>11. ASSUME UNCHANGED receiverVars PROVE StageFollowsNotifier' /\ Waits'
    <2>1. UNCHANGED <<pending, notifier, stage>>
      BY <1>11 DEF receiverVars, managerVars, timedVars
    <2> QED BY <1>2, <2>1 DEF StageFollowsNotifier
  <1> HIDE DEF Waits
  <1>12. StageFollowsNotifier' /\ Waits'
    BY <1>5, <1>6, <1>7, <1>8, <1>9, <1>10, <1>11 DEF ReceiverNext
  <1> QED BY <1>1, <1>12 DEF ReceiverInv, Waits

(* The state of the receiver has its types, and one receive waits at most. *)
THEOREM ReceiverTypeCorrect ==
    ReceiverSafety => []ReceiverTypeOK
  <1>1. ReceiverInv /\ [ReceiverNext]_receiverVars => ReceiverInv'
    BY ReceiverInvNext
  <1>2. ReceiverInv => ReceiverTypeOK
    BY DEF ReceiverInv, KeptInv, ReceiverTypes, ReceiverTypeOK, ManagerTypeOK,
      NotifierState, ReceiverStage, Stage, TimerStage, Code, ReceiverResult, Result
  <1> QED BY <1>1, <1>2, ReceiverInvInit, PTL DEF ReceiverSafety

(* A receive that has been replaced does not wait for a datagram.          *)
THEOREM ReceiverReplacedNotOutstanding ==
    ReceiverSafety => []ReplacedNotOutstanding
  <1>1. ReceiverInv /\ [ReceiverNext]_receiverVars => ReceiverInv'
    BY ReceiverInvNext
  <1>2. ReceiverInv => ReplacedNotOutstanding
    BY DEF ReceiverInv, ReplacedNotOutstanding
  <1> QED BY <1>1, <1>2, ReceiverInvInit, PTL DEF ReceiverSafety

(* cancel() is effective: it silences the receive that runs and has not    *)
(* gone past its check, whatever receives are started in the meantime.     *)
THEOREM ReceiverCanceledIsSilent ==
    ReceiverSafety => CanceledIsSilent
  <1> DEFINE Silent == \A o \in struck : stage'[o] \in InUser
                                            => stage[o] \in InUser
  <1>1. ReceiverInv /\ [ReceiverNext]_receiverVars => ReceiverInv'
    BY ReceiverInvNext
  <1>2. ReceiverInv /\ [ReceiverNext]_receiverVars
            => [Silent]_receiverVars
    <2> SUFFICES ASSUME ReceiverInv, ReceiverNext, NEW o \in struck,
                        stage'[o] \in {"checked", "calling"},
                        stage[o] \notin {"checked", "calling"}
                 PROVE  FALSE
      BY DEF InUser
    <2>1. o \in Op /\ canceled /\ DOMAIN stage = Op
      BY DEF ReceiverInv, KeptInv, ManagerTypeOK, CancelSticks, ReceiverTypes
    <2>2. CloseObject \/ stage' = stage \/ stage' = StageBegun(Launched)
            => stage'[o] \notin {"checked", "calling"}
      BY <2>1 DEF CloseObject, StageBegun
    <2>3. ASSUME NEW p \in Op, AsyncReceive(p) \/ AsyncReceiveThrows(p)
          PROVE  FALSE
      BY <2>2, <2>3, ReceiveFacts DEF AsyncReceiveThrows
    <2>4. ASSUME NEW p \in Op, ReceiverTimedStep(p) PROVE FALSE
      BY <2>1, <2>2, <2>4 DEF ReceiverTimedStep, Initiate,
        SystemDone, ExpireTimer, EnterTimeout, CloseOnTimeout, Complete,
        DecideFrame
    <2>5. ASSUME NEW p \in Op, CheckCanceled(p) PROVE FALSE
      BY <2>1, <2>5 DEF CheckCanceled
    <2>6. ASSUME NEW p \in Op, NotifyAndCall(p) PROVE FALSE
      BY <2>1, <2>6, NotifyFacts DEF StageBegun
    <2>7. ASSUME NEW p \in Op, Return(p) PROVE FALSE
      BY <2>1, <2>7, ReturnFacts DEF StageBegun
    <2> QED BY <2>2, <2>3, <2>4, <2>5, <2>6, <2>7, CancelFacts DEF ReceiverNext
  <1> QED BY <1>1, <1>2, ReceiverInvInit, PTL
            DEF ReceiverSafety, CanceledIsSilent

(* A receive calls its handler unless cancel() was called while it ran, or *)
(* on the idle receiver before it was launched: the flag of the manager is *)
(* left over from no other receive.                                        *)
THEOREM ReceiverSilentOnlyIfCanceled ==
    ReceiverSafety => SilentOnlyIfCanceled
  <1> DEFINE OnlyHit == \A o \in Op :
                 stage[o] # "leaving" /\ stage'[o] = "leaving"
                     => o \in struck \cup doomed
  <1>1. ReceiverInv /\ [ReceiverNext]_receiverVars => ReceiverInv'
    BY ReceiverInvNext
  <1>2. ReceiverInv /\ [ReceiverNext]_receiverVars
            => [OnlyHit]_receiverVars
    <2> SUFFICES ASSUME ReceiverInv, ReceiverNext, NEW o \in Op,
                        stage[o] # "leaving", stage'[o] = "leaving"
                 PROVE  o \in struck \cup doomed
      OBVIOUS
    <2>1. /\ DOMAIN stage = Op /\ StageFollowsNotifier
          /\ notifier \in [Op -> NotifierState]
      BY DEF ReceiverInv, KeptInv, ManagerTypeOK, ReceiverTypes
    <2>2. CloseObject \/ stage' = stage \/ stage' = StageBegun(Launched)
            => stage'[o] # "leaving"
      BY <2>1 DEF CloseObject, StageBegun
    <2>3. ASSUME NEW p \in Op, AsyncReceive(p) \/ AsyncReceiveThrows(p)
          PROVE  FALSE
      BY <2>2, <2>3, ReceiveFacts DEF AsyncReceiveThrows
    <2>4. ASSUME NEW p \in Op, ReceiverTimedStep(p) PROVE FALSE
      BY <2>1, <2>2, <2>4 DEF ReceiverTimedStep, Initiate,
        SystemDone, ExpireTimer, EnterTimeout, CloseOnTimeout, Complete,
        DecideFrame
    <2>5. ASSUME NEW p \in Op, CheckCanceled(p) PROVE o \in struck \cup doomed
      <3>1. p = o /\ canceled /\ stage[o] = "decided"
        BY <2>1, <2>5 DEF CheckCanceled
      <3>2. o \in Live
        BY <2>1, <3>1 DEF StageFollowsNotifier, Live, NotifierState
      <3> QED BY <3>1, <3>2 DEF ReceiverInv, KeptInv, CancelHasCause
    <2>6. ASSUME NEW p \in Op, NotifyAndCall(p) PROVE FALSE
      BY <2>1, <2>6, NotifyFacts DEF StageBegun
    <2>7. ASSUME NEW p \in Op, Return(p) PROVE FALSE
      BY <2>1, <2>7, ReturnFacts DEF StageBegun
    <2> QED BY <2>2, <2>3, <2>4, <2>5, <2>6, <2>7, CancelFacts DEF ReceiverNext
  <1> QED BY <1>1, <1>2, ReceiverInvInit, PTL
            DEF ReceiverSafety, SilentOnlyIfCanceled

-----------------------------------------------------------------------------
(* What was stopped has failed.                                            *)

(* Once the receive that runs was stopped the socket is closed and stays so*)
(* until the next one is launched, and the receive fails.                  *)
FailedInv ==
    /\ ReceiverInv
    /\ stopped \subseteq Running
    /\ stopped \cap Live # {} => ~open
    /\ \A o \in stopped : stage[o] \in {"decided", "checked", "leaving", "calling"}
                              => error[o] # "success"

(* Closing the socket keeps it.                                            *)
LEMMA ReceiverCloseKeepsFailed ==
    ASSUME FailedInv, CloseObject, error' = error,
           stopped' \subseteq stopped \cup Undecided
    PROVE  /\ stopped' \subseteq Running'
           /\ ~open'
           /\ \A o \in stopped' :
                 stage'[o] \in {"decided", "checked", "leaving", "calling"}
                     => error'[o] # "success"
  <1>1. \A o \in Op : stage'[o] = stage[o]
                      \/ (stage[o] = "outstanding" /\ stage'[o] = "completed")
    BY DEF CloseObject
  <1>2. Running' = Running /\ Undecided \subseteq Running
    BY <1>1, UndecidedRuns DEF Running
  <1> QED BY <1>1, <1>2 DEF FailedInv, CloseObject, Undecided, Running

(* A launch keeps it: the launched receive was not stopped.                *)
LEMMA ReceiverLaunchKeepsFailed ==
    ASSUME FailedInv, NEW o \in Op, Launching,
           DOMAIN stage' = Op,
           \A p \in Op \ {o} : stage'[p] = StageBegun(Launched)[p] /\ error'[p] = error[p],
           Launched \cap Running = {}, Live' = Live \/ Live' \subseteq Launched,
           stopped' \subseteq stopped,
           o \in stopped' => stage'[o] # "idle" /\ error'[o] # "success"
    PROVE  /\ stopped' \subseteq Running'
           /\ stopped' \cap Live' # {} => ~open'
           /\ \A p \in stopped' :
                 stage'[p] \in {"decided", "checked", "leaving", "calling"}
                     => error'[p] # "success"
  <1>1. \A p \in Op \ {o} : p \in stopped' =>
            stage'[p] = stage[p] /\ error'[p] = error[p] /\ stage[p] # "idle"
    BY DEF FailedInv, StageBegun, Running
  <1>2. stopped' \subseteq Op /\ stopped' \cap Launched = {}
    BY DEF FailedInv, Running
  <1>3. stopped' \cap Live' # {} => ~open'
    BY <1>2 DEF FailedInv, Launching, Launched
  <1>4. stopped' \subseteq Running'
    BY <1>1, <1>2 DEF Running
  <1> QED BY <1>1, <1>2, <1>3, <1>4 DEF FailedInv

(* Every step keeps it.                                                    *)
LEMMA FailedInvNext == FailedInv /\ [ReceiverNext]_receiverVars => FailedInv'
  <1> SUFFICES ASSUME FailedInv, [ReceiverNext]_receiverVars PROVE FailedInv'
    OBVIOUS
  <1> DEFINE Failed ==
        /\ stopped \subseteq Running
        /\ stopped \cap Live # {} => ~open
        /\ \A o \in stopped : stage[o] \in {"decided", "checked", "leaving", "calling"}
                                  => error[o] # "success"
  <1>1. ReceiverInv /\ KeptInv /\ ReceiverTypes /\ StageFollowsNotifier /\ Failed
    BY DEF FailedInv, ReceiverInv
  <1>2. ReceiverInv' /\ ReceiverTypes'
    BY <1>1, ReceiverInvNext DEF ReceiverInv
  <1>3. /\ DOMAIN stage = Op /\ DOMAIN error = Op /\ DOMAIN stage' = Op
        /\ notifier \in [Op -> NotifierState]
    BY <1>1, <1>2 DEF ReceiverTypes, KeptInv, ManagerTypeOK
  <1>4. \A p \in Op : notifier[p] = "none" => p \notin Running
    BY <1>1 DEF StageFollowsNotifier, Running
  <1>5. ASSUME NEW o \in Op, AsyncReceive(o) PROVE Failed'
    <2>1. stage[o] = "idle" /\ StartOperation(o) /\ error' = error
      BY <1>5, ReceiveFacts DEF Unused
    <2>2. CASE ~running
      <3>1. Launching /\ stage' = StageBegun(Launched) /\ UNCHANGED <<code, stopped>>
        BY <1>5, <2>2, ReceiveFacts
      <3>2. Live = {} /\ Live' = {o} /\ Launched = {o}
        BY <1>1, <2>1, <2>2, StartFacts DEF Launched
      <3>3. o \notin Running
        BY <2>1 DEF Running
      <3>4. Launched \cap Running = {} /\ Live' \subseteq Launched
        BY <3>2, <3>3
      <3>5. o \notin stopped'
        BY <1>1, <3>1, <3>3
      <3> HIDE DEF Failed
      <3>6. /\ stopped' \subseteq Running'
            /\ stopped' \cap Live' # {} => ~open'
            /\ \A p \in stopped' :
                  stage'[p] \in {"decided", "checked", "leaving", "calling"}
                      => error'[p] # "success"
        BY <1>3, <2>1, <3>1, <3>4, <3>5, ReceiverLaunchKeepsFailed
      <3> QED BY <3>6 DEF Failed
    <2>3. CASE running
      BY <1>5, <2>3, ReceiveFacts, ReceiverCloseKeepsFailed
    <2> QED BY <2>2, <2>3
  <1>6. ASSUME NEW o \in Op, AsyncReceiveThrows(o) PROVE Failed'
    <2>1. Live' = Live /\ Live = {} /\ UNCHANGED <<stage, error, stopped>>
      BY <1>1, <1>6 DEF AsyncReceiveThrows, Live, KeptInv
    <2> QED BY <1>1, <2>1 DEF Running
  <1>7. ASSUME NEW o \in Op, ReceiverTimedStep(o) PROVE Failed'
    <2>1. Live' = Live
      BY <1>7 DEF ReceiverTimedStep, managerVars, Live
    <2>2. CASE Initiate(o) \/ SystemDone(o) \/ ExpireTimer(o) \/ EnterTimeout(o)
               \/ Complete(o)
      <3>1. /\ UNCHANGED <<open, error, stopped>>
            /\ \A p \in Op : stage'[p] = stage[p]
                   \/ /\ stage[p] # "idle"
                      /\ stage'[p] \in {"outstanding", "completed", "handling"}
        BY <1>3, <2>2 DEF Initiate, SystemDone, ExpireTimer, EnterTimeout, Complete
      <3>2. Running' = Running
        BY <3>1 DEF Running
      <3> QED BY <1>1, <2>1, <3>1, <3>2 DEF Running
    <2>3. CASE CloseOnTimeout(o)
      <3>1. /\ CloseObject /\ error' = error
            /\ stopped' \subseteq stopped \cup Undecided
        BY <2>3 DEF CloseOnTimeout
      <3> QED BY <3>1, ReceiverCloseKeepsFailed
    <2>4. CASE DecideFrame(o)
      <3>1. /\ stage[o] = "handling" /\ stage' = [stage EXCEPT ![o] = "decided"]
            /\ \E e \in FramedErrors(o) : error' = [error EXCEPT ![o] = e]
            /\ UNCHANGED <<open, stopped>>
        BY <2>4 DEF DecideFrame
      <3>2. o \in Live
        BY <1>1, <1>3, <3>1 DEF StageFollowsNotifier, Live, NotifierState
      <3>3. o \in stopped => error'[o] = "aborted"
        BY <1>1, <1>3, <3>1, <3>2 DEF FramedErrors, TimedError
      <3>4. Running' = Running
        BY <1>3, <3>1 DEF Running
      <3> QED BY <1>1, <1>3, <2>1, <3>1, <3>3, <3>4 DEF Running
    <2> QED BY <1>7, <2>2, <2>3, <2>4 DEF ReceiverTimedStep
  <1>8. ASSUME NEW o \in Op, CheckCanceled(o) PROVE Failed'
    <2>1. /\ stage[o] = "decided" /\ Live' = Live /\ UNCHANGED <<open, error, stopped>>
          /\ \E s \in {"leaving", "checked"} : stage' = [stage EXCEPT ![o] = s]
      BY <1>8 DEF CheckCanceled, managerVars, Live
    <2>2. Running' = Running
      BY <1>3, <2>1 DEF Running
    <2> QED BY <1>1, <1>3, <2>1, <2>2
  <1>9. ASSUME NEW o \in Op, NotifyAndCall(o) PROVE Failed'
    <2>1. /\ stage[o] = "checked" /\ notifier[o] = "enabled"
          /\ FinishOperation(o, "disabled") /\ Launching
          /\ stage' = [StageBegun(Launched) EXCEPT ![o] = "calling"]
          /\ stopped' = stopped
          /\ \E e : /\ error' = [error EXCEPT ![o] = e]
                    /\ error[o] # "success" => e # "success"
      BY <1>9, NotifyFacts DEF Notify
    <2>2. Launched \cap Running = {} /\ Live' \subseteq Launched
      BY <1>1, <1>4, <2>1, FinishFacts DEF Launched
    <2>3. \A p \in Op \ {o} :
             stage'[p] = StageBegun(Launched)[p] /\ error'[p] = error[p]
      BY <1>3, <2>1 DEF StageBegun
    <2>4. o \in stopped' => stage'[o] # "idle" /\ error'[o] # "success"
      BY <1>1, <1>3, <2>1 DEF StageBegun
    <2> HIDE DEF Failed
    <2>5. /\ stopped' \subseteq Running'
          /\ stopped' \cap Live' # {} => ~open'
          /\ \A p \in stopped' :
                stage'[p] \in {"decided", "checked", "leaving", "calling"}
                    => error'[p] # "success"
      BY <1>3, <2>1, <2>2, <2>3, <2>4, ReceiverLaunchKeepsFailed
    <2> QED BY <2>5 DEF Failed
  <1>10. ASSUME NEW o \in Op, Return(o) PROVE Failed'
    <2>1. /\ stage[o] \in {"calling", "leaving"} /\ DestroyState(o) /\ Launching
          /\ stage' = [StageBegun(Launched) EXCEPT ![o] = "idle"]
          /\ error' = [error EXCEPT ![o] = "none"] /\ stopped' = stopped \ {o}
      BY <1>10, ReturnFacts
    <2>2. Launched \cap Running = {} /\ (Live' = Live \/ Live' \subseteq Launched)
      <3>1. CASE notifier[o] = "enabled"
        <4>1. FinishOperation(o, "none")
          BY <2>1, <3>1 DEF DestroyState
        <4> QED BY <1>1, <1>4, <3>1, <4>1, FinishFacts DEF Launched
      <3>2. CASE notifier[o] = "disabled"
        BY <1>1, <2>1, <3>2, DestroyFacts DEF Launched
      <3> QED BY <2>1, <3>1, <3>2 DEF DestroyState
    <2>3. \A p \in Op \ {o} :
             stage'[p] = StageBegun(Launched)[p] /\ error'[p] = error[p]
      BY <1>3, <2>1 DEF StageBegun
    <2>4. o \notin stopped' /\ stopped' \subseteq stopped
      BY <2>1
    <2> HIDE DEF Failed
    <2>5. /\ stopped' \subseteq Running'
          /\ stopped' \cap Live' # {} => ~open'
          /\ \A p \in stopped' :
                stage'[p] \in {"decided", "checked", "leaving", "calling"}
                    => error'[p] # "success"
      BY <1>3, <2>1, <2>2, <2>3, <2>4, ReceiverLaunchKeepsFailed
    <2> QED BY <2>5 DEF Failed
  <1>11. ASSUME Cancel PROVE Failed'
    BY <1>11, CancelFacts, ReceiverCloseKeepsFailed
  <1>12. ASSUME UNCHANGED receiverVars PROVE Failed'
    BY <1>1, <1>12 DEF receiverVars, managerVars, timedVars, Live, Running
  <1> HIDE DEF Failed
  <1>13. Failed'
    BY <1>5, <1>6, <1>7, <1>8, <1>9, <1>10, <1>11, <1>12 DEF ReceiverNext
  <1> QED BY <1>2, <1>13 DEF FailedInv, Failed

(* No receive that its timeout, cancel() or its replacement stopped before *)
(* its handler had made up its error brings the user a message, although a *)
(* datagram may have come: with any number of workers, and whatever the    *)
(* decoder makes of the empty buffer.                                      *)
THEOREM ReceiverStoppedIsNoSuccess == ReceiverSafety => []StoppedIsNoSuccess
  <1>1. ReceiverInit => FailedInv
    BY ReceiverInvInit DEF ReceiverInit, TimedInit, FailedInv
  <1>2. FailedInv => StoppedIsNoSuccess
    BY DEF FailedInv, StoppedIsNoSuccess
  <1> QED BY <1>1, <1>2, FailedInvNext, PTL DEF ReceiverSafety

-----------------------------------------------------------------------------
(* The receiver with a single worker.                                      *)

(* A timeout is pending only before the completion handler of its own      *)
(* receive begins; on a closed socket what is undecided was stopped.       *)
OwnReceiverInv ==
    /\ ReceiverInv
    /\ \A o \in Op : timer[o] # "off" => stage[o] \in BeforeCompletion
    /\ ~open => Undecided \subseteq stopped
    /\ InterruptedOnlyIfStopped

(* Closing the socket keeps it, if what runs is counted as stopped.        *)
LEMMA ReceiverCloseKeepsOwn ==
    ASSUME OwnReceiverInv, CloseObject, error' = error,
           stopped \cup Undecided \subseteq stopped',
           \A o \in Op : timer'[o] \in {timer[o], "off"}
    PROVE  /\ \A o \in Op : timer'[o] # "off" => stage'[o] \in BeforeCompletion
           /\ ~open' => Undecided' \subseteq stopped'
           /\ InterruptedOnlyIfStopped'
  <1>1. InterruptedOnlyIfStopped'
    BY DEF OwnReceiverInv, InterruptedOnlyIfStopped, CloseObject, Undecided
  <1>2. \A o \in Op : timer'[o] # "off" => stage'[o] \in BeforeCompletion
    BY DEF OwnReceiverInv, CloseObject, BeforeCompletion
  <1>3. \A o \in Op : stage'[o] = stage[o]
                      \/ (stage[o] = "outstanding" /\ stage'[o] = "completed")
    BY DEF CloseObject
  <1>4. Undecided' = Undecided
    BY <1>3 DEF Undecided
  <1> QED BY <1>1, <1>2, <1>4 DEF OwnReceiverInv

(* A launch keeps it: it opens the socket.                                 *)
LEMMA LaunchKeepsOwn ==
    ASSUME OwnReceiverInv, NEW o \in Op, Launching,
           DOMAIN stage' = Op, DOMAIN timer' = Op,
           \A p \in Op \ {o} : stage'[p] = StageBegun(Launched)[p],
           timer[o] = "off", stage'[o] \in {"starting", "idle", "calling"},
           stage'[o] = "starting" <=> o \in Launched,
           stopped \ {o} \subseteq stopped',
           \A p \in Op \ {o} : code'[p] = code[p] /\ error'[p] = error[p],
           code'[o] = "closed" \/ error'[o] = "aborted" => o \in stopped'
    PROVE  /\ \A p \in Op : timer'[p] # "off" => stage'[p] \in BeforeCompletion
           /\ ~open' => Undecided' \subseteq stopped'
           /\ InterruptedOnlyIfStopped'
  <1>1. \A p \in Op : timer'[p] # "off" => stage'[p] \in BeforeCompletion
    BY DEF OwnReceiverInv, Launching, TimerBegun, StageBegun, BeforeCompletion
  <1>2. ~open' => Undecided' \subseteq stopped'
    BY DEF OwnReceiverInv, Launching, StageBegun, Undecided
  <1>3. InterruptedOnlyIfStopped'
    BY DEF OwnReceiverInv, InterruptedOnlyIfStopped
  <1> QED BY <1>1, <1>2, <1>3

(* With a single worker every step keeps it.                               *)
LEMMA OwnReceiverInvNext ==
    ASSUME Workers = 1, IsFiniteSet(Op)
    PROVE  OwnReceiverInv /\ [ReceiverNext]_receiverVars
               => OwnReceiverInv'
  <1> SUFFICES ASSUME OwnReceiverInv, [ReceiverNext]_receiverVars
               PROVE  OwnReceiverInv'
    OBVIOUS
  <1> DEFINE Own ==
        /\ \A o \in Op : timer[o] # "off" => stage[o] \in BeforeCompletion
        /\ ~open => Undecided \subseteq stopped
        /\ InterruptedOnlyIfStopped
  <1>1. ReceiverInv /\ KeptInv /\ ReceiverTypes /\ StageFollowsNotifier /\ Own
    BY DEF OwnReceiverInv, ReceiverInv
  <1>2. ReceiverInv' /\ ReceiverTypes'
    BY <1>1, ReceiverInvNext DEF ReceiverInv
  <1>3. /\ DOMAIN stage = Op /\ DOMAIN timer = Op /\ DOMAIN code = Op
        /\ DOMAIN error = Op /\ notifier \in [Op -> NotifierState]
        /\ DOMAIN stage' = Op /\ DOMAIN timer' = Op
    BY <1>1, <1>2 DEF ReceiverTypes, KeptInv, ManagerTypeOK
  <1>4. Undecided \subseteq Live
    BY <1>1, <1>3 DEF StageFollowsNotifier, Live, Undecided, NotifierState
  <1>5. ASSUME NEW o \in Op, AsyncReceive(o) PROVE Own'
    <2>1. MutexFree /\ timer[o] = "off" /\ StartOperation(o) /\ error' = error
      BY <1>5, ReceiveFacts DEF Unused
    <2>2. CASE ~running
      <3>1. Launching /\ stage' = StageBegun(Launched) /\ UNCHANGED <<code, stopped>>
        BY <1>5, <2>2, ReceiveFacts
      <3>2. /\ stage'[o] \in {"starting", "idle", "calling"}
            /\ stage'[o] = "starting" <=> o \in Launched
        BY <1>5, <3>1, ReceiveFacts DEF StageBegun, Unused
      <3>3. code'[o] = "closed" \/ error'[o] = "aborted" => o \in stopped'
        BY <1>1, <2>1, <3>1 DEF InterruptedOnlyIfStopped
      <3> HIDE DEF Own
      <3>4. /\ \A p \in Op : timer'[p] # "off" => stage'[p] \in BeforeCompletion
            /\ ~open' => Undecided' \subseteq stopped'
            /\ InterruptedOnlyIfStopped'
        BY <1>3, <2>1, <3>1, <3>2, <3>3, LaunchKeepsOwn
      <3> QED BY <3>4 DEF Own
    <2>3. CASE running
      <3>1. CloseObject /\ timer' = timer /\ stopped' = stopped \cup Undecided
        BY <1>5, <2>3, ReceiveFacts
      <3> QED BY <2>1, <3>1, ReceiverCloseKeepsOwn
    <2> QED BY <2>2, <2>3
  <1>6. ASSUME NEW o \in Op, AsyncReceiveThrows(o) PROVE Own'
    BY <1>1, <1>6 DEF AsyncReceiveThrows, InterruptedOnlyIfStopped, Undecided
  <1>7. ASSUME NEW o \in Op, ReceiverTimedStep(o) PROVE Own'
    <2>2. CASE Initiate(o)
      <3>1. /\ stage[o] = "starting" /\ UNCHANGED <<open, timer, error, stopped>>
            /\ \/ stage' = [stage EXCEPT ![o] = "outstanding"] /\ code' = code
               \/ /\ ~open /\ stage' = [stage EXCEPT ![o] = "completed"]
                  /\ code' = [code EXCEPT ![o] = "closed"]
        BY <2>2 DEF Initiate
      <3>2. \A p \in Op : timer'[p] # "off" => stage'[p] \in BeforeCompletion
        BY <1>1, <1>3, <3>1 DEF BeforeCompletion
      <3>3. InterruptedOnlyIfStopped'
        BY <1>1, <1>3, <3>1 DEF InterruptedOnlyIfStopped, Undecided
      <3>4. Undecided' = Undecided
        BY <1>3, <3>1 DEF Undecided
      <3> QED BY <1>1, <3>1, <3>2, <3>3, <3>4
    <2>3. CASE SystemDone(o)
      <3>1. \A p \in Op : timer'[p] # "off" => stage'[p] \in BeforeCompletion
        BY <1>1, <1>3, <2>3 DEF SystemDone, BeforeCompletion
      <3>2. InterruptedOnlyIfStopped'
        BY <1>1, <1>3, <2>3 DEF SystemDone, InterruptedOnlyIfStopped
      <3>3. Undecided' = Undecided
        BY <1>3, <2>3 DEF SystemDone, Undecided
      <3> QED BY <1>1, <2>3, <3>1, <3>2, <3>3 DEF SystemDone
    <2>4. CASE ExpireTimer(o) \/ EnterTimeout(o)
      <3>1. /\ timer[o] # "off" /\ UNCHANGED <<open, stage, code, error, stopped>>
            /\ \E x \in {"expired", "passed"} : timer' = [timer EXCEPT ![o] = x]
        BY <2>4 DEF ExpireTimer, EnterTimeout
      <3> QED BY <1>1, <1>3, <3>1 DEF InterruptedOnlyIfStopped, Undecided
    <2>5. CASE CloseOnTimeout(o)
      <3>1. o \in Undecided
        BY <1>1, <2>5 DEF CloseOnTimeout, BeforeCompletion, Undecided
      <3>2. Undecided = {o}
        BY <1>1, <1>4, <3>1 DEF KeptInv, OneAtATime
      <3>3. /\ CloseObject /\ error' = error /\ stopped \cup Undecided \subseteq stopped'
            /\ timer' = [timer EXCEPT ![o] = "off"]
        BY <2>5, <3>2 DEF CloseOnTimeout
      <3>4. \A p \in Op : timer'[p] \in {timer[p], "off"}
        BY <1>3, <3>3
      <3> QED BY <3>3, <3>4, ReceiverCloseKeepsOwn
    <2>6. CASE Complete(o)
      <3>1. timer[o] # "passed"
        BY <2>6, SingleWorker DEF Complete, InTimer
      <3>2. /\ stage' = [stage EXCEPT ![o] = "handling"]
            /\ timer' = [timer EXCEPT ![o] = "off"]
            /\ UNCHANGED <<open, code, error, stopped>>
        BY <2>6, <3>1 DEF Complete
      <3>3. Undecided' = Undecided
        BY <1>3, <2>6, <3>2 DEF Undecided, Complete
      <3> QED BY <1>1, <1>3, <3>2, <3>3 DEF InterruptedOnlyIfStopped
    <2>7. CASE DecideFrame(o)
      <3>1. /\ stage[o] = "handling" /\ stage' = [stage EXCEPT ![o] = "decided"]
            /\ \E e \in {TimedError(o), "invalidFrame"} :
                   error' = [error EXCEPT ![o] = e]
            /\ UNCHANGED <<open, timer, code, stopped>>
        BY <2>7 DEF DecideFrame, FramedErrors
      <3>2. o \in Undecided /\ Undecided' \subseteq Undecided
        BY <1>3, <3>1 DEF Undecided
      <3>3. TimedError(o) = "aborted" => ~open
        BY DEF TimedError
      <3>4. InterruptedOnlyIfStopped'
        BY <1>1, <1>3, <3>1, <3>2, <3>3 DEF InterruptedOnlyIfStopped
      <3>5. \A p \in Op : timer'[p] # "off" => stage'[p] \in BeforeCompletion
        BY <1>1, <1>3, <3>1 DEF BeforeCompletion
      <3> QED BY <1>1, <3>1, <3>2, <3>4, <3>5
    <2> QED BY <1>7, <2>2, <2>3, <2>4, <2>5, <2>6, <2>7
              DEF ReceiverTimedStep
  <1>8. ASSUME NEW o \in Op, CheckCanceled(o) PROVE Own'
    <2>1. /\ stage[o] = "decided"
          /\ \E s \in {"leaving", "checked"} : stage' = [stage EXCEPT ![o] = s]
          /\ UNCHANGED <<open, timer, code, error, stopped>>
      BY <1>8 DEF CheckCanceled
    <2>2. \A p \in Op : timer'[p] # "off" => stage'[p] \in BeforeCompletion
      BY <1>1, <1>3, <2>1 DEF BeforeCompletion
    <2>3. Undecided' = Undecided
      BY <1>3, <2>1 DEF Undecided
    <2> QED BY <1>1, <2>1, <2>2, <2>3 DEF InterruptedOnlyIfStopped
  <1>9. ASSUME NEW o \in Op, NotifyAndCall(o) PROVE Own'
    <2>1. /\ stage[o] = "checked" /\ notifier[o] = "enabled"
          /\ FinishOperation(o, "disabled") /\ Launching
          /\ stage' = [StageBegun(Launched) EXCEPT ![o] = "calling"]
          /\ UNCHANGED <<code, stopped>>
          /\ \E e \in {"success", "decoding", error[o]} : error' = [error EXCEPT ![o] = e]
      BY <1>9, NotifyFacts DEF Notify
    <2>2. timer[o] = "off" /\ o \notin Launched /\ stage'[o] = "calling"
      BY <1>1, <1>3, <2>1 DEF BeforeCompletion, Launched, Live, StageBegun
    <2>3. \A p \in Op \ {o} :
             /\ stage'[p] = StageBegun(Launched)[p]
             /\ code'[p] = code[p] /\ error'[p] = error[p]
      BY <1>3, <2>1 DEF StageBegun
    <2>4. code'[o] = "closed" \/ error'[o] = "aborted" => o \in stopped'
      BY <1>1, <1>3, <2>1 DEF InterruptedOnlyIfStopped
    <2> HIDE DEF Own
    <2>5. /\ \A p \in Op : timer'[p] # "off" => stage'[p] \in BeforeCompletion
          /\ ~open' => Undecided' \subseteq stopped'
          /\ InterruptedOnlyIfStopped'
      BY <1>3, <2>1, <2>2, <2>3, <2>4, LaunchKeepsOwn
    <2> QED BY <2>5 DEF Own
  <1>10. ASSUME NEW o \in Op, Return(o) PROVE Own'
    <2>1. /\ stage[o] \in {"calling", "leaving"} /\ DestroyState(o) /\ Launching
          /\ stage' = [StageBegun(Launched) EXCEPT ![o] = "idle"]
          /\ code' = [code EXCEPT ![o] = "none"]
          /\ error' = [error EXCEPT ![o] = "none"] /\ stopped' = stopped \ {o}
      BY <1>10, ReturnFacts
    <2>2. o \notin Live'
      <3>1. CASE notifier[o] = "enabled"
        <4>1. FinishOperation(o, "none")
          BY <2>1, <3>1 DEF DestroyState
        <4> QED BY <1>1, <3>1, <4>1, FinishFacts
      <3>2. CASE notifier[o] = "disabled"
        BY <1>1, <2>1, <3>2, DestroyFacts DEF Live
      <3> QED BY <2>1, <3>1, <3>2 DEF DestroyState
    <2>3. timer[o] = "off" /\ o \notin Launched /\ stage'[o] = "idle"
      BY <1>1, <1>3, <2>1, <2>2 DEF BeforeCompletion, Launched, StageBegun
    <2>4. \A p \in Op \ {o} :
             /\ stage'[p] = StageBegun(Launched)[p]
             /\ code'[p] = code[p] /\ error'[p] = error[p]
      BY <1>3, <2>1 DEF StageBegun
    <2>5. code'[o] = "none" /\ error'[o] = "none"
      BY <1>3, <2>1
    <2> HIDE DEF Own
    <2>6. /\ \A p \in Op : timer'[p] # "off" => stage'[p] \in BeforeCompletion
          /\ ~open' => Undecided' \subseteq stopped'
          /\ InterruptedOnlyIfStopped'
      BY <1>3, <2>1, <2>2, <2>3, <2>4, <2>5, LaunchKeepsOwn
    <2> QED BY <2>6 DEF Own
  <1>11. ASSUME Cancel PROVE Own'
    BY <1>11, CancelFacts, ReceiverCloseKeepsOwn
  <1>12. ASSUME UNCHANGED receiverVars PROVE Own'
    BY <1>1, <1>12 DEF receiverVars, managerVars,
      timedVars, Undecided, InterruptedOnlyIfStopped
  <1> HIDE DEF Own
  <1>13. Own'
    BY <1>5, <1>6, <1>7, <1>8, <1>9, <1>10, <1>11, <1>12 DEF ReceiverNext
  <1> QED BY <1>2, <1>13 DEF OwnReceiverInv, Own

(* It holds of a new receiver, on which nothing runs.                      *)
LEMMA OwnReceiverInvInit == ReceiverInit => OwnReceiverInv
  <1>1. ReceiverInit => ManagerInit /\ TimedInit
    BY DEF ReceiverInit
  <1> QED BY <1>1, ReceiverInvInit DEF TimedInit, OwnReceiverInv, Undecided,
            InterruptedOnlyIfStopped

(* With a single worker a receive is interrupted only by its own timeout,  *)
(* by cancel() or by the receive that replaces it, never by the timeout of *)
(* the one before, although all use the one socket.                        *)
THEOREM ReceiverInterruptedOnlyIfStopped ==
    ASSUME Workers = 1, IsFiniteSet(Op)
    PROVE  ReceiverSafety => []InterruptedOnlyIfStopped
  <1>1. OwnReceiverInv /\ [ReceiverNext]_receiverVars
            => OwnReceiverInv'
    BY OwnReceiverInvNext
  <1>2. OwnReceiverInv => InterruptedOnlyIfStopped
    BY DEF OwnReceiverInv, InterruptedOnlyIfStopped
  <1> QED BY <1>1, <1>2, OwnReceiverInvInit, PTL DEF ReceiverSafety
=============================================================================
