----------------------- MODULE ManagedOperationProofs -----------------------
(***************************************************************************)
(* Timed operations on one object, one after another, for every set of     *)
(* operations: what was stopped is reported as aborted, with any number of *)
(* workers; and with a single worker a timeout hits its own operation only.*)
(*                                                                         *)
(* Then timed operations that a manager runs, and those that it queues,    *)
(* DatagramSender and Resolver.  These two modules extend the same module  *)
(* and are instances here, so that what they have in common is proved once.*)
(***************************************************************************)
EXTENDS ManagedOperation, AsyncOperationManagerProofs, FiniteSetTheorems

VARIABLE posted                                     \* DatagramSender's

Sender == INSTANCE DatagramSender
Resolving == INSTANCE Resolver

-----------------------------------------------------------------------------
(* Any number of workers.                                                  *)

(* One operation runs at a time; once it is stopped the object is closed   *)
(* and stays so until it has ended.                                        *)
StoppedInv ==
    /\ stage \in [Op -> Stage]
    /\ \A o, p \in Running : o = p
    /\ stopped \subseteq Running
    /\ error \in [Op -> Result]
    /\ stopped # {} => ~open

(* Nothing runs in the initial state.                                      *)
LEMMA StoppedInvInit == TimedInit => StoppedInv
BY DEF TimedInit, StoppedInv, Running, Stage, Result

(* Closing the object keeps what runs running, and undecided.              *)
LEMMA CloseObjectFacts ==
    ASSUME stage \in [Op -> Stage], CloseObject
    PROVE  /\ stage' \in [Op -> Stage]
           /\ Running' = Running
           /\ Undecided' = Undecided
           /\ open' = FALSE
BY DEF CloseObject, Running, Undecided, Stage

(* What is undecided runs.                                                 *)
LEMMA UndecidedRuns == Undecided \subseteq Running
BY DEF Undecided, Running

(* The steps of a timed operation but its close lambda neither end nor     *)
(* begin an operation, nor open or stop anything.                          *)
QuietStep(o) ==
    \/ Initiate(o) \/ SystemDone(o) \/ ExpireTimer(o) \/ EnterTimeout(o)
    \/ Complete(o) \/ Decide(o)

LEMMA QuietStepFacts ==
    ASSUME stage \in [Op -> Stage], error \in [Op -> Result], NEW o \in Op,
           QuietStep(o)
    PROVE  /\ stage' \in [Op -> Stage]
           /\ error' \in [Op -> Result]
           /\ Running' = Running
           /\ UNCHANGED <<open, stopped>>
BY DEF QuietStep, Initiate, SystemDone, ExpireTimer, EnterTimeout, Complete,
    Decide, TimedError, Running, Stage, Result

(* Every step preserves the invariant.                                     *)
LEMMA StoppedInvNext == StoppedInv /\ [TimedNext]_timedVars => StoppedInv'
<1>. SUFFICES ASSUME StoppedInv, [TimedNext]_timedVars PROVE StoppedInv'
  OBVIOUS
<1>. USE DEF StoppedInv
<1>1. ASSUME NEW o \in Op, BeginNext(o) PROVE StoppedInv'
  <2>1. /\ Running = {} /\ stopped' = {} /\ stage' = StageBegun({o})
        /\ error' = error
    BY <1>1 DEF BeginNext
  <2>2. Running' = {o}
    BY <2>1 DEF Running, StageBegun
  <2>3. stage' \in [Op -> Stage]
    BY <2>1 DEF StageBegun, Stage
  <2>. QED
    BY <2>1, <2>2, <2>3
<1>2. ASSUME NEW o \in Op, QuietStep(o) PROVE StoppedInv'
  BY <1>2, QuietStepFacts
<1>3. ASSUME NEW o \in Op, CloseOnTimeout(o) PROVE StoppedInv'
  BY <1>3, CloseObjectFacts, UndecidedRuns DEF CloseOnTimeout
<1>4. ASSUME NEW o \in Op, CallAndLeave(o) PROVE StoppedInv'
  <2>1. /\ stage' = [stage EXCEPT ![o] = "idle"] /\ stage[o] = "decided"
        /\ stopped' = stopped \ {o} /\ open' = open
    BY <1>4 DEF CallAndLeave, Leave
  <2>2. Running' = Running \ {o} /\ stage' \in [Op -> Stage]
    BY <2>1 DEF Running, Stage
  <2>3. error' \in [Op -> Result]
    BY <1>4 DEF CallAndLeave, Leave, Result
  <2>. QED
    BY <2>1, <2>2, <2>3
<1>5. ASSUME CloseByUser PROVE StoppedInv'
  BY <1>5, CloseObjectFacts, UndecidedRuns DEF CloseByUser
<1>6. CASE UNCHANGED timedVars
  BY <1>6 DEF timedVars, Running
<1>. QED
  BY <1>1, <1>2, <1>3, <1>4, <1>5, <1>6 DEF TimedNext, TimedStep, QuietStep

(* The completion handler of an operation that was stopped reports it as   *)
(* aborted, although the operation may have completed before, and although *)
(* the close lambda runs outside the strand.                               *)
THEOREM TimedStoppedIsReported == TimedSafety => StoppedIsReported
<1>. DEFINE Reports == \A o \in stopped :
                stage[o] = "handling" /\ stage'[o] = "decided" => error'[o] = "aborted"
<1>1. StoppedInv /\ [TimedNext]_timedVars => [Reports]_timedVars
  <2>. SUFFICES ASSUME StoppedInv, TimedNext, NEW o \in stopped,
                       stage[o] = "handling", stage'[o] = "decided"
                PROVE  error'[o] = "aborted"
    BY DEF timedVars
  <2>1. o \in Op /\ ~open /\ stage \in [Op -> Stage] /\ error \in [Op -> Result]
    BY DEF StoppedInv, Running
  <2>2. ASSUME NEW p \in Op, Decide(p) PROVE error'[o] = "aborted"
    <3>1. p = o
      BY <2>1, <2>2 DEF Decide
    <3>. QED
      BY <2>1, <2>2, <3>1 DEF Decide, TimedError
  <2>3. ASSUME NEW p \in Op, BeginNext(p) \/ CallAndLeave(p) PROVE FALSE
    BY <2>1, <2>3 DEF BeginNext, StageBegun, CallAndLeave, Leave, StoppedInv
  <2>4. CloseByUser => FALSE
    BY <2>1 DEF CloseByUser, CloseObject
  <2>5. ASSUME NEW p \in Op, TimedStep(p), ~Decide(p) PROVE FALSE
    BY <2>1, <2>5 DEF TimedStep, Initiate, SystemDone, ExpireTimer, EnterTimeout,
      CloseOnTimeout, CloseObject, Complete
  <2>. QED
    BY <2>2, <2>3, <2>4, <2>5 DEF TimedNext
<1>. QED
  BY <1>1, StoppedInvInit, StoppedInvNext, PTL DEF TimedSafety, StoppedIsReported

-----------------------------------------------------------------------------
(* A single worker.                                                        *)

(* With a single worker a handler begins only when no other has begun.     *)
LEMMA SingleWorker ==
    ASSUME Workers = 1, IsFiniteSet(Op), WorkerFree
    PROVE  InTimer = {} /\ InCompletion = {}
<1>1. IsFiniteSet(InTimer) /\ IsFiniteSet(InCompletion)
  BY FS_Subset DEF InTimer, InCompletion
<1>2. Cardinality(InTimer) \in Nat /\ Cardinality(InCompletion) \in Nat
  BY <1>1, FS_CardinalityType
<1>3. Cardinality(InTimer) = 0 /\ Cardinality(InCompletion) = 0
  BY <1>2 DEF WorkerFree
<1>. QED
  BY <1>1, <1>3, FS_EmptySet

BeforeCompletion == {"starting", "outstanding", "completed"}

(* A timeout is pending only before the completion handler of its own      *)
(* operation begins; a closed object means that what is undecided was      *)
(* stopped.                                                                *)
OwnTimeoutInv ==
    /\ StoppedInv
    /\ timer \in [Op -> TimerStage]
    /\ code \in [Op -> Code]
    /\ \A o \in Op : timer[o] # "off" => stage[o] \in BeforeCompletion
    /\ ~open => Undecided \subseteq stopped
    /\ InterruptedOnlyIfStopped

(* Nothing runs in the initial state.                                      *)
LEMMA OwnTimeoutInvInit == TimedInit => OwnTimeoutInv
BY StoppedInvInit DEF TimedInit, OwnTimeoutInv, Undecided, TimerStage, Code,
    InterruptedOnlyIfStopped

(* Closing the object and counting what it interrupts as stopped.          *)
LEMMA CloseKeepsOwn ==
    ASSUME OwnTimeoutInv, StoppedInv', CloseObject, error' = error,
           stopped' = stopped \cup Undecided,
           timer' \in [Op -> TimerStage],
           \A o \in Op : timer'[o] \in {timer[o], "off"}
    PROVE  OwnTimeoutInv'
<1>1. Undecided' = Undecided /\ open' = FALSE
  BY CloseObjectFacts DEF OwnTimeoutInv, StoppedInv
<1>2. code' \in [Op -> Code] /\ \A o \in Op :
          code'[o] = code[o] \/ stage[o] = "outstanding"
  BY DEF CloseObject, OwnTimeoutInv, Code
<1>3. \A o \in Op : stage[o] \in BeforeCompletion => stage'[o] \in BeforeCompletion
  BY DEF CloseObject, BeforeCompletion
<1>4. InterruptedOnlyIfStopped'
  BY <1>2 DEF InterruptedOnlyIfStopped, OwnTimeoutInv, Undecided
<1>. QED
  BY <1>1, <1>2, <1>3, <1>4 DEF OwnTimeoutInv

(* With a single worker every step preserves the invariant.                *)
LEMMA OwnTimeoutInvNext ==
    ASSUME Workers = 1, IsFiniteSet(Op)
    PROVE  OwnTimeoutInv /\ [TimedNext]_timedVars => OwnTimeoutInv'
<1>. SUFFICES ASSUME OwnTimeoutInv, [TimedNext]_timedVars PROVE OwnTimeoutInv'
  OBVIOUS
<1>. USE DEF OwnTimeoutInv
<1>1. StoppedInv' /\ stage \in [Op -> Stage] /\ error \in [Op -> Result]
  BY StoppedInvNext DEF StoppedInv
<1>2. ASSUME NEW o \in Op, BeginNext(o) PROVE OwnTimeoutInv'
  <2>1. /\ Running = {} /\ stopped' = stopped /\ open' = TRUE
        /\ timer' = TimerBegun({o}) /\ stage' = StageBegun({o})
        /\ code' = code /\ error' = error
    BY <1>2 DEF BeginNext
  <2>2. timer' \in [Op -> TimerStage]
    BY <2>1 DEF TimerBegun, TimerStage
  <2>3. \A p \in Op : timer'[p] # "off" => stage'[p] \in BeforeCompletion
    BY <2>1 DEF TimerBegun, StageBegun, BeforeCompletion
  <2>. QED
    BY <1>1, <2>1, <2>2, <2>3 DEF InterruptedOnlyIfStopped
<1>3. ASSUME NEW o \in Op, Initiate(o) PROVE OwnTimeoutInv'
  <2>1. /\ stage[o] = "starting" /\ UNCHANGED <<open, timer, error, stopped>>
        /\ \/ stage' = [stage EXCEPT ![o] = "outstanding"] /\ code' = code
           \/ /\ ~open /\ stage' = [stage EXCEPT ![o] = "completed"]
              /\ code' = [code EXCEPT ![o] = "closed"]
    BY <1>3 DEF Initiate
  <2>2. Undecided' = Undecided /\ o \in Undecided
    BY <1>1, <2>1 DEF Undecided
  <2>3. code' \in [Op -> Code]
    BY <2>1 DEF Code
  <2>4. \A p \in Op : timer[p] # "off" => stage'[p] \in BeforeCompletion
    BY <1>1, <2>1 DEF BeforeCompletion
  <2>5. InterruptedOnlyIfStopped'
    BY <2>1, <2>2 DEF InterruptedOnlyIfStopped
  <2>. QED
    BY <1>1, <2>1, <2>2, <2>3, <2>4, <2>5
<1>4. ASSUME NEW o \in Op, SystemDone(o) PROVE OwnTimeoutInv'
  <2>1. /\ stage[o] = "outstanding" /\ UNCHANGED <<open, timer, error, stopped>>
        /\ stage' = [stage EXCEPT ![o] = "completed"]
        /\ \E c \in {"ok", "system"} : code' = [code EXCEPT ![o] = c]
    BY <1>4 DEF SystemDone
  <2>2. Undecided' = Undecided
    BY <1>1, <2>1 DEF Undecided
  <2>3. code' \in [Op -> Code]
    BY <2>1 DEF Code
  <2>4. \A p \in Op : timer[p] # "off" => stage'[p] \in BeforeCompletion
    BY <1>1, <2>1 DEF BeforeCompletion
  <2>5. InterruptedOnlyIfStopped'
    BY <2>1 DEF InterruptedOnlyIfStopped
  <2>. QED
    BY <1>1, <2>1, <2>2, <2>3, <2>4, <2>5
<1>5. ASSUME NEW o \in Op, ExpireTimer(o) \/ EnterTimeout(o) PROVE OwnTimeoutInv'
  <2>1. /\ timer[o] # "off" /\ UNCHANGED <<open, stage, code, error, stopped>>
        /\ \E x \in {"expired", "passed"} : timer' = [timer EXCEPT ![o] = x]
    BY <1>5 DEF ExpireTimer, EnterTimeout
  <2>2. Undecided' = Undecided
    BY <2>1 DEF Undecided
  <2>3. timer' \in [Op -> TimerStage]
    BY <2>1 DEF TimerStage
  <2>. QED
    BY <1>1, <2>1, <2>2, <2>3 DEF InterruptedOnlyIfStopped
<1>6. ASSUME NEW o \in Op, CloseOnTimeout(o) PROVE OwnTimeoutInv'
  <2>1. o \in Undecided
    BY <1>6 DEF CloseOnTimeout, BeforeCompletion, Undecided
  <2>2. Undecided = {o}
    BY <2>1, UndecidedRuns DEF StoppedInv
  <2>3. /\ CloseObject /\ error' = error /\ stopped' = stopped \cup Undecided
        /\ timer' = [timer EXCEPT ![o] = "off"]
    BY <1>6, <2>2 DEF CloseOnTimeout
  <2>4. timer' \in [Op -> TimerStage] /\ \A p \in Op : timer'[p] \in {timer[p], "off"}
    BY <2>3 DEF TimerStage
  <2>. QED
    BY <1>1, <2>3, <2>4, CloseKeepsOwn
<1>7. ASSUME NEW o \in Op, Complete(o) PROVE OwnTimeoutInv'
  <2>1. timer[o] # "passed"
    BY <1>7, SingleWorker DEF Complete, InTimer
  <2>2. /\ stage' = [stage EXCEPT ![o] = "handling"] /\ stage[o] = "completed"
        /\ timer' = [timer EXCEPT ![o] = "off"]
        /\ UNCHANGED <<open, code, error, stopped>>
    BY <1>7, <2>1 DEF Complete
  <2>3. Undecided' = Undecided
    BY <1>1, <2>2 DEF Undecided
  <2>4. timer' \in [Op -> TimerStage]
    BY <2>2 DEF TimerStage
  <2>5. \A p \in Op : timer'[p] # "off" => stage'[p] \in BeforeCompletion
    BY <1>1, <2>2
  <2>. QED
    BY <1>1, <2>2, <2>3, <2>4, <2>5 DEF InterruptedOnlyIfStopped
<1>8. ASSUME NEW o \in Op, Decide(o) PROVE OwnTimeoutInv'
  <2>1. /\ stage[o] = "handling" /\ stage' = [stage EXCEPT ![o] = "decided"]
        /\ error' = [error EXCEPT ![o] = TimedError(o)]
        /\ UNCHANGED <<open, timer, code, stopped>>
    BY <1>8 DEF Decide
  <2>2. Undecided' \subseteq Undecided /\ o \in Undecided
    BY <1>1, <2>1 DEF Undecided
  <2>3. \A p \in Op : timer[p] # "off" => stage'[p] \in BeforeCompletion
    BY <1>1, <2>1 DEF BeforeCompletion
  <2>4. InterruptedOnlyIfStopped'
    BY <1>1, <2>1, <2>2 DEF InterruptedOnlyIfStopped, TimedError
  <2>. QED
    BY <1>1, <2>1, <2>2, <2>3, <2>4
<1>9. ASSUME NEW o \in Op, CallAndLeave(o) PROVE OwnTimeoutInv'
  <2>1. /\ stage[o] = "decided" /\ stage' = [stage EXCEPT ![o] = "idle"]
        /\ code' = [code EXCEPT ![o] = "none"] /\ error' = [error EXCEPT ![o] = "none"]
        /\ stopped' = stopped \ {o} /\ UNCHANGED <<open, timer>>
    BY <1>9 DEF CallAndLeave, Leave
  <2>2. Undecided' \subseteq Undecided \ {o}
    BY <1>1, <2>1 DEF Undecided
  <2>3. code' \in [Op -> Code]
    BY <2>1 DEF Code
  <2>4. \A p \in Op : timer[p] # "off" => stage'[p] \in BeforeCompletion
    BY <1>1, <2>1 DEF BeforeCompletion
  <2>5. InterruptedOnlyIfStopped'
    BY <1>1, <2>1 DEF InterruptedOnlyIfStopped
  <2>. QED
    BY <1>1, <2>1, <2>2, <2>3, <2>4, <2>5
<1>10. ASSUME CloseByUser PROVE OwnTimeoutInv'
  BY <1>1, <1>10, CloseKeepsOwn DEF CloseByUser
<1>11. CASE UNCHANGED timedVars
  BY <1>1, <1>11 DEF timedVars, Undecided, InterruptedOnlyIfStopped
<1>. QED
  BY <1>2, <1>3, <1>4, <1>5, <1>6, <1>7, <1>8, <1>9, <1>10, <1>11
    DEF TimedNext, TimedStep

(* With a single worker an operation is interrupted only by its own        *)
(* timeout or by its user, never by the timeout of the one before.         *)
THEOREM TimedInterruptedOnlyIfStopped ==
    ASSUME Workers = 1, IsFiniteSet(Op)
    PROVE  TimedSafety => []InterruptedOnlyIfStopped
<1>1. OwnTimeoutInv /\ [TimedNext]_timedVars => OwnTimeoutInv'
  BY OwnTimeoutInvNext
<1>2. OwnTimeoutInv => InterruptedOnlyIfStopped
  BY DEF OwnTimeoutInv
<1>. QED
  BY <1>1, <1>2, OwnTimeoutInvInit, PTL DEF TimedSafety

-----------------------------------------------------------------------------
(* The manager, as long as its operations make their notifiers or throw.   *)

(* The invariant of the manager but for one half of RunningMeansLive: an   *)
(* operation that throws before it has its notifier leaves `running` set.  *)
KeptInv ==
    /\ ManagerTypeOK
    /\ OneAtATime
    /\ Live # {} => running
    /\ NoStrandedOperation
    /\ ExecutedOnce
    /\ ReplacementIsAnnounced
    /\ CancelSticks
    /\ CancelHasCause

(* It is all there is to the manager's invariant while an operation lives, *)
(* or while none runs.                                                     *)
LEMMA KeptIsManagerInv ==
    /\ ManagerInv => KeptInv
    /\ KeptInv /\ (running => Live # {}) => ManagerInv
  BY DEF ManagerInv, KeptInv, RunningMeansLive

(* startOperation launches the operation on an idle manager and stores it  *)
(* on one that runs.                                                       *)
LEMMA StartFacts ==
    ASSUME KeptInv, NEW o \in Op, StartOperation(o)
    PROVE  \/ /\ ~running /\ running' /\ Live = {} /\ Live' = {o}
              /\ notifier' = [notifier EXCEPT ![o] = "enabled"]
              /\ pending = <<>> /\ pending' = <<>>
           \/ /\ running /\ Live' = Live /\ notifier' = notifier
              /\ pending' = Pushed(o) /\ running' = running
  <1>1. CASE ~running
    <2>1. /\ running' /\ notifier' = [notifier EXCEPT ![o] = "enabled"]
          /\ pending' = pending
      BY <1>1 DEF StartOperation
    <2>2. Live = {} /\ pending = <<>>
      BY <1>1 DEF KeptInv, NoStrandedOperation
    <2>3. Live' = {o}
      BY <2>1, <2>2, LiveAfterLaunch DEF KeptInv, ManagerTypeOK
    <2> QED BY <1>1, <2>1, <2>2, <2>3
  <1>2. CASE running
    BY <1>2 DEF StartOperation, Live
  <1> QED BY <1>1, <1>2

(* finishOperation ends the only live operation and either launches the    *)
(* one that waited longest or leaves the manager idle.                     *)
LEMMA FinishFacts ==
    ASSUME KeptInv, NEW o \in Op, notifier[o] = "enabled",
           NEW n \in {"none", "disabled"}, FinishOperation(o, n)
    PROVE  /\ Live = {o} /\ running
           /\ \/ /\ pending = <<>> /\ pending' = <<>> /\ Live' = {}
                 /\ notifier' = [notifier EXCEPT ![o] = n]
              \/ \E h \in Op :
                    /\ h # o /\ notifier[h] = "none" /\ Live' = {h}
                    /\ notifier' = [notifier EXCEPT ![o] = n, ![h] = "enabled"]
                    /\ pending' = Tail(pending)
                    /\ Replacer => pending' = <<>>
  <1>1. Live = {o} /\ running
    BY DEF Live, OneAtATime, KeptInv
  <1>2. CASE pending = <<>>
    <2>1. notifier' = [notifier EXCEPT ![o] = n] /\ pending' = <<>>
      BY <1>2 DEF FinishOperation
    <2>2. Live' = {}
      BY <2>1, LiveAfterLastFinish DEF KeptInv, ManagerTypeOK
    <2> QED BY <1>1, <1>2, <2>1, <2>2
  <1>3. CASE pending # <<>>
    <2> DEFINE h == Head(pending)
    <2>1. /\ notifier' = [notifier EXCEPT ![o] = n, ![h] = "enabled"]
          /\ pending' = Tail(pending)
      BY <1>3 DEF FinishOperation
    <2>2. h \in Op /\ notifier[h] = "none" /\ (Replacer => Tail(pending) = <<>>)
      BY <1>3, PoppedFacts DEF KeptInv
    <2> HIDE DEF h
    <2>3. h # o
      BY <2>2
    <2>4. Live' = {h}
      BY <2>1, <2>2, <2>3, LiveAfterHandOver DEF KeptInv, ManagerTypeOK
    <2> QED BY <1>1, <2>1, <2>2, <2>3, <2>4
  <1> QED BY <1>2, <1>3

(* The destructor of the notifier finishes an operation unless notify()    *)
(* did.                                                                    *)
LEMMA DestroyFacts ==
    ASSUME KeptInv, NEW o \in Op, DestroyState(o), notifier[o] = "disabled"
    PROVE  /\ notifier' = [notifier EXCEPT ![o] = "none"] /\ Live' = Live
           /\ UNCHANGED <<running, canceled, pending, asked, struck, doomed>>
  BY DEF DestroyState, Live, KeptInv, ManagerTypeOK

(* Every method of the manager preserves what is kept.                     *)
LEMMA KeptInvNext == KeptInv /\ [ManagerNext]_managerVars => KeptInv'
  <1> SUFFICES ASSUME KeptInv, [ManagerNext]_managerVars PROVE KeptInv'
    OBVIOUS
  <1>1. CASE running => Live # {}
    <2>1. ManagerInv'
      BY <1>1, KeptIsManagerInv, ManagerInvNext
    <2> QED BY <2>1 DEF ManagerInv, KeptInv, RunningMeansLive
  <1>2. CASE running /\ Live = {}
    <2>1. ASSUME NEW o \in Op, StartOperation(o) PROVE KeptInv'
      <3>1. /\ pending' = Pushed(o) /\ Live' = {} /\ struck = {}
            /\ UNCHANGED <<running, notifier, canceled, struck, doomed>>
            /\ asked' = IF Replacer THEN asked \cup Live ELSE asked
        BY <1>2, <2>1, StartFacts DEF StartOperation, CancelSticks, KeptInv
      <3>2. /\ Pushed(o) \in Seq(Op)
            /\ Replacer => Len(Pushed(o)) <= 1
            /\ \A i \in DOMAIN Pushed(o) : notifier[Pushed(o)[i]] = "none"
            /\ \A i, j \in DOMAIN Pushed(o) :
                   Pushed(o)[i] = Pushed(o)[j] => i = j
        BY <2>1, PushedFacts DEF StartOperation, KeptInv
      <3>3. ManagerTypeOK' /\ ExecutedOnce'
        BY <1>2, <3>1, <3>2 DEF KeptInv, ManagerTypeOK, ExecutedOnce
      <3> QED BY <1>2, <3>1, <3>3 DEF KeptInv, OneAtATime,
                NoStrandedOperation, ReplacementIsAnnounced, CancelSticks,
                CancelHasCause
    <2>2. ASSUME NEW o \in Op, Notify(o) PROVE KeptInv'
      BY <1>2, <2>2 DEF Notify, Live
    <2>3. ASSUME NEW o \in Op, DestroyState(o) PROVE KeptInv'
      <3>1. notifier[o] = "disabled"
        BY <1>2, <2>3 DEF DestroyState, Live
      <3>2. /\ notifier' = [notifier EXCEPT ![o] = "none"] /\ Live' = Live
            /\ UNCHANGED <<running, canceled, pending, asked, struck, doomed>>
        BY <2>3, <3>1, DestroyFacts
      <3>3. \A i \in DOMAIN pending : pending[i] \in Op
        BY DEF KeptInv, ManagerTypeOK
      <3>4. ExecutedOnce'
        BY <3>1, <3>2, <3>3 DEF KeptInv, ExecutedOnce, ManagerTypeOK
      <3> QED BY <3>2, <3>4 DEF KeptInv, ManagerTypeOK, NotifierState,
                OneAtATime, NoStrandedOperation, ReplacementIsAnnounced,
                CancelSticks, CancelHasCause
    <2>4. ASSUME CancelOperation PROVE KeptInv'
      <3>1. /\ canceled' = TRUE /\ pending' = <<>>
            /\ asked' = asked /\ struck' = struck /\ doomed' = Op
            /\ UNCHANGED <<running, notifier>>
        BY <1>2, <2>4 DEF CancelOperation
      <3>2. Live' = {} /\ <<>> \in Seq(Op) /\ Len(<<>>) = 0 /\ DOMAIN <<>> = {}
        BY <1>2, <3>1 DEF Live
      <3> QED BY <1>2, <3>1, <3>2 DEF KeptInv, ManagerTypeOK, OneAtATime,
                NoStrandedOperation, ExecutedOnce, ReplacementIsAnnounced,
                CancelSticks, CancelHasCause
    <2>5. CASE UNCHANGED managerVars
      <3>1. Live' = Live
        BY <2>5 DEF managerVars, Live
      <3> QED BY <2>5, <3>1 DEF managerVars, KeptInv, ManagerTypeOK,
                OneAtATime, NoStrandedOperation, ExecutedOnce,
                ReplacementIsAnnounced, CancelSticks, CancelHasCause
    <2> QED BY <2>1, <2>2, <2>3, <2>4, <2>5 DEF ManagerNext
  <1> QED BY <1>1, <1>2

-----------------------------------------------------------------------------
(* What a thread or the system is doing for an operation and what the      *)
(* manager knows of it.                                                    *)

(* An operation has an enabled notifier from its launch until its handler  *)
(* has told the manager of its end, and a disabled one while the user's    *)
(* handler runs.                                                           *)
StageFollowsNotifier ==
    \A o \in Op :
        /\ stage[o] = "idle" <=> notifier[o] = "none"
        /\ stage[o] = "calling" <=> notifier[o] = "disabled"

(* What keeps the notifiers keeps this if it neither begins nor ends an    *)
(* operation.                                                              *)
LEMMA WorkFollows ==
    ASSUME StageFollowsNotifier, notifier' = notifier,
           \A o \in Op : stage'[o] = stage[o]
                         \/ {stage[o], stage'[o]} \cap {"idle", "calling"} = {}
    PROVE  StageFollowsNotifier'
  BY DEF StageFollowsNotifier

(* A call that starts an operation.                                        *)
LEMMA StartFollows ==
    ASSUME KeptInv, StageFollowsNotifier, NEW o \in Op, StartOperation(o),
           stage' = StageBegun(Launched)
    PROVE  StageFollowsNotifier'
  <1>1. CASE ~running
    <2>1. Launched = {o} /\ notifier' = [notifier EXCEPT ![o] = "enabled"]
      BY <1>1, StartFacts DEF Launched
    <2> QED BY <2>1 DEF StageFollowsNotifier, StageBegun, KeptInv, ManagerTypeOK
  <1>2. CASE running
    <2>1. Launched = {} /\ notifier' = notifier
      BY <1>2, StartFacts DEF Launched
    <2> QED BY <2>1, WorkFollows DEF StageBegun
  <1> QED BY <1>1, <1>2

(* The end of an operation, which becomes e, with notifier n.              *)
LEMMA FinishFollows ==
    ASSUME KeptInv, StageFollowsNotifier, NEW o \in Op, notifier[o] = "enabled",
           NEW n, NEW e,
           \/ n = "none" /\ e = "idle"
           \/ n = "disabled" /\ e = "calling",
           FinishOperation(o, n), DOMAIN stage = Op,
           stage' = [StageBegun(Launched) EXCEPT ![o] = e]
    PROVE  StageFollowsNotifier'
  <1>1. n \in {"none", "disabled"}
    OBVIOUS
  <1>2. CASE notifier' = [notifier EXCEPT ![o] = n] /\ Live' = {}
    <2>1. stage' = [StageBegun({}) EXCEPT ![o] = e]
      BY <1>2 DEF Launched
    <2> QED BY <1>2, <2>1 DEF StageFollowsNotifier, StageBegun, KeptInv, ManagerTypeOK
  <1>3. ASSUME NEW h \in Op, h # o, notifier[h] = "none", Live' = {h},
               notifier' = [notifier EXCEPT ![o] = n, ![h] = "enabled"]
        PROVE  StageFollowsNotifier'
    <2>1. Launched = {h}
      BY <1>3 DEF Launched, Live
    <2>2. stage' = [StageBegun({h}) EXCEPT ![o] = e]
      BY <2>1
    <2> QED BY <1>3, <2>2 DEF StageFollowsNotifier, StageBegun, KeptInv, ManagerTypeOK
  <1> QED BY <1>1, <1>2, <1>3, FinishFacts

(* The return of a handler that had told the manager.                      *)
LEMMA ReturnFollows ==
    ASSUME KeptInv, StageFollowsNotifier, NEW o \in Op, stage[o] = "calling",
           DestroyState(o), DOMAIN stage = Op, stage' = [stage EXCEPT ![o] = "idle"]
    PROVE  StageFollowsNotifier'
  <1>1. notifier' = [notifier EXCEPT ![o] = "none"]
    BY DestroyFacts DEF StageFollowsNotifier
  <1> QED BY <1>1 DEF StageFollowsNotifier, KeptInv, ManagerTypeOK

-----------------------------------------------------------------------------
(* What the sender and the resolver do: their operations are queued.       *)

(* The launched operation, if any, opens the object and starts its timeout.*)
Launching ==
    /\ open' = (open \/ Launched # {})
    /\ timer' = TimerBegun(Launched)

Starts(o) ==
    /\ MutexFree /\ Unused(o)
    /\ StartOperation(o)
    /\ Launching
    /\ stage' = StageBegun(Launched)
    /\ UNCHANGED <<code, error, stopped>>

(* The sender's handler may turn the error into a failed operation.        *)
Ends(o) ==
    /\ stage[o] = "decided"
    /\ Notify(o)
    /\ Launching
    /\ stage' = [StageBegun(Launched) EXCEPT ![o] = "calling"]
    /\ error' \in {error, [error EXCEPT ![o] = "failedOperation"]}
    /\ UNCHANGED <<code, stopped>>

Returns(o) ==
    /\ stage[o] = "calling"
    /\ DestroyState(o)
    /\ Leave(o)
    /\ UNCHANGED <<open, timer>>

(* The resolver initiates on a closed object too.                          *)
Initiates(o) ==
    /\ stage[o] = "starting"
    /\ stage' = [stage EXCEPT ![o] = "outstanding"]
    /\ UNCHANGED <<open, timer, code, error, stopped>>

(* It closes only what is open.                                            *)
Closes ==
    \/ CloseObject
    \/ ~open /\ UNCHANGED <<open, stage, code>>

ClosesOnTimeout(o) ==
    /\ timer[o] = "passed"
    /\ timer' = [timer EXCEPT ![o] = "off"]
    /\ Closes
    /\ stopped' = stopped \cup ({o} \cap Undecided)
    /\ UNCHANGED error

Cancels ==
    /\ MutexFree
    /\ CancelOperation
    /\ Closes
    /\ stopped' = stopped \cup Undecided
    /\ UNCHANGED <<timer, error>>

Works(o) == Initiates(o) \/ ClosesOnTimeout(o) \/ QuietStep(o)

QueueNext ==
    \/ \E o \in Op : Starts(o) \/ Ends(o) \/ Returns(o)
    \/ \E o \in Op : Works(o) /\ UNCHANGED managerVars
    \/ Cancels

(* The error that the handler of a stopped operation made up is no success.*)
StoppedFails ==
    \A o \in stopped : stage[o] \in {"decided", "calling"} => error[o] # "success"

(* The manager's invariant, the types, the stages, and: once the operation *)
(* that runs was stopped the object is closed and stays so until the next  *)
(* one is launched, and it fails.                                          *)
QueueInv ==
    /\ ManagerInv
    /\ TimedTypeOK
    /\ StageFollowsNotifier
    /\ stopped \subseteq Running
    /\ stopped \cap Live # {} => ~open
    /\ StoppedFails

(* Closing leaves the object closed and completes what is outstanding at   *)
(* most.                                                                   *)
LEMMA ClosesFacts ==
    ASSUME TimedTypeOK, Closes
    PROVE  /\ open' \in BOOLEAN /\ ~open'
           /\ stage' \in [Op -> Stage] /\ code' \in [Op -> Code]
           /\ \A o \in Op : stage'[o] = stage[o]
                             \/ (stage[o] = "outstanding" /\ stage'[o] = "completed")
  <1>1. CASE CloseObject
    BY <1>1 DEF CloseObject, TimedTypeOK, Stage, Code
  <1>2. CASE ~open /\ UNCHANGED <<open, stage, code>>
    BY <1>2 DEF TimedTypeOK
  <1> QED BY <1>1, <1>2 DEF Closes

(* Every step is one of the manager's or leaves it alone.                  *)
LEMMA QueueUsesManager == QueueNext => [ManagerNext]_managerVars
  BY DEF QueueNext, Starts, Ends, Returns, Cancels, ManagerNext

(* The steps that neither begin nor end an operation.                      *)
LEMMA WorkKeepsQueue ==
    ASSUME QueueInv, NEW o \in Op, Works(o), UNCHANGED managerVars
    PROVE  QueueInv'
  <1> USE DEF QueueInv
  <1>1. ManagerInv' /\ Live' = Live /\ notifier' = notifier
    BY ManagerInvNext DEF managerVars, Live
  <1>2. TimedTypeOK'
    <2>1. CASE Initiates(o)
      BY <2>1 DEF Initiates, TimedTypeOK, Stage
    <2>2. CASE ClosesOnTimeout(o)
      BY <2>2, ClosesFacts DEF ClosesOnTimeout, TimedTypeOK, TimerStage
    <2>3. CASE Initiate(o)
      BY <2>3 DEF Initiate, TimedTypeOK, Stage, Code
    <2>4. CASE SystemDone(o) \/ ExpireTimer(o) \/ EnterTimeout(o)
      BY <2>4 DEF SystemDone, ExpireTimer, EnterTimeout, TimedTypeOK, Stage,
        Code, TimerStage
    <2>5. CASE Complete(o) \/ Decide(o)
      BY <2>5 DEF Complete, Decide, TimedError, TimedTypeOK, Stage, TimerStage, Result
    <2> QED BY <2>1, <2>2, <2>3, <2>4, <2>5 DEF Works, QuietStep
  <1>3. \A p \in Op : \/ stage'[p] = stage[p]
                      \/ {stage[p], stage'[p]} \cap {"idle", "calling"} = {}
    BY ClosesFacts DEF Works, Initiates, ClosesOnTimeout, QuietStep, Initiate,
      SystemDone, ExpireTimer, EnterTimeout, Complete, Decide, TimedTypeOK
  <1>4. StageFollowsNotifier' /\ Running' = Running
    BY <1>1, <1>3, WorkFollows DEF Running
  <1>5. \/ open' = open /\ stopped' = stopped
        \/ ~open' /\ stopped' \subseteq Running
    BY ClosesFacts, UndecidedRuns DEF Works, Initiates, ClosesOnTimeout, QuietStep,
      Initiate, SystemDone, ExpireTimer, EnterTimeout, Complete, Decide, TimedTypeOK
  <1>6. StoppedFails'
    <2>1. CASE Decide(o)
      <3>1. stage[o] = "handling" /\ stage' = [stage EXCEPT ![o] = "decided"]
            /\ error' = [error EXCEPT ![o] = TimedError(o)] /\ stopped' = stopped
        BY <2>1 DEF Decide
      <3>2. o \in stopped => ~open
        BY <3>1 DEF StageFollowsNotifier, Live, ManagerInv, ManagerTypeOK, NotifierState
      <3>3. o \in stopped => error'[o] = "aborted"
        BY <3>1, <3>2 DEF TimedError, TimedTypeOK
      <3> QED BY <3>1, <3>3 DEF StoppedFails, TimedTypeOK
    <2>2. CASE ~Decide(o)
      <3>1. /\ error' = error /\ stopped' \subseteq stopped \cup Undecided
            /\ \A p \in Op : stage'[p] \in {"decided", "calling"} => stage'[p] = stage[p]
        BY <2>2, ClosesFacts DEF Works, Initiates, ClosesOnTimeout, QuietStep,
          Initiate, SystemDone, ExpireTimer, EnterTimeout, Complete, TimedTypeOK
      <3> QED BY <3>1 DEF StoppedFails, Undecided, Running
    <2> QED BY <2>1, <2>2
  <1> QED BY <1>1, <1>2, <1>4, <1>5, <1>6

(* Every step keeps the invariant.                                         *)
LEMMA QueueInvNext == QueueInv /\ QueueNext => QueueInv'
  <1> SUFFICES ASSUME QueueInv, QueueNext PROVE QueueInv'
    OBVIOUS
  <1>1. ManagerInv' /\ KeptInv
    BY QueueUsesManager, ManagerInvNext, KeptIsManagerInv DEF QueueInv
  <1> USE DEF QueueInv
  <1>2. ASSUME NEW o \in Op, Starts(o) PROVE QueueInv'
    <2>1. /\ stage' = StageBegun(Launched) /\ Launching
          /\ UNCHANGED <<code, error, stopped>> /\ StartOperation(o) /\ stage[o] = "idle"
      BY <1>2 DEF Starts, Unused
    <2>2. TimedTypeOK' /\ Running \subseteq Running'
      BY <2>1 DEF TimedTypeOK, Launching, StageBegun, TimerBegun, Stage,
        TimerStage, Running
    <2>3. StageFollowsNotifier'
      BY <1>1, <2>1, StartFollows
    <2>4. \/ Live' = Live /\ open' = open
          \/ Live' \cap Running = {}
      BY <1>1, <2>1, StartFacts DEF Launching, Launched, Running, TimedTypeOK
    <2>5. StoppedFails'
      BY <2>1 DEF StoppedFails, StageBegun, Running
    <2> QED BY <1>1, <2>1, <2>2, <2>3, <2>4, <2>5
  <1>3. ASSUME NEW o \in Op, Ends(o) PROVE QueueInv'
    <2>1. /\ stage' = [StageBegun(Launched) EXCEPT ![o] = "calling"] /\ Launching
          /\ error' \in {error, [error EXCEPT ![o] = "failedOperation"]}
          /\ UNCHANGED <<code, stopped>> /\ stage[o] = "decided"
          /\ FinishOperation(o, "disabled") /\ notifier[o] = "enabled"
      BY <1>3 DEF Ends, Notify
    <2>2. TimedTypeOK' /\ Running \subseteq Running'
      BY <2>1 DEF TimedTypeOK, Launching, StageBegun, TimerBegun, Stage,
        TimerStage, Result, Running
    <2>3. StageFollowsNotifier'
      BY <1>1, <2>1, FinishFollows DEF TimedTypeOK
    <2>4. Live' \cap Running = {}
      BY <1>1, <2>1, FinishFacts DEF Running, StageFollowsNotifier
    <2>5. StoppedFails'
      BY <2>1 DEF StoppedFails, StageBegun, Running, TimedTypeOK
    <2> QED BY <1>1, <2>1, <2>2, <2>3, <2>4, <2>5
  <1>4. ASSUME NEW o \in Op, Returns(o) PROVE QueueInv'
    <2>1. /\ stage' = [stage EXCEPT ![o] = "idle"] /\ stage[o] = "calling"
          /\ DestroyState(o) /\ stopped' = stopped \ {o}
          /\ code' = [code EXCEPT ![o] = "none"]
          /\ error' = [error EXCEPT ![o] = "none"] /\ UNCHANGED <<open, timer>>
      BY <1>4 DEF Returns, Leave
    <2>2. TimedTypeOK' /\ Running' = Running \ {o}
      BY <2>1 DEF TimedTypeOK, Stage, Code, Result, Running
    <2>3. StageFollowsNotifier' /\ Live' = Live
      BY <1>1, <2>1, ReturnFollows, DestroyFacts DEF TimedTypeOK, StageFollowsNotifier
    <2>4. StoppedFails'
      BY <2>1 DEF StoppedFails, Running, TimedTypeOK
    <2> QED BY <1>1, <2>1, <2>2, <2>3, <2>4
  <1>5. ASSUME Cancels PROVE QueueInv'
    <2>1. /\ Closes /\ stopped' = stopped \cup Undecided
          /\ UNCHANGED <<timer, error, notifier>> /\ Live' = Live
      BY <1>5 DEF Cancels, CancelOperation, Live
    <2>2. TimedTypeOK' /\ ~open'
      BY <2>1, ClosesFacts DEF TimedTypeOK, Undecided
    <2>3. \A p \in Op : \/ stage'[p] = stage[p]
                        \/ {stage[p], stage'[p]} \cap {"idle", "calling"} = {}
      BY <2>1, ClosesFacts
    <2>4. StageFollowsNotifier' /\ Running' = Running
      BY <2>1, <2>3, WorkFollows DEF Running
    <2>5. StoppedFails'
      BY <2>1, ClosesFacts DEF StoppedFails, Running, Undecided
    <2> QED BY <1>1, <2>1, <2>2, <2>4, <2>5, UndecidedRuns
  <1> QED BY <1>2, <1>3, <1>4, <1>5, WorkKeepsQueue DEF QueueNext

(* A step that is none of the queue's keeps it too.                        *)
LEMMA QueueUnchanged ==
    ASSUME QueueInv, UNCHANGED <<managerVars, timedVars>>
    PROVE  QueueInv'
  <1>1. ManagerInv' /\ Live' = Live /\ notifier' = notifier
    BY ManagerInvNext DEF QueueInv, managerVars, Live
  <1> QED BY <1>1 DEF QueueInv, timedVars, TimedTypeOK, Running, StageFollowsNotifier,
            StoppedFails

(* Stopping an operation is reported: its handler makes up its error while *)
(* the object is closed.                                                   *)
LEMMA QueueReports ==
    ASSUME QueueInv, QueueNext, NEW o \in stopped,
           stage[o] = "handling", stage'[o] = "decided"
    PROVE  error'[o] = "aborted"
  <1>1. /\ o \in Op /\ o \in Live /\ ~open
        /\ stage \in [Op -> Stage] /\ error \in [Op -> Result]
    BY DEF QueueInv, Running, StageFollowsNotifier, Live, ManagerInv,
      ManagerTypeOK, NotifierState, TimedTypeOK
  <1>2. ASSUME NEW p \in Op, Decide(p) PROVE error'[o] = "aborted"
    BY <1>1, <1>2 DEF Decide, TimedError
  <1>3. ASSUME NEW p \in Op, Starts(p) \/ Ends(p) \/ Returns(p) PROVE FALSE
    BY <1>1, <1>3 DEF Starts, Ends, Returns, Leave, StageBegun
  <1>4. ASSUME NEW p \in Op, Works(p), ~Decide(p) PROVE FALSE
    BY <1>1, <1>4, ClosesFacts DEF Works, Initiates, ClosesOnTimeout, QuietStep,
      Initiate, SystemDone, ExpireTimer, EnterTimeout, Complete, QueueInv
  <1>5. ~Cancels
    BY <1>1, ClosesFacts DEF Cancels, QueueInv
  <1> QED BY <1>2, <1>3, <1>4, <1>5 DEF QueueNext

-----------------------------------------------------------------------------
(* The sender.                                                             *)

(* The sender's copies of the operators of the two modules it extends.     *)
LEMMA SenderOperators ==
    /\ Sender!Live = Live /\ Sender!Live' = Live'
    /\ Sender!Launched = Launched /\ Sender!Undecided = Undecided
    /\ Sender!MutexFree <=> MutexFree
    /\ Sender!CancelOperation <=> CancelOperation
    /\ Sender!CloseObject <=> CloseObject
    /\ Sender!WorkerFree <=> WorkerFree
    /\ (Sender!ManagerInit <=> ManagerInit) /\ (Sender!TimedInit <=> TimedInit)
    /\ \A S : /\ Sender!StageBegun(S) = StageBegun(S)
              /\ Sender!TimerBegun(S) = TimerBegun(S)
  <1>1. \A S : Sender!Cardinality(S) = Cardinality(S)
    BY Zenon DEF Sender!Cardinality, Cardinality
  <1>2. Sender!InTimer = InTimer /\ Sender!InCompletion = InCompletion
    BY DEF Sender!InTimer, InTimer, Sender!InCompletion, InCompletion
  <1>3. Sender!WorkerFree <=> WorkerFree
    BY <1>1, <1>2 DEF Sender!WorkerFree, WorkerFree
  <1> QED BY <1>3 DEF Sender!Live, Live, Sender!Launched, Launched,
            Sender!Undecided, Undecided, Sender!MutexFree, MutexFree,
            Sender!CancelOperation, CancelOperation, Sender!CloseObject,
            CloseObject, Sender!ManagerInit, ManagerInit, Sender!TimedInit,
            TimedInit, Sender!StageBegun, StageBegun, Sender!TimerBegun,
            TimerBegun

(* The same of the operators that have a parameter.                        *)
LEMMA SenderMethods ==
    ASSUME NEW o \in Op
    PROVE  /\ Sender!StartOperation(o) <=> StartOperation(o)
           /\ Sender!Notify(o) <=> Notify(o)
           /\ Sender!DestroyState(o) <=> DestroyState(o)
           /\ Sender!Leave(o) <=> Leave(o)
           /\ Sender!Fresh(o) <=> Fresh(o)
           /\ Sender!Unused(o) <=> Unused(o)
           /\ Sender!TimedError(o) = TimedError(o)
           /\ Sender!Initiate(o) <=> Initiate(o)
           /\ Sender!SystemDone(o) <=> SystemDone(o)
           /\ Sender!ExpireTimer(o) <=> ExpireTimer(o)
           /\ Sender!EnterTimeout(o) <=> EnterTimeout(o)
           /\ Sender!CloseOnTimeout(o) <=> CloseOnTimeout(o)
           /\ Sender!Complete(o) <=> Complete(o)
           /\ Sender!Decide(o) <=> Decide(o)
  <1>1. /\ Sender!StartOperation(o) <=> StartOperation(o)
        /\ Sender!Fresh(o) <=> Fresh(o)
    BY DEF Sender!StartOperation, StartOperation, Sender!Fresh, Fresh,
      Sender!Pushed, Pushed, Sender!Live, Live, Sender!Range, Range
  <1>2. /\ Sender!Notify(o) <=> Notify(o)
        /\ Sender!DestroyState(o) <=> DestroyState(o)
    BY DEF Sender!Notify, Notify, Sender!DestroyState, DestroyState,
      Sender!FinishOperation, FinishOperation
  <1>3. /\ Sender!Leave(o) <=> Leave(o)
        /\ Sender!Unused(o) <=> Unused(o)
        /\ Sender!TimedError(o) = TimedError(o)
        /\ Sender!Decide(o) <=> Decide(o)
    BY DEF Sender!Leave, Leave, Sender!Unused, Unused, Sender!Decide, Decide,
      Sender!TimedError, TimedError
  <1>4. Sender!CloseOnTimeout(o) <=> CloseOnTimeout(o)
    BY SenderOperators DEF Sender!CloseOnTimeout, CloseOnTimeout
  <1>5. /\ Sender!Initiate(o) <=> Initiate(o)
        /\ Sender!SystemDone(o) <=> SystemDone(o)
        /\ Sender!ExpireTimer(o) <=> ExpireTimer(o)
    BY DEF Sender!Initiate, Initiate, Sender!SystemDone, SystemDone,
      Sender!ExpireTimer, ExpireTimer
  <1>6. /\ Sender!EnterTimeout(o) <=> EnterTimeout(o)
        /\ Sender!Complete(o) <=> Complete(o)
    BY SenderOperators
    DEF Sender!EnterTimeout, EnterTimeout, Sender!Complete, Complete
  <1> QED BY <1>1, <1>2, <1>3, <1>4, <1>5, <1>6

(* Every step of the sender is one of a queue of timed operations, or none *)
(* of its.                                                                 *)
LEMMA SenderSteps ==
    ASSUME TimedTypeOK, [Sender!SenderNext]_(Sender!senderVars)
    PROVE  \/ \E o \in Op : Starts(o) \/ Ends(o) \/ Returns(o)
           \/ \E o \in Op : /\ Sender!SenderTimedStep(o)
                            /\ Works(o) /\ UNCHANGED managerVars
           \/ Sender!Cancel /\ Cancels
           \/ UNCHANGED <<managerVars, timedVars>>
  <1>1. ASSUME NEW o \in Op, Sender!AsyncSend(o) PROVE Starts(o)
    BY <1>1, SenderOperators, SenderMethods
      DEF Sender!AsyncSend, Sender!SetupSocket, Starts, Launching
  <1>2. ASSUME NEW o \in Op, Sender!AsyncSendUnencodable(o) \/ Sender!RunPosted(o)
        PROVE  UNCHANGED <<managerVars, timedVars>>
    BY <1>2 DEF Sender!AsyncSendUnencodable, Sender!RunPosted, managerVars,
      timedVars, Sender!managerVars, Sender!timedVars
  <1>3. ASSUME NEW o \in Op, Sender!SenderTimedStep(o)
        PROVE  Works(o) /\ UNCHANGED managerVars
    <2>1. CloseOnTimeout(o) => ClosesOnTimeout(o)
      BY DEF CloseOnTimeout, ClosesOnTimeout, Closes
    <2> QED BY <1>3, <2>1, SenderMethods DEF Sender!SenderTimedStep,
              Sender!TimedStep, Sender!managerVars, managerVars, Works, QuietStep
  <1>4. ASSUME NEW o \in Op, Sender!NotifyAndCall(o) PROVE Ends(o)
    <2>1. error' \in {error, [error EXCEPT ![o] = "failedOperation"]}
      BY <1>4 DEF Sender!NotifyAndCall, Sender!Reported, TimedTypeOK
    <2> QED BY <1>4, <2>1, SenderOperators, SenderMethods
              DEF Sender!NotifyAndCall, Sender!SetupSocket, Ends, Launching
  <1>5. ASSUME NEW o \in Op, Sender!Return(o) PROVE Returns(o)
    BY <1>5, SenderMethods DEF Sender!Return, Returns
  <1>6. ASSUME Sender!Cancel PROVE Cancels
    BY <1>6, SenderOperators DEF Sender!Cancel, Cancels, Closes
  <1>7. CASE UNCHANGED Sender!senderVars
    BY <1>7 DEF Sender!senderVars, Sender!managerVars, Sender!timedVars,
      managerVars, timedVars
  <1> QED BY <1>1, <1>2, <1>3, <1>4, <1>5, <1>6, <1>7
            DEF Sender!SenderNext

(* The invariant of a queue of timed operations, and: a send that was      *)
(* canceled waits neither to be initiated nor for the system.              *)
SenderInv ==
    /\ QueueInv
    /\ posted \subseteq Op
    /\ \A o \in struck : stage[o] \in {"completed", "handling", "decided"}

(* The queue's part of the invariant is kept.                              *)
LEMMA SenderKeepsQueue ==
    ASSUME QueueInv, [Sender!SenderNext]_(Sender!senderVars)
    PROVE  QueueInv'
  <1>1. CASE QueueNext
    BY <1>1, QueueInvNext
  <1>2. CASE UNCHANGED <<managerVars, timedVars>>
    BY <1>2, QueueUnchanged
  <1> QED BY <1>1, <1>2, SenderSteps DEF QueueInv, QueueNext

(* The sender's invariant holds of a new sender.                           *)
LEMMA SenderInvInit == Sender!SenderInit => SenderInv
  <1> SUFFICES ASSUME Sender!SenderInit PROVE SenderInv
    OBVIOUS
  <1>1. ManagerInit /\ TimedInit /\ posted = {}
    BY SenderOperators DEF Sender!SenderInit
  <1>2. ManagerInv /\ struck = {} /\ Live = {}
    BY <1>1, ManagerInvInit DEF ManagerInit, Live
  <1>3. TimedTypeOK /\ StageFollowsNotifier /\ stopped = {}
    BY <1>1 DEF TimedInit, TimedTypeOK, StageFollowsNotifier, ManagerInit,
      TimerStage, Stage, Code, Result
  <1> QED BY <1>1, <1>2, <1>3 DEF SenderInv, QueueInv, StoppedFails

(* Every step keeps it.                                                    *)
LEMMA SenderInvNext ==
    SenderInv /\ [Sender!SenderNext]_(Sender!senderVars) => SenderInv'
  <1> SUFFICES ASSUME SenderInv, [Sender!SenderNext]_(Sender!senderVars)
               PROVE  SenderInv'
    OBVIOUS
  <1> DEFINE Reached == \A o \in struck : stage[o] \in {"completed", "handling", "decided"}
  <1>1. QueueInv' /\ QueueInv /\ KeptInv /\ struck \subseteq Op /\ struck \subseteq Live
    BY SenderKeepsQueue, KeptIsManagerInv
      DEF SenderInv, QueueInv, ManagerInv, ManagerTypeOK, CancelSticks
  <1>2. posted' \subseteq Op
    <2>1. posted' = posted \/ \E o \in Op : posted' \subseteq posted \cup {o}
      BY DEF Sender!SenderNext, Sender!AsyncSend, Sender!AsyncSendUnencodable,
        Sender!RunPosted, Sender!SenderTimedStep, Sender!NotifyAndCall,
        Sender!Return, Sender!Cancel, Sender!senderVars
    <2> QED BY <2>1 DEF SenderInv
  <1>3. stage \in [Op -> Stage] /\ Reached
    BY <1>1 DEF SenderInv, QueueInv, TimedTypeOK
  <1>4. ASSUME NEW o \in Op, Starts(o) PROVE Reached'
    <2>1. struck' = struck /\ stage' = StageBegun(Launched)
      BY <1>4 DEF Starts, StartOperation
    <2>2. Launched \cap struck = {}
      BY <1>1 DEF Launched
    <2> QED BY <1>1, <1>3, <2>1, <2>2 DEF StageBegun
  <1>5. ASSUME NEW o \in Op, Ends(o) PROVE Reached'
    <2>1. struck' = struck \ {o} /\ Live = {o}
      BY <1>1, <1>5, FinishFacts DEF Ends, Notify, FinishOperation
    <2>2. struck' = {}
      BY <1>1, <2>1
    <2> QED BY <2>2
  <1>6. ASSUME NEW o \in Op, Returns(o) PROVE Reached'
    <2>1. stage[o] = "calling" /\ stage' = [stage EXCEPT ![o] = "idle"]
      BY <1>6 DEF Returns, Leave
    <2>2. notifier[o] = "disabled" /\ DestroyState(o)
      BY <1>1, <1>6, <2>1 DEF Returns, QueueInv, StageFollowsNotifier
    <2>3. struck' = struck /\ o \notin struck
      BY <1>1, <2>2, DestroyFacts DEF Live
    <2> QED BY <1>1, <1>3, <2>1, <2>3
  <1>7. ASSUME NEW o \in Op, Sender!SenderTimedStep(o) PROVE Reached'
    <2>1. struck' = struck
      BY <1>7 DEF Sender!SenderTimedStep, Sender!managerVars
    <2>2. \A p \in Op : stage[p] \in {"completed", "handling", "decided"}
              => stage'[p] \in {"completed", "handling", "decided"}
      BY <1>3, <1>7 DEF Sender!SenderTimedStep, Sender!TimedStep,
        Sender!Initiate, Sender!SystemDone, Sender!ExpireTimer,
        Sender!EnterTimeout, Sender!CloseOnTimeout, Sender!CloseObject,
        Sender!Complete, Sender!Decide
    <2> QED BY <1>1, <1>3, <2>1, <2>2
  <1>8. ASSUME Sender!Cancel PROVE Reached'
    <2>1. MutexFree /\ CancelOperation /\ CloseObject
      BY <1>8, SenderOperators DEF Sender!Cancel
    <2>2. struck' = Live
      BY <1>1, <2>1 DEF CancelOperation
    <2>3. \A o \in Live :
            o \in Op /\ stage[o] \in {"outstanding", "completed", "handling", "decided"}
      BY <1>1, <1>3, <2>1 DEF MutexFree, Live, QueueInv, StageFollowsNotifier, Stage
    <2> QED BY <2>1, <2>2, <2>3 DEF CloseObject
  <1>9. ASSUME UNCHANGED <<managerVars, timedVars>> PROVE Reached'
    <2>1. struck' = struck /\ stage' = stage
      BY <1>9 DEF managerVars, timedVars
    <2> QED BY <1>3, <2>1
  <1>10. TimedTypeOK
    BY <1>1 DEF QueueInv
  <1> HIDE DEF Reached
  <1>11. Reached'
    BY <1>4, <1>5, <1>6, <1>7, <1>8, <1>9, <1>10, SenderSteps
  <1> QED BY <1>1, <1>2, <1>11 DEF SenderInv, Reached

(* What is proved of the manager holds in the sender: whatever threads     *)
(* send and cancel, they use it as its specification allows.               *)
THEOREM SenderUsesManager == Sender!SenderSafety => ManagerSafety
  <1>1. Sender!SenderInit => ManagerInit
    BY SenderOperators DEF Sender!SenderInit
  <1>2. SenderInv /\ [Sender!SenderNext]_(Sender!senderVars) => [ManagerNext]_managerVars
    BY SenderSteps, QueueUsesManager DEF SenderInv, QueueInv, QueueNext
  <1> QED BY <1>1, <1>2, SenderInvInit, SenderInvNext, PTL
            DEF Sender!SenderSafety, ManagerSafety

(* The queue keeps the sends apart: there is one operation at most whose   *)
(* end the manager awaits, and it and no other uses the socket, from its   *)
(* launch until it has told the manager of its end.                        *)
THEOREM SenderSocketHasOneUser == Sender!SenderSafety => []SocketHasOneUser
  <1>1. SenderInv => SocketHasOneUser
    BY SenderOperators DEF SenderInv, QueueInv, StageFollowsNotifier,
      SocketHasOneUser, Live, ManagerInv, ManagerTypeOK, NotifierState
  <1> QED BY <1>1, SenderInvInit, SenderInvNext, PTL DEF Sender!SenderSafety

(* cancel() reaches the send that runs, which waits for the system no      *)
(* longer and is not initiated after.                                      *)
THEOREM SenderCanceledNotOutstanding ==
    Sender!SenderSafety => []CanceledNotOutstanding
  <1>1. SenderInv => CanceledNotOutstanding
    BY DEF SenderInv, CanceledNotOutstanding
  <1> QED BY <1>1, SenderInvInit, SenderInvNext, PTL DEF Sender!SenderSafety

(* The user of a send that its timeout or cancel() stopped before the      *)
(* handler had made up its error is told of a failure, aborted or failed,  *)
(* although the datagram may have been sent, and although asyncSendTo makes*)
(* another error of an interrupted transfer.                               *)
THEOREM SenderStoppedIsNoSuccess == Sender!SenderSafety => []StoppedIsNoSuccess
  <1>1. SenderInv => StoppedIsNoSuccess
    BY DEF SenderInv, QueueInv, StoppedFails, StoppedIsNoSuccess
  <1> QED BY <1>1, SenderInvInit, SenderInvNext, PTL DEF Sender!SenderSafety

(* Sends are executed one at a time and in the order of the calls: the     *)
(* abstract execution.                                                     *)
THEOREM SenderImplementsSequential == Sender!SenderSafety => SequentialSafety
  BY SenderUsesManager, ManagerImplementsSequential, PTL

(* The state of the sender has its types.                                  *)
THEOREM SenderTypeCorrect == Sender!SenderSafety => []Sender!SenderTypeOK
  <1>1. SenderInv => Sender!SenderTypeOK
    BY DEF SenderInv, QueueInv, ManagerInv, Sender!SenderTypeOK, ManagerTypeOK,
      Sender!ManagerTypeOK, NotifierState, Sender!NotifierState, TimedTypeOK,
      Sender!TimedTypeOK, Stage, Sender!Stage, TimerStage, Sender!TimerStage,
      Code, Sender!Code, Result, Sender!Result
  <1> QED BY <1>1, SenderInvInit, SenderInvNext, PTL DEF Sender!SenderSafety

-----------------------------------------------------------------------------
(* The resolver.                                                           *)

(* The resolver's copies of the operators of the two modules it extends.   *)
LEMMA ResolverOperators ==
    /\ Resolving!Live = Live /\ Resolving!Live' = Live'
    /\ Resolving!Launched = Launched /\ Resolving!Undecided = Undecided
    /\ Resolving!MutexFree <=> MutexFree
    /\ Resolving!CancelOperation <=> CancelOperation
    /\ Resolving!CloseObject <=> CloseObject
    /\ Resolving!WorkerFree <=> WorkerFree
    /\ (Resolving!ManagerInit <=> ManagerInit) /\ (Resolving!TimedInit <=> TimedInit)
    /\ \A S : /\ Resolving!StageBegun(S) = StageBegun(S)
              /\ Resolving!TimerBegun(S) = TimerBegun(S)
  <1>1. \A S : Resolving!Cardinality(S) = Cardinality(S)
    BY Zenon DEF Resolving!Cardinality, Cardinality
  <1>2. Resolving!InTimer = InTimer /\ Resolving!InCompletion = InCompletion
    BY DEF Resolving!InTimer, InTimer, Resolving!InCompletion, InCompletion
  <1>3. Resolving!WorkerFree <=> WorkerFree
    BY <1>1, <1>2 DEF Resolving!WorkerFree, WorkerFree
  <1> QED BY <1>3 DEF Resolving!Live, Live, Resolving!Launched, Launched,
            Resolving!Undecided, Undecided, Resolving!MutexFree, MutexFree,
            Resolving!CancelOperation, CancelOperation, Resolving!CloseObject,
            CloseObject, Resolving!ManagerInit, ManagerInit, Resolving!TimedInit,
            TimedInit, Resolving!StageBegun, StageBegun, Resolving!TimerBegun,
            TimerBegun

(* The same of the operators that have a parameter.                        *)
LEMMA ResolverMethods ==
    ASSUME NEW o \in Op
    PROVE  /\ Resolving!StartOperation(o) <=> StartOperation(o)
           /\ Resolving!Notify(o) <=> Notify(o)
           /\ Resolving!DestroyState(o) <=> DestroyState(o)
           /\ Resolving!Leave(o) <=> Leave(o)
           /\ Resolving!Fresh(o) <=> Fresh(o)
           /\ Resolving!Unused(o) <=> Unused(o)
           /\ Resolving!TimedError(o) = TimedError(o)
           /\ Resolving!Initiate(o) <=> Initiate(o)
           /\ Resolving!SystemDone(o) <=> SystemDone(o)
           /\ Resolving!ExpireTimer(o) <=> ExpireTimer(o)
           /\ Resolving!EnterTimeout(o) <=> EnterTimeout(o)
           /\ Resolving!CloseOnTimeout(o) <=> CloseOnTimeout(o)
           /\ Resolving!Complete(o) <=> Complete(o)
           /\ Resolving!Decide(o) <=> Decide(o)
  <1>1. /\ Resolving!StartOperation(o) <=> StartOperation(o)
        /\ Resolving!Fresh(o) <=> Fresh(o)
    BY DEF Resolving!StartOperation, StartOperation, Resolving!Fresh, Fresh,
      Resolving!Pushed, Pushed, Resolving!Live, Live, Resolving!Range, Range
  <1>2. /\ Resolving!Notify(o) <=> Notify(o)
        /\ Resolving!DestroyState(o) <=> DestroyState(o)
    BY DEF Resolving!Notify, Notify, Resolving!DestroyState, DestroyState,
      Resolving!FinishOperation, FinishOperation
  <1>3. /\ Resolving!Leave(o) <=> Leave(o)
        /\ Resolving!Unused(o) <=> Unused(o)
        /\ Resolving!TimedError(o) = TimedError(o)
        /\ Resolving!Decide(o) <=> Decide(o)
    BY DEF Resolving!Leave, Leave, Resolving!Unused, Unused, Resolving!Decide, Decide,
      Resolving!TimedError, TimedError
  <1>4. Resolving!CloseOnTimeout(o) <=> CloseOnTimeout(o)
    BY ResolverOperators DEF Resolving!CloseOnTimeout, CloseOnTimeout
  <1>5. /\ Resolving!Initiate(o) <=> Initiate(o)
        /\ Resolving!SystemDone(o) <=> SystemDone(o)
        /\ Resolving!ExpireTimer(o) <=> ExpireTimer(o)
    BY DEF Resolving!Initiate, Initiate, Resolving!SystemDone, SystemDone,
      Resolving!ExpireTimer, ExpireTimer
  <1>6. /\ Resolving!EnterTimeout(o) <=> EnterTimeout(o)
        /\ Resolving!Complete(o) <=> Complete(o)
    BY ResolverOperators
    DEF Resolving!EnterTimeout, EnterTimeout, Resolving!Complete, Complete
  <1> QED BY <1>1, <1>2, <1>3, <1>4, <1>5, <1>6

(* Every step of the resolver is one of a queue of timed operations.       *)
LEMMA ResolverSteps ==
    ASSUME [Resolving!ResolverNext]_(Resolving!resolverVars)
    PROVE  QueueNext \/ UNCHANGED <<managerVars, timedVars>>
  <1>1. Resolving!CloseResolver => Closes
    BY ResolverOperators DEF Resolving!CloseResolver, Closes
  <1>2. Resolving!Launch <=> Launching
    BY ResolverOperators DEF Resolving!Launch, Launching
  <1>3. ASSUME NEW o \in Op, Resolving!AsyncResolve(o) PROVE Starts(o)
    BY <1>2, <1>3, ResolverOperators, ResolverMethods
      DEF Resolving!AsyncResolve, Starts
  <1>4. ASSUME NEW o \in Op, Resolving!InitiateResolve(o)
        PROVE  Works(o) /\ UNCHANGED managerVars
    BY <1>4 DEF Resolving!InitiateResolve, Resolving!managerVars, managerVars,
      Works, Initiates
  <1>5. ASSUME NEW o \in Op, Resolving!CloseOnResolveTimeout(o)
        PROVE  Works(o) /\ UNCHANGED managerVars
    BY <1>1, <1>5, ResolverOperators DEF Resolving!CloseOnResolveTimeout,
      Resolving!managerVars, managerVars, Works, ClosesOnTimeout
  <1>6. ASSUME NEW o \in Op, Resolving!ResolverTimedStep(o)
        PROVE  Works(o) /\ UNCHANGED managerVars
    BY <1>6, ResolverMethods DEF Resolving!ResolverTimedStep,
      Resolving!managerVars, managerVars, Works, QuietStep
  <1>7. ASSUME NEW o \in Op, Resolving!NotifyAndCall(o) PROVE Ends(o)
    BY <1>2, <1>7, ResolverOperators, ResolverMethods
      DEF Resolving!NotifyAndCall, Ends
  <1>8. ASSUME NEW o \in Op, Resolving!Return(o) PROVE Returns(o)
    BY <1>8, ResolverMethods DEF Resolving!Return, Returns
  <1>9. ASSUME Resolving!Stop PROVE Cancels
    BY <1>1, <1>9, ResolverOperators DEF Resolving!Stop, Cancels
  <1>10. CASE UNCHANGED Resolving!resolverVars
    BY <1>10 DEF Resolving!resolverVars, Resolving!managerVars,
      Resolving!timedVars, managerVars, timedVars
  <1> QED BY <1>3, <1>4, <1>5, <1>6, <1>7, <1>8, <1>9, <1>10
            DEF Resolving!ResolverNext, QueueNext

(* The invariant of the queue holds of a new resolver, which is open.      *)
LEMMA ResolverInvInit == Resolving!ResolverInit => QueueInv
  <1> SUFFICES ASSUME Resolving!ResolverInit PROVE QueueInv
    OBVIOUS
  <1>1. ManagerInit
    BY ResolverOperators DEF Resolving!ResolverInit
  <1>2. ManagerInv
    BY <1>1, ManagerInvInit
  <1>3. TimedTypeOK /\ StageFollowsNotifier /\ stopped = {}
    BY <1>1 DEF Resolving!ResolverInit, TimedTypeOK, StageFollowsNotifier,
      ManagerInit, TimerStage, Stage, Code, Result
  <1> QED BY <1>2, <1>3 DEF QueueInv, StoppedFails

(* Every step keeps it.                                                    *)
LEMMA ResolverInvNext ==
    QueueInv /\ [Resolving!ResolverNext]_(Resolving!resolverVars) => QueueInv'
  BY ResolverSteps, QueueInvNext, QueueUnchanged

(* What is proved of the manager holds in the resolver.                    *)
THEOREM ResolverUsesManager == Resolving!ResolverSafety => ManagerSafety
  <1>1. Resolving!ResolverInit => ManagerInit
    BY ResolverOperators DEF Resolving!ResolverInit
  <1>2. [Resolving!ResolverNext]_(Resolving!resolverVars) => [ManagerNext]_managerVars
    BY ResolverSteps, QueueUsesManager
  <1> QED BY <1>1, <1>2, PTL DEF Resolving!ResolverSafety, ManagerSafety

(* Resolutions run one at a time and in the order of the calls, and those  *)
(* that wait are given up by stop() only: the abstract execution.          *)
THEOREM ResolverImplementsSequential == Resolving!ResolverSafety => SequentialSafety
  BY ResolverUsesManager, ManagerImplementsSequential, PTL

(* A resolution that its timeout or stop() stopped is told so, even when   *)
(* closing the resolver found nothing to cancel.                           *)
THEOREM ResolverStoppedIsReported ==
    Resolving!ResolverSafety => StoppedIsReported
  <1> DEFINE Reports == \A o \in stopped :
                 stage[o] = "handling" /\ stage'[o] = "decided" => error'[o] = "aborted"
  <1>1. QueueInv /\ [Resolving!ResolverNext]_(Resolving!resolverVars)
            => [Reports]_timedVars
    <2> SUFFICES ASSUME QueueInv, [Resolving!ResolverNext]_(Resolving!resolverVars),
                        NEW o \in stopped, stage[o] = "handling",
                        stage'[o] = "decided"
                 PROVE  error'[o] = "aborted"
      OBVIOUS
    <2>1. QueueNext
      BY ResolverSteps DEF timedVars
    <2> QED BY <2>1, QueueReports
  <1> QED BY <1>1, ResolverInvInit, ResolverInvNext, PTL
            DEF Resolving!ResolverSafety, StoppedIsReported

(* The state of the resolver has its types.                                *)
THEOREM ResolverTypeCorrect == Resolving!ResolverSafety => []Resolving!ResolverTypeOK
  <1>1. QueueInv => Resolving!ResolverTypeOK
    BY DEF QueueInv, ManagerInv, Resolving!ResolverTypeOK, ManagerTypeOK,
      Resolving!ManagerTypeOK, NotifierState, Resolving!NotifierState, TimedTypeOK,
      Resolving!TimedTypeOK, Stage, Resolving!Stage, TimerStage, Resolving!TimerStage,
      Code, Resolving!Code, Result, Resolving!Result
  <1> QED BY <1>1, ResolverInvInit, ResolverInvNext, PTL DEF Resolving!ResolverSafety
=============================================================================
