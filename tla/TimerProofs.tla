----------------------------- MODULE TimerProofs -----------------------------
(***************************************************************************)
(* The timer over its manager: cancel() silences, one wait at a time, a    *)
(* replaced one-shot timeout does not wait, and no timeout is lost without *)
(* a cancel() or a newer timeout to account for it.                        *)
(***************************************************************************)
EXTENDS Timer, AsyncOperationManagerProofs

-----------------------------------------------------------------------------
(* The timer uses the manager as the manager wants to be used.             *)

(* Every step of the timer is a step of the manager or leaves it alone.    *)
LEMMA TimerStepIsManagerStep ==
    [TimerNext]_timerVars => [ManagerNext]_managerVars
<1>. SUFFICES ASSUME [TimerNext]_timerVars
              PROVE  ManagerNext \/ UNCHANGED managerVars
  OBVIOUS
<1>1. ASSUME NEW o \in Op, StartTimeout(o) PROVE StartOperation(o)
  BY <1>1 DEF StartTimeout
<1>2. ASSUME NEW o \in Op, Expire(o) PROVE UNCHANGED managerVars
  BY <1>2 DEF Expire
<1>3. ASSUME NEW o \in Op, HandlerStep(o)
      PROVE  Notify(o) \/ DestroyState(o) \/ UNCHANGED managerVars
  BY <1>3 DEF HandlerStep, RunHandler, NotifyAndCall, Return, NextPeriod, Rearm
<1>4. Cancel => CancelOperation
  BY DEF Cancel
<1>5. UNCHANGED timerVars => UNCHANGED managerVars
  BY DEF timerVars, managerVars
<1>. QED
  BY <1>1, <1>2, <1>3, <1>4, <1>5 DEF TimerNext, ManagerNext

(* The timer keeps to the manager's methods, so what holds of every        *)
(* manager holds of the timer's.                                           *)
THEOREM TimerUsesManager == TimerSafety => ManagerSafety
<1>1. TimerInit => ManagerInit
  BY DEF TimerInit
<1>. QED
  BY <1>1, TimerStepIsManagerStep, PTL DEF TimerSafety, ManagerSafety

(* Timeouts are executed one at a time, each replacing the one before: the *)
(* abstract execution of startTimeout and startPeriodicTimeout.            *)
THEOREM TimerImplementsSequential == TimerSafety => SequentialSafety
<1>. QED
  BY TimerUsesManager, ManagerImplementsSequential, PTL

-----------------------------------------------------------------------------
(* The invariant of the wait handlers.                                     *)

TimerInv == ManagerInv /\ phase \in [Op -> Phase] /\ PhaseMatchesNotifier

(* In the initial state there is no wait and no notifier.                  *)
LEMMA TimerInvInit == TimerInit => TimerInv
<1>. SUFFICES ASSUME TimerInit PROVE TimerInv
  OBVIOUS
<1>1. ManagerInv
  BY ManagerInvInit DEF TimerInit
<1>2. phase \in [Op -> Phase]
  BY DEF TimerInit, Phase
<1>3. PhaseMatchesNotifier
  BY DEF TimerInit, ManagerInit, PhaseMatchesNotifier
<1>. QED
  BY <1>1, <1>2, <1>3 DEF TimerInv

(* What the end of o, whose notifier becomes n, does to the notifiers and  *)
(* the phases: it launches at most one operation, which had no state.      *)
LEMMA FinishAndArm ==
    ASSUME TimerInv, NEW o \in Op, notifier[o] = "enabled",
           NEW n \in {"none", "disabled"}, FinishOperation(o, n)
    PROVE  /\ Armed \in [Op -> Phase]
           /\ notifier'[o] = n
           /\ o \notin Live' \ Live
           /\ \A p \in Op \ {o} :
                 \/ /\ notifier[p] = "none" /\ phase[p] = "none"
                    /\ notifier'[p] = "enabled" /\ Armed[p] = "waiting"
                 \/ notifier'[p] = notifier[p] /\ Armed[p] = phase[p]
<1>. USE DEF TimerInv, ManagerInv
<1>1. notifier \in [Op -> NotifierState]
  BY DEF ManagerTypeOK
<1>2. CASE pending = <<>>
  <2>1. notifier' = [notifier EXCEPT ![o] = n]
    BY <1>2 DEF FinishOperation
  <2>2. Live' \subseteq Live
    BY <1>1, <2>1 DEF Live
  <2>. QED
    BY <1>1, <2>1, <2>2 DEF Armed
<1>3. CASE pending # <<>>
  <2>1. Head(pending) \in Op /\ notifier[Head(pending)] = "none"
    BY <1>3, PoppedFacts
  <2>2. PICK h \in Op : h = Head(pending) /\ notifier[h] = "none"
    BY <2>1
  <2>3. notifier' = [notifier EXCEPT ![o] = n, ![h] = "enabled"]
    BY <1>3, <2>2 DEF FinishOperation
  <2>4. h # o /\ phase[h] = "none"
    BY <2>2 DEF PhaseMatchesNotifier
  <2>5. Live' \ Live = {h}
    BY <1>1, <2>2, <2>3, <2>4 DEF Live
  <2>6. Armed \in [Op -> Phase]
    BY DEF Armed, Phase
  <2>. QED
    BY <1>1, <2>2, <2>3, <2>4, <2>5, <2>6 DEF Armed
<1>. QED
  BY <1>2, <1>3

(* Every step of the timer preserves the invariant.                        *)
LEMMA TimerInvNext == TimerInv /\ [TimerNext]_timerVars => TimerInv'
<1>. SUFFICES ASSUME TimerInv, [TimerNext]_timerVars PROVE TimerInv'
  OBVIOUS
<1>. USE DEF TimerInv
<1>1. ManagerInv'
  BY TimerStepIsManagerStep, ManagerInvNext
<1>2. notifier \in [Op -> NotifierState]
  BY DEF ManagerInv, ManagerTypeOK
<1>3. WaitsCanceled \in [Op -> Phase]
  BY DEF WaitsCanceled, Phase
<1>. DEFINE PhasesOK == phase' \in [Op -> Phase] /\ PhaseMatchesNotifier'
<1>4. ASSUME NEW o \in Op, StartTimeout(o) PROVE PhasesOK
  <2>1. CASE running
    BY <1>3, <1>4, <2>1
      DEF StartTimeout, StartOperation, WaitsCanceled, PhaseMatchesNotifier
  <2>2. CASE ~running
    <3>1. /\ notifier' = [notifier EXCEPT ![o] = "enabled"]
          /\ notifier[o] = "none" /\ phase' = Armed
      BY <1>4, <2>2 DEF StartTimeout, StartOperation, Fresh
    <3>2. Live' \ Live = {o}
      BY <1>2, <3>1 DEF Live
    <3>3. phase' = [phase EXCEPT ![o] = "waiting"]
      BY <3>1, <3>2 DEF Armed
    <3>. QED
      BY <1>2, <3>1, <3>3 DEF PhaseMatchesNotifier, Phase
  <2>. QED
    BY <2>1, <2>2
<1>5. ASSUME NEW o \in Op, Expire(o) PROVE PhasesOK
  BY <1>2, <1>5 DEF Expire, managerVars, PhaseMatchesNotifier, Phase
<1>6. ASSUME NEW o \in Op, RunHandler(o) PROVE PhasesOK
  BY <1>2, <1>6 DEF RunHandler, managerVars, PhaseMatchesNotifier, Phase
<1>7. ASSUME NEW o \in Op, NotifyAndCall(o) PROVE PhasesOK
  <2>1. FinishOperation(o, "disabled") /\ notifier[o] = "enabled"
        /\ phase' = [Armed EXCEPT ![o] = "calling"]
    BY <1>7 DEF NotifyAndCall, Notify
  <2>2. o \notin Periodic
    BY <1>7 DEF NotifyAndCall, PhaseMatchesNotifier
  <2>. QED
    BY <2>1, <2>2, FinishAndArm DEF PhaseMatchesNotifier, Phase
<1>8. ASSUME NEW o \in Op, Return(o) PROVE PhasesOK
  <2>1. phase' = [Armed EXCEPT ![o] = "none"] /\ DestroyState(o)
    BY <1>8 DEF Return
  <2>2. CASE notifier[o] = "enabled"
    <3>1. FinishOperation(o, "none")
      BY <2>1, <2>2 DEF DestroyState
    <3>. QED
      BY <2>1, <2>2, <3>1, FinishAndArm DEF PhaseMatchesNotifier, Phase
  <2>3. CASE notifier[o] = "disabled"
    <3>1. notifier' = [notifier EXCEPT ![o] = "none"]
      BY <2>1, <2>3 DEF DestroyState
    <3>2. Live' \ Live = {}
      BY <1>2, <3>1 DEF Live
    <3>3. phase' = [phase EXCEPT ![o] = "none"]
      BY <2>1, <3>2 DEF Armed
    <3>. QED
      BY <1>2, <3>1, <3>3 DEF PhaseMatchesNotifier, Phase
  <2>. QED
    BY <2>1, <2>2, <2>3 DEF DestroyState
<1>9. ASSUME NEW o \in Op, NextPeriod(o) PROVE PhasesOK
  BY <1>2, <1>9 DEF NextPeriod, managerVars, PhaseMatchesNotifier, Phase
<1>10. ASSUME NEW o \in Op, Rearm(o) PROVE PhasesOK
  BY <1>2, <1>10 DEF Rearm, managerVars, PhaseMatchesNotifier, Phase
<1>11. ASSUME Cancel PROVE PhasesOK
  BY <1>3, <1>11 DEF Cancel, CancelOperation, WaitsCanceled, PhaseMatchesNotifier
<1>12. ASSUME UNCHANGED timerVars PROVE PhasesOK
  <2>1. phase' = phase /\ notifier' = notifier
    BY <1>12 DEF timerVars, managerVars
  <2>. QED
    BY <2>1 DEF PhaseMatchesNotifier
<1>. QED
  BY <1>1, <1>4, <1>5, <1>6, <1>7, <1>8, <1>9, <1>10, <1>11, <1>12
    DEF TimerNext, HandlerStep

(* In every reachable state the notifier of a timeout tells where its wait *)
(* handler is, and the invariant of the manager holds.                     *)
THEOREM TimerInvariant == TimerSafety => []TimerInv
<1>. QED
  BY TimerInvInit, TimerInvNext, PTL DEF TimerSafety

(* The boost timer never has two timeouts waiting on its one expiry time.  *)
THEOREM TimerOneWait == TimerSafety => []OneWaitAtATime
<1>1. TimerInv => OneWaitAtATime
  BY DEF TimerInv, ManagerInv, ManagerTypeOK, NotifierState,
    PhaseMatchesNotifier, OneAtATime, Live, OneWaitAtATime
<1>. QED
  BY <1>1, TimerInvariant, PTL

-----------------------------------------------------------------------------
(* cancel() is effective.                                                  *)

(* After cancel() a timeout that had not gone past its check stays silent. *)
THEOREM TimerCanceledIsSilent == TimerSafety => CanceledIsSilent
<1>. DEFINE Silent == \A o \in struck : phase'[o] \in InUser => phase[o] \in InUser
<1>1. TimerInv /\ [TimerNext]_timerVars => [Silent]_timerVars
  <2>. SUFFICES ASSUME TimerInv, TimerNext PROVE Silent
    BY DEF timerVars
  <2>. SUFFICES ASSUME NEW o \in struck, phase[o] \notin InUser
                PROVE  phase'[o] \notin InUser
    OBVIOUS
  <2>1. o \in Op /\ canceled /\ phase \in [Op -> Phase]
    BY DEF TimerInv, ManagerInv, ManagerTypeOK, CancelSticks
  <2>2. Armed[o] \notin InUser /\ WaitsCanceled[o] \notin InUser
    BY <2>1 DEF Armed, WaitsCanceled, InUser
  <2>3. ASSUME NEW p \in Op, StartTimeout(p) PROVE phase'[o] \notin InUser
    BY <2>2, <2>3 DEF StartTimeout
  <2>4. ASSUME NEW p \in Op, Expire(p) PROVE phase'[o] \notin InUser
    BY <2>1, <2>4 DEF Expire, InUser
  <2>5. ASSUME NEW p \in Op, RunHandler(p) PROVE phase'[o] \notin InUser
    BY <2>1, <2>5 DEF RunHandler, IsCanceled, InUser
  <2>6. ASSUME NEW p \in Op, NotifyAndCall(p) PROVE phase'[o] \notin InUser
    <3>1. p # o
      BY <2>6 DEF NotifyAndCall, InUser
    <3>2. phase'[o] = Armed[o]
      BY <2>1, <2>6, <3>1 DEF NotifyAndCall, Armed
    <3>. QED
      BY <2>2, <3>2
  <2>7. ASSUME NEW p \in Op, Return(p) PROVE phase'[o] \notin InUser
    <3>1. phase'[o] \in {"none", Armed[o]}
      BY <2>1, <2>7 DEF Return, Armed
    <3>. QED
      BY <2>2, <3>1 DEF InUser
  <2>8. ASSUME NEW p \in Op, NextPeriod(p) PROVE phase'[o] \notin InUser
    BY <2>1, <2>8 DEF NextPeriod, InUser
  <2>9. ASSUME NEW p \in Op, Rearm(p) PROVE phase'[o] \notin InUser
    BY <2>1, <2>9 DEF Rearm, InUser
  <2>10. ASSUME Cancel PROVE phase'[o] \notin InUser
    BY <2>2, <2>10 DEF Cancel
  <2>. QED
    BY <2>3, <2>4, <2>5, <2>6, <2>7, <2>8, <2>9, <2>10
      DEF TimerNext, HandlerStep
<1>. QED
  BY <1>1, TimerInvariant, PTL DEF TimerSafety, CanceledIsSilent

-----------------------------------------------------------------------------
(* A one-shot timeout that is replaced is not waited for.                  *)

(* A new timeout never waits for the expiry of a one-shot one that it      *)
(* replaces, whatever periodic timeouts there are beside.                  *)
THEOREM TimerReplacedDoesNotWait == TimerSafety => []ReplacedDoesNotWait
<1>. DEFINE Inv == TimerInv /\ ReplacedDoesNotWait
<1>1. TimerInit => Inv
  <2>1. TimerInit => ReplacedDoesNotWait
    BY DEF TimerInit, ManagerInit, ReplacedDoesNotWait
  <2>. QED
    BY <2>1, TimerInvInit
<1>2. Inv /\ [TimerNext]_timerVars => Inv'
  <2>. SUFFICES ASSUME Inv, [TimerNext]_timerVars PROVE ReplacedDoesNotWait'
    BY TimerInvNext
  <2>1. phase \in [Op -> Phase]
    BY DEF TimerInv
  <2>2. \A o \in Op : WaitsCanceled[o] # "waiting"
    BY DEF WaitsCanceled
  <2>3. ASSUME NEW o \in Op, StartTimeout(o) PROVE ReplacedDoesNotWait'
    <3>1. CASE running
      BY <2>2, <2>3, <3>1 DEF StartTimeout, ReplacedDoesNotWait
    <3>2. CASE ~running
      <4>1. pending' = <<>>
        BY <2>3, <3>2
          DEF StartTimeout, StartOperation, TimerInv, ManagerInv, NoStrandedOperation
      <4>. QED
        BY <4>1 DEF ReplacedDoesNotWait
    <3>. QED
      BY <3>1, <3>2
  <2>4. ASSUME NEW o \in Op, FinishOperation(o, "none") \/ FinishOperation(o, "disabled")
        PROVE  ReplacedDoesNotWait'
    <3>1. pending' = <<>>
      <4>1. CASE pending = <<>>
        BY <2>4, <4>1 DEF FinishOperation
      <4>2. CASE pending # <<>>
        BY <2>4, <4>2, PoppedFacts, TimerAssumption
          DEF FinishOperation, TimerInv, ManagerInv
      <4>. QED
        BY <4>1, <4>2
    <3>. QED
      BY <3>1 DEF ReplacedDoesNotWait
  <2>5. ASSUME NEW o \in Op, NotifyAndCall(o) PROVE ReplacedDoesNotWait'
    BY <2>4, <2>5 DEF NotifyAndCall, Notify
  <2>6. ASSUME NEW o \in Op, Return(o) PROVE ReplacedDoesNotWait'
    <3>1. CASE notifier[o] = "enabled"
      BY <2>4, <2>6, <3>1 DEF Return, DestroyState
    <3>2. CASE notifier[o] = "disabled"
      <4>1. /\ pending' = pending
            /\ notifier' = [notifier EXCEPT ![o] = "none"]
            /\ phase' = [Armed EXCEPT ![o] = "none"]
        BY <2>6, <3>2 DEF Return, DestroyState
      <4>2. Live' \ Live = {}
        BY <4>1 DEF Live, TimerInv, ManagerInv, ManagerTypeOK
      <4>3. phase' = [phase EXCEPT ![o] = "none"]
        BY <2>1, <4>1, <4>2 DEF Armed
      <4>. QED
        BY <2>1, <4>1, <4>3 DEF ReplacedDoesNotWait
    <3>. QED
      BY <2>6, <3>1, <3>2 DEF Return, DestroyState
  <2>7. ASSUME NEW o \in Op, Expire(o) \/ RunHandler(o) PROVE ReplacedDoesNotWait'
    BY <2>1, <2>7 DEF Expire, RunHandler, managerVars, ReplacedDoesNotWait
  <2>8. ASSUME NEW o \in Op, NextPeriod(o) \/ Rearm(o) PROVE ReplacedDoesNotWait'
    <3>1. o \in Periodic /\ pending' = pending
      BY <2>8 DEF NextPeriod, Rearm, managerVars, TimerInv, PhaseMatchesNotifier
    <3>2. \A p \in Op \ Periodic : phase'[p] = phase[p]
      BY <2>1, <2>8, <3>1 DEF NextPeriod, Rearm
    <3>. QED
      BY <3>1, <3>2 DEF ReplacedDoesNotWait
  <2>9. ASSUME Cancel PROVE ReplacedDoesNotWait'
    BY <2>9 DEF Cancel, CancelOperation, ReplacedDoesNotWait
  <2>10. CASE UNCHANGED timerVars
    <3>1. phase' = phase /\ pending' = pending
      BY <2>10 DEF timerVars, managerVars
    <3>. QED
      BY <3>1 DEF ReplacedDoesNotWait
  <2>. QED
    BY <2>3, <2>5, <2>6, <2>7, <2>8, <2>9, <2>10 DEF TimerNext, HandlerStep
<1>. QED
  BY <1>1, <1>2, PTL DEF TimerSafety

-----------------------------------------------------------------------------
(* A timeout loses its handler only to a cancel() or to a newer timeout.   *)

(* A timeout whose wait was aborted, or at which cancel() was aimed, was   *)
(* asked to stop; what else finds the flag of the manager set is doomed.   *)
AskedInv ==
    /\ TimerInv
    /\ \A o \in Op : phase[o] = "aborted" => o \in asked
    /\ struck \subseteq asked

(* Aborting the waits asks what waits to stop.                             *)
LEMMA WaitsCanceledAreAsked ==
    ASSUME AskedInv, phase' = WaitsCanceled, asked' = asked \cup Live
    PROVE  \A o \in Op : phase'[o] = "aborted" => o \in asked'
BY DEF AskedInv, TimerInv, ManagerInv, ManagerTypeOK, NotifierState,
    PhaseMatchesNotifier, WaitsCanceled, Live

(* Every step preserves it.                                                *)
LEMMA AskedInvNext == AskedInv /\ [TimerNext]_timerVars => AskedInv'
<1>. SUFFICES ASSUME AskedInv, [TimerNext]_timerVars PROVE AskedInv'
  OBVIOUS
<1>. DEFINE Asked == /\ \A o \in Op : phase[o] = "aborted" => o \in asked
                     /\ struck \subseteq asked
<1>1. TimerInv /\ Asked /\ phase \in [Op -> Phase] /\ Replacer
  BY TimerAssumption DEF AskedInv, TimerInv
<1>2. TimerInv'
  BY <1>1, TimerInvNext
<1>3. \A o \in Op : Armed[o] = "aborted" => phase[o] = "aborted"
  BY DEF Armed
<1>4. ASSUME NEW o \in Op, StartTimeout(o) PROVE Asked'
  <2>1. CASE running
    <3>1. /\ asked' = asked \cup Live /\ phase' = WaitsCanceled
          /\ struck' = struck
      BY <1>1, <1>4, <2>1 DEF StartTimeout, StartOperation
    <3>. QED
      BY <1>1, <3>1, WaitsCanceledAreAsked
  <2>2. CASE ~running
    BY <1>1, <1>3, <1>4, <2>2 DEF StartTimeout, StartOperation
  <2>. QED
    BY <2>1, <2>2
<1>5. ASSUME NEW o \in Op, Expire(o) \/ RunHandler(o) \/ NextPeriod(o) \/ Rearm(o)
      PROVE  Asked'
  <2>1. UNCHANGED managerVars
    BY <1>5 DEF Expire, RunHandler, NextPeriod, Rearm
  <2>2. \A p \in Op : phase'[p] = "aborted" => phase[p] = "aborted"
    BY <1>1, <1>5 DEF Expire, RunHandler, NextPeriod, Rearm
  <2>. QED
    BY <1>1, <2>1, <2>2 DEF managerVars
<1>6. ASSUME NEW o \in Op, NEW n \in {"none", "disabled"}, FinishOperation(o, n),
             NEW e \in {"none", "calling"}, phase' = [Armed EXCEPT ![o] = e]
      PROVE  Asked'
  <2>1. asked' = asked \ {o} /\ struck' = struck \ {o}
    BY <1>6 DEF FinishOperation
  <2>2. \A p \in Op : phase'[p] = "aborted" => p # o /\ phase[p] = "aborted"
    BY <1>3, <1>6 DEF Armed
  <2>. QED
    BY <1>1, <2>1, <2>2
<1>7. ASSUME NEW o \in Op, NotifyAndCall(o) PROVE Asked'
  BY <1>6, <1>7 DEF NotifyAndCall, Notify
<1>8. ASSUME NEW o \in Op, Return(o) PROVE Asked'
  <2>1. CASE notifier[o] = "enabled"
    BY <1>6, <1>8, <2>1 DEF Return, DestroyState
  <2>2. CASE notifier[o] = "disabled"
    <3>1. /\ phase' = [Armed EXCEPT ![o] = "none"]
          /\ UNCHANGED <<asked, struck>>
      BY <1>8, <2>2 DEF Return, DestroyState
    <3>2. \A p \in Op : phase'[p] = "aborted" => phase[p] = "aborted"
      BY <1>3, <3>1 DEF Armed
    <3>. QED
      BY <1>1, <3>1, <3>2
  <2>. QED
    BY <1>8, <2>1, <2>2 DEF Return, DestroyState
<1>9. ASSUME Cancel PROVE Asked'
  <2>1. /\ asked' = asked \cup Live /\ struck' = struck \cup Live
        /\ phase' = WaitsCanceled
    BY <1>9 DEF Cancel, CancelOperation
  <2>. QED
    BY <1>1, <2>1, WaitsCanceledAreAsked
<1>10. ASSUME UNCHANGED timerVars PROVE Asked'
  BY <1>1, <1>10 DEF timerVars, managerVars
<1>. HIDE DEF Asked
<1>11. Asked'
  BY <1>4, <1>5, <1>7, <1>8, <1>9, <1>10 DEF TimerNext, HandlerStep
<1>. QED
  BY <1>2, <1>11 DEF AskedInv, Asked

(* A timeout that ends without calling the user was canceled or replaced   *)
(* while it ran, or is the one that a cancel() of the idle timer cost,     *)
(* whatever threads start and cancel and however their calls interleave    *)
(* with the handlers.                                                      *)
THEOREM TimerLostOnlyIfAsked == TimerSafety => LostOnlyIfAsked
<1>. DEFINE OnlyAsked == \A o \in Op :
                phase[o] # "leaving" /\ phase'[o] = "leaving"
                    => o \in asked \cup doomed
<1>1. AskedInv /\ [TimerNext]_timerVars => AskedInv'
  BY AskedInvNext
<1>2. TimerInit => AskedInv
  BY TimerInvInit DEF TimerInit, ManagerInit, AskedInv
<1>3. AskedInv /\ [TimerNext]_timerVars => [OnlyAsked]_timerVars
  <2>. SUFFICES ASSUME AskedInv, TimerNext, NEW o \in Op,
                       phase[o] # "leaving", phase'[o] = "leaving"
                PROVE  o \in asked \cup doomed
    OBVIOUS
  <2>1. /\ phase \in [Op -> Phase] /\ PhaseMatchesNotifier
        /\ notifier \in [Op -> NotifierState]
    BY DEF AskedInv, TimerInv, ManagerInv, ManagerTypeOK
  <2>2. Armed[o] # "leaving" /\ WaitsCanceled[o] # "leaving"
    BY DEF Armed, WaitsCanceled
  <2>3. ASSUME NEW p \in Op, StartTimeout(p) PROVE FALSE
    BY <2>2, <2>3 DEF StartTimeout
  <2>4. ASSUME NEW p \in Op, Expire(p) \/ Rearm(p) PROVE FALSE
    BY <2>1, <2>4 DEF Expire, Rearm
  <2>5. ASSUME NEW p \in Op, NotifyAndCall(p) \/ Return(p) PROVE FALSE
    BY <2>1, <2>2, <2>5 DEF NotifyAndCall, Return, Armed
  <2>6. ASSUME NEW p \in Op, RunHandler(p) \/ NextPeriod(p)
        PROVE  o \in asked \cup doomed
    <3>1. p = o /\ (phase[o] = "aborted" \/ canceled)
      BY <2>1, <2>6 DEF RunHandler, NextPeriod, IsCanceled
    <3>2. \/ phase[o] \in {"expired", "aborted"}
          \/ (phase[o] = "calling" /\ o \in Periodic)
      <4>1. RunHandler(o) \/ NextPeriod(o)
        BY <2>6, <3>1
      <4>. QED
        BY <4>1 DEF RunHandler, NextPeriod
    <3>3. o \in Live
      BY <2>1, <3>2 DEF PhaseMatchesNotifier, Live, NotifierState
    <3>. QED
      BY <3>1, <3>3 DEF AskedInv, TimerInv, ManagerInv, CancelHasCause
  <2>7. ~Cancel
    BY <2>2 DEF Cancel
  <2>. QED
    BY <2>3, <2>4, <2>5, <2>6, <2>7 DEF TimerNext, HandlerStep
<1>. QED
  BY <1>1, <1>2, <1>3, PTL DEF TimerSafety, LostOnlyIfAsked
=============================================================================
