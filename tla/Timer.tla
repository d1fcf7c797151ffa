-------------------------------- MODULE Timer --------------------------------
(***************************************************************************)
(* include/asionet/Timer.h: a one-shot or periodic timeout over a          *)
(* boost::asio waitable timer.  Its calls run through an                   *)
(* AsyncOperationManager with the replacer: a new timeout replaces the one *)
(* that is running.                                                        *)
(*                                                                         *)
(* The wait handler runs on some worker thread, startTimeout and cancel on *)
(* any thread; every statement of the handler that reads or changes shared *)
(* state is a step.  Time is abstract: an armed wait may expire.  A wait   *)
(* that has expired is queued with no error and cannot be aborted any more,*)
(* which is why the handler asks isCanceled() as well.                     *)
(***************************************************************************)
EXTENDS AsyncOperationManager

CONSTANT
    Periodic    \* the calls that are startPeriodicTimeout

ASSUME TimerAssumption == Periodic \subseteq Op /\ Replacer

VARIABLE
    phase       \* where the wait of each operation and its handler are

timerVars == <<managerVars, phase>>

Phase == {"none",       \* no AsyncState
          "waiting",    \* async_wait outstanding on the boost timer
          "expired",    \* wait handler queued without error
          "aborted",    \* wait handler queued with operation_aborted
          "passed",     \* one-shot handler went past its check
          "calling",    \* in the user's handler
          "rearming",   \* nextPeriod went past its check
          "leaving"}    \* returning without calling the user's handler

TimerInit == ManagerInit /\ phase = [o \in Op |-> "none"]

-----------------------------------------------------------------------------

(* Defect: the flag of the manager is not asked.                           *)
NeverCanceled == FALSE

(* AsyncOperationManager::isCanceled                                       *)
IsCanceled == canceled

(* Timer::cancelOperation: the boost timer aborts an outstanding wait and  *)
(* cannot take back one that expired.                                      *)
WaitsCanceled == [o \in Op |-> IF phase[o] = "waiting" THEN "aborted" ELSE phase[o]]

(* startTimeoutOperation, startPeriodicTimeoutOperation: the operation the *)
(* manager has launched in this step, if any, makes its state and waits.   *)
Armed == [o \in Op |-> IF o \in Live' \ Live THEN "waiting" ELSE phase[o]]

(* Defect: the timeout that is replaced keeps waiting.                     *)
StartBehind(o) == StartOperation(o) /\ phase' = Armed

(* startTimeout, startPeriodicTimeout                                      *)
StartTimeout(o) ==
    /\ StartOperation(o)
    /\ phase' = IF running THEN WaitsCanceled ELSE Armed

(* The boost timer expires.                                                *)
Expire(o) ==
    /\ phase[o] = "waiting"
    /\ phase' = [phase EXCEPT ![o] = "expired"]
    /\ UNCHANGED managerVars

(* The wait handler runs: `if (error || operationManager.isCanceled())     *)
(* return`, otherwise a periodic timeout calls the user at once.           *)
RunHandler(o) ==
    /\ phase[o] \in {"expired", "aborted"}
    /\ phase' = [phase EXCEPT ![o] =
                    IF phase[o] = "aborted" \/ IsCanceled THEN "leaving"
                    ELSE IF o \in Periodic THEN "calling" ELSE "passed"]
    /\ UNCHANGED managerVars

(* A one-shot timeout: state->notifier.notify(), which starts the timeout  *)
(* that waits to replace it, and then state->handler().                    *)
NotifyAndCall(o) ==
    /\ phase[o] = "passed"
    /\ Notify(o)
    /\ phase' = [Armed EXCEPT ![o] = "calling"]

(* The wait handler returns and its AsyncState is destroyed.               *)
Return(o) ==
    /\ phase[o] = "leaving" \/ (phase[o] = "calling" /\ o \notin Periodic)
    /\ DestroyState(o)
    /\ phase' = [Armed EXCEPT ![o] = "none"]

(* nextPeriod, first half: `if (operationManager.isCanceled()) return`.    *)
NextPeriod(o) ==
    /\ phase[o] = "calling" /\ o \in Periodic
    /\ phase' = [phase EXCEPT ![o] = IF IsCanceled THEN "leaving" ELSE "rearming"]
    /\ UNCHANGED managerVars

(* nextPeriod, second half, without a lock: wait for the next period.      *)
Rearm(o) ==
    /\ phase[o] = "rearming"
    /\ phase' = [phase EXCEPT ![o] = "waiting"]
    /\ UNCHANGED managerVars

(* cancel, whether a timeout runs or not.                                  *)
Cancel == CancelOperation /\ phase' = WaitsCanceled

HandlerStep(o) ==
    RunHandler(o) \/ NotifyAndCall(o) \/ Return(o) \/ NextPeriod(o) \/ Rearm(o)

TimerNext ==
    \/ \E o \in Op : StartTimeout(o) \/ Expire(o) \/ HandlerStep(o)
    \/ Cancel

TimerSafety == TimerInit /\ [][TimerNext]_timerVars

(* Time passes, workers run the handlers that are queued, and the user's   *)
(* handlers return.                                                        *)
TimerSpec ==
    /\ TimerSafety
    /\ \A o \in Op : WF_timerVars(Expire(o)) /\ WF_timerVars(HandlerStep(o))

-----------------------------------------------------------------------------

(* The types of the timer and of its manager.                              *)
TimerTypeOK == ManagerTypeOK /\ phase \in [Op -> Phase]

(* The notifier of a timeout tells where its wait handler is.              *)
PhaseMatchesNotifier ==
    \A o \in Op :
        /\ notifier[o] = "none" <=> phase[o] = "none"
        /\ notifier[o] = "disabled" <=> phase[o] = "calling" /\ o \notin Periodic
        /\ phase[o] = "rearming" => o \in Periodic
        /\ phase[o] = "passed" => o \notin Periodic

(* The boost timer holds one expiry time, and arming a wait aborts any     *)
(* other one: no two timeouts may be waiting on it at the same time.       *)
OneWaitAtATime ==
    \A o, p \in Op : phase[o] = "waiting" /\ phase[p] = "waiting" => o = p

(* A cancel() is effective: a timeout that was running when cancel() was   *)
(* called and whose handler had not yet gone past its check never calls    *)
(* the user, even if its wait had expired before or is armed again after,  *)
(* and even if other timeouts are started in the meantime.                 *)
InUser == {"passed", "calling"}

CanceledIsSilent ==
    [][\A o \in struck : phase'[o] \in InUser => phase[o] \in InUser]_timerVars

(* A timeout that ends without calling the user was asked to, by cancel()  *)
(* or by a newer timeout, while it was running, or was the first to be     *)
(* launched after a cancel() that found none running: however often an idle*)
(* timer is canceled, it loses one timeout, never a second.                *)
LostOnlyIfAsked ==
    [][\A o \in Op : phase[o] # "leaving" /\ phase'[o] = "leaving"
                        => o \in asked \cup doomed]_timerVars

(* A one-shot timeout that is to be replaced does not wait any longer.  (A *)
(* periodic one may: nextPeriod asks isCanceled(), which a replacement     *)
(* does not set.)                                                          *)
ReplacedDoesNotWait ==
    pending # <<>> => \A o \in Op \ Periodic : phase[o] # "waiting"

(* A timeout that waits to replace a one-shot one is started.              *)
ReplacementStarts ==
    \A o \in Op :
        o \in Range(pending) /\ Live \cap Periodic = {} ~> o \notin Range(pending)

(* A running timeout that is canceled ends, periodic or not.               *)
CanceledEnds == \A o \in Op : o \in struck ~> o \notin struck
=============================================================================
