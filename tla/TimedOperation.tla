--------------------------- MODULE TimedOperation ---------------------------
(***************************************************************************)
(* include/asionet/Closeable.h: timedAsyncOperation runs an asynchronous   *)
(* operation on a closeable object (a socket) and closes the object when   *)
(* the timeout passes first.  Operations that follow one another use the   *)
(* same object, as those of DatagramSender, DatagramReceiver and           *)
(* ServiceClient do: the next begins when the handler of the last is       *)
(* called, or later.                                                       *)
(*                                                                         *)
(* The timeout is a Timer of its own for each operation.  What its cancel()*)
(* does is what module Timer shows: a timeout that has not gone past its   *)
(* check stays silent, one that has cannot be stopped.  The close lambda   *)
(* passes through a std::function and so loses the strand that             *)
(* WorkSerializer bound to it: a worker that has passed the timer's check  *)
(* runs it whatever other workers do.                                      *)
(*                                                                         *)
(* Workers is the number of threads that run the context.  A handler that  *)
(* has begun occupies one of them until it returns.                        *)
(***************************************************************************)
EXTENDS Operations, Naturals, FiniteSets

CONSTANT Workers    \* threads that run the context's handlers

ASSUME WorkersAssumption == Workers \in Nat \ {0}

VARIABLES
    open,       \* is_open() of the closeable object
    timer,      \* the timeout of each operation
    stage,      \* the asynchronous operation and its completion handler
    code,       \* the boostCode the operation completed with
    error,      \* what timedAsyncOperation makes of it
    stopped     \* history: operations whose own timeout, or user, closed the
                \* object before their handler had made up its error

timedVars == <<open, timer, stage, code, error, stopped>>

TimerStage == {"off",       \* not started, canceled or done
               "waiting",   \* the wait is outstanding
               "expired",   \* the wait handler is queued
               "passed"}    \* past its check, before the close lambda

Stage == {"idle",           \* no operation
          "starting",       \* timeout started, operation not initiated
          "outstanding",    \* initiated, the system works on it
          "completed",      \* completion handler queued
          "handling",       \* completion handler has canceled the timer
          "decided",        \* completion handler has made up its error
          "calling"}        \* in the handler that was passed

Code == {"none", "ok", "system", "closed"}

Result == {"none", "success", "aborted", "failedOperation"}

TimedInit ==
    /\ open = FALSE
    /\ timer = [o \in Op |-> "off"]
    /\ stage = [o \in Op |-> "idle"]
    /\ code = [o \in Op |-> "none"]
    /\ error = [o \in Op |-> "none"]
    /\ stopped = {}

-----------------------------------------------------------------------------

(* Handlers that have begun and not returned, one worker each.             *)
InTimer == {o \in Op : timer[o] = "passed"}
InCompletion ==
    {o \in Op : stage[o] \notin {"idle", "starting", "outstanding", "completed"}}

(* The workers in context.run(): Worker, WorkerPool.                       *)
WorkerFree == Cardinality(InTimer) + Cardinality(InCompletion) < Workers

Running == {o \in Op : stage[o] # "idle"}

(* The operations whose handler has not made up its error.                 *)
Undecided ==
    {o \in Op : stage[o] \in {"starting", "outstanding", "completed", "handling"}}

(* Closer::close: the object is closed and what is outstanding on it       *)
(* completes with an error.                                                *)
CloseObject ==
    /\ open' = FALSE
    /\ stage' = [o \in Op |-> IF stage[o] = "outstanding" THEN "completed"
                              ELSE stage[o]]
    /\ code' = [o \in Op |-> IF stage[o] = "outstanding" THEN "closed"
                             ELSE code[o]]

(* timedAsyncOperation, first part: start the timeout, for the operations  *)
(* in S (one, or none).                                                    *)
TimerBegun(S) == [o \in Op |-> IF o \in S THEN "waiting" ELSE timer[o]]
StageBegun(S) == [o \in Op |-> IF o \in S THEN "starting" ELSE stage[o]]

(* An identity that nothing of an earlier operation refers to.             *)
Unused(o) == stage[o] = "idle" /\ timer[o] = "off"

(* Second part: initiate the operation, which fails on a closed object.    *)
Initiate(o) ==
    /\ stage[o] = "starting"
    /\ \/ /\ open
          /\ stage' = [stage EXCEPT ![o] = "outstanding"]
          /\ UNCHANGED code
       \/ /\ ~open
          /\ stage' = [stage EXCEPT ![o] = "completed"]
          /\ code' = [code EXCEPT ![o] = "closed"]
    /\ UNCHANGED <<open, timer, error, stopped>>

(* The system completes the operation.                                     *)
SystemDone(o) ==
    /\ stage[o] = "outstanding"
    /\ stage' = [stage EXCEPT ![o] = "completed"]
    /\ \E c \in {"ok", "system"} : code' = [code EXCEPT ![o] = c]
    /\ UNCHANGED <<open, timer, error, stopped>>

(* The timeout passes.                                                     *)
ExpireTimer(o) ==
    /\ timer[o] = "waiting"
    /\ timer' = [timer EXCEPT ![o] = "expired"]
    /\ UNCHANGED <<open, stage, code, error, stopped>>

(* A worker runs the wait handler past Timer's check.                      *)
EnterTimeout(o) ==
    /\ timer[o] = "expired" /\ WorkerFree
    /\ timer' = [timer EXCEPT ![o] = "passed"]
    /\ UNCHANGED <<open, stage, code, error, stopped>>

(* Defect: the timeout is reported and the object stays open.              *)
TimeoutWithoutClose(o) ==
    /\ timer[o] = "passed"
    /\ timer' = [timer EXCEPT ![o] = "off"]
    /\ stopped' = stopped \cup ({o} \cap Undecided)
    /\ UNCHANGED <<open, stage, code, error>>

(* The close lambda.                                                       *)
CloseOnTimeout(o) ==
    /\ timer[o] = "passed"
    /\ timer' = [timer EXCEPT ![o] = "off"]
    /\ CloseObject
    /\ stopped' = stopped \cup ({o} \cap Undecided)
    /\ UNCHANGED error

(* Defect: the completion handler does not cancel the timer.               *)
CompleteWithoutCancel(o) ==
    /\ stage[o] = "completed" /\ WorkerFree
    /\ stage' = [stage EXCEPT ![o] = "handling"]
    /\ UNCHANGED <<open, timer, code, error, stopped>>

(* The completion handler begins: timer->cancel().                         *)
Complete(o) ==
    /\ stage[o] = "completed" /\ WorkerFree
    /\ stage' = [stage EXCEPT ![o] = "handling"]
    /\ timer' = [timer EXCEPT ![o] = IF @ = "passed" THEN @ ELSE "off"]
    /\ UNCHANGED <<open, code, error, stopped>>

(* Defect: the error is the operation's own code.                          *)
CodeError(o) == IF code[o] = "ok" THEN "success" ELSE "failedOperation"

(* A closed object means aborted, whatever the operation's own code.       *)
TimedError(o) == IF ~open THEN "aborted"
                 ELSE IF code[o] = "ok" THEN "success" ELSE "failedOperation"

(* The completion handler makes up its error.                              *)
Decide(o) ==
    /\ stage[o] = "handling"
    /\ stage' = [stage EXCEPT ![o] = "decided"]
    /\ error' = [error EXCEPT ![o] = TimedError(o)]
    /\ UNCHANGED <<open, timer, code, stopped>>

(* The completion handler returns.                                         *)
Leave(o) ==
    /\ stage' = [stage EXCEPT ![o] = "idle"]
    /\ code' = [code EXCEPT ![o] = "none"]
    /\ error' = [error EXCEPT ![o] = "none"]
    /\ stopped' = stopped \ {o}

(* What the library does with an operation by itself.                      *)
TimedStep(o) ==
    \/ Initiate(o) \/ SystemDone(o) \/ ExpireTimer(o) \/ EnterTimeout(o)
    \/ CloseOnTimeout(o) \/ Complete(o) \/ Decide(o)

-----------------------------------------------------------------------------
(* A user of one object, for its operations one after another.             *)

(* The object is opened again if it was closed, and an operation begun,    *)
(* when none runs.                                                         *)
BeginNext(o) ==
    /\ Running = {} /\ Unused(o)
    /\ open' = TRUE
    /\ timer' = TimerBegun({o})
    /\ stage' = StageBegun({o})
    /\ UNCHANGED <<code, error, stopped>>

(* The handler is called and returns.                                      *)
CallAndLeave(o) ==
    /\ stage[o] = "decided"
    /\ Leave(o)
    /\ UNCHANGED <<open, timer>>

(* The user closes the object, from any thread, which is how an operation  *)
(* is canceled.                                                            *)
CloseByUser ==
    /\ CloseObject
    /\ stopped' = stopped \cup Undecided
    /\ UNCHANGED <<timer, error>>

TimedNext ==
    \/ \E o \in Op : BeginNext(o) \/ TimedStep(o) \/ CallAndLeave(o)
    \/ CloseByUser

TimedSafety == TimedInit /\ [][TimedNext]_timedVars

(* Time passes, the calls that are made return, and the workers run what   *)
(* is queued; the system may never complete an operation.                  *)
TimedProgress(o) ==
    Initiate(o) \/ CloseOnTimeout(o) \/ Decide(o) \/ CallAndLeave(o)

TimedSpec ==
    /\ TimedSafety
    /\ \A o \in Op :
        /\ WF_timedVars(ExpireTimer(o))
        /\ WF_timedVars(TimedProgress(o))
        /\ SF_timedVars(EnterTimeout(o))
        /\ SF_timedVars(Complete(o))

-----------------------------------------------------------------------------

(* The types of the state.                                                 *)
TimedTypeOK ==
    /\ open \in BOOLEAN
    /\ timer \in [Op -> TimerStage]
    /\ stage \in [Op -> Stage]
    /\ code \in [Op -> Code]
    /\ error \in [Op -> Result]
    /\ stopped \subseteq Op

(* An operation is aborted, or interrupted by a closed object, only if its *)
(* own timeout passed or its user closed the object while it ran: never    *)
(* by the timeout of the operation before it.                              *)
InterruptedOnlyIfStopped ==
    \A o \in Op : code[o] = "closed" \/ error[o] = "aborted" => o \in stopped

(* timedAsyncOperation calls an operation that was stopped aborted, never  *)
(* successful or failed on its own account, although it may have completed *)
(* before.  (What the user is told is up to the caller: asyncSendTo makes  *)
(* an interrupted transfer a failed one.)                                  *)
StoppedIsReported ==
    [][\A o \in stopped : stage[o] = "handling" /\ stage'[o] = "decided"
                            => error'[o] = "aborted"]_timedVars

(* The close lambda and the completion handler of one operation are both   *)
(* wrapped in one WorkSerializer: the close lambda does not run while the  *)
(* completion handler does.                                                *)
HandlersInSequence ==
    [][\A o \in Op : timer[o] = "passed" /\ timer'[o] = "off"
                        => o \notin InCompletion]_timedVars

(* Every operation ends within its timeout: its handler is called even if  *)
(* the system never completes it.                                          *)
EveryOperationEnds == \A o \in Op : stage[o] # "idle" ~> stage[o] = "idle"
=============================================================================
