--------------------------- MODULE DatagramSender ---------------------------
(***************************************************************************)
(* include/asionet/DatagramSender.h, with asyncSendTo of Socket.h: sends   *)
(* are queued by an AsyncOperationManager and each is a timed operation on *)
(* the one UDP socket, which a timeout or a cancel closes and the next     *)
(* send opens again.                                                       *)
(*                                                                         *)
(* A launch opens the socket if it was closed, which is taken to succeed,  *)
(* and starts the timeout; the initiation is a step of its own.            *)
(***************************************************************************)
EXTENDS ManagedOperation

ASSUME SenderAssumption == ~Replacer

VARIABLE
    posted      \* sends that could not be encoded, their handler posted

senderVars == <<managerVars, timedVars, posted>>

SenderInit ==
    /\ ManagerInit
    /\ TimedInit
    /\ posted = {}

-----------------------------------------------------------------------------

(* setupSocket, by the operation that is launched.                         *)
SetupSocket == open \/ Launched # {}

(* asyncSend of a message that can be encoded.                             *)
AsyncSend(o) ==
    /\ MutexFree /\ Unused(o) /\ o \notin posted
    /\ StartOperation(o)
    /\ open' = SetupSocket
    /\ timer' = TimerBegun(Launched)
    /\ stage' = StageBegun(Launched)
    /\ UNCHANGED <<code, error, stopped, posted>>

(* asyncSend of a message that cannot be encoded: only its handler is      *)
(* posted, past the queue.                                                 *)
AsyncSendUnencodable(o) ==
    /\ Fresh(o) /\ Unused(o) /\ o \notin posted
    /\ posted' = posted \cup {o}
    /\ UNCHANGED <<managerVars, timedVars>>

(* The posted handler runs, with error::encoding.                          *)
RunPosted(o) ==
    /\ o \in posted /\ WorkerFree
    /\ posted' = posted \ {o}
    /\ UNCHANGED <<managerVars, timedVars>>

(* The steps of the timed operation, outside the manager.                  *)
SenderTimedStep(o) == TimedStep(o) /\ UNCHANGED <<managerVars, posted>>

(* asyncSendTo: a short transfer is a failed operation, whatever the error *)
(* of the timed operation; a closed socket transfers nothing.              *)
Reported(o) == IF code[o] = "ok" THEN error[o] ELSE "failedOperation"

(* Defect: the next send is launched before this one has ended.            *)
NotifyEarly(o) ==
    /\ stage[o] = "completed" /\ MutexFree
    /\ Notify(o)
    /\ open' = SetupSocket
    /\ timer' = TimerBegun(Launched)
    /\ stage' = StageBegun(Launched)
    /\ UNCHANGED <<code, error, stopped, posted>>

(* The completion handler notifies the manager, which launches the next    *)
(* send, and calls the user.                                               *)
NotifyAndCall(o) ==
    /\ stage[o] = "decided" /\ MutexFree
    /\ Notify(o)
    /\ open' = SetupSocket
    /\ timer' = TimerBegun(Launched)
    /\ stage' = [StageBegun(Launched) EXCEPT ![o] = "calling"]
    /\ error' = [error EXCEPT ![o] = Reported(o)]
    /\ UNCHANGED <<code, stopped, posted>>

(* The completion handler returns; its thread has initiated what it        *)
(* launched before it called the user.                                     *)
Return(o) ==
    /\ stage[o] = "calling" /\ MutexFree
    /\ DestroyState(o)
    /\ Leave(o)
    /\ UNCHANGED <<open, timer, posted>>

(* Defect: the queue is forgotten and the socket left open.                *)
CancelQueueOnly ==
    /\ MutexFree
    /\ CancelOperation
    /\ stopped' = stopped \cup Undecided
    /\ UNCHANGED <<open, timer, stage, code, error, posted>>

(* cancel: close the socket and forget the sends that wait; their handlers *)
(* are destroyed without being called.                                     *)
Cancel ==
    /\ MutexFree
    /\ CancelOperation
    /\ CloseObject
    /\ stopped' = stopped \cup Undecided
    /\ UNCHANGED <<timer, error, posted>>

SenderNext ==
    \/ \E o \in Op :
        \/ AsyncSend(o) \/ AsyncSendUnencodable(o) \/ RunPosted(o)
        \/ SenderTimedStep(o) \/ NotifyAndCall(o) \/ Return(o)
    \/ Cancel

SenderSafety == SenderInit /\ [][SenderNext]_senderVars

(* What a worker or a calling thread has begun goes on; what is queued is  *)
(* run in turn; the system owes nothing.  Return is strongly fair because  *)
(* its guard names the launches of all threads and its thread waits for    *)
(* none but its own.                                                       *)
SenderProgress(o) ==
    \/ (Initiate(o) \/ CloseOnTimeout(o) \/ Decide(o)) /\ UNCHANGED <<managerVars, posted>>
    \/ NotifyAndCall(o)

SenderSpec ==
    /\ SenderSafety
    /\ \A o \in Op :
        /\ WF_senderVars(ExpireTimer(o) /\ UNCHANGED <<managerVars, posted>>)
        /\ WF_senderVars(SenderProgress(o))
        /\ SF_senderVars(Return(o))
        /\ SF_senderVars(EnterTimeout(o) /\ UNCHANGED <<managerVars, posted>>)
        /\ SF_senderVars(Complete(o) /\ UNCHANGED <<managerVars, posted>>)

-----------------------------------------------------------------------------

(* The types of the state.                                                 *)
SenderTypeOK == ManagerTypeOK /\ TimedTypeOK /\ posted \subseteq Op
=============================================================================
