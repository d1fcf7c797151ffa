-------------------------- MODULE DatagramReceiver --------------------------
(***************************************************************************)
(* include/asionet/DatagramReceiver.h, with asyncReceiveDatagram of        *)
(* Message.h and asyncReceiveFrom of Socket.h: a receive is a timed        *)
(* operation on the one UDP socket; a new receive replaces the one that    *)
(* runs, which is interrupted by closing the socket, and cancel() closes   *)
(* it too.                                                                 *)
(*                                                                         *)
(* As in DatagramSender a launch holds the manager's mutex up to the       *)
(* initiation.  The launch opens and binds the socket when it is closed;   *)
(* bind() throws when the port is taken.                                   *)
(***************************************************************************)
EXTENDS ManagedOperation

CONSTANTS
    BindMayFail,    \* whether another process may hold the port
    StrictDecoder   \* whether the user's Decoder throws on an empty buffer

ASSUME ReceiverAssumption ==
    /\ Replacer
    /\ {BindMayFail, StrictDecoder} \subseteq BOOLEAN

receiverVars == <<managerVars, timedVars>>

(* Two more stages of the completion handler, after isCanceled() was read, *)
(* and two more errors, of the frame and of the decoder.                   *)
ReceiverStage == Stage \cup {"checked", "leaving"}
ReceiverResult == Result \cup {"invalidFrame", "decoding"}

(* The constructor leaves the socket closed.                               *)
ReceiverInit ==
    /\ ManagerInit
    /\ TimedInit

-----------------------------------------------------------------------------

(* The launched receive, if any, sets the socket up and starts its timeout.*)
Launch ==
    /\ open' = (open \/ Launched # {})
    /\ timer' = TimerBegun(Launched)

(* Defect: a receive that is replaced is not interrupted.                  *)
ReceiveBehind(o) ==
    /\ MutexFree /\ Unused(o)
    /\ StartOperation(o)
    /\ Launch /\ stage' = StageBegun(Launched)
    /\ UNCHANGED <<code, error, stopped>>

(* asyncReceive: launch, or interrupt what runs and wait to replace it.    *)
AsyncReceive(o) ==
    /\ MutexFree /\ Unused(o)
    /\ StartOperation(o)
    /\ \/ /\ ~running
          /\ Launch /\ stage' = StageBegun(Launched)
          /\ UNCHANGED <<code, stopped>>
       \/ /\ running
          /\ CloseObject
          /\ stopped' = stopped \cup Undecided
          /\ UNCHANGED timer
    /\ UNCHANGED error

(* asyncReceive on an idle receiver whose port is taken: `running` is set, *)
(* open() succeeds, bind() throws before there is a notifier, and the      *)
(* exception reaches the caller.                                           *)
AsyncReceiveThrows(o) ==
    /\ BindMayFail
    /\ MutexFree /\ Unused(o) /\ Fresh(o)
    /\ ~running /\ ~open
    /\ running' = TRUE
    /\ open' = TRUE
    /\ UNCHANGED <<canceled, pending, notifier, asked, struck, doomed>>
    /\ UNCHANGED <<timer, stage, code, error, stopped>>

(* asyncReceiveFrom: a frame that announces more bytes than were received, *)
(* or shorter than its header, is invalid; an error before it stays.       *)
FramedErrors(o) ==
    IF TimedError(o) = "success" THEN {"success", "invalidFrame"}
    ELSE {TimedError(o)}

(* The completion handler makes up its error and looks at the frame.       *)
DecideFrame(o) ==
    /\ stage[o] = "handling"
    /\ stage' = [stage EXCEPT ![o] = "decided"]
    /\ \E e \in FramedErrors(o) : error' = [error EXCEPT ![o] = e]
    /\ UNCHANGED <<open, timer, code, stopped>>

ReceiverTimedStep(o) ==
    /\ \/ Initiate(o) \/ SystemDone(o) \/ ExpireTimer(o) \/ EnterTimeout(o)
       \/ CloseOnTimeout(o) \/ Complete(o) \/ DecideFrame(o)
    /\ UNCHANGED managerVars

(* Defect: the handler of a receive is skipped on any error.               *)
CheckError(o) ==
    /\ stage[o] = "decided"
    /\ stage' = [stage EXCEPT ![o] =
                    IF canceled \/ error[o] # "success" THEN "leaving" ELSE "checked"]
    /\ UNCHANGED <<managerVars, open, timer, code, error, stopped>>

(* Defect: the flag of the manager is not asked.                           *)
CheckNothing(o) ==
    /\ stage[o] = "decided"
    /\ stage' = [stage EXCEPT ![o] = "checked"]
    /\ UNCHANGED <<managerVars, open, timer, code, error, stopped>>

(* `if (operationManager.isCanceled()) return`                             *)
CheckCanceled(o) ==
    /\ stage[o] = "decided"
    /\ stage' = [stage EXCEPT ![o] = IF canceled THEN "leaving" ELSE "checked"]
    /\ UNCHANGED <<managerVars, open, timer, code, error, stopped>>

(* asyncReceiveDatagram decodes what was received, an empty buffer after   *)
(* an error: the error stays if the decoder accepts the empty buffer.      *)
Reported(o) ==
    IF error[o] = "success" THEN {"success", "decoding"}
    ELSE IF StrictDecoder THEN {"decoding"} ELSE {error[o]}

(* The handler notifies the manager, which launches the receive that waits,*)
(* and calls the user.  (Were the port taken now, bind() would throw out   *)
(* of the worker thread and end the process.)                              *)
NotifyAndCall(o) ==
    /\ stage[o] = "checked" /\ MutexFree
    /\ Notify(o)
    /\ Launch
    /\ stage' = [StageBegun(Launched) EXCEPT ![o] = "calling"]
    /\ \E e \in Reported(o) : error' = [error EXCEPT ![o] = e]
    /\ UNCHANGED <<code, stopped>>

(* The completion handler returns and its state is destroyed, which ends   *)
(* the receive unless it was notified.                                     *)
Return(o) ==
    /\ stage[o] \in {"calling", "leaving"} /\ MutexFree
    /\ DestroyState(o)
    /\ Launch
    /\ stage' = [StageBegun(Launched) EXCEPT ![o] = "idle"]
    /\ code' = [code EXCEPT ![o] = "none"]
    /\ error' = [error EXCEPT ![o] = "none"]
    /\ stopped' = stopped \ {o}

(* cancel, whether a receive runs or not.                                  *)
Cancel ==
    /\ MutexFree
    /\ CancelOperation
    /\ CloseObject
    /\ stopped' = stopped \cup Undecided
    /\ UNCHANGED <<timer, error>>

ReceiverNext ==
    \/ \E o \in Op :
        \/ AsyncReceive(o) \/ AsyncReceiveThrows(o) \/ ReceiverTimedStep(o)
        \/ CheckCanceled(o) \/ NotifyAndCall(o) \/ Return(o)
    \/ Cancel

ReceiverSafety == ReceiverInit /\ [][ReceiverNext]_receiverVars

(* What a worker or a calling thread has begun goes on; what is queued is  *)
(* run in turn; no datagram need ever arrive.  Return is strongly fair as  *)
(* in DatagramSender.                                                      *)
ReceiverProgress(o) ==
    \/ (Initiate(o) \/ CloseOnTimeout(o) \/ DecideFrame(o)) /\ UNCHANGED managerVars
    \/ CheckCanceled(o) \/ NotifyAndCall(o)

ReceiverSpec ==
    /\ ReceiverSafety
    /\ \A o \in Op :
        /\ WF_receiverVars(ExpireTimer(o) /\ UNCHANGED managerVars)
        /\ WF_receiverVars(ReceiverProgress(o))
        /\ SF_receiverVars(Return(o))
        /\ SF_receiverVars(EnterTimeout(o) /\ UNCHANGED managerVars)
        /\ SF_receiverVars(Complete(o) /\ UNCHANGED managerVars)

-----------------------------------------------------------------------------

(* The types of the state.                                                 *)
ReceiverTypeOK ==
    /\ ManagerTypeOK
    /\ open \in BOOLEAN
    /\ timer \in [Op -> TimerStage]
    /\ stage \in [Op -> ReceiverStage]
    /\ code \in [Op -> Code]
    /\ error \in [Op -> ReceiverResult]
    /\ stopped \subseteq Op

(* A receive that has been replaced does not wait for a datagram.          *)
ReplacedNotOutstanding ==
    pending # <<>> => \A o \in Op : stage[o] # "outstanding"

(* cancel() is effective: the user's handler of a receive that ran when    *)
(* cancel() was called, and had not gone past its check, is not called,    *)
(* whatever receives are started in the meantime.                          *)
InUser == {"checked", "calling"}

CanceledIsSilent ==
    [][\A o \in struck : stage'[o] \in InUser => stage[o] \in InUser]_receiverVars

(* A receive calls its handler, with a message or with an error, unless it *)
(* was canceled while it ran or is the first to be launched after a        *)
(* cancel() that found none running: a canceled receiver that is idle loses*)
(* one receive, never a second.                                            *)
SilentOnlyIfCanceled ==
    [][\A o \in Op : stage[o] # "leaving" /\ stage'[o] = "leaving"
                        => o \in struck \cup doomed]_receiverVars

(* A receive that waits to replace another one is started, although no     *)
(* datagram ever arrives.  (If bind() has thrown there is no other one and *)
(* it is not.)                                                             *)
ReplacementStarts ==
    \A o \in Op : o \in Range(pending) /\ Live # {} ~> o \notin Range(pending)
=============================================================================
