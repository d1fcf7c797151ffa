-------------------------- MODULE ManagedOperation --------------------------
(***************************************************************************)
(* Timed operations on one object that an AsyncOperationManager runs one   *)
(* after another: what DatagramSender, DatagramReceiver and Resolver have  *)
(* in common.                                                              *)
(*                                                                         *)
(* An operation that is launched runs up to its initiation under the       *)
(* manager's mutex.  Other threads wait for the mutex, but a timeout does  *)
(* not take it: launching and initiating are two steps, and `MutexFree`    *)
(* guards the steps of the other methods.                                  *)
(***************************************************************************)
EXTENDS AsyncOperationManager, TimedOperation

(* No thread is inside a method of the manager.                            *)
MutexFree == \A o \in Op : stage[o] # "starting"

(* What the manager has launched in this step.                             *)
Launched == Live' \ Live

-----------------------------------------------------------------------------

(* The manager keeps the operations apart: one at a time uses the object,  *)
(* and it is the one whose notifier keeps the manager running.             *)
SocketHasOneUser ==
    /\ OneAtATime
    /\ \A o \in Op : stage[o] \notin {"idle", "calling"} <=> o \in Live

(* No user is told of success by an operation that its timeout or a cancel *)
(* stopped before its handler had made up its error, although the system   *)
(* may have completed it: whatever the callers make of the error of        *)
(* timedAsyncOperation, they make no success of it.                        *)
StoppedIsNoSuccess == \A o \in stopped : stage[o] = "calling" => error[o] # "success"

(* cancel() reaches the operation that runs: it waits for the system no    *)
(* longer.                                                                 *)
CanceledNotOutstanding == \A o \in struck : stage[o] # "outstanding"
=============================================================================
