------------------------ MODULE AsyncOperationManager ------------------------
(***************************************************************************)
(* include/asionet/AsyncOperationManager.h: the helper through which Timer,*)
(* DatagramReceiver and ServiceServer (PendingOperationReplacer) and       *)
(* DatagramSender, ServiceClient and Resolver (PendingOperationQueue) run  *)
(* their asynchronous operations one after another.                        *)
(*                                                                         *)
(* Every public method holds the recursive mutex from its first to its     *)
(* last statement, so a method is one action; the threads that call them   *)
(* are the interleaving.  An operation that is executing is represented by *)
(* the FinishedOperationNotifier of its AsyncState.  notify() clears       *)
(* `enabled` before it takes the mutex, but only the destructor of the     *)
(* same notifier reads that flag, so the two are one action too.           *)
(*                                                                         *)
(* The contract of an asynchronous operation assumed here is that it makes *)
(* its notifier; a component whose operation may throw before that says so *)
(* in its own module.                                                      *)
(***************************************************************************)
EXTENDS Operations, Naturals, Sequences, Functions

CONSTANT
    Replacer    \* pendingOperations.shouldCancel(): replacer or queue

ASSUME ContainerAssumption == Replacer \in BOOLEAN

VARIABLES
    running,    \* AsyncOperationManager::running
    canceled,   \* AsyncOperationManager::canceled
    pending,    \* AsyncOperationManager::pendingOperations
    notifier,   \* the notifier of each operation: none, enabled, disabled
    asked,      \* history: live operations the cancelingOperation was run on
    struck,     \* history: live operations a cancelOperation was aimed at
    doomed      \* history: operations that the last cancelOperation may hit
                \* if it found none live: the one launched next, whichever

managerVars == <<running, canceled, pending, notifier, asked, struck, doomed>>

NotifierState == {"none", "enabled", "disabled"}

(* The operations that will still call finishOperation.                    *)
Live == {o \in Op : notifier[o] = "enabled"}

(* An identity is free once its AsyncState is gone and it is not stored.   *)
Fresh(o) == notifier[o] = "none" /\ o \notin Range(pending)

ManagerInit ==
    /\ running = FALSE
    /\ canceled = FALSE
    /\ pending = <<>>
    /\ notifier = [o \in Op |-> "none"]
    /\ asked = {}
    /\ struck = {}
    /\ doomed = {}

-----------------------------------------------------------------------------

(* Defect: push in front of the operations stored before.                  *)
PushedInFront(o) == <<o>> \o pending

(* PendingOperationQueue::push appends, PendingOperationReplacer::push     *)
(* overwrites the one operation stored.                                    *)
Pushed(o) == IF Replacer THEN <<o>> ELSE Append(pending, o)

(* startOperation: run at once when nothing runs; otherwise ask the        *)
(* running operation to stop if the container replaces, and store.         *)
StartOperation(o) ==
    /\ Fresh(o)
    /\ \/ /\ ~running
          /\ running' = TRUE
          /\ notifier' = [notifier EXCEPT ![o] = "enabled"]
          /\ doomed' = doomed \cap {o}
          /\ UNCHANGED <<pending, asked>>
       \/ /\ running
          /\ pending' = Pushed(o)
          /\ asked' = IF Replacer THEN asked \cup Live ELSE asked
          /\ UNCHANGED <<running, notifier, doomed>>
    /\ UNCHANGED <<canceled, struck>>

(* Defect: the end of an operation does not start the next.                *)
FinishWithoutNext(o, n) ==
    /\ canceled' = FALSE
    /\ asked' = asked \ {o}
    /\ struck' = struck \ {o}
    /\ doomed' = {}
    /\ running' = FALSE
    /\ notifier' = [notifier EXCEPT ![o] = n]
    /\ UNCHANGED pending

(* Defect: the cancellation outlives the operation it ended.               *)
FinishWithoutReset(o, n) ==
    /\ canceled' = canceled
    /\ asked' = asked \ {o}
    /\ struck' = struck \ {o}
    /\ doomed' = {}
    /\ running' = (pending # <<>>)
    /\ pending' = IF pending = <<>> THEN <<>> ELSE Tail(pending)
    /\ notifier' = [p \in Op |-> IF p = o THEN n
                                 ELSE IF pending # <<>> /\ p = Head(pending)
                                 THEN "enabled" ELSE notifier[p]]

(* finishOperation, called by the notifier of o which becomes n: the       *)
(* cancellation ends with the operation, and the next stored operation     *)
(* runs under the same lock.                                               *)
FinishOperation(o, n) ==
    /\ canceled' = FALSE
    /\ asked' = asked \ {o}
    /\ struck' = struck \ {o}
    /\ doomed' = {}
    /\ \/ /\ pending = <<>>
          /\ running' = FALSE
          /\ notifier' = [notifier EXCEPT ![o] = n]
          /\ UNCHANGED pending
       \/ /\ pending # <<>>
          /\ pending' = Tail(pending)
          /\ notifier' = [notifier EXCEPT ![o] = n, ![Head(pending)] = "enabled"]
          /\ UNCHANGED running

(* FinishedOperationNotifier::notify                                       *)
Notify(o) ==
    /\ notifier[o] = "enabled"
    /\ FinishOperation(o, "disabled")

(* Defect: the destructor finishes the operation a second time.            *)
DestroyNotified(o) ==
    /\ notifier[o] \in {"enabled", "disabled"}
    /\ FinishOperation(o, "none")

(* ~FinishedOperationNotifier, when the last handler that shares the       *)
(* AsyncState is destroyed: it finishes the operation unless notified.     *)
DestroyState(o) ==
    \/ /\ notifier[o] = "enabled"
       /\ FinishOperation(o, "none")
    \/ /\ notifier[o] = "disabled"
       /\ notifier' = [notifier EXCEPT ![o] = "none"]
       /\ UNCHANGED <<running, canceled, pending, asked, struck, doomed>>

(* Defect: the manager is idle as soon as cancelOperation returns.         *)
CancelAndIdle ==
    /\ canceled' = TRUE
    /\ asked' = asked \cup Live
    /\ struck' = struck \cup Live
    /\ doomed' = IF Live = {} THEN Op ELSE {}
    /\ pending' = <<>>
    /\ running' = FALSE
    /\ UNCHANGED notifier

(* cancelOperation: mark, cancel what runs, forget what is stored.  With   *)
(* nothing running the mark stays for the operation that is launched next, *)
(* until its end takes the mark back.                                      *)
CancelOperation ==
    /\ canceled' = TRUE
    /\ asked' = asked \cup Live
    /\ struck' = struck \cup Live
    /\ doomed' = IF Live = {} THEN Op ELSE {}
    /\ pending' = <<>>
    /\ UNCHANGED <<running, notifier>>

ManagerNext ==
    \/ \E o \in Op : StartOperation(o) \/ Notify(o) \/ DestroyState(o)
    \/ CancelOperation

ManagerSafety == ManagerInit /\ [][ManagerNext]_managerVars

-----------------------------------------------------------------------------

(* The types of the members of the manager and of its notifiers; the       *)
(* replacer stores one operation at most.                                  *)
ManagerTypeOK ==
    /\ running \in BOOLEAN
    /\ canceled \in BOOLEAN
    /\ pending \in Seq(Op)
    /\ Replacer => Len(pending) <= 1
    /\ notifier \in [Op -> NotifierState]
    /\ asked \subseteq Op
    /\ struck \subseteq Op
    /\ doomed \subseteq Op

(* "Sequential calls of asynchronous operations": two operations of one    *)
(* manager never execute at the same time, whichever threads start, end    *)
(* and cancel them.                                                        *)
OneAtATime == \A o, p \in Live : o = p

(* `running` is set while, and only while, some operation will still call  *)
(* finishOperation.  Were it set without one, every later startOperation   *)
(* would store its operation for ever; were it clear with one, the next    *)
(* startOperation would execute beside it.                                 *)
RunningMeansLive == running <=> Live # {}

(* Nothing is stored while the manager is idle.                            *)
NoStrandedOperation == pending # <<>> => running

(* A stored operation is neither executing nor stored twice, so a call of  *)
(* startOperation executes at most once.                                   *)
ExecutedOnce ==
    /\ \A i \in DOMAIN pending : notifier[pending[i]] = "none"
    /\ \A i, j \in DOMAIN pending : pending[i] = pending[j] => i = j

(* With the replacer, whenever an operation waits to replace another, the  *)
(* cancelingOperation was run on that other one.                           *)
ReplacementIsAnnounced == Replacer /\ pending # <<>> => Live \subseteq asked

(* isCanceled stays true until the operation at which cancelOperation was  *)
(* aimed has ended: the end of no other operation takes it back.           *)
CancelSticks == \A o \in struck : o \in Live /\ canceled

(* While isCanceled is true, the operation that executes was hit by a      *)
(* cancelOperation, or is the first since one that found nothing executing.*)
CancelHasCause ==
    canceled => IF Live = {} THEN doomed = Op ELSE Live \subseteq struck \cup doomed

(* The inductive invariant: each part needs the others to be preserved.    *)
ManagerInv ==
    /\ ManagerTypeOK
    /\ OneAtATime
    /\ RunningMeansLive
    /\ NoStrandedOperation
    /\ ExecutedOnce
    /\ ReplacementIsAnnounced
    /\ CancelSticks
    /\ CancelHasCause

(* The manager implements the abstract sequential execution.               *)
Abstract == INSTANCE SequentialOperations
                WITH current <- Live, waiting <- pending

SequentialSafety == Abstract!AbsSafety
Sequential == Abstract!AbsSpec

(* "operation i+1 will be executed directly after operation i has          *)
(* finished": a stored operation does not stay stored for ever.            *)
StoredOperationLeaves ==
    \A o \in Op : o \in Range(pending) ~> o \notin Range(pending)
=============================================================================
