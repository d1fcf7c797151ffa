------------------------ MODULE SequentialOperations ------------------------
(***************************************************************************)
(* What AsyncOperationManager promises to its users: one asynchronous      *)
(* operation is executing at a time, the others wait, and the end of one   *)
(* is the start of the next, so nothing waits while nothing executes.      *)
(* Nothing is said of locks, flags or notifiers.                           *)
(***************************************************************************)
EXTENDS Sequences

CONSTANTS
    Op,         \* identities of the operations
    Replacer    \* TRUE: a waiting operation is replaced by a newer one

VARIABLES
    current,    \* the operations executing: none or one
    waiting     \* the operations accepted and not yet executing, in order

absVars == <<current, waiting>>

AbsInit == current = {} /\ waiting = <<>>

(* The operation is executed at once when nothing executes; otherwise it   *)
(* waits behind the others, or instead of the other.                       *)
Submit(o) ==
    \/ current = {} /\ current' = {o} /\ UNCHANGED waiting
    \/ /\ current # {} /\ o \notin current
       /\ waiting' = IF Replacer THEN <<o>> ELSE Append(waiting, o)
       /\ UNCHANGED current

(* The executing operation ends and the longest waiting one takes over.    *)
Finish ==
    /\ current # {}
    /\ \/ waiting = <<>> /\ current' = {} /\ UNCHANGED waiting
       \/ /\ waiting # <<>>
          /\ current' = {Head(waiting)}
          /\ waiting' = Tail(waiting)

(* Cancellation forgets every operation that has not begun.                *)
Discard == waiting' = <<>> /\ UNCHANGED current

AbsNext == (\E o \in Op : Submit(o)) \/ Finish \/ Discard

AbsSafety == AbsInit /\ [][AbsNext]_absVars

AbsSpec == AbsSafety /\ WF_absVars(Finish)
=============================================================================
