------------------------------- MODULE Waiter -------------------------------
(***************************************************************************)
(* include/asionet/Wait.h and src/Wait.cpp: threads wait for expressions   *)
(* over waitables.  A thread outside the context sleeps on a condition     *)
(* variable; a thread that runs the context runs further handlers instead, *)
(* nested in the one that waits.                                           *)
(*                                                                         *)
(* A waitable stands for the handler it wraps as well: the handler may     *)
(* wait for an expression first, then it ends and makes the waitable ready.*)
(* Waiter::mutex is held only within steps.  The workers of the context    *)
(* (Worker.h) hold a work guard, so run() and run_one() block on an empty  *)
(* queue until the context is stopped.                                     *)
(***************************************************************************)
EXTENDS Naturals, Sequences, Functions

CONSTANTS
    Worker,     \* threads in context.run()
    External,   \* threads outside the context that wait or set waitables
    Waitable,   \* the waitables, each with the handler it wraps
    Needs,      \* what a handler or an external thread waits for
    Settable    \* waitables made ready by setReady() and not by a handler

(* An expression is a disjunction of conjunctions of waitables; {{}} is    *)
(* true at once, of a handler that does not wait.                          *)
ASSUME WaiterAssumption ==
    /\ Needs \in [Waitable \cup External -> SUBSET SUBSET Waitable]
    /\ Settable \subseteq Waitable

VARIABLES
    ready,      \* the waitables that are ready
    queue,      \* handlers posted to the context, in order
    stack,      \* handlers each worker is in, the innermost first
    pc,         \* where the innermost handler of a worker is
    ext,        \* what each external thread does
    stopped     \* context.stopped()

waiterVars == <<ready, queue, stack, pc, ext, stopped>>

HandlerPC == {"idle",       \* no handler
              "test",       \* about to evaluate its expression
              "run_one",    \* in context.run_one(), of await
              "finish",     \* await has returned
              "notify"}     \* in setReady, mutex released

ExternalPC == {"idle", "test", "asleep", "notify"}

WaiterInit ==
    /\ ready = {}
    /\ queue = <<>>
    /\ stack = [t \in Worker |-> <<>>]
    /\ pc = [t \in Worker |-> "idle"]
    /\ ext = [e \in External |-> "idle"]
    /\ stopped = FALSE

-----------------------------------------------------------------------------

(* The value of the expression of x.                                       *)
Holds(x) == \E clause \in Needs[x] : clause \subseteq ready

InHandler(w) == \E t \in Worker : w \in Range(stack[t])

(* The handlers in await, and the waitables that someone waits for.        *)
Awaiting(w) ==
    \E t \in Worker : \E i \in DOMAIN stack[t] :
        stack[t][i] = w /\ (i = 1 => pc[t] \in {"test", "run_one"})

Awaited ==
    UNION {UNION Needs[x] : x \in {w \in Waitable : InHandler(w)}
                                  \cup {e \in External : ext[e] # "idle"}}

(* The handler wrapped by w is posted: by a user, or by a system event.    *)
Post(w) ==
    /\ w \notin ready \cup Settable /\ w \notin Range(queue) /\ ~InHandler(w)
    /\ queue' = Append(queue, w)
    /\ UNCHANGED <<ready, stack, pc, ext, stopped>>

(* A worker runs the next handler: from run(), or from run_one() in await, *)
(* when the waiting handler will test its expression afterwards.           *)
RunHandler(t) ==
    /\ ~stopped /\ queue # <<>>
    /\ pc[t] \in {"idle", "run_one"}
    /\ queue' = Tail(queue)
    /\ stack' = [stack EXCEPT ![t] = <<Head(queue)>> \o @]
    /\ pc' = [pc EXCEPT ![t] = "test"]
    /\ UNCHANGED <<ready, ext, stopped>>

(* await in a thread of the context: the expression is evaluated under the *)
(* mutex.                                                                  *)
TestInContext(t) ==
    /\ pc[t] = "test"
    /\ pc' = [pc EXCEPT ![t] = IF Holds(Head(stack[t])) THEN "finish" ELSE "run_one"]
    /\ UNCHANGED <<ready, queue, stack, ext, stopped>>

(* Defect: a stopped context is noticed only by run().                     *)
NoBreak(t) == FALSE /\ UNCHANGED waiterVars

(* `if (context.stopped()) break`, or run_one() returning because of it.   *)
BreakOnStop(t) ==
    /\ pc[t] = "run_one" /\ stopped
    /\ pc' = [pc EXCEPT ![t] = "finish"]
    /\ UNCHANGED <<ready, queue, stack, ext, stopped>>

(* The handler ends; setReady sets the flag under the mutex.               *)
SetReady(t) ==
    /\ pc[t] = "finish"
    /\ ready' = ready \cup {Head(stack[t])}
    /\ pc' = [pc EXCEPT ![t] = "notify"]
    /\ UNCHANGED <<queue, stack, ext, stopped>>

(* Defect: cond.notify_one() instead of notify_all().                      *)
WokenOne ==
    [e \in External |->
        IF ext[e] = "asleep" /\ e = CHOOSE f \in External : ext[f] = "asleep"
        THEN "test" ELSE ext[e]]

(* cond.notify_all()                                                       *)
Woken == [e \in External |-> IF ext[e] = "asleep" THEN "test" ELSE ext[e]]

(* Defect: await runs a handler more without testing its expression.       *)
NotifyAllAndRunOn(t) ==
    /\ pc[t] = "notify"
    /\ ext' = Woken
    /\ stack' = [stack EXCEPT ![t] = Tail(@)]
    /\ pc' = [pc EXCEPT ![t] = IF Len(stack[t]) = 1 THEN "idle" ELSE "run_one"]
    /\ UNCHANGED <<ready, queue, stopped>>

(* setReady notifies and the wrapped handler returns: to run(), or to the  *)
(* await that ran it.                                                      *)
NotifyAll(t) ==
    /\ pc[t] = "notify"
    /\ ext' = Woken
    /\ stack' = [stack EXCEPT ![t] = Tail(@)]
    /\ pc' = [pc EXCEPT ![t] = IF Len(stack[t]) = 1 THEN "idle" ELSE "test"]
    /\ UNCHANGED <<ready, queue, stopped>>

(* setReady() called directly, by a thread outside the context.            *)
ExternalSetReady(e) ==
    /\ ext[e] = "idle"
    /\ \E w \in Settable \ ready : ready' = ready \cup {w}
    /\ ext' = [ext EXCEPT ![e] = "notify"]
    /\ UNCHANGED <<queue, stack, pc, stopped>>

ExternalNotifyAll(e) ==
    /\ ext[e] = "notify"
    /\ ext' = [Woken EXCEPT ![e] = "idle"]
    /\ UNCHANGED <<ready, queue, stack, pc, stopped>>

(* await outside the context.                                              *)
ExternalAwait(e) ==
    /\ ext[e] = "idle"
    /\ ext' = [ext EXCEPT ![e] = "test"]
    /\ UNCHANGED <<ready, queue, stack, pc, stopped>>

(* Its loop, under the mutex: return, or go to sleep and release it.       *)
ExternalTest(e) ==
    /\ ext[e] = "test"
    /\ ext' = [ext EXCEPT ![e] = IF Holds(e) \/ stopped THEN "idle" ELSE "asleep"]
    /\ UNCHANGED <<ready, queue, stack, pc, stopped>>

(* A condition variable may wake up without being notified.                *)
SpuriousWakeup(e) ==
    /\ ext[e] = "asleep"
    /\ ext' = [ext EXCEPT ![e] = "test"]
    /\ UNCHANGED <<ready, queue, stack, pc, stopped>>

(* setWaiting(), to use a waitable again when nobody waits for it.         *)
SetWaiting(w) ==
    /\ w \in ready \ Awaited /\ ~InHandler(w)
    /\ ready' = ready \ {w}
    /\ UNCHANGED <<queue, stack, pc, ext, stopped>>

(* context.stop(): wakes the threads in run() and run_one(), no others.    *)
StopContext ==
    /\ ~stopped
    /\ stopped' = TRUE
    /\ UNCHANGED <<ready, queue, stack, pc, ext>>

WorkerStep(t) ==
    \/ RunHandler(t) \/ TestInContext(t) \/ BreakOnStop(t)
    \/ SetReady(t) \/ NotifyAll(t)

ExternalStep(e) == ExternalNotifyAll(e) \/ ExternalTest(e)

WaiterNext ==
    \/ \E w \in Waitable : Post(w) \/ SetWaiting(w)
    \/ \E t \in Worker : WorkerStep(t)
    \/ \E e \in External :
        ExternalStep(e) \/ ExternalSetReady(e) \/ ExternalAwait(e) \/ SpuriousWakeup(e)
    \/ StopContext

WaiterSafety == WaiterInit /\ [][WaiterNext]_waiterVars

(* Threads go on, and the handlers that are waited for get posted.         *)
WaiterSpec ==
    /\ WaiterSafety
    /\ \A t \in Worker : WF_waiterVars(WorkerStep(t))
    /\ \A e \in External : WF_waiterVars(ExternalStep(e))
    /\ \A w \in Waitable : WF_waiterVars(Post(w))

-----------------------------------------------------------------------------

(* The types of the state; a worker is in no handler exactly when it is in *)
(* run().                                                                  *)
WaiterTypeOK ==
    /\ ready \subseteq Waitable
    /\ queue \in Seq(Waitable)
    /\ stack \in [Worker -> Seq(Waitable)]
    /\ pc \in [Worker -> HandlerPC]
    /\ \A t \in Worker : pc[t] = "idle" <=> stack[t] = <<>>
    /\ ext \in [External -> ExternalPC]
    /\ stopped \in BOOLEAN

(* No wake-up is lost: when the expression of a sleeping thread holds, some*)
(* thread that has set a waitable is still to notify.                      *)
NoLostWakeup ==
    \A e \in External :
        ext[e] = "asleep" /\ Holds(e) =>
            \/ \E t \in Worker : pc[t] = "notify"
            \/ \E f \in External : ext[f] = "notify"

(* A thread outside the context whose expression holds returns from await. *)
SleeperReturns ==
    \A e \in External : ext[e] # "idle" /\ Holds(e) ~> ext[e] = "idle"

(* "We want to wait until the condition becomes true": a handler whose     *)
(* expression holds returns from await.                                    *)
AwaitReturns ==
    \A w \in Waitable : Awaiting(w) /\ Holds(w) ~> ~Awaiting(w)

(* Once the context is stopped every handler returns, however deep.        *)
StopUnwinds == stopped ~> \A t \in Worker : stack[t] = <<>>
=============================================================================
