---------------------------- MODULE WaiterProofs ----------------------------
(***************************************************************************)
(* A thread that waits outside the context misses no notification, for     *)
(* every number of workers, waitables and waiting threads.                 *)
(***************************************************************************)
EXTENDS Waiter, TLAPS

(* What the argument needs of the types.                                   *)
ThreadTypes ==
    /\ pc \in [Worker -> HandlerPC]
    /\ ext \in [External -> ExternalPC]

WakeupInv == ThreadTypes /\ NoLostWakeup

(* Nobody sleeps in the initial state.                                     *)
LEMMA WakeupInvInit == WaiterInit => WakeupInv
BY DEF WaiterInit, WakeupInv, ThreadTypes, NoLostWakeup, HandlerPC, ExternalPC

(* cond.notify_all() leaves nobody asleep.                                 *)
LEMMA WokenFacts ==
    ASSUME ThreadTypes
    PROVE  Woken \in [External -> ExternalPC \ {"asleep"}]
BY DEF ThreadTypes, Woken, ExternalPC

(* Every step preserves the invariant.                                     *)
LEMMA WakeupInvNext == WakeupInv /\ [WaiterNext]_waiterVars => WakeupInv'
<1>. SUFFICES ASSUME WakeupInv, [WaiterNext]_waiterVars PROVE WakeupInv'
  OBVIOUS
<1>. USE DEF WakeupInv, ThreadTypes
<1>1. ASSUME UNCHANGED ext, UNCHANGED ready, pc' \in [Worker -> HandlerPC],
             \A t \in Worker : pc[t] = "notify" => pc'[t] = "notify"
      PROVE  WakeupInv'
  BY <1>1 DEF NoLostWakeup, Holds
<1>2. ASSUME NEW t \in Worker, RunHandler(t) \/ TestInContext(t) \/ BreakOnStop(t)
      PROVE  WakeupInv'
  BY <1>1, <1>2 DEF RunHandler, TestInContext, BreakOnStop, HandlerPC
<1>3. ASSUME NEW t \in Worker, SetReady(t) PROVE WakeupInv'
  <2>1. pc' \in [Worker -> HandlerPC] /\ pc'[t] = "notify" /\ ext' = ext
    BY <1>3 DEF SetReady, HandlerPC
  <2>. QED
    BY <2>1 DEF NoLostWakeup
<1>4. ASSUME NEW t \in Worker, NotifyAll(t) PROVE WakeupInv'
  <2>1. pc' \in [Worker -> HandlerPC] /\ ext' = Woken
    BY <1>4 DEF NotifyAll, HandlerPC
  <2>. QED
    BY <2>1, WokenFacts DEF NoLostWakeup
<1>5. ASSUME NEW e \in External, ExternalSetReady(e) PROVE WakeupInv'
  <2>1. ext' = [ext EXCEPT ![e] = "notify"] /\ pc' = pc
    BY <1>5 DEF ExternalSetReady
  <2>. QED
    BY <2>1 DEF NoLostWakeup, ExternalPC
<1>6. ASSUME NEW e \in External, ExternalNotifyAll(e) PROVE WakeupInv'
  <2>1. ext' = [Woken EXCEPT ![e] = "idle"] /\ pc' = pc
    BY <1>6 DEF ExternalNotifyAll
  <2>. QED
    BY <2>1, WokenFacts DEF NoLostWakeup, ExternalPC
<1>7. ASSUME NEW e \in External, ExternalAwait(e) \/ SpuriousWakeup(e)
      PROVE  WakeupInv'
  <2>1. /\ ext' = [ext EXCEPT ![e] = "test"] /\ ext[e] # "notify"
        /\ pc' = pc /\ ready' = ready
    BY <1>7 DEF ExternalAwait, SpuriousWakeup
  <2>. QED
    BY <2>1 DEF NoLostWakeup, Holds, ExternalPC
<1>8. ASSUME NEW e \in External, ExternalTest(e) PROVE WakeupInv'
  <2>1. /\ ext[e] = "test" /\ pc' = pc /\ ready' = ready
        /\ \/ ext' = [ext EXCEPT ![e] = "idle"]
           \/ ext' = [ext EXCEPT ![e] = "asleep"] /\ ~Holds(e)
    BY <1>8 DEF ExternalTest
  <2>. QED
    BY <2>1 DEF NoLostWakeup, Holds, ExternalPC
<1>9. ASSUME NEW w \in Waitable, SetWaiting(w) PROVE WakeupInv'
  <2>1. /\ ready' \subseteq ready /\ pc' = pc /\ ext' = ext
    BY <1>9 DEF SetWaiting
  <2>2. \A e \in External : Holds(e)' => Holds(e)
    BY <2>1 DEF Holds
  <2>. QED
    BY <2>1, <2>2 DEF NoLostWakeup
<1>10. ASSUME NEW w \in Waitable, Post(w) PROVE WakeupInv'
  BY <1>1, <1>10 DEF Post
<1>11. ASSUME StopContext PROVE WakeupInv'
  BY <1>1, <1>11 DEF StopContext
<1>12. CASE UNCHANGED waiterVars
  BY <1>1, <1>12 DEF waiterVars
<1>. QED
  BY <1>2, <1>3, <1>4, <1>5, <1>6, <1>7, <1>8, <1>9, <1>10, <1>11, <1>12
    DEF WaiterNext, WorkerStep, ExternalStep

(* await outside the context: setReady, which sets the flag under the      *)
(* mutex and notifies after releasing it, cannot be missed by a thread     *)
(* between its test and its sleep.                                         *)
THEOREM WaiterNoLostWakeup == WaiterSafety => []NoLostWakeup
<1>1. WakeupInv => NoLostWakeup
  BY DEF WakeupInv
<1>. QED
  BY <1>1, WakeupInvInit, WakeupInvNext, PTL DEF WaiterSafety
=============================================================================
