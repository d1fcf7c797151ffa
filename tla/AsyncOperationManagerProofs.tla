--------------------- MODULE AsyncOperationManagerProofs ---------------------
(***************************************************************************)
(* AsyncOperationManager runs one operation at a time, loses none and      *)
(* implements SequentialOperations, for every set of operations and both   *)
(* containers.                                                             *)
(***************************************************************************)
EXTENDS AsyncOperationManager, SequenceTheorems, TLAPS

-----------------------------------------------------------------------------
(* What the actions do to Live and to the stored operations.               *)

(* Giving an operation an enabled notifier makes it live.                  *)
LEMMA LiveAfterLaunch ==
    ASSUME notifier \in [Op -> NotifierState], NEW o \in Op,
           notifier' = [notifier EXCEPT ![o] = "enabled"]
    PROVE  Live' = Live \cup {o}
BY DEF Live, NotifierState

(* The end of the only live operation leaves none live.                    *)
LEMMA LiveAfterLastFinish ==
    ASSUME notifier \in [Op -> NotifierState], NEW o \in Op,
           OneAtATime, notifier[o] = "enabled",
           NEW n \in {"none", "disabled"},
           notifier' = [notifier EXCEPT ![o] = n]
    PROVE  Live' = {}
BY DEF Live, NotifierState, OneAtATime

(* The end of the only live operation makes the launched one the only one. *)
LEMMA LiveAfterHandOver ==
    ASSUME notifier \in [Op -> NotifierState], NEW o \in Op, NEW h \in Op,
           OneAtATime, notifier[o] = "enabled", h # o,
           NEW n \in {"none", "disabled"},
           notifier' = [notifier EXCEPT ![o] = n, ![h] = "enabled"]
    PROVE  Live' = {h}
BY DEF Live, NotifierState, OneAtATime

(* Storing a fresh operation keeps the stored ones distinct and not live.  *)
LEMMA PushedFacts ==
    ASSUME ManagerTypeOK, ExecutedOnce, NEW o \in Op, Fresh(o)
    PROVE  /\ Pushed(o) \in Seq(Op)
           /\ Pushed(o) # <<>>
           /\ Replacer => Len(Pushed(o)) <= 1
           /\ \A i \in DOMAIN Pushed(o) : notifier[Pushed(o)[i]] = "none"
           /\ \A i, j \in DOMAIN Pushed(o) :
                  Pushed(o)[i] = Pushed(o)[j] => i = j
<1>1. CASE Replacer
  BY <1>1 DEF Pushed, Fresh
<1>2. CASE ~Replacer
  <2>1. Pushed(o) = Append(pending, o) /\ pending \in Seq(Op)
    BY <1>2 DEF Pushed, ManagerTypeOK
  <2>2. \A i \in DOMAIN pending : pending[i] # o
    BY <2>1 DEF Fresh, Range
  <2>3. /\ DOMAIN Append(pending, o) = 1 .. Len(pending) + 1
        /\ \A i \in 1 .. Len(pending) : Append(pending, o)[i] = pending[i]
        /\ Append(pending, o)[Len(pending) + 1] = o
    BY <2>1
  <2>. QED
    BY <1>2, <2>1, <2>2, <2>3 DEF Fresh, ExecutedOnce
<1>. QED
  BY <1>1, <1>2

(* Popping the head leaves the others stored, distinct from it.            *)
LEMMA PoppedFacts ==
    ASSUME ManagerTypeOK, ExecutedOnce, pending # <<>>
    PROVE  /\ Head(pending) \in Op
           /\ notifier[Head(pending)] = "none"
           /\ Tail(pending) \in Seq(Op)
           /\ Replacer => Tail(pending) = <<>> /\ Len(Tail(pending)) <= 1
           /\ \A i \in DOMAIN Tail(pending) :
                  /\ notifier[Tail(pending)[i]] = "none"
                  /\ Tail(pending)[i] # Head(pending)
           /\ \A i, j \in DOMAIN Tail(pending) :
                  Tail(pending)[i] = Tail(pending)[j] => i = j
<1>1. pending \in Seq(Op) /\ Len(pending) \in Nat /\ Len(pending) > 0
  BY EmptySeq, LenProperties DEF ManagerTypeOK
<1>2. /\ Head(pending) = pending[1]
      /\ Tail(pending) \in Seq(Op)
      /\ Len(Tail(pending)) = Len(pending) - 1
      /\ \A i \in 1 .. Len(Tail(pending)) : Tail(pending)[i] = pending[i + 1]
  BY <1>1, HeadTailProperties
<1>3. DOMAIN pending = 1 .. Len(pending)
      /\ DOMAIN Tail(pending) = 1 .. Len(pending) - 1
  BY <1>1, <1>2
<1>4. Replacer => Tail(pending) = <<>> /\ Len(Tail(pending)) <= 1
  BY <1>1, <1>2, EmptySeq DEF ManagerTypeOK
<1>. QED
  BY <1>1, <1>2, <1>3, <1>4 DEF ExecutedOnce

-----------------------------------------------------------------------------
(* The inductive invariant.                                                *)

(* The initial state of a manager satisfies the invariant.                 *)
LEMMA ManagerInvInit == ManagerInit => ManagerInv
<1>. SUFFICES ASSUME ManagerInit PROVE ManagerInv
  OBVIOUS
<1>1. Live = {}
  BY DEF ManagerInit, Live
<1>2. pending = <<>> /\ <<>> \in Seq(Op) /\ Len(<<>>) = 0 /\ DOMAIN <<>> = {}
  BY DEF ManagerInit
<1>3. ManagerTypeOK
  <2>1. notifier \in [Op -> NotifierState]
    BY DEF ManagerInit, NotifierState
  <2>2. pending \in Seq(Op) /\ Len(pending) <= 1
    BY <1>2
  <2>. QED
    BY <2>1, <2>2 DEF ManagerInit, ManagerTypeOK
<1>. QED
  BY <1>1, <1>2, <1>3 DEF ManagerInit, ManagerInv, OneAtATime,
    RunningMeansLive, NoStrandedOperation, ExecutedOnce,
    ReplacementIsAnnounced, CancelSticks, CancelHasCause

(* finishOperation hands over to the next stored operation, or leaves the  *)
(* manager idle; the notifier that called it may or may not survive.       *)
LEMMA FinishPreservesInv ==
    ASSUME ManagerInv, NEW o \in Op, notifier[o] = "enabled",
           NEW n \in {"none", "disabled"}, FinishOperation(o, n)
    PROVE  ManagerInv'
<1>. USE DEF ManagerInv
<1>1. Live = {o}
  BY DEF Live, OneAtATime
<1>2. struck' = {} /\ doomed' = {} /\ asked' \subseteq Op
  BY <1>1 DEF FinishOperation, CancelSticks, ManagerTypeOK
<1>3. CASE pending = <<>>
  <2>1. notifier' = [notifier EXCEPT ![o] = n] /\ pending' = <<>> /\ ~running'
    BY <1>3 DEF FinishOperation
  <2>2. Live' = {}
    BY <2>1, LiveAfterLastFinish DEF ManagerTypeOK
  <2>3. DOMAIN <<>> = {} /\ Len(<<>>) = 0
    OBVIOUS
  <2>. QED
    BY <1>2, <1>3, <2>1, <2>2, <2>3 DEF FinishOperation, ManagerTypeOK,
      OneAtATime, RunningMeansLive, NoStrandedOperation, ExecutedOnce,
      ReplacementIsAnnounced, CancelSticks, CancelHasCause,
      NotifierState
<1>4. CASE pending # <<>>
  <2>. DEFINE h == Head(pending)
  <2>1. /\ notifier' = [notifier EXCEPT ![o] = n, ![h] = "enabled"]
        /\ pending' = Tail(pending) /\ running' = running
        /\ canceled' = FALSE /\ doomed' = {}
    BY <1>4 DEF FinishOperation
  <2>2. /\ h \in Op
        /\ notifier[h] = "none"
        /\ Tail(pending) \in Seq(Op)
        /\ Replacer => Tail(pending) = <<>> /\ Len(Tail(pending)) <= 1
        /\ \A i \in DOMAIN Tail(pending) :
               notifier[Tail(pending)[i]] = "none" /\ Tail(pending)[i] # h
        /\ \A i, j \in DOMAIN Tail(pending) :
               Tail(pending)[i] = Tail(pending)[j] => i = j
    BY <1>4, PoppedFacts
  <2>. HIDE DEF h
  <2>3. h # o
    BY <2>2
  <2>4. Live' = {h}
    BY <2>1, <2>2, <2>3, LiveAfterHandOver DEF ManagerTypeOK
  <2>5. ManagerTypeOK'
    <3>1. Replacer => Len(Tail(pending)) <= 1
      BY <2>2
    <3>2. notifier' \in [Op -> NotifierState]
      BY <2>1, <2>2 DEF ManagerTypeOK, NotifierState
    <3>. QED
      BY <1>2, <2>1, <2>2, <3>1, <3>2 DEF ManagerTypeOK
  <2>6. ExecutedOnce'
    <3>1. \A i \in DOMAIN Tail(pending) : Tail(pending)[i] \in Op
      BY <2>2
    <3>2. \A i \in DOMAIN Tail(pending) : Tail(pending)[i] # o
      BY <2>2
    <3>3. \A p \in Op : p # o /\ p # h => notifier'[p] = notifier[p]
      BY <2>1 DEF ManagerTypeOK
    <3>4. \A i \in DOMAIN pending' : notifier'[pending'[i]] = "none"
      BY <2>1, <2>2, <3>1, <3>2, <3>3
    <3>. QED
      BY <2>1, <2>2, <3>4 DEF ExecutedOnce
  <2>7. RunningMeansLive' /\ NoStrandedOperation' /\ OneAtATime'
    BY <1>4, <2>1, <2>4 DEF RunningMeansLive, NoStrandedOperation, OneAtATime
  <2>8. ReplacementIsAnnounced' /\ CancelSticks' /\ CancelHasCause'
    BY <1>2, <2>1, <2>2 DEF ReplacementIsAnnounced, CancelSticks, CancelHasCause
  <2>. QED
    BY <2>5, <2>6, <2>7, <2>8
<1>. QED
  BY <1>3, <1>4

(* Every method of the manager preserves the invariant.                    *)
LEMMA ManagerInvNext == ManagerInv /\ [ManagerNext]_managerVars => ManagerInv'
<1>. SUFFICES ASSUME ManagerInv, [ManagerNext]_managerVars PROVE ManagerInv'
  OBVIOUS
<1>. USE DEF ManagerInv
<1>1. ASSUME NEW o \in Op, StartOperation(o) PROVE ManagerInv'
  <2>1. CASE ~running
    <3>1. /\ running' /\ notifier' = [notifier EXCEPT ![o] = "enabled"]
          /\ doomed' = doomed \cap {o}
          /\ UNCHANGED <<pending, asked, canceled, struck>>
      BY <1>1, <2>1 DEF StartOperation
    <3>2. Live = {} /\ pending = <<>> /\ struck = {}
      BY <2>1 DEF RunningMeansLive, NoStrandedOperation, CancelSticks
    <3>3. Live' = {o}
      BY <3>1, <3>2, LiveAfterLaunch DEF ManagerTypeOK
    <3>4. DOMAIN <<>> = {}
      OBVIOUS
    <3>. QED
      BY <3>1, <3>2, <3>3, <3>4 DEF ManagerTypeOK, OneAtATime,
        RunningMeansLive, NoStrandedOperation, ExecutedOnce,
        ReplacementIsAnnounced, CancelSticks, CancelHasCause,
      NotifierState
  <2>2. CASE running
    <3>1. /\ pending' = Pushed(o)
          /\ asked' = IF Replacer THEN asked \cup Live ELSE asked
          /\ UNCHANGED <<running, notifier, canceled, struck, doomed>>
      BY <1>1, <2>2 DEF StartOperation
    <3>2. /\ Pushed(o) \in Seq(Op)
          /\ Replacer => Len(Pushed(o)) <= 1
          /\ \A i \in DOMAIN Pushed(o) : notifier[Pushed(o)[i]] = "none"
          /\ \A i, j \in DOMAIN Pushed(o) :
                 Pushed(o)[i] = Pushed(o)[j] => i = j
      BY <1>1, PushedFacts DEF StartOperation
    <3>3. Live' = Live /\ Live \subseteq Op
      BY <3>1 DEF Live
    <3>4. ManagerTypeOK' /\ ExecutedOnce'
      BY <3>1, <3>2, <3>3 DEF ManagerTypeOK, ExecutedOnce
    <3>. QED
      BY <2>2, <3>1, <3>3, <3>4 DEF OneAtATime, RunningMeansLive,
        NoStrandedOperation, ReplacementIsAnnounced, CancelSticks,
        CancelHasCause
  <2>. QED
    BY <2>1, <2>2
<1>2. ASSUME NEW o \in Op, Notify(o) PROVE ManagerInv'
  BY <1>2, FinishPreservesInv DEF Notify
<1>3. ASSUME NEW o \in Op, DestroyState(o) PROVE ManagerInv'
  <2>1. CASE notifier[o] = "enabled"
    BY <1>3, <2>1, FinishPreservesInv DEF DestroyState
  <2>2. CASE notifier[o] = "disabled"
    <3>1. /\ notifier' = [notifier EXCEPT ![o] = "none"]
          /\ UNCHANGED <<running, canceled, pending, asked, struck, doomed>>
      BY <1>3, <2>2 DEF DestroyState
    <3>2. Live' = Live
      BY <2>2, <3>1 DEF Live, ManagerTypeOK
    <3>3. \A i \in DOMAIN pending : pending[i] \in Op
      BY DEF ManagerTypeOK
    <3>4. ExecutedOnce'
      BY <2>2, <3>1, <3>3 DEF ExecutedOnce, ManagerTypeOK
    <3>. QED
      BY <3>1, <3>2, <3>4 DEF ManagerTypeOK, OneAtATime, RunningMeansLive,
        NoStrandedOperation, ReplacementIsAnnounced, CancelSticks,
        CancelHasCause, NotifierState
  <2>. QED
    BY <1>3, <2>1, <2>2 DEF DestroyState
<1>4. ASSUME CancelOperation PROVE ManagerInv'
  <2>1. /\ canceled' = TRUE /\ pending' = <<>>
        /\ asked' = asked \cup Live /\ struck' = struck \cup Live
        /\ doomed' = IF Live = {} THEN Op ELSE {}
        /\ UNCHANGED <<running, notifier>>
    BY <1>4 DEF CancelOperation
  <2>2. Live' = Live /\ Live \subseteq Op
    BY <2>1 DEF Live
  <2>3. <<>> \in Seq(Op) /\ Len(<<>>) = 0 /\ DOMAIN <<>> = {}
    OBVIOUS
  <2>. QED
    BY <2>1, <2>2, <2>3 DEF ManagerTypeOK, OneAtATime, RunningMeansLive,
      NoStrandedOperation, ExecutedOnce, ReplacementIsAnnounced, CancelSticks,
      CancelHasCause
<1>5. CASE UNCHANGED managerVars
  <2>1. Live' = Live
    BY <1>5 DEF managerVars, Live
  <2>. QED
    BY <1>5, <2>1 DEF managerVars, ManagerTypeOK, OneAtATime,
      RunningMeansLive, NoStrandedOperation, ExecutedOnce,
      ReplacementIsAnnounced, CancelSticks, CancelHasCause
<1>. QED
  BY <1>1, <1>2, <1>3, <1>4, <1>5 DEF ManagerNext

(* At every moment of every behaviour at most one operation of a manager   *)
(* executes, `running` tells whether one does, nothing is stored while     *)
(* none does, and a cancellation outlasts the operation it was aimed at.   *)
THEOREM ManagerInvariant == ManagerSafety => []ManagerInv
<1>. QED
  BY ManagerInvInit, ManagerInvNext, PTL DEF ManagerSafety

(* Two operations of one manager never execute at the same time.           *)
THEOREM ManagerOneAtATime == ManagerSafety => []OneAtATime
<1>1. ManagerInv => OneAtATime
  BY DEF ManagerInv
<1>. QED
  BY <1>1, ManagerInvariant, PTL

(* A cancellation outlasts the operation it was aimed at.                  *)
THEOREM ManagerCancelSticks == ManagerSafety => []CancelSticks
<1>1. ManagerInv => CancelSticks
  BY DEF ManagerInv
<1>. QED
  BY <1>1, ManagerInvariant, PTL

-----------------------------------------------------------------------------
(* The manager implements the sequential execution of operations.          *)

(* An idle manager is an idle sequential execution.                        *)
LEMMA ManagerRefinesInit == ManagerInit => Abstract!AbsInit
BY DEF ManagerInit, Abstract!AbsInit, Live

(* finishOperation is the hand-over of the abstract execution.             *)
LEMMA FinishRefines ==
    ASSUME ManagerInv, NEW o \in Op, notifier[o] = "enabled",
           NEW n \in {"none", "disabled"}, FinishOperation(o, n)
    PROVE  Abstract!Finish
<1>. USE DEF ManagerInv
<1>1. Live # {}
  BY DEF Live
<1>2. CASE pending = <<>>
  <2>1. Live' = {}
    BY <1>2, LiveAfterLastFinish DEF FinishOperation, ManagerTypeOK
  <2>. QED
    BY <1>1, <1>2, <2>1 DEF FinishOperation, Abstract!Finish
<1>3. CASE pending # <<>>
  <2>1. Head(pending) \in Op /\ Head(pending) # o
    BY <1>3, PoppedFacts
  <2>2. Live' = {Head(pending)}
    BY <1>3, <2>1, LiveAfterHandOver DEF FinishOperation, ManagerTypeOK
  <2>. QED
    BY <1>1, <1>3, <2>2 DEF FinishOperation, Abstract!Finish
<1>. QED
  BY <1>2, <1>3

(* Every method of the manager is one abstract step or none.               *)
LEMMA ManagerRefinesNext ==
    ManagerInv /\ [ManagerNext]_managerVars
        => [Abstract!AbsNext]_(Abstract!absVars)
<1>. SUFFICES ASSUME ManagerInv, [ManagerNext]_managerVars
              PROVE  [Abstract!AbsNext]_(Abstract!absVars)
  OBVIOUS
<1>. USE DEF ManagerInv, Abstract!AbsNext, Abstract!absVars
<1>1. ASSUME NEW o \in Op, StartOperation(o) PROVE Abstract!Submit(o)
  <2>1. CASE ~running
    <3>1. Live = {} /\ pending' = pending
      BY <1>1, <2>1 DEF StartOperation, RunningMeansLive
    <3>2. Live' = {o}
      BY <1>1, <2>1, <3>1, LiveAfterLaunch DEF StartOperation, ManagerTypeOK
    <3>. QED
      BY <3>1, <3>2 DEF Abstract!Submit
  <2>2. CASE running
    <3>1. Live' = Live /\ Live # {} /\ o \notin Live /\ pending' = Pushed(o)
      BY <1>1, <2>2 DEF StartOperation, RunningMeansLive, Live, Fresh
    <3>. QED
      BY <3>1 DEF Abstract!Submit, Pushed
  <2>. QED
    BY <2>1, <2>2
<1>2. ASSUME NEW o \in Op, Notify(o) PROVE Abstract!Finish
  BY <1>2, FinishRefines DEF Notify
<1>3. ASSUME NEW o \in Op, DestroyState(o)
      PROVE  Abstract!Finish \/ UNCHANGED <<Live, pending>>
  <2>1. CASE notifier[o] = "enabled"
    BY <1>3, <2>1, FinishRefines DEF DestroyState
  <2>2. CASE notifier[o] = "disabled"
    BY <1>3, <2>2 DEF DestroyState, Live, ManagerTypeOK
  <2>. QED
    BY <1>3, <2>1, <2>2 DEF DestroyState
<1>4. ASSUME CancelOperation PROVE Abstract!Discard
  BY <1>4 DEF CancelOperation, Abstract!Discard, Live
<1>5. CASE UNCHANGED managerVars
  BY <1>5 DEF managerVars, Live
<1>. QED
  BY <1>1, <1>2, <1>3, <1>4, <1>5 DEF ManagerNext

(* startOperation, finishOperation and cancelOperation implement Submit,   *)
(* Finish and Discard: operation i+1 is executed when operation i has      *)
(* finished, in the order of the calls, or instead of the one it replaced. *)
THEOREM ManagerImplementsSequential == ManagerSafety => SequentialSafety
<1>. QED
  BY ManagerInvariant, ManagerRefinesInit, ManagerRefinesNext, PTL
    DEF ManagerSafety, SequentialSafety, Abstract!AbsSafety
=============================================================================
