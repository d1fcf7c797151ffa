------------------------ MODULE ServiceServerProofs ------------------------
(***************************************************************************)
(* The server over its manager, for any number of advertisements, clients  *)
(* and threads: one accept loop at a time, and a canceled advertisement    *)
(* serves nobody any more.                                                 *)
(***************************************************************************)
EXTENDS ServiceServer, AsyncOperationManagerProofs

-----------------------------------------------------------------------------
(* The server preserves the manager's invariant.                           *)

(* advertiseService that throws on an idle manager clears `canceled`, which*)
(* is no step of the manager; the other steps are, or leave it alone.      *)
LEMMA ServerStepIsManagerStep ==
    [ServerNext]_serverVars
        => [ManagerNext]_managerVars \/ (\E o \in Op : AdvertiseThrows(o))
<1>. SUFFICES ASSUME [ServerNext]_serverVars, \A o \in Op : ~AdvertiseThrows(o)
              PROVE  [ManagerNext]_managerVars
  OBVIOUS
<1>1. ASSUME NEW o \in Op, Advertise(o) PROVE StartOperation(o)
  BY <1>1 DEF Advertise
<1>2. ASSUME NEW o \in Op, AcceptFails(o) \/ \E c \in Client : Connect(o, c)
      PROVE  UNCHANGED managerVars
  BY <1>2 DEF Connect, AcceptFails
<1>3. ASSUME NEW c \in Client, DropConnection(c) \/ SessionStep(c)
      PROVE  UNCHANGED managerVars
  BY <1>3 DEF DropConnection, SessionStep
<1>4. ASSUME NEW o \in Op, HandlerStep(o)
      PROVE  DestroyState(o) \/ UNCHANGED managerVars
  BY <1>4 DEF HandlerStep, CheckRunning, CheckCanceled, HandleService, Reopen,
    AsyncAccept, Return, Step
<1>5. Cancel => CancelOperation
  BY DEF Cancel
<1>6. UNCHANGED serverVars => UNCHANGED managerVars
  BY DEF serverVars, managerVars
<1>. QED
  BY <1>1, <1>2, <1>3, <1>4, <1>5, <1>6 DEF ServerNext, ManagerNext

(* An advertisement that throws changes nothing of the manager but its     *)
(* flag, which concerns no operation.                                      *)
LEMMA AdvertiseThrowsFacts ==
    ASSUME ManagerInv, NEW o \in Op, AdvertiseThrows(o)
    PROVE  ManagerInv' /\ Live' = Live
<1>1. /\ ~running /\ canceled' = FALSE /\ doomed' = {}
      /\ UNCHANGED <<running, pending, notifier, asked, struck>>
  BY DEF AdvertiseThrows
<1>2. Live = {} /\ Live' = Live
  BY <1>1 DEF ManagerInv, RunningMeansLive, Live
<1>3. struck = {}
  BY <1>2 DEF ManagerInv, ManagerTypeOK, CancelSticks
<1>. QED
  BY <1>1, <1>2, <1>3 DEF ManagerInv, ManagerTypeOK, OneAtATime, RunningMeansLive,
    NoStrandedOperation, ExecutedOnce, ReplacementIsAnnounced, CancelSticks,
    CancelHasCause

(* Every step of the server preserves the invariant of the manager.        *)
LEMMA ServerKeepsManagerInv ==
    ManagerInv /\ [ServerNext]_serverVars => ManagerInv'
BY ServerStepIsManagerStep, AdvertiseThrowsFacts, ManagerInvNext

(* Advertisements are executed one at a time, each replacing the one       *)
(* before, those that throw included: the server implements the abstract   *)
(* execution although it is no plain user of its manager.                  *)
THEOREM ServerImplementsSequential == ServerSafety => SequentialSafety
<1>1. ServerInit => ManagerInv /\ Abstract!AbsInit
  BY ManagerInvInit, ManagerRefinesInit DEF ServerInit
<1>2. ManagerInv /\ [ServerNext]_serverVars => [Abstract!AbsNext]_(Abstract!absVars)
  <2>. SUFFICES ASSUME ManagerInv, [ServerNext]_serverVars
                PROVE  [Abstract!AbsNext]_(Abstract!absVars)
    OBVIOUS
  <2>1. CASE [ManagerNext]_managerVars
    BY <2>1, ManagerRefinesNext
  <2>2. ASSUME NEW o \in Op, AdvertiseThrows(o)
        PROVE  UNCHANGED (Abstract!absVars)
    BY <2>2, AdvertiseThrowsFacts DEF AdvertiseThrows, Abstract!absVars
  <2>. QED
    BY <2>1, <2>2, ServerStepIsManagerStep
<1>. QED
  BY <1>1, <1>2, ServerKeepsManagerInv, PTL
    DEF ServerSafety, SequentialSafety, Abstract!AbsSafety

-----------------------------------------------------------------------------
(* The accept loops.                                                       *)

(* Exactly the live advertisements have an accept loop.                    *)
LoopsAreLive == \A o \in Op : accept[o] # "none" <=> o \in Live

(* A connection is handed over only while an accept handler is queued or   *)
(* runs, and no second one is accepted meanwhile.                          *)
HandedOneByOne ==
    /\ \A o \in Op : accept[o] = "outstanding" => Handed = {}
    /\ Live = {} => Handed = {}
    /\ \A c, d \in Handed : c = d

ServerInv ==
    /\ ManagerInv
    /\ accept \in [Op -> AcceptStage]
    /\ session \in [Client -> SessionStage]
    /\ LoopsAreLive
    /\ HandedOneByOne

(* Nothing is advertised and nobody connected in the initial state.        *)
LEMMA ServerInvInit == ServerInit => ServerInv
<1>. SUFFICES ASSUME ServerInit PROVE ServerInv
  OBVIOUS
<1>1. ManagerInv
  BY ManagerInvInit DEF ServerInit
<1>2. Live = {} /\ Handed = {}
  BY DEF ServerInit, ManagerInit, Live, Handed
<1>. QED
  BY <1>1, <1>2 DEF ServerInit, ServerInv, LoopsAreLive, HandedOneByOne,
    AcceptStage, SessionStage

(* What becomes of the connection of the handler leaves none handed over.  *)
LEMMA HandedBecomeFacts ==
    ASSUME session \in [Client -> SessionStage],
           NEW s \in SessionStage \ {"handed"}, session' = HandedBecome(s)
    PROVE  /\ session' \in [Client -> SessionStage] /\ Handed' = {}
           /\ \A c \in Handed : session'[c] = s
BY DEF HandedBecome, Handed, SessionStage

(* Closing the acceptor changes no loop from or to "none".                 *)
LEMMA StopAcceptingFacts ==
    ASSUME accept \in [Op -> AcceptStage], StopAccepting
    PROVE  /\ accept' \in [Op -> AcceptStage]
           /\ \A o \in Op : /\ accept'[o] # "outstanding"
                            /\ accept'[o] = "none" <=> accept[o] = "none"
                            /\ accept'[o] = "serving" <=> accept[o] = "serving"
BY DEF StopAccepting, AcceptStage

(* A step of the accept handler that leaves the manager alone.             *)
LEMMA StepFacts ==
    ASSUME ServerInv, NEW o \in Op, NEW from, from # "none",
           NEW to \in AcceptStage \ {"none"}, Step(o, from, to)
    PROVE  /\ accept' = [accept EXCEPT ![o] = to]
           /\ accept' \in [Op -> AcceptStage]
           /\ Live' = Live /\ Live = {o}
           /\ LoopsAreLive'
<1>1. accept' = [accept EXCEPT ![o] = to] /\ accept[o] = from
  BY DEF Step
<1>2. Live' = Live
  BY DEF Step, managerVars, Live
<1>3. o \in Live
  BY <1>1 DEF ServerInv, LoopsAreLive
<1>4. Live = {o}
  BY <1>3 DEF ServerInv, ManagerInv, OneAtATime, Live
<1>. QED
  BY <1>1, <1>2, <1>3, <1>4 DEF ServerInv, LoopsAreLive

(* Every step of the server preserves the invariant.                       *)
LEMMA ServerInvNext == ServerInv /\ [ServerNext]_serverVars => ServerInv'
<1>. SUFFICES ASSUME ServerInv, [ServerNext]_serverVars PROVE ServerInv'
  OBVIOUS
<1>0. ManagerInv'
  BY ServerKeepsManagerInv DEF ServerInv
<1>. DEFINE Rest == /\ accept' \in [Op -> AcceptStage]
                    /\ session' \in [Client -> SessionStage]
                    /\ LoopsAreLive'
                    /\ HandedOneByOne'
<1>a. /\ accept \in [Op -> AcceptStage] /\ session \in [Client -> SessionStage]
      /\ notifier \in [Op -> NotifierState]
  BY DEF ServerInv, ManagerInv, ManagerTypeOK
<1>1. ASSUME NEW o \in Op, Advertise(o) PROVE Rest
  <2>1. CASE ~running
    <3>1. /\ notifier' = [notifier EXCEPT ![o] = "enabled"]
          /\ accept' = [accept EXCEPT ![o] = "outstanding"]
          /\ session' = session
      BY <1>1, <2>1 DEF Advertise, StartOperation
    <3>2. Live = {} /\ Handed = {}
      BY <2>1 DEF ServerInv, ManagerInv, RunningMeansLive, HandedOneByOne
    <3>3. Live' = {o}
      BY <1>a, <3>1, <3>2, LiveAfterLaunch
    <3>4. Handed' = {}
      BY <3>1, <3>2 DEF Handed
    <3>. QED
      BY <1>a, <3>1, <3>2, <3>3, <3>4
        DEF ServerInv, LoopsAreLive, HandedOneByOne, AcceptStage
  <2>2. CASE running
    <3>1. StopAccepting /\ session' = session /\ notifier' = notifier
      BY <1>1, <2>2 DEF Advertise, StartOperation
    <3>2. Live' = Live /\ Handed' = Handed
      BY <3>1 DEF Live, Handed
    <3>. QED
      BY <1>a, <3>1, <3>2, StopAcceptingFacts
        DEF ServerInv, LoopsAreLive, HandedOneByOne
  <2>. QED
    BY <2>1, <2>2
<1>2. ASSUME NEW o \in Op, AdvertiseThrows(o) PROVE Rest
  <2>1. Live' = Live /\ Handed' = Handed
    BY <1>2 DEF AdvertiseThrows, Live, Handed
  <2>. QED
    BY <1>2, <2>1 DEF AdvertiseThrows, ServerInv, LoopsAreLive, HandedOneByOne
<1>3. ASSUME NEW o \in Op, NEW c \in Client, Connect(o, c) PROVE Rest
  <2>1. /\ accept[o] = "outstanding" /\ accept' = [accept EXCEPT ![o] = "queued"]
        /\ session' = [session EXCEPT ![c] = "handed"]
        /\ UNCHANGED managerVars
    BY <1>3 DEF Connect
  <2>2. Live' = Live /\ o \in Live /\ Live = {o}
    BY <2>1 DEF managerVars, Live, ServerInv, ManagerInv, OneAtATime, LoopsAreLive
  <2>3. Handed = {} /\ Handed' = {c}
    BY <1>a, <2>1 DEF ServerInv, HandedOneByOne, Handed
  <2>4. \A p \in Op : accept'[p] # "outstanding"
    BY <1>a, <2>1, <2>2 DEF ServerInv, LoopsAreLive
  <2>. QED
    BY <1>a, <2>1, <2>2, <2>3, <2>4 DEF ServerInv, LoopsAreLive, HandedOneByOne,
      AcceptStage, SessionStage
<1>4. ASSUME NEW o \in Op, AcceptFails(o) PROVE Rest
  <2>1. /\ accept[o] = "outstanding" /\ accept' = [accept EXCEPT ![o] = "queued"]
        /\ session' = session /\ UNCHANGED managerVars
    BY <1>4 DEF AcceptFails
  <2>2. Live' = Live /\ Handed' = Handed
    BY <2>1 DEF managerVars, Live, Handed
  <2>. QED
    BY <1>a, <2>1, <2>2 DEF ServerInv, LoopsAreLive, HandedOneByOne, AcceptStage
<1>5. ASSUME NEW o \in Op, CheckRunning(o) \/ CheckCanceled(o) PROVE Rest
  <2>1. PICK from \in {"queued", "checked"},
             to \in {"checked", "leaving", "again", "serving"} : Step(o, from, to)
    BY <1>5 DEF CheckRunning, CheckCanceled
  <2>2. session' = session /\ Handed' = Handed
    BY <1>5 DEF CheckRunning, CheckCanceled, Handed
  <2>3. from # "none" /\ to \in AcceptStage \ {"none"}
    BY DEF AcceptStage
  <2>4. /\ accept' = [accept EXCEPT ![o] = to]
        /\ accept' \in [Op -> AcceptStage]
        /\ Live' = Live /\ Live = {o}
        /\ LoopsAreLive'
    BY <2>1, <2>3, StepFacts
  <2>. QED
    BY <1>a, <2>2, <2>4 DEF ServerInv, HandedOneByOne
<1>6. ASSUME NEW o \in Op, HandleService(o) PROVE Rest
  <2>1. /\ accept' = [accept EXCEPT ![o] = "again"]
        /\ accept' \in [Op -> AcceptStage]
        /\ Live' = Live /\ Live = {o}
        /\ LoopsAreLive'
    BY <1>6, StepFacts DEF HandleService, AcceptStage
  <2>2. session' \in [Client -> SessionStage] /\ Handed' = {}
    BY <1>6, <1>a, HandedBecomeFacts DEF HandleService, SessionStage
  <2>. QED
    BY <2>1, <2>2 DEF HandedOneByOne
<1>7. ASSUME NEW o \in Op, Reopen(o) PROVE Rest
  <2>1. /\ accept[o] = "again" /\ accept' = [accept EXCEPT ![o] = "accepting"]
        /\ session' = session /\ UNCHANGED managerVars
    BY <1>7 DEF Reopen
  <2>2. Live' = Live /\ Handed' = Handed
    BY <2>1 DEF managerVars, Live, Handed
  <2>. QED
    BY <1>a, <2>1, <2>2 DEF ServerInv, LoopsAreLive, HandedOneByOne, AcceptStage
<1>8. ASSUME NEW o \in Op, AsyncAccept(o) PROVE Rest
  <2>1. PICK to \in {"outstanding", "queued"} : Step(o, "accepting", to)
    BY <1>8 DEF AsyncAccept
  <2>2. /\ accept' \in [Op -> AcceptStage]
        /\ LoopsAreLive'
    BY <2>1, StepFacts DEF AcceptStage
  <2>3. session' \in [Client -> SessionStage] /\ Handed' = {}
    BY <1>8, <1>a, HandedBecomeFacts DEF AsyncAccept, SessionStage
  <2>. QED
    BY <2>2, <2>3 DEF HandedOneByOne
<1>9. ASSUME NEW o \in Op, Return(o) PROVE Rest
  <2>1. accept[o] = "leaving" /\ o \in Live /\ notifier[o] = "enabled"
    BY <1>9 DEF Return, ServerInv, LoopsAreLive, Live
  <2>2. FinishOperation(o, "none")
    BY <1>9, <2>1 DEF Return, DestroyState
  <2>3. accept' = [p \in Op |-> IF p = o THEN "none"
                                ELSE IF p \in Launched THEN "outstanding" ELSE accept[p]]
    BY <1>9 DEF Return
  <2>4. session' \in [Client -> SessionStage] /\ Handed' = {}
    BY <1>9, <1>a, HandedBecomeFacts DEF Return, SessionStage
  <2>5. accept' \in [Op -> AcceptStage]
    BY <1>a, <2>3 DEF AcceptStage
  <2>6. Live = {o}
    BY <2>1 DEF ServerInv, ManagerInv, OneAtATime, Live
  <2>7. o \notin Live'
    <3>1. notifier'[o] = "none"
      <4>1. CASE pending = <<>>
        BY <1>a, <2>2, <4>1 DEF FinishOperation
      <4>2. CASE pending # <<>>
        <5>1. Head(pending) # o
          BY <2>1, <4>2, PoppedFacts DEF ServerInv, ManagerInv
        <5>. QED
          BY <1>a, <2>2, <4>2, <5>1 DEF FinishOperation
      <4>. QED
        BY <4>1, <4>2
    <3>. QED
      BY <3>1 DEF Live
  <2>8. Launched = Live'
    BY <2>6, <2>7 DEF Launched
  <2>9. \A p \in Op : p # o => accept[p] = "none"
    BY <2>6 DEF ServerInv, LoopsAreLive
  <2>10. LoopsAreLive'
    BY <2>3, <2>7, <2>8, <2>9 DEF LoopsAreLive
  <2>. QED
    BY <2>4, <2>5, <2>10 DEF HandedOneByOne
<1>10. ASSUME Cancel PROVE Rest
  <2>1. StopAccepting /\ session' = session /\ notifier' = notifier
    BY <1>10 DEF Cancel, CancelOperation
  <2>2. Live' = Live /\ Handed' = Handed
    BY <2>1 DEF Live, Handed
  <2>. QED
    BY <1>a, <2>1, <2>2, StopAcceptingFacts
      DEF ServerInv, LoopsAreLive, HandedOneByOne
<1>11. ASSUME NEW c \in Client, DropConnection(c) \/ SessionStep(c) PROVE Rest
  <2>1. /\ accept' = accept /\ UNCHANGED managerVars
        /\ session[c] # "handed"
        /\ \E s \in {"none", "calling", "responding"} :
               session' = [session EXCEPT ![c] = s]
    BY <1>11 DEF DropConnection, SessionStep
  <2>2. session' \in [Client -> SessionStage] /\ Handed' = Handed
    BY <1>a, <2>1 DEF SessionStage, Handed
  <2>3. Live' = Live
    BY <2>1 DEF managerVars, Live
  <2>. QED
    BY <2>1, <2>2, <2>3 DEF ServerInv, LoopsAreLive, HandedOneByOne
<1>12. CASE UNCHANGED serverVars
  <2>1. Live' = Live /\ Handed' = Handed
    BY <1>12 DEF serverVars, managerVars, Live, Handed
  <2>. QED
    BY <1>0, <1>12, <2>1 DEF serverVars, ServerInv, LoopsAreLive, HandedOneByOne
<1>13. Rest => ServerInv'
  BY <1>0 DEF ServerInv
<1>. HIDE DEF Rest
<1>. QED
  BY <1>1, <1>2, <1>3, <1>4, <1>5, <1>6, <1>7, <1>8, <1>9, <1>10, <1>11, <1>12,
    <1>13 DEF ServerNext, HandlerStep

(* Whatever threads advertise and cancel, one accept loop at a time uses   *)
(* the acceptor, that of the live advertisement, and it has at most one    *)
(* connection in hand.                                                     *)
THEOREM ServerAcceptHasOneUser == ServerSafety => []AcceptHasOneUser
<1>1. ServerInv => AcceptHasOneUser
  BY DEF ServerInv, ManagerInv, OneAtATime, LoopsAreLive, HandedOneByOne,
    AcceptHasOneUser
<1>. QED
  BY <1>1, ServerInvInit, ServerInvNext, PTL DEF ServerSafety

-----------------------------------------------------------------------------
(* cancel() is effective.                                                  *)

(* After cancel() the advertisement it was aimed at begins no service,     *)
(* although its accept loop may go on until the next connection.           *)
THEOREM ServerCanceledServesNoMore == ServerSafety => CanceledServesNoMore
<1>. DEFINE Silent == \A o \in struck : accept'[o] = "serving" => accept[o] = "serving"
<1>1. ServerInv /\ [ServerNext]_serverVars => [Silent]_serverVars
  <2>. SUFFICES ASSUME ServerInv, ServerNext PROVE Silent
    BY DEF serverVars
  <2>. SUFFICES ASSUME NEW o \in struck, accept[o] # "serving"
                PROVE  accept'[o] # "serving"
    OBVIOUS
  <2>1. o \in Op /\ o \in Live /\ canceled /\ accept \in [Op -> AcceptStage]
    BY DEF ServerInv, ManagerInv, ManagerTypeOK, CancelSticks
  <2>2. ASSUME NEW p \in Op, Advertise(p) PROVE accept'[o] # "serving"
    BY <2>1, <2>2, StopAcceptingFacts DEF Advertise
  <2>3. ASSUME NEW p \in Op, AdvertiseThrows(p) PROVE accept'[o] # "serving"
    BY <2>3 DEF AdvertiseThrows
  <2>4. ASSUME NEW p \in Op, NEW c \in Client, Connect(p, c)
        PROVE  accept'[o] # "serving"
    BY <2>1, <2>4 DEF Connect
  <2>5. ASSUME NEW p \in Op, AcceptFails(p) PROVE accept'[o] # "serving"
    BY <2>1, <2>5 DEF AcceptFails
  <2>6. ASSUME NEW p \in Op, HandlerStep(p) PROVE accept'[o] # "serving"
    <3>1. CASE CheckRunning(p) \/ HandleService(p) \/ Reopen(p) \/ AsyncAccept(p)
      BY <2>1, <3>1 DEF CheckRunning, HandleService, Reopen, AsyncAccept, Step
    <3>2. CASE CheckCanceled(p)
      BY <2>1, <3>2 DEF CheckCanceled, Step
    <3>3. CASE Return(p)
      BY <2>1, <3>3 DEF Return
    <3>. QED
      BY <2>6, <3>1, <3>2, <3>3 DEF HandlerStep
  <2>7. ASSUME Cancel PROVE accept'[o] # "serving"
    BY <2>1, <2>7, StopAcceptingFacts DEF Cancel
  <2>8. ASSUME NEW c \in Client, DropConnection(c) \/ SessionStep(c)
        PROVE  accept'[o] # "serving"
    BY <2>8 DEF DropConnection, SessionStep
  <2>. QED
    BY <2>2, <2>3, <2>4, <2>5, <2>6, <2>7, <2>8 DEF ServerNext
<1>. QED
  BY <1>1, ServerInvInit, ServerInvNext, PTL DEF ServerSafety, CanceledServesNoMore

-----------------------------------------------------------------------------
(* A client is turned away only when the service is no longer advertised.  *)

(* What a cancellation was aimed at was asked to stop, and `running` of the*)
(* server is clear for such an advertisement only; with a connection in    *)
(* hand a loop goes past the service only if it was asked to stop or is the*)
(* first since a cancel() that found none.                                 *)
StopInv ==
    /\ ServerInv
    /\ struck \subseteq asked
    /\ ~serving => Live \subseteq asked
    /\ Handed # {} => \A o \in Op :
           accept[o] \in {"again", "accepting", "leaving"} => o \in asked \cup doomed

(* Every step preserves it.                                                *)
LEMMA StopInvNext == StopInv /\ [ServerNext]_serverVars => StopInv'
<1>. SUFFICES ASSUME StopInv, [ServerNext]_serverVars PROVE StopInv'
  OBVIOUS
<1>. DEFINE Stops ==
        /\ struck \subseteq asked
        /\ ~serving => Live \subseteq asked
        /\ Handed # {} => \A o \in Op :
               accept[o] \in {"again", "accepting", "leaving"}
                   => o \in asked \cup doomed
<1>1. ServerInv /\ Stops /\ Replacer
  BY ServerAssumption DEF StopInv
<1>2. ServerInv'
  BY <1>1, ServerInvNext
<1>3. /\ accept \in [Op -> AcceptStage] /\ session \in [Client -> SessionStage]
      /\ LoopsAreLive /\ ManagerInv /\ OneAtATime
      /\ canceled => \A o \in Live : o \in asked \cup doomed
  BY <1>1 DEF ServerInv, ManagerInv, CancelHasCause
<1>4. ASSUME UNCHANGED <<managerVars, serving>>, Handed' \subseteq Handed,
             NEW o \in Op, NEW to, accept' = [accept EXCEPT ![o] = to],
             \/ Handed' = {}
             \/ to \in {"again", "accepting", "leaving"} => o \in asked \cup doomed
      PROVE  Stops'
  BY <1>1, <1>3, <1>4 DEF managerVars, Live
<1>5. ASSUME StopAccepting, Handed' = Handed, Live' = Live, Live \subseteq asked',
             struck' \subseteq asked'
      PROVE  Stops'
  <2>1. \A o \in Op : accept'[o] \in {"again", "accepting", "leaving"}
                          => o \in Live
    BY <1>3, <1>5 DEF StopAccepting, LoopsAreLive
  <2>. QED
    BY <1>5, <2>1 DEF StopAccepting
<1>6. ASSUME NEW o \in Op, Advertise(o) PROVE Stops'
  <2>1. Handed' = Handed /\ struck' = struck
    BY <1>6 DEF Advertise, StartOperation, Handed
  <2>2. CASE ~running
    <3>1. /\ asked' = asked /\ serving' = (serving \/ Launched # {})
          /\ notifier' = [notifier EXCEPT ![o] = "enabled"] /\ notifier[o] = "none"
      BY <1>6, <2>2 DEF Advertise, StartOperation, Launch, Fresh
    <3>2. o \in Launched
      BY <1>3, <3>1 DEF Launched, Live, ManagerInv, ManagerTypeOK
    <3>3. Handed' = {}
      BY <1>1, <2>1, <2>2 DEF ServerInv, ManagerInv, RunningMeansLive, HandedOneByOne
    <3>. QED
      BY <1>1, <2>1, <3>1, <3>2, <3>3
  <2>3. CASE running
    <3>1. /\ StopAccepting /\ asked' = asked \cup Live
          /\ notifier' = notifier
      BY <1>1, <1>6, <2>3 DEF Advertise, StartOperation
    <3>2. Live' = Live
      BY <3>1 DEF Live
    <3>3. struck' \subseteq asked' /\ Live \subseteq asked'
      BY <1>1, <2>1, <3>1
    <3>. HIDE DEF Stops
    <3>. QED
      BY <1>5, <2>1, <3>1, <3>2, <3>3
  <2>. QED
    BY <2>2, <2>3
<1>7. ASSUME NEW o \in Op, AdvertiseThrows(o) PROVE Stops'
  <2>1. /\ ~running /\ serving' = TRUE /\ UNCHANGED <<struck, asked, session>>
    BY <1>7 DEF AdvertiseThrows
  <2>2. Handed' = {}
    BY <1>1, <2>1 DEF ServerInv, ManagerInv, RunningMeansLive, HandedOneByOne, Handed
  <2>. QED
    BY <1>1, <2>1, <2>2
<1>8. ASSUME NEW o \in Op, NEW c \in Client, Connect(o, c) PROVE Stops'
  <2>1. /\ accept[o] = "outstanding" /\ accept' = [accept EXCEPT ![o] = "queued"]
        /\ UNCHANGED <<managerVars, serving>> /\ o \in Live
    BY <1>3, <1>8 DEF Connect, LoopsAreLive
  <2>2. \A p \in Op : p # o => accept[p] = "none"
    BY <1>3, <2>1 DEF LoopsAreLive, OneAtATime
  <2>3. \A p \in Op : accept'[p] \notin {"again", "accepting", "leaving"}
    BY <1>3, <2>1, <2>2
  <2>. QED
    BY <1>1, <2>1, <2>3 DEF managerVars, Live
<1>9. ASSUME NEW o \in Op, AcceptFails(o) PROVE Stops'
  <2>1. Handed' = Handed
    BY <1>9 DEF AcceptFails, Handed
  <2>. HIDE DEF Stops
  <2>. QED
    BY <1>4, <1>9, <2>1 DEF AcceptFails
<1>10. ASSUME NEW o \in Op, HandlerStep(o), ~Return(o) PROVE Stops'
  <2>. HIDE DEF Stops
  <2>1. accept[o] # "none" => o \in Live
    BY <1>3 DEF LoopsAreLive
  <2>2. CASE CheckRunning(o)
    <3>1. Handed' = Handed
      BY <2>2 DEF CheckRunning, Handed
    <3>2. o \in Live
      BY <2>1, <2>2 DEF CheckRunning, Step
    <3>3. ~serving => o \in asked
      BY <1>1, <3>2 DEF Stops
    <3>. QED
      BY <1>4, <2>2, <3>1, <3>3 DEF CheckRunning, Step
  <2>3. CASE CheckCanceled(o)
    <3>1. Handed' = Handed
      BY <2>3 DEF CheckCanceled, Handed
    <3>2. o \in Live
      BY <2>1, <2>3 DEF CheckCanceled, Step
    <3>3. canceled => o \in asked \cup doomed
      BY <1>3, <3>2
    <3>. QED
      BY <1>4, <2>3, <3>1, <3>3 DEF CheckCanceled, Step
  <2>4. CASE HandleService(o)
    <3>1. Handed' = {}
      BY <1>3, <2>4, HandedBecomeFacts DEF HandleService, SessionStage
    <3>. QED
      BY <1>4, <2>4, <3>1 DEF HandleService, Step
  <2>5. CASE Reopen(o)
    <3>1. Handed' = Handed /\ accept[o] = "again"
      BY <2>5 DEF Reopen, Handed
    <3>2. Handed' # {} => o \in asked \cup doomed
      BY <1>1, <3>1 DEF Stops
    <3>. QED
      BY <1>4, <2>5, <3>1, <3>2 DEF Reopen
  <2>6. CASE AsyncAccept(o)
    <3>1. Handed' = {}
      BY <1>3, <2>6, HandedBecomeFacts DEF AsyncAccept, SessionStage
    <3>. QED
      BY <1>4, <2>6, <3>1 DEF AsyncAccept, Step
  <2>. QED
    BY <1>10, <2>2, <2>3, <2>4, <2>5, <2>6 DEF HandlerStep
<1>11. ASSUME NEW o \in Op, Return(o) PROVE Stops'
  <2>1. Handed' = {}
    BY <1>3, <1>11, HandedBecomeFacts DEF Return, SessionStage
  <2>2. o \in Live /\ notifier[o] = "enabled" /\ Live = {o}
    BY <1>3, <1>11 DEF Return, LoopsAreLive, Live, OneAtATime
  <2>3. FinishOperation(o, "none")
    BY <1>11, <2>2 DEF Return, DestroyState
  <2>4. o \notin Live'
    BY <1>2, <1>3, <1>11 DEF Return, ServerInv, LoopsAreLive
  <2>5. serving' \/ Live' = {}
    BY <1>11, <2>2, <2>4 DEF Return, Launch, Launched
  <2>6. struck' = struck \ {o} /\ asked' = asked \ {o}
    BY <2>3 DEF FinishOperation
  <2>. QED
    BY <1>1, <2>1, <2>5, <2>6
<1>12. ASSUME NEW c \in Client, DropConnection(c) \/ SessionStep(c) PROVE Stops'
  <2>1. UNCHANGED <<managerVars, serving, accept>>
    BY <1>12 DEF DropConnection, SessionStep
  <2>2. Handed' = Handed
    BY <1>3, <1>12 DEF DropConnection, SessionStep, Handed
  <2>. QED
    BY <1>1, <2>1, <2>2 DEF managerVars, Live
<1>13. ASSUME Cancel PROVE Stops'
  <2>1. /\ StopAccepting /\ asked' = asked \cup Live /\ struck' = struck \cup Live
        /\ Live' = Live /\ Handed' = Handed
    BY <1>13 DEF Cancel, CancelOperation, Live, Handed
  <2>2. Live \subseteq asked' /\ struck' \subseteq asked'
    BY <1>1, <2>1
  <2>. HIDE DEF Stops
  <2>. QED
    BY <1>5, <2>1, <2>2
<1>14. ASSUME UNCHANGED serverVars PROVE Stops'
  BY <1>1, <1>14 DEF serverVars, managerVars, Live, Handed
<1>. HIDE DEF Stops
<1>15. Stops'
  BY <1>6, <1>7, <1>8, <1>9, <1>10, <1>11, <1>12, <1>13, <1>14 DEF ServerNext
<1>. QED
  BY <1>2, <1>15 DEF StopInv, Stops

(* A connection that was accepted gets its session, unless the             *)
(* advertisement it was accepted for was canceled or replaced, or is the   *)
(* first since a cancel() that found none.                                 *)
THEOREM ServerDroppedOnlyIfStopped == ServerSafety => DroppedOnlyIfStopped
<1>. DEFINE OnlyStopped == \A c \in Client :
                session[c] = "handed" /\ session'[c] \notin {"handed", "receiving"}
                    => Live \subseteq asked \cup doomed
<1>1. StopInv /\ [ServerNext]_serverVars => StopInv'
  BY StopInvNext
<1>2. ServerInit => StopInv
  <2>1. ServerInit => Live = {} /\ Handed = {} /\ struck = {}
    BY DEF ServerInit, ManagerInit, Live, Handed
  <2>. QED
    BY <2>1, ServerInvInit DEF StopInv
<1>3. StopInv /\ [ServerNext]_serverVars => [OnlyStopped]_serverVars
  <2>. SUFFICES ASSUME StopInv, ServerNext, NEW c \in Client,
                       session[c] = "handed", session'[c] \notin {"handed", "receiving"}
                PROVE  Live \subseteq asked \cup doomed
    OBVIOUS
  <2>1. /\ Handed # {} /\ session \in [Client -> SessionStage]
        /\ LoopsAreLive /\ OneAtATime
    BY DEF Handed, StopInv, ServerInv, ManagerInv
  <2>2. ASSUME NEW o \in Op, AsyncAccept(o) \/ Return(o)
        PROVE  Live \subseteq asked \cup doomed
    <3>1. accept[o] \in {"accepting", "leaving"}
      BY <2>2 DEF AsyncAccept, Return, Step
    <3>2. o \in asked \cup doomed /\ o \in Live
      BY <2>1, <3>1 DEF StopInv, LoopsAreLive
    <3>. QED
      BY <2>1, <3>2 DEF OneAtATime
  <2>3. ASSUME NEW o \in Op, HandlerStep(o), ~AsyncAccept(o), ~Return(o)
        PROVE  FALSE
    <3>1. c \in Handed
      BY DEF Handed
    <3>2. ~HandleService(o)
      BY <2>1, <3>1, HandedBecomeFacts DEF HandleService, SessionStage
    <3>. QED
      BY <2>3, <3>2 DEF HandlerStep, CheckRunning, CheckCanceled, Reopen
  <2>4. ASSUME NEW o \in Op, Advertise(o) \/ AdvertiseThrows(o) \/ AcceptFails(o)
        PROVE  FALSE
    BY <2>4 DEF Advertise, AdvertiseThrows, AcceptFails
  <2>5. ASSUME NEW o \in Op, NEW d \in Client, Connect(o, d) PROVE FALSE
    BY <2>1, <2>5 DEF Connect
  <2>6. ASSUME NEW d \in Client, DropConnection(d) \/ SessionStep(d) PROVE FALSE
    BY <2>1, <2>6 DEF DropConnection, SessionStep
  <2>7. ~Cancel
    BY DEF Cancel
  <2>. QED
    BY <2>2, <2>3, <2>4, <2>5, <2>6, <2>7 DEF ServerNext
<1>. QED
  BY <1>1, <1>2, <1>3, PTL DEF ServerSafety, DroppedOnlyIfStopped
=============================================================================
