---------------------------- MODULE ServiceServer ----------------------------
(***************************************************************************)
(* include/asionet/ServiceServer.h: an advertisement is an operation of an *)
(* AsyncOperationManager with the replacer.  It accepts connections one    *)
(* after another until the server is canceled or the service advertised    *)
(* anew; each connection is served by a session of its own, which outlives *)
(* the advertisement.                                                      *)
(*                                                                         *)
(* The accept handler runs on a worker without the manager's mutex: each   *)
(* of its reads and writes of shared state is a step.  The acceptor itself *)
(* is not synchronized either; its calls are taken to be atomic.  A launch *)
(* ends with async_accept, so nothing sees it half done, and it is part of *)
(* the step that launches.                                                 *)
(***************************************************************************)
EXTENDS AsyncOperationManager

CONSTANT
    Client      \* connections that clients make

ASSUME ServerAssumption == Replacer

VARIABLES
    serving,    \* ServiceServer::running
    acceptor,   \* acceptor.is_open()
    accept,     \* the accept loop of each advertisement
    session     \* what became of each connection

serverVars == <<managerVars, serving, acceptor, accept, session>>

AcceptStage == {"none",         \* no AcceptState
                "outstanding",  \* async_accept outstanding
                "queued",       \* accept handler queued
                "checked",      \* past `if (!running) return`
                "serving",      \* past the check of isCanceled()
                "again",        \* in accept(), for the next connection
                "accepting",    \* before async_accept
                "leaving"}      \* returning

SessionStage == {"none",            \* not connected
                 "handed",          \* in the hands of the accept handler
                 "undelivered",     \* in an accept handler that is returning
                 "receiving", "calling", "responding"}

ServerInit ==
    /\ ManagerInit
    /\ serving = FALSE
    /\ acceptor = FALSE
    /\ accept = [o \in Op |-> "none"]
    /\ session = [c \in Client |-> "none"]

-----------------------------------------------------------------------------

(* The connection handed to the accept handler, if there is one: at most   *)
(* one accept is outstanding or handled (AcceptHasOneUser).                *)
Handed == {c \in Client : session[c] = "handed"}
HandedBecome(s) == [c \in Client |-> IF c \in Handed THEN s ELSE session[c]]

(* advertiseServiceOperation, by the advertisement launched in this step.  *)
Launched == Live' \ Live
Launch ==
    /\ serving' = (serving \/ Launched # {})
    /\ acceptor' = (acceptor \/ Launched # {})

(* cancelOperation: clear the flag and close the acceptor, which completes *)
(* an outstanding accept with an error.                                    *)
StopAccepting ==
    /\ serving' = FALSE
    /\ acceptor' = FALSE
    /\ accept' = [o \in Op |-> IF accept[o] = "outstanding" THEN "queued" ELSE accept[o]]

(* advertiseService                                                        *)
Advertise(o) ==
    /\ StartOperation(o)
    /\ \/ /\ ~running
          /\ Launch
          /\ accept' = [accept EXCEPT ![o] = "outstanding"]
       \/ running /\ StopAccepting
    /\ UNCHANGED session

(* advertiseService while another process holds the port: the acceptor's   *)
(* constructor throws; the AcceptState, already made, ends the operation.  *)
AdvertiseThrows(o) ==
    /\ Fresh(o)
    /\ ~running /\ ~acceptor
    /\ serving' = TRUE
    /\ canceled' = FALSE
    /\ doomed' = {}
    /\ UNCHANGED <<running, pending, notifier, asked, struck, acceptor, accept, session>>

(* A client connects.                                                      *)
Connect(o, c) ==
    /\ accept[o] = "outstanding" /\ session[c] = "none"
    /\ accept' = [accept EXCEPT ![o] = "queued"]
    /\ session' = [session EXCEPT ![c] = "handed"]
    /\ UNCHANGED <<managerVars, serving, acceptor>>

(* The system fails an accept.                                             *)
AcceptFails(o) ==
    /\ accept[o] = "outstanding"
    /\ accept' = [accept EXCEPT ![o] = "queued"]
    /\ UNCHANGED <<managerVars, serving, acceptor, session>>

Step(o, from, to) ==
    /\ accept[o] = from
    /\ accept' = [accept EXCEPT ![o] = to]
    /\ UNCHANGED <<managerVars, serving, acceptor>>

(* Defect: a closed acceptor is not taken for the end.                     *)
CheckNothing(o) == Step(o, "queued", "checked") /\ UNCHANGED session

(* `if (!running) return`                                                  *)
CheckRunning(o) ==
    /\ Step(o, "queued", IF serving THEN "checked" ELSE "leaving")
    /\ UNCHANGED session

(* Defect: isCanceled() is not asked.                                      *)
CheckErrorOnly(o) ==
    /\ Step(o, "checked", IF Handed = {} THEN "again" ELSE "serving")
    /\ UNCHANGED session

(* `if (!acceptError && !operationManager.isCanceled())`                   *)
CheckCanceled(o) ==
    /\ Step(o, "checked", IF Handed = {} \/ canceled THEN "again" ELSE "serving")
    /\ UNCHANGED session

(* Defect: the connection is kept for no session.                          *)
HandleNothing(o) == Step(o, "serving", "again") /\ UNCHANGED session

(* handleService begins to receive the request.                            *)
HandleService(o) ==
    /\ Step(o, "serving", "again")
    /\ session' = HandedBecome("receiving")

(* accept: open the acceptor unless it is open ...                         *)
Reopen(o) ==
    /\ accept[o] = "again"
    /\ acceptor' = TRUE
    /\ accept' = [accept EXCEPT ![o] = "accepting"]
    /\ UNCHANGED <<managerVars, serving, session>>

(* ... and accept on it, with the loop's state and a new socket, which     *)
(* fails when it was closed in between.  The handler has only to return.   *)
AsyncAccept(o) ==
    /\ Step(o, "accepting", IF acceptor THEN "outstanding" ELSE "queued")
    /\ session' = HandedBecome("undelivered")

(* That handler returns, maybe long after the next one has run, and closes *)
(* the connection it has not passed to a session.                          *)
DropConnection(c) ==
    /\ session[c] = "undelivered"
    /\ session' = [session EXCEPT ![c] = "none"]
    /\ UNCHANGED <<managerVars, serving, acceptor, accept>>

(* The handler returns and its connection and the AcceptState are          *)
(* destroyed, which launches the advertisement that waits.                 *)
Return(o) ==
    /\ accept[o] = "leaving"
    /\ DestroyState(o)
    /\ Launch
    /\ accept' = [p \in Op |-> IF p = o THEN "none"
                               ELSE IF p \in Launched THEN "outstanding" ELSE accept[p]]
    /\ session' = HandedBecome("none")

(* cancel, whether the service is advertised or not.                       *)
Cancel ==
    /\ CancelOperation
    /\ StopAccepting
    /\ UNCHANGED session

(* A session: the request arrives, or the receiving fails or times out and *)
(* the session ends; the user's handler makes the response, which is sent  *)
(* if it can be encoded; whatever comes of that ends the session.          *)
SessionStep(c) ==
    /\ \E s \in {"receiving", "calling", "responding"} :
        /\ session[c] = s
        /\ \/ session' = [session EXCEPT ![c] = "none"]
           \/ /\ s # "responding"
              /\ session' = [session EXCEPT ![c] =
                                IF s = "receiving" THEN "calling" ELSE "responding"]
    /\ UNCHANGED <<managerVars, serving, acceptor, accept>>

HandlerStep(o) ==
    \/ CheckRunning(o) \/ CheckCanceled(o) \/ HandleService(o)
    \/ Reopen(o) \/ AsyncAccept(o) \/ Return(o)

ServerNext ==
    \/ \E o \in Op :
        \/ Advertise(o) \/ AdvertiseThrows(o) \/ AcceptFails(o) \/ HandlerStep(o)
        \/ \E c \in Client : Connect(o, c)
    \/ \E c \in Client : DropConnection(c) \/ SessionStep(c)
    \/ Cancel

ServerSafety == ServerInit /\ [][ServerNext]_serverVars

(* Workers run what is queued; no client need ever connect.                *)
ServerSpec == ServerSafety /\ \A o \in Op : WF_serverVars(HandlerStep(o))

-----------------------------------------------------------------------------

(* The types of the state.                                                 *)
ServerTypeOK ==
    /\ ManagerTypeOK
    /\ serving \in BOOLEAN
    /\ acceptor \in BOOLEAN
    /\ accept \in [Op -> AcceptStage]
    /\ session \in [Client -> SessionStage]

(* One accept loop runs on the acceptor, that of the operation whose       *)
(* notifier keeps the manager running, and it has one connection at most.  *)
AcceptHasOneUser ==
    /\ \A o \in Op : accept[o] # "none" <=> o \in Live
    /\ \A o, p \in Live : o = p
    /\ \A c, d \in Handed : c = d

(* cancel() is effective: an advertisement that was canceled serves no     *)
(* further connection, although it may accept one.                         *)
CanceledServesNoMore ==
    [][\A o \in struck : accept'[o] = "serving" => accept[o] = "serving"]_serverVars

(* A connection that was accepted gets a session, unless the advertisement *)
(* it was accepted for has been canceled or replaced, or is the first since*)
(* a cancel() that found none.                                             *)
DroppedOnlyIfStopped ==
    [][\A c \in Client :
            session[c] = "handed" /\ session'[c] \notin {"handed", "receiving"}
                => Live \subseteq asked \cup doomed]_serverVars

(* An advertisement that was canceled or replaced ends once its accept has *)
(* completed, with an error or with the connection of one more client.     *)
StoppedEnds ==
    \A o \in Op :
        o \in asked /\ accept[o] \in {"queued", "leaving"} ~> o \notin asked
=============================================================================
