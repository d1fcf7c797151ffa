--------------------------- MODULE ServiceClient ---------------------------
(***************************************************************************)
(* include/asionet/ServiceClient.h, with both asyncConnect of Socket.h and *)
(* the timed operations of Stream.h and Message.h: calls are queued by an  *)
(* AsyncOperationManager.  A call is a chain of timed operations, its      *)
(* parts: resolve the host (on a resolver of its own), connect, write the  *)
(* request, read header and data of the response, all under one timeout.   *)
(* cancel() closes the socket.                                             *)
(*                                                                         *)
(* One worker runs the context, so no timeout runs inside a handler: the   *)
(* handler of a part begins and initiates the next part in one step.  (The *)
(* close lambda of the resolver refers to an object that the completion    *)
(* handler owns; with more workers it may outlive it.)  The first part is  *)
(* launched by any thread, under the manager's mutex: its timer is started *)
(* in one step and it is initiated in another, between which the worker    *)
(* may run the timeout.                                                    *)
(*                                                                         *)
(* Closing completes what is outstanding; it does nothing to what is yet to*)
(* be initiated, and async_connect opens the socket again.  A request that *)
(* cannot be encoded does not reach the manager, as in DatagramSender.     *)
(***************************************************************************)
EXTENDS AsyncOperationManager, Integers, FiniteSets

CONSTANTS
    ByName,         \* calls to a host name; the others have the endpoints
    CallTimeout,    \* timeout of every call, in ticks of the clock
    MaxAge,         \* bound: age of a call that is still told apart
    StrictDecoder   \* whether the user's Decoder throws on an empty buffer

ASSUME ClientAssumption ==
    /\ ~Replacer
    /\ ByName \subseteq Op
    /\ CallTimeout \in Nat /\ MaxAge \in Nat /\ MaxAge > CallTimeout
    /\ StrictDecoder \in BOOLEAN

VARIABLES
    open,           \* is_open() of the socket
    closedResolver, \* calls whose resolver has been closed
    timer,          \* the timeout of each part
    stage,          \* the operation of each part and its handler
    code,           \* the boostCode it completed with
    error,          \* the error its handler was given, or gives
    age,            \* time since the running call was launched
    timeout,        \* AsyncState::timeout
    startTime,      \* AsyncState::startTime, as an age
    deadline,       \* the age at which the last timer started is due
    interrupted     \* history: calls that lost an open socket or resolver
                    \* to their own timeout or to cancel()

timeVars == <<age, timeout, startTime, deadline>>
ioVars == <<open, closedResolver, timer, stage, code, error>>
clientVars == <<managerVars, ioVars, timeVars, interrupted>>

Kind == {"resolve", "connect", "write", "header", "data"}
Part == Op \X Kind

Following == [resolve |-> "connect", connect |-> "write",
              write |-> "header", header |-> "data"]

(* The parts are timed operations.  `stopped` is not followed part by part.*)
Socket == INSTANCE TimedOperation
            WITH Op <- Part, Workers <- 1, stopped <- {}

ClientInit ==
    /\ ManagerInit
    /\ open = FALSE
    /\ closedResolver = {}
    /\ timer = [p \in Part |-> "off"]
    /\ stage = [p \in Part |-> "idle"]
    /\ code = [p \in Part |-> "none"]
    /\ error = [p \in Part |-> "none"]
    /\ age = 0 /\ timeout = 0 /\ startTime = 0 /\ deadline = 0
    /\ interrupted = {}

-----------------------------------------------------------------------------

(* No thread is inside a method of the manager: only a first part is ever  *)
(* found between its timer's start and its initiation.                     *)
MutexFree == \A p \in Part : stage[p] # "starting"

(* The parts that the calls launched in this step begin with.              *)
FirstPart(c) == <<c, IF c \in ByName THEN "resolve" ELSE "connect">>
Launched == {FirstPart(c) : c \in Live' \ Live}

(* asyncCallOperation, after newSocket: the start of the clock, and of the *)
(* timer of the first part.                                                *)
Launch ==
    /\ timer' = Socket!TimerBegun(Launched)
    /\ IF Launched = {} THEN UNCHANGED timeVars
       ELSE /\ age' = 0 /\ startTime' = 0
            /\ timeout' = CallTimeout /\ deadline' = CallTimeout

(* asyncCall                                                               *)
AsyncCall(c) ==
    /\ MutexFree
    /\ \A k \in Kind : Socket!Unused(<<c, k>>)
    /\ StartOperation(c)
    /\ open' = (open /\ Launched = {})
    /\ Launch
    /\ stage' = Socket!StageBegun(Launched)
    /\ UNCHANGED <<closedResolver, code, error, interrupted>>

(* The first part is initiated: a closed resolver resolves all the same,   *)
(* and async_connect opens the socket.                                     *)
InitiateFirst(c) ==
    LET p == FirstPart(c) IN
    /\ stage[p] = "starting"
    /\ stage' = [stage EXCEPT ![p] = "outstanding"]
    /\ open' = (open \/ p[2] = "connect")
    /\ UNCHANGED <<managerVars, closedResolver, timer, code, error, timeVars, interrupted>>

-----------------------------------------------------------------------------
(* The steps of a timed operation.                                         *)

IsOpen(p) == IF p[2] = "resolve" THEN p[1] \notin closedResolver ELSE open

(* The system completes a part.                                            *)
SystemDone(p) ==
    /\ Socket!SystemDone(p)
    /\ UNCHANGED <<managerVars, closedResolver, timeVars, interrupted>>

(* Time passes for the running call.                                       *)
Tick ==
    /\ Live # {} /\ age < MaxAge
    /\ age' = age + 1
    /\ UNCHANGED <<managerVars, ioVars, timeout, startTime, deadline, interrupted>>

(* The timer of the running part goes off when it is due.                  *)
ExpireTimer(p) ==
    /\ age >= deadline
    /\ Socket!ExpireTimer(p)
    /\ UNCHANGED <<managerVars, closedResolver, timeVars, interrupted>>

EnterTimeout(p) ==
    /\ Socket!EnterTimeout(p)
    /\ UNCHANGED <<managerVars, closedResolver, timeVars, interrupted>>

(* What is outstanding on the closed objects completes.                    *)
Completed(parts) ==
    LET hit == {p \in parts : stage[p] = "outstanding"} IN
    /\ stage' = [p \in Part |-> IF p \in hit THEN "completed" ELSE stage[p]]
    /\ code' = [p \in Part |-> IF p \in hit THEN "closed" ELSE code[p]]

SocketParts == {p \in Part : p[2] # "resolve"}

(* Defect: the timeout closes the socket, whatever is under way.           *)
CloseSocketOnTimeout(p) ==
    /\ timer[p] = "passed"
    /\ timer' = [timer EXCEPT ![p] = "off"]
    /\ interrupted' = interrupted \cup {p[1]}
    /\ open' = FALSE
    /\ Completed(SocketParts)
    /\ UNCHANGED <<managerVars, closedResolver, error, timeVars>>

(* Defect: every timeout of a call to a name closes its resolver.          *)
CloseResolverOnTimeout(p) ==
    /\ timer[p] = "passed"
    /\ timer' = [timer EXCEPT ![p] = "off"]
    /\ closedResolver' = closedResolver \cup ({p[1]} \cap ByName)
    /\ IF p[1] \in ByName
       THEN Completed({<<p[1], "resolve">>}) /\ UNCHANGED open
       ELSE Completed(SocketParts) /\ open' = FALSE
    /\ UNCHANGED <<managerVars, error, timeVars, interrupted>>

(* The close lambda closes the call's resolver or the socket.              *)
CloseOnTimeout(p) ==
    /\ timer[p] = "passed"
    /\ timer' = [timer EXCEPT ![p] = "off"]
    /\ interrupted' = IF IsOpen(p) THEN interrupted \cup {p[1]} ELSE interrupted
    /\ IF p[2] = "resolve"
       THEN /\ closedResolver' = closedResolver \cup {p[1]}
            /\ Completed({p})
            /\ UNCHANGED open
       ELSE /\ open' = FALSE
            /\ Completed(SocketParts)
            /\ UNCHANGED closedResolver
    /\ UNCHANGED <<managerVars, error, timeVars>>

(* The completion handler begins: timer->cancel().                         *)
Complete(p) ==
    /\ Socket!Complete(p)
    /\ UNCHANGED <<managerVars, closedResolver, timeVars, interrupted>>

(* timedAsyncOperation's error, which asyncWrite replaces when the request *)
(* was not transferred completely, and which asyncRead completes with the  *)
(* frame's.                                                                *)
PartErrors(p) ==
    LET timed == IF ~IsOpen(p) THEN "aborted"
                 ELSE IF code[p] = "ok" THEN "success" ELSE "failedOperation"
    IN  IF p[2] = "write" /\ code[p] # "ok" THEN {"failedOperation"}
        ELSE IF p[2] = "data" /\ timed = "success"
             THEN {"success", "invalidFrame"}
        ELSE {timed}

Decide(p) ==
    /\ stage[p] = "handling"
    /\ stage' = [stage EXCEPT ![p] = "decided"]
    /\ \E e \in PartErrors(p) : error' = [error EXCEPT ![p] = e]
    /\ UNCHANGED <<managerVars, open, closedResolver, timer, code, timeVars, interrupted>>

-----------------------------------------------------------------------------
(* The handlers of the parts.                                              *)

(* What is left of the call's timeout.                                     *)
Remaining == timeout - (age - startTime)

(* Defect: startTime is not set to the present.                            *)
TimeoutShrinks ==
    /\ timeout' = Remaining
    /\ deadline' = age + timeout'
    /\ UNCHANGED <<age, startTime>>

(* updateTimeout, and a timer with what is left.                           *)
UpdateTimeout ==
    /\ timeout' = Remaining
    /\ startTime' = age
    /\ deadline' = age + timeout'
    /\ UNCHANGED age

(* asyncConnect and asyncRead subtract what they have spent themselves,    *)
(* and leave the AsyncState alone.                                         *)
PassRemaining ==
    /\ deadline' = age + Remaining
    /\ UNCHANGED <<age, timeout, startTime>>

(* connectHandler, writeHandler, and the handlers inside asyncConnect and  *)
(* asyncRead, without an error: the next part begins, is initiated, and    *)
(* the handler returns.  On a closed socket a part fails at once, but for  *)
(* async_connect.                                                          *)
Continue(p) ==
    /\ stage[p] = "decided" /\ error[p] = "success" /\ p[2] # "data"
    /\ LET q == <<p[1], Following[p[2]]>> IN
        /\ timer' = [timer EXCEPT ![q] = "waiting"]
        /\ open' = (open \/ q[2] = "connect")
        /\ stage' = [stage EXCEPT ![p] = "idle",
                        ![q] = IF open' THEN "outstanding" ELSE "completed"]
        /\ code' = [code EXCEPT ![p] = "none",
                        ![q] = IF open' THEN "none" ELSE "closed"]
        /\ error' = [error EXCEPT ![p] = "none"]
        /\ IF q[2] \in {"write", "header"} THEN UpdateTimeout ELSE PassRemaining
    /\ UNCHANGED <<managerVars, closedResolver, interrupted>>

(* asyncReceive decodes what was read, nothing after an error, before it   *)
(* looks at the error.                                                     *)
Reported(p) ==
    IF p[2] \notin {"header", "data"} THEN {error[p]}
    ELSE IF error[p] = "success" THEN {"success", "decoding"}
    ELSE IF StrictDecoder THEN {"decoding"} ELSE {error[p]}

(* A part is the last if it failed, or has read the response, which may be *)
(* empty and end with its header.                                          *)
IsLast(p) == error[p] # "success" \/ p[2] \in {"header", "data"}

(* Defect: the socket stays open when a call has ended.                    *)
FinishAndStayOpen(p) ==
    /\ stage[p] = "decided" /\ IsLast(p) /\ MutexFree
    /\ Notify(p[1])
    /\ open' = (open /\ Launched = {})
    /\ Launch
    /\ stage' = [Socket!StageBegun(Launched) EXCEPT ![p] = "calling"]
    /\ \E e \in Reported(p) : error' = [error EXCEPT ![p] = e]
    /\ UNCHANGED <<closedResolver, code, interrupted>>

(* The end of a call: close the socket, notify the manager, which launches *)
(* the next call, and call the user.                                       *)
FinishCall(p) ==
    /\ stage[p] = "decided" /\ IsLast(p) /\ MutexFree
    /\ Notify(p[1])
    /\ open' = FALSE
    /\ Launch
    /\ stage' = [Socket!StageBegun(Launched) EXCEPT ![p] = "calling"]
    /\ \E e \in Reported(p) : error' = [error EXCEPT ![p] = e]
    /\ UNCHANGED <<closedResolver, code, interrupted>>

(* The user's handler returns and the call's state is destroyed.           *)
Return(p) ==
    /\ stage[p] = "calling" /\ MutexFree
    /\ DestroyState(p[1])
    /\ stage' = [stage EXCEPT ![p] = "idle"]
    /\ code' = [code EXCEPT ![p] = "none"]
    /\ error' = [error EXCEPT ![p] = "none"]
    /\ closedResolver' = closedResolver \ {p[1]}
    /\ interrupted' = interrupted \ {p[1]}
    /\ UNCHANGED <<open, timer, timeVars>>

(* cancel: close the socket, forget the calls that wait.                   *)
Cancel ==
    /\ MutexFree
    /\ CancelOperation
    /\ open' = FALSE
    /\ Completed(SocketParts)
    /\ interrupted' = IF open THEN interrupted \cup Live ELSE interrupted
    /\ UNCHANGED <<closedResolver, timer, error, timeVars>>

(* What the worker does next.                                              *)
WorkerStep(p) ==
    \/ EnterTimeout(p) \/ CloseOnTimeout(p) \/ Complete(p) \/ Decide(p)
    \/ Continue(p) \/ FinishCall(p) \/ Return(p)

ClientNext ==
    \/ \E c \in Op : AsyncCall(c) \/ InitiateFirst(c)
    \/ \E p \in Part : SystemDone(p) \/ ExpireTimer(p) \/ WorkerStep(p)
    \/ Tick \/ Cancel

ClientSafety == ClientInit /\ [][ClientNext]_clientVars

(* Time passes, calls that were begun go on, and the one worker is never   *)
(* idle while a handler is queued.  Peers owe nothing, but the operating   *)
(* system gives up resolving and connecting of its own accord.             *)
SystemGivesUp ==
    \E c \in Op : SystemDone(<<c, "resolve">>) \/ SystemDone(<<c, "connect">>)

ClientSpec ==
    /\ ClientSafety
    /\ WF_clientVars(Tick)
    /\ WF_clientVars(\E p \in Part : ExpireTimer(p))
    /\ WF_clientVars(\E c \in Op : InitiateFirst(c))
    /\ WF_clientVars(\E p \in Part : WorkerStep(p))
    /\ WF_clientVars(SystemGivesUp)

-----------------------------------------------------------------------------

(* The types of the state.                                                 *)
ClientTypeOK ==
    /\ ManagerTypeOK
    /\ open \in BOOLEAN
    /\ closedResolver \subseteq ByName
    /\ timer \in [Part -> Socket!TimerStage]
    /\ stage \in [Part -> Socket!Stage]
    /\ code \in [Part -> Socket!Code]
    /\ error \in [Part -> Socket!Result \cup {"invalidFrame", "decoding"}]
    /\ age \in 0 .. MaxAge /\ startTime \in 0 .. age
    /\ {timeout, deadline} \subseteq Int
    /\ interrupted \subseteq Op

(* The parts of a call that have not come to the user's handler.           *)
Busy(c) == {p \in {c} \X Kind : stage[p] \notin {"idle", "calling"}}

(* One call at a time, the one the manager takes to be running, uses the   *)
(* socket, with one timed operation at a time; no timer is left behind, and*)
(* between calls the socket is closed.                                     *)
SocketHasOneUser ==
    /\ OneAtATime
    /\ \A c \in Op : Cardinality(Busy(c)) = IF c \in Live THEN 1 ELSE 0
    /\ \A p \in Part : timer[p] # "off" => p \in Busy(p[1])
    /\ open => Live # {}

(* However long each part takes, the timer of the part that runs is due    *)
(* when the timeout given to asyncCall has passed since the launch, neither*)
(* before nor after.                                                       *)
TimeoutKept == \A p \in Part : timer[p] = "waiting" => deadline = CallTimeout

(* A call is aborted, or finds its objects closed, only through its own    *)
(* timeout or a cancel() while it ran, never through the call before it.   *)
AbortedOnlyIfInterrupted ==
    \A p \in Part :
        code[p] = "closed" \/ error[p] = "aborted" => p[1] \in interrupted

(* Once a call has lost an open socket or resolver to its timeout or to    *)
(* cancel(), no part of it is found successful any more, so that it ends   *)
(* with an error unless all it had to do was done.                         *)
InterruptedCallFails ==
    [][\A p \in Part :
        stage[p] = "handling" /\ stage'[p] = "decided" /\ p[1] \in interrupted
            => error'[p] # "success"]_clientVars

(* A call that is launched ends, although the peer may never answer, and a *)
(* timeout or a cancel() may come before the part it is meant for.         *)
EveryCallEnds == \A c \in Op : c \in Live ~> c \notin Live

(* "Any asynchronous operation must be cancelable at any given time": a    *)
(* part of a call at which a cancel() was aimed is not found successful,   *)
(* but for the name resolution that the call may have been in.             *)
CanceledCallFails ==
    [][\A p \in SocketParts :
        stage[p] = "handling" /\ stage'[p] = "decided" /\ p[1] \in struck
            => error'[p] # "success"]_clientVars
=============================================================================
