------------------------------ MODULE Resolver ------------------------------
(***************************************************************************)
(* include/asionet/Resolver.h: resolutions of host names are queued by an  *)
(* AsyncOperationManager and each is a timed operation on the one          *)
(* CloseableResolver, a boost resolver with a flag that says whether it is *)
(* open.  Closing sets the flag and cancels what is outstanding, and does  *)
(* nothing when the flag is set already; a resolution is initiated whatever*)
(* the flag says.                                                          *)
(*                                                                         *)
(* As in DatagramSender a launch holds the manager's mutex up to the       *)
(* initiation, while a timeout does not take it: a timeout that passes     *)
(* between the two finds nothing to cancel, and leaves the flag such that  *)
(* stop() finds nothing to close either.                                   *)
(***************************************************************************)
EXTENDS ManagedOperation

ASSUME ResolverAssumption == ~Replacer

resolverVars == <<managerVars, timedVars>>

(* The constructor leaves the resolver open.                               *)
ResolverInit ==
    /\ ManagerInit
    /\ open = TRUE
    /\ timer = [o \in Op |-> "off"]
    /\ stage = [o \in Op |-> "idle"]
    /\ code = [o \in Op |-> "none"]
    /\ error = [o \in Op |-> "none"]
    /\ stopped = {}

-----------------------------------------------------------------------------

(* asyncResolveOperation up to the initiation: open, start the timeout.    *)
Launch ==
    /\ open' = (open \/ Launched # {})
    /\ timer' = TimerBegun(Launched)

(* CloseableResolver::close                                                *)
CloseResolver ==
    \/ open /\ CloseObject
    \/ ~open /\ UNCHANGED <<open, stage, code>>

(* asyncResolve                                                            *)
AsyncResolve(o) ==
    /\ MutexFree /\ Unused(o)
    /\ StartOperation(o)
    /\ Launch
    /\ stage' = StageBegun(Launched)
    /\ UNCHANGED <<code, error, stopped>>

(* async_resolve is initiated, on a closed resolver as on an open one.     *)
InitiateResolve(o) ==
    /\ stage[o] = "starting"
    /\ stage' = [stage EXCEPT ![o] = "outstanding"]
    /\ UNCHANGED <<managerVars, open, timer, code, error, stopped>>

(* The close lambda of the timeout.                                        *)
CloseOnResolveTimeout(o) ==
    /\ timer[o] = "passed"
    /\ timer' = [timer EXCEPT ![o] = "off"]
    /\ CloseResolver
    /\ stopped' = stopped \cup ({o} \cap Undecided)
    /\ UNCHANGED <<managerVars, error>>

(* The other steps of the timed operation.                                 *)
ResolverTimedStep(o) ==
    /\ \/ SystemDone(o) \/ ExpireTimer(o) \/ EnterTimeout(o)
       \/ Complete(o) \/ Decide(o)
    /\ UNCHANGED managerVars

(* The handler notifies the manager, which launches the resolution that    *)
(* waits longest, and calls the user.                                      *)
NotifyAndCall(o) ==
    /\ stage[o] = "decided" /\ MutexFree
    /\ Notify(o)
    /\ Launch
    /\ stage' = [StageBegun(Launched) EXCEPT ![o] = "calling"]
    /\ UNCHANGED <<code, error, stopped>>

(* The handler returns and its state is destroyed.                         *)
Return(o) ==
    /\ stage[o] = "calling" /\ MutexFree
    /\ DestroyState(o)
    /\ Leave(o)
    /\ UNCHANGED <<open, timer>>

(* stop: close the resolver, forget the resolutions that wait.             *)
Stop ==
    /\ MutexFree
    /\ CancelOperation
    /\ CloseResolver
    /\ stopped' = stopped \cup Undecided
    /\ UNCHANGED <<timer, error>>

ResolverNext ==
    \/ \E o \in Op :
        \/ AsyncResolve(o) \/ InitiateResolve(o) \/ CloseOnResolveTimeout(o)
        \/ ResolverTimedStep(o) \/ NotifyAndCall(o) \/ Return(o)
    \/ Stop

ResolverSafety == ResolverInit /\ [][ResolverNext]_resolverVars

(* What has begun goes on, what is queued is run in turn, and the operating*)
(* system gives a resolution up of its own accord: the timeout may miss it.*)
ResolverProgress(o) ==
    \/ InitiateResolve(o) \/ CloseOnResolveTimeout(o) \/ NotifyAndCall(o)
    \/ (SystemDone(o) \/ Decide(o)) /\ UNCHANGED managerVars

ResolverSpec ==
    /\ ResolverSafety
    /\ \A o \in Op :
        /\ WF_resolverVars(ResolverProgress(o))
        /\ SF_resolverVars(Return(o))
        /\ SF_resolverVars(EnterTimeout(o) /\ UNCHANGED managerVars)
        /\ SF_resolverVars(Complete(o) /\ UNCHANGED managerVars)

-----------------------------------------------------------------------------

(* The types of the state.                                                 *)
ResolverTypeOK == ManagerTypeOK /\ TimedTypeOK
=============================================================================
