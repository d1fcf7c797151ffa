------------------------------- MODULE MCWaiter -------------------------------
(***************************************************************************)
(* Instances of Waiter.  Handlers a and b wait, v and w do not, and s is   *)
(* made ready by a thread outside the context.                             *)
(***************************************************************************)
EXTENDS Waiter, TLC

CONSTANTS a, b, v, w, s, e1, e2

(* Handlers wait for plain handlers; threads outside wait for a handler    *)
(* that waits itself, and for both kinds of waitable at once.              *)
MCWaitable == {a, b, v, w, s}
MCNeeds == a :> {{v}} @@ b :> {{v, w}} @@ v :> {{}} @@ w :> {{}} @@ s :> {{}}
           @@ e1 :> {{a}, {b}} @@ e2 :> {{w, s}}

(* A pool: a waits inside the context for w.                               *)
InsideWaitable == {a, w}
InsideNeeds == a :> {{w}} @@ w :> {{}}
=============================================================================
