----------------------------- MODULE Operations -----------------------------
(***************************************************************************)
(* The identities of the asynchronous operations that the other modules    *)
(* start, store, time and finish.  An identity may be used again once      *)
(* nothing refers to it any more.                                          *)
(***************************************************************************)
CONSTANT Op     \* identities of asynchronous operations
=============================================================================
