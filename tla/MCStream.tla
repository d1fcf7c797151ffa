------------------------------ MODULE MCStream ------------------------------
(***************************************************************************)
(* Messages that are empty, of less than, of exactly and of more than the  *)
(* maximum size, here 2; a byte is a bit, so the header holds up to 15.    *)
(***************************************************************************)
EXTENDS Stream

MCMessages == {<<>>, <<1>>, <<0, 1>>, <<1, 0, 1>>}
=============================================================================
