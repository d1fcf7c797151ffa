------------------------------- MODULE Channel -------------------------------
(***************************************************************************)
(* What asyncWrite and asyncRead promise together for one direction of a   *)
(* connection: whole messages arrive, unchanged, each once, in the order   *)
(* in which they were written.  Nothing is said of bytes, headers, buffers *)
(* or handlers, nor that a message arrives at all.                         *)
(***************************************************************************)
EXTENDS Naturals, Sequences

CONSTANT Messages   \* what may be written

VARIABLES
    sent,       \* messages written, in order
    received    \* messages handed to the reader, in order

channelVars == <<sent, received>>

ChannelInit == sent = <<>> /\ received = <<>>

Write(m) == sent' = Append(sent, m) /\ UNCHANGED received

Receive ==
    /\ Len(received) < Len(sent)
    /\ received' = Append(received, sent[Len(received) + 1])
    /\ UNCHANGED sent

ChannelNext == (\E m \in Messages : Write(m)) \/ Receive

ChannelSafety == ChannelInit /\ [][ChannelNext]_channelVars
=============================================================================
