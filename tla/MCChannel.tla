----------------------------- MODULE MCChannel ------------------------------
(* ChannelSpec with small numbers of messages.                             *)
EXTENDS ChannelSpec, TLC

CONSTANTS SendA, SendB

\* Messages each end sends
MCMaxSend == (A :> SendA) @@ (B :> SendB)

\* Bound: what the nack bytes of a buffer used before decode to.  Zeros, with which
\* a new buffer is filled, are no nack.  Other values would be read only where a
\* message with a nack is sent from a buffer used before, and none of the runs has
\* one: in MCChannel.cfg B, which sends once, never leaves a gap for A to ask for,
\* and in the others no buffer is used twice.
MCStaleNacks == {{}}
=============================================================================
