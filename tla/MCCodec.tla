------------------------------- MODULE MCCodec -------------------------------
(***************************************************************************)
(* Codec for TLC.                                                          *)
(***************************************************************************)
EXTENDS Codec

LongString == [i \in 1..130 |-> 1]
=============================================================================
