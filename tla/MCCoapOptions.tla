--------------------------- MODULE MCCoapOptions ---------------------------
(* A small instance of CoapOptions for TLC: strings on both sides of the   *)
(* lengths where the encoding of an option changes.                        *)
EXTENDS CoapOptions, SequencesExt

MCUris == BoundedSeq({12, 13, 268, 269}, 2)
=============================================================================
