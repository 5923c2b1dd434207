---------------------------- MODULE MCSerialLine ----------------------------
(* A small instance of SerialLine for TLC.                                 *)
EXTENDS SerialLine

(* No byte, digits and letters of both nibbles, the longest frame that     *)
(* fits, and one that does not.                                            *)
MCDatas == {<<>>, <<154>>, <<249, 10>>, <<175, 0, 1>>}

(* One to three digits, around the bound of the loop and of a byte.        *)
MCSignals == {1, 17, 26, 103, 255}
=============================================================================
