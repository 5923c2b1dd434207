---------------------------- MODULE MCCoapParse ----------------------------
(* Small instances of CoapParse for TLC: every message made of a header    *)
(* and at most MaxBody bytes of an alphabet that holds, for each nibble    *)
(* the parser tells apart, a byte with that nibble.                        *)
EXTENDS CoapParse

CONSTANTS MaxBody

Alphabet == {0, 1, 13, 14, 15, 208, 224, 222, 240, 254, 255, 243}
Bodies == UNION {[1 .. n -> Alphabet] : n \in 0 .. MaxBody}

(* Version 1, NON, token of one byte; its code and identifier; the token.  *)
ResponseHeader == <<81, 65, 0, 7, 86>>

(* Headers that stop the parser: too short, another version, the other     *)
(* types, another token, a token longer than the message.                  *)
OtherMessages ==
  {<<>>, <<81, 65, 0>>, <<145, 65, 0, 7>>,
   <<97, 0, 0, 7>>, <<97, 65, 0, 7>>, <<97, 0, 0, 8>>, <<113, 0, 0, 7>>,
   <<65, 65, 0, 7, 86>>, <<81, 65, 0, 7, 87, 255, 1>>, <<80, 65, 0, 7>>,
   <<82, 65, 0, 7, 86, 86>>, <<95, 65, 0, 7, 86, 86>>}

(* Options in the extended forms, their value complete or one byte short,  *)
(* in front of every body of two bytes.                                    *)
Filler(n) == [i \in 1 .. n |-> 1]
LongOptions ==
  {<<13, 0>> \o Filler(12), <<13, 0>> \o Filler(13), <<221, 0, 1>> \o Filler(14),
   <<14, 0, 0>> \o Filler(268), <<14, 0, 0>> \o Filler(269),
   <<238, 0, 0, 0, 1>> \o Filler(270)}
LongMessages ==
  {ResponseHeader \o option \o tail :
     option \in LongOptions, tail \in UNION {[1 .. n -> Alphabet] : n \in 0 .. 2}}

(* Announced lengths of 65536, 65537 and 65804 bytes, of which the 16 bits *)
(* of optlen keep 0, 1 and 268: the walk goes on inside the value.         *)
WideOptions ==
  {<<14, 254, 243>>, <<14, 254, 244>>, <<238, 0, 0, 254, 243>>,
   <<14, 255, 255>> \o Filler(267), <<14, 255, 255>> \o Filler(268)}
WideMessages ==
  {ResponseHeader \o option \o tail :
     option \in WideOptions, tail \in {<<>>, <<0>>, <<15>>, <<255, 1>>, <<1, 255>>}}

MCMessages == {ResponseHeader \o body : body \in Bodies} \union LongMessages
              \union WideMessages \union OtherMessages
MCToken == <<86>>
=============================================================================
