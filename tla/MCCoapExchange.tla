-------------------------- MODULE MCCoapExchange ---------------------------
(* Small instances of CoapExchange for TLC.                                *)
EXTENDS CoapExchange, TLC

CONSTANTS t1, t2, t3

MCTokens == {t1, t2, t3}
MCCodes == {65, 132}      \* NET_COAP_CODE_CREATED, NET_COAP_CODE_NOTFOUND
TokenSymmetry == Permutations(MCTokens)
=============================================================================
