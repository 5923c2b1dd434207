------------------------------ MODULE MCCksum ------------------------------
EXTENDS Cksum, SequencesExt
MCAddresses == {<<0, 0>>, <<3, 3, 2, 1>>, <<1, 0>>}
MCHeads == {<<0, 1>>, <<3, 3, 1, 0>>}
MCPayloads == BoundedSeq({0, 2, 3}, 3)
=============================================================================
