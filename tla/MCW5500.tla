------------------------------ MODULE MCW5500 ------------------------------
EXTENDS W5500
MCRxFrames == {<<3>>, <<2, 0, 3, 1>>, <<0, 1, 1, 3, 2>>}
MCTxFrames == {<<1>>, <<2, 3, 0>>, <<3, 2, 1, 1, 2, 3>>}
=============================================================================
