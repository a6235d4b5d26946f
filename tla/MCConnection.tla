---------------------------- MODULE MCConnection ----------------------------
(* A small instance of Connection.                                       *)
EXTENDS Connection

CONSTANTS w1, w2

TwoWriters == {w1, w2}

\* The third message is empty or too large; every earlier one can be written.
ThirdUnwritable == {3}

SecondMalformed == {2}
=============================================================================
