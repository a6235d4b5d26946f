--------------------------- MODULE MCMessageChannel ---------------------------
(* A small instance of MessageChannel: bytes of one bit, so that a size     *)
(* uses several digits of the prefix; sizes around both limits.            *)
EXTENDS MessageChannel

EdgeSizes == {0, 1, 5, 6, 7}
===============================================================================
