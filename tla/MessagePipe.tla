----------------------------- MODULE MessagePipe -----------------------------
(***************************************************************************)
(* What one direction of a Connection promises to the code that uses it:   *)
(* messages are delivered in the order they were sent, none is skipped or  *)
(* repeated, nothing is delivered after the close, and the close is        *)
(* announced exactly once.  Undelivered messages may be lost at the close. *)
(***************************************************************************)
EXTENDS Naturals, Sequences

VARIABLES
  sent,       \* number of messages sent; message n is the n-th one
  delivered,  \* messages handed to the network, in order
  open,       \* the pipe works
  notices     \* close notifications given to the owner

vars == <<sent, delivered, open, notices>>

Init == sent = 0 /\ delivered = <<>> /\ open = TRUE /\ notices = 0

Send == sent' = sent + 1 /\ UNCHANGED <<delivered, open, notices>>

Deliver ==
  /\ open /\ Len(delivered) < sent
  /\ delivered' = Append(delivered, Len(delivered) + 1)
  /\ UNCHANGED <<sent, open, notices>>

Close ==
  /\ open
  /\ open' = FALSE /\ notices' = notices + 1
  /\ UNCHANGED <<sent, delivered>>

Next == Send \/ Deliver \/ Close

Spec == Init /\ [][Next]_vars
==============================================================================
