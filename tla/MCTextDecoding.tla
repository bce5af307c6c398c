---------------------------- MODULE MCTextDecoding ----------------------------
(***************************************************************************)
(* Every sequence of up to four of bytes that are just inside or outside   *)
(* of what the decoder accepts where, in calls of up to two.               *)
(***************************************************************************)
EXTENDS TextDecoding

\* A letter; continuations around the boundaries of E0, ED, F0 and F4; leads
\* of all lengths; the bytes of the byte order mark.
MCBytes == {65, 143, 144, 159, 160, 187, 191, 194, 224, 237, 239, 240, 244}

MCInputs == BoundedSeq(MCBytes, 2)
==============================================================================
