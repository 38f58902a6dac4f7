--------------------------- MODULE MCRingBuffer ---------------------------
(***************************************************************************)
(* RingBuffer on small rings; each cfg chooses the overflow policies.      *)
(***************************************************************************)
EXTENDS RingBuffer
============================================================================
