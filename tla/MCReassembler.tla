--------------------------- MODULE MCReassembler ---------------------------
(* The reassembler with a small buffer; the runs differ in what the peer may do. *)
EXTENDS ReassemblerSpec
=============================================================================
