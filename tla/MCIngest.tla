------------------------------ MODULE MCIngest ------------------------------
(* Ingest for TLC: two conversations, a few messages, small answers. *)
EXTENDS Ingest
=============================================================================
