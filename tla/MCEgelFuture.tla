----------------------------- MODULE MCEgelFuture -----------------------------
(* A small instance of EgelFuture.                                         *)
EXTENDS EgelFuture
=============================================================================
