----------------------------- MODULE MCUnixSocket -----------------------------
(* UnixSocket on a small instance. *)
EXTENDS UnixSocket
================================================================================
