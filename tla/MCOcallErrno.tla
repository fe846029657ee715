------------------------------ MODULE MCOcallErrno ------------------------------
(* An ocall, a handler on top of it, and an ocall of the handler. *)
EXTENDS OcallErrno
================================================================================
