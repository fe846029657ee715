------------------------------ MODULE MCSgxProject -------------------------------
(* A directory that is empty, or as cargo new leaves it, or a project written by *)
(* hand without a version script, and environments that differ in one setting.   *)
EXTENDS SgxProject

MCOwn == {{}, {"Cargo.toml", "src/lib.rs", ".gitignore"}, File \ {"Enclave.lds"}}

Unset(mode) == [mode |-> mode, mitigation |-> "NONE", target |-> "unset"]

MCEnv == {Unset("HW"), Unset("SW"), [Unset("HW") EXCEPT !.target = "shared"]}
================================================================================
