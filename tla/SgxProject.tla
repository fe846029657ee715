------------------------------- MODULE SgxProject -------------------------------
(***************************************************************************)
(* The tools that make and build an enclave project: cargo sgx new and     *)
(* cargo sgx build (src/cargo-sgx/src/main.rs) and the build script they   *)
(* install, which runs SgxBuilder::build_enclave (src/sgx-build/src/       *)
(* lib.rs).  new writes ten files one by one, and may stop at any of them. *)
(* build runs cargo, which runs the script when its inputs changed, and    *)
(* links what it then finds in two directories: the static library of      *)
(* cargo, and the object compiled from the EDL, which the script and the   *)
(* command look for by rules of their own.                                 *)
(*                                                                         *)
(* A file is "absent", "partial" (its writer stopped), "own" (from before  *)
(* the first command), or what the writer was asked for.  Sources count    *)
(* their versions; nobody edits while a command runs.  The options that    *)
(* name other files (--target, --edl, --output, --version-script) are not  *)
(* used.                                                                   *)
(***************************************************************************)
EXTENDS Integers, Sequences

CONSTANTS
  Own,           \* the sets of files a directory may hold before the first command
  Mitigation,    \* what --mitigation may say, "NONE" for nothing
  Env,           \* environments of a command: SGX_MODE, mitigation, CARGO_TARGET_DIR
  Profile,       \* cargo's profiles
  MaxCommand,    \* bound on commands
  MaxEdit        \* bound on edits of the sources

ASSUME ProjectAssumption ==
  /\ "NONE" \in Mitigation
  /\ Mitigation \cap {"absent", "partial", "own"} = {}
  /\ Env \subseteq [mode : {"HW", "SW"}, mitigation : Mitigation, target : {"unset", "shared"}]
  /\ {MaxCommand, MaxEdit} \subseteq Nat

VARIABLES
  project,       \* the ten files
  rust, edl,     \* versions of the enclave's code and of its interface
  ran,           \* the inputs of the last run of the build script, per target directory and profile
  lib,           \* the static libraries, per target directory and profile
  object,        \* the compiled EDL object, per directory
  so,            \* what the last command linked, with the command and the sources it was asked for
  cmd, pc,       \* the command that runs, and where it is
  last,          \* the last command, if it was new and has ended
  commands       \* commands so far

vars == <<project, rust, edl, ran, lib, object, so, cmd, pc, last, commands>>

None == [none |-> TRUE]

--------------------------------------------------------------------------------
\* cargo sgx new.

\* The files, in the order they are created.
Files ==
  <<"Cargo.toml", "src/lib.rs", "build.rs", "Enclave.config.xml", "Enclave.edl",
    "Enclave_private.pem", "Enclave.lds", "x86_64-unknown-unknown-sgx.json",
    ".cargo/config.toml", ".gitignore">>

File == {Files[i] : i \in DOMAIN Files}

\* The two whose directory is created first, whether or not they are skipped.
InDirectory == {"src/lib.rs", ".cargo/config.toml"}

\* build.rs sets the mitigation it was created with; the target specification
\* only knows whether there is one.
create_build_rs(mitigation) == mitigation

create_target_json(mitigation) == IF mitigation = "NONE" THEN "plain" ELSE "hardened"

Contents(f, mitigation) ==
  CASE f = "build.rs" -> create_build_rs(mitigation)
    [] f = "x86_64-unknown-unknown-sgx.json" -> create_target_json(mitigation)
    [] OTHER -> "whole"

\* Mutant: --force does not overwrite.
Skipped_forced(f, force) == project[f] # "absent"

\* What a create function leaves as it is.
Skipped(f, force) == project[f] # "absent" /\ ~force

Idle == pc = "idle"

EndNew(ok) ==
  /\ last' = [cmd EXCEPT !.ok = ok]
  /\ cmd' = None
  /\ pc' = "idle"

run_sgx_new(mitigation, force) ==
  /\ Idle /\ commands < MaxCommand
  /\ commands' = commands + 1
  /\ cmd' = [do |-> "new", mitigation |-> mitigation, force |-> force, next |-> 1,
             before |-> project, ok |-> FALSE]
  /\ pc' = "file" /\ last' = None /\ so' = None
  /\ UNCHANGED <<project, rust, edl, ran, lib, object>>

Advance ==
  IF cmd.next = Len(Files)
  THEN EndNew(TRUE)
  ELSE /\ cmd' = [cmd EXCEPT !.next = @ + 1]
       /\ pc' = "file"
       /\ UNCHANGED last

\* A file that exists is left as it is; another one, or any of them with
\* --force, is truncated first and written then.
create_file ==
  LET f == Files[cmd.next] IN
  /\ pc = "file"
  /\ IF Skipped(f, cmd.force)
     THEN Advance /\ UNCHANGED project
     ELSE /\ project' = [project EXCEPT ![f] = "partial"]
          /\ pc' = "writing"
          /\ UNCHANGED <<cmd, last>>
  /\ UNCHANGED <<rust, edl, ran, lib, object, so, commands>>

file_written ==
  LET f == Files[cmd.next] IN
  /\ pc = "writing"
  /\ project' = [project EXCEPT ![f] = Contents(f, cmd.mitigation)]
  /\ Advance
  /\ UNCHANGED <<rust, edl, ran, lib, object, so, commands>>

\* The directory cannot be made, the file cannot be opened or not written
\* to its end, openssl fails, or the command is killed.
file_fails ==
  /\ \/ pc = "writing"
     \/ pc = "file" /\ ( \/ ~Skipped(Files[cmd.next], cmd.force)
                         \/ Files[cmd.next] \in InDirectory )
  /\ EndNew(FALSE)
  /\ UNCHANGED <<project, rust, edl, ran, lib, object, so, commands>>

--------------------------------------------------------------------------------
\* cargo sgx build.

Whole(f) == project[f] \notin {"absent", "partial"}

\* What a build is made from.
Sources == [rust |-> rust, edl |-> edl, script |-> project["build.rs"],
            target |-> project["x86_64-unknown-unknown-sgx.json"]]

\* The mitigation of the build script: its own if it sets one, else the one of
\* the environment; no flag stands for it in simulation mode.
apply_mitigation_flags(script, env) ==
  IF env.mode = "SW" THEN "NONE"
  ELSE IF script \in {"NONE", "own"} THEN env.mitigation ELSE script

\* What the script asks cargo to watch.
print_common_env_rerun(env) ==
  [edl |-> edl, script |-> project["build.rs"], mode |-> env.mode, mitigation |-> env.mitigation]

\* Where cargo puts its output, where the script puts the EDL object, and where
\* the command looks for it: without CARGO_TARGET_DIR the script looks for the
\* target directory above its output, the command for one where it was started.
TargetDir(env) == IF env.target = "shared" THEN "shared" ELSE "enclave"

script_edl_target_dir(env) == TargetDir(env)

get_edl_target_dir == IF cmd.env.target = "shared" THEN "shared"
                      ELSE IF cmd.away THEN "cwd" ELSE "enclave"

EndBuild == cmd' = None /\ pc' = "idle"

\* The checks before cargo is run.
run_sgx_build(profile, env, away) ==
  /\ Idle /\ commands < MaxCommand
  /\ commands' = commands + 1
  /\ Whole("Cargo.toml") /\ project["x86_64-unknown-unknown-sgx.json"] # "absent"
  /\ cmd' = [do |-> "build", profile |-> profile, env |-> env, away |-> away, of |-> Sources]
  /\ pc' = "cargo" /\ last' = None /\ so' = None
  /\ UNCHANGED <<project, rust, edl, ran, lib, object>>

\* cargo runs the build script unless nothing the script watches has changed; before it
\* does, it forgets the run before.
cargo_build ==
  /\ pc = "cargo"
  /\ \A f \in {"build.rs", "src/lib.rs", "x86_64-unknown-unknown-sgx.json", ".cargo/config.toml"} : Whole(f)
  /\ IF ran[TargetDir(cmd.env)][cmd.profile] = print_common_env_rerun(cmd.env)
     THEN pc' = "rustc" /\ UNCHANGED ran
     ELSE pc' = "edl" /\ ran' = [ran EXCEPT ![TargetDir(cmd.env)][cmd.profile] = None]
  /\ UNCHANGED <<project, rust, edl, lib, object, so, cmd, last, commands>>

edl_generate ==
  /\ pc = "edl"
  /\ Whole("Enclave.edl")
  /\ pc' = "cc"
  /\ UNCHANGED <<project, rust, edl, ran, lib, object, so, cmd, last, commands>>

\* The object of the other profile is at the same place.
compile_edl ==
  LET dir == script_edl_target_dir(cmd.env) IN
  /\ pc = "cc"
  /\ object' = [object EXCEPT ![dir] =
       [edl |-> edl, profile |-> cmd.profile,
        flags |-> apply_mitigation_flags(project["build.rs"], cmd.env)]]
  /\ pc' = "ran"
  /\ UNCHANGED <<project, rust, edl, ran, lib, so, cmd, last, commands>>

\* cargo notes a script that succeeded, and what it asked to watch.
script_noted ==
  /\ pc = "ran"
  /\ ran' = [ran EXCEPT ![TargetDir(cmd.env)][cmd.profile] = print_common_env_rerun(cmd.env)]
  /\ pc' = "rustc"
  /\ UNCHANGED <<project, rust, edl, lib, object, so, cmd, last, commands>>

\* The archiver is stopped after it removed the old archive.
archive_lost ==
  /\ pc = "cc"
  /\ object' = [object EXCEPT ![script_edl_target_dir(cmd.env)] = None]
  /\ EndBuild
  /\ UNCHANGED <<project, rust, edl, ran, lib, so, last, commands>>

compile_lib ==
  /\ pc = "rustc"
  /\ lib' = [lib EXCEPT ![TargetDir(cmd.env)][cmd.profile] =
       [rust |-> rust, target |-> project["x86_64-unknown-unknown-sgx.json"]]]
  /\ pc' = "so"
  /\ UNCHANGED <<project, rust, edl, ran, object, so, cmd, last, commands>>

\* Mutant: the status of cargo is not looked at.
cargo_fails_unchecked ==
  /\ pc \in {"cargo", "edl", "cc", "ran", "rustc"}
  /\ pc' = "so"
  /\ UNCHANGED <<project, rust, edl, ran, lib, object, so, cmd, last, commands>>

\* The script or the compiler fails, or cargo cannot use a file.
cargo_fails ==
  /\ pc \in {"cargo", "edl", "cc", "ran", "rustc"}
  /\ EndBuild
  /\ UNCHANGED <<project, rust, edl, ran, lib, object, so, last, commands>>

\* The static library is looked for below the enclave's own directory.
create_enclave_so ==
  /\ pc = "so"
  /\ lib["enclave"][cmd.profile] # None
  /\ project["Enclave.edl"] # "absent"
  /\ IF project["Enclave.lds"] # "absent"
     THEN pc' = "link" /\ UNCHANGED project
     ELSE pc' = "lds" /\ project' = [project EXCEPT !["Enclave.lds"] = "partial"]
  /\ UNCHANGED <<rust, edl, ran, lib, object, so, cmd, last, commands>>

create_version_script ==
  /\ pc = "lds"
  /\ project' = [project EXCEPT !["Enclave.lds"] = "whole"]
  /\ pc' = "link"
  /\ UNCHANGED <<rust, edl, ran, lib, object, so, cmd, last, commands>>

build_enclave_so ==
  /\ pc = "link"
  /\ Whole("Enclave.lds")
  /\ object[get_edl_target_dir] # None
  /\ so' = [lib |-> lib["enclave"][cmd.profile], object |-> object[get_edl_target_dir], by |-> cmd]
  /\ EndBuild
  /\ UNCHANGED <<project, rust, edl, ran, lib, object, last, commands>>

\* The library, the EDL or the object is missing, the version script cannot be
\* written or used, or the linker fails.
so_fails ==
  /\ pc \in {"so", "lds", "link"}
  /\ EndBuild
  /\ UNCHANGED <<project, rust, edl, ran, lib, object, so, last, commands>>

--------------------------------------------------------------------------------
\* The programmer edits between two commands.
Edit ==
  /\ Idle
  /\ rust + edl < MaxEdit + 2
  /\ \/ rust' = rust + 1 /\ UNCHANGED edl
     \/ edl' = edl + 1 /\ UNCHANGED rust
  /\ UNCHANGED <<project, ran, lib, object, so, cmd, pc, last, commands>>

\* An object another project left where the command is started from.
Foreign == [edl |-> 0, profile |-> "other", flags |-> "NONE"]

Init ==
  /\ \E own \in Own : project = [f \in File |-> IF f \in own THEN "own" ELSE "absent"]
  /\ rust = 1 /\ edl = 1
  /\ ran = [d \in {"enclave", "shared"} |-> [p \in Profile |-> None]]
  /\ lib = [d \in {"enclave", "shared"} |-> [p \in Profile |-> None]]
  /\ \E o \in {None, Foreign} :
       object = [d \in {"enclave", "shared", "cwd"} |-> IF d = "cwd" THEN o ELSE None]
  /\ so = None
  /\ cmd = None /\ pc = "idle" /\ last = None
  /\ commands = 0

Next ==
  \/ \E m \in Mitigation, force \in BOOLEAN : run_sgx_new(m, force)
  \/ create_file \/ file_written \/ file_fails
  \/ \E p \in Profile, e \in Env, away \in BOOLEAN : run_sgx_build(p, e, away)
  \/ cargo_build \/ edl_generate \/ compile_edl \/ archive_lost \/ script_noted
  \/ compile_lib \/ cargo_fails
  \/ create_enclave_so \/ create_version_script \/ build_enclave_so \/ so_fails
  \/ Edit

Spec == Init /\ [][Next]_vars

--------------------------------------------------------------------------------
(***************************************************************************)
(* When new says that it succeeded, every file is there; what was there    *)
(* before is untouched unless --force was given; and if it was, or nothing *)
(* was there, every file is whole and build.rs and the target              *)
(* specification agree on the mitigation that was asked for, whatever      *)
(* earlier commands left behind (main.rs, run_sgx_new).                    *)
(***************************************************************************)
NewCompletes ==
  last # None /\ last.ok =>
    \A f \in File :
      /\ project[f] # "absent"
      /\ ~last.force /\ last.before[f] # "absent" => project[f] = last.before[f]
      /\ last.force \/ last.before[f] = "absent" => project[f] = Contents(f, last.mitigation)

(***************************************************************************)
(* What build links is what it was asked to build, when it is started in   *)
(* the enclave's directory without CARGO_TARGET_DIR: the static library    *)
(* comes from the current code and target specification and the EDL object *)
(* from the current interface, whatever earlier builds failed, were killed *)
(* or used another profile, mode or directory.  The object has the flags   *)
(* of the mode and the mitigation too, unless the other profile compiled   *)
(* it last: both profiles share the directory (main.rs, run_sgx_build and  *)
(* create_enclave_so; lib.rs, get_edl_target_dir).                         *)
(***************************************************************************)
SoIsFresh ==
  so # None /\ so.by.env.target = "unset" /\ ~so.by.away =>
    /\ so.lib = [rust |-> so.by.of.rust, target |-> so.by.of.target]
    /\ so.object.edl = so.by.of.edl
    /\ so.object.profile = so.by.profile =>
         so.object.flags = apply_mitigation_flags(so.by.of.script, so.by.env)
================================================================================
