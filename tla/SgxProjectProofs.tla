---------------------------- MODULE SgxProjectProofs ----------------------------
(***************************************************************************)
(* What cargo sgx new and build leave behind, for any number of commands   *)
(* and edits and any settings.  new has finished with the files before the *)
(* one it is at and has not touched those after it.  For build, what the   *)
(* script ran with for a profile tells what the object it shares with the  *)
(* other profiles holds: it is no older than the interface of that run,    *)
(* and has its flags unless another profile compiled it later.  So a run   *)
(* that is skipped because nothing changed leaves an object that is        *)
(* current.                                                                *)
(***************************************************************************)
EXTENDS SgxProject, TLAPS

NewState == {"file", "writing"}
BuildState == {"cargo", "edl", "cc", "ran", "rustc", "so", "lds", "link"}
Dirs == {"enclave", "shared"}
Json == "x86_64-unknown-unknown-sgx.json"

Shape ==
  /\ DOMAIN project = File
  /\ rust \in Nat /\ edl \in Nat
  /\ DOMAIN ran = Dirs /\ DOMAIN lib = Dirs /\ DOMAIN object = Dirs \cup {"cwd"}
  /\ \A d \in Dirs : DOMAIN ran[d] = Profile /\ DOMAIN lib[d] = Profile
  /\ pc \in {"idle"} \cup NewState \cup BuildState
  /\ pc # "idle" => last = None /\ so = None

\* What new makes of a file: c is the command.
Done(f, is, c) ==
  /\ is # "absent"
  /\ ~c.force /\ c.before[f] # "absent" => is = c.before[f]
  /\ c.force \/ c.before[f] = "absent" => is = Contents(f, c.mitigation)

Writing ==
  pc \in NewState =>
    /\ cmd = [do |-> "new", mitigation |-> cmd.mitigation, force |-> cmd.force, next |-> cmd.next,
              before |-> cmd.before, ok |-> FALSE]
    /\ cmd.next \in 1 .. 10 /\ cmd.mitigation \in Mitigation
    /\ \A i \in 1 .. 10 : i < cmd.next => Done(Files[i], project[Files[i]], cmd)
    /\ \A i \in 1 .. 10 : i > cmd.next => project[Files[i]] = cmd.before[Files[i]]
    /\ pc = "file" => project[Files[cmd.next]] = cmd.before[Files[cmd.next]]
    /\ pc = "writing" => cmd.force \/ cmd.before[Files[cmd.next]] = "absent"

\* What a run of the script leaves in its directory.
Compiled == [edl |-> edl, profile |-> cmd.profile,
             flags |-> apply_mitigation_flags(project["build.rs"], cmd.env)]

Building ==
  pc \in BuildState =>
    /\ cmd = [do |-> "build", profile |-> cmd.profile, env |-> cmd.env, away |-> cmd.away, of |-> cmd.of]
    /\ cmd.profile \in Profile /\ cmd.env \in Env /\ cmd.of = Sources
    /\ cmd.env.target = "unset" =>
         /\ pc \in {"edl", "cc", "ran"} => ran["enclave"][cmd.profile] = None
         /\ pc = "ran" => object["enclave"] = Compiled
         /\ pc \in {"rustc", "so", "lds", "link"} =>
              ran["enclave"][cmd.profile] = print_common_env_rerun(cmd.env)
         /\ pc \in {"so", "lds", "link"} =>
              lib["enclave"][cmd.profile] = [rust |-> rust, target |-> project[Json]]

\* What the object o says of a run r of the script for profile p.
Follows(o, r, p) ==
  /\ o.edl >= r.edl
  /\ o.profile = p => o.flags = apply_mitigation_flags(r.script, r)

Objects ==
  /\ \A p \in Profile : ran["enclave"][p] # None => ran["enclave"][p].edl \in 0 .. edl
  /\ object["enclave"] # None =>
       /\ object["enclave"].edl \in 0 .. edl
       /\ \A p \in Profile : ran["enclave"][p] # None => Follows(object["enclave"], ran["enclave"][p], p)

Inv == Shape /\ Writing /\ NewCompletes /\ Building /\ Objects /\ SoIsFresh

--------------------------------------------------------------------------------
(* The files                                                                   *)

LEMMA FilesAre ==
  /\ Len(Files) = 10 /\ File = {Files[i] : i \in 1 .. 10}
  /\ \A i, j \in 1 .. 10 : Files[i] = Files[j] => i = j
  /\ {"Enclave.lds", "build.rs", "Enclave.edl", "Cargo.toml", Json} \subseteq File
<1>1. Len(Files) = 10 /\ DOMAIN Files = 1 .. 10
  BY DEF Files
<1>2. /\ Files[1] = "Cargo.toml" /\ Files[2] = "src/lib.rs" /\ Files[3] = "build.rs"
      /\ Files[4] = "Enclave.config.xml" /\ Files[5] = "Enclave.edl" /\ Files[6] = "Enclave_private.pem"
      /\ Files[7] = "Enclave.lds" /\ Files[8] = Json /\ Files[9] = ".cargo/config.toml" /\ Files[10] = ".gitignore"
  BY DEF Files, Json
<1>3. \A i, j \in 1 .. 10 : Files[i] = Files[j] => i = j
  BY <1>2 DEF Json
<1>4. File = {Files[i] : i \in 1 .. 10}
  BY <1>1 DEF File
<1>5. \A i \in {3, 5, 7, 8, 1} : Files[i] \in File
  BY <1>4
<1> QED BY <1>1, <1>2, <1>3, <1>4, <1>5

\* A written file is not absent.
LEMMA ContentsThere ==
  ASSUME NEW f, NEW m \in Mitigation
  PROVE  Contents(f, m) # "absent"
<1>1. m # "absent"
  BY ProjectAssumption
<1> QED BY <1>1 DEF Contents, create_build_rs, create_target_json

\* Records are never None.
LEMMA RunIsSome ==
  ASSUME NEW e
  PROVE  print_common_env_rerun(e) # None
<1>1. DOMAIN print_common_env_rerun(e) = {"edl", "script", "mode", "mitigation"}
  BY DEF print_common_env_rerun
<1>2. DOMAIN None = {"none"}
  BY DEF None
<1> QED BY <1>1, <1>2

LEMMA InitHolds == Init => Inv
<1> SUFFICES ASSUME Init PROVE Inv
  OBVIOUS
<1>1. Shape
  <2>1. DOMAIN project = File
    BY DEF Init
  <2>2. /\ DOMAIN ran = Dirs /\ DOMAIN lib = Dirs /\ DOMAIN object = Dirs \cup {"cwd"}
        /\ \A d \in Dirs : DOMAIN ran[d] = Profile /\ DOMAIN lib[d] = Profile
    BY DEF Init, Dirs
  <2>3. rust \in Nat /\ edl \in Nat /\ pc = "idle"
    BY DEF Init
  <2> QED BY <2>1, <2>2, <2>3 DEF Shape
<1>2. Objects
  <2>1. object["enclave"] = None /\ \A p \in Profile : ran["enclave"][p] = None
    BY DEF Init
  <2> QED BY <2>1 DEF Objects
<1>3. Writing /\ Building /\ NewCompletes /\ SoIsFresh
  BY DEF Init, Writing, Building, NewCompletes, SoIsFresh, NewState, BuildState
<1> QED BY <1>1, <1>2, <1>3 DEF Inv

--------------------------------------------------------------------------------
(* cargo sgx new                                                               *)

\* Outside of a build the rest of the invariant is left alone.
LEMMA NewKeeps ==
  ASSUME Inv, UNCHANGED <<rust, edl, ran, lib, object>>, DOMAIN project' = File,
         pc' \in {"idle"} \cup NewState, pc' # "idle" => last' = None /\ so' = None,
         so' \in {so, None}, Writing', NewCompletes'
  PROVE  Inv'
<1>1. Shape'
  BY DEF Inv, Shape
<1>2. Objects'
  BY DEF Inv, Objects
<1>3. Building'
  BY DEF Building, BuildState, NewState
<1>4. SoIsFresh'
  BY DEF Inv, SoIsFresh
<1> QED BY <1>1, <1>2, <1>3, <1>4 DEF Inv

LEMMA RunNewKeeps ==
  ASSUME Inv, NEW m \in Mitigation, NEW force \in BOOLEAN, run_sgx_new(m, force)
  PROVE  Inv'
<1>1. /\ cmd' = [do |-> "new", mitigation |-> m, force |-> force, next |-> 1, before |-> project, ok |-> FALSE]
      /\ pc' = "file" /\ last' = None /\ so' = None /\ UNCHANGED <<project, rust, edl, ran, lib, object>>
  BY DEF run_sgx_new
<1>2. /\ cmd'.mitigation = m /\ cmd'.force = force /\ cmd'.next = 1 /\ cmd'.before = project
      /\ cmd' = [do |-> "new", mitigation |-> cmd'.mitigation, force |-> cmd'.force, next |-> cmd'.next,
                 before |-> cmd'.before, ok |-> FALSE]
  BY <1>1
<1>3. \A i \in 1 .. 10 : ~(i < 1)
  OBVIOUS
<1>4. Writing'
  BY <1>1, <1>2, <1>3 DEF Writing
<1>5. NewCompletes' /\ DOMAIN project' = File /\ pc' \in {"idle"} \cup NewState
  BY <1>1 DEF NewCompletes, Inv, Shape, NewState
<1> QED BY <1>1, <1>4, <1>5, NewKeeps

\* The file at hand is done.
LEMMA AdvanceKeeps ==
  ASSUME Inv, pc \in NewState, Advance, UNCHANGED <<rust, edl, ran, lib, object, so>>,
         DOMAIN project' = File,
         \A i \in 1 .. 10 : i <= cmd.next => Done(Files[i], project'[Files[i]], cmd),
         \A i \in 1 .. 10 : i > cmd.next => project'[Files[i]] = cmd.before[Files[i]]
  PROVE  Inv'
<1>1. /\ cmd = [do |-> "new", mitigation |-> cmd.mitigation, force |-> cmd.force, next |-> cmd.next,
                before |-> cmd.before, ok |-> FALSE]
      /\ cmd.next \in 1 .. 10 /\ cmd.mitigation \in Mitigation
      /\ last = None /\ so = None
  BY DEF Inv, Writing, Shape, NewState
<1>2. CASE cmd.next = 10
  <2>1. last' = [cmd EXCEPT !.ok = TRUE] /\ pc' = "idle"
    BY <1>2, FilesAre DEF Advance, EndNew
  <2>2. last'.force = cmd.force /\ last'.before = cmd.before /\ last'.mitigation = cmd.mitigation
    BY <1>1, <2>1
  <2>3. \A f \in File : Done(f, project'[f], cmd)
    BY <1>2, FilesAre
  <2>4. \A f \in File : Done(f, project'[f], last')
    BY <2>2, <2>3 DEF Done
  <2>5. NewCompletes'
    BY <2>4 DEF NewCompletes, Done
  <2>6. Writing'
    BY <2>1 DEF Writing, NewState
  <2> QED BY <2>1, <2>5, <2>6, NewKeeps
<1>3. CASE cmd.next # 10
  <2>1. cmd' = [cmd EXCEPT !.next = @ + 1] /\ pc' = "file" /\ last' = last
    BY <1>3, FilesAre DEF Advance
  <2>2. /\ cmd'.mitigation = cmd.mitigation /\ cmd'.force = cmd.force /\ cmd'.next = cmd.next + 1
        /\ cmd'.before = cmd.before
        /\ cmd' = [do |-> "new", mitigation |-> cmd'.mitigation, force |-> cmd'.force, next |-> cmd'.next,
                   before |-> cmd'.before, ok |-> FALSE]
    <3>1. PICK m, g, n, b : m = cmd.mitigation /\ g = cmd.force /\ n = cmd.next /\ b = cmd.before
      OBVIOUS
    <3>2. cmd = [do |-> "new", mitigation |-> m, force |-> g, next |-> n, before |-> b, ok |-> FALSE]
      BY <1>1, <3>1
    <3>3. cmd' = [cmd EXCEPT !.next = n + 1]
      BY <2>1, <3>1
    <3>4. cmd' = [do |-> "new", mitigation |-> m, force |-> g, next |-> n + 1, before |-> b, ok |-> FALSE]
      BY <3>2, <3>3
    <3> QED BY <3>1, <3>4
  <2>3. cmd'.next \in 1 .. 10 /\ cmd'.next > cmd.next
    BY <1>1, <1>3, <2>2
  <2>4. \A i \in 1 .. 10 : i < cmd'.next => Done(Files[i], project'[Files[i]], cmd')
    <3>1. \A i \in 1 .. 10 : i < cmd'.next => i <= cmd.next
      BY <1>1, <2>2
    <3>2. \A i \in 1 .. 10 : i < cmd'.next => Done(Files[i], project'[Files[i]], cmd)
      BY <3>1
    <3> QED BY <2>2, <3>2 DEF Done
  <2>5. \A i \in 1 .. 10 : i >= cmd'.next => project'[Files[i]] = cmd'.before[Files[i]]
    <3>1. \A i \in 1 .. 10 : i >= cmd'.next => i > cmd.next
      BY <1>1, <2>2
    <3> QED BY <2>2, <3>1
  <2>6. Writing'
    BY <1>1, <2>1, <2>2, <2>3, <2>4, <2>5 DEF Writing
  <2>7. NewCompletes'
    BY <1>1, <2>1 DEF NewCompletes
  <2> QED BY <1>1, <2>1, <2>6, <2>7, NewKeeps DEF NewState
<1> QED BY <1>2, <1>3

LEMMA CreateFileKeeps ==
  ASSUME Inv, create_file
  PROVE  Inv'
<1> DEFINE f == Files[cmd.next]
<1>1. /\ pc = "file" /\ pc \in NewState /\ DOMAIN project = File
      /\ UNCHANGED <<rust, edl, ran, lib, object, so, commands>>
  BY DEF create_file, NewState, Inv, Shape
<1>2. /\ cmd = [do |-> "new", mitigation |-> cmd.mitigation, force |-> cmd.force, next |-> cmd.next,
                before |-> cmd.before, ok |-> FALSE]
      /\ cmd.next \in 1 .. 10 /\ cmd.mitigation \in Mitigation
      /\ \A i \in 1 .. 10 : i < cmd.next => Done(Files[i], project[Files[i]], cmd)
      /\ \A i \in 1 .. 10 : i > cmd.next => project[Files[i]] = cmd.before[Files[i]]
      /\ project[f] = cmd.before[f]
  BY <1>1 DEF Inv, Writing
<1>3. last = None /\ so = None
  BY <1>1 DEF Inv, Shape
<1>4. CASE Skipped(f, cmd.force)
  <2>1. Advance /\ project' = project
    BY <1>4 DEF create_file
  <2>2. project[f] # "absent" /\ ~cmd.force
    BY <1>4 DEF Skipped
  <2>3. Done(f, project[f], cmd)
    BY <1>2, <2>2 DEF Done
  <2>4. \A i \in 1 .. 10 : i <= cmd.next => Done(Files[i], project'[Files[i]], cmd)
    <3> TAKE i \in 1 .. 10
    <3>1. i <= cmd.next => i < cmd.next \/ i = cmd.next
      BY <1>2
    <3> QED BY <1>2, <2>1, <2>3, <3>1
  <2>5. \A i \in 1 .. 10 : i > cmd.next => project'[Files[i]] = cmd.before[Files[i]]
    BY <1>2, <2>1
  <2> QED BY <1>1, <2>1, <2>4, <2>5, AdvanceKeeps
<1>5. CASE ~Skipped(f, cmd.force)
  <2>1. project' = [project EXCEPT ![f] = "partial"] /\ pc' = "writing" /\ UNCHANGED <<cmd, last>>
    BY <1>5 DEF create_file
  <2>2. cmd.force \/ cmd.before[f] = "absent"
    BY <1>2, <1>5 DEF Skipped
  <2>3. \A i \in 1 .. 10 : i # cmd.next => project'[Files[i]] = project[Files[i]]
    <3> TAKE i \in 1 .. 10
    <3>1. i # cmd.next => Files[i] # f /\ Files[i] \in File
      BY <1>2, FilesAre
    <3> QED BY <1>1, <2>1, <3>1
  <2>4. ASSUME NEW i \in 1 .. 10
        PROVE  /\ i < cmd.next => Done(Files[i], project'[Files[i]], cmd)
               /\ i > cmd.next => project'[Files[i]] = cmd.before[Files[i]]
    <3>1. (i < cmd.next => i # cmd.next) /\ (i > cmd.next => i # cmd.next)
      BY <1>2
    <3> QED BY <1>2, <2>3, <3>1
  <2>5. Writing'
    <3>1. pc' = "writing" /\ cmd' = cmd /\ pc' # "file"
      BY <2>1
    <3>2. cmd'.force \/ cmd'.before[Files[cmd'.next]] = "absent"
      BY <2>2, <3>1
    <3>3. \A i \in 1 .. 10 : i < cmd'.next => Done(Files[i], project'[Files[i]], cmd')
      <4> SUFFICES ASSUME NEW i \in 1 .. 10, i < cmd'.next PROVE Done(Files[i], project'[Files[i]], cmd')
        OBVIOUS
      <4>1. Done(Files[i], project'[Files[i]], cmd)
        BY <2>4, <3>1
      <4> QED BY <3>1, <4>1 DEF Done
    <3>4. \A i \in 1 .. 10 : i > cmd'.next => project'[Files[i]] = cmd'.before[Files[i]]
      BY <2>4, <3>1
    <3> QED BY <1>2, <3>1, <3>2, <3>3, <3>4 DEF Writing
  <2>6. NewCompletes' /\ DOMAIN project' = File
    BY <1>1, <1>3, <2>1 DEF NewCompletes
  <2> QED BY <1>1, <1>3, <2>1, <2>5, <2>6, NewKeeps DEF NewState
<1> QED BY <1>4, <1>5

LEMMA FileWrittenKeeps ==
  ASSUME Inv, file_written
  PROVE  Inv'
<1> DEFINE f == Files[cmd.next]
<1>1. /\ pc = "writing" /\ pc \in NewState /\ DOMAIN project = File
      /\ UNCHANGED <<rust, edl, ran, lib, object, so, commands>>
      /\ project' = [project EXCEPT ![f] = Contents(f, cmd.mitigation)] /\ Advance
  BY DEF file_written, NewState, Inv, Shape
<1>2. /\ cmd.next \in 1 .. 10 /\ cmd.mitigation \in Mitigation
      /\ \A i \in 1 .. 10 : i < cmd.next => Done(Files[i], project[Files[i]], cmd)
      /\ \A i \in 1 .. 10 : i > cmd.next => project[Files[i]] = cmd.before[Files[i]]
      /\ cmd.force \/ cmd.before[f] = "absent"
  BY <1>1 DEF Inv, Writing
<1>3. f \in File /\ DOMAIN project' = File
  BY <1>1, <1>2, FilesAre
<1>4. project'[f] = Contents(f, cmd.mitigation)
  BY <1>1, <1>3
<1>5. Done(f, project'[f], cmd)
  BY <1>2, <1>4, ContentsThere DEF Done
<1>6. \A i \in 1 .. 10 : i # cmd.next => project'[Files[i]] = project[Files[i]]
  <2> TAKE i \in 1 .. 10
  <2>1. i # cmd.next => Files[i] # f /\ Files[i] \in File
    BY <1>2, FilesAre
  <2> QED BY <1>1, <2>1
<1>7. \A i \in 1 .. 10 : i <= cmd.next => Done(Files[i], project'[Files[i]], cmd)
  <2> TAKE i \in 1 .. 10
  <2>1. i <= cmd.next => i = cmd.next \/ (i < cmd.next /\ i # cmd.next)
    BY <1>2
  <2> HIDE DEF f
  <2>2. i = cmd.next => Files[i] = f
    BY DEF f
  <2> QED BY <1>2, <1>5, <1>6, <2>1, <2>2
<1>8. \A i \in 1 .. 10 : i > cmd.next => project'[Files[i]] = cmd.before[Files[i]]
  <2> TAKE i \in 1 .. 10
  <2>1. i > cmd.next => i # cmd.next
    BY <1>2
  <2> QED BY <1>2, <1>6, <2>1
<1> QED BY <1>1, <1>3, <1>7, <1>8, AdvanceKeeps

LEMMA FileFailsKeeps ==
  ASSUME Inv, file_fails
  PROVE  Inv'
<1>1. /\ pc \in NewState /\ EndNew(FALSE) /\ UNCHANGED <<project, rust, edl, ran, lib, object, so, commands>>
  BY DEF file_fails, NewState
<1>2. cmd = [do |-> "new", mitigation |-> cmd.mitigation, force |-> cmd.force, next |-> cmd.next,
             before |-> cmd.before, ok |-> FALSE]
  BY <1>1 DEF Inv, Writing
<1>3. ~last'.ok /\ pc' = "idle"
  BY <1>1, <1>2 DEF EndNew
<1>4. Writing' /\ NewCompletes' /\ DOMAIN project' = File
  BY <1>1, <1>3 DEF Writing, NewState, NewCompletes, Inv, Shape
<1> QED BY <1>1, <1>3, <1>4, NewKeeps

--------------------------------------------------------------------------------
(* cargo sgx build                                                             *)

\* What a step of a build has to show.
LEMMA BuildKeeps ==
  ASSUME Inv, pc \in BuildState, UNCHANGED <<rust, edl, last>>, DOMAIN project' = File,
         DOMAIN ran' = Dirs, DOMAIN lib' = Dirs, DOMAIN object' = Dirs \cup {"cwd"},
         \A d \in Dirs : DOMAIN ran'[d] = Profile /\ DOMAIN lib'[d] = Profile,
         pc' \in {"idle"} \cup BuildState, pc' # "idle" => so' = so,
         Building', Objects', SoIsFresh'
  PROVE  Inv'
<1>1. last = None /\ so = None
  BY DEF Inv, Shape, BuildState
<1>2. Shape'
  BY <1>1 DEF Inv, Shape
<1>3. Writing' /\ NewCompletes'
  BY <1>1 DEF Writing, NewCompletes, NewState, BuildState
<1> QED BY <1>2, <1>3 DEF Inv

\* A build goes on.
LEMMA StillBuilding ==
  ASSUME Inv, pc \in BuildState, pc' \in BuildState, UNCHANGED <<cmd, rust, edl>>,
         project'["build.rs"] = project["build.rs"], project'[Json] = project[Json],
         cmd.env.target = "unset" =>
           /\ pc' \in {"edl", "cc", "ran"} => ran'["enclave"][cmd.profile] = None
           /\ pc' = "ran" => object'["enclave"] = Compiled
           /\ pc' \in {"rustc", "so", "lds", "link"} =>
                ran'["enclave"][cmd.profile] = print_common_env_rerun(cmd.env)
           /\ pc' \in {"so", "lds", "link"} =>
                lib'["enclave"][cmd.profile] = [rust |-> rust, target |-> project[Json]]
  PROVE  Building'
<1>1. /\ cmd = [do |-> "build", profile |-> cmd.profile, env |-> cmd.env, away |-> cmd.away, of |-> cmd.of]
      /\ cmd.profile \in Profile /\ cmd.env \in Env /\ cmd.of = Sources
  BY DEF Inv, Building
<1>2. Sources' = Sources
  BY DEF Sources, Json
<1>3. print_common_env_rerun(cmd.env)' = print_common_env_rerun(cmd.env)
  BY DEF print_common_env_rerun
<1>4. Compiled' = Compiled
  BY DEF Compiled, apply_mitigation_flags
<1> QED BY <1>1, <1>2, <1>3, <1>4 DEF Building

LEMMA ShapeIs ==
  ASSUME Inv
  PROVE  /\ DOMAIN project = File /\ rust \in Nat /\ edl \in Nat
         /\ DOMAIN ran = Dirs /\ DOMAIN lib = Dirs /\ DOMAIN object = Dirs \cup {"cwd"}
         /\ \A d \in Dirs : DOMAIN ran[d] = Profile /\ DOMAIN lib[d] = Profile
         /\ pc # "idle" => last = None /\ so = None
BY DEF Inv, Shape

\* cargo puts its output below the enclave when nobody names another directory.
LEMMA EnclaveIsUnset ==
  ASSUME Inv, pc \in BuildState, TargetDir(cmd.env) = "enclave"
  PROVE  cmd.env.target = "unset"
<1>1. cmd.env \in [mode : {"HW", "SW"}, mitigation : Mitigation, target : {"unset", "shared"}]
  BY ProjectAssumption DEF Inv, Building
<1> QED BY <1>1 DEF TargetDir

\* A build ends, with or without an object.
LEMMA EndsKeep ==
  ASSUME Inv, pc \in BuildState, EndBuild, UNCHANGED <<project, rust, edl, ran, lib, last>>,
         DOMAIN object' = Dirs \cup {"cwd"}, object'["enclave"] \in {object["enclave"], None}, SoIsFresh'
  PROVE  Inv'
<1>1. pc' = "idle"
  BY DEF EndBuild
<1>2. Building'
  BY <1>1 DEF Building, BuildState
<1>3. Objects'
  <2>1. CASE object'["enclave"] = None
    BY <2>1 DEF Inv, Objects
  <2>2. CASE object'["enclave"] = object["enclave"]
    BY <2>2 DEF Inv, Objects
  <2> QED BY <2>1, <2>2
<1> QED BY <1>1, <1>2, <1>3, ShapeIs, BuildKeeps

LEMMA RunBuildKeeps ==
  ASSUME Inv, NEW p \in Profile, NEW e \in Env, NEW away \in BOOLEAN, run_sgx_build(p, e, away)
  PROVE  Inv'
<1>1. /\ cmd' = [do |-> "build", profile |-> p, env |-> e, away |-> away, of |-> Sources]
      /\ pc' = "cargo" /\ last' = None /\ so' = None /\ UNCHANGED <<project, rust, edl, ran, lib, object>>
  BY DEF run_sgx_build
<1>2. Sources' = Sources
  BY <1>1 DEF Sources
<1>3. /\ cmd'.profile = p /\ cmd'.env = e /\ cmd'.of = Sources
      /\ cmd' = [do |-> "build", profile |-> cmd'.profile, env |-> cmd'.env, away |-> cmd'.away, of |-> cmd'.of]
  BY <1>1
<1>4. Building'
  BY <1>1, <1>2, <1>3 DEF Building
<1>5. Writing' /\ NewCompletes' /\ SoIsFresh'
  BY <1>1 DEF Writing, NewState, NewCompletes, SoIsFresh
<1>6. Objects'
  BY <1>1 DEF Inv, Objects
<1>7. Shape'
  BY <1>1 DEF Inv, Shape, BuildState
<1> QED BY <1>4, <1>5, <1>6, <1>7 DEF Inv

\* A step of cargo that compiles nothing: a run of the script may be forgotten.
LEMMA CargoKeeps ==
  ASSUME Inv, cargo_build \/ edl_generate
  PROVE  Inv'
<1>1. PICK d, p, r : d = TargetDir(cmd.env) /\ p = cmd.profile /\ r = print_common_env_rerun(cmd.env)
  OBVIOUS
<1>2. /\ pc \in {"cargo", "edl"} /\ UNCHANGED <<project, rust, edl, lib, object, so, cmd, last>>
      /\ \/ pc = "cargo" /\ pc' = "rustc" /\ ran' = ran /\ ran[d][p] = r
         \/ pc = "cargo" /\ pc' = "edl" /\ ran' = [ran EXCEPT ![d][p] = None]
         \/ pc = "edl" /\ pc' = "cc" /\ ran' = ran
  BY <1>1 DEF cargo_build, edl_generate
<1>3. pc \in BuildState /\ pc' \in BuildState /\ d \in Dirs /\ p \in Profile
  <2>1. pc \in BuildState /\ pc' \in BuildState
    BY <1>2 DEF BuildState
  <2> QED BY <1>1, <2>1 DEF TargetDir, Dirs, Inv, Building
<1>4. DOMAIN ran = Dirs /\ \A x \in Dirs : DOMAIN ran[x] = Profile
  BY ShapeIs
<1>5. /\ DOMAIN ran' = Dirs /\ \A x \in Dirs : DOMAIN ran'[x] = Profile
      /\ \A x \in Dirs, q \in Profile : ran'[x][q] \in {ran[x][q], None}
      /\ pc' = "edl" => ran'[d][p] = None
  BY <1>2, <1>3, <1>4
<1>6. Building'
  <2>1. cmd.env.target = "unset" => d = "enclave"
    BY <1>1 DEF TargetDir
  <2>2. cmd.env.target = "unset" /\ pc = "edl" => ran["enclave"][cmd.profile] = None
    BY <1>3 DEF Inv, Building
  <2>3. cmd.env.target = "unset" =>
          /\ pc' \in {"edl", "cc", "ran"} => ran'["enclave"][cmd.profile] = None
          /\ pc' = "ran" => object'["enclave"] = Compiled
          /\ pc' \in {"rustc", "so", "lds", "link"} =>
               ran'["enclave"][cmd.profile] = print_common_env_rerun(cmd.env)
          /\ pc' \in {"so", "lds", "link"} =>
               lib'["enclave"][cmd.profile] = [rust |-> rust, target |-> project[Json]]
    BY <1>1, <1>2, <1>5, <2>1, <2>2
  <2>4. project'["build.rs"] = project["build.rs"] /\ project'[Json] = project[Json]
    BY <1>2
  <2> QED BY <1>2, <1>3, <2>3, <2>4, StillBuilding
<1>7. Objects'
  <2>1. \A q \in Profile : ran'["enclave"][q] # None => ran'["enclave"][q] = ran["enclave"][q]
    BY <1>5 DEF Dirs
  <2>2. edl' = edl /\ object' = object
    BY <1>2
  <2> QED BY <2>1, <2>2 DEF Inv, Objects
<1>8. SoIsFresh'
  BY <1>2 DEF Inv, SoIsFresh
<1> QED BY <1>2, <1>3, <1>5, <1>6, <1>7, <1>8, ShapeIs, BuildKeeps

\* compile_edl: the object is new, and the run of the script that made it not noted yet.
LEMMA CompileEdlKeeps ==
  ASSUME Inv, compile_edl
  PROVE  Inv'
<1>1. PICK d, p : d = TargetDir(cmd.env) /\ p = cmd.profile
  OBVIOUS
<1>2. /\ pc = "cc" /\ pc' = "ran" /\ UNCHANGED <<project, rust, edl, ran, lib, so, cmd, last>>
      /\ object' = [object EXCEPT ![d] = Compiled]
  BY <1>1 DEF compile_edl, script_edl_target_dir, Compiled
<1>3. pc \in BuildState /\ pc' \in BuildState /\ d \in Dirs
  BY <1>1, <1>2 DEF BuildState, TargetDir, Dirs
<1>4. DOMAIN object = Dirs \cup {"cwd"} /\ edl \in Nat
  BY ShapeIs
<1>5. /\ DOMAIN object' = Dirs \cup {"cwd"} /\ object'[d] = Compiled
      /\ d # "enclave" => object'["enclave"] = object["enclave"]
  <2>1. "enclave" \in Dirs
    BY DEF Dirs
  <2> QED BY <1>2, <1>3, <1>4, <2>1
<1>6. cmd.env.target = "unset" => d = "enclave" /\ ran["enclave"][p] = None
  BY <1>1, <1>2, <1>3 DEF TargetDir, Inv, Building
<1>7. Building'
  <2>1. cmd.env.target = "unset" =>
          /\ pc' \in {"edl", "cc", "ran"} => ran'["enclave"][cmd.profile] = None
          /\ pc' = "ran" => object'["enclave"] = Compiled
          /\ pc' \in {"rustc", "so", "lds", "link"} =>
               ran'["enclave"][cmd.profile] = print_common_env_rerun(cmd.env)
          /\ pc' \in {"so", "lds", "link"} =>
               lib'["enclave"][cmd.profile] = [rust |-> rust, target |-> project[Json]]
    BY <1>1, <1>2, <1>5, <1>6
  <2>2. project'["build.rs"] = project["build.rs"] /\ project'[Json] = project[Json]
    BY <1>2
  <2> QED BY <1>2, <1>3, <2>1, <2>2, StillBuilding
<1>8. Objects'
  <2>1. CASE d # "enclave"
    BY <1>2, <1>5, <2>1 DEF Inv, Objects
  <2>2. CASE d = "enclave"
    <3>1. ran["enclave"][p] = None
      BY <1>1, <1>3, <1>6, <2>2, EnclaveIsUnset
    <3>2. PICK o : o = Compiled
      OBVIOUS
    <3>3. o.edl = edl /\ o.profile = p
      BY <1>1, <3>2 DEF Compiled
    <3>4. \A q \in Profile : ran["enclave"][q] # None => ran["enclave"][q].edl \in 0 .. edl
      BY DEF Inv, Objects
    <3>5. \A q \in Profile : ran["enclave"][q] # None => Follows(o, ran["enclave"][q], q)
      BY <1>4, <3>1, <3>3, <3>4 DEF Follows
    <3>6. object'["enclave"] = o /\ o.edl \in 0 .. edl
      BY <1>4, <1>5, <2>2, <3>2, <3>3
    <3> QED BY <1>2, <3>4, <3>5, <3>6 DEF Objects
  <2> QED BY <2>1, <2>2
<1>9. SoIsFresh'
  BY <1>2 DEF Inv, SoIsFresh
<1> QED BY <1>2, <1>3, <1>5, <1>7, <1>8, <1>9, ShapeIs, BuildKeeps

\* script_noted: the object is the one of the run that is noted.
LEMMA NotedKeeps ==
  ASSUME Inv, script_noted
  PROVE  Inv'
<1>1. PICK d, p, e : d = TargetDir(cmd.env) /\ p = cmd.profile /\ e = cmd.env
  OBVIOUS
<1>2. PICK r : r = print_common_env_rerun(e)
  OBVIOUS
<1>3. /\ pc = "ran" /\ pc' = "rustc" /\ UNCHANGED <<project, rust, edl, lib, object, so, cmd, last>>
      /\ ran' = [ran EXCEPT ![d][p] = r]
  BY <1>1, <1>2 DEF script_noted
<1>4. pc \in BuildState /\ pc' \in BuildState /\ d \in Dirs
  BY <1>1, <1>3 DEF BuildState, TargetDir, Dirs
<1>5. p \in Profile /\ e \in Env
  BY <1>1, <1>4 DEF Inv, Building
<1>6. DOMAIN ran = Dirs /\ edl \in Nat /\ \A x \in Dirs : DOMAIN ran[x] = Profile
  BY ShapeIs
<1>7. /\ ran'[d][p] = r /\ DOMAIN ran' = Dirs /\ \A x \in Dirs : DOMAIN ran'[x] = Profile
      /\ \A q \in Profile : q # p => ran'[d][q] = ran[d][q]
      /\ \A x \in Dirs : x # d => ran'[x] = ran[x]
  BY <1>3, <1>4, <1>5, <1>6
<1>8. Building'
  <2>1. cmd.env.target = "unset" => d = "enclave"
    BY <1>1 DEF TargetDir
  <2>2. cmd.env.target = "unset" =>
          /\ pc' \in {"edl", "cc", "ran"} => ran'["enclave"][cmd.profile] = None
          /\ pc' = "ran" => object'["enclave"] = Compiled
          /\ pc' \in {"rustc", "so", "lds", "link"} =>
               ran'["enclave"][cmd.profile] = print_common_env_rerun(cmd.env)
          /\ pc' \in {"so", "lds", "link"} =>
               lib'["enclave"][cmd.profile] = [rust |-> rust, target |-> project[Json]]
    BY <1>1, <1>2, <1>3, <1>7, <2>1
  <2>3. project'["build.rs"] = project["build.rs"] /\ project'[Json] = project[Json]
    BY <1>3
  <2> QED BY <1>3, <1>4, <2>2, <2>3, StillBuilding
<1>9. Objects'
  <2>1. CASE d # "enclave"
    <3>1. "enclave" \in Dirs
      BY DEF Dirs
    <3>2. ran'["enclave"] = ran["enclave"] /\ object'["enclave"] = object["enclave"]
      BY <1>3, <1>7, <2>1, <3>1
    <3> QED BY <1>3, <3>2 DEF Inv, Objects
  <2>2. CASE d = "enclave"
    <3>1. PICK o : o = object["enclave"]
      OBVIOUS
    <3>2. o = Compiled
      BY <1>1, <1>3, <1>4, <2>2, <3>1, EnclaveIsUnset DEF Inv, Building
    <3>3. r.edl = edl /\ o.edl = edl /\ o.flags = apply_mitigation_flags(r.script, r)
      BY <1>1, <1>2, <3>2 DEF Compiled, apply_mitigation_flags, print_common_env_rerun
    <3>4. \A q \in Profile : ran'["enclave"][q] # None => ran'["enclave"][q].edl \in 0 .. edl
      <4>1. \A q \in Profile : ran["enclave"][q] # None => ran["enclave"][q].edl \in 0 .. edl
        BY DEF Inv, Objects
      <4> QED BY <1>6, <1>7, <2>2, <3>3, <4>1
    <3>5. o # None => \A q \in Profile : ran["enclave"][q] # None => Follows(o, ran["enclave"][q], q)
      BY <3>1 DEF Inv, Objects
    <3>6. Follows(o, r, p)
      BY <1>6, <3>3 DEF Follows
    <3>7. o # None => \A q \in Profile : ran'["enclave"][q] # None => Follows(o, ran'["enclave"][q], q)
      BY <1>7, <2>2, <3>5, <3>6
    <3>8. edl' = edl /\ object'["enclave"] = o /\ o.edl \in 0 .. edl
      BY <1>3, <1>6, <3>1, <3>3
    <3> QED BY <3>4, <3>7, <3>8 DEF Objects
  <2> QED BY <2>1, <2>2
<1>10. SoIsFresh'
  BY <1>3 DEF Inv, SoIsFresh
<1> QED BY <1>3, <1>4, <1>7, <1>8, <1>9, <1>10, ShapeIs, BuildKeeps

LEMMA CompileLibKeeps ==
  ASSUME Inv, compile_lib
  PROVE  Inv'
<1>1. PICK d, p : d = TargetDir(cmd.env) /\ p = cmd.profile
  OBVIOUS
<1>2. PICK l : l = [rust |-> rust, target |-> project[Json]]
  OBVIOUS
<1>3. /\ pc = "rustc" /\ pc' = "so" /\ UNCHANGED <<project, rust, edl, ran, object, so, cmd, last>>
      /\ lib' = [lib EXCEPT ![d][p] = l]
  BY <1>1, <1>2 DEF compile_lib, Json
<1>4. pc \in BuildState /\ pc' \in BuildState /\ d \in Dirs
  BY <1>1, <1>3 DEF BuildState, TargetDir, Dirs
<1>5. p \in Profile
  BY <1>1, <1>4 DEF Inv, Building
<1>6. DOMAIN lib = Dirs /\ \A x \in Dirs : DOMAIN lib[x] = Profile
  BY ShapeIs
<1>7. lib'[d][p] = l /\ DOMAIN lib' = Dirs /\ \A x \in Dirs : DOMAIN lib'[x] = Profile
  BY <1>3, <1>4, <1>5, <1>6
<1>8. Building'
  <2>1. cmd.env.target = "unset" =>
          d = "enclave" /\ ran["enclave"][cmd.profile] = print_common_env_rerun(cmd.env)
    BY <1>1, <1>3, <1>4 DEF TargetDir, Inv, Building
  <2>2. cmd.env.target = "unset" =>
          /\ pc' \in {"edl", "cc", "ran"} => ran'["enclave"][cmd.profile] = None
          /\ pc' = "ran" => object'["enclave"] = Compiled
          /\ pc' \in {"rustc", "so", "lds", "link"} =>
               ran'["enclave"][cmd.profile] = print_common_env_rerun(cmd.env)
          /\ pc' \in {"so", "lds", "link"} =>
               lib'["enclave"][cmd.profile] = [rust |-> rust, target |-> project[Json]]
    BY <1>1, <1>2, <1>3, <1>7, <2>1
  <2>3. project'["build.rs"] = project["build.rs"] /\ project'[Json] = project[Json]
    BY <1>3
  <2> QED BY <1>3, <1>4, <2>2, <2>3, StillBuilding
<1>9. Objects' /\ SoIsFresh'
  BY <1>3 DEF Inv, Objects, SoIsFresh
<1> QED BY <1>3, <1>4, <1>7, <1>8, <1>9, ShapeIs, BuildKeeps

\* create_enclave_so and the version script write Enclave.lds only.
LEMMA ScriptKeeps ==
  ASSUME Inv, create_enclave_so \/ create_version_script
  PROVE  Inv'
<1>1. /\ pc \in {"so", "lds"} /\ pc' \in {"lds", "link"} /\ pc \in BuildState /\ pc' \in BuildState
      /\ UNCHANGED <<rust, edl, ran, lib, object, so, cmd, last>>
  BY DEF create_enclave_so, create_version_script, BuildState
<1>2. \/ project' = project
      \/ \E v : project' = [project EXCEPT !["Enclave.lds"] = v]
  BY DEF create_enclave_so, create_version_script
<1>3. DOMAIN project' = File /\ project'["build.rs"] = project["build.rs"] /\ project'[Json] = project[Json]
  <2>1. {"build.rs", Json} \subseteq DOMAIN project /\ DOMAIN project = File
    BY ShapeIs, FilesAre
  <2> QED BY <1>2, <2>1 DEF Json
<1>4. Building'
  <2>1. cmd.env.target = "unset" =>
          /\ ran["enclave"][cmd.profile] = print_common_env_rerun(cmd.env)
          /\ lib["enclave"][cmd.profile] = [rust |-> rust, target |-> project[Json]]
    BY <1>1 DEF Inv, Building
  <2>2. cmd.env.target = "unset" =>
          /\ pc' \in {"edl", "cc", "ran"} => ran'["enclave"][cmd.profile] = None
          /\ pc' = "ran" => object'["enclave"] = Compiled
          /\ pc' \in {"rustc", "so", "lds", "link"} =>
               ran'["enclave"][cmd.profile] = print_common_env_rerun(cmd.env)
          /\ pc' \in {"so", "lds", "link"} =>
               lib'["enclave"][cmd.profile] = [rust |-> rust, target |-> project[Json]]
    BY <1>1, <2>1
  <2> QED BY <1>1, <1>3, <2>2, StillBuilding
<1>5. Objects' /\ SoIsFresh'
  BY <1>1 DEF Inv, Objects, SoIsFresh
<1> QED BY <1>1, <1>3, <1>4, <1>5, ShapeIs, BuildKeeps

\* What the linker is given.
LEMMA LinkKeeps ==
  ASSUME Inv, build_enclave_so
  PROVE  Inv'
<1>1. PICK p, e, of, o : p = cmd.profile /\ e = cmd.env /\ of = cmd.of /\ o = object[get_edl_target_dir]
  OBVIOUS
<1>2. /\ pc = "link" /\ EndBuild /\ UNCHANGED <<project, rust, edl, ran, lib, object, last>> /\ o # None
      /\ so' = [lib |-> lib["enclave"][p], object |-> o, by |-> cmd]
  BY <1>1 DEF build_enclave_so
<1>3. pc \in BuildState
  BY <1>2 DEF BuildState
<1>4. p \in Profile /\ of = [rust |-> rust, edl |-> edl, script |-> project["build.rs"], target |-> project[Json]]
  BY <1>1, <1>3 DEF Inv, Building, Sources, Json
<1>5. SoIsFresh'
  <2>1. so'.by = cmd /\ so'.lib = lib["enclave"][p] /\ so'.object = o
    BY <1>2
  <2> SUFFICES ASSUME e.target = "unset", ~cmd.away
               PROVE  /\ lib["enclave"][p] = [rust |-> of.rust, target |-> of.target]
                      /\ o.edl = of.edl
                      /\ o.profile = p => o.flags = apply_mitigation_flags(of.script, e)
    BY <1>1, <2>1 DEF SoIsFresh
  <2>2. o = object["enclave"]
    BY <1>1 DEF get_edl_target_dir
  <2>3. PICK r : r = ran["enclave"][p]
    OBVIOUS
  <2>4. r = print_common_env_rerun(e) /\ lib["enclave"][p] = [rust |-> rust, target |-> project[Json]]
    BY <1>1, <1>2, <1>3, <2>3 DEF Inv, Building
  <2>5. r # None
    BY <2>4, RunIsSome
  <2>6. o.edl \in 0 .. edl /\ Follows(o, r, p) /\ edl \in Nat
    BY <1>2, <1>4, <2>2, <2>3, <2>5, ShapeIs DEF Inv, Objects
  <2>7. r = [edl |-> edl, script |-> project["build.rs"], mode |-> e.mode, mitigation |-> e.mitigation]
    BY <2>4 DEF print_common_env_rerun
  <2>8. o.edl = edl
    BY <2>6, <2>7 DEF Follows
  <2>9. o.profile = p => o.flags = apply_mitigation_flags(project["build.rs"], e)
    BY <2>6, <2>7 DEF Follows, apply_mitigation_flags
  <2> QED BY <1>4, <2>4, <2>8, <2>9
<1> QED BY <1>2, <1>3, <1>5, ShapeIs, EndsKeep

\* A build that fails, or is stopped, links nothing.
LEMMA FailureKeeps ==
  ASSUME Inv, archive_lost \/ cargo_fails \/ so_fails
  PROVE  Inv'
<1>1. /\ pc \in BuildState /\ EndBuild /\ UNCHANGED <<project, rust, edl, ran, lib, so, last>>
      /\ \/ object' = object
         \/ \E d \in Dirs : object' = [object EXCEPT ![d] = None]
  <2>1. script_edl_target_dir(cmd.env) \in Dirs
    BY DEF script_edl_target_dir, TargetDir, Dirs
  <2> QED BY <2>1 DEF archive_lost, cargo_fails, so_fails, BuildState
<1>2. DOMAIN object' = Dirs \cup {"cwd"} /\ object'["enclave"] \in {object["enclave"], None}
  <2>1. DOMAIN object = Dirs \cup {"cwd"} /\ "enclave" \in Dirs
    BY ShapeIs DEF Dirs
  <2> QED BY <1>1, <2>1
<1>3. SoIsFresh'
  BY <1>1 DEF Inv, SoIsFresh
<1> QED BY <1>1, <1>2, <1>3, EndsKeep

LEMMA EditKeeps ==
  ASSUME Inv, Edit
  PROVE  Inv'
<1>1. /\ pc = "idle" /\ UNCHANGED <<project, ran, lib, object, so, cmd, pc, last>>
      /\ rust \in Nat /\ edl \in Nat /\ rust' \in {rust, rust + 1} /\ edl' \in {edl, edl + 1}
  BY ShapeIs DEF Edit, Idle
<1>2. rust' \in Nat /\ edl' \in Nat /\ edl <= edl'
  BY <1>1
<1>3. Shape'
  BY <1>1, <1>2 DEF Inv, Shape
<1>4. Writing' /\ Building'
  BY <1>1 DEF Writing, Building, NewState, BuildState
<1>5. NewCompletes' /\ SoIsFresh'
  BY <1>1 DEF Inv, NewCompletes, SoIsFresh
<1>6. Objects'
  <2>1. \A n \in 0 .. edl : n \in 0 .. edl'
    BY <1>1, <1>2
  <2> QED BY <1>1, <2>1 DEF Inv, Objects
<1> QED BY <1>3, <1>4, <1>5, <1>6 DEF Inv

--------------------------------------------------------------------------------
(* The theorems                                                                *)

LEMMA StepKeeps == Inv /\ [Next]_vars => Inv'
<1> SUFFICES ASSUME Inv, [Next]_vars PROVE Inv'
  OBVIOUS
<1>1. CASE UNCHANGED vars
  <2>1. Shape' /\ Writing' /\ NewCompletes'
    BY <1>1 DEF vars, Inv, Shape, Writing, NewCompletes, Done
  <2>2. Building'
    BY <1>1 DEF vars, Inv, Building, Compiled, Sources, print_common_env_rerun
  <2>3. Objects' /\ SoIsFresh'
    BY <1>1 DEF vars, Inv, Objects, SoIsFresh
  <2> QED BY <2>1, <2>2, <2>3 DEF Inv
<1> QED BY <1>1, RunNewKeeps, CreateFileKeeps, FileWrittenKeeps, FileFailsKeeps, RunBuildKeeps, CargoKeeps,
           CompileEdlKeeps, NotedKeeps, CompileLibKeeps, ScriptKeeps, LinkKeeps, FailureKeeps, EditKeeps DEF Next

LEMMA InvHolds == Spec => []Inv
BY InitHolds, StepKeeps, PTL DEF Spec

\* A new that says it succeeded has left every file, untouched or whole as it should be,
\* wherever earlier commands stopped.
THEOREM NewLeavesAll == Spec => []NewCompletes
<1>1. Inv => NewCompletes
  BY DEF Inv
<1> QED BY <1>1, InvHolds, PTL

\* What a build links is of the current sources, interface and flags, whatever earlier
\* builds of any profile, mode and directory left, failed or were stopped in.
THEOREM LinkedIsFresh == Spec => []SoIsFresh
<1>1. Inv => SoIsFresh
  BY DEF Inv
<1> QED BY <1>1, InvHolds, PTL
================================================================================
