---------------------------- MODULE EnclaveLifecycle ----------------------------
(***************************************************************************)
(* Enclaves and the handles the host has of them: SgxEnclave of            *)
(* src/sgx-urts/src/enclave.rs, built with global_init and global_exit,    *)
(* with what lives inside an enclave and goes with it: the handlers of     *)
(* AexHandlers and the threads that its TCS pages (TcsLayout) let in.      *)
(*                                                                         *)
(* A host thread has a stack of calls; host code that runs above an ecall  *)
(* is an ocall of it.  An ecall gets its enclave id from a handle, which   *)
(* it borrows: geteid returns a copy, and that it is not used after the    *)
(* handle is gone is what is assumed of the host.                          *)
(***************************************************************************)
EXTENDS Integers, Sequences, SequencesExt, FiniteSets, AexHandlers, TcsLayout

CONSTANTS
  Id,         \* enclave ids in the order the runtime gives them, never reused
  Handle,     \* values of type SgxEnclave
  Defaults,   \* those that may be made by default()
  Layouts,    \* layout tables of the enclave files
  AexUser,    \* threads, each with an enclave in which it registers exit handlers
  MaxDepth    \* bound on nested calls of a thread

ASSUME LifecycleAssumption ==
  /\ Id \subseteq Nat \ {0}
  /\ Layouts \subseteq {table \in Seq(LayoutEntry \cup LayoutGroup) : GroupsNest(table)}
  /\ Defaults \subseteq Handle
  /\ AexUser \subseteq Thread \X Id
  /\ MaxDepth \in Nat

VARIABLES
  layout,    \* the layout table of the enclave file
  handle,    \* the id in a handle; NoHandle where there is none
  enclave,   \* each enclave as the runtime sees it
  globals,   \* the global state inside: t_global_init_ecall (which may have been
             \* refused), t_global_exit_ecall; "down" with the enclave
  cloned,    \* enclaves one of whose handles was cloned
  aex,       \* the exit handlers of each enclave
  stack      \* the calls of each thread, the running one last

vars == <<layout, handle, enclave, globals, cloned, aex, stack>>

NoHandle == -1
DefaultId == 0

Frame == [pc : {"init", "initing", "ecall", "drop", "exiting", "destroy", "wait"},
          id : Id \cup {DefaultId}, h : Handle \cup {NoHandle}]

TypeOK ==
  /\ layout \in Layouts
  /\ handle \in [Handle -> Id \cup {NoHandle, DefaultId}]
  /\ enclave \in [Id -> {"none", "loaded", "crashed", "closing", "gone"}]
  /\ globals \in [Id -> {"none", "init", "up", "refused", "exit", "down"}]
  /\ cloned \subseteq Id
  /\ aex \in [Id -> AexState]
  /\ stack \in [Thread -> Seq(Frame)]

Init ==
  /\ layout \in Layouts
  /\ handle = [h \in Handle |-> NoHandle]
  /\ enclave = [id \in Id |-> "none"]
  /\ globals = [id \in Id |-> "none"]
  /\ cloned = {}
  /\ aex = [id \in Id |-> NoHandlers]
  /\ stack = [t \in Thread |-> << >>]

--------------------------------------------------------------------------------
Top(t, pc) == stack[t] # << >> /\ Last(stack[t]).pc = pc
Push(t, frame) == Len(stack[t]) < MaxDepth /\ stack' = [stack EXCEPT ![t] = Append(@, frame)]
Pop(t) == stack' = [stack EXCEPT ![t] = Front(@)]
Goto(t, pc) == stack' = [stack EXCEPT ![t] = Append(Front(@), [Last(@) EXCEPT !.pc = pc])]

\* Host code runs: at the bottom of the stack, or in an ocall.
Host(t) == stack[t] = << >> \/ Top(t, "ecall")

InsidePc == {"initing", "ecall", "exiting"}
Inside(t, id) == \E i \in DOMAIN stack[t] : stack[t][i].id = id /\ stack[t][i].pc \in InsidePc

\* A handle that no ecall borrows may be moved or dropped.
Owned(h) ==
  /\ handle[h] # NoHandle
  /\ \A t \in Thread : \A i \in DOMAIN stack[t] : stack[t][i].pc = "ecall" => stack[t][i].h # h

Unused(h) ==
  /\ handle[h] = NoHandle
  /\ \A t \in Thread : \A i \in DOMAIN stack[t] : stack[t][i].pc \in {"init", "initing"} => stack[t][i].h # h

\* The pages of each enclave file.
Pages == [table \in Layouts |-> Loaded(table)]

\* What the runtime does with an ecall.  A thread that is inside comes back through
\* the same TCS, if the interface of the enclave lets this ecall be made from there.
TcsFree(t, id) ==
  Inside(t, id) \/ Cardinality({u \in Thread : Inside(u, id)}) < TcsLoaded(Pages[layout])
MayEnter(t, id) == id \in Id /\ enclave[id] = "loaded" /\ TcsFree(t, id)
MayBeRefused(t, id) == ~MayEnter(t, id) \/ Inside(t, id)

--------------------------------------------------------------------------------
\* rsgx_create_enclave and its variants: the runtime loads the enclave and gives it the
\* next id.
rsgx_create_enclave(id) ==
  /\ enclave[id] = "none" /\ \A other \in Id : other < id => enclave[other] # "none"
  /\ enclave' = [enclave EXCEPT ![id] = "loaded"]

\* create, create_encrypt, create_with_workers and create_from_buffer, up to the
\* native call.  An error of it, of the path or of an empty buffer leaves nothing.
create(t, h) ==
  /\ Host(t) /\ Unused(h)
  /\ \E id \in Id :
       /\ rsgx_create_enclave(id)
       /\ Push(t, [pc |-> "init", id |-> id, h |-> h])
  /\ UNCHANGED <<layout, handle, globals, cloned, aex>>

\* Mutant: the handle is there before the enclave is initialised.
init_early(t) ==
  /\ Top(t, "init") /\ MayEnter(t, Last(stack[t]).id)
  /\ globals' = [globals EXCEPT ![Last(stack[t]).id] = "init"]
  /\ handle' = [handle EXCEPT ![Last(stack[t]).h] = Last(stack[t]).id]
  /\ Goto(t, "initing")
  /\ UNCHANGED <<layout, enclave, cloned, aex>>

\* init: t_global_init_ecall enters, ...
init(t) ==
  /\ Top(t, "init") /\ MayEnter(t, Last(stack[t]).id)
  /\ globals' = [globals EXCEPT ![Last(stack[t]).id] = "init"]
  /\ Goto(t, "initing")
  /\ UNCHANGED <<layout, handle, enclave, cloned, aex>>

\* The caller gets its handle whatever became of t_global_init_ecall.
HandleReturned(t) ==
  /\ handle' = [handle EXCEPT ![Last(stack[t]).h] = Last(stack[t]).id]
  /\ Pop(t)
  /\ UNCHANGED <<layout, enclave, cloned, aex>>

\* ... or it is refused: no memory for the copy of the path, no TCS, the enclave lost.
\* Nobody looks at that, and the host has a handle of an enclave never initialised.
init_refused(t) ==
  /\ Top(t, "init")
  /\ globals' = [globals EXCEPT ![Last(stack[t]).id] = IF @ = "none" THEN "refused" ELSE @]
  /\ HandleReturned(t)

\* ... and returns.  It has no result of its own: a status that is not success means
\* that it was refused or did not come back (rsgx_abort, enclave_lost).
create_returns(t) ==
  /\ Top(t, "initing")
  /\ globals' = [globals EXCEPT ![Last(stack[t]).id] = IF @ = "init" THEN "up" ELSE @]
  /\ HandleReturned(t)

\* Mutant: the id with all bits set stands for no enclave.
default_max(t, h) ==
  /\ h \in Defaults /\ Host(t) /\ Unused(h)
  /\ handle' = [handle EXCEPT ![h] = 2^30]
  /\ UNCHANGED <<layout, enclave, globals, cloned, aex, stack>>

\* SgxEnclave::default(): a handle of no enclave.
default(t, h) ==
  /\ h \in Defaults /\ Host(t) /\ Unused(h)
  /\ handle' = [handle EXCEPT ![h] = DefaultId]
  /\ UNCHANGED <<layout, enclave, globals, cloned, aex, stack>>

\* Mutant: a clone is initialised like a new enclave.
clone_inits(t, h, of) ==
  /\ Host(t) /\ Unused(h) /\ handle[of] # NoHandle
  /\ handle' = [handle EXCEPT ![h] = handle[of]]
  /\ cloned' = cloned \cup ({handle[of]} \cap Id)
  /\ globals' = [id \in Id |-> IF id = handle[of] /\ MayEnter(t, id) THEN "up" ELSE globals[id]]
  /\ UNCHANGED <<layout, enclave, aex, stack>>

\* clone copies the id.
clone(t, h, of) ==
  /\ Host(t) /\ Unused(h) /\ handle[of] # NoHandle
  /\ handle' = [handle EXCEPT ![h] = handle[of]]
  /\ cloned' = cloned \cup ({handle[of]} \cap Id)
  /\ UNCHANGED <<layout, enclave, globals, aex, stack>>

--------------------------------------------------------------------------------
\* An ecall of the host through a handle.  A refused one changes nothing.
ecall(t, h) ==
  /\ Host(t) /\ MayEnter(t, handle[h])
  /\ Push(t, [pc |-> "ecall", id |-> handle[h], h |-> h])
  /\ UNCHANGED <<layout, handle, enclave, globals, cloned, aex>>

ecall_returns(t) ==
  /\ Top(t, "ecall")
  /\ Pop(t)
  /\ UNCHANGED <<layout, handle, enclave, globals, cloned, aex>>

\* rsgx_oom with either handler, or rsgx_abort: the call does not come back, the
\* enclave takes no more.  (The frame is that of an ecall or of init or exit.)
rsgx_abort(t) ==
  /\ stack[t] # << >> /\ Last(stack[t]).pc \in InsidePc
  /\ LET frame == Last(stack[t])
     IN /\ enclave' = [enclave EXCEPT ![frame.id] = IF @ = "loaded" THEN "crashed" ELSE @]
        /\ globals' = [globals EXCEPT ![frame.id] = "down"]
        /\ handle' = IF frame.pc = "initing" THEN [handle EXCEPT ![frame.h] = frame.id] ELSE handle
        /\ IF frame.pc = "exiting" THEN Goto(t, "destroy") ELSE Pop(t)
  /\ UNCHANGED <<layout, cloned, aex>>

\* SGX_ERROR_ENCLAVE_LOST: a power transition takes the enclaves that are loaded.  (A
\* call that is inside comes back with the error: here it is one that returns.)
enclave_lost ==
  LET lost == {id \in Id : enclave[id] = "loaded"}
  IN /\ lost # {}
     /\ enclave' = [id \in Id |-> IF id \in lost THEN "crashed" ELSE enclave[id]]
     /\ globals' = [id \in Id |-> IF id \in lost THEN "down" ELSE globals[id]]
     /\ UNCHANGED <<layout, handle, cloned, aex, stack>>

\* Trusted code registers and unregisters exit handlers.  (Which free address the
\* node gets makes no difference: the lowest.)
register_aex(t) ==
  /\ Top(t, "ecall") /\ <<t, Last(stack[t]).id>> \in AexUser
  /\ LET id == Last(stack[t]).id
     IN \E f \in Fn, at \in FreeAt(aex[id]) :
          /\ \A other \in FreeAt(aex[id]) : at <= other
          /\ aex' = [aex EXCEPT ![id] = rsgx_register_aex_handler(@, t, f, at)]
  /\ UNCHANGED <<layout, handle, enclave, globals, cloned, stack>>

unregister_aex(t) ==
  /\ Top(t, "ecall") /\ <<t, Last(stack[t]).id>> \in AexUser
  /\ LET id == Last(stack[t]).id
     IN \E node \in aex[id].handle :
          /\ node.thread = t
          /\ aex' = [aex EXCEPT ![id] = rsgx_unregister_aex_handler(@, t, node)]
  /\ UNCHANGED <<layout, handle, enclave, globals, cloned, stack>>

--------------------------------------------------------------------------------
\* drop, and destroy, whose argument is dropped: the handle is gone first, ...
drop(t, h) ==
  /\ Host(t) /\ Owned(h)
  /\ Push(t, [pc |-> "drop", id |-> handle[h], h |-> NoHandle])
  /\ handle' = [handle EXCEPT ![h] = NoHandle]
  /\ UNCHANGED <<layout, enclave, globals, cloned, aex>>

\* ... exit is called, ...
exit(t) ==
  /\ Top(t, "drop") /\ MayEnter(t, Last(stack[t]).id)
  /\ globals' = [globals EXCEPT ![Last(stack[t]).id] = "exit"]
  /\ Goto(t, "exiting")
  /\ UNCHANGED <<layout, handle, enclave, cloned, aex>>

\* Mutant: what cannot be shut down is not destroyed.
exit_refused_returns(t) ==
  /\ Top(t, "drop") /\ MayBeRefused(t, Last(stack[t]).id)
  /\ Pop(t)
  /\ UNCHANGED <<layout, handle, enclave, globals, cloned, aex>>

\* Mutant: exit is tried until it succeeds.
exit_refused_retry(t) ==
  /\ Top(t, "drop") /\ MayBeRefused(t, Last(stack[t]).id)
  /\ UNCHANGED vars

\* ... it may be refused, which nobody looks at, ...
exit_refused(t) ==
  /\ Top(t, "drop") /\ MayBeRefused(t, Last(stack[t]).id)
  /\ Goto(t, "destroy")
  /\ UNCHANGED <<layout, handle, enclave, globals, cloned, aex>>

exit_returns(t) ==
  /\ Top(t, "exiting")
  /\ Goto(t, "destroy")
  /\ UNCHANGED <<layout, handle, enclave, globals, cloned, aex>>

\* ... and rsgx_destroy_enclave takes the id out of use, if it is in use, and
\* waits ...
rsgx_destroy_enclave(t) ==
  /\ Top(t, "destroy")
  /\ LET id == Last(stack[t]).id
     IN IF id \in Id /\ enclave[id] \in {"loaded", "crashed"}
        THEN /\ enclave' = [enclave EXCEPT ![id] = "closing"]
             /\ Goto(t, "wait")
        ELSE /\ Pop(t)
             /\ UNCHANGED enclave
  /\ UNCHANGED <<layout, handle, globals, cloned, aex>>

\* ... until no thread is inside.  What was in the enclave goes with it.
destroyed(t) ==
  /\ Top(t, "wait")
  /\ LET id == Last(stack[t]).id
     IN /\ \A u \in Thread : ~Inside(u, id)
        /\ enclave' = [enclave EXCEPT ![id] = "gone"]
        /\ aex' = [aex EXCEPT ![id] = NoHandlers]
  /\ Pop(t)
  /\ UNCHANGED <<layout, handle, globals, cloned>>

--------------------------------------------------------------------------------
InitStep(t) == init(t) \/ init_refused(t) \/ create_returns(t)
CreateStep(t) == (\E h \in Handle : create(t, h)) \/ InitStep(t)
DropStep(t) == exit(t) \/ exit_refused(t) \/ exit_returns(t) \/ rsgx_destroy_enclave(t) \/ destroyed(t)

Next ==
  \/ \E t \in Thread :
       \/ CreateStep(t)
       \/ \E h \in Handle : default(t, h) \/ drop(t, h) \/ ecall(t, h)
       \/ \E h, of \in Handle : clone(t, h, of)
       \/ ecall_returns(t) \/ rsgx_abort(t)
       \/ register_aex(t) \/ unregister_aex(t)
       \/ DropStep(t)
  \/ enclave_lost

\* A call that has begun goes on.  An ecall returns, although the ocalls it makes
\* make ecalls of their own, time and again; the host promises it.
ecall_returns_at(t, depth) == Len(stack[t]) = depth /\ ecall_returns(t)

Fairness ==
  \A t \in Thread :
    /\ WF_vars(InitStep(t) \/ DropStep(t))
    /\ \A depth \in 1 .. MaxDepth : SF_vars(ecall_returns_at(t, depth))

Spec == Init /\ [][Next]_vars /\ Fairness

--------------------------------------------------------------------------------
\* Nothing is left behind: an enclave that is there is in a handle, or in a create
\* or a drop that is under way, whatever was refused or went wrong inside.
OwnedEnclave ==
  \A id \in Id : enclave[id] \in {"loaded", "crashed", "closing"} =>
    \/ \E h \in Handle : handle[h] = id
    \/ \E t \in Thread : \E i \in DOMAIN stack[t] : stack[t][i].id = id /\ stack[t][i].pc # "ecall"

\* No ecall of the host runs before the global init of its enclave has ended or was
\* refused, nor after the global exit, and an enclave whose global state was set up is
\* gone only after its exit, unless it crashed or its handle was cloned: then the drop
\* of one ends what the other uses.
GlobalsFollowLife ==
  \A id \in Id \ cloned :
    /\ (\E t \in Thread : \E i \in DOMAIN stack[t] : stack[t][i].id = id /\ stack[t][i].pc = "ecall")
         => globals[id] \in {"up", "refused", "down"}
    /\ enclave[id] = "gone" => globals[id] \in {"exit", "refused", "down"}

\* The global state of an enclave goes through its life once: t_global_init_ecall comes
\* first and is tried only once, t_global_exit_ecall never while it runs, also when
\* clones of the handle are dropped while they are used, and nothing comes after a crash.
\* An enclave that is gone does not change: the destruction waits for those inside.
Forward(id) ==
  globals'[id] # globals[id] =>
    /\ enclave[id] # "gone"
    /\ \/ <<globals[id], globals'[id]>> \in
            {<<"none", "init">>, <<"init", "up">>, <<"up", "exit">>, <<"none", "refused">>, <<"refused", "exit">>}
       \/ globals'[id] = "down"
GlobalsGoForward == [][\A id \in Id : Forward(id)]_globals

\* The nodes linked for a function are as many as its handles; one that was freed
\* while linked has a function its thread had linked twice, since unregister finds
\* the node to unlink by the function and the one to free by the handle.
AexListsSound ==
  \A id \in Id, t \in Thread, f \in Fn :
    /\ Cardinality(LinkedWith(aex[id], t, f))
         = Cardinality({n \in aex[id].handle : n.thread = t /\ n.fn = f})
    /\ <<t, f>> \notin aex[id].twice => \A n \in Linked(aex[id], t) : n.fn = f => n \in aex[id].handle

\* The three counts are those of the pages the loader lays out.
TcsCounted ==
  LET count == SgxGlobalData(layout)
  IN /\ count.static_tcs_num + count.eremove_tcs_num = TcsLoaded(Pages[layout])
     /\ count.eremove_tcs_num = PagesWith(Pages[layout], LAMBDA e : e.eadd /\ e.content /\ e.si_flags_tcs /\ e.eremove)
     /\ count.dyn_tcs_num = PagesWith(Pages[layout], LAMBDA e : e.post_add /\ e.tcs_dyn)

\* A drop ends with the enclave destroyed, also when clones of the handle are
\* dropped and used at the same time, unless some thread waits for ever because it
\* destroys an enclave from within an ocall.
WaitsInside(t) == Top(t, "wait") /\ \E id \in Id : Inside(t, id)
Dropping(id) == \E t \in Thread : \E i \in DOMAIN stack[t] :
  stack[t][i].id = id /\ stack[t][i].pc \in {"drop", "exiting", "destroy", "wait"}
DropDestroys ==
  (\A id \in Id : Dropping(id) ~> enclave[id] = "gone") \/ <>[](\E t \in Thread : WaitsInside(t))
================================================================================
