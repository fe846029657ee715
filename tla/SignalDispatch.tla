----------------------------- MODULE SignalDispatch -----------------------------
(***************************************************************************)
(* Signal delivery to enclaves (src/sgx-urts/src/signal.rs).  An enclave   *)
(* registers a signal by an ocall; the map signal_set records which one    *)
(* did, and one host handler, handle_signal_entry, looks the signal up and *)
(* enters that enclave.  The map is under a Mutex that the handler takes   *)
(* too, on whatever thread the signal interrupts, so a thread that is      *)
(* interrupted while it holds the mutex waits for itself.                  *)
(*                                                                         *)
(* A thread is a stack of frames: an ocall, a handler that interrupted it, *)
(* an ocall the enclave makes while it handles the signal, and so on.      *)
(* Only the top frame runs.  The kernel's part (masks, dispositions,       *)
(* handler entry and return) is modelled as POSIX has it; an SA_NODEFER or *)
(* SA_RESETHAND an enclave may pass is left out.                           *)
(***************************************************************************)
EXTENDS Naturals, Sequences, SequencesExt

CONSTANTS
  Thread,       \* host threads
  Registrar,    \* those that make u_sigaction_ocall and u_signal_clear_ocall
  Sig,          \* the signal numbers SigNum::from_raw accepts
  Uncatchable,  \* those that can be neither handled nor blocked (SIGKILL, SIGSTOP)
  Eid,          \* enclaves
  NoEid,        \* no entry in signal_set
  Free,         \* nobody holds the mutex
  SaMask,       \* the sa_mask values enclaves pass
  MaxDepth      \* bound: frames on the stack of a thread

ASSUME SignalAssumption ==
  /\ Registrar \subseteq Thread
  /\ Sig # {}
  /\ Uncatchable \subseteq Sig
  /\ NoEid \notin Eid
  /\ Free \notin Thread
  /\ SaMask \subseteq SUBSET (Sig \ Uncatchable)
  /\ MaxDepth \in Nat

VARIABLES
  signal_set,   \* signal_set[s]: the enclave that registered s
  holder,       \* the thread that holds the mutex of signal_set
  disposition,  \* disposition[s]: what the process does with s
  sa_mask,      \* sa_mask[s]: blocked, with s, while the handler of s runs
  mask,         \* mask[t]: the signals thread t blocks
  stack,        \* stack[t]: the frames of t, the running one last
  overtaken     \* not of the code: signals whose entry a clear took away while
                \* the registration that made it had not called sigaction yet

vars == <<signal_set, holder, disposition, sa_mask, mask, stack, overtaken>>

\* What a mask may hold.
Blockable == Sig \ Uncatchable

\* A frame: the code it runs, where it is in it, the signal and the enclave it
\* works for, and the set of signals it installs (an ocall) or restores (a handler).
Frame == [code : {"register", "clear", "handler"},
          pc : {"block", "lock", "locked", "unblock", "install", "ecall"},
          sig : Sig, eid : Eid \cup {NoEid}, set : SUBSET Blockable]

TypeOK ==
  /\ signal_set \in [Sig -> Eid \cup {NoEid}]
  /\ holder \in Thread \cup {Free}
  /\ disposition \in [Sig -> {"default", "other", "entry"}]
  /\ sa_mask \in [Sig -> SUBSET Blockable]
  /\ mask \in [Thread -> SUBSET Blockable]
  /\ stack \in [Thread -> Seq(Frame)]
  /\ overtaken \subseteq Sig
  /\ \A t \in Thread : Len(stack[t]) <= MaxDepth

Init ==
  /\ signal_set = [s \in Sig |-> NoEid]
  /\ holder = Free
  /\ disposition = [s \in Sig |-> "default"]
  /\ sa_mask = [s \in Sig |-> {}]
  /\ mask = [t \in Thread |-> {}]
  /\ stack = [t \in Thread |-> <<>>]
  /\ overtaken = {}

--------------------------------------------------------------------------------
\* Frames.

At(t, code, pc) ==
  /\ stack[t] # <<>>
  /\ Last(stack[t]).code = code
  /\ Last(stack[t]).pc = pc

AtAny(t, pc) == stack[t] # <<>> /\ Last(stack[t]).pc = pc

Push(t, frame) ==
  /\ Len(stack[t]) < MaxDepth
  /\ stack' = [stack EXCEPT ![t] = Append(@, frame)]

Pop(t) == stack' = [stack EXCEPT ![t] = Front(@)]

\* The top frame becomes frame.
Become(t, frame) == stack' = [stack EXCEPT ![t] = Append(Front(@), frame)]

Goto(t, pc) == Become(t, [Last(stack[t]) EXCEPT !.pc = pc])

\* A thread makes an ocall from an ecall: one the host made, or that of a handler.
MayOcall(t) == stack[t] = <<>> \/ At(t, "handler", "ecall")

--------------------------------------------------------------------------------
\* u_sigaction_ocall.  An invalid signal number or a null action changes nothing
\* but the errno.  A null sa_sigaction asks for delivery to the enclave, any
\* other goes to the kernel as it is, and signal_set is not told.

u_sigaction_ocall(t, s, eid, samask) ==
  /\ t \in Registrar
  /\ MayOcall(t)
  /\ Push(t, [code |-> "register", pc |-> "block", sig |-> s, eid |-> eid, set |-> samask])
  /\ UNCHANGED <<signal_set, holder, disposition, sa_mask, mask, overtaken>>

u_sigaction_ocall_other(t, s) ==
  /\ t \in Registrar
  /\ MayOcall(t)
  /\ s \notin Uncatchable
  /\ disposition' = [disposition EXCEPT ![s] = "other"]
  /\ UNCHANGED <<signal_set, holder, sa_mask, mask, stack, overtaken>>

u_signal_clear_ocall(t, eid) ==
  /\ t \in Registrar
  /\ MayOcall(t)
  /\ Push(t, [code |-> "clear", pc |-> "block", sig |-> CHOOSE s \in Sig : TRUE,
              eid |-> eid, set |-> {}])
  /\ UNCHANGED <<signal_set, holder, disposition, sa_mask, mask, overtaken>>

\* how is SIG_BLOCK, SIG_UNBLOCK or SIG_SETMASK.
u_sigprocmask_ocall(t, set) ==
  /\ MayOcall(t)
  /\ \E new \in {mask[t] \cup set, mask[t] \ set, set} : mask' = [mask EXCEPT ![t] = new]
  /\ UNCHANGED <<signal_set, holder, disposition, sa_mask, stack, overtaken>>

--------------------------------------------------------------------------------
\* register_signal and deregister_all_signals_for_eid: block every signal, lock,
\* change the map, unlock, unblock.

\* Mutant: signals are not blocked.
Block_nothing(t) ==
  /\ AtAny(t, "block")
  /\ Goto(t, "lock")
  /\ UNCHANGED <<signal_set, holder, disposition, sa_mask, mask, overtaken>>

Block(t) ==
  /\ AtAny(t, "block")
  /\ mask' = [mask EXCEPT ![t] = Blockable]
  /\ Goto(t, "lock")
  /\ UNCHANGED <<signal_set, holder, disposition, sa_mask, overtaken>>

Lock(t) ==
  /\ AtAny(t, "lock")
  /\ holder = Free
  /\ holder' = t
  /\ Goto(t, "locked")
  /\ UNCHANGED <<signal_set, disposition, sa_mask, mask, overtaken>>

Insert(t) ==
  /\ At(t, "register", "locked")
  /\ signal_set' = [signal_set EXCEPT ![Last(stack[t]).sig] = Last(stack[t]).eid]
  /\ holder' = Free
  /\ Goto(t, "unblock")
  /\ overtaken' = overtaken \ {Last(stack[t]).sig}
  /\ UNCHANGED <<disposition, sa_mask, mask>>

RegisteredBy(eid) == {s \in Sig : signal_set[s] = eid}

\* A registration of s is between the insertion and the sigaction.
Pending(s) == \E t \in Thread : \E i \in DOMAIN stack[t] :
  stack[t][i].code = "register" /\ stack[t][i].pc \in {"unblock", "install"} /\ stack[t][i].sig = s

\* Mutant: the entries go, the host handler stays installed.
Retain_keep_handler(t) ==
  /\ At(t, "clear", "locked")
  /\ signal_set' = [s \in Sig |-> IF signal_set[s] = Last(stack[t]).eid THEN NoEid ELSE signal_set[s]]
  /\ overtaken' = overtaken \cup {s \in RegisteredBy(Last(stack[t]).eid) : Pending(s)}
  /\ holder' = Free
  /\ Goto(t, "unblock")
  /\ UNCHANGED <<disposition, sa_mask, mask>>

\* The loop of retain is one step: it runs under the mutex.
Retain(t) ==
  LET gone == RegisteredBy(Last(stack[t]).eid)
  IN /\ At(t, "clear", "locked")
     /\ disposition' = [s \in Sig |-> IF s \in gone \ Uncatchable THEN "default" ELSE disposition[s]]
     /\ signal_set' = [s \in Sig |-> IF s \in gone THEN NoEid ELSE signal_set[s]]
     /\ overtaken' = overtaken \cup {s \in gone : Pending(s)}
     /\ holder' = Free
     /\ Goto(t, "unblock")
     /\ UNCHANGED <<sa_mask, mask>>

\* Mutant: the set the mask was filled with is restored in place of the old one.
Unblock_filled(t) ==
  /\ AtAny(t, "unblock")
  /\ mask' = [mask EXCEPT ![t] = Sig]
  /\ IF Last(stack[t]).code = "clear" THEN Pop(t) ELSE Goto(t, "install")
  /\ UNCHANGED <<signal_set, holder, disposition, sa_mask, overtaken>>

\* The old mask was written to a temporary copy (&mut oldmask.raw()), so what is
\* restored is the empty set oldmask was created as.
Unblock(t) ==
  /\ AtAny(t, "unblock")
  /\ mask' = [mask EXCEPT ![t] = {}]
  /\ IF Last(stack[t]).code = "clear" THEN Pop(t) ELSE Goto(t, "install")
  /\ UNCHANGED <<signal_set, holder, disposition, sa_mask, overtaken>>

\* libc::sigaction, after the map already names the enclave.  When it fails the
\* entry stays.
Install(t) ==
  LET f == Last(stack[t])
  IN /\ AtAny(t, "install")
     /\ IF f.sig \in Uncatchable
        THEN UNCHANGED <<disposition, sa_mask, overtaken>>
        ELSE /\ disposition' = [disposition EXCEPT ![f.sig] = "entry"]
             /\ sa_mask' = [sa_mask EXCEPT ![f.sig] = f.set]
     /\ Pop(t)
     /\ UNCHANGED <<signal_set, holder, mask, overtaken>>

--------------------------------------------------------------------------------
\* A signal arrives, from outside or by u_raise_ocall, at a thread that does not
\* block it and finds the host handler installed.  One that is pending for a
\* while is here one that arrives later, and one that finds another disposition
\* changes nothing here (a default action that ends the process ends it all).
handle_signal_entry(t, s) ==
  /\ s \notin mask[t]
  /\ disposition[s] = "entry"
  /\ Push(t, [code |-> "handler", pc |-> "lock", sig |-> s, eid |-> NoEid, set |-> mask[t]])
  /\ mask' = [mask EXCEPT ![t] = @ \cup sa_mask[s] \cup {s}]
  /\ UNCHANGED <<signal_set, holder, disposition, sa_mask, overtaken>>

\* The handler returns: the frame goes and the kernel restores the mask.
Return(t) ==
  /\ Pop(t)
  /\ mask' = [mask EXCEPT ![t] = Last(stack[t]).set]

\* get_eid_for_signal, under the mutex Lock took; without an entry the handler
\* gives up.
get_eid_for_signal(t) ==
  LET eid == signal_set[Last(stack[t]).sig]
  IN /\ At(t, "handler", "locked")
     /\ holder' = Free
     /\ \/ eid = NoEid /\ Return(t)
        \/ /\ eid # NoEid
           /\ Become(t, [Last(stack[t]) EXCEPT !.pc = "ecall", !.eid = eid])
           /\ UNCHANGED mask
     /\ UNCHANGED <<signal_set, disposition, sa_mask, overtaken>>

\* t_signal_handler_ecall is over, whatever it returned.
EcallReturns(t) ==
  /\ At(t, "handler", "ecall")
  /\ Return(t)
  /\ UNCHANGED <<signal_set, holder, disposition, sa_mask, overtaken>>

--------------------------------------------------------------------------------
Ocall(t) ==
  \/ \E s \in Sig, eid \in Eid, samask \in SaMask : u_sigaction_ocall(t, s, eid, samask)
  \/ \E s \in Sig : u_sigaction_ocall_other(t, s)
  \/ \E eid \in Eid : u_signal_clear_ocall(t, eid)
  \/ \E set \in SUBSET Blockable : u_sigprocmask_ocall(t, set)

Run(t) ==
  \/ Block(t)
  \/ Lock(t)
  \/ Insert(t)
  \/ Retain(t)
  \/ Unblock(t)
  \/ Install(t)
  \/ get_eid_for_signal(t)
  \/ EcallReturns(t)

Signal(t) == \E s \in Sig : handle_signal_entry(t, s)

Next == \E t \in Thread : Ocall(t) \/ Run(t) \/ Signal(t)

Spec == Init /\ [][Next]_vars

\* A thread that can run its top frame runs it; nothing makes signals arrive.
\* The mutex is not handed over in order, so a thread may wait for it forever
\* while others pass it on: no property needs more.
Fairness == \A t \in Thread : WF_vars(Run(t))

--------------------------------------------------------------------------------
\* No handler runs on a thread in the middle of a registration: an ocall that has
\* something on top of it has not blocked signals yet or has unblocked them,
\* whatever mask the thread had and whatever handlers it is already in.
RegistrationUninterrupted ==
  \A t \in Thread : \A i \in 1 .. Len(stack[t]) - 1 :
    stack[t][i].code # "handler" => stack[t][i].pc \in {"block", "install"}

\* No thread waits for the mutex of signal_set while it holds it: the deadlock
\* that blocking all signals is there to avoid.
NoSelfDeadlock ==
  \A t \in Thread : AtAny(t, "lock") => holder # t

\* A signal the host handler is installed for has an enclave to go to, so no
\* signal is swallowed, unless a clear came between the insertion and the
\* sigaction of the registration, which then installs the handler of a signal
\* nobody owns.  Another thread can make that clear, or a handler that interrupted
\* the registration once it had unblocked the signals: there is no other way.
EntryHasOwner ==
  \A s \in Sig : disposition[s] = "entry" /\ s \notin overtaken => signal_set[s] # NoEid

\* The mutex, taken in an ocall or in a handler, is always released.
MutexIsReleased ==
  \A t \in Thread : holder = t ~> holder # t
================================================================================
