-------------------------- MODULE SignalDispatchProofs ---------------------------
(***************************************************************************)
(* Proofs about SignalDispatch, for any number of threads, signals and     *)
(* enclaves, any masks and any depth of handlers in handlers.              *)
(*                                                                         *)
(* The properties speak of frames that something else runs on top of, and  *)
(* of a mask that is in force while a frame is at the top.  The invariant  *)
(* ties them: a frame that must not be interrupted has every signal        *)
(* blocked while it is the top of its thread, and so nothing is ever put   *)
(* on top of it, and so the mask that a returning handler restores never   *)
(* has such a frame to protect.                                            *)
(***************************************************************************)
EXTENDS SignalDispatch, SequenceTheorems, TLAPS

\* Every enclave has its signals delivered with all the others blocked.
MasksAreFull == \A m \in SaMask : m = Blockable

\* The frames no signal may interrupt: an ocall that has blocked signals and not yet
\* unblocked them, and a handler at the mutex, if handlers block every signal.
Closed(f) == f.pc \in {"lock", "locked", "unblock"} /\ (f.code = "handler" => MasksAreFull)

\* What a frame of each code may be doing.
FrameFits(f) ==
  /\ f.code = "register" => f.pc # "ecall" /\ f.eid \in Eid /\ f.set \in SaMask
  /\ f.code = "clear" => f.pc \in {"block", "lock", "locked", "unblock"}
  /\ f.code = "handler" => f.pc \in {"lock", "locked", "ecall"}

\* The frames of a thread, and its mask.
ThreadFits(t, st, m) ==
  /\ Len(st) <= MaxDepth
  /\ \A i \in 1 .. Len(st) : /\ FrameFits(st[i])
                             /\ st[i].code # "handler" => t \in Registrar
  /\ \A i \in 1 .. Len(st) - 1 : ~Closed(st[i])
  /\ st # <<>> /\ Closed(st[Len(st)]) => m = Blockable

Threads ==
  /\ stack \in [Thread -> Seq(Frame)] /\ mask \in [Thread -> SUBSET Blockable]
  /\ \A t \in Thread : ThreadFits(t, stack[t], mask[t])

\* Only a signal that can be caught has the handler, with a mask an enclave gave.
EntryFits ==
  \A s \in Sig : disposition[s] = "entry" => s \in Blockable /\ sa_mask[s] \in SaMask

Typed ==
  /\ signal_set \in [Sig -> Eid \cup {NoEid}] /\ holder \in Thread \cup {Free}
  /\ disposition \in [Sig -> {"default", "other", "entry"}]
  /\ sa_mask \in [Sig -> SUBSET Blockable]
  /\ Threads /\ EntryFits /\ overtaken \subseteq Sig

\* The signals that have an entry, or lost it to a clear that overtook a registration.
Known == {s \in Sig : signal_set[s] # NoEid} \cup overtaken

\* A registration that has changed the map is about a signal of those.
Owned(st, known) ==
  \A i \in 1 .. Len(st) :
    st[i].code = "register" /\ st[i].pc \in {"unblock", "install"} => st[i].sig \in known

Owners ==
  /\ \A s \in Sig : disposition[s] = "entry" => s \in Known
  /\ \A t \in Thread : Owned(stack[t], Known)

\* Who holds the mutex is about to give it back.
HolderRuns == \A t \in Thread : holder = t => AtAny(t, "locked")
--------------------------------------------------------------------------------
(* Frames                                                                      *)

\* Front takes the last element away.
LEMMA FrontForm ==
  ASSUME NEW S, NEW st \in Seq(S), st # <<>>
  PROVE  /\ Len(st) \in Nat /\ Len(st) >= 1 /\ st[Len(st)] \in S
         /\ Front(st) \in Seq(S) /\ Len(Front(st)) = Len(st) - 1
         /\ \A i \in 1 .. Len(st) - 1 : Front(st)[i] = st[i]
<1> DEFINE n == Len(st) - 1
<1>1. Len(st) \in Nat /\ Len(st) # 0
  BY EmptySeq
<1>2. n \in Int /\ 1 \in Int /\ n >= 0 /\ \A i \in 1 .. n : st[i] \in S
  BY <1>1
<1>3. Front(st) = SubSeq(st, 1, n)
  BY DEF Front
<1> HIDE DEF n
<1>4. /\ Front(st) \in Seq(S) /\ Len(Front(st)) = IF 1 <= n THEN n - 1 + 1 ELSE 0
      /\ \A i \in 1 .. n - 1 + 1 : Front(st)[i] = st[1 + i - 1]
  BY <1>2, <1>3, SubSeqProperties
<1>5. Len(Front(st)) = n /\ \A i \in 1 .. n : Front(st)[i] = st[i]
  <2>1. n - 1 + 1 = n /\ \A i \in 1 .. n : 1 + i - 1 = i
    BY <1>2
  <2> QED BY <1>2, <1>4, <2>1
<1>6. st[Len(st)] \in S /\ Len(st) >= 1
  BY <1>1
<1> QED BY <1>1, <1>4, <1>5, <1>6 DEF n

\* A frame is put on top, where nothing that must not be interrupted is.
LEMMA PushFits ==
  ASSUME NEW t, NEW st \in Seq(Frame), NEW m, ThreadFits(t, st, m), Len(st) < MaxDepth,
         st # <<>> => ~Closed(st[Len(st)]),
         NEW f \in Frame, FrameFits(f), f.code # "handler" => t \in Registrar,
         NEW n, Closed(f) => n = Blockable
  PROVE  Append(st, f) \in Seq(Frame) /\ ThreadFits(t, Append(st, f), n)
<1> DEFINE new == Append(st, f)
<1>1. Len(st) \in Nat /\ (st = <<>> <=> Len(st) = 0)
  BY EmptySeq
<1>2. /\ new \in Seq(Frame) /\ Len(new) = Len(st) + 1
      /\ \A i \in 1 .. Len(st) : new[i] = st[i]
      /\ new[Len(st) + 1] = f
  BY AppendProperties
<1> HIDE DEF new
<1>3. Len(new) <= MaxDepth
  BY <1>1, <1>2, SignalAssumption
<1>4. ASSUME NEW i \in 1 .. Len(new)
      PROVE  FrameFits(new[i]) /\ (new[i].code # "handler" => t \in Registrar)
  <2>1. CASE i \in 1 .. Len(st)
    BY <1>2, <2>1 DEF ThreadFits
  <2>2. CASE i = Len(st) + 1
    BY <1>1, <1>2, <2>2
  <2> QED BY <1>1, <1>2, <2>1, <2>2
<1>5. ASSUME NEW i \in 1 .. Len(new) - 1 PROVE ~Closed(new[i])
  <2>1. i \in 1 .. Len(st) /\ new[i] = st[i]
    BY <1>1, <1>2
  <2>2. CASE i \in 1 .. Len(st) - 1
    BY <2>1, <2>2 DEF ThreadFits
  <2>3. CASE i = Len(st)
    BY <1>1, <2>1, <2>3
  <2> QED BY <1>1, <2>1, <2>2, <2>3
<1>6. ThreadFits(t, new, n)
  BY <1>1, <1>2, <1>3, <1>4, <1>5 DEF ThreadFits
<1> QED BY <1>2, <1>6 DEF new

\* The top frame goes: what was below it could be interrupted, whatever mask it gets.
LEMMA PopFits ==
  ASSUME NEW t, NEW st \in Seq(Frame), NEW m, ThreadFits(t, st, m), st # <<>>, NEW n
  PROVE  Front(st) \in Seq(Frame) /\ ThreadFits(t, Front(st), n)
<1> DEFINE new == Front(st)
<1>1. /\ Len(st) \in Nat /\ Len(st) >= 1
      /\ new \in Seq(Frame) /\ Len(new) = Len(st) - 1
      /\ \A i \in 1 .. Len(st) - 1 : new[i] = st[i]
  BY FrontForm
<1> HIDE DEF new
<1>2. Len(new) \in Nat /\ (new # <<>> => Len(new) \in 1 .. Len(st) - 1)
  BY <1>1, EmptySeq
<1>3. /\ Len(new) <= MaxDepth
      /\ \A i \in 1 .. Len(st) : /\ FrameFits(st[i])
                                 /\ st[i].code # "handler" => t \in Registrar
      /\ \A i \in 1 .. Len(st) - 1 : ~Closed(st[i])
  BY <1>1, SignalAssumption DEF ThreadFits
<1>4. \A i \in 1 .. Len(new) : i \in 1 .. Len(st) /\ i \in 1 .. Len(st) - 1
  BY <1>1
<1>5. \A i \in 1 .. Len(new) - 1 : i \in 1 .. Len(st) - 1
  BY <1>1
<1>6. ThreadFits(t, new, n)
  BY <1>1, <1>2, <1>3, <1>4, <1>5 DEF ThreadFits
<1> QED BY <1>1, <1>6 DEF new

\* The top frame becomes another one.
LEMMA BecomeFits ==
  ASSUME NEW t, NEW st \in Seq(Frame), NEW m, ThreadFits(t, st, m), st # <<>>,
         NEW f \in Frame, FrameFits(f), f.code = st[Len(st)].code,
         NEW n, Closed(f) => n = Blockable
  PROVE  /\ Append(Front(st), f) \in Seq(Frame) /\ ThreadFits(t, Append(Front(st), f), n)
         /\ Len(Append(Front(st), f)) = Len(st) /\ Append(Front(st), f)[Len(st)] = f
         /\ \A i \in 1 .. Len(st) - 1 : Append(Front(st), f)[i] = st[i]
<1> DEFINE low == Front(st)
<1>1. /\ Len(st) \in Nat /\ Len(st) >= 1
      /\ low \in Seq(Frame) /\ Len(low) = Len(st) - 1
      /\ \A i \in 1 .. Len(st) - 1 : low[i] = st[i]
  BY FrontForm
<1> HIDE DEF low
<1> DEFINE new == Append(low, f)
<1>2. /\ new \in Seq(Frame) /\ Len(new) = Len(low) + 1
      /\ \A i \in 1 .. Len(low) : new[i] = low[i]
      /\ new[Len(low) + 1] = f
  BY <1>1, AppendProperties
<1> HIDE DEF new
<1>3. /\ Len(new) = Len(st) /\ new[Len(st)] = f
      /\ \A i \in 1 .. Len(st) - 1 : new[i] = st[i]
  <2>1. Len(low) + 1 = Len(st)
    BY <1>1
  <2> QED BY <1>1, <1>2, <2>1
<1>4. /\ Len(st) <= MaxDepth
      /\ \A i \in 1 .. Len(st) : /\ FrameFits(st[i])
                                 /\ st[i].code # "handler" => t \in Registrar
      /\ \A i \in 1 .. Len(st) - 1 : ~Closed(st[i])
  BY DEF ThreadFits
<1>5. ASSUME NEW i \in 1 .. Len(st)
      PROVE  FrameFits(new[i]) /\ (new[i].code # "handler" => t \in Registrar)
  <2>1. CASE i = Len(st)
    BY <1>3, <1>4, <2>1
  <2>2. CASE i \in 1 .. Len(st) - 1
    BY <1>3, <1>4, <2>2
  <2> QED BY <1>1, <2>1, <2>2
<1>6. ThreadFits(t, new, n)
  BY <1>3, <1>4, <1>5 DEF ThreadFits
<1> QED BY <1>2, <1>3, <1>6 DEF new, low

\* A step of one thread leaves the others as they fit.
LEMMA OneThread ==
  ASSUME Threads, NEW t \in Thread, NEW st \in Seq(Frame), NEW m \in SUBSET Blockable,
         stack' = [stack EXCEPT ![t] = st], mask' = [mask EXCEPT ![t] = m],
         ThreadFits(t, st, m)
  PROVE  Threads'
<1>1. /\ stack \in [Thread -> Seq(Frame)] /\ mask \in [Thread -> SUBSET Blockable]
      /\ \A u \in Thread : ThreadFits(u, stack[u], mask[u])
  BY DEF Threads
<1>2. stack' \in [Thread -> Seq(Frame)] /\ mask' \in [Thread -> SUBSET Blockable]
  BY <1>1
<1>3. ASSUME NEW u \in Thread PROVE ThreadFits(u, stack'[u], mask'[u])
  <2>1. CASE u = t
    BY <1>1, <2>1
  <2>2. CASE u # t
    BY <1>1, <2>2
  <2> QED BY <2>1, <2>2
<1> QED BY <1>2, <1>3 DEF Threads, ThreadFits

\* What holds of the top frame of a thread.
LEMMA TopFits ==
  ASSUME Threads, NEW t \in Thread, stack[t] # <<>>
  PROVE  /\ stack[t] \in Seq(Frame) /\ Len(stack[t]) \in Nat /\ Len(stack[t]) >= 1
         /\ Last(stack[t]) = stack[t][Len(stack[t])]
         /\ Last(stack[t]) \in Frame /\ FrameFits(Last(stack[t]))
         /\ Last(stack[t]).code # "handler" => t \in Registrar
         /\ Closed(Last(stack[t])) => mask[t] = Blockable
         /\ mask[t] \in SUBSET Blockable
<1> DEFINE st == stack[t]
<1>1. st \in Seq(Frame) /\ ThreadFits(t, st, mask[t]) /\ mask[t] \in SUBSET Blockable
  BY DEF Threads
<1>2. Last(st) = st[Len(st)]
  BY DEF Last
<1> HIDE DEF st
<1>3. Len(st) \in Nat /\ Len(st) >= 1 /\ st[Len(st)] \in Frame /\ st # <<>>
  BY <1>1, FrontForm DEF st
<1>4. Len(st) \in 1 .. Len(st)
  BY <1>3
<1> QED BY <1>1, <1>2, <1>3, <1>4 DEF st, ThreadFits

\* The three ways the stack of a thread changes, with a mask for it.
LEMMA PushStep ==
  ASSUME Threads, NEW t \in Thread, NEW f \in Frame, Push(t, f), FrameFits(f),
         stack[t] # <<>> => ~Closed(Last(stack[t])),
         f.code # "handler" => t \in Registrar,
         NEW m \in SUBSET Blockable, mask' = [mask EXCEPT ![t] = m], Closed(f) => m = Blockable
  PROVE  Threads'
<1>1. /\ stack[t] \in Seq(Frame) /\ ThreadFits(t, stack[t], mask[t]) /\ Len(stack[t]) < MaxDepth
      /\ stack[t] # <<>> => ~Closed(stack[t][Len(stack[t])])
  BY DEF Threads, Push, Last
<1>2. Append(stack[t], f) \in Seq(Frame) /\ ThreadFits(t, Append(stack[t], f), m)
  BY <1>1, PushFits
<1>3. stack' = [stack EXCEPT ![t] = Append(stack[t], f)]
  BY DEF Push
<1> QED BY <1>2, <1>3, OneThread

LEMMA PopStep ==
  ASSUME Threads, NEW t \in Thread, stack[t] # <<>>, Pop(t),
         NEW m \in SUBSET Blockable, mask' = [mask EXCEPT ![t] = m]
  PROVE  Threads'
<1>1. stack[t] \in Seq(Frame) /\ ThreadFits(t, stack[t], mask[t])
  BY DEF Threads
<1>2. Front(stack[t]) \in Seq(Frame) /\ ThreadFits(t, Front(stack[t]), m)
  BY <1>1, PopFits
<1>3. stack' = [stack EXCEPT ![t] = Front(stack[t])]
  BY DEF Pop
<1> QED BY <1>2, <1>3, OneThread

LEMMA BecomeStep ==
  ASSUME Threads, NEW t \in Thread, stack[t] # <<>>, NEW f \in Frame, Become(t, f), FrameFits(f),
         f.code = Last(stack[t]).code,
         NEW m \in SUBSET Blockable, mask' = [mask EXCEPT ![t] = m], Closed(f) => m = Blockable
  PROVE  Threads'
<1>1. /\ stack[t] \in Seq(Frame) /\ ThreadFits(t, stack[t], mask[t])
      /\ f.code = stack[t][Len(stack[t])].code
  BY DEF Threads, Last
<1>2. Append(Front(stack[t]), f) \in Seq(Frame) /\ ThreadFits(t, Append(Front(stack[t]), f), m)
  BY <1>1, BecomeFits
<1>3. stack' = [stack EXCEPT ![t] = Append(Front(stack[t]), f)]
  BY DEF Become
<1> QED BY <1>2, <1>3, OneThread

\* A frame goes on to another point of its code.
LEMMA GotoStep ==
  ASSUME Threads, NEW t \in Thread, stack[t] # <<>>,
         NEW pc \in {"lock", "locked", "unblock", "install"}, Goto(t, pc),
         Last(stack[t]).code = "clear" => pc # "install",
         Last(stack[t]).code = "handler" => pc = "locked",
         NEW m \in SUBSET Blockable, mask' = [mask EXCEPT ![t] = m],
         pc # "install" /\ (Last(stack[t]).code = "handler" => MasksAreFull) => m = Blockable
  PROVE  Threads'
<1> DEFINE old == Last(stack[t])
           new == [old EXCEPT !.pc = pc]
<1>1. old \in Frame /\ FrameFits(old)
  BY TopFits
<1>2. Become(t, new)
  BY DEF Goto
<1>3. new \in Frame /\ new.pc = pc /\ new.code = old.code /\ new.eid = old.eid /\ new.set = old.set
  BY <1>1 DEF Frame
<1>4. old.code \in {"register", "clear", "handler"}
  BY <1>1 DEF Frame
<1> HIDE DEF new
<1>5. FrameFits(new)
  BY <1>1, <1>3, <1>4 DEF FrameFits
<1>6. Closed(new) => m = Blockable
  BY <1>3 DEF Closed
<1> QED BY <1>2, <1>3, <1>5, <1>6, BecomeStep

\* A mask that is kept is one that is set again.
LEMMA MaskStays ==
  ASSUME Threads, NEW t \in Thread
  PROVE  mask[t] \in SUBSET Blockable /\ mask = [mask EXCEPT ![t] = mask[t]]
BY DEF Threads

\* The steps of a registration or of a clear.
LEMMA OcallStep ==
  ASSUME Typed, NEW t \in Thread,
         Block(t) \/ Lock(t) \/ Insert(t) \/ Retain(t) \/ Unblock(t) \/ Install(t)
  PROVE  Typed'
<1> DEFINE f == Last(stack[t])
<1>0. stack[t] # <<>> /\ Threads /\ Blockable \in SUBSET Blockable /\ {} \in SUBSET Blockable
  BY DEF Block, Lock, Insert, Retain, Unblock, Install, AtAny, At, Typed
<1>1. f \in Frame /\ FrameFits(f) /\ (Closed(f) => mask[t] = Blockable)
  BY <1>0, TopFits
<1>2. f.sig \in Sig /\ f.eid \in Eid \cup {NoEid} /\ f.set \in SUBSET Blockable
      /\ f.code \in {"register", "clear", "handler"}
  BY <1>1 DEF Frame
<1>3. CASE Block(t)
  <2>1. f.pc = "block" /\ f.code # "handler"
    BY <1>1, <1>3 DEF Block, AtAny, FrameFits
  <2>2. Threads'
    BY <1>0, <1>3, <2>1, GotoStep DEF Block
  <2> QED BY <1>3, <2>2 DEF Block, Typed, EntryFits
<1>4. CASE Lock(t)
  <2>1. f.pc = "lock"
    BY <1>4 DEF Lock, AtAny
  <2>2. (f.code = "handler" => MasksAreFull) => mask[t] = Blockable
    BY <1>1, <2>1 DEF Closed
  <2>3. Threads'
    BY <1>0, <1>4, <2>2, GotoStep, MaskStays DEF Lock
  <2> QED BY <1>4, <2>3 DEF Lock, Typed, EntryFits
<1>5. CASE Insert(t)
  <2>1. f.pc = "locked" /\ f.code = "register"
    BY <1>5 DEF Insert, At
  <2>2. mask[t] = Blockable
    BY <1>1, <2>1 DEF Closed
  <2>3. Threads'
    BY <1>0, <1>5, <2>1, <2>2, GotoStep, MaskStays DEF Insert
  <2>4. signal_set' \in [Sig -> Eid \cup {NoEid}]
    BY <1>2, <1>5 DEF Insert, Typed
  <2>5. overtaken' \subseteq Sig
    BY <1>5 DEF Insert, Typed
  <2> QED BY <1>5, <2>3, <2>4, <2>5 DEF Insert, Typed, EntryFits
<1>6. CASE Retain(t)
  <2>1. f.pc = "locked" /\ f.code = "clear"
    BY <1>6 DEF Retain, At
  <2>2. mask[t] = Blockable
    BY <1>1, <2>1 DEF Closed
  <2>3. Threads'
    BY <1>0, <1>6, <2>1, <2>2, GotoStep, MaskStays DEF Retain
  <2>4. signal_set' \in [Sig -> Eid \cup {NoEid}]
    BY <1>6 DEF Retain, Typed
  <2>5. disposition' \in [Sig -> {"default", "other", "entry"}] /\ EntryFits'
    BY <1>6 DEF Retain, Typed, EntryFits
  <2>6. overtaken' \subseteq Sig
    BY <1>6 DEF Retain, Typed, RegisteredBy
  <2> QED BY <1>6, <2>3, <2>4, <2>5, <2>6 DEF Retain, Typed
<1>7. CASE Unblock(t)
  <2>1. f.pc = "unblock" /\ f.code # "handler"
    BY <1>1, <1>7 DEF Unblock, AtAny, FrameFits
  <2>2. CASE f.code = "clear"
    <3>1. Threads'
      BY <1>0, <1>7, <2>2, PopStep DEF Unblock
    <3> QED BY <1>7, <3>1 DEF Unblock, Typed, EntryFits
  <2>3. CASE f.code # "clear"
    <3>1. Threads'
      BY <1>0, <1>7, <2>1, <2>3, GotoStep DEF Unblock
    <3> QED BY <1>7, <3>1 DEF Unblock, Typed, EntryFits
  <2> QED BY <2>2, <2>3
<1>8. CASE Install(t)
  <2>1. f.pc = "install" /\ f.code = "register"
    BY <1>1, <1>2, <1>8 DEF Install, AtAny, FrameFits
  <2>2. f.set \in SaMask
    BY <1>1, <2>1 DEF FrameFits
  <2>3. Threads'
    BY <1>0, <1>8, PopStep, MaskStays DEF Install
  <2>4. CASE f.sig \in Uncatchable
    BY <1>8, <2>3, <2>4 DEF Install, Typed, EntryFits
  <2>5. CASE f.sig \notin Uncatchable
    <3>1. /\ disposition' = [disposition EXCEPT ![f.sig] = "entry"]
          /\ sa_mask' = [sa_mask EXCEPT ![f.sig] = f.set]
      BY <1>8, <2>5 DEF Install
    <3>2. /\ disposition' \in [Sig -> {"default", "other", "entry"}]
          /\ sa_mask' \in [Sig -> SUBSET Blockable]
      BY <1>2, <3>1 DEF Typed
    <3>3. EntryFits'
      BY <1>2, <2>2, <2>5, <3>1 DEF Typed, EntryFits, Blockable
    <3> QED BY <1>8, <2>3, <3>2, <3>3 DEF Install, Typed
  <2> QED BY <2>4, <2>5
<1> QED BY <1>3, <1>4, <1>5, <1>6, <1>7, <1>8

\* The steps of a handler, and a signal that starts one.
LEMMA HandlerStep ==
  ASSUME Typed, NEW t \in Thread, Signal(t) \/ get_eid_for_signal(t) \/ EcallReturns(t)
  PROVE  Typed'
<1> DEFINE f == Last(stack[t])
<1>0. Threads /\ mask[t] \in SUBSET Blockable
  BY DEF Typed, Threads
<1>1. ASSUME stack[t] # <<>>, Return(t) PROVE Threads'
  <2>1. f.set \in SUBSET Blockable
    BY <1>0, <1>1, TopFits DEF Frame
  <2> QED BY <1>0, <1>1, <2>1, PopStep DEF Return
<1>2. CASE Signal(t)
  <2>1. PICK s \in Sig : handle_signal_entry(t, s)
    BY <1>2 DEF Signal
  <2> DEFINE new == [code |-> "handler", pc |-> "lock", sig |-> s, eid |-> NoEid, set |-> mask[t]]
             m == mask[t] \cup sa_mask[s] \cup {s}
  <2>2. /\ s \in Blockable /\ sa_mask[s] \in SaMask /\ sa_mask[s] \subseteq Blockable
        /\ s \notin mask[t]
    BY <2>1 DEF handle_signal_entry, Typed, EntryFits
  <2>3. new \in Frame /\ FrameFits(new) /\ new.code = "handler"
    BY <1>0 DEF Frame, FrameFits
  <2>4. stack[t] # <<>> => ~Closed(f)
    BY <1>0, <2>2, TopFits
  <2>5. m \in SUBSET Blockable /\ mask' = [mask EXCEPT ![t] = m]
    BY <1>0, <2>1, <2>2 DEF handle_signal_entry
  <2>6. Closed(new) => m = Blockable
    <3>1. MasksAreFull => sa_mask[s] = Blockable
      BY <2>2 DEF MasksAreFull
    <3> QED BY <2>2, <2>3, <2>5, <3>1 DEF Closed
  <2>7. Push(t, new)
    BY <2>1 DEF handle_signal_entry
  <2> HIDE DEF new, m
  <2>8. Threads'
    BY <1>0, <2>3, <2>4, <2>5, <2>6, <2>7, PushStep
  <2> QED BY <2>1, <2>8 DEF handle_signal_entry, Typed, EntryFits
<1>3. CASE get_eid_for_signal(t)
  <2>1. stack[t] # <<>> /\ f.code = "handler"
    BY <1>3 DEF get_eid_for_signal, At
  <2>2. f \in Frame
    BY <1>0, <2>1, TopFits
  <2> DEFINE eid == signal_set[f.sig]
             new == [f EXCEPT !.pc = "ecall", !.eid = eid]
  <2>3. Threads'
    <3>1. CASE Return(t)
      BY <1>1, <2>1, <3>1
    <3>2. CASE ~Return(t)
      <4>1. Become(t, new) /\ UNCHANGED mask
        BY <1>3, <3>2 DEF get_eid_for_signal
      <4>2. eid \in Eid \cup {NoEid}
        BY <2>2 DEF Frame, Typed
      <4>3. new \in Frame /\ new.pc = "ecall" /\ new.code = "handler"
        BY <2>1, <2>2, <4>2 DEF Frame
      <4> HIDE DEF new
      <4>4. FrameFits(new) /\ ~Closed(new)
        BY <4>3 DEF FrameFits, Closed
      <4> QED BY <1>0, <2>1, <4>1, <4>3, <4>4, BecomeStep, MaskStays
    <3> QED BY <3>1, <3>2
  <2> QED BY <1>3, <2>3 DEF get_eid_for_signal, Typed, EntryFits
<1>4. CASE EcallReturns(t)
  <2>1. Threads'
    BY <1>1, <1>4 DEF EcallReturns, At
  <2> QED BY <1>4, <2>1 DEF EcallReturns, Typed, EntryFits
<1> QED BY <1>2, <1>3, <1>4

\* The ocalls an enclave makes.
LEMMA EnterStep == ASSUME Typed, NEW t \in Thread, Ocall(t) PROVE Typed'
<1>0. Threads /\ mask[t] \in SUBSET Blockable
  BY DEF Typed, Threads
<1>1. ASSUME MayOcall(t), stack[t] # <<>> PROVE ~Closed(Last(stack[t]))
  BY <1>1 DEF MayOcall, At, Closed
<1>2. ASSUME NEW s \in Sig, NEW eid \in Eid, NEW samask \in SaMask,
             u_sigaction_ocall(t, s, eid, samask)
      PROVE  Typed'
  <2> DEFINE new == [code |-> "register", pc |-> "block", sig |-> s, eid |-> eid, set |-> samask]
  <2>1. new \in Frame /\ FrameFits(new) /\ ~Closed(new) /\ new.code = "register"
    <3>1. samask \in SUBSET Blockable
      BY SignalAssumption DEF Blockable
    <3> QED BY <3>1 DEF Frame, FrameFits, Closed
  <2>2. Push(t, new) /\ MayOcall(t) /\ t \in Registrar /\ UNCHANGED mask
    BY <1>2 DEF u_sigaction_ocall
  <2> HIDE DEF new
  <2>3. Threads'
    BY <1>0, <1>1, <2>1, <2>2, PushStep, MaskStays
  <2> QED BY <1>2, <2>3 DEF u_sigaction_ocall, Typed, EntryFits
<1>3. ASSUME NEW s \in Sig, u_sigaction_ocall_other(t, s) PROVE Typed'
  <2>1. Threads'
    BY <1>0, <1>3 DEF u_sigaction_ocall_other, Threads, ThreadFits
  <2>2. disposition' \in [Sig -> {"default", "other", "entry"}] /\ EntryFits'
    BY <1>3 DEF u_sigaction_ocall_other, Typed, EntryFits
  <2> QED BY <1>3, <2>1, <2>2 DEF u_sigaction_ocall_other, Typed
<1>4. ASSUME NEW eid \in Eid, u_signal_clear_ocall(t, eid) PROVE Typed'
  <2> DEFINE sig == CHOOSE s \in Sig : TRUE
             new == [code |-> "clear", pc |-> "block", sig |-> sig, eid |-> eid, set |-> {}]
  <2>1. sig \in Sig
    BY SignalAssumption
  <2>2. Push(t, new) /\ MayOcall(t) /\ t \in Registrar /\ UNCHANGED mask
    BY <1>4 DEF u_signal_clear_ocall
  <2> HIDE DEF sig
  <2>3. new \in Frame /\ FrameFits(new) /\ ~Closed(new) /\ new.code = "clear"
    BY <2>1 DEF Frame, FrameFits, Closed
  <2> HIDE DEF new
  <2>4. Threads'
    BY <1>0, <1>1, <2>2, <2>3, PushStep, MaskStays
  <2> QED BY <1>4, <2>4 DEF u_signal_clear_ocall, Typed, EntryFits
<1>5. ASSUME NEW set \in SUBSET Blockable, u_sigprocmask_ocall(t, set) PROVE Typed'
  <2>1. PICK m \in SUBSET Blockable : mask' = [mask EXCEPT ![t] = m]
    <3>1. mask[t] \cup set \in SUBSET Blockable /\ mask[t] \ set \in SUBSET Blockable
      BY <1>0
    <3> QED BY <1>5, <3>1 DEF u_sigprocmask_ocall
  <2>2. /\ stack' = [stack EXCEPT ![t] = stack[t]] /\ stack[t] \in Seq(Frame)
        /\ ThreadFits(t, stack[t], mask[t])
    BY <1>0, <1>5 DEF u_sigprocmask_ocall, Threads
  <2>3. ThreadFits(t, stack[t], m)
    BY <1>1, <1>5, <2>2 DEF u_sigprocmask_ocall, ThreadFits, Last
  <2>4. Threads'
    BY <1>0, <2>1, <2>2, <2>3, OneThread
  <2> QED BY <1>5, <2>4 DEF u_sigprocmask_ocall, Typed, EntryFits
<1> QED BY <1>2, <1>3, <1>4, <1>5 DEF Ocall

\* Every step keeps the shape of the state.
LEMMA TypedStep == Typed /\ [Next]_vars => Typed'
<1> SUFFICES ASSUME Typed, [Next]_vars PROVE Typed'
  OBVIOUS
<1>1. ASSUME NEW t \in Thread, Ocall(t) \/ Run(t) \/ Signal(t) PROVE Typed'
  BY <1>1, EnterStep, OcallStep, HandlerStep DEF Run
<1>2. CASE UNCHANGED vars
  BY <1>2 DEF vars, Typed, Threads, ThreadFits, EntryFits
<1> QED BY <1>1, <1>2 DEF Next

\* It holds at the start.
LEMMA InitTyped == Init => Typed
<1> SUFFICES ASSUME Init PROVE Typed
  OBVIOUS
<1>1. stack \in [Thread -> Seq(Frame)] /\ mask \in [Thread -> SUBSET Blockable]
  BY DEF Init
<1>2. ASSUME NEW t \in Thread PROVE ThreadFits(t, stack[t], mask[t])
  <2>1. stack[t] = <<>> /\ Len(<<>>) = 0
    BY DEF Init
  <2> QED BY <2>1, SignalAssumption DEF ThreadFits
<1> QED BY <1>1, <1>2 DEF Init, Typed, Threads, EntryFits

\* The variables of the dispatcher keep their types, and a signal that cannot be
\* blocked is in no mask: src/sgx-urts/src/signal.rs.
THEOREM TypeCorrect == Spec => []TypeOK
<1>1. Typed => TypeOK
  BY DEF Typed, TypeOK, Threads, ThreadFits
<1> QED BY <1>1, InitTyped, TypedStep, PTL DEF Spec

\* No handler starts on a thread in the middle of a registration, whatever the masks,
\* and however many handlers and ocalls of handlers the thread is in.
THEOREM NothingInterrupts == Spec => []RegistrationUninterrupted
<1>1. Typed => RegistrationUninterrupted
  <2> SUFFICES ASSUME Typed, NEW t \in Thread, NEW i \in 1 .. Len(stack[t]) - 1,
                      stack[t][i].code # "handler"
               PROVE  stack[t][i].pc \in {"block", "install"}
    BY DEF RegistrationUninterrupted
  <2> DEFINE st == stack[t]
  <2>1. st \in Seq(Frame) /\ ThreadFits(t, st, mask[t])
    BY DEF Typed, Threads
  <2>2. i \in 1 .. Len(st)
    BY <2>1
  <2> HIDE DEF st
  <2>3. st[i] \in Frame /\ FrameFits(st[i])
    BY <2>1, <2>2 DEF ThreadFits
  <2>4. ~Closed(st[i])
    BY <2>1 DEF ThreadFits, st
  <2>5. /\ st[i].code \in {"register", "clear", "handler"}
        /\ st[i].pc \in {"block", "lock", "locked", "unblock", "install", "ecall"}
    BY <2>3 DEF Frame
  <2> QED BY <2>3, <2>4, <2>5 DEF FrameFits, Closed, st
<1> QED BY <1>1, InitTyped, TypedStep, PTL DEF Spec

--------------------------------------------------------------------------------
(* The map and the dispositions                                                *)

\* A new frame or a frame less owes no entry more than before.
LEMMA OwnedForms ==
  ASSUME Threads, NEW t \in Thread, NEW set, Owned(stack[t], set), NEW f \in Frame
  PROVE  /\ ~(f.code = "register" /\ f.pc \in {"unblock", "install"}) \/ f.sig \in set =>
              /\ Owned(Append(stack[t], f), set)
              /\ stack[t] # <<>> => Owned(Append(Front(stack[t]), f), set)
         /\ stack[t] # <<>> => Owned(Front(stack[t]), set)
<1> DEFINE st == stack[t]
<1>0. st \in Seq(Frame)
  BY DEF Threads
<1> HIDE DEF st
<1>1. ASSUME NEW low \in Seq(Frame), Owned(low, set),
             ~(f.code = "register" /\ f.pc \in {"unblock", "install"}) \/ f.sig \in set
      PROVE  Owned(Append(low, f), set)
  <2> DEFINE new == Append(low, f)
  <2>1. /\ Len(low) \in Nat /\ Len(new) = Len(low) + 1
        /\ \A i \in 1 .. Len(low) : new[i] = low[i]
        /\ new[Len(low) + 1] = f
    BY AppendProperties, LenProperties
  <2> HIDE DEF new
  <2>2. \A i \in 1 .. Len(new) : i \in 1 .. Len(low) \/ i = Len(low) + 1
    BY <2>1
  <2>3. Owned(new, set)
    BY <1>1, <2>1, <2>2 DEF Owned
  <2> QED BY <2>3 DEF new
<1>2. ASSUME st # <<>> PROVE Front(st) \in Seq(Frame) /\ Owned(Front(st), set)
  <2> DEFINE low == Front(st)
  <2>1. /\ Len(st) \in Nat /\ low \in Seq(Frame) /\ Len(low) = Len(st) - 1
        /\ \A i \in 1 .. Len(st) - 1 : low[i] = st[i]
    BY <1>0, <1>2, FrontForm
  <2> HIDE DEF low
  <2>2. \A i \in 1 .. Len(low) : i \in 1 .. Len(st) /\ low[i] = st[i]
    BY <2>1
  <2>3. Owned(low, set)
    BY <2>2 DEF Owned, st
  <2> QED BY <2>1, <2>3 DEF low
<1> QED BY <1>0, <1>1, <1>2 DEF st

\* A step of one thread that takes no signal out of the known ones and gives the handler
\* to none that is not one of them.
LEMMA OwnersStay ==
  ASSUME Typed, Owners, NEW t \in Thread, NEW st, stack' = [stack EXCEPT ![t] = st],
         Owned(st, Known'), Known \subseteq Known',
         \A s \in Sig : disposition'[s] = "entry" => disposition[s] = "entry" \/ s \in Known'
  PROVE  Owners'
<1>1. stack \in [Thread -> Seq(Frame)]
  BY DEF Typed, Threads
<1>2. ASSUME NEW u \in Thread PROVE Owned(stack'[u], Known')
  <2>1. CASE u = t
    BY <1>1, <2>1
  <2>2. CASE u # t
    BY <1>1, <2>2 DEF Owners, Owned
  <2> QED BY <2>1, <2>2
<1>3. \A s \in Sig : disposition'[s] = "entry" => s \in Known'
  BY DEF Owners
<1> QED BY <1>2, <1>3 DEF Owners, Owned

\* A frame that goes on to another point of its code, where it owes no entry.
LEMMA GotoOwned ==
  ASSUME Threads, NEW t \in Thread, stack[t] # <<>>, NEW pc, NEW set, Owned(stack[t], set),
         pc \in {"lock", "locked", "unblock", "install"},
         pc \in {"unblock", "install"} /\ Last(stack[t]).code = "register" =>
           Last(stack[t]).sig \in set
  PROVE  Owned(Append(Front(stack[t]), [Last(stack[t]) EXCEPT !.pc = pc]), set)
<1> DEFINE old == Last(stack[t])
           new == [old EXCEPT !.pc = pc]
<1>1. old \in Frame
  BY TopFits
<1>2. new \in Frame /\ new.pc = pc /\ new.code = old.code /\ new.sig = old.sig
  BY <1>1 DEF Frame
<1> HIDE DEF new
<1>3. Owned(Append(Front(stack[t]), new), set)
  BY <1>2, OwnedForms
<1> QED BY <1>3 DEF new

\* No step leaves the handler to a signal without an enclave but a clear that overtakes.
LEMMA OwnersStep == Typed /\ Owners /\ [Next]_vars => Owners'
<1> SUFFICES ASSUME Typed, Owners, [Next]_vars PROVE Owners'
  OBVIOUS
<1>0. /\ stack \in [Thread -> Seq(Frame)] /\ Threads /\ signal_set \in [Sig -> Eid \cup {NoEid}]
      /\ \A t \in Thread : Owned(stack[t], Known)
      /\ disposition \in [Sig -> {"default", "other", "entry"}]
  BY DEF Typed, Threads, Owners
<1> DEFINE kept == <<signal_set, disposition, overtaken>>
<1>1. ASSUME NEW t \in Thread, UNCHANGED kept,
             NEW st, stack' = [stack EXCEPT ![t] = st], Owned(st, Known)
      PROVE  Owners'
  <2>1. Known' = Known /\ disposition' = disposition
    BY <1>1 DEF Known
  <2> QED BY <1>1, <2>1, OwnersStay
<1>2. ASSUME NEW t \in Thread, NEW f \in Frame, Push(t, f), UNCHANGED kept,
             f.pc \notin {"unblock", "install"}
      PROVE  Owners'
  BY <1>0, <1>1, <1>2, OwnedForms DEF Push
<1>3. ASSUME NEW t \in Thread, stack[t] # <<>>, Pop(t), UNCHANGED kept
      PROVE  Owners'
  <2>1. Last(stack[t]) \in Frame
    BY <1>0, <1>3, TopFits
  <2> QED BY <1>0, <1>1, <1>3, <2>1, OwnedForms DEF Pop
<1>4. ASSUME NEW t \in Thread, stack[t] # <<>>, NEW pc, Goto(t, pc),
             UNCHANGED kept, pc \in {"lock", "locked", "unblock", "install"},
             pc \in {"unblock", "install"} /\ Last(stack[t]).code = "register" =>
               Last(stack[t]).sig \in Known
      PROVE  Owners'
  <2> DEFINE new == [Last(stack[t]) EXCEPT !.pc = pc]
  <2>1. Owned(Append(Front(stack[t]), new), Known)
    BY <1>0, <1>4, GotoOwned
  <2>2. stack' = [stack EXCEPT ![t] = Append(Front(stack[t]), new)]
    BY <1>4 DEF Goto, Become
  <2> HIDE DEF new
  <2> QED BY <1>1, <1>4, <2>1, <2>2
<1>5. ASSUME NEW t \in Thread, stack[t] # <<>>
      PROVE  /\ Last(stack[t]) \in Frame /\ FrameFits(Last(stack[t]))
             /\ Last(stack[t]).code \in {"register", "clear", "handler"}
             /\ Last(stack[t]).code = "register" /\ Last(stack[t]).pc \in {"unblock", "install"} =>
                  Last(stack[t]).sig \in Known
  <2> DEFINE st == stack[t]
  <2>1. /\ st \in Seq(Frame) /\ Len(st) \in Nat /\ Len(st) >= 1 /\ Last(st) = st[Len(st)]
        /\ Last(st) \in Frame /\ FrameFits(Last(st))
    BY <1>0, <1>5, TopFits
  <2>2. Last(st).code \in {"register", "clear", "handler"}
    BY <2>1 DEF Frame
  <2>3. Owned(st, Known)
    BY <1>0
  <2> HIDE DEF st
  <2>4. Len(st) \in 1 .. Len(st)
    BY <2>1
  <2>5. Last(st).code = "register" /\ Last(st).pc \in {"unblock", "install"} =>
          Last(st).sig \in Known
    BY <2>1, <2>3, <2>4 DEF Owned
  <2> QED BY <2>1, <2>2, <2>5 DEF st
<1>6. ASSUME NEW t \in Thread, Ocall(t) PROVE Owners'
  <2>1. ASSUME NEW s \in Sig, NEW eid \in Eid, NEW samask \in SaMask,
               u_sigaction_ocall(t, s, eid, samask)
        PROVE  Owners'
    <3> DEFINE new == [code |-> "register", pc |-> "block", sig |-> s, eid |-> eid, set |-> samask]
    <3>1. new \in Frame /\ new.pc \notin {"unblock", "install"}
      BY SignalAssumption DEF Frame, Blockable
    <3>2. Push(t, new) /\ UNCHANGED kept
      BY <2>1 DEF u_sigaction_ocall
    <3> HIDE DEF new
    <3> QED BY <1>2, <3>1, <3>2
  <2>2. ASSUME NEW s \in Sig, u_sigaction_ocall_other(t, s) PROVE Owners'
    <3>1. /\ stack' = stack /\ Known' = Known
          /\ disposition' = [disposition EXCEPT ![s] = "other"]
      BY <2>2 DEF u_sigaction_ocall_other, Known
    <3> QED BY <1>0, <3>1 DEF Owners, Owned
  <2>3. ASSUME NEW eid \in Eid, u_signal_clear_ocall(t, eid) PROVE Owners'
    <3> DEFINE sig == CHOOSE s \in Sig : TRUE
               new == [code |-> "clear", pc |-> "block", sig |-> sig, eid |-> eid, set |-> {}]
    <3>1. sig \in Sig
      BY SignalAssumption
    <3>2. Push(t, new) /\ UNCHANGED kept
      BY <2>3 DEF u_signal_clear_ocall
    <3> HIDE DEF sig
    <3>3. new \in Frame /\ new.pc \notin {"unblock", "install"}
      BY <3>1 DEF Frame
    <3> HIDE DEF new
    <3> QED BY <1>2, <3>2, <3>3
  <2>4. ASSUME NEW set \in SUBSET Blockable, u_sigprocmask_ocall(t, set) PROVE Owners'
    BY <2>4 DEF u_sigprocmask_ocall, Owners, Known, Owned
  <2> QED BY <1>6, <2>1, <2>2, <2>3, <2>4 DEF Ocall
<1>7. ASSUME NEW t \in Thread, Signal(t) PROVE Owners'
  <2>1. PICK s \in Sig : handle_signal_entry(t, s)
    BY <1>7 DEF Signal
  <2> DEFINE new == [code |-> "handler", pc |-> "lock", sig |-> s, eid |-> NoEid, set |-> mask[t]]
  <2>2. new \in Frame /\ new.pc \notin {"unblock", "install"}
    BY <1>0 DEF Frame, Threads
  <2>3. Push(t, new) /\ UNCHANGED kept
    BY <2>1 DEF handle_signal_entry
  <2> HIDE DEF new
  <2> QED BY <1>2, <2>2, <2>3
<1>8. ASSUME NEW t \in Thread, Run(t) PROVE Owners'
  <2> DEFINE f == Last(stack[t])
  <2>0. stack[t] # <<>>
    BY <1>8 DEF Run, Block, Lock, Insert, Retain, Unblock, Install, get_eid_for_signal,
               EcallReturns, AtAny, At
  <2>1. CASE Block(t) \/ Lock(t)
    <3>1. (Goto(t, "lock") \/ Goto(t, "locked")) /\ UNCHANGED kept
      BY <2>1 DEF Block, Lock
    <3> QED BY <1>4, <2>0, <3>1
  <2>2. CASE Insert(t)
    <3> DEFINE new == [f EXCEPT !.pc = "unblock"]
    <3>1. /\ f.code = "register" /\ signal_set' = [signal_set EXCEPT ![f.sig] = f.eid]
          /\ overtaken' = overtaken \ {f.sig} /\ Goto(t, "unblock") /\ UNCHANGED disposition
      BY <2>2 DEF Insert, At
    <3>2. f \in Frame /\ f.eid \in Eid /\ f.sig \in Sig
      BY <1>5, <2>0, <3>1 DEF FrameFits, Frame
    <3>3. Known \subseteq Known' /\ f.sig \in Known'
      BY <1>0, <3>1, <3>2, SignalAssumption DEF Known
    <3>4. Owned(stack[t], Known')
      BY <1>0, <3>3 DEF Owned
    <3>5. Owned(Append(Front(stack[t]), new), Known')
      BY <1>0, <2>0, <3>3, <3>4, GotoOwned
    <3>6. stack' = [stack EXCEPT ![t] = Append(Front(stack[t]), new)]
      BY <3>1 DEF Goto, Become
    <3> HIDE DEF new
    <3> QED BY <3>1, <3>3, <3>5, <3>6, OwnersStay
  <2>3. CASE Retain(t)
    <3> DEFINE gone == RegisteredBy(f.eid)
               new == [f EXCEPT !.pc = "unblock"]
    <3>1. /\ f.code = "clear" /\ Goto(t, "unblock")
          /\ disposition' = [s \in Sig |-> IF s \in gone \ Uncatchable THEN "default" ELSE disposition[s]]
          /\ signal_set' = [s \in Sig |-> IF s \in gone THEN NoEid ELSE signal_set[s]]
          /\ overtaken' = overtaken \cup {s \in gone : Pending(s)}
      BY <2>3 DEF Retain, At
    <3> HIDE DEF gone
    <3>2. \A s \in Known : s \in Known' \/ (s \in gone /\ ~Pending(s))
      BY <3>1 DEF Known
    <3>3. ASSUME NEW s \in Sig, disposition'[s] = "entry" PROVE s \in Known'
      <4>1. s \notin gone \ Uncatchable /\ disposition[s] = "entry"
        BY <3>1, <3>3
      <4>2. s \in Known /\ s \notin Uncatchable
        BY <4>1 DEF Owners, Typed, EntryFits, Blockable
      <4> QED BY <3>2, <4>1, <4>2
    <3>4. ASSUME NEW u \in Thread PROVE Owned(stack[u], Known')
      <4> SUFFICES ASSUME NEW i \in 1 .. Len(stack[u]), stack[u][i].code = "register",
                          stack[u][i].pc \in {"unblock", "install"}
                   PROVE  stack[u][i].sig \in Known'
        BY DEF Owned
      <4>1. stack[u][i].sig \in Known
        BY <1>0 DEF Owned
      <4>2. i \in DOMAIN stack[u]
        BY <1>0
      <4>3. Pending(stack[u][i].sig)
        BY <4>2 DEF Pending
      <4> QED BY <3>2, <4>1, <4>3
    <3>5. Owned(Append(Front(stack[t]), new), Known')
      BY <1>0, <2>0, <3>1, <3>4, GotoOwned
    <3>6. stack' = [stack EXCEPT ![t] = Append(Front(stack[t]), new)]
      BY <3>1 DEF Goto, Become
    <3> HIDE DEF new
    <3>7. \A u \in Thread : Owned(stack'[u], Known')
      BY <1>0, <3>4, <3>5, <3>6
    <3> QED BY <3>3, <3>7 DEF Owners, Owned
  <2>4. CASE Unblock(t)
    <3>1. /\ IF f.code = "clear" THEN Pop(t) ELSE Goto(t, "install")
          /\ f.pc = "unblock" /\ UNCHANGED kept
      BY <2>4 DEF Unblock, AtAny
    <3> QED BY <1>3, <1>4, <1>5, <2>0, <3>1
  <2>5. CASE Install(t)
    <3>1. f.pc = "install" /\ Pop(t) /\ Known' = Known
      BY <2>5 DEF Install, AtAny, Known
    <3>2. f.code = "register" /\ f.sig \in Sig /\ f \in Frame
      BY <1>5, <2>0, <3>1 DEF FrameFits, Frame
    <3>3. f.sig \in Known
      BY <1>5, <2>0, <3>1, <3>2
    <3>4. \A s \in Sig : disposition'[s] = "entry" => disposition[s] = "entry" \/ s = f.sig
      BY <1>0, <2>5, <3>2 DEF Install
    <3>5. Owned(Front(stack[t]), Known')
      BY <1>0, <2>0, <3>1, <3>2, OwnedForms
    <3>6. stack' = [stack EXCEPT ![t] = Front(stack[t])]
      BY <3>1 DEF Pop
    <3> QED BY <3>1, <3>3, <3>4, <3>5, <3>6, OwnersStay
  <2>6. CASE get_eid_for_signal(t)
    <3>1. f.code = "handler" /\ UNCHANGED kept
      BY <2>6 DEF get_eid_for_signal, At
    <3>2. CASE Return(t)
      BY <1>3, <2>0, <3>1, <3>2 DEF Return
    <3>3. CASE ~Return(t)
      <4> DEFINE new == [f EXCEPT !.pc = "ecall", !.eid = signal_set[f.sig]]
      <4>1. Become(t, new)
        BY <2>6, <3>3 DEF get_eid_for_signal
      <4>2. f \in Frame
        BY <1>5, <2>0
      <4>3. f.sig \in Sig
        BY <4>2 DEF Frame
      <4>4. signal_set[f.sig] \in Eid \cup {NoEid}
        BY <1>0, <4>3
      <4>5. new \in Frame /\ new.pc = "ecall"
        BY <4>2, <4>4 DEF Frame
      <4> HIDE DEF new
      <4>6. Owned(Append(Front(stack[t]), new), Known)
        BY <1>0, <2>0, <4>5, OwnedForms
      <4> QED BY <1>1, <3>1, <4>1, <4>6 DEF Become
    <3> QED BY <3>2, <3>3
  <2>7. CASE EcallReturns(t)
    BY <1>3, <2>0, <2>7 DEF EcallReturns, Return
  <2> QED BY <1>8, <2>1, <2>2, <2>3, <2>4, <2>5, <2>6, <2>7 DEF Run
<1>9. CASE UNCHANGED vars
  BY <1>9 DEF vars, Owners, Known, Owned
<1> QED BY <1>6, <1>7, <1>8, <1>9 DEF Next

\* Whatever threads register and clear, and from whatever handlers, a signal that has
\* the host handler has an enclave to go to: signal_set names one before sigaction
\* installs the handler, and deregister_all_signals_for_eid takes the handler away with
\* the entry.  What remains is the clear that comes between the two.
THEOREM HandlersHaveOwners == Spec => []EntryHasOwner
<1>1. Init => Owners
  BY DEF Init, Owners, Known, Owned
<1>2. Typed /\ Owners /\ [Next]_vars => Owners'
  BY OwnersStep
<1>3. Owners => EntryHasOwner
  BY DEF Owners, Known, EntryHasOwner
<1> QED BY <1>1, <1>2, <1>3, InitTyped, TypedStep, PTL DEF Spec

--------------------------------------------------------------------------------
(* The mutex                                                                   *)

\* If handlers block every signal, nothing starts on a thread that holds the mutex.
LEMMA HolderStep ==
  ASSUME MasksAreFull
  PROVE  Typed /\ HolderRuns /\ [Next]_vars => HolderRuns'
<1> SUFFICES ASSUME Typed, HolderRuns, [Next]_vars PROVE HolderRuns'
  OBVIOUS
<1>0. stack \in [Thread -> Seq(Frame)] /\ Threads
  BY DEF Typed, Threads
<1>1. ASSUME NEW t \in Thread, NEW st, stack' = [stack EXCEPT ![t] = st],
             holder' = Free \/ (holder' = holder /\ ~AtAny(t, "locked"))
      PROVE  HolderRuns'
  <2>1. \A u \in Thread : holder' = u => u # t /\ holder = u
    BY <1>1, SignalAssumption DEF HolderRuns
  <2>2. \A u \in Thread : u # t => stack'[u] = stack[u]
    BY <1>0, <1>1
  <2> QED BY <2>1, <2>2 DEF HolderRuns, AtAny, Last
<1>2. ASSUME UNCHANGED <<holder, stack>> PROVE HolderRuns'
  BY <1>2 DEF HolderRuns, AtAny
<1>3. ASSUME NEW t \in Thread, Ocall(t) PROVE HolderRuns'
  <2>1. ASSUME MayOcall(t) PROVE ~AtAny(t, "locked")
    BY <2>1 DEF MayOcall, AtAny, At
  <2>2. ASSUME stack[t] = <<>> PROVE MayOcall(t)
    BY <2>2 DEF MayOcall
  <2>3. \/ UNCHANGED <<holder, stack>>
        \/ MayOcall(t) /\ UNCHANGED holder /\ \E f : Push(t, f)
    BY <1>3, <2>2 DEF Ocall, u_sigaction_ocall, u_sigaction_ocall_other, u_signal_clear_ocall,
                      u_sigprocmask_ocall
  <2> QED BY <1>1, <1>2, <2>1, <2>3 DEF Push
<1>4. ASSUME NEW t \in Thread, Signal(t) PROVE HolderRuns'
  <2>1. PICK s \in Sig : handle_signal_entry(t, s)
    BY <1>4 DEF Signal
  <2>2. s \in Blockable /\ s \notin mask[t]
    BY <2>1 DEF handle_signal_entry, Typed, EntryFits
  <2>3. ~AtAny(t, "locked")
    BY <1>0, <2>2, TopFits DEF AtAny, Closed
  <2> QED BY <1>1, <2>1, <2>3 DEF handle_signal_entry, Push
<1>5. ASSUME NEW t \in Thread, Run(t) PROVE HolderRuns'
  <2>1. CASE Lock(t)
    <3> DEFINE new == [Last(stack[t]) EXCEPT !.pc = "locked"]
               st == Append(Front(stack[t]), new)
    <3>1. holder' = t /\ stack' = [stack EXCEPT ![t] = st] /\ stack[t] # <<>>
      BY <2>1 DEF Lock, Goto, Become, AtAny
    <3>2. Last(stack[t]) \in Frame
      BY <1>0, <3>1, TopFits
    <3>3. new \in Frame /\ new.pc = "locked"
      BY <3>2 DEF Frame
    <3>4. Front(stack[t]) \in Seq(Frame)
      BY <1>0, <3>1, FrontForm
    <3> HIDE DEF new
    <3>5. st # <<>> /\ Last(st) = new
      <4>1. /\ st # <<>> /\ Len(st) = Len(Front(stack[t])) + 1
            /\ st[Len(Front(stack[t])) + 1] = new
        BY <3>3, <3>4, AppendProperties
      <4> QED BY <4>1 DEF Last
    <3> HIDE DEF st
    <3>6. stack'[t] = st
      BY <1>0, <3>1
    <3>7. stack'[t] # <<>> /\ Last(stack'[t]).pc = "locked"
      BY <3>3, <3>5, <3>6
    <3> QED BY <3>1, <3>7 DEF HolderRuns, AtAny, Last
  <2>2. CASE Insert(t) \/ Retain(t) \/ get_eid_for_signal(t)
    <3>1. holder' = Free
      BY <2>2 DEF Insert, Retain, get_eid_for_signal
    <3>2. \A u \in Thread : holder' # u
      BY <3>1, SignalAssumption
    <3> QED BY <3>2 DEF HolderRuns
  <2>3. CASE Block(t) \/ Unblock(t) \/ Install(t) \/ EcallReturns(t)
    <3>1. ~AtAny(t, "locked") /\ holder' = holder /\ \E st : stack' = [stack EXCEPT ![t] = st]
      BY <2>3 DEF Block, Unblock, Install, EcallReturns, Return, AtAny, At, Goto, Become, Pop
    <3> QED BY <1>1, <3>1
  <2> QED BY <1>5, <2>1, <2>2, <2>3 DEF Run
<1>6. CASE UNCHANGED vars
  BY <1>2, <1>6 DEF vars
<1> QED BY <1>3, <1>4, <1>5, <1>6 DEF Next

\* If enclaves have their signals delivered with every other blocked, no thread waits
\* for the mutex of signal_set while it holds it: neither a registration nor a handler.
THEOREM NoThreadWaitsForItself ==
  ASSUME MasksAreFull
  PROVE  Spec => []NoSelfDeadlock
<1>1. Init => HolderRuns
  BY SignalAssumption DEF Init, HolderRuns
<1>2. Typed /\ HolderRuns /\ [Next]_vars => HolderRuns'
  BY HolderStep
<1>3. HolderRuns => NoSelfDeadlock
  BY DEF HolderRuns, NoSelfDeadlock, AtAny
<1> QED BY <1>1, <1>2, <1>3, InitTyped, TypedStep, PTL DEF Spec

================================================================================
