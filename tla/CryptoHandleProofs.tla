--------------------------- MODULE CryptoHandleProofs ---------------------------
(***************************************************************************)
(* The objects of sgx-tcrypto, for every number of objects and contexts    *)
(* and every size of key.  NoMisuse rests on FlagMeansContext and on the   *)
(* sizes an object remembers being those of its key (SizesFit); that no    *)
(* context is taken back twice rests on two objects never having the same. *)
(***************************************************************************)
EXTENDS CryptoHandle, TLAPS

\* An object whose flag is set remembers the sizes its context was made with.
SizesFit == \A h \in Handle : initflag[h] => ctx[handle[h]].size = size[h]

IInv ==
  /\ TypeOK
  /\ FlagMeansContext
  /\ SizesFit
  /\ NoMisuse
  /\ NothingLeaks
  /\ KeyCanBeFreed

--------------------------------------------------------------------------------
\* A native call on the context of an object whose flag is set fits it.
LEMMA NativeFits ==
  ASSUME IInv, NEW h \in Handle, initflag[h], Native(handle[h], kind[h], size[h])
  PROVE  misused' = misused
BY DEF IInv, FlagMeansContext, SizesFit, Native

\* What the library gives for an object that had nothing.
LEMMA OpenSafe ==
  ASSUME IInv, NEW h \in Object, NEW key \in Key \cup {NoKey}, NEW n \in Int,
         Open(h, key, n), kind[h] \in Rsa => initflag[h] \/ n > 0
  PROVE  IInv'
<1>0. /\ h \in Handle /\ kind[h] \in Kind
      /\ TypeOK
  BY DEF Object, IInv, TypeOK
<1>a. CASE initflag[h] /\ UNCHANGED <<initflag, handle, size, ctx>>
  <2>1. TypeOK'
    BY <1>0, <1>a DEF Open, TypeOK
  <2>2. FlagMeansContext' /\ SizesFit' /\ NoMisuse' /\ KeyCanBeFreed'
    BY <1>a DEF Open, IInv, FlagMeansContext, SizesFit, NoMisuse, KeyCanBeFreed, MayFree, Allocated
  <2>3. NothingLeaks'
    BY <1>a DEF Open, IInv, NothingLeaks, Allocated, Object
  <2> QED BY <2>1, <2>2, <2>3 DEF IInv
<1>b. CASE ~initflag[h] /\ ~(initflag[h] /\ UNCHANGED <<initflag, handle, size, ctx>>)
  <2>1. PICK c \in Ctx \ Allocated :
          /\ ctx' = [ctx EXCEPT ![c] = [kind |-> kind[h], key |-> key, size |-> n]]
          /\ handle' = [handle EXCEPT ![h] = c]
          /\ initflag' = [initflag EXCEPT ![h] = TRUE]
          /\ size' = [size EXCEPT ![h] = n]
    BY <1>b DEF Open
  <2>2. UNCHANGED <<kind, misused, refused>> /\ asked' = [asked EXCEPT ![h] = key]
    BY DEF Open
  <2>3. TypeOK'
    BY <1>0, <2>1, <2>2 DEF TypeOK
  <2>4. kind[h] # "none"
    BY DEF Object
  <2>5. Allocated' = Allocated \cup {c}
    BY <1>0, <2>1, <2>4 DEF Allocated, TypeOK
  <2>6. \A i \in Handle : i # h =>
          /\ handle'[i] = handle[i] /\ initflag'[i] = initflag[i] /\ size'[i] = size[i]
          /\ initflag[i] => handle[i] \in Allocated /\ handle[i] # c /\ ctx'[handle[i]] = ctx[handle[i]]
    BY <1>0, <2>1 DEF IInv, FlagMeansContext, TypeOK, Allocated
  <2>7. /\ handle'[h] = c /\ initflag'[h] = TRUE /\ size'[h] = n
        /\ ctx'[c] = [kind |-> kind[h], key |-> key, size |-> n]
    BY <1>0, <2>1 DEF TypeOK
  <2>8. FlagMeansContext'
    <3>1. ASSUME NEW i \in Handle
          PROVE  IF initflag'[i] THEN handle'[i] \in Allocated' /\ ctx'[handle'[i]].kind = kind'[i]
                 ELSE handle'[i] = Null
      BY <2>2, <2>5, <2>6, <2>7 DEF IInv, FlagMeansContext
    <3>2. ASSUME NEW i \in Handle, NEW j \in Handle, initflag'[i], handle'[i] = handle'[j]
          PROVE  i = j
      <4>1. CASE i = h \/ j = h
        <5>1. \A k \in Handle : k # h => handle'[k] # c
          BY <2>6, CryptoAssumption DEF IInv, FlagMeansContext
        <5> QED BY <1>0, <2>7, <3>2, <4>1, <5>1
      <4>2. CASE i # h /\ j # h
        BY <2>6, <3>2, <4>2 DEF IInv, FlagMeansContext
      <4> QED BY <4>1, <4>2
    <3> QED BY <3>1, <3>2 DEF FlagMeansContext
  <2>9. SizesFit'
    BY <2>6, <2>7 DEF IInv, SizesFit
  <2>10. NothingLeaks'
    <3> SUFFICES ASSUME NEW d \in Allocated'
                 PROVE  d \in refused' \/ \E i \in Object' : initflag'[i] /\ handle'[i] = d
      BY DEF NothingLeaks
    <3>1. Object' = Object
      BY <2>2 DEF Object
    <3>2. CASE d = c
      BY <2>7, <3>1, <3>2
    <3>3. CASE d \in refused
      BY <2>2, <3>3
    <3>4. CASE \E i \in Object : initflag[i] /\ handle[i] = d
      <4>1. PICK i \in Object : initflag[i] /\ handle[i] = d
        BY <3>4
      <4>2. i # h /\ i \in Handle
        BY <1>b, <4>1 DEF Object
      <4> QED BY <2>6, <3>1, <4>1, <4>2
    <3> QED BY <2>5, <3>2, <3>3, <3>4 DEF IInv, NothingLeaks
  <2>11. KeyCanBeFreed'
    BY <1>b, <2>2, <2>6, <2>7 DEF IInv, KeyCanBeFreed, MayFree
  <2> QED BY <2>2, <2>3, <2>8, <2>9, <2>10, <2>11 DEF IInv, NoMisuse
<1> QED BY <1>a, <1>b DEF Open

\* The context of h goes and h forgets it; whatever else h forgets does not matter.
LEMMA ReleaseSafe ==
  ASSUME IInv, TypeOK', NEW h \in Object, NEW gone,
         initflag' = [initflag EXCEPT ![h] = FALSE],
         handle' = [handle EXCEPT ![h] = Null],
         \A i \in Handle : i # h => kind'[i] = kind[i] /\ size'[i] = size[i],
         \/ initflag[h] /\ gone /\ Closed(h) /\ UNCHANGED refused
         \/ initflag[h] /\ ~gone /\ UNCHANGED <<ctx, misused>> /\ refused' = refused \cup {handle[h]}
         \/ ~initflag[h] /\ UNCHANGED <<ctx, misused, refused>>
  PROVE  IInv'
<1>0. h \in Handle /\ TypeOK
  BY DEF Object, IInv
<1>1. misused' = misused
  BY <1>0, NativeFits DEF Closed
<1>2. \A i \in Handle : i # h =>
        /\ handle'[i] = handle[i] /\ initflag'[i] = initflag[i]
        /\ kind'[i] = kind[i] /\ size'[i] = size[i]
  BY <1>0 DEF TypeOK
<1>3. handle'[h] = Null /\ initflag'[h] = FALSE
  BY <1>0 DEF TypeOK
<1>4. \A c \in Ctx : ctx'[c] = ctx[c] \/ (initflag[h] /\ c = handle[h] /\ c \notin Allocated')
  BY <1>0 DEF Closed, Allocated, NoCtx, TypeOK
<1>5. \A i \in Handle : i # h /\ initflag[i] =>
        handle[i] \in Allocated' /\ ctx'[handle[i]] = ctx[handle[i]]
  BY <1>0, <1>4 DEF IInv, FlagMeansContext, Allocated
<1>6. FlagMeansContext'
  <2>1. ASSUME NEW i \in Handle
        PROVE  IF initflag'[i] THEN handle'[i] \in Allocated' /\ ctx'[handle'[i]].kind = kind'[i]
               ELSE handle'[i] = Null
    BY <1>2, <1>3, <1>5 DEF IInv, FlagMeansContext
  <2>2. ASSUME NEW i \in Handle, NEW j \in Handle, initflag'[i], handle'[i] = handle'[j]
        PROVE  i = j
    BY <1>2, <1>3, <2>1, <2>2, CryptoAssumption DEF IInv, FlagMeansContext, Allocated
  <2> QED BY <2>1, <2>2 DEF FlagMeansContext
<1>7. SizesFit'
  BY <1>2, <1>3, <1>5 DEF IInv, SizesFit
<1>8. KeyCanBeFreed'
  BY <1>2, <1>3 DEF IInv, KeyCanBeFreed, MayFree
<1>9. NothingLeaks'
  <2> SUFFICES ASSUME NEW c \in Allocated'
               PROVE  c \in refused' \/ \E i \in Object' : initflag'[i] /\ handle'[i] = c
    BY DEF NothingLeaks
  <2>1. c \in Ctx /\ ctx'[c] = ctx[c] /\ c \in Allocated
    BY <1>4 DEF Allocated
  <2>2. refused \subseteq refused'
    OBVIOUS
  <2>3. CASE c \in refused
    BY <2>2, <2>3
  <2>4. CASE \E i \in Object : i # h /\ initflag[i] /\ handle[i] = c
    BY <1>2, <2>4 DEF Object
  <2>5. CASE initflag[h] /\ handle[h] = c
    <3>1. CASE gone /\ Closed(h)
      BY <1>0, <2>1, <2>5, <3>1 DEF Closed, NoCtx, Allocated
    <3>2. CASE refused' = refused \cup {handle[h]}
      BY <2>5, <3>2
    <3> QED BY <2>5, <3>1, <3>2
  <2> QED BY <2>1, <2>3, <2>4, <2>5 DEF IInv, NothingLeaks
<1> QED BY <1>1, <1>6, <1>7, <1>8, <1>9 DEF IInv, NoMisuse

\* The variables keep their types, in every step.
LEMMA TypedStep ==
  ASSUME IInv, [Next]_vars
  PROVE  TypeOK'
<1> USE DEF IInv, TypeOK
<1>1. ASSUME NEW h \in Handle, NEW k \in Kind, new(h, k) PROVE TypeOK'
  BY <1>1 DEF new
<1>2. ASSUME NEW h \in Object, NEW key \in Key \cup {NoKey}, NEW n \in Int, Open(h, key, n) PROVE TypeOK'
  <2>1. h \in Handle /\ kind[h] \in Kind /\ asked' \in [Handle -> Key \cup {NoKey}]
    BY <1>2 DEF Open, Object
  <2>2. CASE UNCHANGED <<initflag, handle, size, ctx>>
    BY <1>2, <2>1, <2>2 DEF Open
  <2>3. CASE \E c \in Ctx \ Allocated :
               /\ ctx' = [ctx EXCEPT ![c] = [kind |-> kind[h], key |-> key, size |-> n]]
               /\ handle' = [handle EXCEPT ![h] = c]
               /\ initflag' = [initflag EXCEPT ![h] = TRUE]
               /\ size' = [size EXCEPT ![h] = n]
    BY <1>2, <2>1, <2>3 DEF Open
  <2> QED BY <1>2, <2>2, <2>3 DEF Open
<1>3. ASSUME NEW h \in Object, initflag[h], Native(handle[h], kind[h], size[h])
      PROVE  misused' = misused
  BY <1>3, NativeFits DEF Object
<1>4. ASSUME NEW h \in Object, NEW op \in Use, use(h, op) PROVE TypeOK'
  BY <1>3, <1>4 DEF use
<1>5. ASSUME NEW h \in Object, Closed(h), initflag[h]
      PROVE  misused' = misused /\ ctx' \in [Ctx -> [kind : Kind \cup {"none"}, key : Key \cup {NoKey}, size : Int]]
  BY <1>3, <1>5 DEF Closed, NoCtx
<1>6. ASSUME NEW h \in Object, close(h) PROVE TypeOK'
  BY <1>5, <1>6 DEF close, Object
<1>7. ASSUME NEW h \in Object, drop(h) PROVE TypeOK'
  <2>1. initflag[h] => handle[h] \in Ctx
    BY DEF FlagMeansContext, Allocated, Object
  <2>2. /\ misused' = misused
        /\ ctx' \in [Ctx -> [kind : Kind \cup {"none"}, key : Key \cup {NoKey}, size : Int]]
        /\ refused' \subseteq Ctx
    BY <1>5, <1>7, <2>1 DEF drop
  <2> QED BY <1>7, <2>2 DEF drop, Object
<1>8. ASSUME UNCHANGED vars PROVE TypeOK'
  BY <1>8 DEF vars
<1> QED
  BY <1>1, <1>2, <1>4, <1>6, <1>7, <1>8, CryptoAssumption
  DEF Next, init, init_keyed, open, create

--------------------------------------------------------------------------------
LEMMA Start == Init => IInv
<1> SUFFICES ASSUME Init PROVE IInv
  OBVIOUS
<1>1. TypeOK
  BY DEF Init, TypeOK, NoCtx
<1>2. Allocated = {}
  BY DEF Init, Allocated, NoCtx
<1> QED BY <1>1, <1>2 DEF Init, IInv, FlagMeansContext, SizesFit, NoMisuse, NothingLeaks, KeyCanBeFreed

LEMMA Step == IInv /\ [Next]_vars => IInv'
<1> SUFFICES ASSUME IInv, [Next]_vars PROVE IInv'
  OBVIOUS
<1>0. TypeOK /\ TypeOK'
  BY TypedStep DEF IInv
<1>1. ASSUME NEW h \in Handle, NEW k \in Kind, new(h, k) PROVE IInv'
  <2>1. ~initflag[h]
    BY <1>0, <1>1 DEF new, IInv, FlagMeansContext, Allocated
  <2>2. \A i \in Handle : i # h => kind'[i] = kind[i]
    BY <1>0, <1>1 DEF new, TypeOK
  <2>3. Allocated' = Allocated
    BY <1>1 DEF new, Allocated
  <2>4. FlagMeansContext' /\ SizesFit' /\ NoMisuse' /\ KeyCanBeFreed'
    BY <1>1, <2>1, <2>2, <2>3
    DEF new, IInv, FlagMeansContext, SizesFit, NoMisuse, KeyCanBeFreed, MayFree
  <2>5. NothingLeaks'
    BY <1>1, <2>1, <2>2, <2>3 DEF new, IInv, NothingLeaks, Object
  <2> QED BY <1>0, <2>4, <2>5 DEF IInv
<1>2. ASSUME NEW h \in Object, init(h) PROVE IInv'
  BY <1>2, OpenSafe DEF init, Hash, Rsa
<1>3. ASSUME NEW h \in Object, NEW key \in Key, init_keyed(h, key) PROVE IInv'
  BY <1>3, OpenSafe DEF init_keyed, Keyed, Rsa
<1>4. ASSUME NEW h \in Object, open(h) PROVE IInv'
  BY <1>4, OpenSafe DEF open, Curve, Rsa
<1>5. ASSUME NEW h \in Object, NEW key \in Key, NEW n \in Size, create(h, key, n) PROVE IInv'
  BY <1>5, OpenSafe, CryptoAssumption DEF create
<1>6. ASSUME NEW h \in Object, NEW op \in Use, use(h, op) PROVE IInv'
  <2>1. UNCHANGED vars
    BY <1>6, NativeFits DEF use, Object, vars
  <2> QED BY <2>1 DEF vars, IInv, TypeOK, FlagMeansContext, SizesFit, NoMisuse, NothingLeaks,
              KeyCanBeFreed, MayFree, Allocated, Object
<1>7. ASSUME NEW h \in Object, close(h) PROVE IInv'
  <2>1. UNCHANGED <<kind, size, refused>> /\ initflag[h] /\ Closed(h)
    BY <1>7 DEF close
  <2> QED BY <1>0, <1>7, <2>1, ReleaseSafe DEF close
<1>8. ASSUME NEW h \in Object, drop(h) PROVE IInv'
  <2>1. \A i \in Handle : i # h => kind'[i] = kind[i] /\ size'[i] = size[i]
    BY <1>0, <1>8 DEF drop, TypeOK
  <2> QED BY <1>0, <1>8, <2>1, ReleaseSafe DEF drop
<1>9. ASSUME UNCHANGED vars PROVE IInv'
  BY <1>9 DEF vars, IInv, TypeOK, FlagMeansContext, SizesFit, NoMisuse, NothingLeaks,
              KeyCanBeFreed, MayFree, Allocated, Object
<1> QED BY <1>1, <1>2, <1>3, <1>4, <1>5, <1>6, <1>7, <1>8, <1>9 DEF Next

\* The inductive invariant of the objects of crypto.rs.
THEOREM Invariance == Spec => []IInv
BY Start, Step, PTL DEF Spec

\* The objects and what the library has allocated keep their form.
THEOREM TypeCorrect == Spec => []TypeOK
BY Invariance, PTL DEF IInv

\* Whatever the order of init, use, close and drop, and whichever the library
\* refuses, it is never given a context it has taken back or that does not fit.
THEOREM NeverMisused == Spec => []NoMisuse
BY Invariance, PTL DEF IInv

\* The flag of an object says whether it has a context, which is its alone.
THEOREM FlagIsTrue == Spec => []FlagMeansContext
BY Invariance, PTL DEF IInv

\* Only a close the library refuses while the object is dropped leaks a context.
THEOREM LeaksAreRefusals == Spec => []NothingLeaks
BY Invariance, PTL DEF IInv

\* No RSA key that create accepted is rejected by free.
THEOREM KeysAreFreeable == Spec => []KeyCanBeFreed
BY Invariance, PTL DEF IInv
--------------------------------------------------------------------------------
(* The objects as owners of contexts.                                      *)

\* What the mapping says of an object and of a context.
LEMMA OwnersAre ==
  /\ DOMAIN made = Allocated
  /\ \A c \in Allocated : made[c] = ctx[c]
  /\ \A h \in Handle : owned[h] = IF initflag[h] THEN handle[h] ELSE Null
BY DEF made, owned

\* Only h comes to own something else.
LEMMA OwnerMoves ==
  ASSUME NEW h \in Handle, NEW c, owned'[h] = c,
         \A i \in Handle : i # h => initflag'[i] = initflag[i] /\ handle'[i] = handle[i]
  PROVE  owned' = [owned EXCEPT ![h] = c]
<1>1. \A i \in Handle : i # h => owned'[i] = owned[i]
  BY DEF owned
<1>2. owned = [i \in Handle |-> owned[i]] /\ owned' = [i \in Handle |-> owned'[i]]
  BY DEF owned
<1> QED BY <1>1, <1>2

\* An object asks for a context: it has one, or the library makes it one.
LEMMA OpenAcquires ==
  ASSUME IInv, NEW h \in Object, NEW key \in Key \cup {NoKey}, NEW n \in Int, Open(h, key, n)
  PROVE  CO!Next \/ UNCHANGED CO!ownerVars
<1>0. TypeOK /\ h \in Handle /\ kind[h] # "none" /\ kind[h] \in Kind /\ UNCHANGED kind
  BY DEF IInv, TypeOK, Object, Open
<1>1. Object' = Object
  BY <1>0 DEF Object
<1>2. CASE UNCHANGED <<initflag, handle, ctx>>
  BY <1>1, <1>2 DEF CO!ownerVars, owned, made, Allocated
<1>3. ASSUME NEW c \in Ctx \ Allocated, ~initflag[h],
             ctx' = [ctx EXCEPT ![c] = [kind |-> kind[h], key |-> key, size |-> n]],
             handle' = [handle EXCEPT ![h] = c], initflag' = [initflag EXCEPT ![h] = TRUE]
      PROVE  CO!Next
  <2>1. owned[h] = Null /\ owned'[h] = c
    BY <1>0, <1>3 DEF owned, TypeOK
  <2>2. owned' = [owned EXCEPT ![h] = c]
    BY <1>0, <1>3, <2>1, OwnerMoves DEF TypeOK
  <2>3. Allocated' = Allocated \cup {c}
    BY <1>0, <1>3 DEF Allocated, TypeOK
  <2>4. DOMAIN made' = DOMAIN made \cup {c} /\ c \notin DOMAIN made
    BY <1>3, <2>3 DEF made
  <2>5. \A d \in DOMAIN made : made'[d] = made[d]
    BY <1>0, <1>3, <2>3 DEF made, Allocated, TypeOK
  <2> QED BY <1>0, <1>1, <2>1, <2>2, <2>4, <2>5 DEF CO!Next, CO!Acquire
<1> QED BY <1>2, <1>3 DEF Open

\* The library takes the context of h back.
LEMMA ClosedKeeps ==
  ASSUME IInv, NEW h \in Handle, initflag[h], Closed(h)
  PROVE  CO!Keep(DOMAIN made \ {owned[h]})
<1>1. TypeOK /\ owned[h] = handle[h]
  BY DEF IInv, owned
<1>2. ctx' = [c \in Ctx |-> IF c = handle[h] THEN NoCtx ELSE ctx[c]]
  BY DEF Closed
<1>3. Allocated' = Allocated \ {handle[h]} /\ \A c \in Allocated' : ctx'[c] = ctx[c]
  BY <1>1, <1>2 DEF Allocated, NoCtx, TypeOK
<1>4. made' = [c \in Allocated \ {handle[h]} |-> ctx[c]]
  BY <1>3 DEF made
<1> QED BY <1>1, <1>4, OwnersAre DEF CO!Keep

LEMMA CloseGivesBack ==
  ASSUME IInv, NEW h \in Object, close(h)
  PROVE  CO!Next
<1>1. /\ TypeOK /\ h \in Handle /\ initflag[h] /\ Closed(h) /\ UNCHANGED kind
      /\ initflag' = [initflag EXCEPT ![h] = FALSE] /\ handle' = [handle EXCEPT ![h] = Null]
  BY DEF IInv, Object, close
<1>2. owned[h] # Null
  BY <1>1, CryptoAssumption DEF owned, IInv, FlagMeansContext, Allocated
<1>3. owned'[h] = Null
  BY <1>1 DEF owned, TypeOK
<1>4. owned' = [owned EXCEPT ![h] = Null]
  BY <1>1, <1>3, OwnerMoves DEF TypeOK
<1>5. CO!Keep(DOMAIN made \ {owned[h]}) /\ Object' = Object
  BY <1>1, ClosedKeeps DEF Object
<1> QED BY <1>1, <1>2, <1>4, <1>5 DEF CO!Next, CO!GiveBack

LEMMA DropEnds ==
  ASSUME IInv, NEW h \in Object, drop(h)
  PROVE  CO!Next
<1>1. /\ TypeOK /\ h \in Handle /\ kind' = [kind EXCEPT ![h] = "none"]
      /\ initflag' = [initflag EXCEPT ![h] = FALSE] /\ handle' = [handle EXCEPT ![h] = Null]
  BY DEF IInv, Object, drop
<1>2. owned'[h] = Null
  BY <1>1 DEF owned, TypeOK
<1>3. owned' = [owned EXCEPT ![h] = Null]
  BY <1>1, <1>2, OwnerMoves DEF TypeOK
<1>4. Object' = Object \ {h}
  BY <1>1 DEF Object, TypeOK
<1>5. UNCHANGED made \/ CO!Keep(DOMAIN made \ {owned[h]})
  <2>1. CASE initflag[h] /\ Closed(h)
    BY <1>1, <2>1, ClosedKeeps
  <2>2. CASE UNCHANGED ctx
    BY <2>2 DEF made, Allocated
  <2> QED BY <2>1, <2>2 DEF drop
<1> QED BY <1>1, <1>3, <1>4, <1>5 DEF CO!Next, CO!End

LEMMA StepOwns ==
  ASSUME IInv, [Next]_vars
  PROVE  CO!Next \/ UNCHANGED CO!ownerVars
<1>1. ASSUME NEW h \in Handle, NEW k \in Kind, new(h, k) PROVE CO!Next
  <2>1. kind[h] = "none" /\ kind' = [kind EXCEPT ![h] = k] /\ UNCHANGED <<initflag, handle, ctx>>
    BY <1>1 DEF new
  <2>2. k # "none"
    BY DEF Kind, TypeOf
  <2>3. h \notin Object /\ Object' = Object \cup {h}
    BY <2>1, <2>2 DEF Object, IInv, TypeOK
  <2>4. UNCHANGED <<owned, made>>
    BY <2>1 DEF owned, made, Allocated
  <2> QED BY <2>3, <2>4 DEF CO!Next, CO!Begin
<1>2. ASSUME NEW h \in Object, NEW op \in Use, use(h, op) PROVE UNCHANGED CO!ownerVars
  BY <1>2 DEF use, CO!ownerVars, owned, made, Allocated, Object
<1>3. ASSUME UNCHANGED vars PROVE UNCHANGED CO!ownerVars
  BY <1>3 DEF vars, CO!ownerVars, owned, made, Allocated, Object
<1> QED
  BY <1>1, <1>2, <1>3, OpenAcquires, CloseGivesBack, DropEnds, CryptoAssumption
  DEF Next, init, init_keyed, open, create

\* The objects of crypto.rs implement owners of contexts: a context comes to an object
\* that has none, stays as it was made, goes back from that object, and is left behind
\* only by one that is dropped.
THEOREM OwnersImplemented == Spec => ImplementsOwners
<1>1. Init => CO!Init
  BY DEF Init, CO!Init, owned, made, Object, Allocated, NoCtx
<1>2. IInv /\ [Next]_vars => [CO!Next]_CO!ownerVars
  BY StepOwns
<1> QED BY <1>1, <1>2, Invariance, PTL DEF Spec, ImplementsOwners, CO!Spec
================================================================================
