------------------------------ MODULE CryptoHandle ------------------------------
(***************************************************************************)
(* The stateful objects of sgx-tcrypto (src/sgx-tcrypto/src/crypto.rs):    *)
(* hashes, MACs, the AES-GCM stream, the elliptic-curve context and RSA    *)
(* keys.  Each wraps a context of the native library, kept as a pointer    *)
(* beside a flag that says whether it is there.  All calls take &self, so  *)
(* any order of them compiles; objects are not shared between threads.     *)
(*                                                                         *)
(* The library may refuse any call.  A refused call that changes nothing,  *)
(* and one the wrapper rejects for its arguments before it reaches the     *)
(* library, is no step.  What is hashed or encrypted is left out.          *)
(***************************************************************************)
EXTENDS Integers

CONSTANTS
  Handle,  \* variables that hold an object
  Ctx,     \* contexts the library may allocate
  Null,    \* the null pointer
  Key,     \* keys
  NoKey,   \* no key: the hashes and the curve take none
  Size     \* the sizes callers pass for RSA keys

\* The types: how a context is asked for, and the operations that work on it and
\* return SGX_ERROR_INVALID_STATE when the flag is not set.
Type(opened, uses) == [opened |-> opened, uses |-> uses]

SgxShaHandle == Type("init", {"update_msg", "update_slice", "get_hash"})
SgxSha384Handle == Type("init", {"update_msg", "update_slice", "get_hash"})
SgxSha1Handle == Type("init", {"update_msg", "update_slice", "get_hash"})
SgxCmacHandle == Type("init_keyed", {"update_msg", "update_slice", "get_hash", "get_align_hash"})
SgxHmacHandle == Type("init_keyed", {"update_msg", "update_slice", "get_hash", "get_align_hash"})
SgxAesHandle == Type("init_keyed", {"update", "get_mac", "get_align_mac"})
EcdsaUses ==
  {"ecdsa_sign_msg", "ecdsa_sign_slice", "ecdsa_verify_msg", "ecdsa_verify_slice", "ecdsa_verify_hash"}
KeyUses ==
  {"create_key_pair", "create_align_key_pair", "check_point", "compute_shared_dhkey",
   "compute_align_shared_dhkey"}
SgxEccHandle == Type("open", EcdsaUses \cup KeyUses)
SgxRsaPrivKey == Type("create", {"decrypt_sha256"})
SgxRsaPubKey == Type("create", {"encrypt_sha256"})

TypeOf ==
  [sha256 |-> SgxShaHandle, sha384 |-> SgxSha384Handle, sha1 |-> SgxSha1Handle,
   cmac |-> SgxCmacHandle, hmac |-> SgxHmacHandle, aes |-> SgxAesHandle,
   ecc |-> SgxEccHandle, rsa_priv |-> SgxRsaPrivKey, rsa_pub |-> SgxRsaPubKey]

Kind == DOMAIN TypeOf
Use == UNION {TypeOf[k].uses : k \in Kind}
Hash == {k \in Kind : TypeOf[k].opened = "init"}
Keyed == {k \in Kind : TypeOf[k].opened = "init_keyed"}
Curve == {k \in Kind : TypeOf[k].opened = "open"}
Rsa == {k \in Kind : TypeOf[k].opened = "create"}

ASSUME CryptoAssumption ==
  /\ Null \notin Ctx
  /\ NoKey \notin Key
  /\ Size \subseteq Int

VARIABLES
  kind,      \* kind[h]: the type of the object in h, "none" if there is none
  initflag,  \* initflag[h]: the initflag, or createflag, of the object
  handle,    \* handle[h]: its pointer
  size,      \* size[h]: the sizes an RSA key remembers
  asked,     \* asked[h], a ghost: the key of the last init that returned Ok
  ctx,       \* ctx[c]: the kind, key and size of an allocated context
  misused,   \* contexts given to a native call that does not fit them
  refused    \* contexts whose close failed while their object was dropped

vars == <<kind, initflag, handle, size, asked, ctx, misused, refused>>

NoCtx == [kind |-> "none", key |-> NoKey, size |-> 0]
Object == {h \in Handle : kind[h] # "none"}
Allocated == {c \in Ctx : ctx[c].kind # "none"}

TypeOK ==
  /\ kind \in [Handle -> Kind \cup {"none"}]
  /\ initflag \in [Handle -> BOOLEAN]
  /\ handle \in [Handle -> Ctx \cup {Null}]
  /\ size \in [Handle -> Int]
  /\ asked \in [Handle -> Key \cup {NoKey}]
  /\ ctx \in [Ctx -> [kind : Kind \cup {"none"}, key : Key \cup {NoKey}, size : Int]]
  /\ misused \subseteq Ctx \cup {Null}
  /\ refused \subseteq Ctx

Init ==
  /\ kind = [h \in Handle |-> "none"]
  /\ initflag = [h \in Handle |-> FALSE]
  /\ handle = [h \in Handle |-> Null]
  /\ size = [h \in Handle |-> 0]
  /\ asked = [h \in Handle |-> NoKey]
  /\ ctx = [c \in Ctx |-> NoCtx]
  /\ misused = {}
  /\ refused = {}

--------------------------------------------------------------------------------
new(h, k) ==
  /\ kind[h] = "none"
  /\ kind' = [kind EXCEPT ![h] = k]
  /\ UNCHANGED <<initflag, handle, size, asked, ctx, misused, refused>>

\* Mutant: the sizes are stored before the flag is looked at.
Open_size_first(h, key, n) ==
  /\ asked' = [asked EXCEPT ![h] = key]
  /\ size' = [size EXCEPT ![h] = n]
  /\ \/ initflag[h] /\ UNCHANGED <<initflag, handle, ctx>>
     \/ \E c \in Ctx \ Allocated :
          /\ ~initflag[h]
          /\ ctx' = [ctx EXCEPT ![c] = [kind |-> kind[h], key |-> key, size |-> n]]
          /\ handle' = [handle EXCEPT ![h] = c]
          /\ initflag' = [initflag EXCEPT ![h] = TRUE]
  /\ UNCHANGED <<kind, misused, refused>>

\* init, open and create: Ok and nothing else if the flag is set, else a context
\* is asked for, and the object changes only if the library gives one.
Open(h, key, n) ==
  /\ asked' = [asked EXCEPT ![h] = key]
  /\ \/ initflag[h] /\ UNCHANGED <<initflag, handle, size, ctx>>
     \/ \E c \in Ctx \ Allocated :
          /\ ~initflag[h]
          /\ ctx' = [ctx EXCEPT ![c] = [kind |-> kind[h], key |-> key, size |-> n]]
          /\ handle' = [handle EXCEPT ![h] = c]
          /\ initflag' = [initflag EXCEPT ![h] = TRUE]
          /\ size' = [size EXCEPT ![h] = n]
  /\ UNCHANGED <<kind, misused, refused>>

init(h) == kind[h] \in Hash /\ Open(h, NoKey, 0)

init_keyed(h, key) == kind[h] \in Keyed /\ Open(h, key, 0)

open(h) == kind[h] \in Curve /\ Open(h, NoKey, 0)

\* Mutant: any size will do.
create_unchecked(h, key, n) ==
  /\ kind[h] \in Rsa
  /\ Open(h, key, n)

\* Sizes that are not positive are rejected, but only when a key is asked for.
create(h, key, n) ==
  /\ kind[h] \in Rsa
  /\ initflag[h] \/ n > 0
  /\ Open(h, key, n)

--------------------------------------------------------------------------------
\* The native call for a context of kind k, with the sizes the object has for it.
Native(c, k, n) ==
  misused' = IF c \in Allocated /\ ctx[c].kind = k /\ ctx[c].size = n
             THEN misused ELSE misused \cup {c}

\* An operation of the type of the object; what it computes is left out.
use(h, op) ==
  /\ initflag[h] /\ op \in TypeOf[kind[h]].uses
  /\ Native(handle[h], kind[h], size[h])
  /\ UNCHANGED <<kind, initflag, handle, size, asked, ctx, refused>>

\* rsgx_free_rsa_key rejects what create would have rejected.
MayFree(h) == kind[h] \in Rsa => size[h] > 0

\* The library takes the context back.
Closed(h) ==
  /\ MayFree(h)
  /\ Native(handle[h], kind[h], size[h])
  /\ ctx' = [c \in Ctx |-> IF c = handle[h] THEN NoCtx ELSE ctx[c]]

\* Mutant: a refused close forgets the context like a successful one.
close_forget(h) ==
  /\ initflag[h]
  /\ initflag' = [initflag EXCEPT ![h] = FALSE]
  /\ handle' = [handle EXCEPT ![h] = Null]
  /\ Closed(h) \/ UNCHANGED <<ctx, misused>>
  /\ UNCHANGED <<kind, size, asked, refused>>

\* Mutant: a close leaves the flag.
close_keep_flag(h) ==
  /\ initflag[h]
  /\ Closed(h)
  /\ UNCHANGED <<kind, initflag, handle, size, asked, refused>>

\* close and free: the flag and the pointer go only when the library agrees.
close(h) ==
  /\ initflag[h]
  /\ Closed(h)
  /\ initflag' = [initflag EXCEPT ![h] = FALSE]
  /\ handle' = [handle EXCEPT ![h] = Null]
  /\ UNCHANGED <<kind, size, asked, refused>>

\* drop closes and does not look at the result.
drop(h) ==
  /\ \/ ~initflag[h] /\ UNCHANGED <<ctx, misused, refused>>
     \/ initflag[h] /\ Closed(h) /\ UNCHANGED refused
     \/ /\ initflag[h]
        /\ refused' = refused \cup {handle[h]}
        /\ UNCHANGED <<ctx, misused>>
  /\ kind' = [kind EXCEPT ![h] = "none"]
  /\ initflag' = [initflag EXCEPT ![h] = FALSE]
  /\ handle' = [handle EXCEPT ![h] = Null]
  /\ size' = [size EXCEPT ![h] = 0]
  /\ asked' = [asked EXCEPT ![h] = NoKey]

Next ==
  \/ \E h \in Handle, k \in Kind : new(h, k)
  \/ \E h \in Object :
       \/ init(h)
       \/ \E key \in Key : init_keyed(h, key)
       \/ open(h)
       \/ \E key \in Key, n \in Size : create(h, key, n)
       \/ \E op \in Use : use(h, op)
       \/ close(h)
       \/ drop(h)

Spec == Init /\ [][Next]_vars

--------------------------------------------------------------------------------
\* In no order of calls and refusals does the library get a context it has taken
\* back, one of another kind, or an RSA key with other sizes than it was made with.
NoMisuse == misused = {}

\* The flag tells the truth, and no two objects have the same context.
FlagMeansContext ==
  /\ \A h \in Handle :
       IF initflag[h]
       THEN handle[h] \in Allocated /\ ctx[handle[h]].kind = kind[h]
       ELSE handle[h] = Null
  /\ \A h, i \in Handle : initflag[h] /\ handle[h] = handle[i] => h = i

\* A context nobody can close any more is one the library refused to close when
\* its object was dropped.
NothingLeaks ==
  \A c \in Allocated : c \in refused \/ \E h \in Object : initflag[h] /\ handle[h] = c

\* What create accepts free does not reject: no RSA key is stuck in its object.
KeyCanBeFreed ==
  \A h \in Handle : initflag[h] => MayFree(h)

--------------------------------------------------------------------------------
\* The objects as owners of contexts.
owned == [h \in Handle |-> IF initflag[h] THEN handle[h] ELSE Null]

made == [c \in Allocated |-> ctx[c]]

CO == INSTANCE ContextOwners WITH alive <- Object

\* Every order of calls, accepted and refused, is one in which contexts come to
\* objects that have none and go back from the object they came to: a close that
\* fails leaves the object its context, an init that comes again leaves the context
\* as it was made, and only an object that is dropped can leave one behind.
ImplementsOwners == CO!Spec

--------------------------------------------------------------------------------
\* The key an init that returned Ok was given is the key of the context in use.
InitUsesKey ==
  \A h \in Object : initflag[h] => ctx[handle[h]].key = asked[h]
================================================================================
