------------------------------ MODULE ContextOwners ------------------------------
(***************************************************************************)
(* What the objects of sgx-tcrypto promise about the contexts of the       *)
(* native library, with no flag, no pointer and no close that is refused:  *)
(* an object owns one context at most, which no other has owned since the  *)
(* library made it and which stays as it was made.  A context comes to an  *)
(* object that has none, goes back to the library from the object that     *)
(* owns it, and may be left behind only by an object that ends.            *)
(***************************************************************************)
CONSTANTS Handle,  \* variables that hold an object
          Ctx,     \* contexts of the library
          Null     \* no context

VARIABLES alive,   \* the variables that hold an object
          owned,   \* owned[h]: the context of the object in h
          made     \* made[c]: what c was made for; the contexts there are are its domain

ownerVars == <<alive, owned, made>>

Init ==
  /\ alive = {}
  /\ owned = [h \in Handle |-> Null]
  /\ made = [c \in {} |-> Null]

\* The contexts there are become those of S, and none is made anew.
Keep(S) == made' = [c \in S |-> made[c]]

Begin(h) ==
  /\ h \notin alive
  /\ alive' = alive \cup {h}
  /\ UNCHANGED <<owned, made>>

\* The library makes a context for an object that has none.
Acquire(h, c) ==
  /\ h \in alive /\ owned[h] = Null
  /\ c \notin DOMAIN made
  /\ owned' = [owned EXCEPT ![h] = c]
  /\ DOMAIN made' = DOMAIN made \cup {c}
  /\ \A d \in DOMAIN made : made'[d] = made[d]
  /\ UNCHANGED alive

GiveBack(h) ==
  /\ owned[h] # Null
  /\ owned' = [owned EXCEPT ![h] = Null]
  /\ Keep(DOMAIN made \ {owned[h]})
  /\ UNCHANGED alive

\* An object ends; its context goes with it, or is nobody's from now on.
End(h) ==
  /\ h \in alive
  /\ alive' = alive \ {h}
  /\ owned' = [owned EXCEPT ![h] = Null]
  /\ UNCHANGED made \/ Keep(DOMAIN made \ {owned[h]})

Next ==
  \E h \in Handle :
    \/ Begin(h)
    \/ \E c \in Ctx : Acquire(h, c)
    \/ GiveBack(h)
    \/ End(h)

Spec == Init /\ [][Next]_ownerVars
================================================================================
