------------------------------- MODULE OwnedBlocks -------------------------------
(***************************************************************************)
(* What AlignBox promises of memory and of what it protects, with no       *)
(* padding, no word below a pointer and no address computed from another:  *)
(* the memory in use is one block per box, nothing else and nothing twice. *)
(* A box that is cloned into takes over what its source protects, and      *)
(* keeps its block or moves to a fresh one, in one step; no operation on a *)
(* box is noticed by another.                                              *)
(***************************************************************************)
CONSTANTS Box,    \* variables that hold a box
          Block,  \* the blocks of memory
          None    \* no terms, no block

VARIABLES terms,  \* terms[b]: the layouts and the requests b was made for
          block,  \* block[b]: the block of b
          used,   \* the blocks in use
          ended   \* the program has ended, for want of memory

blockVars == <<terms, block, used, ended>>

Init ==
  /\ terms = [b \in Box |-> None]
  /\ block = [b \in Box |-> None]
  /\ used = {}
  /\ ended = FALSE

\* Box b gets a block that was free, and the one it had is free from then on.
Move(b) ==
  \E a \in Block \ used :
    /\ block' = [block EXCEPT ![b] = a]
    /\ used' = (used \ {block[b]}) \cup {a}

New(b) ==
  /\ terms[b] = None
  /\ terms'[b] # None
  /\ terms' = [terms EXCEPT ![b] = terms'[b]]
  /\ Move(b)

CloneFrom(b, source) ==
  /\ terms[b] # None /\ terms[source] # None
  /\ terms' = [terms EXCEPT ![b] = terms[source]]
  /\ Move(b) \/ UNCHANGED <<block, used>>

Drop(b) ==
  /\ terms[b] # None
  /\ terms' = [terms EXCEPT ![b] = None]
  /\ block' = [block EXCEPT ![b] = None]
  /\ used' = used \ {block[b]}

End ==
  /\ ended' = TRUE
  /\ UNCHANGED <<terms, block, used>>

Next ==
  /\ ~ended
  /\ \/ End
     \/ /\ UNCHANGED ended
        /\ \E b \in Box :
             \/ New(b)
             \/ \E source \in Box \ {b} : CloneFrom(b, source)
             \/ Drop(b)

Spec == Init /\ [][Next]_blockVars
================================================================================
