------------------------------ MODULE AexHandlers -------------------------------
(***************************************************************************)
(* Handlers of asynchronous exits: src/sgx-trts/src/aex.rs.  register puts *)
(* a node on the enclave's heap, links it into the list of the thread and  *)
(* forgets the box; the handle it returns is the address of the node.      *)
(* unregister takes the node back from the handle, but unlinks by          *)
(* function, and then frees the node.  The list belongs to the trusted     *)
(* runtime, which prepends and removes the first match.                    *)
(*                                                                         *)
(* The operators work on the state of one enclave, a record:               *)
(*   list    for each thread, the nodes linked                             *)
(*   handle  the nodes that are boxes on the heap                          *)
(*   twice   functions a thread has linked twice at some time              *)
(***************************************************************************)
EXTENDS Integers, Sequences, SequencesExt, FiniteSets

CONSTANTS
  Thread,    \* host threads, each with a TCS of its own in the enclave
  Fn,        \* handler functions
  MaxNode    \* nodes the heap has room for

ASSUME AexAssumption == IsFiniteSet(Thread) /\ MaxNode \in Nat

Node == [at : 1 .. MaxNode, fn : Fn, thread : Thread]
AexState == [list : [Thread -> Seq(Node)], handle : SUBSET Node, twice : SUBSET (Thread \X Fn)]

NoHandlers == [list |-> [t \in Thread |-> << >>], handle |-> {}, twice |-> {}]

Linked(aex, t) == Range(aex.list[t])
LinkedWith(aex, t, f) == {i \in DOMAIN aex.list[t] : aex.list[t][i].fn = f}

\* The allocator gives out what is not in use; a node that is linked and was freed
\* is not given out here, to follow it further would be to follow undefined
\* behaviour.
FreeAt(aex) ==
  (1 .. MaxNode) \ {n.at : n \in aex.handle \cup UNION {Linked(aex, t) : t \in Thread}}

\* rsgx_register_aex_handler, when the runtime accepts (else the box is dropped and
\* nothing has changed).
rsgx_register_aex_handler(aex, t, f, at) ==
  LET node == [at |-> at, fn |-> f, thread |-> t]
  IN [list   |-> [aex.list EXCEPT ![t] = <<node>> \o @],
      handle |-> aex.handle \cup {node},
      twice  |-> IF LinkedWith(aex, t, f) = {} THEN aex.twice ELSE aex.twice \cup {<<t, f>>}]

\* The runtime: the first node with the function.
sgx_unregister_aex_handler(aex, t, f) ==
  LET first == CHOOSE i \in LinkedWith(aex, t, f) : \A j \in LinkedWith(aex, t, f) : i <= j
  IN [aex.list EXCEPT ![t] = RemoveAt(@, first)]

\* Mutant: the box is dropped whatever the runtime says.
rsgx_unregister_aex_handler_dropping(aex, t, node) ==
  [aex EXCEPT !.handle = @ \ {node}]

\* rsgx_unregister_aex_handler: on an error the box stays forgotten.
rsgx_unregister_aex_handler(aex, t, node) ==
  IF LinkedWith(aex, t, node.fn) = {} THEN aex
  ELSE [aex EXCEPT !.list = sgx_unregister_aex_handler(aex, t, node.fn), !.handle = @ \ {node}]
================================================================================
