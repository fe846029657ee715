------------------------ MODULE EnclaveLifecycleProofs -------------------------
(***************************************************************************)
(* What holds of enclaves and their handles for every number of ids,       *)
(* handles and threads, every layout and every depth of nested calls.      *)
(*                                                                         *)
(* The invariant Safe has three parts.  Sound: a create that is under way  *)
(* has a handle of its own that is still empty, and an ecall borrows a     *)
(* handle that has its id.  Kept: an enclave that is there is in a handle  *)
(* or in a call that is not an ecall, and one that is closing in the call  *)
(* that waits for it.  Life: an enclave none of whose handles was cloned   *)
(* is in one place only, and the place tells how far its life has got;     *)
(* that its globals were initialised took a TCS, so that its exit finds    *)
(* one free: nobody else is inside.                                        *)
(*                                                                         *)
(* A step changes one frame of one stack.  The lemmas on stacks say which, *)
(* those on Sound, Kept and Life what holds of the enclaves it does not    *)
(* concern, and there is one lemma for each action.                        *)
(*                                                                         *)
(* The handler lists of an enclave come first.  They are sound (AexSound)  *)
(* when each list holds nodes of its own thread, as many for a function    *)
(* as the thread has handles for it, and the one node of a function that   *)
(* was never linked twice is the node its handle frees.  The last part     *)
(* needs the second: unregister unlinks by the function and frees by the   *)
(* handle.  A node put in front moves the places of a function up by one,  *)
(* a node taken out moves those behind it down, and a count is kept when   *)
(* places are mapped one to one.                                           *)
(***************************************************************************)
EXTENDS EnclaveLifecycle, SequenceTheorems, FiniteSetTheorems, TLAPS

--------------------------------------------------------------------------------
(* Numbers and sequences                                                       *)

\* A set of numbers that is not empty has a least one.
LEMMA LeastNatural ==
  ASSUME NEW S \in SUBSET Nat, S # {}
  PROVE \E m \in S : \A k \in S : m <= k
<1> DEFINE R == OpToRel(<, Nat)
<1>1. \A k, m \in Nat : k < m => <<k, m>> \in R
  BY DEF OpToRel
<1>2. IsWellFoundedOn(R, Nat)
  BY NatLessThanWellFounded
<1> HIDE DEF R
<1>3. \E m \in S : \A k \in S : ~(<<k, m>> \in R)
  BY <1>2, WFMin
<1>4. PICK m \in S : \A k \in S : ~(<<k, m>> \in R)
  BY <1>3
<1>5. ASSUME NEW k \in S PROVE m <= k
  <2>1. k \in Nat /\ m \in Nat /\ ~(<<k, m>> \in R)
    BY <1>4
  <2>2. ~(k < m)
    BY <1>1, <2>1
  <2> QED
    BY <2>1, <2>2
<1> QED
  BY <1>4, <1>5

\* Sets that a function maps one to one have the same number of elements.
LEMMA SameNumber ==
  ASSUME NEW A, NEW B, IsFiniteSet(A), NEW g \in [A -> B],
         \A x, y \in A : g[x] = g[y] => x = y, \A b \in B : \E x \in A : g[x] = b
  PROVE  IsFiniteSet(B) /\ Cardinality(B) = Cardinality(A)
<1>1. g \in Bijection(A, B)
  BY DEF Bijection, Injection, Surjection, IsInjective
<1>2. ExistsBijection(A, B)
  BY <1>1 DEF ExistsBijection
<1> QED BY <1>2, FS_Bijection

\* A node in front moves the others up.
LEMMA PrependForm ==
  ASSUME NEW S, NEW s \in Seq(S), NEW n \in S
  PROVE  /\ <<n>> \o s \in Seq(S) /\ DOMAIN (<<n>> \o s) = 1 .. Len(s) + 1 /\ (<<n>> \o s)[1] = n
         /\ \A i \in 1 .. Len(s) : (<<n>> \o s)[i + 1] = s[i]
         /\ Len(s) \in Nat /\ DOMAIN s = 1 .. Len(s)
<1> DEFINE one == <<n>>
           new == one \o s
<1>1. one \in Seq(S) /\ Len(one) = 1 /\ one[1] = n
  OBVIOUS
<1> HIDE DEF one
<1>2. /\ new \in Seq(S) /\ Len(new) = 1 + Len(s)
      /\ \A i \in 1 .. 1 + Len(s) : new[i] = IF i <= 1 THEN one[i] ELSE s[i - 1]
  <2>1. /\ new \in Seq(S) /\ Len(new) = Len(one) + Len(s)
        /\ \A i \in 1 .. Len(one) + Len(s) : new[i] = IF i <= Len(one) THEN one[i] ELSE s[i - Len(one)]
    BY <1>1, ConcatProperties
  <2> HIDE DEF new
  <2> QED BY <1>1, <2>1
<1>3. Len(s) \in Nat /\ DOMAIN s = 1 .. Len(s) /\ DOMAIN new = 1 .. Len(new)
  BY <1>2, LenProperties
<1> HIDE DEF new
<1>4. /\ new[1] = n
      /\ \A i \in 1 .. Len(s) : new[i + 1] = s[i]
  <2>1. \A i \in 1 .. Len(s) : i + 1 \in 1 .. 1 + Len(s) /\ ~(i + 1 <= 1) /\ i + 1 - 1 = i
    BY <1>3
  <2>2. 1 \in 1 .. 1 + Len(s)
    BY <1>3
  <2> QED BY <1>1, <1>2, <2>1, <2>2
<1> QED BY <1>2, <1>3, <1>4 DEF new, one

\* A node taken out moves those behind it down.
LEMMA RemoveForm ==
  ASSUME NEW S, NEW s \in Seq(S), NEW k \in 1 .. Len(s)
  PROVE  /\ RemoveAt(s, k) \in Seq(S) /\ DOMAIN RemoveAt(s, k) = 1 .. Len(s) - 1
         /\ Len(s) \in Nat /\ DOMAIN s = 1 .. Len(s)
         /\ \A i \in 1 .. Len(s) - 1 : RemoveAt(s, k)[i] = IF i < k THEN s[i] ELSE s[i + 1]
<1> DEFINE n == Len(s)
           x == SubSeq(s, 1, k - 1)
           y == SubSeq(s, k + 1, n)
           new == x \o y
<1>1. n \in Nat /\ k \in Nat /\ k >= 1 /\ k <= n /\ DOMAIN s = 1 .. n /\ \A i \in 1 .. n : s[i] \in S
  BY LenProperties, ElementOfSeq
<1> HIDE DEF n
<1>2. /\ x \in Seq(S) /\ Len(x) = k - 1
      /\ \A i \in 1 .. k - 1 : x[i] = s[i]
  <2> DEFINE m == k - 1
  <2>1. m \in Int /\ 1 \in Int /\ m >= 0 /\ \A i \in 1 .. m : s[i] \in S
    BY <1>1
  <2>2. x = SubSeq(s, 1, m)
    OBVIOUS
  <2> HIDE DEF m, x
  <2>3. /\ x \in Seq(S) /\ Len(x) = IF 1 <= m THEN m - 1 + 1 ELSE 0
        /\ \A i \in 1 .. m - 1 + 1 : x[i] = s[1 + i - 1]
    BY <2>1, <2>2, SubSeqProperties
  <2>4. m - 1 + 1 = m /\ \A i \in 1 .. m : 1 + i - 1 = i
    BY <2>1
  <2>5. Len(x) = m /\ \A i \in 1 .. m : x[i] = s[i]
    BY <2>1, <2>3, <2>4
  <2> QED BY <2>3, <2>5 DEF m
<1>3. /\ y \in Seq(S) /\ Len(y) = n - k
      /\ \A i \in 1 .. n - k : y[i] = s[k + i]
  <2> DEFINE m == k + 1
  <2>1. m \in Int /\ n \in Int /\ \A i \in m .. n : s[i] \in S
    BY <1>1
  <2>2. y = SubSeq(s, m, n)
    OBVIOUS
  <2> HIDE DEF m, y
  <2>3. /\ y \in Seq(S) /\ Len(y) = IF m <= n THEN n - m + 1 ELSE 0
        /\ \A i \in 1 .. n - m + 1 : y[i] = s[m + i - 1]
    BY <2>1, <2>2, SubSeqProperties
  <2>4. n - m + 1 = n - k /\ (m <= n <=> n - k # 0) /\ \A i \in 1 .. n - k : m + i - 1 = k + i
    BY <1>1 DEF m
  <2>5. Len(y) = n - k
    BY <1>1, <2>3, <2>4
  <2>6. ASSUME NEW i \in 1 .. n - k PROVE y[i] = s[k + i]
    BY <2>3, <2>4
  <2> QED BY <2>3, <2>5, <2>6
<1> HIDE DEF x, y
<1>4. /\ new \in Seq(S) /\ Len(new) = Len(x) + Len(y)
      /\ \A i \in 1 .. Len(x) + Len(y) : new[i] = IF i <= Len(x) THEN x[i] ELSE y[i - Len(x)]
  BY <1>2, <1>3, ConcatProperties
<1>5. DOMAIN new = 1 .. Len(new)
  BY <1>4, LenProperties
<1> HIDE DEF new
<1>6. Len(x) + Len(y) = n - 1
  BY <1>1, <1>2, <1>3
<1>7. ASSUME NEW i \in 1 .. n - 1 PROVE new[i] = IF i < k THEN s[i] ELSE s[i + 1]
  <2>1. CASE i < k
    <3>1. i <= Len(x) /\ i \in 1 .. k - 1
      BY <1>1, <1>2, <2>1
    <3> QED BY <1>2, <1>4, <1>6, <2>1, <3>1
  <2>2. CASE ~(i < k)
    <3>1. ~(i <= Len(x)) /\ i - Len(x) \in 1 .. n - k /\ k + (i - Len(x)) = i + 1
      BY <1>1, <1>2, <2>2
    <3> QED BY <1>3, <1>4, <1>6, <2>2, <3>1
  <2> QED BY <2>1, <2>2
<1>8. new = RemoveAt(s, k)
  BY DEF RemoveAt, new, x, y, n
<1> QED BY <1>1, <1>4, <1>5, <1>6, <1>7, <1>8 DEF n

--------------------------------------------------------------------------------
(* Types                                                                       *)

\* An enclave without handlers is a state of handlers.
LEMMA EmptyHandlers == NoHandlers \in AexState
<1>1. << >> \in Seq(Node)
  BY EmptySeq
<1> QED BY <1>1 DEF NoHandlers, AexState

\* Registering keeps the shape of the state of an enclave.
LEMMA RegisterTyped ==
  ASSUME NEW a \in AexState, NEW t \in Thread, NEW f \in Fn, NEW at \in 1 .. MaxNode
  PROVE  rsgx_register_aex_handler(a, t, f, at) \in AexState
<1> DEFINE node == [at |-> at, fn |-> f, thread |-> t]
           new == <<node>> \o a.list[t]
<1>1. node \in Node
  BY DEF Node
<1>2. a.list \in [Thread -> Seq(Node)] /\ a.handle \subseteq Node /\ a.twice \subseteq Thread \X Fn
  BY DEF AexState
<1>3. new \in Seq(Node)
  <2> HIDE DEF node
  <2> QED BY <1>1, <1>2, PrependForm
<1> DEFINE list == [a.list EXCEPT ![t] = new]
           handle2 == a.handle \cup {node}
           twice2 == IF LinkedWith(a, t, f) = {} THEN a.twice ELSE a.twice \cup {<<t, f>>}
<1>4. list \in [Thread -> Seq(Node)] /\ handle2 \subseteq Node /\ twice2 \subseteq Thread \X Fn
  <2> HIDE DEF new, node
  <2> QED BY <1>1, <1>2, <1>3
<1>5. rsgx_register_aex_handler(a, t, f, at) = [list |-> list, handle |-> handle2, twice |-> twice2]
  BY DEF rsgx_register_aex_handler
<1> HIDE DEF list, handle2, twice2
<1> QED BY <1>4, <1>5 DEF AexState

\* The first node with a function: where it is, and that the runtime takes it out.
First(a, t, f) == CHOOSE i \in LinkedWith(a, t, f) : \A j \in LinkedWith(a, t, f) : i <= j

\* The first node is one of them.
LEMMA FirstIs ==
  ASSUME NEW a \in AexState, NEW t \in Thread, NEW f, LinkedWith(a, t, f) # {}
  PROVE  /\ a.list[t] \in Seq(Node) /\ First(a, t, f) \in 1 .. Len(a.list[t])
         /\ a.list[t][First(a, t, f)].fn = f
<1> DEFINE s == a.list[t]
           T == LinkedWith(a, t, f)
<1>1. s \in Seq(Node)
  BY DEF AexState
<1>2. T = {i \in DOMAIN s : s[i].fn = f}
  BY DEF LinkedWith
<1> HIDE DEF s
<1>3. DOMAIN s = 1 .. Len(s) /\ Len(s) \in Nat
  BY <1>1, LenProperties
<1>4. T \subseteq 1 .. Len(s) /\ T # {}
  BY <1>2, <1>3
<1>5. First(a, t, f) = CHOOSE i \in T : \A j \in T : i <= j
  BY DEF First
<1> HIDE DEF T
<1>6. \E x \in T : \A y \in T : x <= y
  <2> DEFINE n == Len(s)
  <2>1. n \in Nat /\ T \subseteq 1 .. n /\ T # {}
    BY <1>3, <1>4
  <2> HIDE DEF n
  <2> QED BY <2>1, LeastNatural
<1>7. First(a, t, f) \in T
  BY <1>5, <1>6
<1> QED BY <1>1, <1>2, <1>4, <1>7 DEF s

\* Unregistering keeps it too.
LEMMA UnregisterTyped ==
  ASSUME NEW a \in AexState, NEW t \in Thread, NEW node \in Node
  PROVE  rsgx_unregister_aex_handler(a, t, node) \in AexState
<1> DEFINE first == First(a, t, node.fn)
           s == a.list[t]
           new == RemoveAt(s, first)
           list == [a.list EXCEPT ![t] = new]
           handle2 == a.handle \ {node}
<1>1. CASE LinkedWith(a, t, node.fn) = {}
  BY <1>1 DEF rsgx_unregister_aex_handler
<1>2. CASE LinkedWith(a, t, node.fn) # {}
  <2>1. s \in Seq(Node) /\ first \in 1 .. Len(s)
    BY <1>2, FirstIs
  <2>2. new \in Seq(Node)
    <3> HIDE DEF first, s
    <3> QED BY <2>1, RemoveForm
  <2>3. /\ a.list \in [Thread -> Seq(Node)] /\ a.handle \subseteq Node /\ a.twice \subseteq Thread \X Fn
        /\ DOMAIN a = {"list", "handle", "twice"}
    BY DEF AexState
  <2>4. rsgx_unregister_aex_handler(a, t, node) = [a EXCEPT !.list = list, !.handle = handle2]
    BY <1>2 DEF rsgx_unregister_aex_handler, sgx_unregister_aex_handler, First
  <2>5. list \in [Thread -> Seq(Node)] /\ handle2 \subseteq Node
    <3> HIDE DEF new
    <3> QED BY <2>2, <2>3
  <2> HIDE DEF list, handle2
  <2> QED BY <2>4, <2>5 DEF AexState
<1> QED BY <1>1, <1>2

--------------------------------------------------------------------------------
(* Places of a function                                                        *)

\* The places of a list that have a function.
Places(s, f) == {i \in DOMAIN s : s[i].fn = f}

\* There is one of them, or none.
AtMostOne(S) == \A i, j \in S : i = j

\* They are finitely many.
LEMMA PlacesFinite ==
  ASSUME NEW s \in Seq(Node), NEW f
  PROVE  /\ IsFiniteSet(Places(s, f)) /\ Cardinality(Places(s, f)) \in Nat
         /\ Places(s, f) \subseteq 1 .. Len(s) /\ Len(s) \in Nat /\ DOMAIN s = 1 .. Len(s)
<1>1. Len(s) \in Nat /\ DOMAIN s = 1 .. Len(s)
  BY LenProperties
<1>2. IsFiniteSet(1 .. Len(s)) /\ Places(s, f) \subseteq 1 .. Len(s)
  BY <1>1, FS_Interval DEF Places
<1> QED BY <1>1, <1>2, FS_Subset, FS_CardinalityType

\* A node in front adds a place to those of its function.
LEMMA PlacesPrepended ==
  ASSUME NEW s \in Seq(Node), NEW n \in Node, NEW r, r = <<n>> \o s, NEW f
  PROVE  /\ n.fn = f => Cardinality(Places(r, f)) = Cardinality(Places(s, f)) + 1
         /\ n.fn # f => Cardinality(Places(r, f)) = Cardinality(Places(s, f))
         /\ \A i \in DOMAIN r : r[i] = n \/ \E j \in DOMAIN s : r[i] = s[j]
         /\ AtMostOne(Places(s, f)) /\ (n.fn # f \/ Places(s, f) = {}) => AtMostOne(Places(r, f))
<1>1. /\ r \in Seq(Node) /\ DOMAIN r = 1 .. Len(s) + 1 /\ r[1] = n
      /\ \A i \in 1 .. Len(s) : r[i + 1] = s[i]
      /\ Len(s) \in Nat /\ DOMAIN s = 1 .. Len(s)
  BY PrependForm
<1> DEFINE P == Places(s, f)
           B == {i + 1 : i \in P}
           g == [i \in P |-> i + 1]
<1>2. IsFiniteSet(P) /\ Cardinality(P) \in Nat /\ P \subseteq 1 .. Len(s)
  BY PlacesFinite
<1>3. \A i \in 1 .. Len(s) : i \in P <=> s[i].fn = f
  BY <1>1 DEF Places
<1> HIDE DEF P
<1>4. IsFiniteSet(B) /\ Cardinality(B) = Cardinality(P)
  <2>1. /\ g \in [P -> B]
        /\ \A x, y \in P : g[x] = g[y] => x = y
        /\ \A b \in B : \E x \in P : g[x] = b
    BY <1>1, <1>2
  <2> HIDE DEF B, g
  <2> QED BY <1>2, <2>1, SameNumber
<1>5. \A i \in DOMAIN r : i = 1 \/ (i - 1 \in 1 .. Len(s) /\ r[i] = s[i - 1])
  <2> SUFFICES ASSUME NEW i \in DOMAIN r, i # 1 PROVE i - 1 \in 1 .. Len(s) /\ r[i] = s[i - 1]
    OBVIOUS
  <2>1. i - 1 \in 1 .. Len(s) /\ (i - 1) + 1 = i
    BY <1>1
  <2> QED BY <1>1, <2>1
<1>6. \A i : i \in Places(r, f) <=> i \in B \/ (i = 1 /\ n.fn = f)
  <2>1. ASSUME NEW i \in Places(r, f) PROVE i \in B \/ (i = 1 /\ n.fn = f)
    <3>1. i \in DOMAIN r /\ r[i].fn = f
      BY DEF Places
    <3>2. CASE i = 1
      BY <1>1, <3>1, <3>2
    <3>3. CASE i # 1
      <4>1. i - 1 \in P /\ (i - 1) + 1 = i
        BY <1>1, <1>3, <1>5, <3>1, <3>3
      <4> QED BY <4>1
    <3> QED BY <3>2, <3>3
  <2>2. ASSUME NEW j \in P PROVE j + 1 \in Places(r, f)
    <3>1. j \in 1 .. Len(s) /\ s[j].fn = f /\ j + 1 \in 1 .. Len(s) + 1
      BY <1>1, <1>2, <1>3
    <3> QED BY <1>1, <3>1 DEF Places
  <2>3. n.fn = f => 1 \in Places(r, f)
    BY <1>1 DEF Places
  <2> QED BY <2>1, <2>2, <2>3
<1>7. 1 \notin B
  BY <1>1, <1>2
<1>8. /\ n.fn = f => Cardinality(Places(r, f)) = Cardinality(P) + 1
      /\ n.fn # f => Cardinality(Places(r, f)) = Cardinality(P)
  <2>1. CASE n.fn = f
    <3>1. Places(r, f) = B \cup {1}
      BY <1>6, <2>1
    <3> HIDE DEF B
    <3>2. Cardinality(B \cup {1}) = Cardinality(B) + 1
      BY <1>4, <1>7, FS_AddElement
    <3> QED BY <1>4, <2>1, <3>1, <3>2
  <2>2. CASE n.fn # f
    <3>1. Places(r, f) = B
      BY <1>6, <2>2
    <3> QED BY <1>4, <2>2, <3>1
  <2> QED BY <2>1, <2>2
<1>9. \A i \in DOMAIN r : r[i] = n \/ \E j \in DOMAIN s : r[i] = s[j]
  BY <1>1, <1>5
<1>10. AtMostOne(P) /\ (n.fn # f \/ P = {}) => AtMostOne(Places(r, f))
  BY <1>6 DEF AtMostOne
<1> QED BY <1>8, <1>9, <1>10 DEF P

\* A node taken out takes its place from those of its function.
LEMMA PlacesRemoved ==
  ASSUME NEW s \in Seq(Node), NEW k \in 1 .. Len(s), NEW r, r = RemoveAt(s, k), NEW f
  PROVE  /\ Cardinality(Places(r, f)) = Cardinality(Places(s, f)) - (IF s[k].fn = f THEN 1 ELSE 0)
         /\ \A i \in DOMAIN r : \E j \in DOMAIN s : r[i] = s[j]
         /\ AtMostOne(Places(s, f)) => AtMostOne(Places(r, f)) /\ (s[k].fn = f => Places(r, f) = {})
<1>1. /\ r \in Seq(Node) /\ DOMAIN r = 1 .. Len(s) - 1
      /\ Len(s) \in Nat /\ DOMAIN s = 1 .. Len(s)
      /\ \A i \in 1 .. Len(s) - 1 : r[i] = IF i < k THEN s[i] ELSE s[i + 1]
  BY RemoveForm
<1> DEFINE Up(i) == IF i < k THEN i ELSE i + 1
           A == Places(r, f)
           P == Places(s, f)
           B == P \ {k}
           g == [i \in A |-> Up(i)]
<1>2. IsFiniteSet(P) /\ IsFiniteSet(A) /\ Cardinality(P) \in Nat /\ P \subseteq 1 .. Len(s)
  BY <1>1, PlacesFinite
<1>3. /\ \A i : i \in P <=> i \in 1 .. Len(s) /\ s[i].fn = f
      /\ \A i : i \in A <=> i \in 1 .. Len(s) - 1 /\ r[i].fn = f
  BY <1>1 DEF Places
<1> HIDE DEF A, P
<1>4. \A i \in 1 .. Len(s) - 1 : Up(i) \in 1 .. Len(s) /\ Up(i) # k /\ r[i] = s[Up(i)]
  BY <1>1
<1>5. \A i, j \in 1 .. Len(s) - 1 : Up(i) = Up(j) => i = j
  BY <1>1
<1>6. \A j \in (1 .. Len(s)) \ {k} : \E i \in 1 .. Len(s) - 1 : Up(i) = j
  <2> SUFFICES ASSUME NEW j \in (1 .. Len(s)) \ {k} PROVE \E i \in 1 .. Len(s) - 1 : Up(i) = j
    OBVIOUS
  <2>1. CASE j < k
    <3>1. j \in 1 .. Len(s) - 1 /\ Up(j) = j
      BY <1>1, <2>1
    <3> QED BY <3>1
  <2>2. CASE ~(j < k)
    <3>1. j - 1 \in 1 .. Len(s) - 1 /\ Up(j - 1) = j
      BY <1>1, <2>2
    <3> QED BY <3>1
  <2> QED BY <2>1, <2>2
<1> HIDE DEF Up
<1>7. IsFiniteSet(B) /\ Cardinality(B) = Cardinality(A)
  <2>1. g \in [A -> B]
    BY <1>3, <1>4
  <2>2. \A x, y \in A : g[x] = g[y] => x = y
    BY <1>3, <1>5
  <2>3. \A b \in B : \E x \in A : g[x] = b
    <3> SUFFICES ASSUME NEW b \in B PROVE \E x \in A : g[x] = b
      OBVIOUS
    <3>1. PICK i \in 1 .. Len(s) - 1 : Up(i) = b
      BY <1>3, <1>6
    <3>2. i \in A
      BY <1>3, <1>4, <3>1
    <3> QED BY <3>1, <3>2
  <2> HIDE DEF B, g
  <2> QED BY <1>2, <2>1, <2>2, <2>3, SameNumber
<1>8. Cardinality(A) = Cardinality(P) - (IF s[k].fn = f THEN 1 ELSE 0)
  <2>1. k \in P <=> s[k].fn = f
    BY <1>3
  <2>2. Cardinality(B) = IF k \in P THEN Cardinality(P) - 1 ELSE Cardinality(P)
    BY <1>2, FS_RemoveElement
  <2> QED BY <1>2, <1>7, <2>1, <2>2
<1>9. \A i \in DOMAIN r : \E j \in DOMAIN s : r[i] = s[j]
  BY <1>1, <1>4
<1>10. ASSUME AtMostOne(P) PROVE AtMostOne(A) /\ (s[k].fn = f => A = {})
  <2>1. \A i \in A : i \in 1 .. Len(s) - 1 /\ Up(i) \in P /\ Up(i) # k
    BY <1>3, <1>4
  <2>2. AtMostOne(A)
    BY <1>5, <1>10, <2>1 DEF AtMostOne
  <2>3. s[k].fn = f => k \in P
    BY <1>3
  <2> QED BY <1>10, <2>1, <2>2, <2>3 DEF AtMostOne
<1> QED BY <1>8, <1>9, <1>10 DEF A, P

--------------------------------------------------------------------------------
(* Lists and handles                                                           *)

\* The handles of a thread for a function.
HandlesOf(a, t, f) == {n \in a.handle : n.thread = t /\ n.fn = f}

\* A list has the nodes of its thread, as many for a function as there are handles, and
\* unless the function was linked twice the one that is linked has its handle.
Counted(a, t, f) ==
  /\ Cardinality(Places(a.list[t], f)) = Cardinality(HandlesOf(a, t, f))
  /\ <<t, f>> \notin a.twice =>
       /\ AtMostOne(Places(a.list[t], f))
       /\ \A i \in Places(a.list[t], f) : a.list[t][i] \in a.handle

\* The state of the handlers of an enclave is sound.
AexSound(a) ==
  /\ IsFiniteSet(a.handle)
  /\ \A t \in Thread : \A i \in DOMAIN a.list[t] : a.list[t][i].thread = t
  /\ \A t \in Thread, f \in Fn : Counted(a, t, f)

\* Registering links a node and makes a handle.
LEMMA RegisterSound ==
  ASSUME NEW a \in AexState, AexSound(a), NEW t \in Thread, NEW f \in Fn, NEW at \in FreeAt(a)
  PROVE  AexSound(rsgx_register_aex_handler(a, t, f, at))
<1> DEFINE node == [at |-> at, fn |-> f, thread |-> t]
           s == a.list[t]
           r == <<node>> \o s
           b == rsgx_register_aex_handler(a, t, f, at)
<1>1. node \in Node /\ node.fn = f /\ node.thread = t /\ node.at = at
  BY DEF Node, FreeAt
<1>2. /\ a.list \in [Thread -> Seq(Node)] /\ a.handle \subseteq Node /\ s \in Seq(Node)
  BY DEF AexState
<1>3. node \notin a.handle
  BY <1>1 DEF FreeAt
<1>4. /\ b.list = [a.list EXCEPT ![t] = r] /\ b.handle = a.handle \cup {node}
      /\ b.twice = IF Places(s, f) = {} THEN a.twice ELSE a.twice \cup {<<t, f>>}
  BY DEF rsgx_register_aex_handler, LinkedWith, Places
<1> HIDE DEF node, b
<1>5. b.list[t] = r /\ \A u \in Thread : u # t => b.list[u] = a.list[u]
  BY <1>2, <1>4
<1>6. ASSUME NEW g
      PROVE  /\ node.fn = g => Cardinality(Places(r, g)) = Cardinality(Places(s, g)) + 1
             /\ node.fn # g => Cardinality(Places(r, g)) = Cardinality(Places(s, g))
             /\ \A i \in DOMAIN r : r[i] = node \/ \E j \in DOMAIN s : r[i] = s[j]
             /\ AtMostOne(Places(s, g)) /\ (node.fn # g \/ Places(s, g) = {}) => AtMostOne(Places(r, g))
  <2> HIDE DEF s, r
  <2> QED BY <1>1, <1>2, PlacesPrepended DEF r
<1> HIDE DEF r, s
<1>7. IsFiniteSet(b.handle)
  BY <1>4, FS_AddElement DEF AexSound
<1>8. ASSUME NEW u \in Thread, NEW i \in DOMAIN b.list[u] PROVE b.list[u][i].thread = u
  <2>1. CASE u = t
    BY <1>1, <1>5, <1>6, <1>8, <2>1 DEF AexSound, s
  <2>2. CASE u # t
    BY <1>5, <1>8, <2>2 DEF AexSound
  <2> QED BY <2>1, <2>2
<1>9. ASSUME NEW u \in Thread, NEW g \in Fn PROVE Counted(b, u, g)
  <2>1. Counted(a, u, g)
    BY DEF AexSound
  <2>2. IsFiniteSet(HandlesOf(a, u, g)) /\ node \notin HandlesOf(a, u, g)
    BY <1>3, FS_Subset DEF AexSound, HandlesOf
  <2>3. CASE ~(u = t /\ g = f)
    <3>1. HandlesOf(b, u, g) = HandlesOf(a, u, g)
      BY <1>1, <1>4, <2>3 DEF HandlesOf
    <3>2. CASE u # t
      <4>1. b.list[u] = a.list[u] /\ (<<u, g>> \notin b.twice => <<u, g>> \notin a.twice)
        BY <1>4, <1>5, <3>2
      <4> QED BY <1>4, <2>1, <3>1, <4>1 DEF Counted
    <3>3. CASE u = t
      <4>1. g # f /\ b.list[u] = r /\ a.list[u] = s
        BY <1>5, <2>3, <3>3 DEF s
      <4>2. Cardinality(Places(s, g)) \in Nat
        BY <1>2, PlacesFinite DEF s
      <4>3. Cardinality(Places(r, g)) = Cardinality(HandlesOf(b, u, g))
        BY <1>1, <1>6, <2>1, <3>1, <4>1, <4>2 DEF Counted
      <4>4. ASSUME <<u, g>> \notin b.twice
            PROVE  AtMostOne(Places(r, g)) /\ \A i \in Places(r, g) : r[i] \in b.handle
        <5>1. AtMostOne(Places(s, g)) /\ \A i \in Places(s, g) : s[i] \in a.handle
          BY <1>4, <2>1, <4>1, <4>4 DEF Counted
        <5>2. AtMostOne(Places(r, g))
          BY <1>1, <1>6, <4>1, <5>1
        <5>3. ASSUME NEW i \in Places(r, g) PROVE r[i] \in b.handle
          <6>1. PICK j \in DOMAIN s : r[i] = s[j]
            BY <1>1, <1>6, <4>1, <5>3 DEF Places
          <6>2. j \in Places(s, g)
            BY <5>3, <6>1 DEF Places
          <6> QED BY <1>4, <5>1, <6>1, <6>2
        <5> QED BY <5>2, <5>3
      <4> QED BY <4>1, <4>3, <4>4 DEF Counted
    <3> QED BY <3>2, <3>3
  <2>4. CASE u = t /\ g = f
    <3>1. b.list[u] = r /\ a.list[u] = s
      BY <1>5, <2>4 DEF s
    <3>2. HandlesOf(b, u, g) = HandlesOf(a, u, g) \cup {node}
      BY <1>1, <1>4, <2>4 DEF HandlesOf
    <3>3. Cardinality(HandlesOf(b, u, g)) = Cardinality(HandlesOf(a, u, g)) + 1
      BY <2>2, <3>2, FS_AddElement
    <3>4. Cardinality(Places(r, g)) = Cardinality(HandlesOf(b, u, g))
      BY <1>1, <1>6, <2>1, <2>4, <3>1, <3>3 DEF Counted
    <3>5. ASSUME <<u, g>> \notin b.twice
          PROVE  AtMostOne(Places(r, g)) /\ \A i \in Places(r, g) : r[i] \in b.handle
      <4>1. Places(s, f) = {}
        BY <1>4, <2>4, <3>5
      <4>2. AtMostOne(Places(r, g))
        BY <1>6, <2>4, <4>1 DEF AtMostOne
      <4>3. ASSUME NEW i \in Places(r, g) PROVE r[i] \in b.handle
        <5>1. i \in DOMAIN r /\ r[i].fn = f
          BY <2>4, <4>3 DEF Places
        <5>2. r[i] = node
          BY <1>6, <4>1, <5>1 DEF Places
        <5> QED BY <1>4, <5>2
      <4> QED BY <4>2, <4>3
    <3> QED BY <3>1, <3>4, <3>5 DEF Counted
  <2> QED BY <2>3, <2>4
<1> QED BY <1>7, <1>8, <1>9 DEF AexSound, b

\* Unregistering unlinks a node of the function the handle is for, and drops the handle.
LEMMA UnregisterSound ==
  ASSUME NEW a \in AexState, AexSound(a), NEW t \in Thread, NEW node \in a.handle, node.thread = t
  PROVE  AexSound(rsgx_unregister_aex_handler(a, t, node))
<1> DEFINE f == node.fn
           k == First(a, t, f)
           s == a.list[t]
           r == RemoveAt(s, k)
           b == rsgx_unregister_aex_handler(a, t, node)
<1>1. CASE LinkedWith(a, t, f) = {}
  BY <1>1 DEF rsgx_unregister_aex_handler
<1>2. CASE LinkedWith(a, t, f) # {}
  <2>1. /\ a.list \in [Thread -> Seq(Node)] /\ a.handle \subseteq Node /\ s \in Seq(Node)
        /\ DOMAIN a = {"list", "handle", "twice"} /\ f \in Fn
    BY DEF AexState, Node
  <2>2. k \in 1 .. Len(s) /\ s[k].fn = f
    BY <1>2, FirstIs
  <2> DEFINE list == [a.list EXCEPT ![t] = r]
             handle2 == a.handle \ {node}
  <2>3. b = [a EXCEPT !.list = list, !.handle = handle2]
    BY <1>2 DEF rsgx_unregister_aex_handler, sgx_unregister_aex_handler, First
  <2>4. b.list = list /\ b.handle = handle2 /\ b.twice = a.twice
    <3> HIDE DEF list, handle2
    <3> QED BY <2>1, <2>3
  <2> HIDE DEF b, k, f
  <2>5. b.list[t] = r /\ \A u \in Thread : u # t => b.list[u] = a.list[u]
    BY <2>1, <2>4
  <2>6. ASSUME NEW g
        PROVE  /\ Cardinality(Places(r, g)) = Cardinality(Places(s, g)) - (IF f = g THEN 1 ELSE 0)
               /\ \A i \in DOMAIN r : \E j \in DOMAIN s : r[i] = s[j]
               /\ AtMostOne(Places(s, g)) => AtMostOne(Places(r, g)) /\ (f = g => Places(r, g) = {})
    <3> HIDE DEF s, r
    <3> QED BY <2>1, <2>2, PlacesRemoved DEF r
  <2> HIDE DEF r, s
  <2>7. IsFiniteSet(b.handle)
    BY <2>4, FS_RemoveElement DEF AexSound
  <2>8. ASSUME NEW u \in Thread, NEW i \in DOMAIN b.list[u] PROVE b.list[u][i].thread = u
    <3>1. CASE u = t
      BY <2>5, <2>6, <2>8, <3>1 DEF AexSound, s
    <3>2. CASE u # t
      BY <2>5, <2>8, <3>2 DEF AexSound
    <3> QED BY <3>1, <3>2
  <2>9. ASSUME NEW u \in Thread, NEW g \in Fn PROVE Counted(b, u, g)
    <3>1. Counted(a, u, g)
      BY DEF AexSound
    <3>2. IsFiniteSet(HandlesOf(a, u, g))
      BY FS_Subset DEF AexSound, HandlesOf
    <3>3. CASE u # t
      <4>1. HandlesOf(b, u, g) = HandlesOf(a, u, g) /\ b.list[u] = a.list[u]
        BY <2>4, <2>5, <3>3 DEF HandlesOf
      <4>2. ASSUME NEW i \in Places(a.list[u], g), a.list[u][i] \in a.handle PROVE a.list[u][i] \in b.handle
        BY <2>4, <3>3, <4>2 DEF AexSound, Places
      <4> QED BY <2>4, <3>1, <4>1, <4>2 DEF Counted
    <3>4. CASE u = t
      <4>1. b.list[u] = r /\ a.list[u] = s
        BY <2>5, <3>4 DEF s
      <4>2. Cardinality(Places(s, g)) \in Nat
        BY <2>1, PlacesFinite DEF s
      <4>3. Cardinality(Places(r, g)) = Cardinality(HandlesOf(b, u, g))
        <5>1. CASE f = g
          <6>1. HandlesOf(b, u, g) = HandlesOf(a, u, g) \ {node} /\ node \in HandlesOf(a, u, g)
            BY <2>4, <3>4, <5>1 DEF HandlesOf, f
          <6>2. Cardinality(HandlesOf(b, u, g)) = Cardinality(HandlesOf(a, u, g)) - 1
            BY <3>2, <6>1, FS_RemoveElement
          <6> QED BY <2>6, <3>1, <4>1, <5>1, <6>2 DEF Counted
        <5>2. CASE f # g
          <6>1. HandlesOf(b, u, g) = HandlesOf(a, u, g)
            BY <2>4, <5>2 DEF HandlesOf, f
          <6> QED BY <2>6, <3>1, <4>1, <4>2, <5>2, <6>1 DEF Counted
        <5> QED BY <5>1, <5>2
      <4>4. ASSUME <<u, g>> \notin b.twice
            PROVE  AtMostOne(Places(r, g)) /\ \A i \in Places(r, g) : r[i] \in b.handle
        <5>1. AtMostOne(Places(s, g)) /\ \A i \in Places(s, g) : s[i] \in a.handle
          BY <2>4, <3>1, <4>1, <4>4 DEF Counted
        <5>2. ASSUME NEW i \in Places(r, g) PROVE r[i] \in b.handle
          <6>1. f # g
            BY <2>6, <5>1, <5>2
          <6>2. PICK j \in DOMAIN s : r[i] = s[j]
            BY <2>6, <5>2 DEF Places
          <6>3. s[j].fn = g /\ j \in Places(s, g)
            BY <5>2, <6>2 DEF Places
          <6> QED BY <2>4, <5>1, <6>1, <6>2, <6>3 DEF f
        <5> QED BY <2>6, <5>1, <5>2
      <4> QED BY <4>1, <4>3, <4>4 DEF Counted
    <3> QED BY <3>3, <3>4
  <2> QED BY <2>7, <2>8, <2>9 DEF AexSound, b
<1> QED BY <1>1, <1>2

\* An enclave without handlers is sound.
LEMMA EmptySound == AexSound(NoHandlers)
<1>1. \A t \in Thread : NoHandlers.list[t] = << >>
  BY DEF NoHandlers
<1>2. NoHandlers.handle = {}
  BY DEF NoHandlers
<1>3. \A t \in Thread, f \in Fn : Places(NoHandlers.list[t], f) = {} /\ HandlesOf(NoHandlers, t, f) = {}
  BY <1>1, <1>2 DEF Places, HandlesOf
<1> DEFINE none == NoHandlers
<1> HIDE DEF none
<1>4. ASSUME NEW t \in Thread, NEW f \in Fn PROVE Counted(none, t, f)
  BY <1>3 DEF Counted, AtMostOne, none
<1>5. \A t \in Thread : DOMAIN none.list[t] = {}
  BY <1>1 DEF none
<1>6. IsFiniteSet(none.handle)
  BY <1>2, FS_EmptySet DEF none
<1> QED BY <1>4, <1>5, <1>6 DEF AexSound, none

--------------------------------------------------------------------------------
(* Stacks                                                                      *)

\* Two stacks differ in one place only.
SameBut(s, r, n) ==
  \A i \in Nat : i = n \/ ((i \in DOMAIN r <=> i \in DOMAIN s) /\ (i \in DOMAIN s => r[i] = s[i]))

\* A frame pushed.
LEMMA AppendBut ==
  ASSUME NEW S, NEW s \in Seq(S), NEW f \in S, NEW n, n = Len(s) + 1
  PROVE  /\ Append(s, f) \in Seq(S) /\ SameBut(s, Append(s, f), n) /\ n \in Nat
         /\ n \notin DOMAIN s /\ n \in DOMAIN Append(s, f) /\ Append(s, f)[n] = f
<1> DEFINE r == Append(s, f)
<1>1. /\ r \in Seq(S) /\ Len(r) = Len(s) + 1
      /\ \A i \in 1 .. Len(s) : r[i] = s[i]
      /\ r[Len(s) + 1] = f
  BY AppendProperties
<1> HIDE DEF r
<1>2. DOMAIN r = 1 .. Len(r) /\ DOMAIN s = 1 .. Len(s) /\ Len(s) \in Nat
  BY <1>1, LenProperties
<1>3. SameBut(s, r, n)
  BY <1>1, <1>2 DEF SameBut
<1> QED BY <1>1, <1>2, <1>3 DEF r

\* A frame popped.
LEMMA FrontBut ==
  ASSUME NEW S, NEW s \in Seq(S), s # << >>, NEW n, n = Len(s)
  PROVE  /\ Front(s) \in Seq(S) /\ SameBut(s, Front(s), n) /\ n \in Nat
         /\ n \in DOMAIN s /\ n \notin DOMAIN Front(s) /\ Last(s) = s[n] /\ s[n] \in S
         /\ Len(Front(s)) = n - 1
<1> DEFINE m == n - 1
           r == Front(s)
<1>1. Len(s) \in Nat /\ Len(s) # 0 /\ DOMAIN s = 1 .. Len(s)
  BY EmptySeq, LenProperties
<1>2. m \in Int /\ 1 \in Int /\ m >= 0 /\ n \in Nat /\ n \in 1 .. Len(s) /\ \A i \in 1 .. m : s[i] \in S
  BY <1>1
<1>3. r = SubSeq(s, 1, m)
  BY DEF Front
<1> HIDE DEF m, r
<1>4. /\ r \in Seq(S) /\ Len(r) = IF 1 <= m THEN m - 1 + 1 ELSE 0
      /\ \A i \in 1 .. m - 1 + 1 : r[i] = s[1 + i - 1]
  BY <1>2, <1>3, SubSeqProperties
<1>5. m - 1 + 1 = m /\ \A i \in 1 .. m : 1 + i - 1 = i
  BY <1>2
<1>6. Len(r) = m /\ DOMAIN r = 1 .. Len(r) /\ \A i \in 1 .. m : r[i] = s[i]
  BY <1>2, <1>4, <1>5, LenProperties
<1>7. SameBut(s, r, n) /\ n \notin DOMAIN r
  BY <1>1, <1>2, <1>6 DEF SameBut, m
<1>8. Last(s) = s[n] /\ s[n] \in S
  BY <1>2, ElementOfSeq DEF Last
<1> QED BY <1>1, <1>2, <1>4, <1>6, <1>7, <1>8 DEF r, m

\* The last frame changed.
LEMMA LastBut ==
  ASSUME NEW S, NEW s \in Seq(S), s # << >>, NEW n, n = Len(s), NEW f \in S
  PROVE  /\ Append(Front(s), f) \in Seq(S) /\ SameBut(s, Append(Front(s), f), n)
         /\ n \in DOMAIN Append(Front(s), f) /\ Append(Front(s), f)[n] = f
<1> DEFINE low == Front(s)
<1>1. /\ low \in Seq(S) /\ SameBut(s, low, n) /\ n \in Nat
      /\ n \in DOMAIN s /\ n \notin DOMAIN low /\ Len(low) = n - 1
  BY FrontBut
<1> HIDE DEF low
<1>2. n = Len(low) + 1
  BY <1>1, LenProperties
<1> DEFINE r == Append(low, f)
<1>3. /\ r \in Seq(S) /\ SameBut(low, r, n)
      /\ n \in DOMAIN r /\ r[n] = f
  BY <1>1, <1>2, AppendBut
<1> HIDE DEF r
<1>4. SameBut(s, r, n)
  BY <1>1, <1>3 DEF SameBut
<1> QED BY <1>3, <1>4 DEF r, low

\* All frames but one are what they were.
Elsewhere(t, n) == \A u \in Thread : SameBut(stack[u], stack'[u], IF u = t THEN n ELSE -1)

\* The stacks are stacks of frames.
Stacks == stack \in [Thread -> Seq(Frame)]

\* What the three operations on a stack do to the frames.
Pushed(t, n, f) ==
  /\ Stacks' /\ Elsewhere(t, n) /\ n \in Nat
  /\ n \notin DOMAIN stack[t] /\ n \in DOMAIN stack'[t] /\ stack'[t][n] = f

Popped(t, n) ==
  /\ Stacks' /\ Elsewhere(t, n) /\ n \in Nat
  /\ n \in DOMAIN stack[t] /\ n \notin DOMAIN stack'[t]

Moved(t, n, pc) ==
  /\ Stacks' /\ Elsewhere(t, n) /\ n \in Nat
  /\ n \in DOMAIN stack[t] /\ n \in DOMAIN stack'[t]
  /\ stack'[t][n] = [stack[t][n] EXCEPT !.pc = pc]

\* The running call.
Running(t, n) ==
  /\ n \in Nat /\ n \in DOMAIN stack[t] /\ Last(stack[t]) = stack[t][n] /\ stack[t][n] \in Frame

\* A new stack of one thread leaves the frames of the others alone.
LEMMA OneStack ==
  ASSUME Stacks, NEW t \in Thread, NEW r \in Seq(Frame), NEW n, SameBut(stack[t], r, n),
         stack' = [stack EXCEPT ![t] = r]
  PROVE  Stacks' /\ Elsewhere(t, n) /\ stack'[t] = r
<1>1. Stacks' /\ stack'[t] = r
  BY DEF Stacks
<1>2. ASSUME NEW u \in Thread PROVE SameBut(stack[u], stack'[u], IF u = t THEN n ELSE -1)
  <2>1. CASE u = t
    BY <1>1, <2>1
  <2>2. CASE u # t
    <3>1. stack'[u] = stack[u]
      BY <2>2 DEF Stacks
    <3> QED BY <2>2, <3>1 DEF SameBut
  <2> QED BY <2>1, <2>2
<1> QED BY <1>1, <1>2 DEF Elsewhere

\* The running call of a thread that has one.
LEMMA RunningIs ==
  ASSUME Stacks, NEW t \in Thread, stack[t] # << >>
  PROVE  \E n \in Nat : n = Len(stack[t]) /\ Running(t, n)
<1> DEFINE s == stack[t]
<1>1. s \in Seq(Frame) /\ s # << >>
  BY DEF Stacks
<1> HIDE DEF s
<1>2. LET n == Len(s) IN n \in Nat /\ n \in DOMAIN s /\ Last(s) = s[n] /\ s[n] \in Frame
  BY <1>1, FrontBut
<1> QED BY <1>2 DEF Running, s

\* Push adds a frame,
LEMMA PushForm ==
  ASSUME Stacks, NEW t \in Thread, NEW f \in Frame, Push(t, f)
  PROVE  \E n \in Nat : Pushed(t, n, f)
<1> DEFINE s == stack[t]
           n == Len(s) + 1
           r == Append(s, f)
<1>1. s \in Seq(Frame)
  BY DEF Stacks
<1>2. /\ r \in Seq(Frame) /\ SameBut(s, r, n) /\ n \in Nat
      /\ n \notin DOMAIN s /\ n \in DOMAIN r /\ r[n] = f
  <2> HIDE DEF s
  <2> QED BY <1>1, AppendBut
<1>3. stack' = [stack EXCEPT ![t] = r]
  BY DEF Push
<1> HIDE DEF n, r
<1>4. Stacks' /\ Elsewhere(t, n) /\ stack'[t] = r
  BY <1>2, <1>3, OneStack
<1> QED BY <1>2, <1>4 DEF Pushed

\* Pop takes the running one away,
LEMMA PopForm ==
  ASSUME Stacks, NEW t \in Thread, Pop(t), stack[t] # << >>
  PROVE  \E n \in Nat : Popped(t, n) /\ Running(t, n)
<1> DEFINE s == stack[t]
           n == Len(s)
           r == Front(s)
<1>1. s \in Seq(Frame) /\ s # << >>
  BY DEF Stacks
<1>2. /\ r \in Seq(Frame) /\ SameBut(s, r, n) /\ n \in Nat
      /\ n \in DOMAIN s /\ n \notin DOMAIN r /\ Last(s) = s[n] /\ s[n] \in Frame
  <2> HIDE DEF s
  <2> QED BY <1>1, FrontBut
<1>3. stack' = [stack EXCEPT ![t] = r]
  BY DEF Pop
<1> HIDE DEF n, r
<1>4. Stacks' /\ Elsewhere(t, n) /\ stack'[t] = r
  BY <1>2, <1>3, OneStack
<1> QED BY <1>2, <1>4 DEF Popped, Running

\* Where a call can be.
Pcs == {"init", "initing", "ecall", "drop", "exiting", "destroy", "wait"}

\* and Goto moves it on.
LEMMA GotoForm ==
  ASSUME Stacks, NEW t \in Thread, NEW pc \in Pcs, Goto(t, pc), stack[t] # << >>
  PROVE  \E n \in Nat : Moved(t, n, pc) /\ Running(t, n)
<1> DEFINE s == stack[t]
           n == Len(s)
           f == [Last(s) EXCEPT !.pc = pc]
           r == Append(Front(s), f)
<1>1. s \in Seq(Frame) /\ s # << >>
  BY DEF Stacks
<1>2. n \in Nat /\ n \in DOMAIN s /\ Last(s) = s[n] /\ s[n] \in Frame
  <2> HIDE DEF s
  <2> QED BY <1>1, FrontBut
<1>3. f \in Frame
  BY <1>2 DEF Frame, Pcs
<1>4. /\ r \in Seq(Frame) /\ SameBut(s, r, n)
      /\ n \in DOMAIN r /\ r[n] = f
  <2> HIDE DEF s, f
  <2> QED BY <1>1, <1>3, LastBut
<1>5. stack' = [stack EXCEPT ![t] = r]
  BY DEF Goto
<1>6. f = [s[n] EXCEPT !.pc = pc]
  BY <1>2
<1> HIDE DEF n, r, f
<1>7. Stacks' /\ Elsewhere(t, n) /\ stack'[t] = r
  BY <1>4, <1>5, OneStack
<1> QED BY <1>2, <1>4, <1>6, <1>7 DEF Moved, Running

\* A call is at a number, and is a frame.
LEMMA Positions ==
  ASSUME Stacks, NEW t \in Thread, NEW i \in DOMAIN stack[t]
  PROVE  i \in Nat /\ stack[t][i] \in Frame
<1> DEFINE s == stack[t]
<1>1. s \in Seq(Frame) /\ i \in DOMAIN s
  BY DEF Stacks
<1> HIDE DEF s
<1>2. i \in 1 .. Len(s) /\ Len(s) \in Nat
  BY <1>1, LenProperties
<1> QED BY <1>1, <1>2, ElementOfSeq DEF s

--------------------------------------------------------------------------------
(* Types                                                                       *)

\* The initial states have the types
LEMMA TypeInit == Init => TypeOK
<1>1. << >> \in Seq(Frame)
  BY EmptySeq
<1> QED BY <1>1, EmptyHandlers DEF Init, TypeOK

\* and every step keeps them.
LEMMA TypeStep == TypeOK /\ [Next]_vars => TypeOK'
<1> SUFFICES ASSUME TypeOK, [Next]_vars PROVE TypeOK'
  OBVIOUS
<1>0. /\ layout \in Layouts
      /\ handle \in [Handle -> Id \cup {NoHandle, DefaultId}]
      /\ enclave \in [Id -> {"none", "loaded", "crashed", "closing", "gone"}]
      /\ globals \in [Id -> {"none", "init", "up", "refused", "exit", "down"}]
      /\ cloned \subseteq Id
      /\ aex \in [Id -> AexState]
      /\ Stacks
  BY DEF TypeOK, Stacks
<1> DEFINE Rest == /\ layout' \in Layouts
                   /\ handle' \in [Handle -> Id \cup {NoHandle, DefaultId}]
                   /\ enclave' \in [Id -> {"none", "loaded", "crashed", "closing", "gone"}]
                   /\ globals' \in [Id -> {"none", "init", "up", "refused", "exit", "down"}]
                   /\ cloned' \subseteq Id
                   /\ aex' \in [Id -> AexState]
<1>a. SUFFICES Rest /\ Stacks'
  BY DEF TypeOK, Stacks
<1>b. ASSUME UNCHANGED stack PROVE Stacks'
  BY <1>0, <1>b DEF Stacks
<1>c. ASSUME NEW t \in Thread, NEW f \in Frame, Push(t, f) PROVE Stacks'
  BY <1>0, <1>c, PushForm DEF Pushed
<1>d. ASSUME NEW t \in Thread, stack[t] # << >>, Pop(t) PROVE Stacks'
  BY <1>0, <1>d, PopForm DEF Popped
<1>e. ASSUME NEW t \in Thread, stack[t] # << >>, NEW pc \in Pcs, Goto(t, pc) PROVE Stacks'
  BY <1>0, <1>e, GotoForm DEF Moved
<1>f. ASSUME NEW t \in Thread, stack[t] # << >> PROVE Last(stack[t]) \in Frame
  BY <1>0, <1>f, RunningIs DEF Running
<1>1. CASE UNCHANGED vars
  BY <1>0, <1>1, <1>b DEF vars
<1>2. ASSUME NEW t \in Thread, NEW h \in Handle, create(t, h) PROVE Rest /\ Stacks'
  <2>1. PICK id \in Id : rsgx_create_enclave(id) /\ Push(t, [pc |-> "init", id |-> id, h |-> h])
    BY <1>2 DEF create
  <2>2. [pc |-> "init", id |-> id, h |-> h] \in Frame
    BY DEF Frame
  <2>3. Stacks'
    BY <2>1, <2>2, <1>c
  <2>4. Rest
    BY <1>0, <1>2, <2>1 DEF create, rsgx_create_enclave
  <2> QED BY <2>3, <2>4
<1>3. ASSUME NEW t \in Thread, init(t) PROVE Rest /\ Stacks'
  <2>1. Stacks'
    BY <1>3, <1>e DEF init, Top, Pcs
  <2> QED BY <1>0, <1>3, <2>1 DEF init
<1>4. ASSUME NEW t \in Thread, init_refused(t) \/ create_returns(t) PROVE Rest /\ Stacks'
  <2>1. Stacks' /\ Last(stack[t]) \in Frame
    BY <1>4, <1>d, <1>f DEF init_refused, create_returns, HandleReturned, Top
  <2>2. Last(stack[t]).id \in Id \cup {DefaultId}
    BY <2>1 DEF Frame
  <2> QED BY <1>0, <1>4, <2>1, <2>2 DEF init_refused, create_returns, HandleReturned
<1>5. ASSUME NEW t \in Thread, NEW h \in Handle, default(t, h) PROVE Rest /\ Stacks'
  BY <1>0, <1>5, <1>b DEF default
<1>6. ASSUME NEW t \in Thread, NEW h \in Handle, drop(t, h) PROVE Rest /\ Stacks'
  <2>1. [pc |-> "drop", id |-> handle[h], h |-> NoHandle] \in Frame
    BY <1>0, <1>6 DEF Frame, drop, Owned
  <2>2. Stacks'
    BY <1>6, <2>1, <1>c DEF drop
  <2> QED BY <1>0, <1>6, <2>2 DEF drop
<1>7. ASSUME NEW t \in Thread, NEW h \in Handle, ecall(t, h) PROVE Rest /\ Stacks'
  <2>1. [pc |-> "ecall", id |-> handle[h], h |-> h] \in Frame
    BY <1>0, <1>7 DEF Frame, ecall, MayEnter
  <2>2. Stacks'
    BY <1>7, <2>1, <1>c DEF ecall
  <2> QED BY <1>0, <1>7, <2>2 DEF ecall
<1>8. ASSUME NEW t \in Thread, NEW h \in Handle, NEW of \in Handle, clone(t, h, of) PROVE Rest /\ Stacks'
  BY <1>0, <1>8, <1>b DEF clone
<1>9. ASSUME NEW t \in Thread, ecall_returns(t) PROVE Rest /\ Stacks'
  <2>1. Stacks'
    BY <1>9, <1>d DEF ecall_returns, Top
  <2> QED BY <1>0, <1>9, <2>1 DEF ecall_returns
<1>10. ASSUME NEW t \in Thread, rsgx_abort(t) PROVE Rest /\ Stacks'
  <2>1. Stacks' /\ Last(stack[t]) \in Frame
    BY <1>10, <1>d, <1>e, <1>f DEF rsgx_abort, Pcs
  <2>2. Last(stack[t]).id \in Id \cup {DefaultId}
    BY <2>1 DEF Frame
  <2>3. /\ enclave' = [enclave EXCEPT ![Last(stack[t]).id] = IF @ = "loaded" THEN "crashed" ELSE @]
        /\ globals' = [globals EXCEPT ![Last(stack[t]).id] = "down"]
        /\ handle' = [handle EXCEPT ![Last(stack[t]).h] = Last(stack[t]).id] \/ handle' = handle
        /\ layout' = layout /\ cloned' = cloned /\ aex' = aex
    BY <1>10 DEF rsgx_abort
  <2> QED BY <1>0, <2>1, <2>2, <2>3
<1>11. ASSUME NEW t \in Thread, register_aex(t) PROVE Rest /\ Stacks'
  <2> DEFINE id == Last(stack[t]).id
  <2>1. id \in Id
    BY <1>11, LifecycleAssumption DEF register_aex
  <2>2. PICK f \in Fn, at \in FreeAt(aex[id]) :
          aex' = [aex EXCEPT ![id] = rsgx_register_aex_handler(aex[id], t, f, at)]
    BY <1>11 DEF register_aex
  <2>3. at \in 1 .. MaxNode
    BY <2>2 DEF FreeAt
  <2>4. rsgx_register_aex_handler(aex[id], t, f, at) \in AexState
    BY <1>0, <2>1, <2>3, RegisterTyped
  <2>5. aex' \in [Id -> AexState]
    BY <1>0, <2>1, <2>2, <2>4
  <2> QED BY <1>0, <1>11, <1>b, <2>5 DEF register_aex
<1>12. ASSUME NEW t \in Thread, unregister_aex(t) PROVE Rest /\ Stacks'
  <2> DEFINE id == Last(stack[t]).id
  <2>1. id \in Id
    BY <1>12, LifecycleAssumption DEF unregister_aex
  <2>2. PICK node \in aex[id].handle :
          aex' = [aex EXCEPT ![id] = rsgx_unregister_aex_handler(aex[id], t, node)]
    BY <1>12 DEF unregister_aex
  <2>3. node \in Node
    BY <1>0, <2>1 DEF AexState
  <2>4. rsgx_unregister_aex_handler(aex[id], t, node) \in AexState
    BY <1>0, <2>1, <2>3, UnregisterTyped
  <2>5. aex' \in [Id -> AexState]
    BY <1>0, <2>1, <2>2, <2>4
  <2> QED BY <1>0, <1>12, <1>b, <2>5 DEF unregister_aex
<1>13. ASSUME NEW t \in Thread, exit(t) PROVE Rest /\ Stacks'
  <2>1. Stacks'
    BY <1>13, <1>e DEF exit, Top, Pcs
  <2> QED BY <1>0, <1>13, <2>1 DEF exit
<1>14. ASSUME NEW t \in Thread, exit_refused(t) \/ exit_returns(t) PROVE Rest /\ Stacks'
  <2>1. Stacks'
    BY <1>14, <1>e DEF exit_refused, exit_returns, Top, Pcs
  <2> QED BY <1>0, <1>14, <2>1 DEF exit_refused, exit_returns
<1>15. ASSUME NEW t \in Thread, rsgx_destroy_enclave(t) PROVE Rest /\ Stacks'
  <2>1. Stacks'
    BY <1>15, <1>d, <1>e DEF rsgx_destroy_enclave, Top, Pcs
  <2> QED BY <1>0, <1>15, <2>1 DEF rsgx_destroy_enclave
<1>16. ASSUME NEW t \in Thread, destroyed(t) PROVE Rest /\ Stacks'
  <2>1. Stacks'
    BY <1>16, <1>d DEF destroyed, Top
  <2> QED BY <1>0, <1>16, <2>1, EmptyHandlers DEF destroyed
<1>17. CASE enclave_lost
  BY <1>0, <1>17, <1>b DEF enclave_lost
<1> QED
  BY <1>1, <1>2, <1>3, <1>4, <1>5, <1>6, <1>7, <1>8, <1>9, <1>10, <1>11, <1>12, <1>13, <1>14, <1>15, <1>16,
     <1>17
     DEF Next, CreateStep, InitStep, DropStep

\* Every variable keeps its type.
THEOREM TypeCorrect == Spec => []TypeOK
  BY TypeInit, TypeStep, PTL DEF Spec

--------------------------------------------------------------------------------
(* Frames and handles                                                          *)

\* A create that is under way has not filled its handle yet, and an ecall borrows one
\* that stays.
FrameFits(f, hd, en) ==
  /\ f.pc \in {"init", "initing"} => f.id \in Id /\ f.h \in Handle /\ hd[f.h] = NoHandle
  /\ f.pc = "ecall" => f.id \in Id /\ f.h \in Handle /\ hd[f.h] = f.id
  /\ f.pc \in {"exiting", "wait"} => f.id \in Id
  /\ f.id \in Id => en[f.id] # "none"

\* A create that is under way.
Creating(t, i) == i \in DOMAIN stack[t] /\ stack[t][i].pc \in {"init", "initing"}

\* Handles and calls fit each other.
Sound ==
  /\ \A t \in Thread, i \in Nat : i \in DOMAIN stack[t] => FrameFits(stack[t][i], handle, enclave)
  /\ \A h \in Handle : handle[h] \in Id => enclave[handle[h]] # "none"
  /\ \A t, u \in Thread, i, j \in Nat :       \* no two creates fill the same handle
       Creating(t, i) /\ Creating(u, j) /\ stack[t][i].h = stack[u][j].h => t = u /\ i = j

\* No call but that at one place goes by the handle.
Untouched(t, n, h) ==
  \A u \in Thread, i \in Nat :
    i \in DOMAIN stack[u] /\ stack[u][i].pc \in {"init", "initing", "ecall"} /\ stack[u][i].h = h
      => u = t /\ i = n

\* A frame elsewhere is the same after the step.
LEMMA Same ==
  ASSUME NEW t \in Thread, NEW n, Elsewhere(t, n), NEW u \in Thread, NEW i \in Nat, ~(u = t /\ i = n)
  PROVE  /\ i \in DOMAIN stack'[u] <=> i \in DOMAIN stack[u]
         /\ i \in DOMAIN stack[u] => stack'[u][i] = stack[u][i]
<1>1. SameBut(stack[u], stack'[u], IF u = t THEN n ELSE -1)
  BY DEF Elsewhere
<1>2. i # IF u = t THEN n ELSE -1
  OBVIOUS
<1> QED BY <1>1, <1>2 DEF SameBut

\* A step that leaves the other frames alone, and the handles they go by.
LEMMA SoundStep ==
  ASSUME Sound, NEW t \in Thread, NEW n, Elsewhere(t, n),
         \A id \in Id : enclave[id] # "none" => enclave'[id] # "none",
         \A h \in Handle : handle'[h] = handle[h] \/ Untouched(t, n, h),
         \A h \in Handle : handle'[h] \in Id => enclave'[handle'[h]] # "none",
         n \in DOMAIN stack'[t] => FrameFits(stack'[t][n], handle', enclave'),
         n \in DOMAIN stack'[t] /\ stack'[t][n].pc \in {"init", "initing"} =>
           \A u \in Thread, i \in Nat :
             Creating(u, i) /\ stack[u][i].h = stack'[t][n].h => u = t /\ i = n
  PROVE  Sound'
<1>1. ASSUME NEW u \in Thread, NEW i \in Nat, i \in DOMAIN stack'[u]
      PROVE  FrameFits(stack'[u][i], handle', enclave')
  <2>1. CASE u = t /\ i = n
    BY <1>1, <2>1
  <2>2. CASE ~(u = t /\ i = n)
    <3>1. i \in DOMAIN stack[u] /\ stack'[u][i] = stack[u][i]
      BY <1>1, <2>2, Same
    <3> DEFINE f == stack[u][i]
    <3>2. FrameFits(f, handle, enclave)
      BY <3>1 DEF Sound
    <3>3. f.pc \in {"init", "initing", "ecall"} => f.h \in Handle /\ handle'[f.h] = handle[f.h]
      BY <2>2, <3>1, <3>2 DEF Untouched, FrameFits
    <3> HIDE DEF f
    <3>4. FrameFits(f, handle', enclave')
      BY <3>2, <3>3 DEF FrameFits
    <3> QED BY <3>1, <3>4 DEF f
  <2> QED BY <2>1, <2>2
<1>2. ASSUME NEW u \in Thread, NEW i \in Nat, Creating(u, i)', ~(u = t /\ i = n)
      PROVE  Creating(u, i) /\ stack'[u][i] = stack[u][i]
  BY <1>2, Same DEF Creating
<1>3. ASSUME NEW u \in Thread, NEW v \in Thread, NEW i \in Nat, NEW j \in Nat,
             Creating(u, i)', Creating(v, j)', stack'[u][i].h = stack'[v][j].h
      PROVE  u = v /\ i = j
  <2>1. CASE u = t /\ i = n /\ ~(v = t /\ j = n)
    <3>1. Creating(v, j) /\ stack'[v][j] = stack[v][j]
      BY <1>2, <1>3, <2>1
    <3> QED BY <1>3, <2>1, <3>1 DEF Creating
  <2>2. CASE v = t /\ j = n /\ ~(u = t /\ i = n)
    <3>1. Creating(u, i) /\ stack'[u][i] = stack[u][i]
      BY <1>2, <1>3, <2>2
    <3> QED BY <1>3, <2>2, <3>1 DEF Creating
  <2>3. CASE ~(u = t /\ i = n) /\ ~(v = t /\ j = n)
    <3>1. Creating(v, j) /\ stack'[v][j] = stack[v][j] /\ Creating(u, i) /\ stack'[u][i] = stack[u][i]
      BY <1>2, <1>3, <2>3
    <3> QED BY <1>3, <3>1 DEF Sound
  <2> QED BY <2>1, <2>2, <2>3
<1> QED BY <1>1, <1>3 DEF Sound

--------------------------------------------------------------------------------
(* Who keeps an enclave                                                        *)

\* A call keeps an enclave, unless it is an ecall: then its handle does.
Keeps(t, i, id) == i \in DOMAIN stack[t] /\ stack[t][i].id = id /\ stack[t][i].pc # "ecall"

\* An enclave that is there is kept, one that is closing by the call that waits.
Kept(id) ==
  /\ enclave[id] \in {"loaded", "crashed"} =>
       (\E h \in Handle : handle[h] = id) \/ \E t \in Thread, i \in Nat : Keeps(t, i, id)
  /\ enclave[id] = "closing" =>
       \E t \in Thread, i \in Nat : Keeps(t, i, id) /\ stack[t][i].pc = "wait"

\* So is what it keeps.
LEMMA KeepsSame ==
  ASSUME NEW t \in Thread, NEW n, Elsewhere(t, n), NEW u \in Thread, NEW i \in Nat, NEW id,
         ~(u = t /\ i = n)
  PROVE  /\ Keeps(u, i, id)' <=> Keeps(u, i, id)
         /\ Keeps(u, i, id) => stack'[u][i] = stack[u][i]
  BY Same DEF Keeps

\* An enclave stays kept if what kept it stays, or is replaced.
LEMMA KeptStep ==
  ASSUME NEW id, Kept(id), NEW t \in Thread, NEW n \in Nat, Elsewhere(t, n),
         enclave'[id] = enclave[id] \/ (enclave[id] = "loaded" /\ enclave'[id] = "crashed"),
         \A h \in Handle : handle[h] = id => handle'[h] = id \/ Keeps(t, n, id)',
         Keeps(t, n, id) =>
           \/ Keeps(t, n, id)' /\ stack[t][n].pc # "wait"
           \/ stack[t][n].pc # "wait" /\ \E h \in Handle : handle'[h] = id
  PROVE  Kept(id)'
<1>1. ASSUME NEW u \in Thread, NEW i \in Nat, Keeps(u, i, id), stack[u][i].pc = "wait"
      PROVE  Keeps(u, i, id)' /\ stack'[u][i].pc = "wait"
  BY <1>1, KeepsSame
<1>2. ASSUME NEW u \in Thread, NEW i \in Nat, Keeps(u, i, id)
      PROVE  (\E h \in Handle : handle'[h] = id) \/ (\E v \in Thread, j \in Nat : Keeps(v, j, id)')
  BY <1>2, KeepsSame
<1> QED BY <1>1, <1>2 DEF Kept

--------------------------------------------------------------------------------
(* The life of an enclave                                                      *)

\* What an enclave is that crashed.
Lost(e, g) == e = "crashed" /\ g = "down"

\* What an enclave is while a call keeps it.
KeptAs(pc, e, g) ==
  /\ pc = "init" => (e = "loaded" /\ g = "none") \/ Lost(e, g)
  /\ pc = "initing" => (e = "loaded" /\ g = "init") \/ Lost(e, g)
  /\ pc = "drop" => e \in {"loaded", "crashed"} /\ g \in {"up", "refused", "down"}
  /\ pc = "exiting" => (e = "loaded" /\ g = "exit") \/ Lost(e, g)
  /\ pc = "destroy" => e \in {"loaded", "crashed"} /\ g \in {"exit", "refused", "down"}
  /\ pc = "wait" => e = "closing" /\ g \in {"exit", "refused", "down"}

\* What an enclave is in any case: that its globals are initialised took a TCS.
Ordered(id) ==
  /\ enclave[id] = "none" => globals[id] = "none"
  /\ enclave[id] = "crashed" => globals[id] = "down"
  /\ enclave[id] = "gone" => globals[id] \in {"exit", "refused", "down"}
  /\ globals[id] \in {"init", "up", "exit"} => 0 < TcsLoaded(Pages[layout])

\* An enclave none of whose handles was cloned is in one place: a handle or a call.
Life(id) ==
  /\ \A h, g \in Handle : handle[h] = id /\ handle[g] = id => h = g
  /\ \A h \in Handle, t \in Thread, i \in Nat : handle[h] = id => ~Keeps(t, i, id)
  /\ \A t, u \in Thread, i, j \in Nat : Keeps(t, i, id) /\ Keeps(u, j, id) => t = u /\ i = j
  /\ \A h \in Handle : handle[h] = id => enclave[id] \in {"loaded", "crashed"} /\ globals[id] \in {"up", "refused", "down"}
  /\ \A t \in Thread, i \in Nat : Keeps(t, i, id) => KeptAs(stack[t][i].pc, enclave[id], globals[id])
  /\ Ordered(id)

\* An enclave the step has nothing to do with.
LEMMA LifeElsewhere ==
  ASSUME NEW id, Life(id), NEW t \in Thread, NEW n \in Nat, Elsewhere(t, n),
         enclave'[id] = enclave[id], globals'[id] = globals[id], layout' = layout,
         \A h \in Handle : handle'[h] = id <=> handle[h] = id,
         ~Keeps(t, n, id), ~Keeps(t, n, id)'
  PROVE  Life(id)'
<1>1. ASSUME NEW u \in Thread, NEW i \in Nat
      PROVE  /\ Keeps(u, i, id)' <=> Keeps(u, i, id)
             /\ Keeps(u, i, id) => stack'[u][i] = stack[u][i]
  BY KeepsSame
<1>2. Ordered(id)'
  BY DEF Life, Ordered
<1>3. ASSUME NEW u \in Thread, NEW i \in Nat, Keeps(u, i, id)'
      PROVE  KeptAs(stack'[u][i].pc, enclave'[id], globals'[id])
  BY <1>1, <1>3 DEF Life
<1> QED BY <1>1, <1>2, <1>3 DEF Life

\* An enclave that the running call has, or nobody.
LEMMA LifeInCall ==
  ASSUME NEW id, NEW t \in Thread, NEW n \in Nat, Elsewhere(t, n),
         \A u \in Thread, i \in Nat : Keeps(u, i, id) => u = t /\ i = n,
         \A h \in Handle : handle'[h] # id,
         Keeps(t, n, id)' => KeptAs(stack'[t][n].pc, enclave'[id], globals'[id]),
         Ordered(id)'
  PROVE  Life(id)'
<1>1. ASSUME NEW u \in Thread, NEW i \in Nat, Keeps(u, i, id)' PROVE u = t /\ i = n
  BY <1>1, KeepsSame
<1> QED BY <1>1 DEF Life

\* An enclave that is in a handle.
LEMMA LifeInHandle ==
  ASSUME NEW id, NEW t \in Thread, NEW n \in Nat, Elsewhere(t, n),
         \A u \in Thread, i \in Nat : Keeps(u, i, id) => u = t /\ i = n,
         ~Keeps(t, n, id)',
         \A h, g \in Handle : handle'[h] = id /\ handle'[g] = id => h = g,
         enclave'[id] \in {"loaded", "crashed"}, globals'[id] \in {"up", "refused", "down"},
         Ordered(id)'
  PROVE  Life(id)'
<1>1. ASSUME NEW u \in Thread, NEW i \in Nat PROVE ~Keeps(u, i, id)'
  BY <1>1, KeepsSame
<1> QED BY <1>1 DEF Life

\* Only the threads that the running call has let in are inside an enclave whose
\* handle was not cloned, so that a call of it is let in when there is a TCS.
LEMMA NobodyInside ==
  ASSUME Stacks, Sound, NEW id \in Id, Life(id), NEW t \in Thread, NEW n \in Nat, Keeps(t, n, id),
         stack[t][n].pc \notin InsidePc
  PROVE  /\ \A u \in Thread : ~Inside(u, id)
         /\ \A h \in Handle : handle[h] # id
         /\ TcsFree(t, id) <=> 0 < TcsLoaded(Pages[layout])
<1>1. ASSUME NEW u \in Thread, Inside(u, id) PROVE FALSE
  <2>1. PICK i \in DOMAIN stack[u] : stack[u][i].id = id /\ stack[u][i].pc \in InsidePc
    BY <1>1 DEF Inside
  <2>2. i \in Nat
    BY Positions
  <2>3. CASE stack[u][i].pc = "ecall"
    <3>1. FrameFits(stack[u][i], handle, enclave)
      BY <2>1, <2>2 DEF Sound
    <3>2. \E h \in Handle : handle[h] = id
      BY <2>1, <2>3, <3>1 DEF FrameFits
    <3> QED BY <3>2 DEF Life
  <2>4. CASE stack[u][i].pc # "ecall"
    <3>1. Keeps(u, i, id)
      BY <2>1, <2>4 DEF Keeps
    <3>2. u = t /\ i = n
      BY <2>2, <3>1 DEF Life
    <3> QED BY <2>1, <3>2
  <2> QED BY <2>3, <2>4
<1>2. {u \in Thread : Inside(u, id)} = {}
  BY <1>1
<1>3. Cardinality({}) = 0
  BY FS_EmptySet
<1>4. TcsFree(t, id) <=> 0 < TcsLoaded(Pages[layout])
  BY <1>1, <1>2, <1>3 DEF TcsFree
<1>5. \A h \in Handle : handle[h] # id
  BY DEF Life
<1> QED BY <1>1, <1>4, <1>5

--------------------------------------------------------------------------------
(* Every step                                                                  *)

\* The inductive invariant, with TypeOK.
Safe ==
  /\ Sound
  /\ \A id \in Id : Kept(id)
  /\ \A id \in Id \ cloned : Life(id)

\* TypeOK in the form the steps use.
LEMMA Typed ==
  ASSUME TypeOK
  PROVE  /\ handle \in [Handle -> Id \cup {NoHandle, DefaultId}]
         /\ enclave \in [Id -> {"none", "loaded", "crashed", "closing", "gone"}]
         /\ globals \in [Id -> {"none", "init", "up", "refused", "exit", "down"}]
         /\ cloned \subseteq Id
         /\ Stacks
         /\ NoHandle \notin Id /\ DefaultId \notin Id /\ NoHandle # DefaultId
  BY LifecycleAssumption DEF TypeOK, Stacks, NoHandle, DefaultId

\* No call goes by a handle that is not used.
LEMMA UnusedIs ==
  ASSUME TypeOK, Sound, NEW h \in Handle, Unused(h), NEW t \in Thread, NEW n
  PROVE  Untouched(t, n, h)
<1> SUFFICES ASSUME NEW u \in Thread, NEW i \in Nat, i \in DOMAIN stack[u],
                    stack[u][i].pc \in {"init", "initing", "ecall"}, stack[u][i].h = h
             PROVE  FALSE
  BY DEF Untouched
<1>1. FrameFits(stack[u][i], handle, enclave)
  BY DEF Sound
<1>2. handle[h] = NoHandle /\ NoHandle \notin Id
  BY Typed DEF Unused
<1>3. CASE stack[u][i].pc = "ecall"
  BY <1>1, <1>2, <1>3 DEF FrameFits
<1>4. CASE stack[u][i].pc # "ecall"
  BY <1>4 DEF Unused
<1> QED BY <1>3, <1>4

\* An enclave that is not there yet has nobody.
LEMMA NobodyYet ==
  ASSUME Sound, NEW id \in Id, enclave[id] = "none"
  PROVE  /\ \A h \in Handle : handle[h] # id
         /\ \A u \in Thread, i \in Nat : ~Keeps(u, i, id)
<1>1. ASSUME NEW u \in Thread, NEW i \in Nat, Keeps(u, i, id) PROVE FALSE
  <2>1. FrameFits(stack[u][i], handle, enclave)
    BY <1>1 DEF Sound, Keeps
  <2> QED BY <1>1, <2>1 DEF FrameFits, Keeps
<1> QED BY <1>1 DEF Sound

\* The stacks stay as they are.
LEMMA Still ==
  ASSUME Stacks, UNCHANGED stack, NEW t \in Thread
  PROVE  \E n \in Nat : Elsewhere(t, n) /\ n \notin DOMAIN stack[t] /\ n \notin DOMAIN stack'[t]
<1> DEFINE s == stack[t]
<1>1. s \in Seq(Frame)
  BY DEF Stacks
<1>2. Len(s) \in Nat /\ DOMAIN s = 1 .. Len(s)
  <2> HIDE DEF s
  <2> QED BY <1>1, LenProperties
<1>3. 0 \notin DOMAIN s /\ Elsewhere(t, 0)
  BY <1>2 DEF Elsewhere, SameBut
<1> QED BY <1>3

\* The call that moves on is still that of its enclave.
LEMMA MovedIs ==
  ASSUME NEW t \in Thread, NEW n, NEW pc \in Pcs, Moved(t, n, pc), Running(t, n)
  PROVE  /\ stack'[t][n].pc = pc /\ stack'[t][n].id = stack[t][n].id /\ stack'[t][n].h = stack[t][n].h
         /\ stack[t][n].id \in Id \cup {DefaultId}
<1>1. stack[t][n] \in Frame /\ stack'[t][n] = [stack[t][n] EXCEPT !.pc = pc]
  BY DEF Moved, Running
<1> QED BY <1>1 DEF Frame, Pcs

\* The running call, which keeps its enclave, goes on.
LEMMA MoveSafe ==
  ASSUME TypeOK, Safe, NEW t \in Thread, NEW n \in Nat, NEW pc \in {"initing", "exiting", "destroy"},
         Moved(t, n, pc), Running(t, n),
         stack[t][n].pc \notin {"ecall", "wait"},
         pc = "initing" => stack[t][n].pc = "init", pc = "exiting" => stack[t][n].id \in Id,
         handle' = handle, layout' = layout, cloned' = cloned,
         \A id \in Id : id # stack[t][n].id => enclave'[id] = enclave[id] /\ globals'[id] = globals[id],
         \A id \in Id : enclave'[id] = enclave[id] \/ (enclave[id] = "loaded" /\ enclave'[id] = "crashed"),
         \A id \in Id \ cloned : id = stack[t][n].id /\ Life(id) =>
           KeptAs(pc, enclave'[id], globals'[id]) /\ Ordered(id)'
  PROVE  Safe'
<1> DEFINE f == stack[t][n]
           g == stack'[t][n]
<1>1. /\ Elsewhere(t, n) /\ n \in DOMAIN stack[t] /\ n \in DOMAIN stack'[t] /\ g.pc = pc /\ g.id = f.id /\ g.h = f.h
      /\ FrameFits(f, handle, enclave)
  BY MovedIs DEF Pcs, Moved, Safe, Sound
<1>2. \A id \in Id : Keeps(t, n, id) <=> id = f.id
  BY <1>1 DEF Keeps
<1>3. \A id \in Id : Keeps(t, n, id)' <=> id = f.id
  BY <1>1 DEF Keeps
<1>4. Sound'
  <2>1. FrameFits(g, handle', enclave')
    BY <1>1 DEF FrameFits
  <2>2. pc = "initing" => Creating(t, n)
    BY <1>1 DEF Creating
  <2>3. g.pc \in {"init", "initing"} =>
          \A u \in Thread, i \in Nat : Creating(u, i) /\ stack[u][i].h = g.h => u = t /\ i = n
    BY <1>1, <2>2 DEF Safe, Sound
  <2>4. Sound
    BY DEF Safe
  <2>5. \A h \in Handle : handle'[h] \in Id => enclave'[handle'[h]] # "none"
    BY <2>4 DEF Sound
  <2> HIDE DEF f, g
  <2> QED BY <1>1, <2>1, <2>3, <2>4, <2>5, SoundStep DEF g
<1>5. ASSUME NEW id \in Id PROVE Kept(id)'
  <2>1. Kept(id)
    BY DEF Safe
  <2> QED BY <1>1, <1>2, <1>3, <2>1, KeptStep
<1>6. ASSUME NEW id \in Id \ cloned' PROVE Life(id)'
  <2>1. Life(id)
    BY DEF Safe
  <2>2. CASE id = f.id
    <3>1. \A u \in Thread, i \in Nat : Keeps(u, i, id) => u = t /\ i = n
      BY <1>2, <2>1, <2>2 DEF Life
    <3>2. \A h \in Handle : handle'[h] # id
      BY <1>2, <2>1, <2>2 DEF Life
    <3>3. KeptAs(g.pc, enclave'[id], globals'[id]) /\ Ordered(id)'
      BY <1>1, <2>1, <2>2
    <3> QED BY <1>1, <3>1, <3>2, <3>3, LifeInCall
  <2>3. CASE id # f.id
    BY <1>1, <1>2, <1>3, <2>1, <2>3, LifeElsewhere
  <2> QED BY <2>2, <2>3
<1> QED BY <1>4, <1>5, <1>6 DEF Safe

\* What the step that ends a create does to the enclave of its frame f.
Filling(f) ==
  \A id \in Id :
    id = f.id /\ KeptAs(f.pc, enclave[id], globals[id]) /\ Ordered(id) =>
      /\ enclave'[id] \in {"loaded", "crashed"}
      /\ globals'[id] \in {"up", "refused", "down"}
      /\ Ordered(id)'

\* A create that is under way gives its enclave to its handle.
LEMMA FillSafe ==
  ASSUME TypeOK, Safe, NEW t \in Thread, NEW n \in Nat, Popped(t, n), Running(t, n),
         stack[t][n].pc \in {"init", "initing"},
         handle' = [handle EXCEPT ![stack[t][n].h] = stack[t][n].id],
         layout' = layout, cloned' = cloned,
         \A id \in Id : id # stack[t][n].id => enclave'[id] = enclave[id] /\ globals'[id] = globals[id],
         \A id \in Id : enclave'[id] = enclave[id] \/ (enclave[id] = "loaded" /\ enclave'[id] = "crashed"),
         Filling(stack[t][n])
  PROVE  Safe'
<1> DEFINE f == stack[t][n]
<1>1. /\ Elsewhere(t, n) /\ n \in DOMAIN stack[t] /\ n \notin DOMAIN stack'[t]
      /\ FrameFits(f, handle, enclave)
  BY DEF Popped, Safe, Sound
<1>2. f.id \in Id /\ f.h \in Handle /\ handle[f.h] = NoHandle /\ enclave[f.id] # "none"
  BY <1>1 DEF FrameFits
<1>3. handle \in [Handle -> Id \cup {NoHandle, DefaultId}] /\ NoHandle \notin Id
  BY Typed
<1>4. /\ handle'[f.h] = f.id
      /\ \A h \in Handle : h # f.h => handle'[h] = handle[h]
  BY <1>2, <1>3
<1>5. \A id \in Id : ~Keeps(t, n, id)' /\ (Keeps(t, n, id) <=> id = f.id)
  BY <1>1 DEF Keeps
<1>6. Sound'
  <2>1. Sound /\ Creating(t, n)
    BY <1>1 DEF Safe, Creating
  <2>2. \A h \in Handle : handle'[h] = handle[h] \/ Untouched(t, n, h)
    <3>1. ASSUME NEW u \in Thread, NEW i \in Nat, i \in DOMAIN stack[u],
                 stack[u][i].pc \in {"init", "initing", "ecall"}, stack[u][i].h = f.h
          PROVE  u = t /\ i = n
      <4>1. FrameFits(stack[u][i], handle, enclave)
        BY <2>1, <3>1 DEF Sound
      <4>2. stack[u][i].pc # "ecall"
        BY <1>2, <1>3, <3>1, <4>1 DEF FrameFits
      <4>3. Creating(u, i)
        BY <3>1, <4>2 DEF Creating
      <4> QED BY <2>1, <3>1, <4>3 DEF Sound
    <3>2. Untouched(t, n, f.h)
      BY <3>1 DEF Untouched
    <3> QED BY <1>4, <3>2
  <2>3. \A h \in Handle : handle'[h] \in Id => enclave'[handle'[h]] # "none"
    <3>1. \A id \in Id : enclave[id] # "none" => enclave'[id] # "none"
      OBVIOUS
    <3>2. ASSUME NEW h \in Handle, handle'[h] \in Id PROVE enclave[handle'[h]] # "none"
      BY <1>2, <1>4, <2>1, <3>2 DEF Sound
    <3> QED BY <3>1, <3>2
  <2> QED BY <1>1, <2>1, <2>2, <2>3, SoundStep
<1>7. ASSUME NEW id \in Id PROVE Kept(id)'
  <2>1. Kept(id)
    BY DEF Safe
  <2>2. \A h \in Handle : handle[h] = id => handle'[h] = id
    BY <1>2, <1>3, <1>4
  <2>3. Keeps(t, n, id) => stack[t][n].pc # "wait" /\ \E h \in Handle : handle'[h] = id
    BY <1>2, <1>4, <1>5
  <2> QED BY <1>1, <2>1, <2>2, <2>3, KeptStep
<1>8. ASSUME NEW id \in Id \ cloned' PROVE Life(id)'
  <2>1. Life(id)
    BY DEF Safe
  <2>2. CASE id = f.id
    <3>1. Keeps(t, n, id)
      BY <1>5, <2>2
    <3>2. \A u \in Thread, i \in Nat : Keeps(u, i, id) => u = t /\ i = n
      BY <2>1, <3>1 DEF Life
    <3>3. \A h \in Handle : handle[h] # id
      BY <2>1, <3>1 DEF Life
    <3>4. KeptAs(f.pc, enclave[id], globals[id]) /\ Ordered(id)
      BY <2>1, <3>1 DEF Life
    <3>5. /\ enclave'[id] \in {"loaded", "crashed"} /\ globals'[id] \in {"up", "refused", "down"}
          /\ Ordered(id)'
      BY <2>2, <3>4 DEF Filling
    <3>6. \A h, g \in Handle : handle'[h] = id /\ handle'[g] = id => h = g
      BY <1>4, <3>3
    <3> QED BY <1>1, <1>5, <3>2, <3>5, <3>6, LifeInHandle
  <2>3. CASE id # f.id
    <3>1. \A h \in Handle : handle'[h] = id <=> handle[h] = id
      BY <1>2, <1>3, <1>4, <2>3
    <3> QED BY <1>1, <1>5, <2>1, <2>3, <3>1, LifeElsewhere
  <2> QED BY <2>2, <2>3
<1> QED BY <1>6, <1>7, <1>8 DEF Safe

\* A step that has to do with no enclave in particular, or with cloned ones.
LEMMA QuietSafe ==
  ASSUME Safe, Sound', NEW t \in Thread, NEW n \in Nat, Elsewhere(t, n),
         enclave' = enclave, globals' = globals, layout' = layout, cloned \subseteq cloned',
         \A h \in Handle : handle[h] \in Id => handle'[h] = handle[h],
         \A h \in Handle : handle'[h] \in Id \ cloned' => handle[h] = handle'[h],
         \A id \in Id : ~Keeps(t, n, id) /\ ~Keeps(t, n, id)'
  PROVE  Safe'
<1>1. ASSUME NEW id \in Id PROVE Kept(id)'
  <2>1. Kept(id)
    BY DEF Safe
  <2> QED BY <2>1, KeptStep
<1>2. ASSUME NEW id \in Id \ cloned' PROVE Life(id)'
  <2>1. Life(id)
    BY DEF Safe
  <2>2. \A h \in Handle : handle'[h] = id <=> handle[h] = id
    OBVIOUS
  <2> QED BY <2>1, <2>2, LifeElsewhere
<1> QED BY <1>1, <1>2 DEF Safe

\* create: the new enclave is kept by the call that makes it.
LEMMA CreateSafe ==
  ASSUME TypeOK, Safe, NEW t \in Thread, NEW h \in Handle, create(t, h)
  PROVE  Safe'
<1>1. PICK id \in Id : rsgx_create_enclave(id) /\ Push(t, [pc |-> "init", id |-> id, h |-> h])
  BY DEF create
<1> DEFINE f == [pc |-> "init", id |-> id, h |-> h]
<1>2. f \in Frame /\ Stacks /\ f.pc = "init" /\ f.id = id /\ f.h = h
  BY Typed DEF Frame
<1>3. PICK n \in Nat : Pushed(t, n, f)
  <2> HIDE DEF f
  <2> QED BY <1>1, <1>2, PushForm DEF f
<1> HIDE DEF f
<1>4. /\ Elsewhere(t, n) /\ n \notin DOMAIN stack[t] /\ n \in DOMAIN stack'[t] /\ stack'[t][n] = f
      /\ handle' = handle /\ globals' = globals /\ layout' = layout /\ cloned' = cloned
      /\ Unused(h) /\ handle[h] = NoHandle
  BY <1>3 DEF Pushed, create, Unused
<1>5. /\ enclave[id] = "none" /\ enclave'[id] = "loaded"
      /\ \A other \in Id : other # id => enclave'[other] = enclave[other]
  BY <1>1, Typed DEF rsgx_create_enclave
<1>6. Sound
  BY DEF Safe
<1>7. (\A g \in Handle : handle[g] # id) /\ \A u \in Thread, i \in Nat : ~Keeps(u, i, id)
  BY <1>5, <1>6, NobodyYet
<1>8. \A other \in Id : ~Keeps(t, n, other) /\ (Keeps(t, n, other)' <=> other = id)
  BY <1>2, <1>4 DEF Keeps
<1>9. Sound'
  <2>1. FrameFits(stack'[t][n], handle', enclave')
    BY <1>2, <1>4, <1>5 DEF FrameFits
  <2>2. \A u \in Thread, i \in Nat : Creating(u, i) /\ stack[u][i].h = stack'[t][n].h => u = t /\ i = n
    <3>1. Untouched(t, n, h)
      BY <1>4, <1>6, UnusedIs
    <3> QED BY <1>2, <1>4, <3>1 DEF Untouched, Creating
  <2>3. \A g \in Handle : handle'[g] \in Id => enclave'[handle'[g]] # "none"
    BY <1>4, <1>5, <1>6 DEF Sound
  <2>4. \A g \in Handle : handle'[g] = handle[g]
    BY <1>4
  <2> QED BY <1>4, <1>5, <1>6, <2>1, <2>2, <2>3, <2>4, SoundStep
<1>10. ASSUME NEW other \in Id PROVE Kept(other)'
  <2>1. CASE other = id
    BY <1>5, <1>8, <2>1 DEF Kept
  <2>2. CASE other # id
    <3>1. Kept(other)
      BY DEF Safe
    <3> QED BY <1>4, <1>5, <1>8, <2>2, <3>1, KeptStep
  <2> QED BY <2>1, <2>2
<1>11. ASSUME NEW other \in Id \ cloned' PROVE Life(other)'
  <2>1. Life(other)
    BY <1>4 DEF Safe
  <2>2. CASE other = id
    <3>1. globals[id] = "none"
      BY <1>5, <2>1, <2>2 DEF Life, Ordered
    <3>2. KeptAs(stack'[t][n].pc, enclave'[id], globals'[id]) /\ Ordered(id)'
      BY <1>2, <1>4, <1>5, <3>1 DEF KeptAs, Ordered
    <3> QED BY <1>4, <1>7, <2>2, <3>2, LifeInCall
  <2>3. CASE other # id
    BY <1>4, <1>5, <1>8, <2>1, <2>3, LifeElsewhere
  <2> QED BY <2>2, <2>3
<1> QED BY <1>9, <1>10, <1>11 DEF Safe

\* init: the first that enters the enclave, so it has a TCS.
LEMMA InitSafe ==
  ASSUME TypeOK, Safe, NEW t \in Thread, init(t)
  PROVE  Safe'
<1>1. PICK n \in Nat : Moved(t, n, "initing") /\ Running(t, n)
  BY Typed, GotoForm DEF init, Top, Pcs
<1> DEFINE f == stack[t][n]
<1>2. /\ f.pc = "init" /\ f.id \in Id /\ enclave[f.id] = "loaded" /\ TcsFree(t, f.id)
      /\ globals' = [globals EXCEPT ![f.id] = "init"]
      /\ UNCHANGED <<layout, handle, enclave, cloned>>
  BY <1>1 DEF Running, init, Top, MayEnter
<1>3. Keeps(t, n, f.id)
  BY <1>1, <1>2 DEF Keeps, Running
<1>4. ASSUME NEW id \in Id \ cloned, id = f.id, Life(id)
      PROVE  KeptAs("initing", enclave'[id], globals'[id]) /\ Ordered(id)'
  <2>1. 0 < TcsLoaded(Pages[layout])
    BY <1>2, <1>3, <1>4, NobodyInside, Typed DEF Safe, InsidePc
  <2>2. globals'[id] = "init" /\ enclave'[id] = "loaded"
    BY <1>2, <1>4, Typed
  <2> QED BY <1>2, <2>1, <2>2 DEF KeptAs, Ordered
<1>5. \A id \in Id : id # f.id => globals'[id] = globals[id]
  BY <1>2, Typed
<1> QED BY <1>1, <1>2, <1>4, <1>5, MoveSafe

\* init_refused: the handle takes over an enclave that was never initialised.
LEMMA InitRefusedSafe ==
  ASSUME TypeOK, Safe, NEW t \in Thread, init_refused(t)
  PROVE  Safe'
<1>1. PICK n \in Nat : Popped(t, n) /\ Running(t, n)
  BY Typed, PopForm DEF init_refused, HandleReturned, Top
<1> DEFINE f == stack[t][n]
<1>2. /\ f.pc = "init"
      /\ handle' = [handle EXCEPT ![f.h] = f.id]
      /\ globals' = [globals EXCEPT ![f.id] = IF @ = "none" THEN "refused" ELSE @]
      /\ UNCHANGED <<layout, enclave, cloned>>
  BY <1>1 DEF Running, init_refused, HandleReturned, Top
<1>3. \A id \in Id : globals'[id] = IF id = f.id /\ globals[id] = "none" THEN "refused" ELSE globals[id]
  BY <1>2, Typed
<1>4. Filling(f)
  BY <1>2, <1>3 DEF Filling, KeptAs, Lost, Ordered
<1>5. /\ \A id \in Id : id # f.id => enclave'[id] = enclave[id] /\ globals'[id] = globals[id]
      /\ \A id \in Id : enclave'[id] = enclave[id] \/ (enclave[id] = "loaded" /\ enclave'[id] = "crashed")
  BY <1>2, <1>3
<1>6. /\ f.pc \in {"init", "initing"} /\ layout' = layout /\ cloned' = cloned
      /\ handle' = [handle EXCEPT ![f.h] = f.id]
  BY <1>2
<1> QED BY <1>1, <1>4, <1>5, <1>6, FillSafe

\* create_returns: the handle takes over.
LEMMA CreateReturnsSafe ==
  ASSUME TypeOK, Safe, NEW t \in Thread, create_returns(t)
  PROVE  Safe'
<1>1. PICK n \in Nat : Popped(t, n) /\ Running(t, n)
  BY Typed, PopForm DEF create_returns, HandleReturned, Top
<1> DEFINE f == stack[t][n]
<1>2. /\ f.pc = "initing"
      /\ handle' = [handle EXCEPT ![f.h] = f.id]
      /\ globals' = [globals EXCEPT ![f.id] = IF @ = "init" THEN "up" ELSE @]
      /\ UNCHANGED <<layout, enclave, cloned>>
  BY <1>1 DEF Running, create_returns, HandleReturned, Top
<1>3. \A id \in Id : globals'[id] = IF id = f.id /\ globals[id] = "init" THEN "up" ELSE globals[id]
  BY <1>2, Typed
<1>4. Filling(f)
  BY <1>2, <1>3 DEF Filling, KeptAs, Lost, Ordered
<1>5. /\ \A id \in Id : id # f.id => enclave'[id] = enclave[id] /\ globals'[id] = globals[id]
      /\ \A id \in Id : enclave'[id] = enclave[id] \/ (enclave[id] = "loaded" /\ enclave'[id] = "crashed")
  BY <1>2, <1>3
<1>6. /\ f.pc \in {"init", "initing"} /\ layout' = layout /\ cloned' = cloned
      /\ handle' = [handle EXCEPT ![f.h] = f.id]
  BY <1>2
<1> QED BY <1>1, <1>4, <1>5, <1>6, FillSafe

\* register and unregister leave all this alone.
LEMMA StillSafe ==
  ASSUME TypeOK, Safe, NEW t \in Thread,
         UNCHANGED <<layout, handle, enclave, globals, cloned, stack>>
  PROVE  Safe'
<1>1. PICK n \in Nat : Elsewhere(t, n) /\ n \notin DOMAIN stack[t] /\ n \notin DOMAIN stack'[t]
  BY Typed, Still
<1>2. \A id \in Id : ~Keeps(t, n, id) /\ ~Keeps(t, n, id)'
  BY <1>1 DEF Keeps
<1>3. Sound'
  <2>1. Sound
    BY DEF Safe
  <2>2. \A h \in Handle : handle'[h] \in Id => enclave'[handle'[h]] # "none"
    BY <2>1 DEF Sound
  <2> QED BY <1>1, <2>1, <2>2, SoundStep
<1> QED BY <1>1, <1>2, <1>3, QuietSafe

\* default() and clone() fill a handle that nobody uses.
LEMMA NewHandleSafe ==
  ASSUME TypeOK, Safe, NEW t \in Thread, NEW h \in Handle, Unused(h), NEW id,
         handle' = [handle EXCEPT ![h] = id],
         id = DefaultId \/ ((\E of \in Handle : handle[of] = id) /\ cloned' = cloned \cup ({id} \cap Id)),
         cloned \subseteq cloned', UNCHANGED <<layout, enclave, globals, stack>>
  PROVE  Safe'
<1>1. PICK n \in Nat : Elsewhere(t, n) /\ n \notin DOMAIN stack[t] /\ n \notin DOMAIN stack'[t]
  BY Typed, Still
<1>2. \A other \in Id : ~Keeps(t, n, other) /\ ~Keeps(t, n, other)'
  BY <1>1 DEF Keeps
<1>3. /\ handle[h] = NoHandle /\ handle[h] \notin Id /\ handle'[h] = id
      /\ \A g \in Handle : g # h => handle'[g] = handle[g]
  BY Typed DEF Unused
<1>4. Sound'
  <2>1. Sound
    BY DEF Safe
  <2>2. \A g \in Handle : handle'[g] \in Id => enclave'[handle'[g]] # "none"
    BY <1>3, <2>1, Typed DEF Sound
  <2>3. \A g \in Handle : handle'[g] = handle[g] \/ Untouched(t, n, g)
    BY <1>3, <2>1, UnusedIs
  <2> QED BY <1>1, <2>1, <2>2, <2>3, SoundStep
<1>5. \A g \in Handle : handle[g] \in Id => handle'[g] = handle[g]
  BY <1>3
<1>6. \A g \in Handle : handle'[g] \in Id \ cloned' => handle[g] = handle'[g]
  BY <1>3, Typed
<1> QED BY <1>1, <1>2, <1>4, <1>5, <1>6, QuietSafe

\* ecall: the handle is borrowed.
LEMMA EcallSafe ==
  ASSUME TypeOK, Safe, NEW t \in Thread, NEW h \in Handle, ecall(t, h)
  PROVE  Safe'
<1> DEFINE f == [pc |-> "ecall", id |-> handle[h], h |-> h]
<1>1. handle[h] \in Id /\ enclave[handle[h]] = "loaded"
  BY DEF ecall, MayEnter
<1>2. f \in Frame /\ f.pc = "ecall" /\ f.id = handle[h] /\ f.h = h
  BY <1>1 DEF Frame
<1>3. Push(t, f) /\ UNCHANGED <<layout, handle, enclave, globals, cloned>>
  BY DEF ecall
<1> HIDE DEF f
<1>4. PICK n \in Nat : Pushed(t, n, f)
  BY <1>2, <1>3, PushForm, Typed
<1>5. /\ Elsewhere(t, n) /\ n \notin DOMAIN stack[t] /\ stack'[t][n] = f
  BY <1>4 DEF Pushed
<1>6. \A id \in Id : ~Keeps(t, n, id) /\ ~Keeps(t, n, id)'
  BY <1>2, <1>5 DEF Keeps
<1>7. Sound'
  <2>1. Sound
    BY DEF Safe
  <2>2. \A g \in Handle : handle'[g] \in Id => enclave'[handle'[g]] # "none"
    BY <1>3, <2>1 DEF Sound
  <2>3. FrameFits(f, handle', enclave')
    BY <1>1, <1>2, <1>3 DEF FrameFits
  <2>4. \A g \in Handle : handle'[g] = handle[g]
    BY <1>3
  <2> QED BY <1>2, <1>3, <1>5, <2>1, <2>2, <2>3, <2>4, SoundStep
<1> QED BY <1>3, <1>5, <1>6, <1>7, QuietSafe

\* ecall_returns: the handle is given back.
LEMMA EcallReturnsSafe ==
  ASSUME TypeOK, Safe, NEW t \in Thread, ecall_returns(t)
  PROVE  Safe'
<1>1. PICK n \in Nat : Popped(t, n) /\ Running(t, n)
  BY Typed, PopForm DEF ecall_returns, Top
<1>2. /\ stack[t][n].pc = "ecall" /\ UNCHANGED <<layout, handle, enclave, globals, cloned>>
      /\ Elsewhere(t, n) /\ n \notin DOMAIN stack'[t]
  BY <1>1 DEF Running, ecall_returns, Top, Popped
<1>3. \A id \in Id : ~Keeps(t, n, id) /\ ~Keeps(t, n, id)'
  BY <1>2 DEF Keeps
<1>4. Sound'
  <2>1. Sound
    BY DEF Safe
  <2>2. \A g \in Handle : handle'[g] \in Id => enclave'[handle'[g]] # "none"
    BY <1>2, <2>1 DEF Sound
  <2>3. \A g \in Handle : handle'[g] = handle[g]
    BY <1>2
  <2> QED BY <1>2, <2>1, <2>2, <2>3, SoundStep
<1> QED BY <1>2, <1>3, <1>4, QuietSafe

\* rsgx_abort: in create the handle takes over, in drop the call goes on.
LEMMA AbortSafe ==
  ASSUME TypeOK, Safe, NEW t \in Thread, rsgx_abort(t)
  PROVE  Safe'
<1> DEFINE last == Last(stack[t])
<1>0. /\ stack[t] # << >> /\ last.pc \in InsidePc
      /\ enclave' = [enclave EXCEPT ![last.id] = IF @ = "loaded" THEN "crashed" ELSE @]
      /\ globals' = [globals EXCEPT ![last.id] = "down"]
      /\ handle' = IF last.pc = "initing" THEN [handle EXCEPT ![last.h] = last.id] ELSE handle
      /\ IF last.pc = "exiting" THEN Goto(t, "destroy") ELSE Pop(t)
      /\ layout' = layout /\ cloned' = cloned
  BY DEF rsgx_abort
<1>1. /\ \A id \in Id : id # last.id => enclave'[id] = enclave[id] /\ globals'[id] = globals[id]
      /\ \A id \in Id : enclave'[id] = enclave[id] \/ (enclave[id] = "loaded" /\ enclave'[id] = "crashed")
      /\ \A id \in Id : id = last.id => globals'[id] = "down" /\ enclave'[id] # "loaded"
  BY <1>0, Typed
<1>2. CASE last.pc = "initing"
  <2>1. PICK n \in Nat : Popped(t, n) /\ Running(t, n)
    BY <1>0, <1>2, Typed, PopForm
  <2>2. last = stack[t][n]
    BY <2>1 DEF Running
  <2> HIDE DEF last
  <2> DEFINE f == stack[t][n]
  <2>3. /\ f.pc = "initing" /\ handle' = [handle EXCEPT ![f.h] = f.id]
        /\ \A id \in Id : id # f.id => enclave'[id] = enclave[id] /\ globals'[id] = globals[id]
        /\ \A id \in Id : id = f.id => globals'[id] = "down"
    BY <1>0, <1>1, <1>2, <2>2
  <2>4. Filling(f)
    BY <1>1, <2>3 DEF Filling, KeptAs, Lost, Ordered
  <2> QED BY <1>0, <1>1, <2>1, <2>3, <2>4, FillSafe
<1>3. CASE last.pc = "exiting"
  <2>1. PICK n \in Nat : Moved(t, n, "destroy") /\ Running(t, n)
    BY <1>0, <1>3, Typed, GotoForm DEF Pcs
  <2>2. last = stack[t][n]
    BY <2>1 DEF Running
  <2> HIDE DEF last
  <2>3. ASSUME NEW id \in Id \ cloned, id = last.id, Life(id)
        PROVE  KeptAs("destroy", enclave'[id], globals'[id]) /\ Ordered(id)'
    <3>1. Keeps(t, n, id)
      BY <1>3, <2>1, <2>2, <2>3 DEF Keeps, Running
    <3>2. KeptAs("exiting", enclave[id], globals[id]) /\ Ordered(id)
      BY <1>3, <2>2, <2>3, <3>1 DEF Life
    <3> QED BY <1>0, <1>1, <2>3, <3>2 DEF KeptAs, Lost, Ordered
  <2> QED BY <1>0, <1>1, <1>3, <2>1, <2>2, <2>3, MoveSafe
<1>4. CASE last.pc = "ecall"
  <2>1. PICK n \in Nat : Popped(t, n) /\ Running(t, n)
    BY <1>0, <1>4, Typed, PopForm
  <2>2. last = stack[t][n] /\ Elsewhere(t, n) /\ n \in DOMAIN stack[t] /\ n \notin DOMAIN stack'[t]
    BY <2>1 DEF Running, Popped
  <2> HIDE DEF last
  <2>3. \A id \in Id : ~Keeps(t, n, id) /\ ~Keeps(t, n, id)'
    BY <1>4, <2>2 DEF Keeps
  <2>4. FrameFits(last, handle, enclave) /\ Sound
    BY <2>2 DEF Safe, Sound
  <2>5. Sound'
    <3>1. \A g \in Handle : handle'[g] \in Id => enclave'[handle'[g]] # "none"
      <4>1. \A id \in Id : enclave[id] # "none" => enclave'[id] # "none"
        BY <1>1
      <4> QED BY <1>0, <1>4, <2>4, <4>1 DEF Sound
    <3>2. \A g \in Handle : handle'[g] = handle[g]
      BY <1>0, <1>4
    <3> QED BY <1>1, <2>2, <2>4, <3>1, <3>2, SoundStep
  <2>6. ASSUME NEW id \in Id PROVE Kept(id)'
    <3>1. Kept(id)
      BY DEF Safe
    <3> QED BY <1>0, <1>1, <1>4, <2>2, <2>3, <3>1, KeptStep
  <2>7. ASSUME NEW id \in Id \ cloned' PROVE Life(id)'
    <3>1. Life(id)
      BY <1>0 DEF Safe
    <3>2. CASE id = last.id
      <4>1. last.h \in Handle /\ handle[last.h] = id
        BY <1>4, <2>4, <3>2 DEF FrameFits
      <4>2. \A u \in Thread, i \in Nat : ~Keeps(u, i, id)
        BY <3>1, <4>1 DEF Life
      <4>3. /\ enclave[id] \in {"loaded", "crashed"} /\ globals[id] \in {"up", "refused", "down"} /\ Ordered(id)
            /\ \A h, g \in Handle : handle[h] = id /\ handle[g] = id => h = g
        BY <3>1, <4>1 DEF Life
      <4>4. enclave'[id] \in {"loaded", "crashed"} /\ globals'[id] \in {"up", "refused", "down"} /\ Ordered(id)'
        BY <1>0, <1>1, <3>2, <4>3 DEF Ordered
      <4>5. \A h, g \in Handle : handle'[h] = id /\ handle'[g] = id => h = g
        BY <1>0, <1>4, <4>3
      <4> QED BY <2>2, <2>3, <4>2, <4>4, <4>5, LifeInHandle
    <3>3. CASE id # last.id
      <4>1. \A h \in Handle : handle'[h] = id <=> handle[h] = id
        BY <1>0, <1>4
      <4> QED BY <1>0, <1>1, <2>2, <2>3, <3>1, <3>3, <4>1, LifeElsewhere
    <3> QED BY <3>2, <3>3
  <2> QED BY <2>5, <2>6, <2>7 DEF Safe
<1> QED BY <1>0, <1>2, <1>3, <1>4 DEF InsidePc

\* drop: the call takes over from the handle.
LEMMA DropSafe ==
  ASSUME TypeOK, Safe, NEW t \in Thread, NEW h \in Handle, drop(t, h)
  PROVE  Safe'
<1> DEFINE f == [pc |-> "drop", id |-> handle[h], h |-> NoHandle]
<1>1. handle[h] \in Id \cup {DefaultId} /\ Owned(h)
  BY Typed DEF drop, Owned
<1>2. f \in Frame /\ f.pc = "drop" /\ f.id = handle[h]
  BY <1>1 DEF Frame
<1>3. /\ Push(t, f) /\ handle' = [handle EXCEPT ![h] = NoHandle]
      /\ UNCHANGED <<layout, enclave, globals, cloned>>
  BY DEF drop
<1> HIDE DEF f
<1>4. PICK n \in Nat : Pushed(t, n, f)
  BY <1>2, <1>3, PushForm, Typed
<1>5. Elsewhere(t, n) /\ n \notin DOMAIN stack[t] /\ n \in DOMAIN stack'[t] /\ stack'[t][n] = f
  BY <1>4 DEF Pushed
<1>6. \A id \in Id : ~Keeps(t, n, id) /\ (Keeps(t, n, id)' <=> id = handle[h])
  BY <1>2, <1>5 DEF Keeps
<1>7. /\ handle'[h] = NoHandle /\ NoHandle \notin Id
      /\ \A g \in Handle : g # h => handle'[g] = handle[g]
  BY <1>3, Typed
<1>8. Sound
  BY DEF Safe
<1>9. Sound'
  <2>1. \A g \in Handle : handle'[g] \in Id => enclave'[handle'[g]] # "none"
    BY <1>3, <1>7, <1>8 DEF Sound
  <2>2. FrameFits(f, handle', enclave')
    BY <1>2, <1>3, <1>8 DEF FrameFits, Sound
  <2>3. \A g \in Handle : handle'[g] = handle[g] \/ Untouched(t, n, g)
    <3>1. ASSUME NEW u \in Thread, NEW i \in Nat, i \in DOMAIN stack[u],
                 stack[u][i].pc \in {"init", "initing", "ecall"}, stack[u][i].h = h
          PROVE  handle'[h] = handle[h]
      <4>1. FrameFits(stack[u][i], handle, enclave)
        BY <1>8, <3>1 DEF Sound
      <4>2. stack[u][i].pc # "ecall"
        BY <1>1, <3>1 DEF Owned
      <4> QED BY <1>7, <3>1, <4>1, <4>2 DEF FrameFits
    <3> QED BY <1>7, <3>1 DEF Untouched
  <2> QED BY <1>2, <1>3, <1>5, <1>8, <2>1, <2>2, <2>3, SoundStep
<1>10. ASSUME NEW id \in Id PROVE Kept(id)'
  <2>1. Kept(id)
    BY DEF Safe
  <2>2. \A g \in Handle : handle[g] = id => handle'[g] = id \/ Keeps(t, n, id)'
    BY <1>6, <1>7
  <2> QED BY <1>3, <1>5, <1>6, <2>1, <2>2, KeptStep
<1>11. ASSUME NEW id \in Id \ cloned' PROVE Life(id)'
  <2>1. Life(id)
    BY <1>3 DEF Safe
  <2>2. CASE id = handle[h]
    <3>1. \A u \in Thread, i \in Nat : ~Keeps(u, i, id)
      BY <2>1, <2>2 DEF Life
    <3>2. \A g \in Handle : handle'[g] # id
      BY <1>7, <2>1, <2>2 DEF Life
    <3>3. enclave[id] \in {"loaded", "crashed"} /\ globals[id] \in {"up", "refused", "down"} /\ Ordered(id)
      BY <2>1, <2>2 DEF Life
    <3>4. KeptAs("drop", enclave'[id], globals'[id]) /\ Ordered(id)'
      BY <1>3, <3>3 DEF KeptAs, Ordered
    <3> QED BY <1>2, <1>5, <3>1, <3>2, <3>4, LifeInCall
  <2>3. CASE id # handle[h]
    <3>1. \A g \in Handle : handle'[g] = id <=> handle[g] = id
      BY <1>7, <2>3
    <3> QED BY <1>3, <1>5, <1>6, <2>1, <2>3, <3>1, LifeElsewhere
  <2> QED BY <2>2, <2>3
<1> QED BY <1>9, <1>10, <1>11 DEF Safe

\* exit: the drop goes on inside.
LEMMA ExitSafe ==
  ASSUME TypeOK, Safe, NEW t \in Thread, exit(t)
  PROVE  Safe'
<1>1. PICK n \in Nat : Moved(t, n, "exiting") /\ Running(t, n)
  BY Typed, GotoForm DEF exit, Top, Pcs
<1> DEFINE f == stack[t][n]
<1>2. /\ f.pc = "drop" /\ f.id \in Id /\ enclave[f.id] = "loaded"
      /\ globals' = [globals EXCEPT ![f.id] = "exit"]
      /\ TcsFree(t, f.id) /\ UNCHANGED <<layout, handle, enclave, cloned>>
  BY <1>1 DEF Running, exit, Top, MayEnter
<1>3. Keeps(t, n, f.id)
  BY <1>1, <1>2 DEF Keeps, Running
<1>4. ASSUME NEW id \in Id \ cloned, id = f.id, Life(id)
      PROVE  KeptAs("exiting", enclave'[id], globals'[id]) /\ Ordered(id)'
  <2>1. KeptAs("drop", enclave[id], globals[id]) /\ Ordered(id)
    BY <1>2, <1>3, <1>4 DEF Life
  <2>2. globals'[id] = "exit" /\ enclave'[id] = "loaded"
    BY <1>2, <1>4, Typed
  <2>3. 0 < TcsLoaded(Pages[layout])
    BY <1>2, <1>3, <1>4, NobodyInside, Typed DEF Safe, InsidePc
  <2> QED BY <1>2, <2>1, <2>2, <2>3 DEF KeptAs, Ordered
<1>5. \A id \in Id : id # f.id => globals'[id] = globals[id]
  BY <1>2, Typed
<1> QED BY <1>1, <1>2, <1>4, <1>5, MoveSafe

\* The exit of an enclave that is up and there is not refused, unless a clone of the
\* handle is in use.
LEMMA ExitRefusedSafe ==
  ASSUME TypeOK, Safe, NEW t \in Thread, exit_refused(t)
  PROVE  Safe'
<1>1. PICK n \in Nat : Moved(t, n, "destroy") /\ Running(t, n)
  BY Typed, GotoForm DEF exit_refused, Top, Pcs
<1> DEFINE f == stack[t][n]
<1>2. /\ f.pc = "drop" /\ MayBeRefused(t, f.id)
      /\ UNCHANGED <<layout, handle, enclave, globals, cloned>>
  BY <1>1 DEF Running, exit_refused, Top
<1>3. Keeps(t, n, f.id)
  BY <1>1, <1>2 DEF Keeps, Running
<1>4. ASSUME NEW id \in Id \ cloned, id = f.id, Life(id)
      PROVE  KeptAs("destroy", enclave'[id], globals'[id]) /\ Ordered(id)'
  <2>1. KeptAs("drop", enclave[id], globals[id]) /\ Ordered(id)
    BY <1>2, <1>3, <1>4 DEF Life
  <2>2. ~Inside(t, id) /\ (TcsFree(t, id) <=> 0 < TcsLoaded(Pages[layout]))
    BY <1>2, <1>3, <1>4, NobodyInside, Typed DEF Safe, InsidePc
  <2>3. globals[id] # "up"
    BY <1>2, <1>4, <2>1, <2>2 DEF MayBeRefused, MayEnter, KeptAs, Ordered
  <2> QED BY <1>2, <2>1, <2>3 DEF KeptAs, Ordered
<1> QED BY <1>1, <1>2, <1>4, MoveSafe

\* exit_returns: and comes back.
LEMMA ExitReturnsSafe ==
  ASSUME TypeOK, Safe, NEW t \in Thread, exit_returns(t)
  PROVE  Safe'
<1>1. PICK n \in Nat : Moved(t, n, "destroy") /\ Running(t, n)
  BY Typed, GotoForm DEF exit_returns, Top, Pcs
<1> DEFINE f == stack[t][n]
<1>2. f.pc = "exiting" /\ UNCHANGED <<layout, handle, enclave, globals, cloned>>
  BY <1>1 DEF Running, exit_returns, Top
<1>3. Keeps(t, n, f.id)
  BY <1>1, <1>2 DEF Keeps, Running
<1>4. ASSUME NEW id \in Id \ cloned, id = f.id, Life(id)
      PROVE  KeptAs("destroy", enclave'[id], globals'[id]) /\ Ordered(id)'
  <2>1. KeptAs("exiting", enclave[id], globals[id]) /\ Ordered(id)
    BY <1>2, <1>3, <1>4 DEF Life
  <2> QED BY <1>2, <2>1 DEF KeptAs, Lost, Ordered
<1> QED BY <1>1, <1>2, <1>4, MoveSafe

\* The enclave is taken out of use, or somebody else did that before.
LEMMA DestroySafe ==
  ASSUME TypeOK, Safe, NEW t \in Thread, rsgx_destroy_enclave(t)
  PROVE  Safe'
<1> DEFINE last == Last(stack[t])
<1>0. stack[t] # << >> /\ last.pc = "destroy" /\ UNCHANGED <<layout, handle, globals, cloned>>
  BY DEF rsgx_destroy_enclave, Top
<1>1. Sound
  BY DEF Safe
<1>2. CASE last.id \in Id /\ enclave[last.id] \in {"loaded", "crashed"}
  <2>1. enclave' = [enclave EXCEPT ![last.id] = "closing"] /\ Goto(t, "wait")
    BY <1>2 DEF rsgx_destroy_enclave
  <2>2. PICK n \in Nat : Moved(t, n, "wait") /\ Running(t, n)
    BY <1>0, <2>1, Typed, GotoForm DEF Pcs
  <2> DEFINE g == stack'[t][n]
  <2>3. /\ last = stack[t][n] /\ Elsewhere(t, n) /\ n \in DOMAIN stack[t] /\ n \in DOMAIN stack'[t]
        /\ g.pc = "wait" /\ g.id = last.id
    BY <2>2, MovedIs DEF Running, Moved, Pcs
  <2> HIDE DEF last, g
  <2>4. /\ enclave'[last.id] = "closing"
        /\ \A id \in Id : id # last.id => enclave'[id] = enclave[id]
    BY <1>2, <2>1, Typed
  <2>5. \A id \in Id : (Keeps(t, n, id) <=> id = last.id) /\ (Keeps(t, n, id)' <=> id = last.id)
    BY <1>0, <2>3 DEF Keeps, g
  <2>6. Sound'
    <3>1. FrameFits(g, handle', enclave')
      BY <1>2, <2>3, <2>4 DEF FrameFits
    <3>2. \A h \in Handle : handle'[h] \in Id => enclave'[handle'[h]] # "none"
      BY <1>0, <1>1, <2>4 DEF Sound
    <3>3. \A h \in Handle : handle'[h] = handle[h]
      BY <1>0
    <3> QED BY <1>1, <2>3, <2>4, <3>1, <3>2, <3>3, SoundStep DEF g
  <2>7. ASSUME NEW id \in Id PROVE Kept(id)'
    <3>1. CASE id = last.id
      BY <2>3, <2>4, <2>5, <3>1 DEF Kept, g
    <3>2. CASE id # last.id
      <4>1. Kept(id)
        BY DEF Safe
      <4> QED BY <1>0, <2>3, <2>4, <2>5, <3>2, <4>1, KeptStep
    <3> QED BY <3>1, <3>2
  <2>8. ASSUME NEW id \in Id \ cloned' PROVE Life(id)'
    <3>1. Life(id)
      BY <1>0 DEF Safe
    <3>2. CASE id = last.id
      <4>1. /\ \A u \in Thread, i \in Nat : Keeps(u, i, id) => u = t /\ i = n
            /\ \A h \in Handle : handle'[h] # id
        BY <1>0, <2>5, <3>1, <3>2 DEF Life
      <4>2. KeptAs("destroy", enclave[id], globals[id]) /\ Ordered(id)
        BY <1>0, <2>3, <2>5, <3>1, <3>2 DEF Life
      <4>3. KeptAs("wait", enclave'[id], globals'[id]) /\ Ordered(id)'
        BY <1>0, <2>4, <3>2, <4>2 DEF KeptAs, Ordered
      <4> QED BY <2>3, <4>1, <4>3, LifeInCall DEF g
    <3>3. CASE id # last.id
      BY <1>0, <2>3, <2>4, <2>5, <3>1, <3>3, LifeElsewhere
    <3> QED BY <3>2, <3>3
  <2> QED BY <2>6, <2>7, <2>8 DEF Safe
<1>3. CASE ~(last.id \in Id /\ enclave[last.id] \in {"loaded", "crashed"})
  <2>1. enclave' = enclave /\ Pop(t)
    BY <1>3 DEF rsgx_destroy_enclave
  <2>2. PICK n \in Nat : Popped(t, n) /\ Running(t, n)
    BY <1>0, <2>1, Typed, PopForm
  <2>3. last = stack[t][n] /\ Elsewhere(t, n) /\ n \in DOMAIN stack[t] /\ n \notin DOMAIN stack'[t]
    BY <2>2 DEF Running, Popped
  <2> HIDE DEF last
  <2>4. \A id \in Id : (Keeps(t, n, id) <=> id = last.id) /\ ~Keeps(t, n, id)'
    BY <1>0, <2>3 DEF Keeps
  <2>5. Sound'
    <3>1. \A h \in Handle : handle'[h] \in Id => enclave'[handle'[h]] # "none"
      BY <1>0, <1>1, <2>1 DEF Sound
    <3>2. \A h \in Handle : handle'[h] = handle[h]
      BY <1>0
    <3> QED BY <1>1, <2>1, <2>3, <3>1, <3>2, SoundStep
  <2>6. ASSUME NEW id \in Id PROVE Kept(id)'
    <3>1. Kept(id)
      BY DEF Safe
    <3>2. CASE id = last.id
      <4>1. enclave'[id] \notin {"loaded", "crashed"}
        BY <1>3, <2>1, <3>2
      <4>2. ASSUME enclave'[id] = "closing"
            PROVE  \E u \in Thread, i \in Nat : Keeps(u, i, id)' /\ stack'[u][i].pc = "wait"
        <5>1. PICK u \in Thread, i \in Nat : Keeps(u, i, id) /\ stack[u][i].pc = "wait"
          BY <2>1, <3>1, <4>2 DEF Kept
        <5>2. ~(u = t /\ i = n)
          BY <1>0, <2>3, <5>1
        <5> QED BY <2>3, <5>1, <5>2, KeepsSame
      <4> QED BY <4>1, <4>2 DEF Kept
    <3>3. CASE id # last.id
      BY <1>0, <2>1, <2>3, <2>4, <3>1, <3>3, KeptStep
    <3> QED BY <3>2, <3>3
  <2>7. ASSUME NEW id \in Id \ cloned' PROVE Life(id)'
    <3>1. Life(id)
      BY <1>0 DEF Safe
    <3>2. CASE id = last.id
      <4>1. KeptAs("destroy", enclave[id], globals[id])
        BY <1>0, <2>3, <2>4, <3>1, <3>2 DEF Life
      <4> QED BY <1>3, <3>2, <4>1 DEF KeptAs
    <3>3. CASE id # last.id
      BY <1>0, <2>1, <2>3, <2>4, <3>1, <3>3, LifeElsewhere
    <3> QED BY <3>2, <3>3
  <2> QED BY <2>5, <2>6, <2>7 DEF Safe
<1> QED BY <1>2, <1>3

\* destroyed: nobody has the enclave any more.
LEMMA DestroyedSafe ==
  ASSUME TypeOK, Safe, NEW t \in Thread, destroyed(t)
  PROVE  Safe'
<1>1. PICK n \in Nat : Popped(t, n) /\ Running(t, n)
  BY Typed, PopForm DEF destroyed, Top
<1> DEFINE f == stack[t][n]
<1>2. /\ f.pc = "wait" /\ enclave' = [enclave EXCEPT ![f.id] = "gone"]
      /\ UNCHANGED <<layout, handle, globals, cloned>>
      /\ Elsewhere(t, n) /\ n \in DOMAIN stack[t] /\ n \notin DOMAIN stack'[t]
  BY <1>1 DEF Running, destroyed, Top, Popped
<1>3. Sound /\ f.id \in Id
  BY <1>2 DEF Safe, Sound, FrameFits
<1>4. /\ enclave'[f.id] = "gone"
      /\ \A id \in Id : id # f.id => enclave'[id] = enclave[id]
  BY <1>2, <1>3, Typed
<1>5. \A id \in Id : (Keeps(t, n, id) <=> id = f.id) /\ ~Keeps(t, n, id)'
  BY <1>2 DEF Keeps
<1>6. Sound'
  <2>1. \A h \in Handle : handle'[h] \in Id => enclave'[handle'[h]] # "none"
    BY <1>2, <1>3, <1>4 DEF Sound
  <2>2. \A h \in Handle : handle'[h] = handle[h]
    BY <1>2
  <2> QED BY <1>2, <1>3, <1>4, <2>1, <2>2, SoundStep
<1>7. ASSUME NEW id \in Id PROVE Kept(id)'
  <2>1. CASE id = f.id
    BY <1>4, <2>1 DEF Kept
  <2>2. CASE id # f.id
    <3>1. Kept(id)
      BY DEF Safe
    <3> QED BY <1>2, <1>4, <1>5, <2>2, <3>1, KeptStep
  <2> QED BY <2>1, <2>2
<1>8. ASSUME NEW id \in Id \ cloned' PROVE Life(id)'
  <2>1. Life(id)
    BY <1>2 DEF Safe
  <2>2. CASE id = f.id
    <3>1. /\ \A u \in Thread, i \in Nat : Keeps(u, i, id) => u = t /\ i = n
          /\ \A h \in Handle : handle'[h] # id
      BY <1>2, <1>5, <2>1, <2>2 DEF Life
    <3>2. KeptAs("wait", enclave[id], globals[id]) /\ Ordered(id)
      BY <1>2, <1>5, <2>1, <2>2 DEF Life
    <3>3. Ordered(id)'
      BY <1>2, <1>4, <2>2, <3>2 DEF KeptAs, Ordered
    <3> QED BY <1>2, <1>5, <3>1, <3>3, LifeInCall
  <2>3. CASE id # f.id
    BY <1>2, <1>4, <1>5, <2>1, <2>3, LifeElsewhere
  <2> QED BY <2>2, <2>3
<1> QED BY <1>6, <1>7, <1>8 DEF Safe

\* enclave_lost: what was loaded has crashed, and who has it still has it.
LEMMA LostSafe ==
  ASSUME TypeOK, Safe, enclave_lost
  PROVE  Safe'
<1>1. UNCHANGED <<layout, handle, cloned, stack>>
  BY DEF enclave_lost
<1>2. ASSUME NEW id \in Id
      PROVE  IF enclave[id] = "loaded" THEN Lost(enclave'[id], globals'[id])
             ELSE enclave'[id] = enclave[id] /\ globals'[id] = globals[id]
  BY DEF enclave_lost, Lost
<1>3. \A id \in Id : enclave[id] # "none" => enclave'[id] # "none"
  BY <1>2 DEF Lost
<1>4. Sound'
  <2>1. Sound
    BY DEF Safe
  <2>2. ASSUME NEW t \in Thread, NEW i \in Nat, i \in DOMAIN stack'[t]
        PROVE  FrameFits(stack'[t][i], handle', enclave')
    <3>1. FrameFits(stack[t][i], handle, enclave)
      BY <1>1, <2>1, <2>2 DEF Sound
    <3> QED BY <1>1, <1>3, <3>1 DEF FrameFits
  <2> QED BY <1>1, <1>3, <2>1, <2>2 DEF Sound, Creating
<1>5. ASSUME NEW id \in Id PROVE Kept(id)'
  <2>1. Kept(id)
    BY DEF Safe
  <2> QED BY <1>1, <1>2, <2>1 DEF Kept, Keeps, Lost
<1>6. ASSUME NEW id \in Id \ cloned' PROVE Life(id)'
  <2>1. Life(id)
    BY <1>1 DEF Safe
  <2>2. ASSUME NEW t \in Thread, NEW i \in Nat, Keeps(t, i, id)
        PROVE  KeptAs(stack[t][i].pc, enclave'[id], globals'[id])
    <3>1. KeptAs(stack[t][i].pc, enclave[id], globals[id])
      BY <2>1, <2>2 DEF Life
    <3> QED BY <1>2, <3>1 DEF KeptAs, Lost
  <2>3. \A t \in Thread, i \in Nat : Keeps(t, i, id)' <=> Keeps(t, i, id)
    BY <1>1 DEF Keeps
  <2>4. Ordered(id)'
    BY <1>1, <1>2, <2>1 DEF Life, Ordered, Lost
  <2>5. \A h \in Handle : handle'[h] = id =>
          enclave'[id] \in {"loaded", "crashed"} /\ globals'[id] \in {"up", "refused", "down"}
    BY <1>1, <1>2, <2>1 DEF Life, Lost
  <2> QED BY <1>1, <2>1, <2>2, <2>3, <2>4, <2>5 DEF Life
<1> QED BY <1>4, <1>5, <1>6 DEF Safe

--------------------------------------------------------------------------------
(* The theorems                                                                *)

\* The invariant holds initially
LEMMA SafeInit == Init => Safe
<1> SUFFICES ASSUME Init PROVE Safe
  OBVIOUS
<1>1. \A t \in Thread : DOMAIN stack[t] = {}
  BY DEF Init
<1>2. \A h \in Handle : handle[h] \notin Id
  BY LifecycleAssumption DEF Init, NoHandle
<1>3. \A id \in Id : enclave[id] = "none" /\ globals[id] = "none"
  BY DEF Init
<1>4. Sound
  BY <1>1, <1>2 DEF Sound, Creating
<1>5. \A id \in Id : Kept(id)
  BY <1>3 DEF Kept
<1>6. \A id \in Id : Life(id)
  BY <1>1, <1>2, <1>3 DEF Life, Keeps, Ordered
<1> QED BY <1>4, <1>5, <1>6 DEF Safe

\* and every step keeps it.
LEMMA SafeStep == TypeOK /\ Safe /\ [Next]_vars => Safe'
<1> SUFFICES ASSUME TypeOK, Safe, [Next]_vars PROVE Safe'
  OBVIOUS
<1>1. CASE UNCHANGED vars
  BY <1>1 DEF vars, Safe, Sound, Creating, Kept, Keeps, Life, Ordered
<1>2. ASSUME NEW t \in Thread, CreateStep(t) PROVE Safe'
  BY <1>2, CreateSafe, InitSafe, InitRefusedSafe, CreateReturnsSafe DEF CreateStep, InitStep
<1>3. ASSUME NEW t \in Thread, NEW h \in Handle, default(t, h) PROVE Safe'
  <2>1. PICK id : id = DefaultId
    OBVIOUS
  <2>2. /\ Unused(h) /\ handle' = [handle EXCEPT ![h] = id] /\ cloned \subseteq cloned'
        /\ UNCHANGED <<layout, enclave, globals, stack>>
    BY <1>3, <2>1 DEF default
  <2>3. id = DefaultId \/ ((\E of \in Handle : handle[of] = id) /\ cloned' = cloned \cup ({id} \cap Id))
    BY <2>1
  <2> QED BY <2>2, <2>3, NewHandleSafe
<1>4. ASSUME NEW t \in Thread, NEW h \in Handle, NEW of \in Handle, clone(t, h, of) PROVE Safe'
  <2>1. PICK id : id = handle[of]
    OBVIOUS
  <2>2. /\ Unused(h) /\ handle' = [handle EXCEPT ![h] = id] /\ cloned' = cloned \cup ({id} \cap Id)
        /\ UNCHANGED <<layout, enclave, globals, stack>>
    BY <1>4, <2>1 DEF clone
  <2> QED BY <2>1, <2>2, NewHandleSafe
<1>5. ASSUME NEW t \in Thread, NEW h \in Handle, drop(t, h) \/ ecall(t, h) PROVE Safe'
  BY <1>5, DropSafe, EcallSafe
<1>6. ASSUME NEW t \in Thread, ecall_returns(t) \/ rsgx_abort(t) PROVE Safe'
  BY <1>6, EcallReturnsSafe, AbortSafe
<1>7. ASSUME NEW t \in Thread, register_aex(t) \/ unregister_aex(t) PROVE Safe'
  BY <1>7, StillSafe DEF register_aex, unregister_aex
<1>8. ASSUME NEW t \in Thread, DropStep(t) PROVE Safe'
  BY <1>8, ExitSafe, ExitRefusedSafe, ExitReturnsSafe, DestroySafe, DestroyedSafe DEF DropStep
<1>9. CASE enclave_lost
  BY <1>9, LostSafe
<1> QED BY <1>1, <1>2, <1>3, <1>4, <1>5, <1>6, <1>7, <1>8, <1>9 DEF Next

\* An enclave that is there is in a handle, or in a create or a drop that is under way:
\* none is left behind in the runtime.
THEOREM NothingLeftBehind == Spec => []OwnedEnclave
<1>1. TypeOK /\ Safe => OwnedEnclave
  <2> SUFFICES ASSUME TypeOK, Safe, NEW id \in Id, enclave[id] \in {"loaded", "crashed", "closing"}
               PROVE  \/ \E h \in Handle : handle[h] = id
                      \/ \E t \in Thread : \E i \in DOMAIN stack[t] :
                           stack[t][i].id = id /\ stack[t][i].pc # "ecall"
    BY DEF OwnedEnclave
  <2> QED BY DEF Safe, Kept, Keeps
<1>2. Init => TypeOK /\ Safe
  BY TypeInit, SafeInit
<1>3. TypeOK /\ Safe /\ [Next]_vars => (TypeOK /\ Safe)'
  BY TypeStep, SafeStep
<1> QED BY <1>1, <1>2, <1>3, PTL DEF Spec

\* No ecall of the host runs in an enclave before its global init has ended or was refused,
\* nor after its global exit, and an enclave that was initialised goes only after its exit,
\* unless it crashed or its handle was cloned.
THEOREM GlobalsFollow == Spec => []GlobalsFollowLife
<1>1. TypeOK /\ Safe => GlobalsFollowLife
  <2> SUFFICES ASSUME TypeOK, Safe, NEW id \in Id \ cloned PROVE
        /\ (\E t \in Thread : \E i \in DOMAIN stack[t] : stack[t][i].id = id /\ stack[t][i].pc = "ecall")
             => globals[id] \in {"up", "refused", "down"}
        /\ enclave[id] = "gone" => globals[id] \in {"exit", "refused", "down"}
    BY DEF GlobalsFollowLife
  <2>1. Life(id) /\ Sound /\ Stacks
    BY Typed DEF Safe
  <2>2. ASSUME NEW t \in Thread, NEW i \in DOMAIN stack[t], stack[t][i].id = id, stack[t][i].pc = "ecall"
        PROVE  globals[id] \in {"up", "refused", "down"}
    <3>1. i \in Nat
      BY <2>1, Positions
    <3>2. FrameFits(stack[t][i], handle, enclave)
      BY <2>1, <3>1 DEF Sound
    <3>3. \E h \in Handle : handle[h] = id
      BY <2>2, <3>2 DEF FrameFits
    <3> QED BY <2>1, <3>3 DEF Life
  <2> QED BY <2>1, <2>2 DEF Life, Ordered
<1>2. Init => TypeOK /\ Safe
  BY TypeInit, SafeInit
<1>3. TypeOK /\ Safe /\ [Next]_vars => (TypeOK /\ Safe)'
  BY TypeStep, SafeStep
<1> QED BY <1>1, <1>2, <1>3, PTL DEF Spec

--------------------------------------------------------------------------------
(* The global state of every enclave, cloned or not, goes forward                *)

\* An enclave that is being created has no clones yet, and one that somebody is in
\* is not gone.
FrameOnce(f, cl, en) ==
  /\ f.pc \in {"init", "initing"} => f.id \notin cl
  /\ f.pc \in InsidePc => en[f.id] # "gone"
FramesOnce == \A t \in Thread, i \in Nat : i \in DOMAIN stack[t] => FrameOnce(stack[t][i], cloned, enclave)

\* An enclave that crashed takes no exit, and one with clones was given to the host.
StateOnce(id) ==
  /\ globals[id] = "down" => enclave[id] # "loaded"
  /\ id \in cloned => globals[id] \in {"up", "refused", "exit", "down"} /\ enclave[id] # "none"

\* What is inductive, with TypeOK and Safe.
Once == FramesOnce /\ \A id \in Id : StateOnce(id)

\* The frames stay so if what they say stays so, and the frame of the step is one.
LEMMA FramesStep ==
  ASSUME FramesOnce, NEW t \in Thread, NEW n \in Nat, Elsewhere(t, n),
         \A u \in Thread, i \in Nat : i \in DOMAIN stack[u] /\ FrameOnce(stack[u][i], cloned, enclave)
           => FrameOnce(stack[u][i], cloned', enclave') \/ (u = t /\ i = n),
         n \in DOMAIN stack'[t] => FrameOnce(stack'[t][n], cloned', enclave')
  PROVE  FramesOnce'
<1> SUFFICES ASSUME NEW u \in Thread, NEW i \in Nat, i \in DOMAIN stack'[u]
             PROVE  FrameOnce(stack'[u][i], cloned', enclave')
  BY DEF FramesOnce
<1>1. CASE u = t /\ i = n
  BY <1>1
<1>2. CASE ~(u = t /\ i = n)
  <2>1. i \in DOMAIN stack[u] /\ stack'[u][i] = stack[u][i]
    BY <1>2, Same
  <2>2. FrameOnce(stack[u][i], cloned, enclave)
    BY <2>1 DEF FramesOnce
  <2> QED BY <1>2, <2>1, <2>2
<1> QED BY <1>1, <1>2

\* The enclave of a create that is under way.
LEMMA CreatingIs ==
  ASSUME TypeOK, Safe, Once, NEW t \in Thread, NEW n \in Nat, n \in DOMAIN stack[t],
         stack[t][n].pc \in {"init", "initing"}
  PROVE  /\ stack[t][n].id \in Id \ cloned
         /\ KeptAs(stack[t][n].pc, enclave[stack[t][n].id], globals[stack[t][n].id])
<1> DEFINE f == stack[t][n]
<1>1. FrameFits(f, handle, enclave) /\ FrameOnce(f, cloned, enclave)
  BY DEF Safe, Sound, Once, FramesOnce
<1>2. f.id \in Id \ cloned
  BY <1>1 DEF FrameFits, FrameOnce
<1>3. Keeps(t, n, f.id)
  BY DEF Keeps
<1>4. KeptAs(f.pc, enclave[f.id], globals[f.id])
  BY <1>2, <1>3 DEF Safe, Life
<1> QED BY <1>2, <1>4

\* The enclave that a call is in.
LEMMA InsideIs ==
  ASSUME TypeOK, Safe, Once, NEW t \in Thread, NEW n \in Nat, n \in DOMAIN stack[t],
         stack[t][n].pc \in InsidePc
  PROVE  /\ stack[t][n].id \in Id
         /\ enclave[stack[t][n].id] # "gone"
         /\ globals[stack[t][n].id] # "none"
<1> DEFINE f == stack[t][n]
           id == f.id
<1>1. FrameFits(f, handle, enclave) /\ FrameOnce(f, cloned, enclave)
  BY DEF Safe, Sound, Once, FramesOnce
<1>2. id \in Id /\ enclave[id] # "gone"
  BY <1>1 DEF FrameFits, FrameOnce, InsidePc
<1>3. CASE id \in cloned
  BY <1>2, <1>3 DEF Once, StateOnce
<1>4. CASE id \notin cloned /\ f.pc = "ecall"
  <2>1. f.h \in Handle /\ handle[f.h] = id
    BY <1>1, <1>4 DEF FrameFits
  <2> QED BY <1>2, <1>4, <2>1 DEF Safe, Life
<1>5. CASE id \notin cloned /\ f.pc # "ecall"
  <2>1. Keeps(t, n, id)
    BY <1>5 DEF Keeps
  <2>2. KeptAs(f.pc, enclave[id], globals[id])
    BY <1>2, <1>5, <2>1 DEF Safe, Life
  <2> QED BY <1>2, <1>5, <2>2 DEF KeptAs, Lost, InsidePc
<1> QED BY <1>2, <1>3, <1>4, <1>5

\* The enclave that a drop is about to shut down.
LEMMA DroppingIs ==
  ASSUME TypeOK, Safe, Once, NEW t \in Thread, NEW n \in Nat, n \in DOMAIN stack[t],
         stack[t][n].pc = "drop", stack[t][n].id \in Id, enclave[stack[t][n].id] = "loaded"
  PROVE  globals[stack[t][n].id] \in {"up", "refused", "exit"}
<1> DEFINE id == stack[t][n].id
<1>1. globals[id] # "down"
  BY DEF Once, StateOnce
<1>2. CASE id \in cloned
  BY <1>1, <1>2 DEF Once, StateOnce
<1>3. CASE id \notin cloned
  <2>1. Keeps(t, n, id)
    BY DEF Keeps
  <2>2. KeptAs("drop", enclave[id], globals[id])
    BY <1>3, <2>1 DEF Safe, Life
  <2> QED BY <1>1, <2>2 DEF KeptAs
<1> QED BY <1>2, <1>3

\* A step that leaves enclaves and their global state alone, and moves a call to where
\* nobody is inside, or enters.
LEMMA CallOnce ==
  ASSUME Once, NEW t \in Thread, NEW n \in Nat, Elsewhere(t, n),
         UNCHANGED <<enclave, globals, cloned>>,
         n \in DOMAIN stack'[t] =>
           /\ stack'[t][n].pc \notin {"init", "initing"}
           /\ stack'[t][n].pc \in InsidePc => enclave[stack'[t][n].id] # "gone"
  PROVE  Once' /\ \A id \in Id : Forward(id)
<1>1. FramesOnce'
  <2>1. FramesOnce
    BY DEF Once
  <2> QED BY <2>1, FramesStep DEF FrameOnce
<1> QED BY <1>1 DEF Once, StateOnce, Forward

\* create: a new enclave has no clones and nobody inside.
LEMMA CreateOnce ==
  ASSUME TypeOK, Safe, Once, NEW t \in Thread, NEW h \in Handle, create(t, h)
  PROVE  Once' /\ \A id \in Id : Forward(id)
<1>1. PICK id \in Id : rsgx_create_enclave(id) /\ Push(t, [pc |-> "init", id |-> id, h |-> h])
  BY DEF create
<1> DEFINE f == [pc |-> "init", id |-> id, h |-> h]
<1>2. f \in Frame /\ Stacks /\ f.pc = "init" /\ f.id = id
  BY Typed DEF Frame
<1>3. PICK n \in Nat : Pushed(t, n, f)
  <2> HIDE DEF f
  <2> QED BY <1>1, <1>2, PushForm DEF f
<1> HIDE DEF f
<1>4. Elsewhere(t, n) /\ stack'[t][n] = f /\ globals' = globals /\ cloned' = cloned
  BY <1>3 DEF Pushed, create
<1>5. /\ enclave[id] = "none" /\ enclave'[id] = "loaded"
      /\ \A other \in Id : other # id => enclave'[other] = enclave[other]
  BY <1>1, Typed DEF rsgx_create_enclave
<1>6. id \notin cloned
  BY <1>5 DEF Once, StateOnce
<1>7. globals[id] = "none"
  BY <1>5, <1>6 DEF Safe, Life, Ordered
<1>8. FramesOnce'
  <2>1. FrameOnce(f, cloned', enclave')
    BY <1>2, <1>4, <1>6 DEF FrameOnce, InsidePc
  <2>2. ASSUME NEW u \in Thread, NEW i \in Nat, i \in DOMAIN stack[u], FrameOnce(stack[u][i], cloned, enclave)
        PROVE  FrameOnce(stack[u][i], cloned', enclave')
    <3>1. FrameFits(stack[u][i], handle, enclave)
      BY <2>2 DEF Safe, Sound
    <3>2. stack[u][i].pc \in InsidePc => stack[u][i].id \in Id
      BY <3>1 DEF FrameFits, InsidePc
    <3> QED BY <1>4, <1>5, <2>2, <3>2 DEF FrameOnce
  <2> QED BY <1>4, <2>1, <2>2, FramesStep DEF Once
<1>9. ASSUME NEW other \in Id PROVE StateOnce(other)' /\ Forward(other)
  BY <1>4, <1>5, <1>6, <1>7 DEF Once, StateOnce, Forward
<1> QED BY <1>8, <1>9 DEF Once

\* clone: the enclave of a handle is initialised, and nobody is creating it.
LEMMA CloneOnce ==
  ASSUME TypeOK, Safe, Once, NEW t \in Thread, NEW h \in Handle, NEW of \in Handle, clone(t, h, of)
  PROVE  Once' /\ \A id \in Id : Forward(id)
<1> DEFINE id == handle[of]
<1>1. cloned' = cloned \cup ({id} \cap Id) /\ UNCHANGED <<layout, enclave, globals, stack>>
  BY DEF clone
<1>2. PICK n \in Nat : Elsewhere(t, n) /\ n \notin DOMAIN stack[t] /\ n \notin DOMAIN stack'[t]
  BY <1>1, Typed, Still
<1>3. ASSUME NEW u \in Thread, NEW i \in Nat, i \in DOMAIN stack[u], FrameOnce(stack[u][i], cloned, enclave)
      PROVE  FrameOnce(stack[u][i], cloned', enclave')
  <2> DEFINE f == stack[u][i]
  <2>1. CASE f.pc \in {"init", "initing"} /\ f.id = id
    <3>1. f.id \in Id \ cloned
      BY <1>3, <2>1, CreatingIs
    <3>2. Keeps(u, i, f.id)
      BY <1>3, <2>1 DEF Keeps
    <3> QED BY <2>1, <3>1, <3>2 DEF Safe, Life
  <2>2. CASE ~(f.pc \in {"init", "initing"} /\ f.id = id)
    BY <1>1, <1>3, <2>2 DEF FrameOnce
  <2> QED BY <2>1, <2>2
<1>4. FramesOnce'
  BY <1>2, <1>3, FramesStep DEF Once
<1>5. ASSUME NEW other \in Id PROVE StateOnce(other)' /\ Forward(other)
  <2>1. CASE other \in cloned \/ other # id
    BY <1>1, <2>1 DEF Once, StateOnce, Forward
  <2>2. CASE other \notin cloned /\ other = id
    <3>1. enclave[other] \in {"loaded", "crashed"} /\ globals[other] \in {"up", "refused", "down"}
      BY <2>2 DEF Safe, Life
    <3> QED BY <1>1, <3>1 DEF Once, StateOnce, Forward
  <2> QED BY <2>1, <2>2
<1> QED BY <1>4, <1>5 DEF Once

\* init: the globals of the new enclave are initialised.
LEMMA InitOnce ==
  ASSUME TypeOK, Safe, Once, NEW t \in Thread, init(t)
  PROVE  Once' /\ \A id \in Id : Forward(id)
<1>1. PICK n \in Nat : Moved(t, n, "initing") /\ Running(t, n)
  BY Typed, GotoForm DEF init, Top, Pcs
<1> DEFINE f == stack[t][n]
           g == stack'[t][n]
<1>2. /\ f.pc = "init" /\ enclave[f.id] = "loaded" /\ n \in DOMAIN stack[t]
      /\ globals' = [globals EXCEPT ![f.id] = "init"]
      /\ UNCHANGED <<enclave, cloned>>
      /\ Elsewhere(t, n) /\ g.pc = "initing" /\ g.id = f.id
  BY <1>1, MovedIs DEF Running, Moved, init, Top, MayEnter, Pcs
<1>3. f.id \in Id \ cloned /\ globals[f.id] = "none"
  BY <1>2, CreatingIs DEF KeptAs, Lost
<1>4. FramesOnce'
  <2>1. FrameOnce(g, cloned', enclave')
    BY <1>2, <1>3 DEF FrameOnce
  <2> HIDE DEF f, g
  <2> QED BY <1>2, <2>1, FramesStep DEF Once, g
<1> HIDE DEF f, g
<1>5. ASSUME NEW id \in Id PROVE StateOnce(id)' /\ Forward(id)
  <2>1. globals'[id] = IF id = f.id THEN "init" ELSE globals[id]
    BY <1>2, Typed
  <2> QED BY <1>2, <1>3, <2>1 DEF Once, StateOnce, Forward
<1> QED BY <1>4, <1>5 DEF Once

\* init_refused: they never will be.
LEMMA InitRefusedOnce ==
  ASSUME TypeOK, Safe, Once, NEW t \in Thread, init_refused(t)
  PROVE  Once' /\ \A id \in Id : Forward(id)
<1>1. PICK n \in Nat : Popped(t, n) /\ Running(t, n)
  BY Typed, PopForm DEF init_refused, HandleReturned, Top
<1> DEFINE f == stack[t][n]
<1>2. /\ f.pc = "init" /\ n \in DOMAIN stack[t] /\ n \notin DOMAIN stack'[t]
      /\ globals' = [globals EXCEPT ![f.id] = IF @ = "none" THEN "refused" ELSE @]
      /\ UNCHANGED <<enclave, cloned>>
      /\ Elsewhere(t, n)
  BY <1>1 DEF Running, Popped, init_refused, HandleReturned, Top
<1>3. f.id \in Id \ cloned /\ KeptAs("init", enclave[f.id], globals[f.id])
  BY <1>2, CreatingIs
<1>4. FramesOnce'
  BY <1>2, FramesStep DEF Once
<1> HIDE DEF f
<1>5. ASSUME NEW id \in Id PROVE StateOnce(id)' /\ Forward(id)
  <2>1. globals'[id] = IF id = f.id /\ globals[id] = "none" THEN "refused" ELSE globals[id]
    BY <1>2, Typed
  <2> QED BY <1>2, <1>3, <2>1 DEF Once, StateOnce, Forward, KeptAs, Lost
<1> QED BY <1>4, <1>5 DEF Once

\* create_returns: they are up, unless the enclave is lost.
LEMMA CreateReturnsOnce ==
  ASSUME TypeOK, Safe, Once, NEW t \in Thread, create_returns(t)
  PROVE  Once' /\ \A id \in Id : Forward(id)
<1>1. PICK n \in Nat : Popped(t, n) /\ Running(t, n)
  BY Typed, PopForm DEF create_returns, HandleReturned, Top
<1> DEFINE f == stack[t][n]
<1>2. /\ f.pc = "initing" /\ n \in DOMAIN stack[t] /\ n \notin DOMAIN stack'[t]
      /\ globals' = [globals EXCEPT ![f.id] = IF @ = "init" THEN "up" ELSE @]
      /\ UNCHANGED <<enclave, cloned>>
      /\ Elsewhere(t, n)
  BY <1>1 DEF Running, Popped, create_returns, HandleReturned, Top
<1>3. f.id \in Id \ cloned /\ KeptAs("initing", enclave[f.id], globals[f.id])
  BY <1>2, CreatingIs
<1>4. FramesOnce'
  BY <1>2, FramesStep DEF Once
<1> HIDE DEF f
<1>5. ASSUME NEW id \in Id PROVE StateOnce(id)' /\ Forward(id)
  <2>1. globals'[id] = IF id = f.id /\ globals[id] = "init" THEN "up" ELSE globals[id]
    BY <1>2, Typed
  <2> QED BY <1>2, <1>3, <2>1 DEF Once, StateOnce, Forward, KeptAs, Lost
<1> QED BY <1>4, <1>5 DEF Once

\* exit: they were up or refused, and stay shut down if the other clone was first.
LEMMA ExitOnce ==
  ASSUME TypeOK, Safe, Once, NEW t \in Thread, exit(t)
  PROVE  Once' /\ \A id \in Id : Forward(id)
<1>1. PICK n \in Nat : Moved(t, n, "exiting") /\ Running(t, n)
  BY Typed, GotoForm DEF exit, Top, Pcs
<1> DEFINE f == stack[t][n]
           g == stack'[t][n]
<1>2. /\ f.pc = "drop" /\ f.id \in Id /\ enclave[f.id] = "loaded" /\ n \in DOMAIN stack[t]
      /\ globals' = [globals EXCEPT ![f.id] = "exit"]
      /\ UNCHANGED <<enclave, cloned>>
      /\ Elsewhere(t, n) /\ g.pc = "exiting" /\ g.id = f.id
  BY <1>1, MovedIs DEF Running, Moved, exit, Top, MayEnter, Pcs
<1>3. globals[f.id] \in {"up", "refused", "exit"}
  BY <1>2, DroppingIs
<1>4. FramesOnce'
  <2>1. FrameOnce(g, cloned', enclave')
    BY <1>2 DEF FrameOnce
  <2> HIDE DEF f, g
  <2> QED BY <1>2, <2>1, FramesStep DEF Once, g
<1> HIDE DEF f, g
<1>5. ASSUME NEW id \in Id PROVE StateOnce(id)' /\ Forward(id)
  <2>1. globals'[id] = IF id = f.id THEN "exit" ELSE globals[id]
    BY <1>2, Typed
  <2> QED BY <1>2, <1>3, <2>1 DEF Once, StateOnce, Forward
<1> QED BY <1>4, <1>5 DEF Once

\* rsgx_abort: whatever they were, they are down.
LEMMA AbortOnce ==
  ASSUME TypeOK, Safe, Once, NEW t \in Thread, rsgx_abort(t)
  PROVE  Once' /\ \A id \in Id : Forward(id)
<1> DEFINE last == Last(stack[t])
<1>1. /\ stack[t] # << >> /\ last.pc \in InsidePc
      /\ enclave' = [enclave EXCEPT ![last.id] = IF @ = "loaded" THEN "crashed" ELSE @]
      /\ globals' = [globals EXCEPT ![last.id] = "down"]
      /\ IF last.pc = "exiting" THEN Goto(t, "destroy") ELSE Pop(t)
      /\ cloned' = cloned
  BY DEF rsgx_abort
<1>2. PICK n \in Nat : /\ Running(t, n) /\ Elsewhere(t, n)
                       /\ n \in DOMAIN stack'[t] => stack'[t][n].pc = "destroy"
  <2>1. CASE last.pc = "exiting"
    <3>1. PICK n \in Nat : Moved(t, n, "destroy") /\ Running(t, n)
      BY <1>1, <2>1, Typed, GotoForm DEF Pcs
    <3> QED BY <3>1, MovedIs DEF Moved, Pcs
  <2>2. CASE last.pc # "exiting"
    <3>1. PICK n \in Nat : Popped(t, n) /\ Running(t, n)
      BY <1>1, <2>2, Typed, PopForm
    <3> QED BY <3>1 DEF Popped
  <2> QED BY <2>1, <2>2
<1>3. last = stack[t][n] /\ n \in DOMAIN stack[t]
  BY <1>2 DEF Running
<1>4. last.id \in Id /\ enclave[last.id] # "gone" /\ globals[last.id] # "none"
  BY <1>1, <1>3, InsideIs
<1> HIDE DEF last
<1>5. ASSUME NEW id \in Id
      PROVE  /\ globals'[id] = IF id = last.id THEN "down" ELSE globals[id]
             /\ enclave'[id] = IF id = last.id /\ enclave[id] = "loaded" THEN "crashed" ELSE enclave[id]
  BY <1>1, Typed
<1>6. FramesOnce'
  <2>1. ASSUME NEW u \in Thread, NEW i \in Nat, i \in DOMAIN stack[u], FrameOnce(stack[u][i], cloned, enclave)
        PROVE  FrameOnce(stack[u][i], cloned', enclave')
    <3>1. FrameFits(stack[u][i], handle, enclave)
      BY <2>1 DEF Safe, Sound
    <3>2. stack[u][i].pc \in InsidePc => stack[u][i].id \in Id
      BY <3>1 DEF FrameFits, InsidePc
    <3> QED BY <1>1, <1>5, <2>1, <3>2 DEF FrameOnce
  <2>2. n \in DOMAIN stack'[t] => FrameOnce(stack'[t][n], cloned', enclave')
    BY <1>2 DEF FrameOnce, InsidePc
  <2> QED BY <1>2, <2>1, <2>2, FramesStep DEF Once
<1>7. ASSUME NEW id \in Id PROVE StateOnce(id)' /\ Forward(id)
  BY <1>1, <1>4, <1>5 DEF Once, StateOnce, Forward
<1> QED BY <1>6, <1>7 DEF Once

\* rsgx_destroy_enclave: it is out of use.
LEMMA DestroyOnce ==
  ASSUME TypeOK, Safe, Once, NEW t \in Thread, rsgx_destroy_enclave(t)
  PROVE  Once' /\ \A id \in Id : Forward(id)
<1> DEFINE last == Last(stack[t])
<1>1. stack[t] # << >> /\ globals' = globals /\ cloned' = cloned
  BY DEF rsgx_destroy_enclave, Top
<1>2. \/ enclave' = [enclave EXCEPT ![last.id] = "closing"] /\ enclave[last.id] \in {"loaded", "crashed"}
           /\ Goto(t, "wait")
      \/ enclave' = enclave /\ Pop(t)
  BY DEF rsgx_destroy_enclave
<1>3. PICK n \in Nat : /\ Running(t, n) /\ Elsewhere(t, n)
                       /\ n \in DOMAIN stack'[t] => stack'[t][n].pc = "wait"
  <2>1. CASE Goto(t, "wait")
    <3>1. PICK n \in Nat : Moved(t, n, "wait") /\ Running(t, n)
      BY <1>1, <2>1, Typed, GotoForm DEF Pcs
    <3> QED BY <3>1, MovedIs DEF Moved, Pcs
  <2>2. CASE Pop(t)
    <3>1. PICK n \in Nat : Popped(t, n) /\ Running(t, n)
      BY <1>1, <2>2, Typed, PopForm
    <3> QED BY <3>1 DEF Popped
  <2> QED BY <1>2, <2>1, <2>2
<1> HIDE DEF last
<1>4. ASSUME NEW id \in Id
      PROVE  enclave'[id] = enclave[id] \/ (enclave[id] # "none" /\ enclave'[id] = "closing")
  BY <1>2, Typed
<1>5. FramesOnce'
  <2>1. ASSUME NEW u \in Thread, NEW i \in Nat, i \in DOMAIN stack[u], FrameOnce(stack[u][i], cloned, enclave)
        PROVE  FrameOnce(stack[u][i], cloned', enclave')
    <3>1. FrameFits(stack[u][i], handle, enclave)
      BY <2>1 DEF Safe, Sound
    <3>2. stack[u][i].pc \in InsidePc => stack[u][i].id \in Id
      BY <3>1 DEF FrameFits, InsidePc
    <3> QED BY <1>1, <1>4, <2>1, <3>2 DEF FrameOnce
  <2>2. n \in DOMAIN stack'[t] => FrameOnce(stack'[t][n], cloned', enclave')
    BY <1>3 DEF FrameOnce, InsidePc
  <2> QED BY <1>3, <2>1, <2>2, FramesStep DEF Once
<1>6. ASSUME NEW id \in Id PROVE StateOnce(id)' /\ Forward(id)
  BY <1>1, <1>4 DEF Once, StateOnce, Forward
<1> QED BY <1>5, <1>6 DEF Once

\* destroyed: nobody is inside.
LEMMA DestroyedOnce ==
  ASSUME TypeOK, Safe, Once, NEW t \in Thread, destroyed(t)
  PROVE  Once' /\ \A id \in Id : Forward(id)
<1>1. PICK n \in Nat : Popped(t, n) /\ Running(t, n)
  BY Typed, PopForm DEF destroyed, Top
<1> DEFINE at == stack[t][n].id
<1>2. /\ Elsewhere(t, n) /\ n \notin DOMAIN stack'[t]
      /\ globals' = globals /\ cloned' = cloned
      /\ enclave' = [enclave EXCEPT ![at] = "gone"]
      /\ \A u \in Thread : ~Inside(u, at)
  BY <1>1 DEF Popped, Running, destroyed
<1> HIDE DEF at
<1>3. \A id \in Id : enclave'[id] = IF id = at THEN "gone" ELSE enclave[id]
  BY <1>2, Typed
<1>4. FramesOnce'
  <2>1. ASSUME NEW u \in Thread, NEW i \in Nat, i \in DOMAIN stack[u], FrameOnce(stack[u][i], cloned, enclave)
        PROVE  FrameOnce(stack[u][i], cloned', enclave')
    <3>1. FrameFits(stack[u][i], handle, enclave)
      BY <2>1 DEF Safe, Sound
    <3>2. stack[u][i].pc \in InsidePc => stack[u][i].id \in Id
      BY <3>1 DEF FrameFits, InsidePc
    <3>3. stack[u][i].pc \in InsidePc => stack[u][i].id # at
      BY <1>2, <2>1 DEF Inside
    <3> QED BY <1>2, <1>3, <2>1, <3>2, <3>3 DEF FrameOnce
  <2> QED BY <1>2, <2>1, FramesStep DEF Once
<1>5. ASSUME NEW id \in Id PROVE StateOnce(id)' /\ Forward(id)
  BY <1>2, <1>3 DEF Once, StateOnce, Forward
<1> QED BY <1>4, <1>5 DEF Once

\* enclave_lost: all that is loaded is down, and who is inside stays there.
LEMMA LostOnce ==
  ASSUME TypeOK, Safe, Once, enclave_lost
  PROVE  Once' /\ \A id \in Id : Forward(id)
<1>1. UNCHANGED <<cloned, stack>>
  BY DEF enclave_lost
<1>2. ASSUME NEW id \in Id
      PROVE  IF enclave[id] = "loaded" THEN enclave'[id] = "crashed" /\ globals'[id] = "down"
             ELSE enclave'[id] = enclave[id] /\ globals'[id] = globals[id]
  BY DEF enclave_lost
<1>3. ASSUME NEW t \in Thread, NEW i \in Nat, i \in DOMAIN stack'[t]
      PROVE  FrameOnce(stack'[t][i], cloned', enclave')
  <2>1. FrameOnce(stack[t][i], cloned, enclave) /\ FrameFits(stack[t][i], handle, enclave)
    BY <1>1, <1>3 DEF Once, FramesOnce, Safe, Sound
  <2>2. stack[t][i].pc \in InsidePc => stack[t][i].id \in Id
    BY <2>1 DEF FrameFits, InsidePc
  <2> QED BY <1>1, <1>2, <2>1, <2>2 DEF FrameOnce
<1>4. ASSUME NEW id \in Id PROVE StateOnce(id)' /\ Forward(id)
  BY <1>1, <1>2 DEF Once, StateOnce, Forward
<1> QED BY <1>3, <1>4 DEF Once, FramesOnce

\* The initial states,
LEMMA OnceInit == Init => Once
<1> SUFFICES ASSUME Init PROVE Once
  OBVIOUS
<1>1. \A t \in Thread : DOMAIN stack[t] = {}
  BY DEF Init
<1>2. \A id \in Id : globals[id] = "none"
  BY DEF Init
<1>3. cloned = {}
  BY DEF Init
<1> QED BY <1>1, <1>2, <1>3 DEF Once, FramesOnce, StateOnce

\* and every step, which is forward.
LEMMA OnceStep ==
  ASSUME TypeOK, Safe, Once, [Next]_vars
  PROVE  Once' /\ \A id \in Id : Forward(id)
<1>1. CASE UNCHANGED vars
  BY <1>1 DEF vars, Once, FramesOnce, FrameOnce, StateOnce, Forward
<1>2. ASSUME NEW t \in Thread, CreateStep(t) PROVE Once' /\ \A id \in Id : Forward(id)
  BY <1>2, CreateOnce, InitOnce, InitRefusedOnce, CreateReturnsOnce DEF CreateStep, InitStep
<1>3. ASSUME NEW t \in Thread, (\E h \in Handle : default(t, h)) \/ register_aex(t) \/ unregister_aex(t)
      PROVE  Once' /\ \A id \in Id : Forward(id)
  <2>1. UNCHANGED <<enclave, globals, cloned, stack>>
    BY <1>3 DEF default, register_aex, unregister_aex
  <2>2. PICK n \in Nat : Elsewhere(t, n) /\ n \notin DOMAIN stack[t] /\ n \notin DOMAIN stack'[t]
    BY <2>1, Typed, Still
  <2> QED BY <2>1, <2>2, CallOnce
<1>4. ASSUME NEW t \in Thread, NEW h \in Handle, drop(t, h) PROVE Once' /\ \A id \in Id : Forward(id)
  <2>1. PICK f : f = [pc |-> "drop", id |-> handle[h], h |-> NoHandle]
    OBVIOUS
  <2>2. f \in Frame /\ f.pc = "drop"
    BY <1>4, <2>1, Typed DEF drop, Owned, Frame
  <2>3. Push(t, f) /\ UNCHANGED <<enclave, globals, cloned>>
    BY <1>4, <2>1 DEF drop
  <2>4. PICK n \in Nat : Pushed(t, n, f)
    BY <2>2, <2>3, PushForm, Typed
  <2> QED BY <2>2, <2>3, <2>4, CallOnce DEF Pushed, InsidePc
<1>5. ASSUME NEW t \in Thread, NEW h \in Handle, ecall(t, h) PROVE Once' /\ \A id \in Id : Forward(id)
  <2>1. PICK f : f = [pc |-> "ecall", id |-> handle[h], h |-> h]
    OBVIOUS
  <2>2. f \in Frame /\ f.pc = "ecall" /\ enclave[f.id] = "loaded"
    BY <1>5, <2>1 DEF ecall, MayEnter, Frame
  <2>3. Push(t, f) /\ UNCHANGED <<enclave, globals, cloned>>
    BY <1>5, <2>1 DEF ecall
  <2>4. PICK n \in Nat : Pushed(t, n, f)
    BY <2>2, <2>3, PushForm, Typed
  <2> QED BY <2>2, <2>3, <2>4, CallOnce DEF Pushed
<1>6. ASSUME NEW t \in Thread, NEW h \in Handle, NEW of \in Handle, clone(t, h, of)
      PROVE  Once' /\ \A id \in Id : Forward(id)
  BY <1>6, CloneOnce
<1>7. ASSUME NEW t \in Thread, ecall_returns(t) PROVE Once' /\ \A id \in Id : Forward(id)
  <2>1. PICK n \in Nat : Popped(t, n) /\ Running(t, n)
    BY <1>7, Typed, PopForm DEF ecall_returns, Top
  <2> QED BY <1>7, <2>1, CallOnce DEF Popped, ecall_returns
<1>8. ASSUME NEW t \in Thread, rsgx_abort(t) PROVE Once' /\ \A id \in Id : Forward(id)
  BY <1>8, AbortOnce
<1>9. ASSUME NEW t \in Thread, exit_refused(t) \/ exit_returns(t) PROVE Once' /\ \A id \in Id : Forward(id)
  <2>1. Goto(t, "destroy") /\ stack[t] # << >> /\ UNCHANGED <<enclave, globals, cloned>>
    BY <1>9 DEF exit_refused, exit_returns, Top
  <2>2. PICK n \in Nat : Moved(t, n, "destroy") /\ Running(t, n)
    BY <2>1, Typed, GotoForm DEF Pcs
  <2>3. stack'[t][n].pc = "destroy"
    BY <2>2, MovedIs DEF Pcs
  <2> QED BY <2>1, <2>2, <2>3, CallOnce DEF Moved, InsidePc
<1>10. ASSUME NEW t \in Thread, DropStep(t) PROVE Once' /\ \A id \in Id : Forward(id)
  BY <1>9, <1>10, ExitOnce, DestroyOnce, DestroyedOnce DEF DropStep
<1>11. CASE enclave_lost
  BY <1>11, LostOnce
<1> QED BY <1>1, <1>2, <1>3, <1>4, <1>5, <1>6, <1>7, <1>8, <1>10, <1>11 DEF Next

\* The global state of every enclave goes forward, once through its life, also when clones
\* of a handle are dropped while they are used.
THEOREM GlobalsForward == Spec => GlobalsGoForward
<1>1. Init => TypeOK /\ Safe /\ Once
  BY TypeInit, SafeInit, OnceInit
<1>2. TypeOK /\ Safe /\ Once /\ [Next]_vars => (TypeOK /\ Safe /\ Once)'
  BY TypeStep, SafeStep, OnceStep
<1>3. TypeOK /\ Safe /\ Once /\ [Next]_vars => [\A id \in Id : Forward(id)]_globals
  BY OnceStep
<1> QED BY <1>1, <1>2, <1>3, PTL DEF Spec, GlobalsGoForward

--------------------------------------------------------------------------------
(* The exit handlers of every enclave                                             *)

\* The lists of every enclave are sound.
AexSafe == \A id \in Id : AexSound(aex[id])

\* Every step keeps the lists sound: only three touch them.
LEMMA AexStep == TypeOK /\ AexSafe /\ [Next]_vars => AexSafe'
<1> SUFFICES ASSUME TypeOK, AexSafe, [Next]_vars PROVE AexSafe'
  OBVIOUS
<1>0. aex \in [Id -> AexState]
  BY DEF TypeOK
<1>1. CASE UNCHANGED aex
  BY <1>1 DEF AexSafe
<1>2. ASSUME NEW id, NEW x, aex' = [aex EXCEPT ![id] = x], id \in Id => AexSound(x) PROVE AexSafe'
  <2> SUFFICES ASSUME NEW other \in Id PROVE AexSound(aex'[other])
    BY DEF AexSafe
  <2>1. CASE other = id
    BY <1>0, <1>2, <2>1
  <2>2. CASE other # id
    BY <1>0, <1>2, <2>2 DEF AexSafe
  <2> QED BY <2>1, <2>2
<1>3. ASSUME NEW t \in Thread, register_aex(t) PROVE AexSafe'
  <2>1. PICK id : id = Last(stack[t]).id
    OBVIOUS
  <2>2. PICK f \in Fn, at \in FreeAt(aex[id]) :
          aex' = [aex EXCEPT ![id] = rsgx_register_aex_handler(aex[id], t, f, at)]
    BY <1>3, <2>1 DEF register_aex
  <2>3. PICK x : x = rsgx_register_aex_handler(aex[id], t, f, at)
    OBVIOUS
  <2>4. id \in Id => AexSound(x)
    BY <1>0, <2>3, RegisterSound DEF AexSafe
  <2> QED BY <1>2, <2>2, <2>3, <2>4
<1>4. ASSUME NEW t \in Thread, unregister_aex(t) PROVE AexSafe'
  <2>1. PICK id : id = Last(stack[t]).id
    OBVIOUS
  <2>2. PICK node \in aex[id].handle :
          node.thread = t /\ aex' = [aex EXCEPT ![id] = rsgx_unregister_aex_handler(aex[id], t, node)]
    BY <1>4, <2>1 DEF unregister_aex
  <2>3. PICK x : x = rsgx_unregister_aex_handler(aex[id], t, node)
    OBVIOUS
  <2>4. id \in Id => AexSound(x)
    BY <1>0, <2>2, <2>3, UnregisterSound DEF AexSafe
  <2> QED BY <1>2, <2>2, <2>3, <2>4
<1>5. ASSUME NEW t \in Thread, destroyed(t) PROVE AexSafe'
  <2>1. PICK id : id = Last(stack[t]).id
    OBVIOUS
  <2>2. PICK x : x = NoHandlers
    OBVIOUS
  <2>3. aex' = [aex EXCEPT ![id] = x]
    BY <1>5, <2>1, <2>2 DEF destroyed
  <2> QED BY <1>2, <2>2, <2>3, EmptySound
<1> QED
  BY <1>1, <1>3, <1>4, <1>5
     DEF Next, vars, CreateStep, InitStep, DropStep, create, init, init_refused, create_returns,
         HandleReturned, default, drop, ecall, clone, ecall_returns, rsgx_abort, enclave_lost, exit,
         exit_refused, exit_returns, rsgx_destroy_enclave

\* The nodes linked for a function are as many as its handles, and a node is freed while
\* it is linked only if the thread had linked its function twice.
THEOREM ListsSound == Spec => []AexListsSound
<1>1. TypeOK /\ AexSafe => AexListsSound
  <2> SUFFICES ASSUME TypeOK, AexSafe, NEW id \in Id, NEW t \in Thread, NEW f \in Fn PROVE
        /\ Cardinality(LinkedWith(aex[id], t, f))
             = Cardinality({n \in aex[id].handle : n.thread = t /\ n.fn = f})
        /\ <<t, f>> \notin aex[id].twice => \A n \in Linked(aex[id], t) : n.fn = f => n \in aex[id].handle
    BY DEF AexListsSound
  <2>1. Counted(aex[id], t, f)
    BY DEF AexSafe, AexSound
  <2> DEFINE a == aex[id]
             s == a.list[t]
  <2>2. LinkedWith(a, t, f) = Places(s, f) /\ Linked(a, t) = {s[i] : i \in DOMAIN s}
    BY DEF LinkedWith, Places, Linked, Range
  <2>3. ASSUME <<t, f>> \notin a.twice, NEW n \in Linked(a, t), n.fn = f PROVE n \in a.handle
    <3>1. PICK i \in DOMAIN s : n = s[i]
      BY <2>2, <2>3
    <3>2. i \in Places(s, f)
      BY <2>3, <3>1 DEF Places
    <3> QED BY <2>1, <2>3, <3>1, <3>2 DEF Counted
  <2> QED BY <2>1, <2>2, <2>3 DEF Counted, HandlesOf
<1>2. Init => TypeOK /\ AexSafe
  BY TypeInit, EmptySound DEF Init, AexSafe
<1>3. TypeOK /\ AexSafe /\ [Next]_vars => (TypeOK /\ AexSafe)'
  BY TypeStep, AexStep
<1> QED BY <1>1, <1>2, <1>3, PTL DEF Spec
--------------------------------------------------------------------------------
(* The TCS pages of a layout                                                   *)

\* A layout table as the loader has it.
Table == {table \in Seq(LayoutEntry \cup LayoutGroup) : GroupsNest(table)}

\* What the recursive functions of traversal_layout and Loaded are at a stretch.
SumAt(table, counter, sum, lo, hi) ==
  IF hi < lo THEN 0
  ELSE sum[<<lo, hi - 1>>] +
       (IF table[hi].group
        THEN table[hi].load_times * sum[<<hi - table[hi].entry_count, hi - 1>>]
        ELSE Adds(table[hi], counter))

PagesAt(table, pages, lo, hi) ==
  IF hi < lo THEN << >>
  ELSE pages[<<lo, hi - 1>>] \o
       (IF table[hi].group
        THEN Copies(pages[<<hi - table[hi].entry_count, hi - 1>>], table[hi].load_times)
        ELSE <<table[hi]>>)

\* An entry of a table, and the stretch a group stands for.
LEMMA TableEntry ==
  ASSUME NEW table \in Table, NEW hi \in 1 .. Len(table)
  PROVE  /\ table[hi].group \in BOOLEAN
         /\ table[hi].group => /\ table[hi].load_times \in Nat
                               /\ hi - table[hi].entry_count \in 1 .. Len(table) + 1
         /\ ~table[hi].group => table[hi] \in LayoutEntry
<1>1. table[hi] \in LayoutEntry \cup LayoutGroup
  BY DEF Table
<1>2. CASE table[hi] \in LayoutEntry
  BY <1>2 DEF LayoutEntry
<1>3. CASE table[hi] \in LayoutGroup
  <2>1. table[hi].group /\ table[hi].entry_count \in Nat /\ table[hi].load_times \in Nat
    BY <1>3 DEF LayoutGroup
  <2>2. table[hi].entry_count < hi
    BY <2>1 DEF Table, GroupsNest
  <2> QED
    BY <2>1, <2>2
<1> QED
  BY <1>1, <1>2, <1>3

\* The recursive function of traversal_layout exists, hence is what its equation says: one
\* that fits the stretches that end before m is extended to those that end at m.
LEMMA SumDefined ==
  ASSUME NEW table \in Table, NEW counter
  PROVE  \E sum :
           /\ traversal_layout(table, counter) = sum[<<1, Len(table)>>]
           /\ \A lo \in 1 .. Len(table) + 1, hi \in 0 .. Len(table) :
                sum[<<lo, hi>>] = SumAt(table, counter, sum, lo, hi)
<1> DEFINE L == Len(table)
           Fits(g, n) == \A lo \in 1 .. L + 1, hi \in 0 .. L :
                           hi <= n => g[<<lo, hi>>] = SumAt(table, counter, g, lo, hi)
           Missing == {n \in Nat : n <= L /\ ~\E g : Fits(g, n)}
<1>0. L \in Nat
  BY DEF Table
<1>1. Missing = {}
  <2> SUFFICES ASSUME Missing # {} PROVE FALSE
    OBVIOUS
  <2>0. PICK m \in Missing : \A k \in Missing : m <= k
    BY LeastNatural
  <2>1. m \in Nat /\ m <= L /\ ~\E g : Fits(g, m)
    BY <2>0
  <2>2. m # 0
    <3> DEFINE g == [at \in Stretches(table) |-> 0]
    <3>1. ASSUME NEW lo \in 1 .. L + 1, NEW hi \in 0 .. L, hi <= 0
          PROVE  g[<<lo, hi>>] = SumAt(table, counter, g, lo, hi)
      <4>1. hi < lo
        BY <3>1, <1>0
      <4>2. <<lo, hi>> \in Stretches(table)
        BY DEF Stretches
      <4> QED
        BY <4>1, <4>2 DEF SumAt
    <3>2. Fits(g, 0)
      BY <3>1
    <3> QED
      BY <3>2, <2>1
  <2>3. PICK g : Fits(g, m - 1)
    <3>1. m - 1 \in Nat /\ m - 1 <= L /\ ~(m <= m - 1)
      BY <1>0, <2>1, <2>2
    <3>2. m - 1 \notin Missing
      BY <3>1, <2>0
    <3> QED
      BY <3>1, <3>2
  <2> DEFINE h == [at \in Stretches(table) |->
                     IF at[2] < m THEN g[at] ELSE SumAt(table, counter, g, at[1], at[2])]
  <2>4. ASSUME NEW lo \in 1 .. L + 1, NEW hi \in 0 .. L
        PROVE  h[<<lo, hi>>] = IF hi < m THEN g[<<lo, hi>>] ELSE SumAt(table, counter, g, lo, hi)
    BY DEF Stretches
  <2> HIDE DEF h
  <2>5. ASSUME NEW lo \in 1 .. L + 1, NEW hi \in 0 .. L, hi <= m
        PROVE  h[<<lo, hi>>] = SumAt(table, counter, h, lo, hi)
    <3>1. SumAt(table, counter, h, lo, hi) = SumAt(table, counter, g, lo, hi)
      <4>1. CASE hi < lo
        BY <4>1 DEF SumAt
      <4>2. CASE ~(hi < lo)
        <5>1. hi \in 1 .. L /\ hi - 1 \in 0 .. L /\ hi - 1 < m
          BY <4>2, <2>5, <1>0
        <5>2. h[<<lo, hi - 1>>] = g[<<lo, hi - 1>>]
          BY <5>1, <2>4
        <5>3. table[hi].group => hi - table[hi].entry_count \in 1 .. L + 1
          BY <5>1, TableEntry
        <5>4. table[hi].group =>
                h[<<hi - table[hi].entry_count, hi - 1>>] = g[<<hi - table[hi].entry_count, hi - 1>>]
          BY <5>1, <5>3, <2>4
        <5> QED
          BY <5>2, <5>4 DEF SumAt
      <4> QED
        BY <4>1, <4>2
    <3>2. CASE hi < m
      <4>0. hi <= m - 1
        BY <3>2, <2>1
      <4>1. g[<<lo, hi>>] = SumAt(table, counter, g, lo, hi)
        BY <4>0, <2>3
      <4> QED
        BY <3>1, <3>2, <4>1, <2>4
    <3>3. CASE ~(hi < m)
      BY <3>1, <3>3, <2>4
    <3> QED
      BY <3>2, <3>3
  <2>6. Fits(h, m)
    BY <2>5
  <2> QED
    BY <2>1, <2>6
<1>2. PICK g : Fits(g, L)
  <2>1. L \notin Missing
    BY <1>1
  <2>2. L \in Nat /\ L <= L
    BY <1>0
  <2> QED
    BY <2>1, <2>2
<1> DEFINE Whole(sum) == [at \in Stretches(table) |->
             LET lo == at[1]  hi == at[2]
             IN IF hi < lo THEN 0
                ELSE sum[<<lo, hi - 1>>] +
                     (IF table[hi].group
                      THEN table[hi].load_times * sum[<<hi - table[hi].entry_count, hi - 1>>]
                      ELSE Adds(table[hi], counter))]
           sum0 == [at \in Stretches(table) |-> g[at]]
<1>3. ASSUME NEW sum PROVE Whole(sum) = [at \in Stretches(table) |-> SumAt(table, counter, sum, at[1], at[2])]
  BY DEF SumAt
<1>4. traversal_layout(table, counter) = (CHOOSE sum : sum = Whole(sum))[<<1, Len(table)>>]
  BY DEF traversal_layout
<1> HIDE DEF Whole
<1>5. sum0 = Whole(sum0)
  <2>1. ASSUME NEW lo \in 1 .. L + 1, NEW hi \in 0 .. L
        PROVE  sum0[<<lo, hi>>] = g[<<lo, hi>>]
    BY DEF Stretches
  <2> HIDE DEF sum0
  <2>2. ASSUME NEW lo \in 1 .. L + 1, NEW hi \in 0 .. L
        PROVE  sum0[<<lo, hi>>] = SumAt(table, counter, sum0, lo, hi)
    <3>1. SumAt(table, counter, sum0, lo, hi) = SumAt(table, counter, g, lo, hi)
      <4>1. CASE hi < lo
        BY <4>1 DEF SumAt
      <4>2. CASE ~(hi < lo)
        <5>1. hi \in 1 .. L /\ hi - 1 \in 0 .. L
          BY <4>2, <1>0
        <5>3. table[hi].group => hi - table[hi].entry_count \in 1 .. L + 1
          BY <5>1, TableEntry
        <5> QED
          BY <5>1, <5>3, <2>1 DEF SumAt
      <4> QED
        BY <4>1, <4>2
    <3> QED
      BY <3>1, <2>1, <1>2, <1>0
  <2>3. \A at \in Stretches(table) : at = <<at[1], at[2]>> /\ at[1] \in 1 .. L + 1 /\ at[2] \in 0 .. L
    BY DEF Stretches
  <2>4. \A at \in Stretches(table) : sum0[at] = SumAt(table, counter, sum0, at[1], at[2])
    BY <2>2, <2>3
  <2>5. sum0 = [at \in Stretches(table) |-> sum0[at]]
    BY DEF sum0
  <2> QED
    BY <2>4, <2>5, <1>3
<1> HIDE DEF sum0
<1>6. PICK sum : sum = Whole(sum) /\ sum = (CHOOSE s : s = Whole(s))
  BY <1>5
<1>7. ASSUME NEW lo \in 1 .. L + 1, NEW hi \in 0 .. L
      PROVE  sum[<<lo, hi>>] = SumAt(table, counter, sum, lo, hi)
  <2>1. sum = [at \in Stretches(table) |-> SumAt(table, counter, sum, at[1], at[2])]
    BY <1>3, <1>6
  <2>2. <<lo, hi>> \in Stretches(table)
    BY DEF Stretches
  <2> QED
    BY <2>1, <2>2
<1> QED
  BY <1>4, <1>6, <1>7
\* The same for the pages.
LEMMA PagesDefined ==
  ASSUME NEW table \in Table
  PROVE  \E pages :
           /\ Loaded(table) = pages[<<1, Len(table)>>]
           /\ \A lo \in 1 .. Len(table) + 1, hi \in 0 .. Len(table) :
                pages[<<lo, hi>>] = PagesAt(table, pages, lo, hi)
<1> DEFINE L == Len(table)
           Fits(g, n) == \A lo \in 1 .. L + 1, hi \in 0 .. L :
                           hi <= n => g[<<lo, hi>>] = PagesAt(table, g, lo, hi)
           Missing == {n \in Nat : n <= L /\ ~\E g : Fits(g, n)}
<1>0. L \in Nat
  BY DEF Table
<1>1. Missing = {}
  <2> SUFFICES ASSUME Missing # {} PROVE FALSE
    OBVIOUS
  <2>0. PICK m \in Missing : \A k \in Missing : m <= k
    BY LeastNatural
  <2>1. m \in Nat /\ m <= L /\ ~\E g : Fits(g, m)
    BY <2>0
  <2>2. m # 0
    <3> DEFINE g == [at \in Stretches(table) |-> << >>]
    <3>1. ASSUME NEW lo \in 1 .. L + 1, NEW hi \in 0 .. L, hi <= 0
          PROVE  g[<<lo, hi>>] = PagesAt(table, g, lo, hi)
      <4>1. hi < lo
        BY <3>1, <1>0
      <4>2. <<lo, hi>> \in Stretches(table)
        BY DEF Stretches
      <4> QED
        BY <4>1, <4>2 DEF PagesAt
    <3>2. Fits(g, 0)
      BY <3>1
    <3> QED
      BY <3>2, <2>1
  <2>3. PICK g : Fits(g, m - 1)
    <3>1. m - 1 \in Nat /\ m - 1 <= L /\ ~(m <= m - 1)
      BY <1>0, <2>1, <2>2
    <3>2. m - 1 \notin Missing
      BY <3>1, <2>0
    <3> QED
      BY <3>1, <3>2
  <2> DEFINE h == [at \in Stretches(table) |->
                     IF at[2] < m THEN g[at] ELSE PagesAt(table, g, at[1], at[2])]
  <2>4. ASSUME NEW lo \in 1 .. L + 1, NEW hi \in 0 .. L
        PROVE  h[<<lo, hi>>] = IF hi < m THEN g[<<lo, hi>>] ELSE PagesAt(table, g, lo, hi)
    BY DEF Stretches
  <2> HIDE DEF h
  <2>5. ASSUME NEW lo \in 1 .. L + 1, NEW hi \in 0 .. L, hi <= m
        PROVE  h[<<lo, hi>>] = PagesAt(table, h, lo, hi)
    <3>1. PagesAt(table, h, lo, hi) = PagesAt(table, g, lo, hi)
      <4>1. CASE hi < lo
        BY <4>1 DEF PagesAt
      <4>2. CASE ~(hi < lo)
        <5>1. hi \in 1 .. L /\ hi - 1 \in 0 .. L /\ hi - 1 < m
          BY <4>2, <2>5, <1>0
        <5>2. h[<<lo, hi - 1>>] = g[<<lo, hi - 1>>]
          BY <5>1, <2>4
        <5>3. table[hi].group => hi - table[hi].entry_count \in 1 .. L + 1
          BY <5>1, TableEntry
        <5>4. table[hi].group =>
                h[<<hi - table[hi].entry_count, hi - 1>>] = g[<<hi - table[hi].entry_count, hi - 1>>]
          BY <5>1, <5>3, <2>4
        <5> QED
          BY <5>2, <5>4 DEF PagesAt
      <4> QED
        BY <4>1, <4>2
    <3>2. CASE hi < m
      <4>0. hi <= m - 1
        BY <3>2, <2>1
      <4>1. g[<<lo, hi>>] = PagesAt(table, g, lo, hi)
        BY <4>0, <2>3
      <4> QED
        BY <3>1, <3>2, <4>1, <2>4
    <3>3. CASE ~(hi < m)
      BY <3>1, <3>3, <2>4
    <3> QED
      BY <3>2, <3>3
  <2>6. Fits(h, m)
    BY <2>5
  <2> QED
    BY <2>1, <2>6
<1>2. PICK g : Fits(g, L)
  <2>1. L \notin Missing
    BY <1>1
  <2>2. L \in Nat /\ L <= L
    BY <1>0
  <2> QED
    BY <2>1, <2>2
<1> DEFINE Whole(pages) == [at \in Stretches(table) |->
             LET lo == at[1]  hi == at[2]
             IN IF hi < lo THEN << >>
                ELSE pages[<<lo, hi - 1>>] \o
                     (IF table[hi].group
                      THEN Copies(pages[<<hi - table[hi].entry_count, hi - 1>>], table[hi].load_times)
                      ELSE <<table[hi]>>)]
           pages0 == [at \in Stretches(table) |-> g[at]]
<1>3. ASSUME NEW pages PROVE Whole(pages) = [at \in Stretches(table) |-> PagesAt(table, pages, at[1], at[2])]
  BY DEF PagesAt
<1>4. Loaded(table) = (CHOOSE pages : pages = Whole(pages))[<<1, Len(table)>>]
  BY DEF Loaded
<1> HIDE DEF Whole
<1>5. pages0 = Whole(pages0)
  <2>1. ASSUME NEW lo \in 1 .. L + 1, NEW hi \in 0 .. L
        PROVE  pages0[<<lo, hi>>] = g[<<lo, hi>>]
    BY DEF Stretches
  <2> HIDE DEF pages0
  <2>2. ASSUME NEW lo \in 1 .. L + 1, NEW hi \in 0 .. L
        PROVE  pages0[<<lo, hi>>] = PagesAt(table, pages0, lo, hi)
    <3>1. PagesAt(table, pages0, lo, hi) = PagesAt(table, g, lo, hi)
      <4>1. CASE hi < lo
        BY <4>1 DEF PagesAt
      <4>2. CASE ~(hi < lo)
        <5>1. hi \in 1 .. L /\ hi - 1 \in 0 .. L
          BY <4>2, <1>0
        <5>3. table[hi].group => hi - table[hi].entry_count \in 1 .. L + 1
          BY <5>1, TableEntry
        <5> QED
          BY <5>1, <5>3, <2>1 DEF PagesAt
      <4> QED
        BY <4>1, <4>2
    <3> QED
      BY <3>1, <2>1, <1>2, <1>0
  <2>3. \A at \in Stretches(table) : at = <<at[1], at[2]>> /\ at[1] \in 1 .. L + 1 /\ at[2] \in 0 .. L
    BY DEF Stretches
  <2>4. \A at \in Stretches(table) : pages0[at] = PagesAt(table, pages0, at[1], at[2])
    BY <2>2, <2>3
  <2>5. pages0 = [at \in Stretches(table) |-> pages0[at]]
    BY DEF pages0
  <2> QED
    BY <2>4, <2>5, <1>3
<1> HIDE DEF pages0
<1>6. PICK pages : pages = Whole(pages) /\ pages = (CHOOSE s : s = Whole(s))
  BY <1>5
<1>7. ASSUME NEW lo \in 1 .. L + 1, NEW hi \in 0 .. L
      PROVE  pages[<<lo, hi>>] = PagesAt(table, pages, lo, hi)
  <2>1. pages = [at \in Stretches(table) |-> PagesAt(table, pages, at[1], at[2])]
    BY <1>3, <1>6
  <2>2. <<lo, hi>> \in Stretches(table)
    BY DEF Stretches
  <2> QED
    BY <2>1, <2>2
<1> QED
  BY <1>4, <1>6, <1>7

\* As many numbers, each moved up by k.
LEMMA ShiftedCount ==
  ASSUME NEW B \in SUBSET Nat, IsFiniteSet(B), NEW k \in Nat
  PROVE  /\ IsFiniteSet({k + j : j \in B})
         /\ Cardinality({k + j : j \in B}) = Cardinality(B)
<1> DEFINE C == {k + j : j \in B}
           f == [j \in B |-> k + j]
<1>1. f \in [B -> C] /\ (\A c \in C : \E j \in B : f[j] = c) /\ (\A i, j \in B : f[i] = f[j] => i = j)
  OBVIOUS
<1> HIDE DEF C, f
<1>2. IsFiniteSet(C) /\ Cardinality(C) = Cardinality(B)
  BY <1>1, SameNumber
<1> QED
  BY <1>2 DEF C

\* The pages that count, and how many they are.
Counters == {"static", "eremove", "dyn"}
Hits(pages, counter) == {i \in DOMAIN pages : Adds(pages[i], counter) = 1}
Count(pages, counter) == Cardinality(Hits(pages, counter))

LEMMA HitsFinite ==
  ASSUME NEW s \in Seq(LayoutEntry), NEW counter \in Counters
  PROVE  /\ Hits(s, counter) \in SUBSET (1 .. Len(s)) /\ Len(s) \in Nat
         /\ IsFiniteSet(Hits(s, counter)) /\ Count(s, counter) \in Nat
<1>1. Hits(s, counter) \in SUBSET (1 .. Len(s)) /\ Len(s) \in Nat
  BY DEF Hits
<1>2. IsFiniteSet(1 .. Len(s))
  BY <1>1, FS_Interval
<1>3. IsFiniteSet(Hits(s, counter))
  BY <1>1, <1>2, FS_Subset
<1> QED
  BY <1>1, <1>3, FS_CardinalityType DEF Count

\* Pages that follow one another are counted one after another.
LEMMA CountOfJoin ==
  ASSUME NEW s \in Seq(LayoutEntry), NEW t \in Seq(LayoutEntry), NEW counter \in Counters
  PROVE  Count(s \o t, counter) = Count(s, counter) + Count(t, counter)
<1> DEFINE A == Hits(s, counter)
           B == Hits(t, counter)
           C == {Len(s) + j : j \in B}
<1>1. /\ A \in SUBSET (1 .. Len(s)) /\ Len(s) \in Nat /\ IsFiniteSet(A)
      /\ B \in SUBSET (1 .. Len(t)) /\ Len(t) \in Nat /\ IsFiniteSet(B)
  BY HitsFinite
<1>2. IsFiniteSet(C) /\ Cardinality(C) = Cardinality(B)
  <2>1. B \in SUBSET Nat
    BY <1>1
  <2> HIDE DEF B
  <2> QED
    BY <1>1, <2>1, ShiftedCount
<1>3. A \cap C = {}
  BY <1>1
<1>4. Hits(s \o t, counter) = A \cup C
  <2>1. DOMAIN (s \o t) = 1 .. Len(s) + Len(t) /\ DOMAIN s = 1 .. Len(s) /\ DOMAIN t = 1 .. Len(t)
    OBVIOUS
  <2>2. ASSUME NEW i \in 1 .. Len(s) PROVE (s \o t)[i] = s[i]
    OBVIOUS
  <2>3. ASSUME NEW j \in 1 .. Len(t) PROVE (s \o t)[Len(s) + j] = t[j]
    OBVIOUS
  <2>4. ASSUME NEW i \in 1 .. Len(s) PROVE i \in Hits(s \o t, counter) <=> i \in A
    BY <1>1, <2>1, <2>2 DEF Hits
  <2>5. ASSUME NEW j \in 1 .. Len(t) PROVE Len(s) + j \in Hits(s \o t, counter) <=> j \in B
    BY <1>1, <2>1, <2>3 DEF Hits
  <2>6. Hits(s \o t, counter) \subseteq 1 .. Len(s) + Len(t)
    BY <2>1 DEF Hits
  <2>7. ASSUME NEW i \in Hits(s \o t, counter) PROVE i \in A \cup C
    <3>1. CASE i \in 1 .. Len(s)
      BY <3>1, <2>4
    <3>2. CASE i \notin 1 .. Len(s)
      <4>1. i - Len(s) \in 1 .. Len(t) /\ i = Len(s) + (i - Len(s))
        BY <3>2, <2>6, <1>1
      <4> QED
        BY <4>1, <2>5
    <3> QED
      BY <3>1, <3>2
  <2>8. A \cup C \subseteq Hits(s \o t, counter)
    BY <2>4, <2>5, <1>1
  <2> QED
    BY <2>7, <2>8
<1> HIDE DEF A, B, C
<1>5. Cardinality(A \cup C) = Cardinality(A) + Cardinality(C) - Cardinality({})
  BY <1>1, <1>2, <1>3, FS_Union
<1>6. Cardinality(A) \in Nat /\ Cardinality(C) \in Nat /\ Cardinality({}) = 0
  BY <1>1, <1>2, FS_CardinalityType, FS_EmptySet
<1> QED
  BY <1>2, <1>4, <1>5, <1>6 DEF Count, A, B

\* Where the jth page of a copy comes from.
LEMMA PlaceInCopy ==
  ASSUME NEW k \in Nat \ {0}, NEW n \in Nat, NEW j \in 1 .. k
  PROVE  ((n * k + j) - 1) % k = j - 1
OBVIOUS

\* One more copy is the pages once more.
LEMMA CopyMore ==
  ASSUME NEW s \in Seq(LayoutEntry), NEW n \in Nat
  PROVE  /\ Copies(s, n) \in Seq(LayoutEntry)
         /\ Copies(s, n + 1) = Copies(s, n) \o s
<1> DEFINE k == Len(s)
<1>0. n + 1 \in Nat /\ k \in Nat /\ n * k \in Nat /\ (n + 1) * k \in Nat /\ (n + 1) * k = n * k + k
  OBVIOUS
<1>1. ASSUME NEW m \in Nat
      PROVE  /\ m * k \in Nat
             /\ \A i \in 1 .. m * k : ((i - 1) % k) + 1 \in 1 .. k
  <2>1. m * k \in Nat
    BY <1>0
  <2>2. ASSUME NEW i \in 1 .. m * k PROVE k > 0
    <3>1. k = 0 => m * k = 0
      OBVIOUS
    <3> QED
      BY <3>1, <1>0, <2>1
  <2> HIDE DEF k
  <2>3. ASSUME NEW i \in 1 .. m * k PROVE ((i - 1) % k) + 1 \in 1 .. k
    <3>1. i - 1 \in Nat /\ k \in Nat \ {0}
      BY <2>1, <2>2, <1>0
    <3>2. (i - 1) % k \in 0 .. k - 1
      BY <3>1
    <3> QED
      BY <3>1, <3>2
  <2> QED
    BY <2>1, <2>3
<1>2. ASSUME NEW m \in Nat
      PROVE  /\ Copies(s, m) \in Seq(LayoutEntry) /\ Len(Copies(s, m)) = m * k
             /\ \A i \in 1 .. m * k : Copies(s, m)[i] = s[((i - 1) % k) + 1]
  <2>1. \A i \in 1 .. m * k : s[((i - 1) % k) + 1] \in LayoutEntry
    BY <1>1
  <2>2. Copies(s, m) = [i \in 1 .. m * k |-> s[((i - 1) % k) + 1]]
    BY DEF Copies
  <2> QED
    BY <1>1, <2>1, <2>2
<1>3. ASSUME NEW i \in 1 .. n * k + k
      PROVE  Copies(s, n + 1)[i] = (Copies(s, n) \o s)[i]
  <2>1. Copies(s, n + 1)[i] = s[((i - 1) % k) + 1]
    BY <1>0, <1>2
  <2>2. CASE i \in 1 .. n * k
    BY <2>1, <2>2, <1>0, <1>2
  <2>3. CASE i \notin 1 .. n * k
    <3>1. PICK j \in 1 .. k : i = n * k + j
      <4>1. i - n * k \in 1 .. k /\ i = n * k + (i - n * k)
        <5> HIDE DEF k
        <5> QED
          BY <2>3, <1>0
      <4> QED
        BY <4>1
    <3>2. (Copies(s, n) \o s)[Len(Copies(s, n)) + j] = s[j]
      BY <1>2
    <3>3. ((n * k + j) - 1) % k = j - 1
      <4>1. k \in Nat \ {0}
        BY <1>0
      <4> HIDE DEF k
      <4> QED
        BY <4>1, PlaceInCopy
    <3>4. (j - 1) + 1 = j
      OBVIOUS
    <3>5. Len(Copies(s, n)) = n * k
      BY <1>2
    <3> QED
      BY <3>1, <3>2, <3>3, <3>4, <3>5, <2>1
  <2> QED
    BY <2>2, <2>3
<1>4. Len(Copies(s, n + 1)) = n * k + k /\ Len(Copies(s, n) \o s) = n * k + k
  <2>1. Len(Copies(s, n + 1)) = (n + 1) * k /\ Len(Copies(s, n)) = n * k
    BY <1>0, <1>2
  <2>2. Len(Copies(s, n) \o s) = Len(Copies(s, n)) + k
    BY <1>2
  <2> QED
    BY <2>1, <2>2, <1>0
<1>5. Copies(s, n + 1) \in Seq(LayoutEntry) /\ Copies(s, n) \o s \in Seq(LayoutEntry)
  <2>1. Copies(s, n + 1) \in Seq(LayoutEntry)
    BY <1>0, <1>2
  <2>2. Copies(s, n) \in Seq(LayoutEntry)
    BY <1>2
  <2> QED
    BY <2>1, <2>2, ConcatProperties
<1> HIDE DEF k
<1>6. Copies(s, n + 1) = Copies(s, n) \o s
  BY <1>3, <1>4, <1>5, SeqEqual
<1> QED
  BY <1>2, <1>6

\* n copies have n times as many.
LEMMA CountOfCopies ==
  ASSUME NEW s \in Seq(LayoutEntry), NEW n \in Nat, NEW counter \in Counters
  PROVE  Count(Copies(s, n), counter) = n * Count(s, counter)
<1> DEFINE c == Count(s, counter)
           Wrong == {m \in Nat : Count(Copies(s, m), counter) # m * c}
<1>0. c \in Nat
  BY HitsFinite
<1>1. Wrong = {}
  <2> SUFFICES ASSUME Wrong # {} PROVE FALSE
    OBVIOUS
  <2>1. PICK m \in Wrong : \A k \in Wrong : m <= k
    BY LeastNatural
  <2>2. m # 0
    <3>1. Copies(s, 0) = << >>
      BY DEF Copies
    <3>2. Hits(<< >>, counter) = {}
      BY DEF Hits
    <3>3. Count(Copies(s, 0), counter) = 0
      BY <3>1, <3>2, FS_EmptySet DEF Count
    <3> HIDE DEF c
    <3> QED
      BY <3>3, <2>1, <1>0
  <2>3. m - 1 \in Nat /\ m - 1 \notin Wrong
    BY <2>1, <2>2
  <2>4. Count(Copies(s, m - 1), counter) = (m - 1) * c
    BY <2>3
  <2>5. Copies(s, m - 1) \in Seq(LayoutEntry) /\ Copies(s, (m - 1) + 1) = Copies(s, m - 1) \o s
    BY <2>3, CopyMore
  <2>6. (m - 1) + 1 = m
    BY <2>3
  <2>7. Count(Copies(s, m), counter) = (m - 1) * c + c
    BY <2>4, <2>5, <2>6, CountOfJoin
  <2>8. (m - 1) * c + c = m * c
    <3> HIDE DEF c
    <3> QED
      BY <2>3, <1>0
  <2> QED
    BY <2>1, <2>7, <2>8
<1>2. n \notin Wrong
  BY <1>1
<1> QED
  BY <1>2
\* traversal_layout counts the pages that the loader lays out, by induction on the end
\* of a stretch.
LEMMA SumIsCount ==
  ASSUME NEW table \in Table, NEW counter \in Counters
  PROVE  /\ Loaded(table) \in Seq(LayoutEntry)
         /\ traversal_layout(table, counter) = Count(Loaded(table), counter)
<1> DEFINE L == Len(table)
<1>0. L \in Nat
  BY DEF Table
<1>1. PICK sum :
        /\ traversal_layout(table, counter) = sum[<<1, L>>]
        /\ \A lo \in 1 .. L + 1, hi \in 0 .. L : sum[<<lo, hi>>] = SumAt(table, counter, sum, lo, hi)
  BY SumDefined
<1>2. PICK pages :
        /\ Loaded(table) = pages[<<1, L>>]
        /\ \A lo \in 1 .. L + 1, hi \in 0 .. L : pages[<<lo, hi>>] = PagesAt(table, pages, lo, hi)
  BY PagesDefined
<1> DEFINE Right(lo, hi) == /\ pages[<<lo, hi>>] \in Seq(LayoutEntry)
                            /\ sum[<<lo, hi>>] = Count(pages[<<lo, hi>>], counter)
           Wrong == {hi \in Nat : hi <= L /\ \E lo \in 1 .. L + 1 : ~Right(lo, hi)}
<1>3. Wrong = {}
  <2> SUFFICES ASSUME Wrong # {} PROVE FALSE
    OBVIOUS
  <2>1. PICK hi \in Wrong : \A k \in Wrong : hi <= k
    BY LeastNatural
  <2>2. hi \in 0 .. L
    BY <1>0, <2>1
  <2>3. PICK lo \in 1 .. L + 1 : ~Right(lo, hi)
    BY <2>1
  <2>4. CASE hi < lo
    <3>1. pages[<<lo, hi>>] = << >> /\ sum[<<lo, hi>>] = 0
      BY <1>1, <1>2, <2>2, <2>4 DEF SumAt, PagesAt
    <3>2. Count(<< >>, counter) = 0
      <4>1. Hits(<< >>, counter) = {}
        BY DEF Hits
      <4> QED
        BY <4>1, FS_EmptySet DEF Count
    <3> QED
      BY <3>1, <3>2, <2>3
  <2>5. CASE ~(hi < lo)
    <3>1. hi \in 1 .. L /\ hi - 1 \in 0 .. L /\ hi - 1 \in Nat /\ hi - 1 <= L /\ ~(hi <= hi - 1)
      BY <2>2, <2>5, <1>0
    <3>2. ASSUME NEW l \in 1 .. L + 1 PROVE Right(l, hi - 1)
      <4>1. hi - 1 \notin Wrong
        BY <2>1, <3>1
      <4> QED
        BY <4>1, <3>1
    <3> DEFINE s == pages[<<lo, hi - 1>>]
               t == pages[<<hi - table[hi].entry_count, hi - 1>>]
    <3>3. s \in Seq(LayoutEntry) /\ sum[<<lo, hi - 1>>] = Count(s, counter)
      BY <3>2
    <3>4. CASE table[hi].group
      <4> DEFINE more == Copies(t, table[hi].load_times)
      <4>1. /\ table[hi].load_times \in Nat
            /\ hi - table[hi].entry_count \in 1 .. L + 1
        BY <3>1, <3>4, TableEntry
      <4>2. /\ t \in Seq(LayoutEntry)
            /\ sum[<<hi - table[hi].entry_count, hi - 1>>] = Count(t, counter)
        BY <4>1, <3>2
      <4>3. /\ pages[<<lo, hi>>] = s \o more
            /\ sum[<<lo, hi>>] = Count(s, counter) + table[hi].load_times * Count(t, counter)
        BY <1>1, <1>2, <2>2, <2>5, <3>3, <3>4, <4>2 DEF SumAt, PagesAt
      <4> HIDE DEF s, t
      <4>4. more \in Seq(LayoutEntry) /\ Count(more, counter) = table[hi].load_times * Count(t, counter)
        BY <4>1, <4>2, CopyMore, CountOfCopies
      <4> HIDE DEF more
      <4>5. s \o more \in Seq(LayoutEntry) /\ Count(s \o more, counter) = Count(s, counter) + Count(more, counter)
        BY <3>3, <4>4, CountOfJoin
      <4> QED
        BY <4>3, <4>4, <4>5, <2>3
    <3>5. CASE ~table[hi].group
      <4> DEFINE more == <<table[hi]>>
      <4>1. table[hi] \in LayoutEntry
        BY <3>1, <3>5, TableEntry
      <4>2. /\ pages[<<lo, hi>>] = s \o more
            /\ sum[<<lo, hi>>] = Count(s, counter) + Adds(table[hi], counter)
        BY <1>1, <1>2, <2>2, <2>5, <3>3, <3>5 DEF SumAt, PagesAt
      <4>3. more \in Seq(LayoutEntry) /\ DOMAIN more = {1} /\ more[1] = table[hi]
        BY <4>1
      <4>4. Count(more, counter) = Adds(table[hi], counter)
        <5>1. Adds(table[hi], counter) \in {0, 1}
          BY DEF Adds, Counters
        <5>2. CASE Adds(table[hi], counter) = 1
          <6>1. Hits(more, counter) = {1}
            BY <4>3, <5>2 DEF Hits
          <6> QED
            BY <6>1, <5>2, FS_Singleton DEF Count
        <5>3. CASE Adds(table[hi], counter) = 0
          <6>1. Hits(more, counter) = {}
            BY <4>3, <5>3 DEF Hits
          <6> QED
            BY <6>1, <5>3, FS_EmptySet DEF Count
        <5> QED
          BY <5>1, <5>2, <5>3
      <4> HIDE DEF s, more
      <4>5. s \o more \in Seq(LayoutEntry) /\ Count(s \o more, counter) = Count(s, counter) + Count(more, counter)
        BY <3>3, <4>3, CountOfJoin
      <4> QED
        BY <4>2, <4>4, <4>5, <2>3
    <3> QED
      BY <3>4, <3>5
  <2> QED
    BY <2>4, <2>5
<1>4. Right(1, L)
  <2>1. L \notin Wrong
    BY <1>3
  <2>2. L \in Nat /\ L <= L /\ 1 \in 1 .. L + 1
    BY <1>0
  <2> QED
    BY <2>1, <2>2
<1> QED
  BY <1>1, <1>2, <1>4

\* The three counts of a table.
LEMMA CountsOfTable ==
  ASSUME NEW table \in Table
  PROVE  LET count == SgxGlobalData(table)
             pages == Loaded(table)
         IN /\ count.static_tcs_num + count.eremove_tcs_num = TcsLoaded(pages)
            /\ count.eremove_tcs_num
                 = PagesWith(pages, LAMBDA e : e.eadd /\ e.content /\ e.si_flags_tcs /\ e.eremove)
            /\ count.dyn_tcs_num = PagesWith(pages, LAMBDA e : e.post_add /\ e.tcs_dyn)
<1> DEFINE pages == Loaded(table)
           A == Hits(pages, "static")
           B == Hits(pages, "eremove")
<1>1. /\ SgxGlobalData(table).static_tcs_num = Count(pages, "static")
      /\ SgxGlobalData(table).eremove_tcs_num = Count(pages, "eremove")
      /\ SgxGlobalData(table).dyn_tcs_num = Count(pages, "dyn")
  <2>1. "static" \in Counters /\ "eremove" \in Counters /\ "dyn" \in Counters
    BY DEF Counters
  <2> QED
    BY <2>1, SumIsCount DEF SgxGlobalData, rsgx_get_tcs_num
<1>2. pages \in Seq(LayoutEntry)
  <2>1. "static" \in Counters
    BY DEF Counters
  <2> QED
    BY <2>1, SumIsCount
<1> HIDE DEF pages
<1>3. \A i \in DOMAIN pages :
        /\ pages[i].eadd \in BOOLEAN /\ pages[i].post_add \in BOOLEAN /\ pages[i].eremove \in BOOLEAN
        /\ pages[i].content \in BOOLEAN /\ pages[i].si_flags_tcs \in BOOLEAN /\ pages[i].tcs_dyn \in BOOLEAN
  <2>1. \A i \in DOMAIN pages : pages[i] \in LayoutEntry
    BY <1>2
  <2>2. \A e \in LayoutEntry :
          /\ e.eadd \in BOOLEAN /\ e.post_add \in BOOLEAN /\ e.eremove \in BOOLEAN
          /\ e.content \in BOOLEAN /\ e.si_flags_tcs \in BOOLEAN /\ e.tcs_dyn \in BOOLEAN
    BY DEF LayoutEntry
  <2> QED
    BY <2>1, <2>2
<1>4. A = {i \in DOMAIN pages : pages[i].eadd /\ pages[i].content /\ pages[i].si_flags_tcs /\ ~pages[i].eremove}
  BY <1>3 DEF Hits, Adds
<1>5. B = {i \in DOMAIN pages : pages[i].eadd /\ pages[i].content /\ pages[i].si_flags_tcs /\ pages[i].eremove}
  BY <1>3 DEF Hits, Adds
<1>6. Hits(pages, "dyn") = {i \in DOMAIN pages : pages[i].post_add /\ pages[i].tcs_dyn}
  BY <1>3 DEF Hits, Adds
<1>7. A \cup B = {i \in DOMAIN pages : pages[i].eadd /\ pages[i].content /\ pages[i].si_flags_tcs}
  BY <1>3, <1>4, <1>5
<1>8. A \cap B = {}
  BY <1>3, <1>4, <1>5
<1>9. IsFiniteSet(A) /\ IsFiniteSet(B)
  <2>1. "static" \in Counters /\ "eremove" \in Counters
    BY DEF Counters
  <2> QED
    BY <2>1, <1>2, HitsFinite
<1> HIDE DEF A, B
<1>10. Cardinality(A \cup B) = Cardinality(A) + Cardinality(B)
  <2>1. Cardinality(A \cup B) = Cardinality(A) + Cardinality(B) - Cardinality({})
    BY <1>8, <1>9, FS_Union
  <2> QED
    BY <2>1, <1>9, FS_EmptySet, FS_CardinalityType
<1>11. Count(pages, "static") + Count(pages, "eremove") = TcsLoaded(pages)
  BY <1>7, <1>10 DEF Count, TcsLoaded, PagesWith, A, B
<1>12. Count(pages, "eremove")
         = PagesWith(pages, LAMBDA e : e.eadd /\ e.content /\ e.si_flags_tcs /\ e.eremove)
  BY <1>5 DEF Count, PagesWith, B
<1>13. Count(pages, "dyn") = PagesWith(pages, LAMBDA e : e.post_add /\ e.tcs_dyn)
  BY <1>6 DEF Count, PagesWith
<1> QED
  BY <1>1, <1>11, <1>12, <1>13 DEF pages

\* The counts that the enclave keeps are those of the pages that the loader laid out: static
\* and removable TCS pages that are there at the start, and the dynamic ones.
THEOREM TcsAreCounted == Spec => []TcsCounted
<1>1. TypeOK => TcsCounted
  <2> SUFFICES ASSUME TypeOK PROVE TcsCounted
    OBVIOUS
  <2>1. layout \in Layouts /\ layout \in Table
    BY LifecycleAssumption DEF TypeOK, Table
  <2>2. Pages[layout] = Loaded(layout)
    BY <2>1 DEF Pages
  <2> QED BY <2>1, <2>2, CountsOfTable DEF TcsCounted
<1>2. Init => TypeOK
  BY TypeInit
<1>3. TypeOK /\ [Next]_vars => TypeOK'
  BY TypeStep
<1> QED BY <1>1, <1>2, <1>3, PTL DEF Spec
================================================================================
