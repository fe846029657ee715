------------------------------- MODULE AlignAlloc -------------------------------
(***************************************************************************)
(* Aligned boxes for secrets (src/sgx-alloc/src/alignalloc.rs and          *)
(* alignbox.rs).  Some bytes of a 64-byte cache line are not safe for      *)
(* secrets, so a box is placed with a padding that keeps the bytes its     *)
(* owner asks to protect away from them.  The padding is found on a 64-bit *)
(* map of the protected bytes, modelled as the set of its one bits.        *)
(*                                                                         *)
(* The word below the pointer of a box holds the address malloc gave; it   *)
(* is all a release knows.  Memory is modelled by what writes hit: a box   *)
(* whose word or contents another box wrote over is remembered as such.    *)
(***************************************************************************)
EXTENDS Integers, Sequences, FiniteSets, FiniteSetsExt

CONSTANTS
  Box,       \* variables of type AlignBox<T>
  NoBox,     \* a variable that holds none
  Lost,      \* what a release reads where another box wrote
  Type,      \* the types T: records of size and align
  Align,     \* the alignments callers ask for
  Request,   \* the AlignReq callers pass, records of offset and len
  Addr,      \* the addresses malloc may return
  MaxReqs,   \* bound: requests in a list
  MaxLeaked  \* bound: bitmaps left allocated

\* Layout takes no alignment but a power of two, here up to a page, and malloc returns
\* 16-byte aligned blocks on the machines that have SGX.  NoBox and Lost are neither
\* boxes nor addresses.
ASSUME LayoutAssumption ==
  /\ Align \cup {T.align : T \in Type} \subseteq {2 ^ i : i \in 0 .. 12}
  /\ \A T \in Type : T.size \in Nat \ {0} /\ T.size % T.align = 0
  /\ Request \subseteq [offset : Nat, len : Nat]
  /\ \A a \in Addr : a \in Nat /\ a % 16 = 0
  /\ Lost \notin Addr
  /\ MaxReqs \in Nat /\ MaxLeaked \in Nat
  /\ NoBox \notin Addr
  /\ NoBox \notin [ptr : Nat, layout : [size : Nat, align : Nat],
                   padded : [size : Nat, align : Nat],
                   reqs : Seq([offset : Nat, len : Nat])]

VARIABLES
  type,     \* the type T of the boxes
  box,      \* box[b]: pointer and layouts of b; reqs, a ghost, is what they serve
  header,   \* header[b]: the word below the pointer of b
  damaged,  \* the boxes into whose contents another one wrote
  heap,     \* the blocks malloc has given and free has not taken back
  leaked,   \* the bitmaps check_align_req has left allocated
  aborted   \* handle_alloc_error has ended the program

vars == <<type, box, header, damaged, heap, leaked, aborted>>

Word == 8
Requests == UNION {[1 .. n -> Request] : n \in 0 .. MaxReqs}
Live == {b \in Box : box[b] # NoBox}

--------------------------------------------------------------------------------
\* The padding of a layout.  A map is a set of bits, bit p for the bytes p, p + 64...

Bits == 0 .. 63
Bytes(r) == r.offset .. r.offset + r.len - 1
Protected(reqs) == UNION {Bytes(reqs[i]) : i \in DOMAIN reqs}

check_align_req(size, reqs) ==
  /\ reqs # <<>>
  /\ \A i \in DOMAIN reqs : reqs[i].offset + reqs[i].len <= size
  /\ \A i, j \in DOMAIN reqs : i # j => Bytes(reqs[i]) \cap Bytes(reqs[j]) = {}

make_bitmap(reqs) ==
  IF \E i \in DOMAIN reqs : reqs[i].len > 63 THEN Bits
  ELSE {p % 64 : p \in Protected(reqs)}

ror(bmp, c) == {(p - c) % 64 : p \in bmp}

\* The bits whose distance from the top is a multiple of the alignment.
gen_alignmask(al) == {p \in Bits : (63 - p) % al = 0}

count_lzb(bmp) == IF bmp = {} THEN -1 ELSE 63 - Max(bmp)

\* Mutant: the rotation that covers the last unsafe byte is forgotten.
calc_lspc_short(al, bmp) ==
  LET low == bmp \cup ror(bmp, 1) \cup ror(bmp, 2)
  IN count_lzb((Bits \ (ror(low, 5) \cup ror(bmp, 1))) \cap gen_alignmask(al))

\* Mutant: the padding need not keep the alignment.
calc_lspc_any(al, bmp) ==
  LET low == bmp \cup ror(bmp, 1) \cup ror(bmp, 2) \cup ror(bmp, 3)
  IN count_lzb(Bits \ (ror(low, 5) \cup ror(bmp, 1)))

\* The least padding that keeps alignment and protected bytes, -1 if there is none.
calc_lspc(al, bmp) ==
  LET low == bmp \cup ror(bmp, 1) \cup ror(bmp, 2) \cup ror(bmp, 3)
  IN count_lzb((Bits \ (ror(low, 5) \cup ror(bmp, 1))) \cap gen_alignmask(al))

\* Halve 64 while the padded object still fits.
calc_algn(al, size) ==
  IF al > 64 THEN al ELSE Min({a \in {8, 16, 32} : size <= a} \cup {64})

\* For requests check_align_req accepts.
padding_needed_for(layout, reqs) == calc_lspc(layout.align, make_bitmap(reqs))

pad_align_to(layout, reqs) ==
  LET pad == padding_needed_for(layout, reqs)
      align == calc_algn(layout.align, layout.size + pad)
  IN [size |-> pad + align + layout.size, align |-> align]

--------------------------------------------------------------------------------
\* Blocks and what is written to them.  A region is an address and a length.

Region(at, len) == [at |-> at, len |-> len]
Overlap(x, y) == x.at < y.at + y.len /\ y.at < x.at + x.len

make_aligned_ptr(raw, align, offset) == ((raw + align - 1) \div align) * align + offset

\* Mutant: the alignment is taken for padding.
PadOf_total(layout, padded) == padded.size - layout.size

PadOf(layout, padded) == padded.size - padded.align - layout.size

Header(x) == Region(x.ptr - Word, Word)
Contents(x) == Region(x.ptr, x.layout.size)

\* Box b becomes x, in a new block at raw, or keeps its block if raw is NoBox:
\* the regions written may hit the word or the contents of another box.
Place(b, x, raw, writes) ==
  LET Hit(c, region) == c # b /\ \E w \in writes : Overlap(w, region)
  IN /\ box' = [box EXCEPT ![b] = x]
     /\ header' = [c \in Box |->
                     IF c = b /\ raw # NoBox THEN raw
                     ELSE IF c \in Live /\ Hit(c, Header(box[c])) THEN Lost ELSE header[c]]
     /\ damaged' = {c \in Live : Hit(c, Contents(box[c]))} \cup (IF raw = NoBox THEN damaged ELSE damaged \ {b})

\* Mutant: the block of b is not released.
Freed_none(b) == heap

\* The blocks left when b releases its own, which is the one its word names.
Freed(b) == {x \in heap : x.at # header[b]}

\* alloc_with_pad_align_in and the copy of the contents: the block is zeroed, but
\* for the word it was made longer by, then the word below the pointer is set.  A
\* box that had a block releases it after that, by a word that must still be there.
alloc_with_pad_align(b, layout, padded, reqs) ==
  \E raw \in Addr :
    LET block == Region(raw, padded.size + Word)
        x == [ptr |-> make_aligned_ptr(raw, padded.align, PadOf(layout, padded)),
              layout |-> layout, padded |-> padded, reqs |-> reqs]
        writes == {Region(raw, padded.size), Header(x), Contents(x)}
        released == b \in Live /\ \A w \in writes : ~Overlap(w, Header(box[b]))
    IN /\ padded.size >= layout.size + padded.align
       /\ \A y \in heap : ~Overlap(block, y)
       /\ heap' = {block} \cup (IF released THEN Freed(b) ELSE heap)
       /\ Place(b, x, raw, writes)

\* malloc returns null.
Abort == aborted' = TRUE /\ UNCHANGED <<type, box, header, damaged, heap>>

--------------------------------------------------------------------------------
\* The request to protect the whole object.
Whole == <<[offset |-> 0, len |-> type.size]>>

TypeOK ==
  /\ type \in Type
  /\ DOMAIN box = Box
  /\ \A b \in Live :
       /\ box[b].ptr \in Nat
       /\ box[b].layout \in [size : {type.size}, align : Align \cup {type.align}]
       /\ box[b].padded \in [size : Nat, align : Nat]
       /\ box[b].reqs \in Requests \cup {Whole}
  /\ header \in [Box -> Addr \cup {Lost}]
  /\ damaged \subseteq Box
  /\ \A x \in heap : x.at \in Addr /\ x.len \in Nat
  /\ leaked \in 0 .. MaxLeaked
  /\ aborted \in BOOLEAN

Init ==
  /\ type \in Type
  /\ box = [b \in Box |-> NoBox]
  /\ header = [b \in Box |-> Lost]
  /\ damaged = {}
  /\ heap = {}
  /\ leaked = 0
  /\ aborted = FALSE

--------------------------------------------------------------------------------
\* AlignBox.

\* The bitmap of a request that passes the check is never freed, and a box is
\* checked twice, here and in alloc_with_req_zeroed.  A request that fails it, and
\* one whose bitmap cannot be allocated, gives None and changes nothing.
allocate_in(b, align, reqs) ==
  LET layout == [size |-> type.size, align |-> align]
      pad == padding_needed_for(layout, reqs)
  IN /\ box[b] = NoBox
     /\ check_align_req(type.size, reqs)
     /\ \/ /\ pad < 0
           /\ leaked' = leaked + 1
           /\ UNCHANGED <<type, box, header, damaged, heap, aborted>>
        \/ /\ pad >= 0
           /\ leaked' = leaked + 2
           /\ alloc_with_pad_align(b, layout, pad_align_to(layout, reqs), reqs)
           /\ UNCHANGED <<type, aborted>>
        \/ pad >= 0 /\ leaked' \in {leaked + 1, leaked + 2} /\ Abort

new_with_align(b, align) == allocate_in(b, align, Whole)

\* With no request the alignment asked for is not used.
new_with_req(b, align, reqs) ==
  \/ reqs = <<>> /\ allocate_in(b, type.align, Whole)
  \/ reqs # <<>> /\ allocate_in(b, align, reqs)

clone(b, source) ==
  LET s == box[source]
  IN /\ box[b] = NoBox
     /\ \/ /\ alloc_with_pad_align(b, s.layout, s.padded, s.reqs)
           /\ UNCHANGED <<type, leaked, aborted>>
        \/ Abort /\ UNCHANGED leaked

\* Mutant: the block is kept whatever the layouts are.
clone_from_keep(b, source) ==
  LET s == box[source]
      x == [s EXCEPT !.ptr = box[b].ptr]
  IN /\ b \in Live /\ b # source
     /\ Place(b, x, NoBox, {Contents(x)})
     /\ UNCHANGED <<type, heap, leaked, aborted>>

\* Mutant: a box that keeps its block keeps its own layout.
clone_from_layout(b, source) ==
  LET s == box[source]
      x == [s EXCEPT !.ptr = box[b].ptr, !.layout = box[b].layout]
  IN /\ b \in Live /\ b # source
     /\ s.padded.size = box[b].padded.size
     /\ Place(b, x, NoBox, {Contents(x)})
     /\ UNCHANGED <<type, heap, leaked, aborted>>

\* Only the padded sizes are compared to tell whether the block of b will do.
clone_from(b, source) ==
  LET s == box[source]
      x == [s EXCEPT !.ptr = box[b].ptr]
  IN /\ b \in Live /\ b # source
     /\ \/ /\ s.padded.size # box[b].padded.size
           /\ alloc_with_pad_align(b, s.layout, s.padded, s.reqs)
           /\ UNCHANGED <<type, leaked, aborted>>
        \/ s.padded.size # box[b].padded.size /\ Abort /\ UNCHANGED leaked
        \/ /\ s.padded.size = box[b].padded.size
           /\ Place(b, x, NoBox, {Contents(x)})
           /\ UNCHANGED <<type, heap, leaked, aborted>>

\* Writing through the box, as the initializers of heap_init do.
deref_mut(b) ==
  /\ Place(b, box[b], NoBox, {Contents(box[b])})
  /\ UNCHANGED <<type, heap, leaked, aborted>>

drop(b) ==
  /\ box' = [box EXCEPT ![b] = NoBox]
  /\ header' = [header EXCEPT ![b] = Lost]
  /\ damaged' = damaged \ {b}
  /\ heap' = Freed(b)
  /\ UNCHANGED <<type, leaked, aborted>>

Next ==
  /\ ~aborted
  /\ \/ /\ leaked + 2 <= MaxLeaked
        /\ \E b \in Box, align \in Align :
             \/ new_with_align(b, align)
             \/ \E reqs \in Requests : new_with_req(b, align, reqs)
     \/ \E b \in Box, source \in Live : clone(b, source) \/ clone_from(b, source)
     \/ \E b \in Live : deref_mut(b) \/ drop(b)

Spec == Init /\ [][Next]_vars

--------------------------------------------------------------------------------
\* The bytes of a 64-byte line no protected byte may be at.
Unsafe == {0, 4, 5, 6, 7}

\* Wherever malloc puts the block, and also after clone_from has kept a block for
\* contents with other requests, no protected byte is at an unsafe one.
SecretsPlaced ==
  \A b \in Live : \A p \in Protected(box[b].reqs) : (box[b].ptr + p) % 64 \notin Unsafe

\* Whether a padding serves a request in a block aligned to 64 bytes.
Serves(pad, align, reqs) ==
  pad % align = 0 /\ \A p \in Protected(reqs) : (pad + p) % 64 \notin Unsafe

\* A request is refused only when no padding serves it, and gets the least one:
\* the rotations of the map agree with what they stand for.  Only the type matters,
\* so the states in which nothing is allocated are enough.
PadIsLeast ==
  \A align \in Align, reqs \in Requests :
    heap = {} /\ check_align_req(type.size, reqs) =>
      padding_needed_for([size |-> type.size, align |-> align], reqs)
        = LET pads == {pad \in 0 .. 63 : Serves(pad, align, reqs)}
          IN IF pads = {} THEN -1 ELSE Min(pads)

\* The pointer has the alignment of the layout, although the block is aligned to
\* the padded one, which may be smaller than 64.  It takes a size that is a
\* multiple of the alignment, which only types with their own are sure to have.
PointerAligned ==
  \A b \in Live :
    type.size % box[b].layout.align = 0 => box[b].ptr % box[b].layout.align = 0

\* The contents lie in the block that will be freed with the box, and nothing done
\* to one box reaches the contents or the word of another, wherever blocks lie:
\* with a padding below 8 the word is below its block.
BoxesIndependent ==
  \A b \in Live :
    /\ b \notin damaged
    /\ \E x \in heap :
         /\ header[b] = x.at
         /\ x.at <= box[b].ptr
         /\ box[b].ptr + type.size <= x.at + x.len

\* Every block belongs to one box: none is lost by a clone and none freed twice.
HeapIsOwned ==
  /\ \A x \in heap : \E b \in Live : header[b] = x.at
  /\ \A b, c \in Live : header[b] = header[c] => b = c
--------------------------------------------------------------------------------
\* The boxes as owners of blocks.  What a box was made for is all there is to it but
\* where it is, and is lost when another one writes over it.  The block of a box is the
\* one that its word names, because that is the one it will release.
terms ==
  [b \in Box |-> IF b \notin Live THEN NoBox
                 ELSE IF b \in damaged THEN Lost
                 ELSE [box[b] EXCEPT !.ptr = 0]]

block == [b \in Box |-> IF b \in Live THEN header[b] ELSE NoBox]

used == {x.at : x \in heap}

OB == INSTANCE OwnedBlocks WITH Block <- Addr, None <- NoBox, ended <- aborted

\* Wherever malloc puts blocks, each operation on a box gives it at most one block that
\* was free, frees the one it leaves, makes a clone protect what its source protects,
\* and changes nothing of any other box.
ImplementsBlocks == OB!Spec
================================================================================
