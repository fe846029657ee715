--------------------------- MODULE AlignAllocProofs ---------------------------
(***************************************************************************)
(* What AlignBox keeps, for every type, alignment, request and address.    *)
(*                                                                         *)
(* The rotations of the map are followed first: the padding they give is   *)
(* the least one that serves the requests.  Then a box is where the        *)
(* allocator would put it for its own layout, whichever layout its block   *)
(* was made for (SizeTells is why clone_from may keep one), and the blocks *)
(* are apart.  What is written for a box lies between the word below its   *)
(* block and the last word of it, which malloc was asked for in excess, so *)
(* that a word below one block falls where no other box is.                *)
(***************************************************************************)
EXTENDS AlignAlloc, SequenceTheorems, WellFoundedInduction, TLAPS

--------------------------------------------------------------------------------
(* Least and greatest numbers                                                  *)

\* A set of natural numbers that is not empty has a least one, and Min is it.
LEMMA MinOf ==
  ASSUME NEW S, S \subseteq Nat, S # {}
  PROVE  Min(S) \in S /\ \A y \in S : Min(S) <= y
<1>1. PICK R : IsWellFoundedOn(R, Nat) /\ \A x, y \in Nat : y < x => <<y, x>> \in R
  BY NatLessThanWellFounded DEF OpToRel
<1>2. PICK x \in S : \A y \in S : ~ (<<y, x>> \in R)
  BY <1>1, WFMin
<1>3. x \in Nat /\ \A y \in S : y \in Nat
  OBVIOUS
<1>4. ASSUME NEW y \in S PROVE x <= y
  <2>1. y < x => <<y, x>> \in R
    BY <1>1, <1>3
  <2>2. ~ (y < x)
    BY <1>2, <2>1
  <2> QED BY <1>3, <2>2
<1> QED BY <1>4 DEF Min

\* The same for the greatest below a bound.
LEMMA MaxOf ==
  ASSUME NEW n \in Nat, NEW S, S \subseteq 0 .. n, S # {}
  PROVE  Max(S) \in S /\ \A y \in S : y <= Max(S)
<1> DEFINE T == {n - y : y \in S}
           m == Min(T)
<1>1. T \subseteq Nat /\ T # {}
  <2>1. \A y \in S : y \in Nat /\ n - y \in Nat
    OBVIOUS
  <2> QED BY <2>1
<1>2. m \in T /\ \A y \in T : m <= y
  <2> HIDE DEF T
  <2> QED BY <1>1, MinOf
<1>3. PICK x \in S : m = n - x
  BY <1>2
<1>4. \A y \in S : m <= n - y
  BY <1>2
<1>5. \A y \in S : y <= x
  <2> HIDE DEF m, T
  <2> QED BY <1>3, <1>4
<1> QED BY <1>5 DEF Max

--------------------------------------------------------------------------------
(* The padding                                                                 *)

\* A bit of the map is left for a padding of q, which is 63 - q in the map, when q
\* keeps the alignment and moves no bit of bmp to an unsafe byte.
LEMMA BitLeft ==
  ASSUME NEW al \in Nat \ {0}, NEW bmp \in SUBSET Bits, NEW q \in Bits
  PROVE  LET low == bmp \cup ror(bmp, 1) \cup ror(bmp, 2) \cup ror(bmp, 3)
             left == (Bits \ (ror(low, 5) \cup ror(bmp, 1))) \cap gen_alignmask(al)
         IN 63 - q \in left <=> q % al = 0 /\ \A p \in bmp : (q + p) % 64 \notin Unsafe
<1> DEFINE low == bmp \cup ror(bmp, 1) \cup ror(bmp, 2) \cup ror(bmp, 3)
           at == 63 - q
<1>1. at \in ror(bmp, 1) <=> \E p \in bmp : (q + p) % 64 = 0
  <2>1. \A p \in bmp : at = (p - 1) % 64 <=> (q + p) % 64 = 0
    BY DEF Bits
  <2> QED BY <2>1 DEF ror
<1>2. at \in ror(low, 5) <=> \E p \in bmp : (q + p) % 64 \in {4, 5, 6, 7}
  <2>1. \A x : x \in low <=> \E p \in bmp : x \in {p, (p - 1) % 64, (p - 2) % 64, (p - 3) % 64}
    BY DEF ror
  <2> HIDE DEF low
  <2>2. at \in ror(low, 5) <=> \E p \in bmp : \E x \in {p, (p - 1) % 64, (p - 2) % 64, (p - 3) % 64} :
                                at = (x - 5) % 64
    BY <2>1 DEF ror
  <2>3. \A p \in bmp : (\E x \in {p, (p - 1) % 64, (p - 2) % 64, (p - 3) % 64} : at = (x - 5) % 64)
                     <=> (q + p) % 64 \in {4, 5, 6, 7}
    BY DEF Bits
  <2> HIDE DEF at
  <2> QED BY <2>2, <2>3
<1>3. at \in gen_alignmask(al) <=> q % al = 0
  BY DEF gen_alignmask, Bits
<1>4. at \in Bits
  BY DEF Bits
<1>5. \A p \in bmp : (q + p) % 64 \in Unsafe <=> (q + p) % 64 = 0 \/ (q + p) % 64 \in {4, 5, 6, 7}
  BY DEF Unsafe
<1> HIDE DEF at, low
<1>6. at \in (Bits \ (ror(low, 5) \cup ror(bmp, 1))) \cap gen_alignmask(al)
        <=> q % al = 0 /\ \A p \in bmp : (q + p) % 64 \notin Unsafe
  BY <1>1, <1>2, <1>3, <1>4, <1>5
<1> QED BY <1>6 DEF at, low

\* calc_lspc is the least padding that does.
LEMMA LeastPadding ==
  ASSUME NEW al \in Nat \ {0}, NEW bmp \in SUBSET Bits
  PROVE  LET pads == {q \in Bits : q % al = 0 /\ \A p \in bmp : (q + p) % 64 \notin Unsafe}
         IN calc_lspc(al, bmp) = IF pads = {} THEN -1 ELSE Min(pads)
<1> DEFINE low == bmp \cup ror(bmp, 1) \cup ror(bmp, 2) \cup ror(bmp, 3)
           left == (Bits \ (ror(low, 5) \cup ror(bmp, 1))) \cap gen_alignmask(al)
           pads == {q \in Bits : q % al = 0 /\ \A p \in bmp : (q + p) % 64 \notin Unsafe}
<1>1. \A q \in Bits : 63 - q \in left <=> q \in pads
  BY BitLeft
<1>2. calc_lspc(al, bmp) = IF left = {} THEN -1 ELSE 63 - Max(left)
  BY DEF calc_lspc, count_lzb
<1>3. left \subseteq 0 .. 63 /\ pads \subseteq 0 .. 63
  BY DEF Bits
<1> HIDE DEF low, left, pads
<1>4. \A x \in left : 63 - x \in pads /\ x \in 0 .. 63
  <2> TAKE x \in left
  <2>1. 63 - x \in Bits /\ 63 - (63 - x) = x
    BY <1>3 DEF Bits
  <2> QED BY <1>1, <1>3, <2>1
<1>5. \A q \in pads : 63 - q \in left /\ q \in 0 .. 63
  BY <1>1, <1>3 DEF Bits
<1>6. CASE left = {}
  <2>1. pads = {}
    BY <1>5, <1>6
  <2> QED BY <1>2, <1>6, <2>1 DEF pads
<1>7. CASE left # {}
  <2> DEFINE max == Max(left)
             min == Min(pads)
  <2>1. pads # {}
    BY <1>4, <1>7
  <2>2. max \in left /\ \A y \in left : y <= max
    BY <1>3, <1>7, MaxOf
  <2>3. pads \subseteq Nat
    BY <1>3
  <2>4. min \in pads /\ \A y \in pads : min <= y
    BY <2>1, <2>3, MinOf
  <2> HIDE DEF max, min
  <2>5. 63 - max \in pads /\ 63 - min \in left /\ max \in 0 .. 63 /\ min \in 0 .. 63
    BY <1>4, <1>5, <2>2, <2>4
  <2>6. min <= 63 - max /\ 63 - min <= max
    BY <2>2, <2>4, <2>5
  <2>7. min = 63 - max
    BY <2>5, <2>6
  <2> QED BY <1>2, <1>7, <2>1, <2>7 DEF max, min, pads
<1> QED BY <1>6, <1>7

\* What requests may hold.
Typed(reqs) == \A i \in DOMAIN reqs : reqs[i].offset \in Nat /\ reqs[i].len \in Nat

\* The map of a list of requests has the bytes they protect, but where one is longer
\* than a line, which covers every byte of one.
LEMMA BitmapIs ==
  ASSUME NEW reqs, Typed(reqs), NEW q \in Bits
  PROVE  /\ make_bitmap(reqs) \in SUBSET Bits
         /\ (\A p \in make_bitmap(reqs) : (q + p) % 64 \notin Unsafe)
              <=> (\A p \in Protected(reqs) : (q + p) % 64 \notin Unsafe)
<1>1. \A p \in Protected(reqs) : p \in Int
  BY DEF Protected, Bytes, Typed
<1>2. \A p \in Int : p % 64 \in Bits
  BY DEF Bits
<1>3. CASE \E i \in DOMAIN reqs : reqs[i].len > 63
  <2>1. make_bitmap(reqs) = Bits
    BY <1>3 DEF make_bitmap
  <2>2. PICK i \in DOMAIN reqs : reqs[i].len > 63
    BY <1>3
  <2>3. PICK o, l : o = reqs[i].offset /\ l = reqs[i].len
    OBVIOUS
  <2>4. o \in Nat /\ l \in Nat /\ l > 63 /\ o .. o + l - 1 \subseteq Protected(reqs)
    BY <2>2, <2>3 DEF Typed, Protected, Bytes
  <2>5. \E p \in o .. o + l - 1 : (q + p) % 64 = 0
    <3> DEFINE d == (64 - ((q + o) % 64)) % 64
               p == o + d
    <3>1. q \in Nat
      BY DEF Bits
    <3>2. d \in 0 .. 63 /\ (q + (o + d)) % 64 = 0
      BY <2>4, <3>1
    <3> HIDE DEF d
    <3>3. p \in o .. o + l - 1 /\ (q + p) % 64 = 0
      BY <2>4, <3>2
    <3> QED BY <3>3
  <2>6. \E p \in Bits : (q + p) % 64 = 0
    <3> DEFINE p == (64 - q) % 64
    <3>1. p \in Bits /\ (q + p) % 64 = 0
      BY DEF Bits
    <3> QED BY <3>1
  <2>7. 0 \in Unsafe
    BY DEF Unsafe
  <2> QED BY <2>1, <2>4, <2>5, <2>6, <2>7
<1>4. CASE \A i \in DOMAIN reqs : ~(reqs[i].len > 63)
  <2>1. make_bitmap(reqs) = {p % 64 : p \in Protected(reqs)}
    BY <1>4 DEF make_bitmap
  <2>2. \A p \in Protected(reqs) : (q + (p % 64)) % 64 = (q + p) % 64
    BY <1>1 DEF Bits
  <2> QED BY <1>1, <1>2, <2>1, <2>2
<1> QED BY <1>3, <1>4

\* The padding that padding_needed_for gives is the least one that serves.
LEMMA PaddingIs ==
  ASSUME NEW size, NEW al \in Nat \ {0}, NEW reqs, Typed(reqs)
  PROVE  padding_needed_for([size |-> size, align |-> al], reqs)
           = LET pads == {pad \in 0 .. 63 : Serves(pad, al, reqs)}
             IN IF pads = {} THEN -1 ELSE Min(pads)
<1> DEFINE bmp == make_bitmap(reqs)
           good == {q \in Bits : q % al = 0 /\ \A p \in bmp : (q + p) % 64 \notin Unsafe}
           pads == {pad \in 0 .. 63 : Serves(pad, al, reqs)}
<1>1. bmp \in SUBSET Bits
  <2>1. 0 \in Bits
    BY DEF Bits
  <2> QED BY <2>1, BitmapIs
<1>2. \A q \in Bits : q \in good <=> q \in pads
  BY BitmapIs DEF Serves, Bits
<1>3. good = pads
  BY <1>2 DEF Bits
<1>4. calc_lspc(al, bmp) = IF good = {} THEN -1 ELSE Min(good)
  <2> HIDE DEF bmp
  <2> QED BY <1>1, LeastPadding
<1>5. padding_needed_for([size |-> size, align |-> al], reqs) = calc_lspc(al, bmp)
  BY DEF padding_needed_for
<1> HIDE DEF good, pads, bmp
<1>6. padding_needed_for([size |-> size, align |-> al], reqs) = IF pads = {} THEN -1 ELSE Min(pads)
  BY <1>3, <1>4, <1>5
<1> QED BY <1>6 DEF pads

--------------------------------------------------------------------------------
(* Alignments                                                                  *)

Powers == {2 ^ i : i \in 0 .. 12}

LEMMA PowersAre ==
  Powers = {1, 2, 4, 8, 16, 32, 64, 128, 256, 512, 1024, 2048, 4096}
<1> DEFINE f(i) == 2 ^ i
<1>1. f(0) = 1 /\ f(1) = 2 /\ f(2) = 4 /\ f(3) = 8 /\ f(4) = 16 /\ f(5) = 32 /\ f(6) = 64
  OBVIOUS
<1>2. f(7) = 128 /\ f(8) = 256 /\ f(9) = 512 /\ f(10) = 1024 /\ f(11) = 2048 /\ f(12) = 4096
  OBVIOUS
<1>3. 0 .. 12 = {0, 1, 2, 3, 4, 5, 6, 7, 8, 9, 10, 11, 12}
  OBVIOUS
<1>4. Powers = {f(i) : i \in 0 .. 12}
  BY DEF Powers
<1> HIDE DEF f
<1> QED BY <1>1, <1>2, <1>3, <1>4

\* calc_algn gives the alignment of a large layout, else the least of 8, 16 and 32
\* that the padded object fits, else a line.
LEMMA AlgnIs ==
  ASSUME NEW al \in Powers, NEW n \in Nat
  PROVE  /\ al > 64 => calc_algn(al, n) = al
         /\ al <= 64 => \/ calc_algn(al, n) = 64
                       \/ (calc_algn(al, n) \in {8, 16, 32} /\ n <= calc_algn(al, n))
<1> DEFINE S == {a \in {8, 16, 32} : n <= a} \cup {64}
<1>1. S \subseteq Nat /\ S # {}
  OBVIOUS
<1>2. Min(S) \in S
  <2> HIDE DEF S
  <2> QED BY <1>1, MinOf
<1>3. Min(S) = 64 \/ (Min(S) \in {8, 16, 32} /\ n <= Min(S))
  <2> DEFINE m == Min(S)
  <2>1. m \in S
    BY <1>2
  <2> HIDE DEF m
  <2>2. m = 64 \/ (m \in {8, 16, 32} /\ n <= m)
    BY <2>1
  <2> QED BY <2>2 DEF m
<1>4. al \in Nat
  BY PowersAre
<1>5. calc_algn(al, n) = IF al > 64 THEN al ELSE Min(S)
  BY DEF calc_algn
<1> HIDE DEF S
<1> QED BY <1>3, <1>4, <1>5

\* Where an aligned block begins.
RoundUp(raw, align) == ((raw + align - 1) \div align) * align

LEMMA RoundUpIs ==
  ASSUME NEW raw \in Nat, NEW align \in Powers
  PROVE  /\ RoundUp(raw, align) \in Nat
         /\ raw <= RoundUp(raw, align) /\ RoundUp(raw, align) < raw + align
         /\ RoundUp(raw, align) % align = 0
<1>1. align \in {1, 2, 4, 8, 16, 32, 64, 128, 256, 512, 1024, 2048, 4096}
  BY PowersAre
<1> QED BY <1>1 DEF RoundUp

\* A multiple of a power is one of each power below it.
LEMMA SmallerPower ==
  ASSUME NEW u \in Nat, NEW align \in Powers, NEW al \in Powers, al <= align, al <= 64, u % align = 0
  PROVE  u % al = 0
<1>1. al \in {1, 2, 4, 8, 16, 32, 64}
  BY PowersAre
<1>2. align \in {1, 2, 4, 8, 16, 32, 64, 128, 256, 512, 1024, 2048, 4096}
  BY PowersAre
<1>3. CASE align <= 64
  <2>1. align \in {1, 2, 4, 8, 16, 32, 64}
    BY <1>2, <1>3
  <2> QED BY <1>1, <2>1
<1>4. CASE align > 64
  <2>1. u % 64 = 0
    BY <1>2, <1>4
  <2> QED BY <1>1, <2>1
<1> QED BY <1>2, <1>3, <1>4

--------------------------------------------------------------------------------
(* Layouts and blocks                                                          *)

WholeOf(T) == <<[offset |-> 0, len |-> T.size]>>

\* A padded layout that the allocator computes for a layout and requests.
Planned(T, layout, padded, reqs) ==
  /\ layout \in [size : {T.size}, align : Align \cup {T.align}]
  /\ reqs \in Requests \cup {WholeOf(T)}
  /\ check_align_req(T.size, reqs)
  /\ padding_needed_for(layout, reqs) >= 0
  /\ padded = pad_align_to(layout, reqs)

LEMMA RequestsTyped ==
  ASSUME NEW T \in Type, NEW reqs \in Requests \cup {WholeOf(T)}
  PROVE  Typed(reqs) /\ reqs \in Seq([offset : Nat, len : Nat])
<1>0. T.size \in Nat /\ \A r \in Request : r.offset \in Nat /\ r.len \in Nat
  BY LayoutAssumption
<1>1. CASE reqs \in Requests
  <2>1. PICK n \in 0 .. MaxReqs : reqs \in [1 .. n -> Request]
    BY <1>1 DEF Requests
  <2>2. n \in Nat
    BY LayoutAssumption
  <2>3. DOMAIN reqs = 1 .. n /\ Typed(reqs)
    BY <1>0, <2>1 DEF Typed
  <2>4. \A r \in Request : r \in [offset : Nat, len : Nat]
    BY LayoutAssumption
  <2>5. reqs \in [1 .. n -> [offset : Nat, len : Nat]]
    BY <2>1, <2>4
  <2>6. reqs \in UNION {[1 .. m -> [offset : Nat, len : Nat]] : m \in Nat}
    BY <2>2, <2>5
  <2>7. reqs \in Seq([offset : Nat, len : Nat])
    BY <2>6, SeqDef, Zenon
  <2> QED BY <2>3, <2>7
<1>2. CASE reqs = WholeOf(T)
  BY <1>0, <1>2 DEF WholeOf, Typed
<1> QED BY <1>1, <1>2

\* The padding serves the requests, and the padded object fits its alignment where that
\* is smaller than a line.
LEMMA PlanIs ==
  ASSUME NEW T \in Type, NEW layout, NEW padded, NEW reqs, Planned(T, layout, padded, reqs)
  PROVE  LET pad == PadOf(layout, padded)
         IN /\ layout.size = T.size /\ T.size \in Nat \ {0} /\ layout.align \in Powers
            /\ pad \in 0 .. 63 /\ Serves(pad, layout.align, reqs)
            /\ padded.align \in Powers /\ 8 <= padded.align
            /\ padded.size = pad + padded.align + layout.size
            /\ padded = [size |-> padded.size, align |-> padded.align]
            /\ layout.align > 64 => padded.align = layout.align
            /\ layout.align <= 64 =>
                 \/ padded.align = 64
                 \/ (padded.align \in {8, 16, 32} /\ pad + layout.size <= padded.align)
<1> DEFINE al == layout.align
           pad == padding_needed_for(layout, reqs)
           align == calc_algn(al, layout.size + pad)
           pads == {q \in 0 .. 63 : Serves(q, al, reqs)}
<1>1. layout.size = T.size /\ T.size \in Nat \ {0} /\ layout = [size |-> T.size, align |-> al]
  BY LayoutAssumption DEF Planned
<1>2. al \in Powers
  BY LayoutAssumption DEF Planned, Powers
<1>3. al \in Nat \ {0}
  BY <1>2, PowersAre
<1>4. Typed(reqs)
  BY RequestsTyped DEF Planned
<1>5. pad >= 0 /\ padded = [size |-> pad + align + layout.size, align |-> align]
  BY DEF Planned, pad_align_to
<1>6. padding_needed_for([size |-> T.size, align |-> al], reqs) = IF pads = {} THEN -1 ELSE Min(pads)
  <2> HIDE DEF al
  <2> QED BY <1>3, <1>4, PaddingIs
<1>7. pad = IF pads = {} THEN -1 ELSE Min(pads)
  BY <1>1, <1>6
<1>8. pad \in 0 .. 63 /\ Serves(pad, al, reqs)
  <2>1. pads # {} /\ pads \subseteq Nat
    <3> HIDE DEF pad
    <3>1. pads \subseteq Nat
      OBVIOUS
    <3> HIDE DEF pads
    <3> QED BY <1>5, <1>7, <3>1
  <2>2. Min(pads) \in pads
    <3> HIDE DEF pads
    <3> QED BY <2>1, MinOf
  <2>3. pad \in pads
    <3> HIDE DEF pad, pads
    <3> QED BY <1>7, <2>1, <2>2
  <2> HIDE DEF pad
  <2> QED BY <2>3
<1> HIDE DEF pad, pads
<1>9. /\ al > 64 => align = al
      /\ al <= 64 => align = 64 \/ (align \in {8, 16, 32} /\ layout.size + pad <= align)
  <2>1. layout.size + pad \in Nat
    BY <1>1, <1>8
  <2> HIDE DEF al
  <2> QED BY <1>2, <2>1, AlgnIs
<1> HIDE DEF al, align
<1>10. align \in Powers /\ align \in Nat /\ 8 <= align
  <2>1. CASE al > 64
    BY <1>2, <1>9, <2>1, PowersAre
  <2>2. CASE al <= 64
    BY <1>9, <2>2, PowersAre
  <2> QED BY <1>3, <2>1, <2>2
<1>11. PICK sz : sz = layout.size
  OBVIOUS
<1>12. PadOf(layout, padded) = pad /\ padded.align = align /\ padded.size = pad + align + sz
  BY <1>1, <1>5, <1>8, <1>10, <1>11 DEF PadOf
<1>13. layout.size + pad = pad + layout.size
  BY <1>1, <1>8
<1> QED BY <1>1, <1>2, <1>5, <1>8, <1>9, <1>10, <1>11, <1>12, <1>13 DEF al

\* Two powers are further apart than a padding that is below the smaller one, and than
\* any padding if that is a line or more.
LEMMA Steps ==
  ASSUME NEW p \in Powers, NEW q \in Powers, NEW d \in 0 .. 63, NEW e \in 0 .. 63,
         p < q, p < 64 => d < p, q < 64 => e < q
  PROVE  d + p # e + q
BY PowersAre

\* The size of a padded layout tells its alignment and its padding, so that a block that
\* clone_from keeps for its size holds the new contents where they must be.
LEMMA SizeTells ==
  ASSUME NEW T \in Type, NEW layout, NEW padded, NEW reqs, Planned(T, layout, padded, reqs),
         NEW layout2, NEW padded2, NEW reqs2, Planned(T, layout2, padded2, reqs2),
         padded.size = padded2.size
  PROVE  padded.align = padded2.align /\ PadOf(layout, padded) = PadOf(layout2, padded2)
<1> DEFINE Fitted(n, al, d, a) ==
             /\ n \in Nat \ {0} /\ al \in Powers /\ d \in 0 .. 63 /\ a \in Powers
             /\ al > 64 => a = al
             /\ al <= 64 => a = 64 \/ (a \in {8, 16, 32} /\ d + n <= a)
<1>1. PICK n, al, d, a : n = T.size /\ al = layout.align /\ d = PadOf(layout, padded) /\ a = padded.align
  OBVIOUS
<1>2. PICK al2, d2, a2 : al2 = layout2.align /\ d2 = PadOf(layout2, padded2) /\ a2 = padded2.align
  OBVIOUS
<1>3. Fitted(n, al, d, a) /\ padded.size = d + a + n
  BY <1>1, PlanIs
<1>4. Fitted(n, al2, d2, a2) /\ padded2.size = d2 + a2 + n
  BY <1>1, <1>2, PlanIs
<1>6. \A m, c, e, p : Fitted(m, c, e, p) => m \in Nat /\ e \in 0 .. 63 /\ p \in Powers /\ p \in Nat /\ (p < 64 => e < p)
  <2> SUFFICES ASSUME NEW m, NEW c, NEW e, NEW p, Fitted(m, c, e, p)
               PROVE  m \in Nat /\ e \in 0 .. 63 /\ p \in Powers /\ p \in Nat /\ (p < 64 => e < p)
    OBVIOUS
  <2>1. c \in Nat /\ p \in Nat
    BY PowersAre
  <2> QED BY <2>1
<1>7. /\ n \in Nat /\ d \in 0 .. 63 /\ a \in Powers /\ a \in Nat /\ (a < 64 => d < a)
      /\ d2 \in 0 .. 63 /\ a2 \in Powers /\ a2 \in Nat /\ (a2 < 64 => d2 < a2)
  <2> HIDE DEF Fitted
  <2> QED BY <1>3, <1>4, <1>6
<1>8. d + a + n = d2 + a2 + n
  BY <1>3, <1>4
<1> HIDE DEF Fitted
<1>9. d + a = d2 + a2
  BY <1>7, <1>8
<1>10. ~(a < a2) /\ ~(a2 < a)
  <2>1. ~(a < a2)
    <3>1. a < a2 => d + a # d2 + a2
      BY <1>7, Steps
    <3> QED BY <1>9, <3>1
  <2>2. ~(a2 < a)
    <3>1. a2 < a => d2 + a2 # d + a
      BY <1>7, Steps
    <3> QED BY <1>9, <3>1
  <2> QED BY <2>1, <2>2
<1>11. a = a2 /\ d = d2
  BY <1>7, <1>9, <1>10
<1> QED BY <1>1, <1>2, <1>11

\* A pointer lies in the block it was made in, with its contents; it keeps the protected
\* bytes from the unsafe ones, whether the block is aligned to a line or to less; and it
\* keeps the alignment of the layout.
LEMMA PointerIs ==
  ASSUME NEW T \in Type, NEW layout, NEW padded, NEW reqs, Planned(T, layout, padded, reqs),
         NEW raw \in Addr
  PROVE  LET ptr == make_aligned_ptr(raw, padded.align, PadOf(layout, padded))
         IN /\ ptr \in Nat /\ raw <= ptr /\ ptr + T.size <= raw + padded.size
            /\ \A p \in Protected(reqs) : (ptr + p) % 64 \notin Unsafe
            /\ T.size % layout.align = 0 => ptr % layout.align = 0
<1>1. PICK n, al, pad, align, u : /\ n = T.size /\ al = layout.align /\ pad = PadOf(layout, padded)
                                  /\ align = padded.align /\ u = RoundUp(raw, align)
  OBVIOUS
<1>2. /\ layout.size = n /\ n \in Nat \ {0} /\ al \in Powers
      /\ pad \in 0 .. 63 /\ Serves(pad, al, reqs) /\ align \in Powers
      /\ padded.size = pad + align + n
      /\ al > 64 => align = al
      /\ al <= 64 => align = 64 \/ (align \in {8, 16, 32} /\ pad + n <= align)
  BY <1>1, PlanIs
<1>3. raw \in Nat /\ raw % 16 = 0
  BY LayoutAssumption
<1>4. u \in Nat /\ raw <= u /\ u < raw + align /\ u % align = 0
  BY <1>1, <1>2, <1>3, RoundUpIs
<1>5. make_aligned_ptr(raw, padded.align, PadOf(layout, padded)) = u + pad
  BY <1>1 DEF make_aligned_ptr, RoundUp
<1>6. al \in Nat /\ align \in Nat
  BY <1>2, PowersAre
<1>7. u + pad \in Nat /\ raw <= u + pad /\ u + pad + n <= raw + (pad + align + n)
  BY <1>2, <1>3, <1>4, <1>6
<1>8. ASSUME NEW p \in Protected(reqs) PROVE ((u + pad) + p) % 64 \notin Unsafe
  <2>1. p \in Nat /\ p < n
    <3>1. check_align_req(n, reqs) /\ Typed(reqs)
      BY <1>1, RequestsTyped DEF Planned
    <3>2. PICK i \in DOMAIN reqs : p \in Bytes(reqs[i])
      BY DEF Protected
    <3>3. PICK o, l : o = reqs[i].offset /\ l = reqs[i].len
      OBVIOUS
    <3>4. o \in Nat /\ l \in Nat /\ o + l <= n /\ p \in o .. o + l - 1
      BY <3>1, <3>2, <3>3 DEF Bytes, Typed, check_align_req
    <3> QED BY <1>2, <3>4
  <2>2. (pad + p) % 64 \notin Unsafe
    BY <1>2 DEF Serves
  <2>3. CASE align \in {8, 16, 32} /\ pad + n <= align
    <3>1. u % 16 = 0 /\ (align = 32 => u % 32 = 0)
      BY <1>3, <1>4, <2>3
    <3>2. pad + p \in Nat /\ pad + p < align
      BY <1>2, <2>1, <2>3, <1>6
    <3>3. u % 64 \in {0, 16, 32, 48} /\ (align = 32 => u % 64 \in {0, 32})
      BY <1>4, <3>1
    <3>4. PICK y : y = pad + p
      OBVIOUS
    <3>5. ((u + pad) + p) % 64 = ((u % 64) + y) % 64
      BY <1>2, <1>4, <2>1, <3>4
    <3>6. (u % 64) + y < 64
      BY <2>3, <3>2, <3>3, <3>4
    <3>7. ((u % 64) + y) % 64 = (u % 64) + y
      BY <1>4, <3>2, <3>4, <3>6
    <3>8. CASE u % 64 = 0
      <4>1. (u % 64) + y = y /\ y < 64 /\ y % 64 = y
        BY <3>2, <3>4, <3>6, <3>8
      <4> QED BY <2>2, <3>4, <3>5, <3>7, <4>1
    <3>9. CASE u % 64 >= 16
      <4>1. (u % 64) + y >= 16
        BY <1>4, <3>2, <3>4, <3>9
      <4> QED BY <3>5, <3>7, <4>1 DEF Unsafe
    <3> QED BY <3>3, <3>8, <3>9
  <2>4. CASE ~(align \in {8, 16, 32} /\ pad + n <= align)
    <3>1. align >= 64
      BY <1>2, <1>6, <2>4
    <3>2. u % 64 = 0
      <4>1. 64 \in Powers
        BY PowersAre
      <4> QED BY <1>2, <1>4, <1>6, <3>1, <4>1, SmallerPower
    <3>3. ((u + pad) + p) % 64 = (pad + p) % 64
      BY <1>2, <1>4, <2>1, <3>2
    <3> QED BY <2>2, <3>3
  <2> QED BY <2>3, <2>4
<1>9. ASSUME n % al = 0 PROVE (u + pad) % al = 0
  <2>1. pad % al = 0
    BY <1>2 DEF Serves
  <2>2. CASE al > 64
    <3>1. align = al /\ pad = 0
      BY <1>2, <1>6, <2>1, <2>2
    <3> QED BY <1>4, <3>1
  <2>3. CASE al <= 64
    <3>1. al \in {1, 2, 4, 8, 16, 32, 64}
      BY <1>2, <2>3, PowersAre
    <3>2. al <= n
      BY <1>2, <1>9, <3>1
    <3>3. al <= align
      BY <1>2, <1>6, <2>3, <3>2
    <3>4. u % al = 0
      BY <1>2, <1>4, <2>3, <3>3, SmallerPower
    <3> QED BY <1>2, <1>4, <2>1, <3>1, <3>4
  <2> QED BY <1>6, <2>2, <2>3
<1>10. PICK ptr : ptr = make_aligned_ptr(raw, padded.align, PadOf(layout, padded))
  OBVIOUS
<1>11. ptr = u + pad /\ T.size = n /\ layout.align = al /\ padded.size = pad + align + n
  BY <1>1, <1>2, <1>5, <1>10
<1>12. /\ ptr \in Nat /\ raw <= ptr /\ ptr + T.size <= raw + padded.size
       /\ \A p \in Protected(reqs) : (ptr + p) % 64 \notin Unsafe
       /\ T.size % layout.align = 0 => ptr % layout.align = 0
  BY <1>7, <1>8, <1>9, <1>11
<1> QED BY <1>10, <1>12

--------------------------------------------------------------------------------
(* The invariant                                                               *)

\* x is the box that alloc_with_pad_align makes in a block at raw.
Fit(T, x, raw) ==
  /\ Planned(T, x.layout, x.padded, x.reqs)
  /\ x.ptr = make_aligned_ptr(raw, x.padded.align, PadOf(x.layout, x.padded))
  /\ x = [ptr |-> x.ptr, layout |-> x.layout, padded |-> x.padded, reqs |-> x.reqs]

BlockAt(raw, padded) == Region(raw, padded.size + Word)
Block(b) == BlockAt(header[b], box[b].padded)

\* The word of each box names its block, blocks are apart, and there are no others.
Placed == \A b \in Live : header[b] \in Addr /\ Fit(type, box[b], header[b])
Separate == \A b, c \in Live : b # c => ~Overlap(Block(b), Block(c))
Owned == heap = {Block(b) : b \in Live}

Typing ==
  /\ type \in Type
  /\ DOMAIN box = Box
  /\ header \in [Box -> Addr \cup {Lost}]
  /\ leaked \in 0 .. MaxLeaked
  /\ aborted \in BOOLEAN

Inv == Typing /\ damaged = {} /\ Placed /\ Separate /\ Owned

\* Where a box may be written: from a word below its block to the last word of it.
Inside(w, raw, n) == w.at \in Int /\ w.len \in Int /\ raw - Word <= w.at /\ w.at + w.len <= raw + n

LEMMA FitIs ==
  ASSUME NEW T \in Type, NEW x, NEW raw \in Addr, Fit(T, x, raw)
  PROVE  /\ x # NoBox
         /\ x.ptr \in Nat /\ x.padded.size \in Nat /\ x.padded \in [size : Nat, align : Nat]
         /\ x.layout.size = T.size /\ raw \in Nat /\ raw <= x.ptr /\ x.ptr + T.size <= raw + x.padded.size
         /\ Inside(Header(x), raw, x.padded.size) /\ Inside(Contents(x), raw, x.padded.size)
         /\ Inside(Region(raw, x.padded.size), raw, x.padded.size)
<1>1. PICK p, l, d, r : p = x.ptr /\ l = x.layout /\ d = x.padded /\ r = x.reqs
  OBVIOUS
<1>2. Planned(T, l, d, r) /\ x = [ptr |-> p, layout |-> l, padded |-> d, reqs |-> r]
  BY <1>1 DEF Fit
<1>3. /\ p = make_aligned_ptr(raw, d.align, PadOf(l, d)) /\ p \in Nat /\ raw <= p /\ p + T.size <= raw + d.size
  <2>1. p = make_aligned_ptr(raw, d.align, PadOf(l, d))
    BY <1>1 DEF Fit
  <2> QED BY <1>2, <2>1, PointerIs
<1>4. /\ l.size = T.size /\ T.size \in Nat \ {0} /\ l \in [size : Nat, align : Nat]
      /\ d.size \in Nat /\ d \in [size : Nat, align : Nat]
  <2>1. PICK a, z, pad : a = d.align /\ z = d.size /\ pad = PadOf(l, d)
    OBVIOUS
  <2>2. /\ l.size = T.size /\ T.size \in Nat \ {0} /\ l.align \in Powers /\ a \in Powers /\ pad \in 0 .. 63
        /\ z = pad + a + l.size /\ d = [size |-> z, align |-> a]
    BY <1>2, <2>1, PlanIs
  <2>3. l \in [size : {T.size}, align : Align \cup {T.align}]
    BY <1>2 DEF Planned
  <2>4. a \in Nat /\ l.align \in Nat
    BY <2>2, PowersAre
  <2>5. z \in Nat
    BY <2>2, <2>4
  <2> QED BY <2>1, <2>2, <2>3, <2>4, <2>5
<1>5. r \in Seq([offset : Nat, len : Nat])
  BY <1>2, RequestsTyped DEF Planned
<1>6. x # NoBox
  <2>1. x \in [ptr : Nat, layout : [size : Nat, align : Nat], padded : [size : Nat, align : Nat],
              reqs : Seq([offset : Nat, len : Nat])]
    BY <1>2, <1>3, <1>4, <1>5
  <2> QED BY <2>1, LayoutAssumption
<1>7. raw \in Nat
  BY LayoutAssumption
<1>8. PICK z : z = d.size
  OBVIOUS
<1>9. z \in Nat /\ p \in Nat /\ raw <= p /\ p + T.size <= raw + z /\ T.size \in Nat
  BY <1>3, <1>4, <1>8
<1>10. /\ Inside(Region(p - Word, Word), raw, z) /\ Inside(Region(p, T.size), raw, z) /\ Inside(Region(raw, z), raw, z)
  BY <1>7, <1>9 DEF Inside, Region, Word
<1> QED BY <1>1, <1>3, <1>4, <1>6, <1>7, <1>8, <1>10 DEF Header, Contents

\* Writes about one block do not reach what lies about another.
LEMMA Apart ==
  ASSUME NEW raw \in Nat, NEW n \in Nat, NEW raw2 \in Nat, NEW n2 \in Nat,
         ~Overlap(Region(raw, n + Word), Region(raw2, n2 + Word)),
         NEW w, Inside(w, raw, n), NEW v, Inside(v, raw2, n2)
  PROVE  ~Overlap(w, v)
BY DEF Overlap, Region, Inside, Word

\* So Place changes the box it is for and no other.
LEMMA PlaceIs ==
  ASSUME Typing, Placed, damaged = {},
         NEW b \in Box, NEW x, NEW raw \in Addr, NEW n \in Nat, NEW writes,
         \A w \in writes : Inside(w, raw, n),
         \A c \in Live : c # b => ~Overlap(Region(raw, n + Word), Block(c)),
         NEW at \in {raw, NoBox}, Place(b, x, at, writes)
  PROVE  /\ box' = [box EXCEPT ![b] = x]
         /\ header' = [header EXCEPT ![b] = IF at = NoBox THEN header[b] ELSE raw]
         /\ damaged' = {}
<1> DEFINE Hit(c, region) == c # b /\ \E w \in writes : Overlap(w, region)
<1>1. ASSUME NEW c \in Live PROVE ~Hit(c, Header(box[c])) /\ ~Hit(c, Contents(box[c]))
  <2>1. CASE c = b
    BY <2>1
  <2>2. CASE c # b
    <3>1. PICK y, at2, n2 : y = box[c] /\ at2 = header[c] /\ n2 = y.padded.size
      OBVIOUS
    <3>2. at2 \in Addr /\ Fit(type, y, at2) /\ type \in Type
      BY <3>1 DEF Placed, Typing
    <3>3. at2 \in Nat /\ n2 \in Nat /\ Inside(Header(y), at2, n2) /\ Inside(Contents(y), at2, n2)
      BY <3>1, <3>2, FitIs
    <3>4. ~Overlap(Region(raw, n + Word), Region(at2, n2 + Word))
      BY <2>2, <3>1 DEF Block, BlockAt
    <3>5. raw \in Nat
      BY LayoutAssumption
    <3>6. \A w \in writes : ~Overlap(w, Header(y)) /\ ~Overlap(w, Contents(y))
      BY <3>3, <3>4, <3>5, Apart
    <3> QED BY <3>1, <3>6
  <2> QED BY <2>1, <2>2
<1> HIDE DEF Hit
<1>2. /\ box' = [box EXCEPT ![b] = x]
      /\ header' = [c \in Box |-> IF c = b /\ at # NoBox THEN at
                                ELSE IF c \in Live /\ Hit(c, Header(box[c])) THEN Lost ELSE header[c]]
      /\ damaged' = {c \in Live : Hit(c, Contents(box[c]))} \cup (IF at = NoBox THEN damaged ELSE damaged \ {b})
  BY DEF Place, Hit
<1>3. damaged' = {}
  BY <1>1, <1>2
<1>4. \A c \in Box : header'[c] = IF c = b /\ at # NoBox THEN at ELSE header[c]
  BY <1>1, <1>2
<1>5. header \in [Box -> Addr \cup {Lost}]
  BY DEF Typing
<1>6. header' = [header EXCEPT ![b] = IF at = NoBox THEN header[b] ELSE raw]
  <2>1. header' = [c \in Box |-> IF c = b /\ at # NoBox THEN at ELSE header[c]]
    BY <1>2, <1>4
  <2>2. [header EXCEPT ![b] = IF at = NoBox THEN header[b] ELSE raw]
          = [c \in Box |-> IF c = b THEN IF at = NoBox THEN header[b] ELSE raw ELSE header[c]]
    BY <1>5
  <2>3. at # NoBox => at = raw
    OBVIOUS
  <2> QED BY <2>1, <2>2, <2>3
<1> QED BY <1>2, <1>3, <1>6

\* What must hold of the new block for the invariant to hold after box b becomes x in it.
LEMMA InvAfter ==
  ASSUME Inv, NEW b \in Box, NEW x, NEW raw \in Addr, Fit(type, x, raw),
         type' = type, leaked' \in 0 .. MaxLeaked, aborted' \in BOOLEAN,
         box' = [box EXCEPT ![b] = x], header' = [header EXCEPT ![b] = raw], damaged' = {},
         \A c \in Live : c # b => ~Overlap(BlockAt(raw, x.padded), Block(c)),
         heap' = {BlockAt(raw, x.padded)} \cup {Block(c) : c \in Live \ {b}}
  PROVE  Inv'
<1> USE DEF Inv
<1>1. header \in [Box -> Addr \cup {Lost}] /\ DOMAIN box = Box /\ type \in Type
  BY DEF Typing
<1>2. x # NoBox
  BY <1>1, FitIs
<1>3. /\ box'[b] = x /\ header'[b] = raw
      /\ \A c \in Box : c # b => box'[c] = box[c] /\ header'[c] = header[c]
  BY <1>1
<1>4. Typing'
  BY <1>1 DEF Typing
<1>5. Live' = (Live \ {b}) \cup {b}
  BY <1>2, <1>3 DEF Live
<1>6. Live \subseteq Box
  BY DEF Live
<1>7. Block(b)' = BlockAt(raw, x.padded) /\ \A c \in Live : c # b => Block(c)' = Block(c)
  BY <1>3, <1>6 DEF Block, BlockAt
<1>8. Placed'
  BY <1>3, <1>5, <1>6 DEF Placed
<1>9. \A v, w : ~Overlap(v, w) => ~Overlap(w, v)
  BY DEF Overlap
<1> DEFINE B(c) == Block(c)
           new == BlockAt(raw, x.padded)
<1>10. /\ \A c, d \in Live : c # d => ~Overlap(B(c), B(d))
       /\ \A c \in Live : c # b => ~Overlap(new, B(c))
       /\ B(b)' = new /\ \A c \in Live : c # b => B(c)' = B(c)
  BY <1>7 DEF Separate
<1>11. heap' = {new} \cup {B(c) : c \in Live \ {b}}
  OBVIOUS
<1> HIDE DEF B, new
<1>12. \A c, d \in Live' : c # d => ~Overlap(B(c)', B(d)')
  <2> SUFFICES ASSUME NEW c \in Live', NEW d \in Live', c # d PROVE ~Overlap(B(c)', B(d)')
    OBVIOUS
  <2>1. CASE c = b
    BY <1>5, <1>10, <2>1
  <2>2. CASE d = b
    BY <1>5, <1>9, <1>10, <2>2
  <2>3. CASE c # b /\ d # b
    BY <1>5, <1>10, <2>3
  <2> QED BY <2>1, <2>2, <2>3
<1>13. heap' = {B(c)' : c \in Live'}
  BY <1>5, <1>10, <1>11
<1>14. Separate' /\ Owned'
  BY <1>12, <1>13 DEF Separate, Owned, B
<1> QED BY <1>4, <1>8, <1>14

\* No two words name one block.
LEMMA HeadersDiffer ==
  ASSUME Inv, NEW b \in Live, NEW c \in Live, header[b] = header[c]
  PROVE  b = c
<1> SUFFICES ASSUME b # c PROVE FALSE
  OBVIOUS
<1>1. PICK raw, n, m : raw = header[b] /\ n = box[b].padded.size /\ m = box[c].padded.size
  OBVIOUS
<1>2. n \in Nat /\ m \in Nat /\ raw \in Nat
  BY <1>1, FitIs DEF Inv, Placed, Typing
<1>3. ~Overlap(Region(raw, n + Word), Region(raw, m + Word))
  BY <1>1 DEF Inv, Separate, Block, BlockAt
<1> QED BY <1>2, <1>3 DEF Overlap, Region, Word

\* The blocks left when b gives its own back.
LEMMA FreedIs ==
  ASSUME Inv, NEW b \in Live
  PROVE  Freed(b) = {Block(c) : c \in Live \ {b}}
<1> USE DEF Inv
<1>1. \A c \in Live : Block(c).at = header[c] /\ header[c] \in Nat /\ Block(c).len \in Nat /\ Block(c).len > 0
  <2> TAKE c \in Live
  <2>1. header[c] \in Addr /\ Fit(type, box[c], header[c]) /\ type \in Type
    BY DEF Placed, Typing
  <2>2. PICK n : n = box[c].padded.size
    OBVIOUS
  <2>3. n \in Nat /\ header[c] \in Nat
    BY <2>1, <2>2, FitIs
  <2> QED BY <2>2, <2>3 DEF Block, BlockAt, Region, Word
<1>2. \A c \in Live : c # b => header[c] # header[b]
  <2> SUFFICES ASSUME NEW c \in Live, c # b, header[c] = header[b] PROVE FALSE
    OBVIOUS
  <2>1. ~Overlap(Block(b), Block(c))
    BY DEF Separate
  <2> QED BY <1>1, <2>1 DEF Overlap
<1>3. Freed(b) = {y \in heap : y.at # header[b]}
  BY DEF Freed
<1> QED BY <1>1, <1>2, <1>3 DEF Owned

\* Box b becomes x in a block at raw, away from all blocks there were; its own, if it
\* had one, is released.
Moves(b, x, raw) ==
  /\ Fit(type, x, raw)
  /\ box' = [box EXCEPT ![b] = x] /\ header' = [header EXCEPT ![b] = raw] /\ damaged' = {}
  /\ \A c \in Live : ~Overlap(BlockAt(raw, x.padded), Block(c))
  /\ heap' = {BlockAt(raw, x.padded)} \cup {Block(c) : c \in Live \ {b}}

\* That is what an allocation does.
LEMMA AllocationIs ==
  ASSUME Inv, NEW b \in Box, NEW layout, NEW padded, NEW reqs, Planned(type, layout, padded, reqs),
         alloc_with_pad_align(b, layout, padded, reqs)
  PROVE  \E raw, x :
           raw \in Addr /\ Moves(b, x, raw) /\ x.layout = layout /\ x.padded = padded /\ x.reqs = reqs
<1> USE DEF Inv
<1> DEFINE X(raw) == [ptr |-> make_aligned_ptr(raw, padded.align, PadOf(layout, padded)),
                      layout |-> layout, padded |-> padded, reqs |-> reqs]
           Writes(raw) == {Region(raw, padded.size), Header(X(raw)), Contents(X(raw))}
<1>1. PICK raw \in Addr :
        /\ \A y \in heap : ~Overlap(Region(raw, padded.size + Word), y)
        /\ heap' = {Region(raw, padded.size + Word)}
                      \cup (IF b \in Live /\ \A w \in Writes(raw) : ~Overlap(w, Header(box[b]))
                           THEN Freed(b) ELSE heap)
        /\ Place(b, X(raw), raw, Writes(raw))
  BY DEF alloc_with_pad_align
<1>2. PICK x, writes : x = X(raw) /\ writes = Writes(raw)
  OBVIOUS
<1>3. /\ Fit(type, x, raw) /\ x.padded = padded
      /\ writes = {Region(raw, x.padded.size), Header(x), Contents(x)}
  BY <1>2 DEF Fit
<1> DEFINE n == padded.size
           new == BlockAt(raw, padded)
<1>4. type \in Type /\ raw \in Nat /\ n \in Nat /\ \A w \in writes : Inside(w, raw, n)
  <2>1. type \in Type
    BY DEF Typing
  <2>2. raw \in Nat /\ x.padded.size \in Nat /\ \A w \in writes : Inside(w, raw, x.padded.size)
    BY <1>3, <2>1, FitIs
  <2> QED BY <1>3, <2>1, <2>2
<1>5. new = Region(raw, n + Word) /\ \A c \in Live : Block(c) \in heap
  BY DEF BlockAt, Owned
<1> HIDE DEF X, Writes
<1>6. \A c \in Live : ~Overlap(new, Block(c))
  BY <1>1, <1>5
<1>7. /\ box' = [box EXCEPT ![b] = x] /\ damaged' = {} /\ header' = [header EXCEPT ![b] = raw]
  <2>1. Place(b, x, raw, writes) /\ raw # NoBox
    BY <1>1, <1>2, LayoutAssumption
  <2>2. \A c \in Live : c # b => ~Overlap(Region(raw, n + Word), Block(c))
    BY <1>5, <1>6
  <2>3. raw \in {raw, NoBox}
    OBVIOUS
  <2> HIDE DEF n, new
  <2>4. /\ box' = [box EXCEPT ![b] = x] /\ damaged' = {}
        /\ header' = [header EXCEPT ![b] = IF raw = NoBox THEN header[b] ELSE raw]
    BY <1>4, <2>1, <2>2, <2>3, PlaceIs
  <2> QED BY <2>1, <2>4
<1>8. heap' = {new} \cup {Block(c) : c \in Live \ {b}}
  <2>1. CASE b \in Live
    <3>1. PICK y, at2, n2 : y = box[b] /\ at2 = header[b] /\ n2 = y.padded.size
      OBVIOUS
    <3>2. at2 \in Addr /\ Fit(type, y, at2)
      BY <2>1, <3>1 DEF Placed
    <3>3. at2 \in Nat /\ n2 \in Nat /\ Inside(Header(y), at2, n2)
      BY <1>4, <3>1, <3>2, FitIs
    <3>4. ~Overlap(Region(raw, n + Word), Region(at2, n2 + Word))
      BY <1>5, <1>6, <2>1, <3>1 DEF Block, BlockAt
    <3> HIDE DEF n, new
    <3>5. \A w \in writes : ~Overlap(w, Header(y))
      BY <1>4, <3>3, <3>4, Apart
    <3>6. heap' = {new} \cup Freed(b)
      BY <1>1, <1>2, <1>5, <2>1, <3>1, <3>5 DEF n
    <3> QED BY <2>1, <3>6, FreedIs
  <2>2. CASE b \notin Live
    <3>1. Live \ {b} = Live
      BY <2>2
    <3>2. heap' = {new} \cup heap
      BY <1>1, <1>5, <2>2
    <3> QED BY <3>1, <3>2 DEF Owned
  <2> QED BY <2>1, <2>2
<1>9. new = BlockAt(raw, x.padded)
  BY <1>3
<1> HIDE DEF new, n
<1>10. /\ \A c \in Live : ~Overlap(BlockAt(raw, x.padded), Block(c))
       /\ heap' = {BlockAt(raw, x.padded)} \cup {Block(c) : c \in Live \ {b}}
  BY <1>6, <1>8, <1>9
<1>11. x.layout = layout /\ x.reqs = reqs
  BY <1>2 DEF X
<1>12. raw \in Addr
  OBVIOUS
<1> HIDE DEF Inv
<1>13. Moves(b, x, raw)
  BY <1>3, <1>7, <1>10 DEF Moves
<1> QED BY <1>3, <1>11, <1>12, <1>13

LEMMA AllocationKeeps ==
  ASSUME Inv, NEW b \in Box, NEW layout, NEW padded, NEW reqs, Planned(type, layout, padded, reqs),
         type' = type, leaked' \in 0 .. MaxLeaked, aborted' \in BOOLEAN,
         alloc_with_pad_align(b, layout, padded, reqs)
  PROVE  Inv'
<1>1. PICK raw, x : raw \in Addr /\ Moves(b, x, raw)
  BY AllocationIs
<1> QED BY <1>1, InvAfter DEF Moves

\* A block that is kept, for contents of the same padded size.
LEMMA KeepingIs ==
  ASSUME Inv, NEW b \in Live, NEW x, Fit(type, x, header[b]), x.padded.size = box[b].padded.size,
         Place(b, x, NoBox, {Contents(x)})
  PROVE  box' = [box EXCEPT ![b] = x] /\ damaged' = {} /\ UNCHANGED header
<1>1. PICK raw, n, writes : raw = header[b] /\ n = x.padded.size /\ writes = {Contents(x)}
  OBVIOUS
<1>2. /\ Typing /\ Placed /\ damaged = {} /\ Separate
      /\ b \in Box /\ raw \in Addr /\ Fit(type, x, raw) /\ type \in Type
  BY <1>1 DEF Inv, Placed, Live, Typing
<1>3. raw \in Nat /\ n \in Nat /\ \A w \in writes : Inside(w, raw, n)
  BY <1>1, <1>2, FitIs
<1>4. Region(raw, n + Word) = Block(b)
  BY <1>1 DEF Block, BlockAt
<1>5. \A c \in Live : c # b => ~Overlap(Region(raw, n + Word), Block(c))
  BY <1>2, <1>4 DEF Separate
<1>6. header \in [Box -> Addr \cup {Lost}]
  BY <1>2 DEF Typing
<1>7. Place(b, x, NoBox, writes) /\ NoBox \in {raw, NoBox}
  BY <1>1
<1>8. /\ box' = [box EXCEPT ![b] = x] /\ damaged' = {}
      /\ header' = [header EXCEPT ![b] = IF NoBox = NoBox THEN header[b] ELSE raw]
  BY <1>2, <1>3, <1>5, <1>7, PlaceIs
<1> QED BY <1>2, <1>6, <1>8

LEMMA KeepingKeeps ==
  ASSUME Inv, NEW b \in Live, NEW x, Fit(type, x, header[b]), x.padded.size = box[b].padded.size,
         Place(b, x, NoBox, {Contents(x)}), UNCHANGED <<type, heap, leaked, aborted>>
  PROVE  Inv'
<1>1. PICK raw : raw = header[b]
  OBVIOUS
<1>2. /\ Typing /\ Placed /\ Separate /\ Owned
      /\ b \in Box /\ raw \in Addr /\ Fit(type, x, raw) /\ header \in [Box -> Addr \cup {Lost}]
  BY <1>1 DEF Inv, Placed, Live, Typing
<1>3. box' = [box EXCEPT ![b] = x] /\ damaged' = {} /\ header' = [header EXCEPT ![b] = raw]
  BY <1>1, <1>2, KeepingIs
<1>4. BlockAt(raw, x.padded) = Block(b)
  BY <1>1 DEF Block, BlockAt
<1>5. heap' = {BlockAt(raw, x.padded)} \cup {Block(c) : c \in Live \ {b}}
  BY <1>2, <1>4 DEF Owned
<1>6. \A c \in Live : c # b => ~Overlap(BlockAt(raw, x.padded), Block(c))
  BY <1>2, <1>4 DEF Separate
<1>7. type' = type /\ leaked' \in 0 .. MaxLeaked /\ aborted' \in BOOLEAN
  BY <1>2 DEF Typing
<1> QED BY <1>2, <1>3, <1>5, <1>6, <1>7, InvAfter

LEMMA DropKeeps ==
  ASSUME Inv, NEW b \in Live, drop(b)
  PROVE  Inv'
<1>1. /\ Typing /\ Placed /\ damaged = {} /\ Separate /\ Owned /\ b \in Box /\ Live \subseteq Box
      /\ header \in [Box -> Addr \cup {Lost}] /\ DOMAIN box = Box
  BY DEF Inv, Live, Typing
<1>2. /\ box' = [box EXCEPT ![b] = NoBox] /\ header' = [header EXCEPT ![b] = Lost]
      /\ damaged' = damaged \ {b} /\ heap' = Freed(b) /\ UNCHANGED <<type, leaked, aborted>>
  BY DEF drop
<1>3. Typing' /\ damaged' = {}
  BY <1>1, <1>2 DEF Typing
<1>4. box'[b] = NoBox /\ \A c \in Box : c # b => box'[c] = box[c] /\ header'[c] = header[c]
  BY <1>1, <1>2
<1>5. Live' = Live \ {b}
  BY <1>4 DEF Live
<1>6. \A c \in Live' : Block(c)' = Block(c) /\ box'[c] = box[c] /\ header'[c] = header[c] /\ c \in Live
  BY <1>1, <1>4, <1>5 DEF Block
<1>7. Placed'
  BY <1>1, <1>2, <1>6 DEF Placed
<1>8. Separate'
  <2>1. \A c, d \in Live : c # d => ~Overlap(Block(c), Block(d))
    BY <1>1 DEF Separate
  <2>2. \A c, d \in Live' : c # d => ~Overlap(Block(c)', Block(d)')
    <3> TAKE c, d \in Live'
    <3>1. Block(c)' = Block(c) /\ Block(d)' = Block(d) /\ c \in Live /\ d \in Live
      BY <1>6
    <3> QED BY <2>1, <3>1
  <2> QED BY <2>2 DEF Separate
<1>9. Owned'
  <2> DEFINE B(c) == Block(c)
  <2>1. heap' = {B(c) : c \in Live'}
    BY <1>2, <1>5, FreedIs
  <2>2. \A c \in Live' : B(c)' = B(c)
    BY <1>6
  <2> HIDE DEF B
  <2>3. heap' = {B(c)' : c \in Live'}
    BY <2>1, <2>2
  <2> QED BY <2>3 DEF Owned, B
<1> QED BY <1>3, <1>7, <1>8, <1>9 DEF Inv

--------------------------------------------------------------------------------
(* The operations                                                              *)

LEMMA InitHolds == Init => Inv
<1> SUFFICES ASSUME Init PROVE Inv
  OBVIOUS
<1>1. Typing /\ damaged = {}
  <2>1. 0 \in 0 .. MaxLeaked
    BY LayoutAssumption
  <2>2. DOMAIN box = Box /\ header \in [Box -> Addr \cup {Lost}]
    BY DEF Init
  <2> QED BY <2>1, <2>2 DEF Init, Typing
<1>2. Live = {} /\ heap = {}
  BY DEF Init, Live
<1> QED BY <1>1, <1>2 DEF Inv, Placed, Separate, Owned

\* The program has ended, with the boxes as they were.
LEMMA AbortKeeps ==
  ASSUME Inv, Abort, leaked' \in 0 .. MaxLeaked
  PROVE  Inv'
<1>1. UNCHANGED <<type, box, header, damaged, heap>> /\ aborted' = TRUE
  BY DEF Abort
<1> QED BY <1>1 DEF Inv, Typing, Placed, Separate, Owned, Live, Block

LEMMA AllocateKeeps ==
  ASSUME Inv, NEW b \in Box, NEW align \in Align \cup {type.align},
         NEW reqs \in Requests \cup {WholeOf(type)},
         leaked + 2 <= MaxLeaked, allocate_in(b, align, reqs)
  PROVE  Inv'
<1> DEFINE layout == [size |-> type.size, align |-> align]
           pad == padding_needed_for(layout, reqs)
           padded == pad_align_to(layout, reqs)
<1>1. Typing /\ leaked \in Nat /\ aborted \in BOOLEAN
  BY DEF Inv, Typing
<1>2. /\ leaked + 1 \in 0 .. MaxLeaked /\ leaked + 2 \in 0 .. MaxLeaked
  BY <1>1, LayoutAssumption
<1>3. CASE pad < 0 /\ leaked' = leaked + 1 /\ UNCHANGED <<type, box, header, damaged, heap, aborted>>
  BY <1>2, <1>3 DEF Inv, Typing, Placed, Separate, Owned, Live, Block
<1>4. CASE pad >= 0 /\ leaked' = leaked + 2 /\ alloc_with_pad_align(b, layout, padded, reqs) /\ UNCHANGED <<type, aborted>>
  <2>1. check_align_req(type.size, reqs)
    BY DEF allocate_in
  <2>2. layout \in [size : {type.size}, align : Align \cup {type.align}]
    OBVIOUS
  <2>3. PICK l, d : l = layout /\ d = padded
    OBVIOUS
  <2> HIDE DEF layout, pad, padded
  <2>4. Planned(type, l, d, reqs)
    BY <1>4, <2>1, <2>2, <2>3 DEF Planned, pad, padded
  <2>5. alloc_with_pad_align(b, l, d, reqs)
    BY <1>4, <2>3
  <2> QED BY <1>1, <1>2, <1>4, <2>4, <2>5, AllocationKeeps
<1>5. CASE Abort /\ leaked' \in {leaked + 1, leaked + 2}
  BY <1>2, <1>5, AbortKeeps
<1> QED BY <1>3, <1>4, <1>5 DEF allocate_in

\* A box whose block is kept for the contents of source fits it: equal padded sizes have
\* equal paddings and alignments.
LEMMA KeptFits ==
  ASSUME Inv, NEW b \in Live, NEW source \in Live, NEW x,
         box[source].padded.size = box[b].padded.size, x = [box[source] EXCEPT !.ptr = box[b].ptr]
  PROVE  /\ Fit(type, x, header[b]) /\ x.padded.size = box[b].padded.size
         /\ x.layout = box[source].layout /\ x.padded = box[source].padded /\ x.reqs = box[source].reqs
<1>1. type \in Type
  BY DEF Inv, Typing
<1>2. PICK s, at2, y, raw : s = box[source] /\ at2 = header[source] /\ y = box[b] /\ raw = header[b]
  OBVIOUS
<1>3. /\ Fit(type, s, at2) /\ Planned(type, s.layout, s.padded, s.reqs)
      /\ Fit(type, y, raw) /\ Planned(type, y.layout, y.padded, y.reqs)
  BY <1>2 DEF Inv, Placed, Fit
<1>4. s.padded.align = y.padded.align /\ PadOf(s.layout, s.padded) = PadOf(y.layout, y.padded)
  BY <1>1, <1>2, <1>3, SizeTells
<1>5. y.ptr = make_aligned_ptr(raw, y.padded.align, PadOf(y.layout, y.padded))
  BY <1>3 DEF Fit
<1>6. s = [ptr |-> s.ptr, layout |-> s.layout, padded |-> s.padded, reqs |-> s.reqs]
  BY <1>3 DEF Fit
<1>7. x = [ptr |-> y.ptr, layout |-> s.layout, padded |-> s.padded, reqs |-> s.reqs]
  BY <1>2, <1>6
<1>8. Fit(type, x, raw)
  BY <1>3, <1>4, <1>5, <1>7 DEF Fit
<1> QED BY <1>2, <1>7, <1>8

LEMMA CloneKeeps ==
  ASSUME Inv, NEW b \in Box, NEW source \in Live, clone(b, source) \/ clone_from(b, source)
  PROVE  Inv'
<1>1. Typing /\ leaked \in 0 .. MaxLeaked /\ aborted \in BOOLEAN /\ type \in Type
  BY DEF Inv, Typing
<1>2. PICK s, at2 : s = box[source] /\ at2 = header[source]
  OBVIOUS
<1>3. Fit(type, s, at2) /\ Planned(type, s.layout, s.padded, s.reqs)
  BY <1>2 DEF Inv, Placed, Fit
<1>4. CASE alloc_with_pad_align(b, s.layout, s.padded, s.reqs) /\ UNCHANGED <<type, leaked, aborted>>
  BY <1>1, <1>3, <1>4, AllocationKeeps
<1>5. CASE Abort /\ UNCHANGED leaked
  BY <1>1, <1>5, AbortKeeps
<1>6. ASSUME NEW x, b \in Live, s.padded.size = box[b].padded.size, x = [s EXCEPT !.ptr = box[b].ptr],
             Place(b, x, NoBox, {Contents(x)}), UNCHANGED <<type, heap, leaked, aborted>>
      PROVE  Inv'
  BY <1>2, <1>6, KeptFits, KeepingKeeps
<1> QED BY <1>2, <1>4, <1>5, <1>6 DEF clone, clone_from

LEMMA DerefKeeps ==
  ASSUME Inv, NEW b \in Live, deref_mut(b)
  PROVE  Inv'
<1>1. Fit(type, box[b], header[b])
  BY DEF Inv, Placed
<1>2. Place(b, box[b], NoBox, {Contents(box[b])}) /\ UNCHANGED <<type, heap, leaked, aborted>>
  BY DEF deref_mut
<1> QED BY <1>1, <1>2, KeepingKeeps

LEMMA StepKeeps == Inv /\ [Next]_vars => Inv'
<1> SUFFICES ASSUME Inv, [Next]_vars PROVE Inv'
  OBVIOUS
<1>1. Live \subseteq Box
  BY DEF Live
<1>2. Whole = WholeOf(type)
  BY DEF Whole, WholeOf
<1>3. ASSUME NEW b \in Box, NEW align \in Align, leaked + 2 <= MaxLeaked, new_with_align(b, align)
      PROVE  Inv'
  BY <1>2, <1>3, AllocateKeeps DEF new_with_align
<1>4. ASSUME NEW b \in Box, NEW align \in Align, NEW reqs \in Requests, leaked + 2 <= MaxLeaked,
             new_with_req(b, align, reqs)
      PROVE  Inv'
  <2>1. CASE allocate_in(b, type.align, Whole)
    BY <1>2, <1>4, <2>1, AllocateKeeps
  <2>2. CASE allocate_in(b, align, reqs)
    BY <1>4, <2>2, AllocateKeeps
  <2> QED BY <1>4, <2>1, <2>2 DEF new_with_req
<1>5. CASE UNCHANGED vars
  BY <1>5 DEF vars, Inv, Typing, Placed, Separate, Owned, Live, Block
<1> QED BY <1>1, <1>3, <1>4, <1>5, CloneKeeps, DerefKeeps, DropKeeps DEF Next

LEMMA InvHolds == Spec => []Inv
BY InitHolds, StepKeeps, PTL DEF Spec

--------------------------------------------------------------------------------
(* The theorems                                                                *)

\* Pointers, layouts, words and blocks stay what AlignBox and malloc make them: a
\* padding is never so large that a size or a pointer is not a number.
THEOREM TypeCorrect == Spec => []TypeOK
<1>1. Inv => TypeOK
  <2> SUFFICES ASSUME Inv PROVE TypeOK
    OBVIOUS
  <2>1. Typing /\ damaged = {}
    BY DEF Inv
  <2>2. ASSUME NEW b \in Live
        PROVE  /\ box[b].ptr \in Nat
               /\ box[b].layout \in [size : {type.size}, align : Align \cup {type.align}]
               /\ box[b].padded \in [size : Nat, align : Nat]
               /\ box[b].reqs \in Requests \cup {Whole}
               /\ Block(b).at \in Addr /\ Block(b).len \in Nat
    <3>1. PICK x, raw : x = box[b] /\ raw = header[b]
      OBVIOUS
    <3>2. raw \in Addr /\ Fit(type, x, raw)
      BY <3>1 DEF Inv, Placed
    <3>3. Planned(type, x.layout, x.padded, x.reqs) /\ Whole = WholeOf(type)
      BY <3>2 DEF Fit, Whole, WholeOf
    <3>4. x.ptr \in Nat /\ x.padded \in [size : Nat, align : Nat] /\ x.padded.size \in Nat
      BY <2>1, <3>2, FitIs DEF Typing
    <3> QED BY <3>1, <3>2, <3>3, <3>4 DEF Planned, Block, BlockAt, Region, Word
  <2>3. \A y \in heap : y.at \in Addr /\ y.len \in Nat
    BY <2>2 DEF Inv, Owned
  <2> QED BY <2>1, <2>2, <2>3 DEF TypeOK, Typing
<1> QED BY <1>1, InvHolds, PTL

\* Wherever malloc puts a block, and also when clone_from keeps one for contents with
\* other requests, no byte that a request protects is at an unsafe byte of a line.
THEOREM SecretsStayPlaced == Spec => []SecretsPlaced
<1>1. Inv => SecretsPlaced
  <2> SUFFICES ASSUME Inv, NEW b \in Live, NEW p \in Protected(box[b].reqs)
               PROVE  (box[b].ptr + p) % 64 \notin Unsafe
    BY DEF SecretsPlaced
  <2>1. PICK x, raw : x = box[b] /\ raw = header[b]
    OBVIOUS
  <2>2. raw \in Addr /\ Fit(type, x, raw) /\ type \in Type
    BY <2>1 DEF Inv, Placed, Typing
  <2>3. /\ Planned(type, x.layout, x.padded, x.reqs)
        /\ x.ptr = make_aligned_ptr(raw, x.padded.align, PadOf(x.layout, x.padded))
    BY <2>2 DEF Fit
  <2> QED BY <2>1, <2>2, <2>3, PointerIs
<1> QED BY <1>1, InvHolds, PTL

\* padding_needed_for refuses a request only when no padding serves it, and gives the
\* least one that does.
THEOREM PaddingIsLeast == Spec => []PadIsLeast
<1>1. Inv => PadIsLeast
  <2> SUFFICES ASSUME Inv, NEW align \in Align, NEW reqs \in Requests
               PROVE  padding_needed_for([size |-> type.size, align |-> align], reqs)
                        = LET pads == {pad \in 0 .. 63 : Serves(pad, align, reqs)}
                          IN IF pads = {} THEN -1 ELSE Min(pads)
    BY DEF PadIsLeast
  <2>1. type \in Type
    BY DEF Inv, Typing
  <2>2. Typed(reqs)
    BY <2>1, RequestsTyped
  <2>3. align \in Powers
    BY LayoutAssumption DEF Powers
  <2>4. align \in Nat \ {0}
    BY <2>3, PowersAre
  <2> QED BY <2>2, <2>4, PaddingIs
<1> QED BY <1>1, InvHolds, PTL

\* The pointer of a box has the alignment of its layout, if the size is a multiple of it,
\* although the block may be aligned to less than a line.
THEOREM PointersAligned == Spec => []PointerAligned
<1>1. Inv => PointerAligned
  <2> SUFFICES ASSUME Inv, NEW b \in Live, type.size % box[b].layout.align = 0
               PROVE  box[b].ptr % box[b].layout.align = 0
    BY DEF PointerAligned
  <2>1. PICK x, raw : x = box[b] /\ raw = header[b]
    OBVIOUS
  <2>2. raw \in Addr /\ Fit(type, x, raw) /\ type \in Type
    BY <2>1 DEF Inv, Placed, Typing
  <2>3. /\ Planned(type, x.layout, x.padded, x.reqs)
        /\ x.ptr = make_aligned_ptr(raw, x.padded.align, PadOf(x.layout, x.padded))
    BY <2>2 DEF Fit
  <2> QED BY <2>1, <2>2, <2>3, PointerIs
<1> QED BY <1>1, InvHolds, PTL

\* The contents of a box lie in the block that its word names, and nothing done to one
\* box, with the word that may be below its block, reaches another.
THEOREM BoxesStayIndependent == Spec => []BoxesIndependent
<1>1. Inv => BoxesIndependent
  <2> SUFFICES ASSUME Inv, NEW b \in Live
               PROVE  /\ b \notin damaged
                      /\ \E y \in heap : /\ header[b] = y.at
                                        /\ y.at <= box[b].ptr
                                        /\ box[b].ptr + type.size <= y.at + y.len
    BY DEF BoxesIndependent
  <2>1. PICK x, raw, n : x = box[b] /\ raw = header[b] /\ n = x.padded.size
    OBVIOUS
  <2>2. raw \in Addr /\ Fit(type, x, raw) /\ type \in Type
    BY <2>1 DEF Inv, Placed, Typing
  <2>3. x.ptr \in Nat /\ n \in Nat /\ raw \in Nat /\ raw <= x.ptr /\ x.ptr + type.size <= raw + n
    BY <2>1, <2>2, FitIs
  <2>4. Block(b) = [at |-> raw, len |-> n + 8] /\ Block(b) \in heap
    BY <2>1 DEF Inv, Owned, Block, BlockAt, Region, Word
  <2>5. type.size \in Nat
    BY <2>2, LayoutAssumption
  <2>6. raw + n <= raw + (n + 8) /\ x.ptr + type.size <= raw + (n + 8)
    BY <2>3, <2>5
  <2> QED BY <2>1, <2>3, <2>4, <2>6 DEF Inv
<1> QED BY <1>1, InvHolds, PTL

\* Every block malloc gave belongs to one box: clones lose none and none is freed twice.
THEOREM HeapStaysOwned == Spec => []HeapIsOwned
<1>1. Inv => HeapIsOwned
  <2> SUFFICES ASSUME Inv PROVE HeapIsOwned
    OBVIOUS
  <2>1. \A y \in heap : \E b \in Live : header[b] = y.at
    BY DEF Inv, Owned, Block, BlockAt, Region
  <2>2. \A b, c \in Live : header[b] = header[c] => b = c
    BY HeadersDiffer
  <2> QED BY <2>1, <2>2 DEF HeapIsOwned
<1> QED BY <1>1, InvHolds, PTL
--------------------------------------------------------------------------------
(* The boxes as owners of blocks                                               *)

TermsOf(x) == [x EXCEPT !.ptr = 0]

\* What the mapping says of a box and of the blocks.
MapFits ==
  /\ Live \subseteq Box
  /\ \A b \in Live : terms[b] = TermsOf(box[b]) /\ terms[b] # NoBox /\ block[b] = header[b]
  /\ \A b \in Box \ Live : terms[b] = NoBox /\ block[b] = NoBox
  /\ used = {header[b] : b \in Live}
  /\ terms = [b \in Box |-> terms[b]] /\ block = [b \in Box |-> block[b]]
  /\ \A b \in Live : header[b] \in Addr
  /\ \A b, c \in Live : header[b] = header[c] => b = c

LEMMA MapIs == Inv => MapFits
<1> SUFFICES ASSUME Inv PROVE MapFits
  OBVIOUS
<1>1. Live \subseteq Box /\ damaged = {} /\ Owned /\ Placed /\ type \in Type
  BY DEF Live, Inv, Typing
<1>2. ASSUME NEW b \in Live
      PROVE  terms[b] = TermsOf(box[b]) /\ terms[b] # NoBox /\ block[b] = header[b] /\ header[b] \in Addr
  <2>1. terms[b] = TermsOf(box[b]) /\ block[b] = header[b] /\ header[b] \in Addr
    BY <1>1 DEF terms, block, TermsOf, Placed
  <2>2. PICK x, raw : x = box[b] /\ raw = header[b]
    OBVIOUS
  <2>3. raw \in Addr /\ Fit(type, x, raw)
    BY <1>1, <2>2 DEF Placed
  <2>4. /\ Planned(type, x.layout, x.padded, x.reqs) /\ x.padded \in [size : Nat, align : Nat]
        /\ x = [ptr |-> x.ptr, layout |-> x.layout, padded |-> x.padded, reqs |-> x.reqs]
    BY <1>1, <2>3, FitIs DEF Fit
  <2>5. x.layout \in [size : Nat, align : Nat]
    <3>1. type.size \in Nat /\ type.align \in Powers /\ Align \subseteq Powers
      BY <1>1, LayoutAssumption DEF Powers
    <3> QED BY <2>4, <3>1, PowersAre DEF Planned
  <2>6. x.reqs \in Seq([offset : Nat, len : Nat])
    BY <1>1, <2>4, RequestsTyped DEF Planned
  <2>7. TermsOf(x) = [ptr |-> 0, layout |-> x.layout, padded |-> x.padded, reqs |-> x.reqs]
    BY <2>4 DEF TermsOf
  <2>8. TermsOf(x) # NoBox
    BY <2>4, <2>5, <2>6, <2>7, LayoutAssumption
  <2> QED BY <2>1, <2>2, <2>8
<1>3. \A b \in Box \ Live : terms[b] = NoBox /\ block[b] = NoBox
  BY DEF terms, block
<1>4. used = {header[b] : b \in Live}
  <2>1. used = {Block(b).at : b \in Live}
    BY <1>1 DEF used, Owned
  <2> QED BY <2>1 DEF Block, BlockAt, Region
<1>5. terms = [b \in Box |-> terms[b]] /\ block = [b \in Box |-> block[b]]
  BY DEF terms, block
<1>6. \A b, c \in Live : header[b] = header[c] => b = c
  BY HeadersDiffer
<1> QED BY <1>1, <1>2, <1>3, <1>4, <1>5, <1>6 DEF MapFits

\* The invariant and the mapping before and after a step.
Both == Inv /\ Inv' /\ MapFits /\ MapFits'

LEMMA SameImage ==
  ASSUME NEW S, NEW f, NEW g, \A c \in S : f[c] = g[c]
  PROVE  {f[c] : c \in S} = {g[c] : c \in S}
OBVIOUS

\* What is done to one box is not to be seen in what another was made for.
LEMMA OthersKeepTerms ==
  ASSUME MapFits, MapFits', NEW b \in Box, Live' \cup {b} = Live \cup {b},
         \A c \in Box : c # b => box'[c] = box[c]
  PROVE  \A c \in Box : c # b => terms'[c] = terms[c]
<1> SUFFICES ASSUME NEW c \in Box, c # b PROVE terms'[c] = terms[c]
  OBVIOUS
<1>1. CASE c \in Live
  <2>1. c \in Live' /\ box'[c] = box[c]
    BY <1>1
  <2>2. terms'[c] = TermsOf(box'[c])
    BY <2>1 DEF MapFits, TermsOf
  <2>3. terms[c] = TermsOf(box[c])
    BY <1>1 DEF MapFits
  <2> QED BY <2>1, <2>2, <2>3
<1>2. CASE c \notin Live
  <2>1. c \in Box \ Live' /\ c \in Box \ Live
    BY <1>2
  <2> QED BY <2>1 DEF MapFits
<1> QED BY <1>1, <1>2

\* The blocks of the other boxes.
LEMMA OtherBlocks ==
  ASSUME MapFits, NEW b \in Live
  PROVE  {header[c] : c \in Live \ {b}} = used \ {block[b]}
BY DEF MapFits

\* A box that moves gets a block that was free and leaves its own; other boxes, and
\* what they were made for, stay.
LEMMA MoveIs ==
  ASSUME Both, NEW b \in Box, NEW raw \in Addr, NEW x, Moves(b, x, raw)
  PROVE  /\ OB!Move(b)
         /\ terms' = [terms EXCEPT ![b] = TermsOf(x)] /\ TermsOf(x) # NoBox
<1>1. Inv /\ MapFits /\ MapFits'
  BY DEF Both
<1>2. /\ header \in [Box -> Addr \cup {Lost}] /\ DOMAIN box = Box /\ type \in Type
      /\ box' = [box EXCEPT ![b] = x] /\ header' = [header EXCEPT ![b] = raw]
      /\ x # NoBox
  BY <1>1, FitIs DEF Inv, Typing, Moves
<1>3. /\ box'[b] = x /\ header'[b] = raw
      /\ \A c \in Box : c # b => box'[c] = box[c] /\ header'[c] = header[c]
  BY <1>2
<1>4. Live' = Live \cup {b}
  BY <1>2, <1>3 DEF Live
<1>5. \A c \in Live : header[c] # raw
  <2> SUFFICES ASSUME NEW c \in Live, header[c] = raw PROVE FALSE
    OBVIOUS
  <2>1. ~Overlap(BlockAt(raw, x.padded), Block(c))
    BY DEF Moves
  <2>2. PICK n, m : n = x.padded.size /\ m = box[c].padded.size
    OBVIOUS
  <2>3. n \in Nat /\ m \in Nat /\ raw \in Nat
    BY <1>1, <1>2, <2>2, FitIs DEF Moves, Inv, Placed
  <2> QED BY <2>1, <2>2, <2>3 DEF Overlap, Block, BlockAt, Region, Word
<1>6. terms' = [terms EXCEPT ![b] = TermsOf(x)] /\ TermsOf(x) # NoBox
  <2>1. terms'[b] = TermsOf(x) /\ terms'[b] # NoBox
    BY <1>1, <1>3, <1>4 DEF MapFits, TermsOf
  <2>2. \A c \in Box : c # b => terms'[c] = terms[c]
    BY <1>1, <1>3, <1>4, OthersKeepTerms
  <2> QED BY <1>1, <2>1, <2>2 DEF MapFits
<1>7. block' = [block EXCEPT ![b] = raw]
  <2>1. block'[b] = raw /\ \A c \in Box : c # b => block'[c] = block[c]
    BY <1>1, <1>3, <1>4 DEF MapFits
  <2> QED BY <1>1, <2>1 DEF MapFits
<1>8. used' = (used \ {block[b]}) \cup {raw}
  <2>1. used' = {header'[c] : c \in Live \cup {b}}
    BY <1>1, <1>4 DEF MapFits
  <2>2. used' = {header[c] : c \in Live \ {b}} \cup {raw}
    <3>1. used' = {header'[c] : c \in Live \ {b}} \cup {raw}
      BY <1>3, <2>1
    <3>2. \A c \in Live \ {b} : header'[c] = header[c]
      BY <1>1, <1>3 DEF MapFits
    <3> QED BY <3>1, <3>2, SameImage
  <2>3. {header[c] : c \in Live \ {b}} = used \ {block[b]}
    <3>1. CASE b \in Live
      BY <1>1, <3>1, OtherBlocks
    <3>2. CASE b \notin Live
      <4>1. block[b] = NoBox /\ NoBox \notin used
        BY <1>1, <3>2, LayoutAssumption DEF MapFits
      <4>2. Live \ {b} = Live
        BY <3>2
      <4> QED BY <1>1, <4>1, <4>2 DEF MapFits
    <3> QED BY <3>1, <3>2
  <2> QED BY <2>2, <2>3
<1>9. raw \in Addr \ used
  BY <1>1, <1>5 DEF MapFits
<1> QED BY <1>6, <1>7, <1>8, <1>9 DEF OB!Move

\* A box that keeps its block, for what x was made for.
LEMMA KeepIs ==
  ASSUME Both, NEW b \in Live, NEW x, x # NoBox,
         box' = [box EXCEPT ![b] = x], UNCHANGED <<header, heap>>
  PROVE  terms' = [terms EXCEPT ![b] = TermsOf(x)] /\ UNCHANGED <<block, used>>
<1>1. MapFits /\ MapFits' /\ DOMAIN box = Box
  BY DEF Both, Inv, Typing
<1>2. b \in Box /\ box'[b] = x /\ \A c \in Box : c # b => box'[c] = box[c]
  BY <1>1 DEF MapFits
<1>3. Live' = Live
  BY <1>2 DEF Live
<1>4. terms'[b] = TermsOf(x) /\ \A c \in Box : c # b => terms'[c] = terms[c]
  <2>1. b \in Live'
    BY <1>3
  <2>2. terms'[b] = TermsOf(x)
    BY <1>1, <1>2, <2>1 DEF MapFits, TermsOf
  <2> QED BY <1>1, <1>2, <1>3, <2>2, OthersKeepTerms
<1>5. \A c \in Box : block'[c] = block[c]
  BY <1>1, <1>3 DEF MapFits
<1> QED BY <1>1, <1>4, <1>5 DEF MapFits, used

\* Want of memory ends the program.
LEMMA AbortEnds ==
  ASSUME ~aborted, Abort
  PROVE  OB!Next
<1>1. UNCHANGED <<terms, block, used>> /\ aborted' = TRUE
  BY DEF Abort, terms, block, used, Live
<1> QED BY <1>1 DEF OB!Next, OB!End

LEMMA AllocateNew ==
  ASSUME Both, ~aborted, NEW b \in Box, NEW align \in Align \cup {type.align},
         NEW reqs \in Requests \cup {WholeOf(type)}, allocate_in(b, align, reqs)
  PROVE  OB!Next \/ UNCHANGED OB!blockVars
<1> DEFINE layout == [size |-> type.size, align |-> align]
           padded == pad_align_to(layout, reqs)
<1>1. CASE UNCHANGED <<box, header, damaged, heap, aborted>>
  BY <1>1 DEF OB!blockVars, terms, block, used, Live
<1>2. CASE padding_needed_for(layout, reqs) >= 0 /\ alloc_with_pad_align(b, layout, padded, reqs) /\ UNCHANGED aborted
  <2>1. check_align_req(type.size, reqs) /\ box[b] = NoBox
    BY DEF allocate_in
  <2>2. layout \in [size : {type.size}, align : Align \cup {type.align}]
    OBVIOUS
  <2>3. Planned(type, layout, padded, reqs)
    BY <1>2, <2>1, <2>2 DEF Planned
  <2> HIDE DEF layout, padded
  <2>4. PICK raw, x : raw \in Addr /\ Moves(b, x, raw)
    BY <1>2, <2>3, AllocationIs DEF Both
  <2>5. OB!Move(b) /\ terms' = [terms EXCEPT ![b] = TermsOf(x)] /\ TermsOf(x) # NoBox
    BY <2>4, MoveIs
  <2>6. terms[b] = NoBox /\ terms'[b] = TermsOf(x)
    BY <2>1, <2>5 DEF Both, Live, MapFits
  <2> QED BY <1>2, <2>5, <2>6 DEF OB!Next, OB!New
<1>3. CASE Abort
  BY <1>3, AbortEnds
<1> QED BY <1>1, <1>2, <1>3 DEF allocate_in

LEMMA CloneCopies ==
  ASSUME Both, ~aborted, NEW b \in Box, NEW source \in Live, clone(b, source) \/ clone_from(b, source)
  PROVE  OB!Next
<1>1. PICK s, at2 : s = box[source] /\ at2 = header[source]
  OBVIOUS
<1>2. /\ Fit(type, s, at2) /\ Planned(type, s.layout, s.padded, s.reqs) /\ MapFits /\ source \in Box
      /\ s = [ptr |-> s.ptr, layout |-> s.layout, padded |-> s.padded, reqs |-> s.reqs]
  BY <1>1 DEF Both, Inv, Placed, Fit, Live
<1>3. terms[source] = TermsOf(s) /\ terms[source] # NoBox
  BY <1>1, <1>2 DEF MapFits
<1>4. ASSUME NEW x, NEW raw \in Addr, Fit(type, x, raw), x.layout = s.layout, x.padded = s.padded, x.reqs = s.reqs
      PROVE  TermsOf(x) = TermsOf(s)
  BY <1>2, <1>4 DEF Fit, TermsOf
<1>5. CASE alloc_with_pad_align(b, s.layout, s.padded, s.reqs) /\ UNCHANGED aborted
           /\ (box[b] = NoBox \/ (b \in Live /\ b # source))
  <2>1. PICK raw, x : raw \in Addr /\ Moves(b, x, raw) /\ x.layout = s.layout /\ x.padded = s.padded /\ x.reqs = s.reqs
    BY <1>2, <1>5, AllocationIs DEF Both
  <2>2. OB!Move(b) /\ terms' = [terms EXCEPT ![b] = terms[source]]
    <3>1. Fit(type, x, raw)
      BY <2>1 DEF Moves
    <3>2. TermsOf(x) = terms[source]
      BY <1>3, <1>4, <2>1, <3>1
    <3> QED BY <2>1, <3>2, MoveIs
  <2>3. CASE box[b] = NoBox
    <3>1. terms[b] = NoBox /\ terms'[b] = terms[source]
      BY <1>2, <2>2, <2>3 DEF Live, MapFits
    <3> QED BY <1>3, <1>5, <2>2, <3>1 DEF OB!Next, OB!New
  <2>4. CASE b \in Live /\ b # source
    <3>1. terms[b] # NoBox /\ source \in Box \ {b}
      BY <1>2, <2>4 DEF MapFits
    <3>2. OB!CloneFrom(b, source)
      BY <1>3, <2>2, <3>1 DEF OB!CloneFrom
    <3> QED BY <1>5, <3>1, <3>2 DEF OB!Next
  <2> QED BY <1>5, <2>3, <2>4
<1>6. ASSUME NEW x, b \in Live, b # source, s.padded.size = box[b].padded.size, x = [s EXCEPT !.ptr = box[b].ptr],
             Place(b, x, NoBox, {Contents(x)}), UNCHANGED <<type, heap, leaked, aborted>>
      PROVE  OB!Next
  <2>1. /\ Fit(type, x, header[b]) /\ x.padded.size = box[b].padded.size
        /\ x.layout = s.layout /\ x.padded = s.padded /\ x.reqs = s.reqs
    BY <1>1, <1>6, KeptFits DEF Both
  <2>2. box' = [box EXCEPT ![b] = x] /\ UNCHANGED header
    BY <1>6, <2>1, KeepingIs DEF Both
  <2>3. header[b] \in Addr /\ type \in Type
    BY <1>2, <1>6 DEF Both, MapFits, Inv, Typing
  <2>4. x # NoBox
    BY <2>1, <2>3, FitIs
  <2>5. terms' = [terms EXCEPT ![b] = terms[source]] /\ UNCHANGED <<block, used>>
    <3>1. TermsOf(x) = terms[source]
      BY <1>3, <1>4, <2>1, <2>3
    <3> QED BY <1>6, <2>2, <2>4, <3>1, KeepIs
  <2>6. terms[b] # NoBox /\ source \in Box \ {b}
    BY <1>2, <1>6 DEF MapFits
  <2>7. OB!CloneFrom(b, source)
    BY <1>3, <2>5, <2>6 DEF OB!CloneFrom
  <2> QED BY <1>6, <2>6, <2>7 DEF OB!Next
<1>7. CASE Abort
  BY <1>7, AbortEnds
<1> QED BY <1>1, <1>5, <1>6, <1>7 DEF clone, clone_from

LEMMA WriteChangesNothing ==
  ASSUME Both, NEW b \in Live, deref_mut(b)
  PROVE  UNCHANGED OB!blockVars
<1>1. Fit(type, box[b], header[b]) /\ MapFits /\ DOMAIN box = Box
  BY DEF Both, Inv, Placed, Typing
<1>2. Place(b, box[b], NoBox, {Contents(box[b])}) /\ UNCHANGED <<type, heap, leaked, aborted>>
  BY DEF deref_mut
<1>3. box' = [box EXCEPT ![b] = box[b]] /\ UNCHANGED header /\ damaged' = {}
  BY <1>1, <1>2, KeepingIs DEF Both
<1>4. damaged = {} /\ \A c \in Box : box'[c] = box[c]
  BY <1>1, <1>3 DEF Both, Inv
<1>5. Live' = Live
  BY <1>4 DEF Live
<1>6. terms' = terms
  BY <1>3, <1>4, <1>5 DEF terms
<1>7. block' = block /\ used' = used
  BY <1>2, <1>3, <1>5 DEF block, used
<1> QED BY <1>2, <1>6, <1>7 DEF OB!blockVars

LEMMA DropReleases ==
  ASSUME Both, ~aborted, NEW b \in Live, drop(b)
  PROVE  OB!Next
<1>1. MapFits /\ MapFits' /\ DOMAIN box = Box /\ header \in [Box -> Addr \cup {Lost}]
  BY DEF Both, Inv, Typing
<1>2. /\ box' = [box EXCEPT ![b] = NoBox] /\ header' = [header EXCEPT ![b] = Lost] /\ UNCHANGED aborted
      /\ b \in Box
  BY <1>1 DEF drop, MapFits
<1>3. box'[b] = NoBox /\ \A c \in Box : c # b => box'[c] = box[c] /\ header'[c] = header[c]
  BY <1>1, <1>2
<1>4. Live' = Live \ {b}
  BY <1>3 DEF Live
<1>5. terms' = [terms EXCEPT ![b] = NoBox]
  <2>1. terms'[b] = NoBox
    BY <1>1, <1>2, <1>4 DEF MapFits
  <2>2. \A c \in Box : c # b => terms'[c] = terms[c]
    <3>1. Live' \cup {b} = Live \cup {b}
      BY <1>4
    <3> QED BY <1>1, <1>2, <1>3, <3>1, OthersKeepTerms
  <2> QED BY <1>1, <2>1, <2>2 DEF MapFits
<1>6. block' = [block EXCEPT ![b] = NoBox]
  <2>1. block'[b] = NoBox /\ \A c \in Box : c # b => block'[c] = block[c]
    BY <1>1, <1>2, <1>3, <1>4 DEF MapFits
  <2> QED BY <1>1, <2>1 DEF MapFits
<1>7. used' = used \ {block[b]}
  <2>1. used' = {header[c] : c \in Live \ {b}}
    <3>1. used' = {header'[c] : c \in Live \ {b}}
      BY <1>1, <1>4 DEF MapFits
    <3>2. \A c \in Live \ {b} : header'[c] = header[c]
      BY <1>1, <1>3 DEF MapFits
    <3> QED BY <3>1, <3>2, SameImage
  <2> QED BY <1>1, <2>1, OtherBlocks
<1>8. terms[b] # NoBox
  BY <1>1 DEF MapFits
<1> QED BY <1>2, <1>5, <1>6, <1>7, <1>8 DEF OB!Next, OB!Drop

LEMMA StepOwns ==
  ASSUME Both, [Next]_vars
  PROVE  OB!Next \/ UNCHANGED OB!blockVars
<1>1. Live \subseteq Box /\ Whole = WholeOf(type)
  BY DEF Live, Whole, WholeOf
<1>2. ASSUME NEW b \in Box, NEW align \in Align, ~aborted,
             new_with_align(b, align) \/ \E reqs \in Requests : new_with_req(b, align, reqs)
      PROVE  OB!Next \/ UNCHANGED OB!blockVars
  <2>1. CASE \E al \in {align, type.align} : allocate_in(b, al, Whole)
    BY <1>1, <1>2, <2>1, AllocateNew
  <2>2. CASE \E reqs \in Requests : allocate_in(b, align, reqs)
    BY <1>2, <2>2, AllocateNew
  <2> QED BY <1>2, <2>1, <2>2 DEF new_with_align, new_with_req
<1>3. ASSUME UNCHANGED vars PROVE UNCHANGED OB!blockVars
  BY <1>3 DEF vars, OB!blockVars, terms, block, used, Live
<1> QED BY <1>1, <1>2, <1>3, CloneCopies, WriteChangesNothing, DropReleases DEF Next

\* Boxes implement owned blocks: whatever addresses malloc gives and however close the
\* blocks lie, a box has one block, moves only to a free one, frees the one it leaves,
\* and takes over in a clone what the source protects, without touching any other.
THEOREM BlocksImplemented == Spec => ImplementsBlocks
<1>1. Init => OB!Init
  BY DEF Init, OB!Init, terms, block, used, Live
<1>2. Inv /\ Inv' /\ MapFits /\ MapFits' /\ [Next]_vars => [OB!Next]_OB!blockVars
  BY StepOwns DEF Both
<1> QED BY <1>1, <1>2, InvHolds, MapIs, PTL DEF Spec, ImplementsBlocks, OB!Spec
================================================================================
