------------------------------- MODULE TcsLayout --------------------------------
(***************************************************************************)
(* The layout table of an enclave and its TCS pages: rsgx_get_tcs_num and  *)
(* traversal_layout of src/sgx-trts/src/enclave.rs.  A group entry stands  *)
(* for the entries before it, loaded load_times more often.                *)
(***************************************************************************)
EXTENDS Integers, Sequences, FiniteSets

\* An entry as far as it is looked at.
LayoutEntry ==
  [group : {FALSE}, eadd : BOOLEAN, post_add : BOOLEAN, eremove : BOOLEAN, content : BOOLEAN,
   si_flags_tcs : BOOLEAN, tcs_dyn : BOOLEAN]
LayoutGroup == [group : {TRUE}, entry_count : Nat, load_times : Nat]

\* The entries of a group are before it in the table, and with a group also its
\* entries: else a slice of traversal_layout is out of range.
GroupsNest(table) ==
  \A i \in DOMAIN table : table[i].group =>
    /\ table[i].entry_count < i
    /\ \A j \in i - table[i].entry_count .. i - 1 :
         table[j].group => i - table[i].entry_count <= j - table[j].entry_count

\* What one entry adds to a counter.
Adds(e, counter) ==
  CASE counter = "static"  -> IF e.eadd /\ e.content /\ e.si_flags_tcs /\ ~e.eremove THEN 1 ELSE 0
    [] counter = "eremove" -> IF e.eadd /\ e.content /\ e.si_flags_tcs /\ e.eremove THEN 1 ELSE 0
    [] counter = "dyn"     -> IF e.post_add /\ e.tcs_dyn THEN 1 ELSE 0

\* The stretches table[lo .. hi], as <<lo, hi>>.
Stretches(table) == (1 .. Len(table) + 1) \X (0 .. Len(table))

\* Mutant: the first load of the entries is taken for one of the group's.
traversal_layout_once(table, counter) ==
  LET sum[at \in Stretches(table)] ==
        LET lo == at[1]  hi == at[2]
        IN IF hi < lo THEN 0
           ELSE sum[<<lo, hi - 1>>] +
                (IF table[hi].group
                 THEN (table[hi].load_times - 1) * sum[<<hi - table[hi].entry_count, hi - 1>>]
                 ELSE Adds(table[hi], counter))
  IN sum[<<1, Len(table)>>]

\* traversal_layout over table[lo .. hi], for one counter.
traversal_layout(table, counter) ==
  LET sum[at \in Stretches(table)] ==
        LET lo == at[1]  hi == at[2]
        IN IF hi < lo THEN 0
           ELSE sum[<<lo, hi - 1>>] +
                (IF table[hi].group
                 THEN table[hi].load_times * sum[<<hi - table[hi].entry_count, hi - 1>>]
                 ELSE Adds(table[hi], counter))
  IN sum[<<1, Len(table)>>]

rsgx_get_tcs_num(table) ==
  [counter \in {"static", "eremove", "dyn"} |-> traversal_layout(table, counter)]

\* The counts SgxGlobalData::new keeps, and its getters return.
SgxGlobalData(table) ==
  LET num == rsgx_get_tcs_num(table)
  IN [static_tcs_num |-> num["static"], eremove_tcs_num |-> num["eremove"], dyn_tcs_num |-> num["dyn"]]

\* n copies of a sequence, one after another.
Copies(seq, n) == [i \in 1 .. n * Len(seq) |-> seq[((i - 1) % Len(seq)) + 1]]

\* The pages the loader lays out, one after another, with the groups unrolled.
Loaded(table) ==
  LET pages[at \in Stretches(table)] ==
        LET lo == at[1]  hi == at[2]
        IN IF hi < lo THEN << >>
           ELSE pages[<<lo, hi - 1>>] \o
                (IF table[hi].group
                 THEN Copies(pages[<<hi - table[hi].entry_count, hi - 1>>], table[hi].load_times)
                 ELSE <<table[hi]>>)
  IN pages[<<1, Len(table)>>]

PagesWith(pages, Test(_)) == Cardinality({i \in DOMAIN pages : Test(pages[i])})

\* TCS pages that are there when the enclave starts (with no EDMM).
TcsLoaded(pages) == PagesWith(pages, LAMBDA e : e.eadd /\ e.content /\ e.si_flags_tcs)
================================================================================
