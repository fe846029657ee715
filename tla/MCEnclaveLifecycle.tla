--------------------------- MODULE MCEnclaveLifecycle ---------------------------
(* Two enclaves, two handles, two threads, and three layouts: one TCS; a group   *)
(* that repeats a TCS; a group of groups with removable and dynamic ones.        *)
EXTENDS EnclaveLifecycle

CONSTANTS t1, t2

MCAexUser == {<<t1, 1>>}

Entry == [group |-> FALSE, eadd |-> TRUE, post_add |-> FALSE, eremove |-> FALSE, content |-> TRUE,
          si_flags_tcs |-> FALSE, tcs_dyn |-> FALSE]
Tcs == [Entry EXCEPT !.si_flags_tcs = TRUE]
Removable == [Tcs EXCEPT !.eremove = TRUE]
Dynamic == [Entry EXCEPT !.eadd = FALSE, !.post_add = TRUE, !.tcs_dyn = TRUE]
Group(n, times) == [group |-> TRUE, entry_count |-> n, load_times |-> times]

MCLayouts ==
  {<<Entry, Tcs>>,
   <<Tcs, Removable, Group(1, 2), Dynamic, Group(3, 2)>>}
================================================================================
