---------------------------- MODULE MCSignalDispatch ----------------------------
(***************************************************************************)
(* TLC instances of SignalDispatch.                                        *)
(***************************************************************************)
EXTENDS SignalDispatch, TLC

CONSTANTS t1, t2, s1, s2, s3

\* Handlers run with no other signal blocked, or with all blocked.
OpenMask == {{}}
FullMask == {Blockable}

--------------------------------------------------------------------------------
(* For the liveness check, enclaves register and clear but leave the masks *)
(* of threads to the dispatcher.                                           *)

RegisterNext ==
  \E t \in Thread :
    \/ \E s \in Sig, eid \in Eid, samask \in SaMask : u_sigaction_ocall(t, s, eid, samask)
    \/ \E eid \in Eid : u_signal_clear_ocall(t, eid)
    \/ Run(t)
    \/ Signal(t)

RegisterSpec == Init /\ [][RegisterNext]_vars /\ Fairness
================================================================================
