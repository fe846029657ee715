------------------------------- MODULE MCTcsEvent -------------------------------
(***************************************************************************)
(* TLC instances of TcsEvent.  Every thread has its own TCS, and there is  *)
(* one event object for each pointer the cache may be asked for.           *)
(***************************************************************************)
EXTENDS TcsEvent, FiniteSets, TLC

CONSTANTS t1, t2, t3, c1, c2, c3

OwnTcs2 == t1 :> c1 @@ t2 :> c2
OwnTcs3 == t1 :> c1 @@ t2 :> c2 @@ t3 :> c3

\* Heap objects are interchangeable.
EventSymmetry == Permutations(Event)

--------------------------------------------------------------------------------
(* One sleeper and two wakers: t1 waits in every way, while t2 and t3 set  *)
(* its event, alone or in batches that name it twice.                      *)

RoleCall ==
  \/ \E wait \in WaitKind : u_thread_wait_event_ocall(t1, wait)
  \/ \E wait \in WaitKind : u_thread_setwait_events_ocall(t1, c1, wait)
  \/ u_thread_set_event_ocall(t2, c1)
  \/ u_thread_set_multiple_events_ocall(t3, <<c1, c1>>)

RoleNext ==
  \/ RoleCall
  \/ \E t \in Thread : Run(t) \/ Unpark(t) \/ Deadline(t)

RoleSpec == Init /\ [][RoleNext]_vars /\ Fairness
================================================================================
