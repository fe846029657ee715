------------------------------ MODULE ParkPermits ------------------------------
(***************************************************************************)
(* What the event service of sgx-urts promises an enclave thread, with no  *)
(* cache, no mutex, no condition variable and no counter that goes below   *)
(* zero: every TCS owns a number of permits.  Setting the event of a TCS   *)
(* adds a permit.  A thread that waits on its own TCS leaves with success  *)
(* by taking one permit, and leaves with ETIMEDOUT only if its wait is     *)
(* timed and no permit is there to take.                                   *)
(***************************************************************************)
EXTENDS Naturals

CONSTANTS Thread,   \* the threads that make ocalls
          Key,      \* the TCS pointers an ocall may name, null included
          TcsOf     \* TcsOf[t]: the TCS thread t executes on

VARIABLES permits,  \* permits[k]: posted and not yet taken
          waiting,  \* waiting[t]: "no", or the kind of wait t is blocked in
          outcome   \* outcome[t]: the errno of the last ocall of t

permitVars == <<permits, waiting, outcome>>

Init ==
  /\ permits = [k \in Key |-> 0]
  /\ waiting = [t \in Thread |-> "no"]
  /\ outcome = [t \in Thread |-> "none"]

\* A thread posts a permit to k; the post may be the last of its ocall.
Post(t, k) ==
  /\ waiting[t] = "no"
  /\ permits' = [permits EXCEPT ![k] = @ + 1]
  /\ outcome' \in {outcome, [outcome EXCEPT ![t] = "OK"]}
  /\ UNCHANGED waiting

\* An ocall that neither posts nor waits returns.
Return(t, errno) ==
  /\ waiting[t] = "no"
  /\ outcome' = [outcome EXCEPT ![t] = errno]
  /\ UNCHANGED <<permits, waiting>>

Park(t, kind) ==
  /\ waiting[t] = "no"
  /\ waiting' = [waiting EXCEPT ![t] = kind]
  /\ UNCHANGED <<permits, outcome>>

Resume(t) ==
  /\ waiting[t] # "no"
  /\ permits[TcsOf[t]] > 0
  /\ permits' = [permits EXCEPT ![TcsOf[t]] = @ - 1]
  /\ waiting' = [waiting EXCEPT ![t] = "no"]
  /\ outcome' = [outcome EXCEPT ![t] = "OK"]

TimeOut(t) ==
  /\ waiting[t] = "timed"
  /\ permits[TcsOf[t]] = 0
  /\ waiting' = [waiting EXCEPT ![t] = "no"]
  /\ outcome' = [outcome EXCEPT ![t] = "ETIMEDOUT"]
  /\ UNCHANGED permits

Next ==
  \E t \in Thread :
    \/ \E k \in Key : Post(t, k)
    \/ \E errno \in {"OK", "EINVAL"} : Return(t, errno)
    \/ \E kind \in {"untimed", "timed"} : Park(t, kind)
    \/ Resume(t)
    \/ TimeOut(t)

Spec == Init /\ [][Next]_permitVars

\* A thread that waits while its TCS owns a permit leaves: no wake-up is lost,
\* whichever of the post and the wait comes first.
PermitIsTaken ==
  \A t \in Thread : (waiting[t] # "no" /\ permits[TcsOf[t]] > 0) ~> waiting[t] = "no"

\* A timed wait ends, posted to or not.
TimedWaitEnds ==
  \A t \in Thread : waiting[t] = "timed" ~> waiting[t] # "timed"
================================================================================
