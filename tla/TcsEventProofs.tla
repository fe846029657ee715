----------------------------- MODULE TcsEventProofs -----------------------------
(***************************************************************************)
(* The safety of the event service for every set of threads, TCSs and heap *)
(* objects and every bound.                                                *)
(*                                                                         *)
(* NoLostWakeup is not inductive: a wake-up notifies one thread, which is  *)
(* enough only because at most one thread is inside a wait on any event.   *)
(* That follows from the cache (OneEventPerTcs, EventIsCurrent) and from   *)
(* the owner of a TCS being unique, and the counter never being below -1   *)
(* (DebtHasDebtor) makes 0 the one value at which a wake-up must notify.   *)
(* So the invariant is the conjunction of all of them.                     *)
(*                                                                         *)
(* The second half is the refinement of ParkPermits, under the mapping of  *)
(* TcsEvent.  It needs, besides, that a thread is in the kind of wait it   *)
(* asked for (KindFits).                                                   *)
(***************************************************************************)
EXTENDS TcsEvent, SequenceTheorems, TLAPS

Inside == {"enter", "parked", "woken"}

\* A thread between two wake-ups has one left to do.
HasToWake ==
  \A t \in Thread : pc[t] \in {"find_wake", "wake"} => toWake[t] # <<>>

\* A thread that uses an event holds a reference to one.
HoldsEvent ==
  \A t \in Thread : pc[t] \in Inside \cup {"wake"} => event[t] \in Event

Typed == TypeOK /\ HasToWake /\ HoldsEvent

Safe == OneEventPerTcs /\ EventIsCurrent /\ NoLostWakeup /\ DebtHasDebtor

IInv == Typed /\ Safe

--------------------------------------------------------------------------------
\* The lists u_thread_set_multiple_events_ocall is given are sequences of TCSs.
LEMMA BatchType == Batch \subseteq Seq(Key)
<1> SUFFICES ASSUME NEW s \in Batch PROVE s \in Seq(Key)
  OBVIOUS
<1>1. PICK n \in 0..MaxBatch : s \in [1..n -> Key]
  BY DEF Batch, BoundedSeq, SeqOf
<1>2. n \in Nat
  OBVIOUS
<1>3. Seq(Key) = UNION {[1..m -> Key] : m \in Nat}
  BY SeqDef
<1>4. s \in UNION {[1..m -> Key] : m \in Nat}
  BY <1>1, <1>2
<1> QED BY <1>3, <1>4, Zenon

\* Dropping the head of a list of TCSs leaves a list of TCSs, shorter by one.
LEMMA TailOfKeys ==
  ASSUME NEW s \in Seq(Key), s # <<>>
  PROVE  /\ Tail(s) \in Seq(Key)
         /\ Head(s) \in Key
         /\ Len(s) > 1 => Tail(s) # <<>>
<1>1. Head(s) \in Key /\ Tail(s) \in Seq(Key) /\ Len(Tail(s)) = Len(s) - 1
  BY HeadTailProperties
<1>2. Len(s) \in Nat /\ Len(<<>>) = 0
  OBVIOUS
<1>3. Len(s) > 1 => Len(Tail(s)) # 0
  BY <1>1, <1>2
<1> QED BY <1>1, <1>2, <1>3

\* A list of one TCS is a list of TCSs.
LEMMA OneKey == ASSUME NEW k \in Key PROVE <<k>> \in Seq(Key) /\ <<k>> # <<>>
  OBVIOUS

--------------------------------------------------------------------------------
\* How the pieces the actions are made of act on the types.
LEMMA BeginTyped ==
  ASSUME Typed, NEW t \in Thread, NEW keys \in Seq(Key),
         NEW wait \in WaitKind \cup {"none"}, Begin(t, keys, wait)
  PROVE  Typed'
  BY DEF Begin, Typed, TypeOK, HasToWake, HoldsEvent, Inside

LEMMA LeaveTyped ==
  ASSUME Typed, NEW t \in Thread, NEW errno \in {"OK", "EINVAL", "ETIMEDOUT"},
         Leave(t, errno), value' \in [Event -> Int]
  PROVE  Typed'
  BY DEF Leave, Typed, TypeOK, HasToWake, HoldsEvent, Inside

LEMMA RejectTyped ==
  ASSUME Typed, NEW t \in Thread, Reject(t)
  PROVE  Typed'
  BY LeaveTyped DEF Reject, Typed, TypeOK

LEMMA GetEventTyped ==
  ASSUME Typed, NEW t \in Thread, NEW tcs \in Key, get_event(t, tcs)
  PROVE  /\ cache' \in SUBSET CacheEntry
         /\ value' \in [Event -> Int]
         /\ event' \in [Thread -> Event \cup {NoEvent}]
         /\ event'[t] \in Event
         /\ \A u \in Thread \ {t} : event'[u] = event[u]
<1> USE DEF Typed, TypeOK
<1>1. CASE \E x \in Cached(tcs) : /\ event' = [event EXCEPT ![t] = x.event]
                                 /\ UNCHANGED <<cache, value>>
  BY <1>1 DEF Cached, CacheEntry
<1>2. ASSUME NEW e \in Fresh, cache' = cache \cup {[tcs |-> tcs, event |-> e]},
             value' = [value EXCEPT ![e] = 0], event' = [event EXCEPT ![t] = e]
      PROVE  /\ cache' \in SUBSET CacheEntry
             /\ value' \in [Event -> Int]
             /\ event' \in [Thread -> Event \cup {NoEvent}]
             /\ event'[t] \in Event
             /\ \A u \in Thread \ {t} : event'[u] = event[u]
  <2>1. e \in Event
    BY DEF Fresh
  <2>2. [tcs |-> tcs, event |-> e] \in CacheEntry
    BY <2>1 DEF CacheEntry
  <2> QED BY <1>2, <2>1, <2>2
<1> QED BY <1>1, <1>2 DEF get_event

LEMMA CheckTyped ==
  ASSUME Typed, NEW t \in Thread, NEW v \in Int, event[t] \in Event, Check(t, v)
  PROVE  Typed'
<1>1. /\ [value EXCEPT ![event[t]] = v] \in [Event -> Int]
      /\ [value EXCEPT ![event[t]] = 0] \in [Event -> Int]
  BY DEF Typed, TypeOK
<1>2. CASE Leave(t, "OK") /\ value' = [value EXCEPT ![event[t]] = v]
  BY <1>1, <1>2, LeaveTyped
<1>3. CASE Leave(t, "ETIMEDOUT") /\ value' = [value EXCEPT ![event[t]] = 0]
  BY <1>1, <1>3, LeaveTyped
<1>4. CASE /\ pc' = [pc EXCEPT ![t] = "parked"]
           /\ value' = [value EXCEPT ![event[t]] = v]
           /\ UNCHANGED <<cache, toWake, kind, event, due, result>>
  BY <1>1, <1>4 DEF Typed, TypeOK, HasToWake, HoldsEvent, Inside
<1> QED BY <1>2, <1>3, <1>4 DEF Check

\* How a wake-up moves the threads: the caller to its next step, and those it
\* notifies, all of them parked on the event, out of the park.
LEMMA WakeMoves ==
  ASSUME Typed, NEW t \in Thread, Wake(t),
         NEW woken \in Notified(event[t], value[event[t]] + 1),
         pc' = [u \in Thread |-> IF u = t THEN AfterWake(t)
                                 ELSE IF u \in woken THEN "woken" ELSE pc[u]]
  PROVE  /\ woken \subseteq Parked(event[t])
         /\ pc'[t] \in {"find_wake", "idle", "find_wait"}
         /\ \A u \in Thread \ {t} : pc'[u] # pc[u] => pc[u] = "parked" /\ pc'[u] = "woken"
         /\ pc' \in [Thread -> {"idle", "find_wake", "wake", "find_wait", "enter", "parked", "woken"}]
  BY DEF Notified, Parked, AfterWake, Typed, TypeOK

LEMMA WakeTyped ==
  ASSUME Typed, NEW t \in Thread, Wake(t)
  PROVE  Typed'
<1> USE DEF Typed
<1>1. event[t] \in Event /\ pc[t] = "wake" /\ toWake[t] # <<>> /\ toWake[t] \in Seq(Key)
  BY DEF Wake, HoldsEvent, HasToWake, TypeOK, Inside
<1>2. PICK woken \in Notified(event[t], value[event[t]] + 1) :
        pc' = [u \in Thread |-> IF u = t THEN AfterWake(t)
                                ELSE IF u \in woken THEN "woken" ELSE pc[u]]
  BY DEF Wake
<1>3. Tail(toWake[t]) \in Seq(Key) /\ (Len(toWake[t]) > 1 => Tail(toWake[t]) # <<>>)
  BY <1>1, TailOfKeys
<1>4. /\ pc' \in [Thread -> {"idle", "find_wake", "wake", "find_wait", "enter", "parked", "woken"}]
      /\ pc'[t] \in {"find_wake", "idle", "find_wait"}
      /\ \A u \in Thread \ {t} : pc'[u] # pc[u] => pc[u] = "parked" /\ pc'[u] = "woken"
  BY <1>2, WakeMoves
<1>5. TypeOK'
  BY <1>1, <1>3, <1>4 DEF Wake, TypeOK
<1>6. HasToWake'
  <2>1. pc'[t] = "find_wake" => Len(toWake[t]) > 1
    BY <1>2 DEF AfterWake
  <2>2. \A u \in Thread : toWake'[u] = IF u = t THEN Tail(toWake[t]) ELSE toWake[u]
    BY DEF Wake, TypeOK
  <2> QED BY <1>3, <1>4, <2>1, <2>2 DEF HasToWake
<1>7. HoldsEvent'
  <2>1. \A u \in Thread \ {t} : event'[u] = event[u]
    BY DEF Wake, TypeOK
  <2> QED BY <1>4, <2>1 DEF HoldsEvent, Inside
<1> QED BY <1>5, <1>6, <1>7

\* The types, with the list and the reference a thread works on, are inductive.
LEMMA TypedStep ==
  ASSUME Typed, [Next]_vars
  PROVE  Typed'
<1>1. ASSUME NEW t \in Thread, Call(t) PROVE Typed'
  <2>1. CASE \E tcs \in Key : u_thread_set_event_ocall(t, tcs)
    BY <2>1, BeginTyped, RejectTyped, OneKey DEF u_thread_set_event_ocall
  <2>2. CASE \E wait \in WaitKind : u_thread_wait_event_ocall(t, wait)
    BY <2>2, BeginTyped, EmptySeq DEF u_thread_wait_event_ocall
  <2>3. CASE \E tcss \in Batch : u_thread_set_multiple_events_ocall(t, tcss)
    <3>1. PICK tcss \in Batch : u_thread_set_multiple_events_ocall(t, tcss)
      BY <2>3
    <3>2. CASE Leave(t, "OK") /\ UNCHANGED value
      BY <3>2, LeaveTyped DEF Typed, TypeOK
    <3>3. CASE Begin(t, tcss, "none")
      BY <3>3, BeginTyped, BatchType
    <3> QED BY <3>1, <3>2, <3>3 DEF u_thread_set_multiple_events_ocall
  <2>4. CASE set_multiple_null(t)
    BY <2>4, RejectTyped DEF set_multiple_null
  <2>5. CASE \E waiter \in Key, wait \in WaitKind : u_thread_setwait_events_ocall(t, waiter, wait)
    BY <2>5, BeginTyped, RejectTyped, OneKey DEF u_thread_setwait_events_ocall
  <2> QED BY <1>1, <2>1, <2>2, <2>3, <2>4, <2>5 DEF Call
<1>2. ASSUME NEW t \in Thread, FindToWake(t) PROVE Typed'
  <2>1. Head(toWake[t]) \in Key
    BY <1>2, TailOfKeys DEF FindToWake, Typed, TypeOK, HasToWake
  <2> QED BY <1>2, <2>1, GetEventTyped
          DEF FindToWake, Typed, TypeOK, HasToWake, HoldsEvent, Inside
<1>3. ASSUME NEW t \in Thread, FindToWait(t) PROVE Typed'
  <2>1. CASE Reject(t)
    BY <2>1, RejectTyped
  <2>2. CASE ~Reject(t)
    <3>1. TcsOf[t] \in Key
      BY OwnerAssumption DEF Key
    <3> QED BY <1>3, <2>2, <3>1, GetEventTyped
            DEF FindToWait, Typed, TypeOK, HasToWake, HoldsEvent, Inside
  <2> QED BY <2>1, <2>2
<1>4. ASSUME NEW t \in Thread, Wake(t) PROVE Typed'
  BY <1>4, WakeTyped
<1>5. ASSUME NEW t \in Thread, BadTimeout(t) PROVE Typed'
  BY <1>5, RejectTyped DEF BadTimeout
<1>6. ASSUME NEW t \in Thread, Enter(t) PROVE Typed'
  BY <1>6, CheckTyped DEF Enter, Typed, TypeOK, HoldsEvent, Inside
<1>7. ASSUME NEW t \in Thread, Recheck(t) PROVE Typed'
  BY <1>7, CheckTyped DEF Recheck, Typed, TypeOK, HoldsEvent, Inside
<1>8. ASSUME NEW t \in Thread, Unpark(t) PROVE Typed'
  BY <1>8 DEF Unpark, Typed, TypeOK, HasToWake, HoldsEvent, Inside
<1>9. ASSUME NEW t \in Thread, Deadline(t) PROVE Typed'
  BY <1>9 DEF Deadline, Typed, TypeOK, HasToWake, HoldsEvent, Inside
<1>10. CASE UNCHANGED vars
  BY <1>10 DEF vars, Typed, TypeOK, HasToWake, HoldsEvent
<1> QED BY <1>1, <1>2, <1>3, <1>4, <1>5, <1>6, <1>7, <1>8, <1>9, <1>10 DEF Next, Run

LEMMA InitTyped == Init => Typed
  BY EmptySeq DEF Init, Typed, TypeOK, HasToWake, HoldsEvent, Inside

\* Every variable keeps its type, in every behaviour of the event service.
THEOREM TypeCorrect == Spec => []TypeOK
<1>1. Typed => TypeOK
  BY DEF Typed
<1> QED BY InitTyped, TypedStep, <1>1, PTL DEF Spec

--------------------------------------------------------------------------------
\* At most one thread is inside a wait on an event: the owner of its TCS.
LEMMA OneInside ==
  ASSUME IInv, NEW t \in Thread, NEW u \in Thread,
         pc[t] \in Inside, pc[u] \in Inside, event[t] = event[u]
  PROVE  t = u
<1>1. /\ [tcs |-> TcsOf[t], event |-> event[t]] \in cache
      /\ [tcs |-> TcsOf[u], event |-> event[u]] \in cache
  BY DEF IInv, Safe, EventIsCurrent, Inside
<1>2. TcsOf[t] = TcsOf[u]
  BY <1>1 DEF IInv, Safe, OneEventPerTcs
<1> QED BY <1>2, OwnerAssumption

\* A step of t outside wait and wake that touches neither cache nor counters.
LEMMA QuietStep ==
  ASSUME IInv, NEW t \in Thread, UNCHANGED <<cache, value>>,
         pc[t] \notin {"parked", "woken"}, pc'[t] \notin Inside \cup {"wake"},
         \A u \in Thread \ {t} :
           pc'[u] = pc[u] /\ event'[u] = event[u] /\ toWake'[u] = toWake[u]
  PROVE  Safe'
<1> USE DEF IInv, Safe, Inside
<1>1. OneEventPerTcs'
  BY DEF OneEventPerTcs
<1>2. EventIsCurrent'
  BY DEF EventIsCurrent
<1>3. NoLostWakeup'
  BY DEF NoLostWakeup
<1>4. DebtHasDebtor'
  BY DEF DebtHasDebtor, Counted
<1> QED BY <1>1, <1>2, <1>3, <1>4

LEMMA BeginSafe ==
  ASSUME IInv, NEW t \in Thread, NEW keys, NEW wait, pc[t] = "idle", Begin(t, keys, wait)
  PROVE  Safe'
<1>1. pc'[t] \in {"find_wait", "find_wake"}
  BY DEF Begin, IInv, Typed, TypeOK
<1> QED BY <1>1, QuietStep DEF Begin, IInv, Typed, TypeOK, Inside

LEMMA LeaveQuietly ==
  ASSUME IInv, NEW t \in Thread, NEW errno, pc[t] \notin {"parked", "woken"},
         Leave(t, errno), UNCHANGED value
  PROVE  Safe'
<1>1. pc'[t] = "idle"
  BY DEF Leave, IInv, Typed, TypeOK
<1> QED BY <1>1, QuietStep DEF Leave, IInv, Typed, TypeOK, Inside

\* The cache finds or adds an entry for the TCS, keeps every other, stays one to
\* one, and gives away no event that has a debt or a debtor.
LEMMA GetEventSafe ==
  ASSUME IInv, NEW t \in Thread, NEW tcs \in Key, get_event(t, tcs)
  PROVE  /\ OneEventPerTcs'
         /\ cache \subseteq cache'
         /\ [tcs |-> tcs, event |-> event'[t]] \in cache'
         /\ \A e \in Event : value'[e] # value[e] => value'[e] = 0
         /\ \A x \in cache : value'[x.event] = value[x.event]
<1> USE DEF IInv, Safe
<1>0. /\ event \in [Thread -> Event \cup {NoEvent}]
      /\ value \in [Event -> Int]
      /\ \A x \in cache : x \in CacheEntry
  BY DEF Typed, TypeOK
<1>1. ASSUME NEW x \in Cached(tcs), event' = [event EXCEPT ![t] = x.event],
             UNCHANGED <<cache, value>>
      PROVE  /\ OneEventPerTcs'
             /\ [tcs |-> tcs, event |-> event'[t]] \in cache'
  <2>1. x \in cache /\ x = [tcs |-> tcs, event |-> x.event]
    BY <1>0 DEF Cached, CacheEntry
  <2> QED BY <1>0, <1>1, <2>1 DEF OneEventPerTcs
<1>2. ASSUME Cached(tcs) = {}, NEW e \in Fresh,
             cache' = cache \cup {[tcs |-> tcs, event |-> e]},
             value' = [value EXCEPT ![e] = 0], event' = [event EXCEPT ![t] = e]
      PROVE  /\ OneEventPerTcs'
             /\ [tcs |-> tcs, event |-> event'[t]] \in cache'
             /\ \A f \in Event : value'[f] # value[f] => value'[f] = 0
             /\ \A x \in cache : value'[x.event] = value[x.event]
  <2>1. \A x \in cache : x.tcs # tcs /\ x.event # e
    BY <1>2 DEF Cached, Fresh
  <2>2. OneEventPerTcs'
    BY <1>2, <2>1 DEF OneEventPerTcs
  <2>3. event'[t] = e
    BY <1>0, <1>2
  <2>4. \A x \in cache : x.event \in Event
    BY <1>0 DEF CacheEntry
  <2> QED BY <1>0, <1>2, <2>1, <2>2, <2>3, <2>4
<1> QED BY <1>1, <1>2 DEF get_event

\* A lookup by t, which then wakes or enters the wait on what it found.
LEMMA FindSafe ==
  ASSUME IInv, NEW t \in Thread, NEW tcs \in Key, get_event(t, tcs),
         pc[t] \notin {"parked", "woken"}, NEW to \in {"wake", "enter"},
         pc' = [pc EXCEPT ![t] = to], UNCHANGED toWake,
         to = "wake" => tcs = Head(toWake[t]), to = "enter" => tcs = TcsOf[t]
  PROVE  Safe'
<1> USE DEF IInv, Safe
<1>1. /\ OneEventPerTcs'
      /\ cache \subseteq cache'
      /\ [tcs |-> tcs, event |-> event'[t]] \in cache'
      /\ \A e \in Event : value'[e] # value[e] => value'[e] = 0
      /\ \A x \in cache : value'[x.event] = value[x.event]
  BY GetEventSafe
<1>2. /\ \A u \in Thread \ {t} : event'[u] = event[u] /\ pc'[u] = pc[u]
      /\ pc'[t] = to
  BY GetEventTyped DEF Typed, TypeOK
<1>3. EventIsCurrent'
  BY <1>1, <1>2 DEF EventIsCurrent
<1>4. ASSUME NEW u \in Thread, pc[u] \in {"parked", "woken"}
      PROVE  event'[u] = event[u] /\ pc'[u] = pc[u] /\ value'[event[u]] = value[event[u]]
  <2>1. [tcs |-> TcsOf[u], event |-> event[u]] \in cache
    BY <1>4 DEF EventIsCurrent
  <2> QED BY <1>1, <1>2, <1>4, <2>1
<1>5. NoLostWakeup'
  BY <1>2, <1>4 DEF NoLostWakeup
<1>6. DebtHasDebtor'
  <2> SUFFICES ASSUME NEW e \in Event, value'[e] < 0
               PROVE  value'[e] = -1 /\ \E u \in Counted' : event'[u] = e
    BY DEF DebtHasDebtor
  <2>1. value'[e] = value[e]
    BY <1>1
  <2>2. value[e] = -1 /\ \E u \in Counted : event[u] = e
    BY <2>1 DEF DebtHasDebtor
  <2> QED BY <1>4, <2>1, <2>2 DEF Counted
<1> QED BY <1>1, <1>3, <1>5, <1>6

\* The notification reaches the one thread whose debt the wake-up pays.
LEMMA WakeSafe ==
  ASSUME IInv, NEW t \in Thread, Wake(t)
  PROVE  Safe'
<1> DEFINE e == event[t]
<1> USE DEF IInv, Safe
<1>1. /\ pc[t] = "wake" /\ e \in Event
      /\ value \in [Event -> Int] /\ value' = [value EXCEPT ![e] = value[e] + 1]
      /\ UNCHANGED cache
      /\ \A u \in Thread \ {t} : event'[u] = event[u] /\ toWake'[u] = toWake[u]
  BY DEF Wake, Typed, TypeOK, HoldsEvent
<1>2. PICK woken \in Notified(e, value[e] + 1) :
        pc' = [u \in Thread |-> IF u = t THEN AfterWake(t)
                                ELSE IF u \in woken THEN "woken" ELSE pc[u]]
  BY DEF Wake
<1>3. /\ woken \subseteq Parked(e)
      /\ pc'[t] \in {"find_wake", "idle", "find_wait"}
      /\ \A u \in Thread \ {t} : pc'[u] # pc[u] => pc[u] = "parked" /\ pc'[u] = "woken"
  BY <1>2, WakeMoves
<1>4. OneEventPerTcs'
  BY <1>1 DEF OneEventPerTcs
<1>5. EventIsCurrent'
  BY <1>1, <1>3 DEF EventIsCurrent
<1>6. NoLostWakeup'
  <2> SUFFICES ASSUME NEW u \in Thread, pc'[u] = "parked" PROVE value'[event'[u]] < 0
    BY DEF NoLostWakeup
  <2>1. u # t /\ pc[u] = "parked" /\ event'[u] = event[u] /\ value[event[u]] < 0
    BY <1>1, <1>3 DEF NoLostWakeup
  <2>2. event[u] \in Event
    BY <2>1 DEF Typed, HoldsEvent, Inside
  <2>3. CASE event[u] = e
    <3>1. value[e] + 1 = 0
      BY <1>1, <2>1, <2>3 DEF DebtHasDebtor
    <3>2. PICK w \in Parked(e) : woken = {w}
      BY <1>2, <2>1, <2>3, <3>1 DEF Notified, Parked
    <3>3. w = u
      BY <2>1, <2>3, OneInside DEF Parked, Inside
    <3> QED BY <1>2, <2>1, <3>2, <3>3
  <2>4. CASE event[u] # e
    BY <1>1, <2>1, <2>2, <2>4
  <2> QED BY <2>3, <2>4
<1>7. DebtHasDebtor'
  <2> SUFFICES ASSUME NEW f \in Event, value'[f] < 0
               PROVE  value'[f] = -1 /\ \E u \in Counted' : event'[u] = f
    BY DEF DebtHasDebtor
  <2>1. f # e
    BY <1>1 DEF DebtHasDebtor
  <2>2. PICK u \in Counted : event[u] = f
    BY <1>1, <2>1 DEF DebtHasDebtor
  <2>3. u # t /\ u \in Counted'
    BY <1>1, <1>3, <2>2 DEF Counted
  <2> QED BY <1>1, <2>1, <2>2, <2>3 DEF DebtHasDebtor, Counted
<1> QED BY <1>4, <1>5, <1>6, <1>7

\* The counter is below zero after a check only if the checking thread parked.
LEMMA CheckSafe ==
  ASSUME IInv, NEW t \in Thread, pc[t] \in {"enter", "woken"},
         NEW v \in Int, v >= -1, Check(t, v)
  PROVE  Safe'
<1> DEFINE e == event[t]
           Moved(to, w) == /\ pc' = [pc EXCEPT ![t] = to]
                           /\ value' = [value EXCEPT ![e] = w]
                           /\ UNCHANGED <<cache, toWake>>
                           /\ \A u \in Thread \ {t} : event'[u] = event[u]
                           /\ to = "idle" => w >= 0
                           /\ to = "parked" => w = -1 /\ event' = event
<1> USE DEF IInv, Safe
<1>1. /\ e \in Event /\ value \in [Event -> Int]
      /\ pc \in [Thread -> {"idle", "find_wake", "wake", "find_wait", "enter", "parked", "woken"}]
      /\ event \in [Thread -> Event \cup {NoEvent}]
  BY DEF Typed, TypeOK, HoldsEvent, Inside
<1> HIDE DEF Moved
<1>2. PICK to \in {"idle", "parked"}, w \in Int : Moved(to, w)
  <2>1. CASE v >= 0 /\ Leave(t, "OK") /\ value' = [value EXCEPT ![e] = v]
    <3>1. Moved("idle", v)
      BY <1>1, <2>1 DEF Leave, Moved
    <3> QED BY <3>1
  <2>2. CASE Leave(t, "ETIMEDOUT") /\ value' = [value EXCEPT ![e] = 0]
    <3>1. Moved("idle", 0)
      BY <1>1, <2>2 DEF Leave, Moved
    <3> QED BY <3>1
  <2>3. CASE /\ v < 0
             /\ pc' = [pc EXCEPT ![t] = "parked"]
             /\ value' = [value EXCEPT ![e] = v]
             /\ UNCHANGED <<cache, toWake, event>>
    <3>1. Moved("parked", -1)
      <4>1. v = -1
        BY <2>3
      <4> QED BY <2>3, <4>1 DEF Moved
    <3> QED BY <3>1
  <2> QED BY <2>1, <2>2, <2>3 DEF Check
<1> USE DEF Moved
<1>3. \A u \in Thread \ {t} : pc'[u] = pc[u] /\ (pc[u] \in Inside => event[u] # e)
  BY <1>1, <1>2, OneInside DEF Inside
<1>4. OneEventPerTcs'
  BY <1>2 DEF OneEventPerTcs
<1>5. EventIsCurrent'
  BY <1>1, <1>2, <1>3 DEF EventIsCurrent
<1>6. NoLostWakeup'
  <2> SUFFICES ASSUME NEW u \in Thread, pc'[u] = "parked" PROVE value'[event'[u]] < 0
    BY DEF NoLostWakeup
  <2>1. CASE u = t
    BY <1>1, <1>2, <2>1
  <2>2. CASE u # t
    <3>1. pc[u] = "parked" /\ event[u] # e /\ event[u] \in Event /\ event'[u] = event[u]
      BY <1>2, <1>3, <2>2 DEF Inside, Typed, HoldsEvent
    <3> QED BY <1>1, <1>2, <3>1 DEF NoLostWakeup
  <2> QED BY <2>1, <2>2
<1>7. DebtHasDebtor'
  <2> SUFFICES ASSUME NEW f \in Event, value'[f] < 0
               PROVE  value'[f] = -1 /\ \E u \in Counted' : event'[u] = f
    BY DEF DebtHasDebtor
  <2>1. CASE f = e
    BY <1>1, <1>2, <2>1 DEF Counted
  <2>2. CASE f # e
    <3>1. value'[f] = value[f]
      BY <1>1, <1>2, <2>2
    <3>2. PICK u \in Counted : event[u] = f
      BY <3>1 DEF DebtHasDebtor
    <3>3. u # t /\ u \in Counted' /\ event'[u] = f
      BY <1>2, <1>3, <2>2, <3>2 DEF Counted
    <3> QED BY <3>1, <3>3 DEF DebtHasDebtor
  <2> QED BY <2>1, <2>2
<1> QED BY <1>4, <1>5, <1>6, <1>7

LEMMA SafeStep ==
  ASSUME IInv, [Next]_vars
  PROVE  Safe'
<1>1. ASSUME NEW t \in Thread, Call(t) PROVE Safe'
  <2>1. pc[t] = "idle"
    BY <1>1 DEF Call, u_thread_set_event_ocall, u_thread_wait_event_ocall, set_multiple_null,
                u_thread_set_multiple_events_ocall, u_thread_setwait_events_ocall
  <2>2. \/ Reject(t)
        \/ Leave(t, "OK") /\ UNCHANGED value
        \/ \E keys, wait : Begin(t, keys, wait)
    BY <1>1, Zenon DEF Call, u_thread_set_event_ocall, u_thread_wait_event_ocall,
                set_multiple_null, u_thread_set_multiple_events_ocall,
                u_thread_setwait_events_ocall
  <2> QED BY <2>1, <2>2, BeginSafe, LeaveQuietly DEF Reject
<1>2. ASSUME NEW t \in Thread, FindToWake(t) PROVE Safe'
  <2>1. Head(toWake[t]) \in Key
    BY <1>2, TailOfKeys DEF FindToWake, IInv, Typed, TypeOK, HasToWake
  <2> QED BY <1>2, <2>1, FindSafe DEF FindToWake
<1>3. ASSUME NEW t \in Thread, FindToWait(t) PROVE Safe'
  <2>1. TcsOf[t] \in Key
    BY OwnerAssumption DEF Key
  <2> QED BY <1>3, <2>1, FindSafe, LeaveQuietly DEF FindToWait, Reject
<1>4. ASSUME NEW t \in Thread, Wake(t) PROVE Safe'
  BY <1>4, WakeSafe
<1>5. ASSUME NEW t \in Thread, BadTimeout(t) PROVE Safe'
  BY <1>5, LeaveQuietly DEF BadTimeout, Reject
<1>6. ASSUME NEW t \in Thread, Enter(t) PROVE Safe'
  <2>1. pc[t] = "enter" /\ event[t] \in Event /\ value[event[t]] \in Int
    BY <1>6 DEF Enter, IInv, Typed, TypeOK, HoldsEvent, Inside
  <2>2. value[event[t]] >= 0
    BY <2>1, OneInside DEF IInv, Safe, DebtHasDebtor, Counted, Inside
  <2>3. Check(t, value[event[t]] - 1)
    BY <1>6 DEF Enter
  <2> QED BY <2>1, <2>2, <2>3, CheckSafe
<1>7. ASSUME NEW t \in Thread, Recheck(t) PROVE Safe'
  <2>1. pc[t] = "woken" /\ event[t] \in Event /\ value[event[t]] \in Int
    BY <1>7 DEF Recheck, IInv, Typed, TypeOK, HoldsEvent, Inside
  <2>2. value[event[t]] >= -1
    BY <2>1 DEF IInv, Safe, DebtHasDebtor
  <2>3. Check(t, value[event[t]])
    BY <1>7 DEF Recheck
  <2> QED BY <2>1, <2>2, <2>3, CheckSafe
<1>8. ASSUME NEW t \in Thread, Unpark(t) PROVE Safe'
  BY <1>8 DEF Unpark, IInv, Typed, TypeOK, Safe, OneEventPerTcs, EventIsCurrent,
              NoLostWakeup, DebtHasDebtor, Counted
<1>9. ASSUME NEW t \in Thread, Deadline(t) PROVE Safe'
  BY <1>9 DEF Deadline, IInv, Safe, OneEventPerTcs, EventIsCurrent, NoLostWakeup,
              DebtHasDebtor, Counted
<1>10. CASE UNCHANGED vars
  BY <1>10 DEF vars, IInv, Safe, OneEventPerTcs, EventIsCurrent, NoLostWakeup,
               DebtHasDebtor, Counted
<1> QED BY <1>1, <1>2, <1>3, <1>4, <1>5, <1>6, <1>7, <1>8, <1>9, <1>10 DEF Next, Run

LEMMA InitSafe == Init => Safe
  BY DEF Init, Safe, OneEventPerTcs, EventIsCurrent, NoLostWakeup, DebtHasDebtor

--------------------------------------------------------------------------------
THEOREM Invariance == Spec => []IInv
<1>1. Init => IInv
  BY InitTyped, InitSafe DEF IInv
<1>2. IInv /\ [Next]_vars => IInv'
  BY TypedStep, SafeStep DEF IInv
<1> QED BY <1>1, <1>2, PTL DEF Spec

\* Concurrent first lookups never leave a TCS with two events, or two TCSs with
\* one, and the event a thread uses is the one the cache has for its TCS.
THEOREM CacheIsOneToOne == Spec => [](OneEventPerTcs /\ EventIsCurrent)
<1>1. IInv => OneEventPerTcs /\ EventIsCurrent
  BY DEF IInv, Safe
<1> QED BY <1>1, Invariance, PTL

\* No thread sleeps on an event whose counter holds a wake-up for it.
THEOREM NoWakeupIsLost == Spec => []NoLostWakeup
<1>1. IInv => NoLostWakeup
  BY DEF IInv, Safe
<1> QED BY <1>1, Invariance, PTL

\* A counter below zero is at -1 and has a thread inside wait to answer for it.
THEOREM NoOrphanDebt == Spec => []DebtHasDebtor
<1>1. IInv => DebtHasDebtor
  BY DEF IInv, Safe
<1> QED BY <1>1, Invariance, PTL

\* A thread on its way into wait or wake uses the event the cache has for its TCS
\* now: references taken under the cache mutex are not stale when they are used.
THEOREM EventsAreCurrent == Spec => []EventIsCurrent
<1>1. IInv => EventIsCurrent
  BY DEF IInv, Safe
<1> QED BY <1>1, Invariance, PTL

--------------------------------------------------------------------------------
\* The wait a thread is in is one of those it may be in at that place, and only
\* a timed wait runs out of time.
KindFits ==
  \A t \in Thread :
    /\ pc[t] = "find_wait" => kind[t] \in WaitKind
    /\ pc[t] = "enter" => kind[t] \in WaitKind \ {"null"}
    /\ pc[t] \in {"parked", "woken"} => kind[t] \in {"untimed", "timed"}
    /\ due[t] => kind[t] = "timed" /\ pc[t] \in Inside

\* What the refinement needs of a state.
RInv == IInv /\ KindFits

\* What the owner of k has taken from its counter in advance.
Taken(k) == IF \E t \in Counted : TcsOf[t] = k THEN 1 ELSE 0

\* The permits of a TCS, by any entry of the cache.
PermitsFit ==
  /\ permits \in [Key -> Int]
  /\ \A k \in Key : Cached(k) = {} => permits[k] = 0
  /\ \A x \in cache : permits[x.tcs] = value[x.event] + Taken(x.tcs)
  /\ \A t \in Thread : Taken(TcsOf[t]) = IF t \in Counted THEN 1 ELSE 0

\* What permits[k] is can be read off any entry of the cache for k: there is one.
LEMMA PermitsAre == IInv => PermitsFit
<1> SUFFICES ASSUME IInv PROVE PermitsFit
  OBVIOUS
<1>1. ASSUME NEW x \in cache
      PROVE  /\ x.tcs \in Key /\ value[x.event] \in Int
             /\ permits[x.tcs] = value[x.event] + Taken(x.tcs)
  <2>1. x.tcs \in Key /\ x \in Cached(x.tcs) /\ value[x.event] \in Int
    BY DEF IInv, Typed, TypeOK, CacheEntry, Cached
  <2>2. (CHOOSE y \in Cached(x.tcs) : TRUE) \in Cached(x.tcs)
    BY <2>1
  <2>3. (CHOOSE y \in Cached(x.tcs) : TRUE).event = x.event
    BY <2>2 DEF IInv, Safe, OneEventPerTcs, Cached
  <2> QED BY <2>1, <2>3 DEF permits, Taken
<1>2. \A k \in Key : Cached(k) = {} => permits[k] = 0
  BY DEF permits
<1>3. permits \in [Key -> Int]
  <2>1. permits = [k \in Key |-> permits[k]]
    BY DEF permits
  <2>2. ASSUME NEW k \in Key PROVE permits[k] \in Int
    <3>1. CASE Cached(k) = {}
      BY <1>2, <3>1
    <3>2. ASSUME NEW x \in Cached(k) PROVE permits[k] \in Int
      <4>1. x \in cache /\ x.tcs = k
        BY <3>2 DEF Cached
      <4> QED BY <1>1, <4>1 DEF Taken
    <3> QED BY <3>1, <3>2
  <2> QED BY <2>1, <2>2
<1>4. \A t \in Thread : Taken(TcsOf[t]) = IF t \in Counted THEN 1 ELSE 0
  BY OwnerAssumption DEF Taken, Counted
<1> QED BY <1>1, <1>2, <1>3, <1>4 DEF PermitsFit

\* A step adds d to the permits of k, if that is what it adds to the counter of k
\* and to what is taken from it.
LEMMA PermitsMove ==
  ASSUME PermitsFit, PermitsFit', UNCHANGED cache, NEW x \in cache, x.tcs \in Key, NEW d \in Int,
         \A y \in cache : value'[y.event] + Taken(y.tcs)'
                            = value[y.event] + Taken(y.tcs) + (IF y.tcs = x.tcs THEN d ELSE 0)
  PROVE  permits' = [permits EXCEPT ![x.tcs] = @ + d]
<1>1. ASSUME NEW k \in Key
      PROVE  permits'[k] = IF k = x.tcs THEN permits[k] + d ELSE permits[k]
  <2>1. CASE Cached(k) = {}
    BY <2>1 DEF PermitsFit, Cached
  <2>2. ASSUME NEW y \in cache, y.tcs = k
        PROVE  permits'[k] = IF k = x.tcs THEN permits[k] + d ELSE permits[k]
    <3>1. value'[y.event] + Taken(y.tcs)' = permits'[k] /\ value[y.event] + Taken(y.tcs) = permits[k]
      BY <2>2 DEF PermitsFit
    <3>2. permits'[k] = permits[k] + (IF k = x.tcs THEN d ELSE 0)
      BY <2>2, <3>1
    <3> QED BY <3>2 DEF PermitsFit
  <2> QED BY <2>1, <2>2 DEF Cached
<1> QED BY <1>1 DEF PermitsFit

\* A step that only adds an entry of an event nobody has taken from, if any.
LEMMA PermitsStay ==
  ASSUME PermitsFit, PermitsFit', cache \subseteq cache',
         \A y \in cache : value'[y.event] + Taken(y.tcs)' = value[y.event] + Taken(y.tcs),
         \A y \in cache' \ cache : Cached(y.tcs) = {} /\ value'[y.event] = 0 /\ Taken(y.tcs)' = 0
  PROVE  permits' = permits
<1>1. ASSUME NEW k \in Key PROVE permits'[k] = permits[k]
  <2>1. CASE Cached(k)' = {}
    BY <2>1 DEF PermitsFit, Cached
  <2>2. ASSUME NEW y \in cache', y.tcs = k PROVE permits'[k] = permits[k]
    <3>1. permits'[k] = value'[y.event] + Taken(y.tcs)'
      BY <2>2 DEF PermitsFit
    <3>2. CASE y \in cache
      BY <2>2, <3>1, <3>2 DEF PermitsFit
    <3>3. CASE y \notin cache
      BY <2>2, <3>1, <3>3 DEF PermitsFit
    <3> QED BY <3>2, <3>3
  <2> QED BY <2>1, <2>2 DEF Cached
<1> QED BY <1>1 DEF PermitsFit

\* Neither counters nor those counted change.
LEMMA PermitsKeep ==
  ASSUME PermitsFit, PermitsFit', UNCHANGED <<cache, value>>, Counted' = Counted
  PROVE  permits' = permits
<1>1. \A k : Taken(k)' = Taken(k)
  BY DEF Taken
<1> QED BY <1>1, PermitsStay

--------------------------------------------------------------------------------
\* An ocall starts in the wait it was asked for.
LEMMA BeginFits ==
  ASSUME RInv, NEW t \in Thread, NEW keys, NEW wait \in WaitKind \cup {"none"},
         pc[t] = "idle", keys = <<>> => wait \in WaitKind, Begin(t, keys, wait)
  PROVE  KindFits'
BY DEF Begin, RInv, IInv, Typed, TypeOK, KindFits, Inside

\* A return leaves no wait and no deadline behind.
LEMMA LeaveFits ==
  ASSUME RInv, NEW t \in Thread, NEW errno, Leave(t, errno)
  PROVE  KindFits'
BY DEF Leave, RInv, IInv, Typed, TypeOK, KindFits, Inside

\* A thread that parks does so in the wait it asked for.
LEMMA CheckFits ==
  ASSUME RInv, NEW t \in Thread, NEW v, kind[t] \in {"untimed", "timed"}, Check(t, v)
  PROVE  KindFits'
<1>1. CASE \E errno : Leave(t, errno)
  BY <1>1, LeaveFits
<1>2. CASE pc' = [pc EXCEPT ![t] = "parked"] /\ UNCHANGED <<kind, due>>
  BY <1>2 DEF RInv, IInv, Typed, TypeOK, KindFits, Inside
<1> QED BY <1>1, <1>2 DEF Check

\* An ocall is rejected, has nothing to do, or starts on its list and its wait.
LEMMA CallForms ==
  ASSUME NEW t \in Thread, Call(t)
  PROVE  /\ pc[t] = "idle"
         /\ \/ \E errno \in {"OK", "EINVAL"} : Leave(t, errno) /\ UNCHANGED value
            \/ \E keys : \E wait \in WaitKind \cup {"none"} :
                 Begin(t, keys, wait) /\ (keys = <<>> => wait \in WaitKind)
<1>1. CASE \E tcs \in Key : u_thread_set_event_ocall(t, tcs)
  <2>1. PICK tcs \in Key : u_thread_set_event_ocall(t, tcs)
    BY <1>1
  <2>2. <<tcs>> # <<>>
    OBVIOUS
  <2> QED BY <2>1, <2>2 DEF u_thread_set_event_ocall, Reject
<1>2. CASE \E wait \in WaitKind : u_thread_wait_event_ocall(t, wait)
  BY <1>2 DEF u_thread_wait_event_ocall
<1>3. CASE \E tcss \in Batch : u_thread_set_multiple_events_ocall(t, tcss)
  BY <1>3, Zenon DEF u_thread_set_multiple_events_ocall
<1>4. CASE set_multiple_null(t)
  BY <1>4 DEF set_multiple_null, Reject
<1>5. CASE \E waiter \in Key, wait \in WaitKind : u_thread_setwait_events_ocall(t, waiter, wait)
  <2>1. PICK waiter \in Key, wait \in WaitKind : u_thread_setwait_events_ocall(t, waiter, wait)
    BY <1>5
  <2> QED BY <2>1 DEF u_thread_setwait_events_ocall, Reject
<1> QED BY <1>1, <1>2, <1>3, <1>4, <1>5 DEF Call

\* No step brings a thread to a place its wait cannot be at.
LEMMA FitsStep ==
  ASSUME RInv, [Next]_vars
  PROVE  KindFits'
<1> USE DEF RInv, IInv, Typed
<1>1. ASSUME NEW t \in Thread, Call(t) PROVE KindFits'
  BY <1>1, CallForms, BeginFits, LeaveFits
<1>2. ASSUME NEW t \in Thread, FindToWake(t) PROVE KindFits'
  BY <1>2 DEF FindToWake, TypeOK, KindFits, Inside
<1>3. ASSUME NEW t \in Thread, FindToWait(t) PROVE KindFits'
  <2>1. CASE Reject(t)
    BY <2>1, LeaveFits DEF Reject
  <2>2. CASE ~Reject(t)
    BY <1>3, <2>2 DEF FindToWait, TypeOK, KindFits, Inside
  <2> QED BY <2>1, <2>2
<1>4. ASSUME NEW t \in Thread, Wake(t) PROVE KindFits'
  <2>1. PICK woken \in Notified(event[t], value[event[t]] + 1) :
          pc' = [u \in Thread |-> IF u = t THEN AfterWake(t)
                                  ELSE IF u \in woken THEN "woken" ELSE pc[u]]
    BY <1>4 DEF Wake
  <2>2. /\ pc'[t] \in {"find_wake", "idle", "find_wait"}
        /\ \A u \in Thread \ {t} : pc'[u] # pc[u] => pc[u] = "parked" /\ pc'[u] = "woken"
    BY <1>4, <2>1, WakeMoves
  <2>3. pc'[t] = "find_wait" => kind[t] \in WaitKind
    BY <2>1 DEF AfterWake, TypeOK
  <2>4. UNCHANGED <<kind, due>> /\ pc[t] = "wake"
    BY <1>4 DEF Wake
  <2> QED BY <2>2, <2>3, <2>4 DEF KindFits, Inside
<1>5. ASSUME NEW t \in Thread, BadTimeout(t) PROVE KindFits'
  BY <1>5, LeaveFits DEF BadTimeout, Reject
<1>6. ASSUME NEW t \in Thread, Enter(t) PROVE KindFits'
  <2>1. kind[t] \in {"untimed", "timed"}
    BY <1>6 DEF Enter, KindFits, WaitKind
  <2> QED BY <1>6, <2>1, CheckFits DEF Enter
<1>7. ASSUME NEW t \in Thread, Recheck(t) PROVE KindFits'
  <2>1. kind[t] \in {"untimed", "timed"}
    BY <1>7 DEF Recheck, KindFits
  <2> QED BY <1>7, <2>1, CheckFits DEF Recheck
<1>8. ASSUME NEW t \in Thread, Unpark(t) PROVE KindFits'
  BY <1>8 DEF Unpark, TypeOK, KindFits, Inside
<1>9. ASSUME NEW t \in Thread, Deadline(t) PROVE KindFits'
  BY <1>9 DEF Deadline, TypeOK, KindFits, Inside
<1>10. CASE UNCHANGED vars
  BY <1>10 DEF vars, KindFits
<1> QED BY <1>1, <1>2, <1>3, <1>4, <1>5, <1>6, <1>7, <1>8, <1>9, <1>10 DEF Next, Run

--------------------------------------------------------------------------------
\* A thread that returns waits no longer; who else waits, waits on.
LEMMA LeaveWaits ==
  ASSUME RInv, NEW t \in Thread, NEW errno, Leave(t, errno)
  PROVE  /\ waiting' = [waiting EXCEPT ![t] = "no"]
         /\ result' = [result EXCEPT ![t] = errno]
         /\ Counted' = Counted \ {t}
<1>1. \A u \in Thread : Blocked(u)' = (u # t /\ Blocked(u))
  BY DEF Leave, Blocked, RInv, IInv, Typed, TypeOK
<1>2. \A u \in Thread \ {t} : kind'[u] = kind[u]
  BY DEF Leave, RInv, IInv, Typed, TypeOK
<1>3. Counted' = Counted \ {t}
  BY DEF Leave, Counted, RInv, IInv, Typed, TypeOK
<1> QED BY <1>1, <1>2, <1>3 DEF waiting, Leave

\* A return that took nothing is a return of the permits.
LEMMA ReturnRefines ==
  ASSUME RInv, PermitsFit, PermitsFit', NEW t \in Thread, NEW errno \in {"OK", "EINVAL"},
         Leave(t, errno), UNCHANGED value, pc[t] \notin {"parked", "woken"}, ~Blocked(t)
  PROVE  PP!Next
<1>1. waiting[t] = "no" /\ waiting' = waiting
  BY LeaveWaits DEF waiting
<1>2. UNCHANGED cache /\ Counted' = Counted
  BY LeaveWaits DEF Leave, Counted
<1>3. permits' = permits
  BY <1>2, PermitsKeep
<1>4. PP!Return(t, errno)
  BY <1>1, <1>3, LeaveWaits DEF PP!Return
<1> QED BY <1>4 DEF PP!Next

\* The test of the counter, with the mutex held: the thread takes a permit and goes,
\* parks, or gives back what it took and times out.
LEMMA CheckRefines ==
  ASSUME RInv, PermitsFit, PermitsFit', NEW t \in Thread, NEW v \in Int, v >= -1,
         pc[t] \in {"enter", "woken"}, kind[t] \in {"untimed", "timed"},
         v = value[event[t]] - (IF pc[t] = "enter" THEN 1 ELSE 0), Check(t, v)
  PROVE  PP!Next \/ UNCHANGED PP!permitVars
<1> DEFINE e == event[t]
           x == [tcs |-> TcsOf[t], event |-> e]
           Moved(w) == \A y \in cache :
                         value'[y.event] + Taken(y.tcs)'
                           = value[y.event] + Taken(y.tcs)
                             + (IF y.tcs = x.tcs THEN w + Taken(TcsOf[t])' - (v + 1) ELSE 0)
<1>0. /\ e \in Event /\ value \in [Event -> Int]
      /\ cache \in SUBSET CacheEntry
      /\ pc \in [Thread -> {"idle", "find_wake", "wake", "find_wait", "enter", "parked", "woken"}]
      /\ value[e] \in Int
  BY DEF RInv, IInv, Typed, TypeOK, HoldsEvent, Inside
<1>1. x \in cache /\ TcsOf[t] \in Key
  BY DEF RInv, IInv, Safe, EventIsCurrent, Typed, TypeOK, CacheEntry
<1>2. t \in Counted <=> pc[t] = "woken"
  BY DEF Counted
<1>3. permits[TcsOf[t]] = v + 1 /\ value[e] + Taken(TcsOf[t]) = v + 1
  BY <1>0, <1>1, <1>2 DEF PermitsFit
<1>4. waiting[t] = kind[t]
  BY DEF waiting, Blocked
<1>5. \A y \in cache : (y.tcs = TcsOf[t]) <=> (y.event = e)
  BY <1>1 DEF RInv, IInv, Safe, OneEventPerTcs
<1>6. \A y \in cache : y.tcs \in Key /\ y.event \in Event /\ value[y.event] \in Int
  BY <1>0 DEF CacheEntry
<1>7. \A k : Taken(k) \in Int /\ Taken(k)' \in Int
  BY DEF Taken
<1>8. ASSUME NEW w \in Int, value' = [value EXCEPT ![e] = w], Counted' \ {t} = Counted \ {t}
      PROVE  Moved(w)
  <2> SUFFICES ASSUME NEW y \in cache
               PROVE  value'[y.event] + Taken(y.tcs)'
                        = value[y.event] + Taken(y.tcs)
                          + (IF y.tcs = x.tcs THEN w + Taken(TcsOf[t])' - (v + 1) ELSE 0)
    OBVIOUS
  <2>0. Taken(y.tcs) \in Int /\ Taken(y.tcs)' \in Int /\ y.event \in Event /\ value[y.event] \in Int
    BY <1>6, <1>7
  <2>1. CASE y.tcs = TcsOf[t]
    <3>1. value'[y.event] = w /\ y.event = e
      BY <1>0, <1>5, <1>8, <2>1
    <3> QED BY <1>3, <2>0, <2>1, <3>1
  <2>2. CASE y.tcs # TcsOf[t]
    <3>1. Taken(y.tcs)' = Taken(y.tcs)
      BY <1>8, <2>2 DEF Taken
    <3>2. value'[y.event] = value[y.event]
      BY <1>0, <1>5, <1>8, <2>0, <2>2
    <3> QED BY <2>0, <2>2, <3>1, <3>2
  <2> QED BY <2>1, <2>2
<1> HIDE DEF Moved
<1>9. CASE v >= 0 /\ Leave(t, "OK") /\ value' = [value EXCEPT ![e] = v]
  <2>1. UNCHANGED cache /\ Counted' = Counted \ {t}
    BY <1>9, LeaveWaits DEF Leave
  <2>2. Taken(TcsOf[t])' = 0
    BY <2>1 DEF PermitsFit
  <2>3. \A y \in cache : value'[y.event] + Taken(y.tcs)'
                           = value[y.event] + Taken(y.tcs) + (IF y.tcs = x.tcs THEN -1 ELSE 0)
    <3>1. Moved(v)
      BY <1>8, <1>9, <2>1
    <3> QED BY <2>2, <3>1 DEF Moved
  <2>4. permits' = [permits EXCEPT ![TcsOf[t]] = @ + (-1)]
    BY <1>1, <2>1, <2>3, PermitsMove
  <2>5. [permits EXCEPT ![TcsOf[t]] = @ + (-1)] = [permits EXCEPT ![TcsOf[t]] = @ - 1]
    BY <1>1 DEF PermitsFit
  <2>6. /\ waiting' = [waiting EXCEPT ![t] = "no"]
        /\ result' = [result EXCEPT ![t] = "OK"]
    BY <1>9, LeaveWaits
  <2>7. waiting[t] # "no" /\ permits[TcsOf[t]] > 0
    BY <1>3, <1>4, <1>9
  <2>8. PP!Resume(t)
    BY <2>4, <2>5, <2>6, <2>7 DEF PP!Resume
  <2> QED BY <2>8 DEF PP!Next
<1>10. CASE v < 0 /\ due[t] /\ Leave(t, "ETIMEDOUT") /\ value' = [value EXCEPT ![e] = 0]
  <2>1. UNCHANGED cache /\ Counted' = Counted \ {t}
    BY <1>10, LeaveWaits DEF Leave
  <2>2. Taken(TcsOf[t])' = 0
    BY <2>1 DEF PermitsFit
  <2>3. \A y \in cache : value'[y.event] + Taken(y.tcs)' = value[y.event] + Taken(y.tcs)
    <3>1. v = -1
      BY <1>10
    <3>2. Moved(0)
      <4>1. 0 \in Int /\ value' = [value EXCEPT ![e] = 0] /\ Counted' \ {t} = Counted \ {t}
        BY <1>10, <2>1
      <4> HIDE DEF e
      <4> QED BY <1>8, <4>1
    <3> QED BY <1>6, <1>7, <2>2, <3>1, <3>2 DEF Moved
  <2>4. permits' = permits
    BY <2>1, <2>3, PermitsStay
  <2>5. kind[t] = "timed"
    BY <1>10 DEF RInv, KindFits
  <2>6. PP!TimeOut(t)
    BY <1>3, <1>4, <1>10, <2>4, <2>5, LeaveWaits DEF PP!TimeOut
  <2> QED BY <2>6 DEF PP!Next
<1>11. CASE /\ v < 0
            /\ pc' = [pc EXCEPT ![t] = "parked"]
            /\ value' = [value EXCEPT ![e] = v]
            /\ UNCHANGED <<cache, kind, result>>
  <2>1. Counted' = Counted \cup {t}
    BY <1>0, <1>11 DEF Counted
  <2>2. Taken(TcsOf[t])' = 1
    BY <2>1 DEF PermitsFit
  <2>3. \A y \in cache : value'[y.event] + Taken(y.tcs)' = value[y.event] + Taken(y.tcs)
    <3>1. Moved(v)
      BY <1>8, <1>11, <2>1
    <3> QED BY <1>6, <1>7, <2>2, <3>1 DEF Moved
  <2>4. permits' = permits
    BY <1>11, <2>3, PermitsStay
  <2>5. waiting' = waiting
    BY <1>0, <1>11 DEF waiting, Blocked
  <2> QED BY <1>11, <2>4, <2>5 DEF PP!permitVars
<1> QED BY <1>9, <1>10, <1>11 DEF Check

\* A lookup changes the permits of nobody: an entry it adds is that of a TCS nobody
\* waits on, with a new event.
LEMMA LookupKeeps ==
  ASSUME RInv, PermitsFit, PermitsFit', NEW t \in Thread, NEW tcs \in Key, get_event(t, tcs),
         Counted' = Counted
  PROVE  permits' = permits
<1>0. \A k : Taken(k)' = Taken(k)
  BY DEF Taken
<1>1. CASE UNCHANGED <<cache, value>>
  BY <1>1, PermitsKeep
<1>2. ASSUME Cached(tcs) = {}, NEW f \in Fresh,
             cache' = cache \cup {[tcs |-> tcs, event |-> f]}, value' = [value EXCEPT ![f] = 0]
      PROVE  permits' = permits
  <2>1. ASSUME NEW u \in Counted, TcsOf[u] = tcs
        PROVE  FALSE
    <3> DEFINE z == [tcs |-> TcsOf[u], event |-> event[u]]
    <3>1. z \in cache
      BY DEF RInv, IInv, Safe, EventIsCurrent, Counted
    <3>2. z.tcs = tcs
      BY <2>1
    <3> HIDE DEF z
    <3> QED BY <1>2, <3>1, <3>2 DEF Cached
  <2>2. Taken(tcs) = 0
    BY <2>1 DEF Taken
  <2>3. \A y \in cache : y.event # f /\ y.event \in Event
    BY DEF Fresh, RInv, IInv, Typed, TypeOK, CacheEntry
  <2>4. \A y \in cache : value'[y.event] = value[y.event]
    BY <1>2, <2>3 DEF RInv, IInv, Typed, TypeOK
  <2>5. f \in Event /\ value'[f] = 0
    BY <1>2 DEF Fresh, RInv, IInv, Typed, TypeOK
  <2>6. \A y \in cache' \ cache : y.tcs = tcs /\ y.event = f
    BY <1>2
  <2> QED BY <1>0, <1>2, <2>2, <2>4, <2>5, <2>6, PermitsStay
<1> QED BY <1>1, <1>2 DEF get_event

\* A wake-up posts one permit to the TCS it was asked to wake.
LEMMA WakeRefines ==
  ASSUME RInv, PermitsFit, PermitsFit', NEW t \in Thread, Wake(t)
  PROVE  PP!Next
<1> DEFINE e == event[t]
           x == [tcs |-> Head(toWake[t]), event |-> e]
<1>1. /\ pc[t] = "wake" /\ e \in Event
      /\ value \in [Event -> Int] /\ value' = [value EXCEPT ![e] = value[e] + 1]
      /\ UNCHANGED <<cache, kind>>
      /\ result' \in {result, [result EXCEPT ![t] = "OK"]}
  BY DEF Wake, RInv, IInv, Typed, TypeOK, HoldsEvent
<1>2. PICK woken \in Notified(e, value[e] + 1) :
        pc' = [u \in Thread |-> IF u = t THEN AfterWake(t)
                                ELSE IF u \in woken THEN "woken" ELSE pc[u]]
  BY DEF Wake
<1>3. /\ woken \subseteq Parked(e)
      /\ pc'[t] \in {"find_wake", "idle", "find_wait"}
      /\ \A u \in Thread \ {t} : pc'[u] # pc[u] => pc[u] = "parked" /\ pc'[u] = "woken"
  BY <1>2, WakeMoves DEF RInv, IInv
<1>4. Counted' = Counted
  BY <1>1, <1>3 DEF Counted
<1>5. \A u \in Thread : Blocked(u)' = Blocked(u)
  BY <1>1, <1>3 DEF Blocked
<1>6. waiting' = waiting /\ waiting[t] = "no"
  BY <1>1, <1>5 DEF waiting, Blocked
<1>7. x \in cache /\ x.tcs \in Key
  BY <1>1 DEF RInv, IInv, Safe, EventIsCurrent, Typed, TypeOK, CacheEntry
<1>8. \A k : Taken(k)' = Taken(k) /\ Taken(k) \in Int
  BY <1>4 DEF Taken
<1>9. \A y \in cache : value'[y.event] + Taken(y.tcs)'
                         = value[y.event] + Taken(y.tcs) + (IF y.tcs = x.tcs THEN 1 ELSE 0)
  <2> SUFFICES ASSUME NEW y \in cache
               PROVE  value'[y.event] = value[y.event] + (IF y.tcs = x.tcs THEN 1 ELSE 0)
                      /\ value[y.event] \in Int /\ value'[y.event] \in Int
    BY <1>8
  <2>1. y.event \in Event
    BY DEF RInv, IInv, Typed, TypeOK, CacheEntry
  <2>2. (y.tcs = x.tcs) <=> (y.event = e)
    BY <1>7 DEF RInv, IInv, Safe, OneEventPerTcs
  <2> HIDE DEF x, e
  <2> QED BY <1>1, <2>1, <2>2
<1>10. permits' = [permits EXCEPT ![x.tcs] = @ + 1]
  BY <1>1, <1>7, <1>9, PermitsMove
<1>11. PP!Post(t, x.tcs)
  BY <1>1, <1>6, <1>10 DEF PP!Post
<1> QED BY <1>7, <1>11 DEF PP!Next

\* Every step of the service is one of the permits, or changes nothing of theirs.
LEMMA StepRefines ==
  ASSUME RInv, PermitsFit, PermitsFit', [Next]_vars
  PROVE  PP!Next \/ UNCHANGED PP!permitVars
<1> USE DEF PP!permitVars
<1> DEFINE Goal == PP!Next \/ UNCHANGED PP!permitVars
<1>1. ASSUME NEW t \in Thread, Call(t) PROVE Goal
  <2>1. pc[t] = "idle" /\ ~Blocked(t)
    BY <1>1, CallForms DEF Blocked
  <2>2. CASE \E errno \in {"OK", "EINVAL"} : Leave(t, errno) /\ UNCHANGED value
    BY <2>1, <2>2, ReturnRefines
  <2>3. ASSUME NEW keys, NEW wait, Begin(t, keys, wait) PROVE Goal
    <3>1. pc'[t] \in {"find_wait", "find_wake"} /\ \A u \in Thread \ {t} : pc'[u] = pc[u] /\ kind'[u] = kind[u]
      BY <2>3 DEF Begin, RInv, IInv, Typed, TypeOK
    <3>2. Counted' = Counted /\ waiting' = waiting
      BY <2>1, <3>1 DEF Counted, waiting, Blocked
    <3>3. permits' = permits
      BY <2>3, <3>2, PermitsKeep DEF Begin
    <3> QED BY <2>3, <3>2, <3>3 DEF Begin
  <2> QED BY <1>1, <2>2, <2>3, CallForms
<1>2. ASSUME NEW t \in Thread, FindToWake(t) PROVE Goal
  <2>1. Head(toWake[t]) \in Key
    BY <1>2, TailOfKeys DEF FindToWake, RInv, IInv, Typed, TypeOK, HasToWake
  <2>2. pc[t] = "find_wake" /\ pc' = [pc EXCEPT ![t] = "wake"] /\ UNCHANGED <<kind, result>>
    BY <1>2 DEF FindToWake
  <2>3. Counted' = Counted /\ waiting' = waiting
    BY <2>2 DEF Counted, waiting, Blocked, RInv, IInv, Typed, TypeOK
  <2>4. permits' = permits
    BY <1>2, <2>1, <2>3, LookupKeeps DEF FindToWake
  <2> QED BY <2>2, <2>3, <2>4
<1>3. ASSUME NEW t \in Thread, FindToWait(t) PROVE Goal
  <2>1. pc[t] = "find_wait" /\ kind[t] \in WaitKind /\ ~Blocked(t)
    BY <1>3 DEF FindToWait, RInv, KindFits, Blocked
  <2>2. CASE Reject(t)
    BY <2>1, <2>2, ReturnRefines DEF Reject
  <2>3. CASE kind[t] # "null" /\ get_event(t, TcsOf[t]) /\ pc' = [pc EXCEPT ![t] = "enter"]
             /\ UNCHANGED <<kind, result>>
    <3>1. TcsOf[t] \in Key
      BY OwnerAssumption DEF Key
    <3>2. pc \in [Thread -> {"idle", "find_wake", "wake", "find_wait", "enter", "parked", "woken"}]
      BY DEF RInv, IInv, Typed, TypeOK
    <3>3. Counted' = Counted
      BY <2>1, <2>3, <3>2 DEF Counted
    <3>4. permits' = permits
      BY <2>3, <3>1, <3>3, LookupKeeps
    <3>5. CASE kind[t] = "badtime"
      <4>1. waiting' = waiting
        BY <2>1, <2>3, <3>2, <3>5 DEF waiting, Blocked
      <4> QED BY <2>3, <3>4, <4>1
    <3>6. CASE kind[t] # "badtime"
      <4>1. waiting[t] = "no" /\ waiting' = [waiting EXCEPT ![t] = kind[t]]
        BY <2>1, <2>3, <3>2, <3>6 DEF waiting, Blocked
      <4>2. PP!Park(t, kind[t]) /\ kind[t] \in {"untimed", "timed"}
        BY <2>1, <2>3, <3>4, <3>6, <4>1 DEF PP!Park, WaitKind
      <4> QED BY <4>2 DEF PP!Next
    <3> QED BY <3>5, <3>6
  <2> QED BY <1>3, <2>2, <2>3 DEF FindToWait
<1>4. ASSUME NEW t \in Thread, Wake(t) PROVE Goal
  BY <1>4, WakeRefines
<1>5. ASSUME NEW t \in Thread, BadTimeout(t) PROVE Goal
  BY <1>5, ReturnRefines DEF BadTimeout, Reject, Blocked
<1>6. ASSUME NEW t \in Thread, Enter(t) PROVE Goal
  <2>1. pc[t] = "enter" /\ event[t] \in Event /\ value[event[t]] \in Int
    BY <1>6 DEF Enter, RInv, IInv, Typed, TypeOK, HoldsEvent, Inside
  <2>2. value[event[t]] >= 0
    BY <2>1, OneInside DEF RInv, IInv, Safe, DebtHasDebtor, Counted, Inside
  <2>3. kind[t] \in {"untimed", "timed"} /\ Check(t, value[event[t]] - 1)
    BY <1>6, <2>1 DEF Enter, RInv, KindFits, WaitKind
  <2> QED BY <2>1, <2>2, <2>3, CheckRefines
<1>7. ASSUME NEW t \in Thread, Recheck(t) PROVE Goal
  <2>1. pc[t] = "woken" /\ event[t] \in Event /\ value[event[t]] \in Int
    BY <1>7 DEF Recheck, RInv, IInv, Typed, TypeOK, HoldsEvent, Inside
  <2>2. value[event[t]] >= -1
    BY <2>1 DEF RInv, IInv, Safe, DebtHasDebtor
  <2>3. kind[t] \in {"untimed", "timed"} /\ Check(t, value[event[t]])
    BY <1>7, <2>1 DEF Recheck, RInv, KindFits
  <2> QED BY <2>1, <2>2, <2>3, CheckRefines
<1>8. ASSUME NEW t \in Thread, Unpark(t) PROVE Goal
  <2>1. Counted' = Counted /\ waiting' = waiting
    BY <1>8 DEF Unpark, Counted, waiting, Blocked, RInv, IInv, Typed, TypeOK
  <2> QED BY <1>8, <2>1, PermitsKeep DEF Unpark
<1>9. ASSUME NEW t \in Thread, Deadline(t) PROVE Goal
  <2>1. Counted' = Counted /\ waiting' = waiting
    BY <1>9 DEF Deadline, Counted, waiting, Blocked
  <2> QED BY <1>9, <2>1, PermitsKeep DEF Deadline
<1>10. CASE UNCHANGED vars
  <2>1. Counted' = Counted /\ waiting' = waiting
    BY <1>10 DEF vars, Counted, waiting, Blocked
  <2> QED BY <1>10, <2>1, PermitsKeep DEF vars
<1> QED BY <1>1, <1>2, <1>3, <1>4, <1>5, <1>6, <1>7, <1>8, <1>9, <1>10 DEF Next, Run

\* No entry, no permit; no thread in an ocall, none waiting.
LEMMA InitRefines == Init => PP!Init /\ KindFits
<1> SUFFICES ASSUME Init PROVE PP!Init /\ KindFits
  OBVIOUS
<1>1. \A k : Cached(k) = {}
  BY DEF Init, Cached
<1>2. permits = [k \in Key |-> 0]
  BY <1>1 DEF permits
<1>3. waiting = [t \in Thread |-> "no"]
  BY DEF Init, waiting, Blocked
<1> QED BY <1>2, <1>3 DEF Init, PP!Init, KindFits

\* event.rs, with its cache, its counters that go below zero, its spurious returns
\* and its timers, does nothing that permits do not do: a set posts one to the TCS
\* it names, a wait that succeeds took one, and a wait that timed out had none to
\* take and owes none.
THEOREM PermitsImplemented == Spec => ImplementsPermits
<1>1. Init => RInv /\ PP!Init
  BY InitTyped, InitSafe, InitRefines DEF IInv, RInv
<1>2. RInv /\ [Next]_vars => RInv'
  BY TypedStep, SafeStep, FitsStep DEF IInv, RInv
<1>3. RInv => PermitsFit
  BY PermitsAre DEF RInv
<1>4. RInv /\ PermitsFit /\ PermitsFit' /\ [Next]_vars => [PP!Next]_PP!permitVars
  BY StepRefines
<1> QED BY <1>1, <1>2, <1>3, <1>4, PTL DEF Spec, ImplementsPermits, PP!Spec
================================================================================
