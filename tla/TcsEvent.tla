-------------------------------- MODULE TcsEvent --------------------------------
(***************************************************************************)
(* The event service of sgx-urts (src/sgx-urts/src/event.rs): the ocalls   *)
(* with which enclave threads put themselves to sleep and wake each other. *)
(* Every TCS has an SeEvent, a Mutex<i32> with a Condvar, found by its     *)
(* pointer in a global cache that creates it on first use.  The counter    *)
(* goes to -1 when its owner sleeps; a wake-up notifies the condition      *)
(* variable only when it brings the counter back to 0.                     *)
(*                                                                         *)
(* A step is a critical section: get_event runs under the cache mutex,     *)
(* wake and the pieces of wait between two parks run under the mutex of    *)
(* the event, and nothing else is shared.  Condvar::wait releases that     *)
(* mutex and parks in one step.                                            *)
(***************************************************************************)
EXTENDS Integers, Sequences, SequencesExt

CONSTANTS
  Thread,      \* the host threads that execute ocalls for the enclave
  Tcs,         \* the TCS pointers of the enclave
  NullTcs,     \* the null pointer
  TcsOf,       \* TcsOf[t]: the TCS thread t has entered the enclave with
  Event,       \* the SeEvent objects the heap may hand out
  NoEvent,     \* no reference held
  MaxPermits,  \* bound: no wake-up beyond this counter value
  MaxBatch     \* bound: longest list given to set_multiple_events

ASSUME NullAssumption == NullTcs \notin Tcs /\ NoEvent \notin Event
\* A TCS is busy while a thread executes on it, so no two threads share one.
ASSUME OwnerAssumption ==
  /\ TcsOf \in [Thread -> Tcs]
  /\ \A t, u \in Thread : TcsOf[t] = TcsOf[u] => t = u
ASSUME BoundAssumption == MaxPermits \in Nat /\ MaxBatch \in Nat

VARIABLES
  cache,   \* GLOBAL_TCS_CACHE: the set of its SgxTcsInfo entries
  value,   \* value[e]: the i32 the mutex of SeEvent e protects
  pc,      \* pc[t]: where in an ocall thread t is
  toWake,  \* toWake[t]: TCS pointers the ocall of t still has to wake
  kind,    \* kind[t]: the wait that follows those wake-ups, "none" if none does
  event,   \* event[t]: the &SeEvent t got from get_tcs_event and still uses
  due,     \* due[t]: the timeout of the wait of t has elapsed
  result   \* result[t]: the last *error an ocall wrote for t

vars == <<cache, value, pc, toWake, kind, event, due, result>>

Key == Tcs \cup {NullTcs}
WaitKind == {"untimed", "timed", "badtime", "null"}
Batch == BoundedSeq(Key, MaxBatch)
CacheEntry == [tcs : Key, event : Event]

TypeOK ==
  /\ cache \in SUBSET CacheEntry
  /\ value \in [Event -> Int]
  /\ pc \in [Thread -> {"idle", "find_wake", "wake", "find_wait", "enter", "parked", "woken"}]
  /\ toWake \in [Thread -> Seq(Key)]
  /\ kind \in [Thread -> WaitKind \cup {"none"}]
  /\ event \in [Thread -> Event \cup {NoEvent}]
  /\ due \in [Thread -> BOOLEAN]
  /\ result \in [Thread -> {"none", "OK", "EINVAL", "ETIMEDOUT"}]

Init ==
  /\ cache = {}
  /\ value = [e \in Event |-> 0]
  /\ pc = [t \in Thread |-> "idle"]
  /\ toWake = [t \in Thread |-> <<>>]
  /\ kind = [t \in Thread |-> "none"]
  /\ event = [t \in Thread |-> NoEvent]
  /\ due = [t \in Thread |-> FALSE]
  /\ result = [t \in Thread |-> "none"]

--------------------------------------------------------------------------------
\* How an ocall of t begins and ends.

Begin(t, keys, wait) ==
  /\ pc' = [pc EXCEPT ![t] = IF keys = <<>> THEN "find_wait" ELSE "find_wake"]
  /\ toWake' = [toWake EXCEPT ![t] = keys]
  /\ kind' = [kind EXCEPT ![t] = wait]
  /\ UNCHANGED <<cache, value, event, due, result>>

\* What every return leaves behind, whatever the shared state becomes.
Leave(t, errno) ==
  /\ pc' = [pc EXCEPT ![t] = "idle"]
  /\ kind' = [kind EXCEPT ![t] = "none"]
  /\ due' = [due EXCEPT ![t] = FALSE]
  /\ event' = [event EXCEPT ![t] = NoEvent]
  /\ result' = [result EXCEPT ![t] = errno]
  /\ UNCHANGED <<cache, toWake>>

Reject(t) == Leave(t, "EINVAL") /\ UNCHANGED value

u_thread_set_event_ocall(t, tcs) ==
  /\ pc[t] = "idle"
  /\ \/ tcs = NullTcs /\ Reject(t)
     \/ tcs # NullTcs /\ Begin(t, <<tcs>>, "none")

u_thread_wait_event_ocall(t, wait) ==
  /\ pc[t] = "idle"
  /\ Begin(t, <<>>, wait)

\* The elements of the list are not checked, only the pointer to it is.
u_thread_set_multiple_events_ocall(t, tcss) ==
  /\ pc[t] = "idle"
  /\ \/ tcss = <<>> /\ Leave(t, "OK") /\ UNCHANGED value
     \/ tcss # <<>> /\ Begin(t, tcss, "none")

set_multiple_null(t) == pc[t] = "idle" /\ Reject(t)

u_thread_setwait_events_ocall(t, waiter, wait) ==
  /\ pc[t] = "idle"
  /\ \/ waiter = NullTcs /\ Reject(t)
     \/ waiter # NullTcs /\ Begin(t, <<waiter>>, wait)

--------------------------------------------------------------------------------
\* get_tcs_event: find the entry of a TCS or push one with a new SeEvent.

Cached(tcs) == {x \in cache : x.tcs = tcs}
Fresh == Event \ {x.event : x \in cache}

\* Mutant: the miss is decided without the cache mutex, so an entry may be there.
get_event_unlocked(t, tcs) ==
  \E e \in Fresh :
    /\ cache' = cache \cup {[tcs |-> tcs, event |-> e]}
    /\ value' = [value EXCEPT ![e] = 0]
    /\ event' = [event EXCEPT ![t] = e]

\* Mutant: the cache keeps only the entry it was asked for last.
get_event_evicting(t, tcs) ==
  \/ \E x \in Cached(tcs) :
       /\ event' = [event EXCEPT ![t] = x.event]
       /\ UNCHANGED <<cache, value>>
  \/ /\ Cached(tcs) = {}
     /\ \E e \in Fresh :
          /\ cache' = {[tcs |-> tcs, event |-> e]}
          /\ value' = [value EXCEPT ![e] = 0]
          /\ event' = [event EXCEPT ![t] = e]

get_event(t, tcs) ==
  \/ \E x \in Cached(tcs) :
       /\ event' = [event EXCEPT ![t] = x.event]
       /\ UNCHANGED <<cache, value>>
  \/ /\ Cached(tcs) = {}
     /\ \E e \in Fresh :
          /\ cache' = cache \cup {[tcs |-> tcs, event |-> e]}
          /\ value' = [value EXCEPT ![e] = 0]
          /\ event' = [event EXCEPT ![t] = e]

FindToWake(t) ==
  /\ pc[t] = "find_wake"
  /\ get_event(t, Head(toWake[t]))
  /\ pc' = [pc EXCEPT ![t] = "wake"]
  /\ UNCHANGED <<toWake, kind, due, result>>

\* The wait of u_thread_wait_event_ocall: a null TCS is rejected, here after
\* the set of a setwait has been done.
FindToWait(t) ==
  /\ pc[t] = "find_wait"
  /\ \/ kind[t] = "null" /\ Reject(t)
     \/ /\ kind[t] # "null"
        /\ get_event(t, TcsOf[t])
        /\ pc' = [pc EXCEPT ![t] = "enter"]
        /\ UNCHANGED <<toWake, kind, due, result>>

--------------------------------------------------------------------------------
\* SeEvent::wake, and the return of the ocall after its last wake-up.

Parked(e) == {u \in Thread : pc[u] = "parked" /\ event[u] = e}

\* Mutant: notify when the counter becomes positive.
Notified_positive(e, v) ==
  IF v > 0 /\ Parked(e) # {} THEN {{u} : u \in Parked(e)} ELSE {{}}

\* The threads notify_one may take: one that is parked, or none if none is.
\* It notifies only when the counter comes back to 0.
Notified(e, v) ==
  IF v = 0 /\ Parked(e) # {} THEN {{u} : u \in Parked(e)} ELSE {{}}

AfterWake(t) ==
  IF Len(toWake[t]) > 1 THEN "find_wake"
  ELSE IF kind[t] = "none" THEN "idle" ELSE "find_wait"

Wake(t) ==
  LET e == event[t]
      v == value[e] + 1
  IN /\ pc[t] = "wake"
     /\ v <= MaxPermits
     /\ value' = [value EXCEPT ![e] = v]
     /\ \E woken \in Notified(e, v) :
          pc' = [u \in Thread |-> IF u = t THEN AfterWake(t)
                                  ELSE IF u \in woken THEN "woken" ELSE pc[u]]
     /\ toWake' = [toWake EXCEPT ![t] = Tail(@)]
     /\ result' = IF Len(toWake[t]) > 1 THEN result ELSE [result EXCEPT ![t] = "OK"]
     /\ event' = [event EXCEPT ![t] = NoEvent]
     /\ UNCHANGED <<cache, kind, due>>

--------------------------------------------------------------------------------
\* SeEvent::wait and SeEvent::wait_timeout.

\* timespec_to_duration fails: the counter is not touched.
BadTimeout(t) ==
  /\ pc[t] = "enter"
  /\ kind[t] = "badtime"
  /\ Reject(t)

\* Mutant: a timeout leaves the counter as it is.
Check_keep_debt(t, v) ==
  LET e == event[t]
  IN \/ v >= 0 /\ Leave(t, "OK") /\ value' = [value EXCEPT ![e] = v]
     \/ v < 0 /\ due[t] /\ Leave(t, "ETIMEDOUT") /\ value' = [value EXCEPT ![e] = v]
     \/ /\ v < 0 /\ ~due[t]
        /\ pc' = [pc EXCEPT ![t] = "parked"]
        /\ value' = [value EXCEPT ![e] = v]
        /\ UNCHANGED <<cache, toWake, kind, event, due, result>>

\* Mutant: the loop parks again without a look at the clock.
Check_no_clock(t, v) ==
  LET e == event[t]
  IN \/ v >= 0 /\ Leave(t, "OK") /\ value' = [value EXCEPT ![e] = v]
     \/ /\ v < 0
        /\ pc' = [pc EXCEPT ![t] = "parked"]
        /\ value' = [value EXCEPT ![e] = v]
        /\ UNCHANGED <<cache, toWake, kind, event, due, result>>

\* The loop on the counter v, under the mutex: succeed, give up and clear the
\* debt of the wait, or release the mutex and park.
Check(t, v) ==
  LET e == event[t]
  IN \/ /\ v >= 0
        /\ Leave(t, "OK")
        /\ value' = [value EXCEPT ![e] = v]
     \/ /\ v < 0
        /\ due[t]
        /\ Leave(t, "ETIMEDOUT")
        /\ value' = [value EXCEPT ![e] = 0]
     \/ /\ v < 0
        /\ ~due[t]
        /\ pc' = [pc EXCEPT ![t] = "parked"]
        /\ value' = [value EXCEPT ![e] = v]
        /\ UNCHANGED <<cache, toWake, kind, event, due, result>>

Enter(t) ==
  /\ pc[t] = "enter"
  /\ kind[t] # "badtime"
  /\ Check(t, value[event[t]] - 1)

\* Mutant: an if in place of the loop, so a spurious wake-up ends the wait.
Recheck_once(t) ==
  /\ pc[t] = "woken"
  /\ Leave(t, "OK")
  /\ UNCHANGED value

Recheck(t) ==
  /\ pc[t] = "woken"
  /\ Check(t, value[event[t]])

\* Condvar waits may end with no notification: by the timer or spuriously.
Unpark(t) ==
  /\ pc[t] = "parked"
  /\ pc' = [pc EXCEPT ![t] = "woken"]
  /\ UNCHANGED <<cache, value, toWake, kind, event, due, result>>

\* The clock passes the deadline of a timed wait.
Deadline(t) ==
  /\ kind[t] = "timed"
  /\ pc[t] \in {"enter", "parked", "woken"}
  /\ ~due[t]
  /\ due' = [due EXCEPT ![t] = TRUE]
  /\ UNCHANGED <<cache, value, pc, toWake, kind, event, result>>

--------------------------------------------------------------------------------
Call(t) ==
  \/ \E tcs \in Key : u_thread_set_event_ocall(t, tcs)
  \/ \E wait \in WaitKind : u_thread_wait_event_ocall(t, wait)
  \/ \E tcss \in Batch : u_thread_set_multiple_events_ocall(t, tcss)
  \/ set_multiple_null(t)
  \/ \E waiter \in Key, wait \in WaitKind : u_thread_setwait_events_ocall(t, waiter, wait)

Run(t) ==
  \/ FindToWake(t)
  \/ FindToWait(t)
  \/ Wake(t)
  \/ BadTimeout(t)
  \/ Enter(t)
  \/ Recheck(t)

Next == \E t \in Thread : Call(t) \/ Run(t) \/ Unpark(t) \/ Deadline(t)

Spec == Init /\ [][Next]_vars

\* A thread that can run runs, the clock advances and the timer of a timed wait
\* fires.  Nothing makes a thread call, and nothing makes it wake spuriously.
Fairness ==
  \A t \in Thread :
    /\ WF_vars(Run(t))
    /\ WF_vars(Deadline(t))
    /\ WF_vars(due[t] /\ Unpark(t))

FairSpec == Spec /\ Fairness

--------------------------------------------------------------------------------
\* Threads that have taken one from the counter and not yet returned.
Counted == {t \in Thread : pc[t] \in {"parked", "woken"}}

\* Two threads that look a TCS up for the first time at once must not end up
\* with two events, and no event serves two TCSs: one is set, the other slept on.
OneEventPerTcs ==
  \A x, y \in cache : x.tcs = y.tcs <=> x.event = y.event

\* Between the lookup and the use of an event, whatever other threads look up
\* or create, the event a thread holds is the one cached for its TCS.
EventIsCurrent ==
  \A t \in Thread :
    /\ pc[t] = "wake" => [tcs |-> Head(toWake[t]), event |-> event[t]] \in cache
    /\ pc[t] \in {"enter", "parked", "woken"} => [tcs |-> TcsOf[t], event |-> event[t]] \in cache

\* No lost wake-up: a thread sleeps only while the counter says it must, although
\* wake notifies at one value of the counter only and notifies one thread only.
NoLostWakeup ==
  \A t \in Thread : pc[t] = "parked" => value[event[t]] < 0

\* A counter is below zero on behalf of exactly one thread inside wait: a wait
\* that times out leaves no debt for the next wake-up to pay.
DebtHasDebtor ==
  \A e \in Event :
    value[e] < 0 => /\ value[e] = -1
                    /\ \E t \in Counted : event[t] = e

--------------------------------------------------------------------------------
\* The service as permits: the counter of a TCS, plus the one its owner took in
\* advance while it waits.
Blocked(t) == pc[t] \in {"enter", "parked", "woken"} /\ kind[t] # "badtime"

permits ==
  [k \in Key |->
     IF Cached(k) = {} THEN 0
     ELSE value[(CHOOSE x \in Cached(k) : TRUE).event]
          + (IF \E t \in Counted : TcsOf[t] = k THEN 1 ELSE 0)]

waiting == [t \in Thread |-> IF Blocked(t) THEN kind[t] ELSE "no"]

PP == INSTANCE ParkPermits WITH outcome <- result

\* Every interleaving of lookups, wake-ups, parks, spurious wake-ups and timers
\* is one of posting and taking permits, with the errno each ocall reports.
ImplementsPermits == PP!Spec

\* A thread that waits while its TCS has a permit returns.
PermitIsTaken == PP!PermitIsTaken

\* A timed wait returns, whether anybody sets its event or not.
TimedWaitEnds == PP!TimedWaitEnds
================================================================================
