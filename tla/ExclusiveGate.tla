---------------------------- MODULE ExclusiveGate ----------------------------
(***************************************************************************)
(* subiquitycore.async_helpers.exclusive (source not in this tree;        *)
(* modelled from spec 4.2 and TestExclusive in                             *)
(* src/subiquitycore/tests/test_async_helpers.py): g = exclusive(f) holds  *)
(* a lock around each call of f.  A call made while the lock is held, or   *)
(* while earlier calls still wait, queues; a release wakes the first       *)
(* waiter, which takes the lock when it next runs.  A call may be          *)
(* cancelled (e.g. by asyncio.wait_for) while queued, once woken, or while *)
(* f runs.                                                                 *)
(***************************************************************************)
EXTENDS Sequences, SequencesExt

CONSTANTS
    Callers,   \* the calls of g
    None

ASSUME None \notin Callers

VARIABLES
    holder,    \* the call holding the lock, or None
    waiters,   \* the lock's FIFO queue of waiting calls
    pc,        \* pc[c]: idle, queued, woken, running, done or cancelled
    arrived,   \* history: the calls in the order they called g
    entered    \* history: the calls in the order they began to run f

vars == <<holder, waiters, pc, arrived, entered>>

Waiting == {c \in Callers : pc[c] \in {"queued", "woken"}}

(* pc after waking the first call of queue q, if there is one. *)
WakeFirst(q, p) == IF q = <<>> THEN p ELSE [p EXCEPT ![Head(q)] = "woken"]

(* Mutant of Call: a free lock is taken even though others are waiting. *)
CallBarges(c) ==
    /\ pc[c] = "idle"
    /\ arrived' = Append(arrived, c)
    /\ \/ /\ holder = None
          /\ holder' = c
          /\ pc' = [pc EXCEPT ![c] = "running"]
          /\ entered' = Append(entered, c)
          /\ UNCHANGED waiters
       \/ /\ holder # None
          /\ waiters' = Append(waiters, c)
          /\ pc' = [pc EXCEPT ![c] = "queued"]
          /\ UNCHANGED <<holder, entered>>

(* g is called: a free lock nobody waits for is taken without suspending *)
(* and f starts; otherwise the call queues.                               *)
Call(c) ==
    /\ pc[c] = "idle"
    /\ arrived' = Append(arrived, c)
    /\ \/ /\ holder = None /\ waiters = <<>>
          /\ holder' = c
          /\ pc' = [pc EXCEPT ![c] = "running"]
          /\ entered' = Append(entered, c)
          /\ UNCHANGED waiters
       \/ /\ holder # None \/ waiters # <<>>
          /\ waiters' = Append(waiters, c)
          /\ pc' = [pc EXCEPT ![c] = "queued"]
          /\ UNCHANGED <<holder, entered>>

(* A woken call runs: it leaves the queue, takes the lock and starts f. *)
TakeOver(c) ==
    /\ pc[c] = "woken"
    /\ holder' = c
    /\ waiters' = Remove(waiters, c)
    /\ pc' = [pc EXCEPT ![c] = "running"]
    /\ entered' = Append(entered, c)
    /\ UNCHANGED arrived

(* f returns or raises ("done"), or the call is cancelled inside f: on  *)
(* every path the lock is released and the first waiter woken.           *)
Return(c, outcome) ==
    /\ pc[c] = "running"
    /\ holder' = None
    /\ pc' = WakeFirst(waiters, [pc EXCEPT ![c] = outcome])
    /\ UNCHANGED <<waiters, arrived, entered>>

(* Mutant of CancelWaiting: a cancelled woken call does not pass the    *)
(* wake-up on.                                                            *)
CancelNoPass(c) ==
    /\ pc[c] \in {"queued", "woken"}
    /\ waiters' = Remove(waiters, c)
    /\ pc' = [pc EXCEPT ![c] = "cancelled"]
    /\ UNCHANGED <<holder, arrived, entered>>

(* A waiting call is cancelled: it leaves the queue and, the lock being  *)
(* free, wakes the (new) first waiter in its place.                       *)
CancelWaiting(c) ==
    /\ pc[c] \in {"queued", "woken"}
    /\ waiters' = Remove(waiters, c)
    /\ pc' = IF holder = None
             THEN WakeFirst(waiters', [pc EXCEPT ![c] = "cancelled"])
             ELSE [pc EXCEPT ![c] = "cancelled"]
    /\ UNCHANGED <<holder, arrived, entered>>

(* The loop has nothing ready to run. *)
Idle ==
    /\ \A c \in Callers : pc[c] \notin {"woken", "running"}
    /\ UNCHANGED vars

Init ==
    /\ holder = None
    /\ waiters = <<>>
    /\ pc = [c \in Callers |-> "idle"]
    /\ arrived = <<>>
    /\ entered = <<>>

Next ==
    \/ \E c \in Callers :
          \/ Call(c) \/ TakeOver(c) \/ CancelWaiting(c)
          \/ \E o \in {"done", "cancelled"} : Return(c, o)
    \/ Idle

(* asyncio runs every woken task; f itself returns (it is not cancelled  *)
(* unless someone cancels it).                                            *)
Fairness == \A c \in Callers : WF_vars(TakeOver(c)) /\ WF_vars(Return(c, "done"))

Spec == Init /\ [][Next]_vars /\ Fairness

-----------------------------------------------------------------------------
(* Refinement: seen through `holder`, the gate is an atomic lock.  It     *)
(* implies P4, no two executions of f overlap (TestExclusive: the two     *)
(* calls never meet at the barrier).                                      *)
Lock == INSTANCE Mutex WITH Procs <- Callers, owner <- holder

ImplementsMutex == Lock!Spec

(* FIFO: once a call has begun f, every call still waiting arrived after *)
(* it; a later caller never overtakes a waiter, even one just woken.     *)
ArrivedBefore(a, b) ==
    \E i, j \in 1 .. Len(arrived) : i < j /\ arrived[i] = a /\ arrived[j] = b

FifoEntry ==
    \A i \in 1 .. Len(entered), d \in Waiting : ArrivedBefore(entered[i], d)

(* P4, "total executions equal total calls": every call that waits for   *)
(* the lock eventually runs f or is cancelled; nobody waits forever.      *)
NoWaiterStarves ==
    \A c \in Callers : c \in Waiting ~> pc[c] \in {"running", "done", "cancelled"}

=============================================================================
