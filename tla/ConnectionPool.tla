--------------------------- MODULE ConnectionPool ---------------------------
(***************************************************************************)
(* The pool of database connections (db_connection.h:14-95): a vector of   *)
(* connections under a mutex, a condition variable for the threads that    *)
(* find none, and a wrapper whose destructor returns the connection.       *)
(*                                                                         *)
(* A step is a critical section of the mutex, or the notification, which   *)
(* ReturnConnection sends after it has released the mutex.  The wait of a  *)
(* condition variable gives the mutex up and falls asleep in one step; a   *)
(* thread may also wake up without a notification.                         *)
(***************************************************************************)
EXTENDS Integers, FiniteSets

CONSTANTS
    Threads,   \* the threads that use the pool
    Capacity,  \* how many connections the factory makes
    Null       \* a shared_ptr that was moved from

ASSUME ThreadsAssumption == IsFiniteSet(Threads)
\* The constructor works on pool_[0] (line 58).
ASSUME CapacityAssumption == Capacity \in Nat \ {0}

Slots == 0 .. Capacity - 1

\* A connection is named by the slot it was made for.
Connections == Slots

ASSUME NullAssumption == Null \notin Connections \cup Threads

VARIABLES
    pool,    \* pool_
    used,    \* used_connections_
    status,  \* where a thread is
    conn     \* the connection of a thread's wrapper

vars == <<pool, used, status, conn>>

In(s) == {t \in Threads : status[t] = s}
-----------------------------------------------------------------------------
Init ==
    /\ pool = [i \in Slots |-> i]
    /\ used = 0
    /\ status = [t \in Threads |-> "ready"]
    /\ conn = [t \in Threads |-> Null]

(* Slips that the code could contain and does not.                          *)

\* The connection is copied out of the vector and not counted.
TakeUncounted(t) ==
    /\ conn' = [conn EXCEPT ![t] = pool[used]]
    /\ status' = [status EXCEPT ![t] = "holding"]
    /\ UNCHANGED <<pool, used>>

\* used_connections_-- for --used_connections_.
ReturnToUsedSlot(t) ==
    /\ status[t] = "holding"
    /\ used' = used - 1
    /\ pool' = [i \in Slots |-> IF i = used THEN conn[t] ELSE pool[i]]
    /\ conn' = [conn EXCEPT ![t] = Null]
    /\ status' = [status EXCEPT ![t] = "notifying"]

\* Nobody is notified.
ReturnSilently(t) ==
    /\ status[t] = "holding"
    /\ used' = used - 1
    /\ pool' = [pool EXCEPT ![used - 1] = conn[t]]
    /\ conn' = [conn EXCEPT ![t] = Null]
    /\ status' = [status EXCEPT ![t] = "ready"]
-----------------------------------------------------------------------------
\* What a thread does when it has the mutex in GetConnection: it takes the
\* first connection that is not in use, or sleeps.
Take(t) ==
    \/ /\ used < Capacity
       /\ conn' = [conn EXCEPT ![t] = pool[used]]
       /\ pool' = [pool EXCEPT ![used] = Null]
       /\ used' = used + 1
       /\ status' = [status EXCEPT ![t] = "holding"]
    \/ /\ used >= Capacity
       /\ status' = [status EXCEPT ![t] = "asleep"]
       /\ UNCHANGED <<pool, used, conn>>

GetConnection(t) == status[t] = "ready" /\ Take(t)

\* A thread that was woken gets the mutex again and looks again.
Resume(t) == status[t] = "woken" /\ Take(t)

SpuriousWakeup(t) ==
    /\ status[t] = "asleep"
    /\ status' = [status EXCEPT ![t] = "woken"]
    /\ UNCHANGED <<pool, used, conn>>

\* The destructor of the wrapper, up to the end of its critical section.
ReturnConnection(t) ==
    /\ status[t] = "holding"
    /\ used' = used - 1
    /\ pool' = [pool EXCEPT ![used - 1] = conn[t]]
    /\ conn' = [conn EXCEPT ![t] = Null]
    /\ status' = [status EXCEPT ![t] = "notifying"]

\* notify_one wakes one of the sleeping threads, if there are any.
Notify(t) ==
    /\ status[t] = "notifying"
    /\ \/ In("asleep") = {} /\ status' = [status EXCEPT ![t] = "ready"]
       \/ \E s \in In("asleep") :
            status' = [status EXCEPT ![t] = "ready", ![s] = "woken"]
    /\ UNCHANGED <<pool, used, conn>>

Next == \E t \in Threads :
    \/ GetConnection(t)
    \/ Resume(t)
    \/ SpuriousWakeup(t)
    \/ ReturnConnection(t)
    \/ Notify(t)

Spec == Init /\ [][Next]_vars

\* A thread that runs goes on: it sends the notification it owes, and gets the
\* mutex when it was woken.  It may keep a connection, or ask for none.
Fairness == \A t \in Threads : WF_vars(Notify(t)) /\ WF_vars(Resume(t))
FairSpec == Spec /\ Fairness
-----------------------------------------------------------------------------
\* Every variable has its type.
TypeOK ==
    /\ pool \in [Slots -> Connections \cup {Null}]
    /\ used \in 0 .. Capacity
    /\ status \in [Threads -> {"ready", "asleep", "woken", "holding", "notifying"}]
    /\ conn \in [Threads -> Connections \cup {Null}]

\* The slots below used_connections_ are empty and the others full; who has a
\* connection is who holds one.
SlotsMatchUse ==
    /\ \A i \in Slots : pool[i] = Null <=> i < used
    /\ \A t \in Threads : conn[t] = Null <=> status[t] # "holding"

\* No connection is in two hands: of two threads, of a thread and the pool, or
\* twice in the pool (lines 78, 86).
NoSharedConnection ==
    /\ \A t \in Threads, u \in Threads : conn[t] = conn[u] /\ conn[t] # Null => t = u
    /\ \A i \in Slots, j \in Slots : pool[i] = pool[j] /\ pool[i] # Null => i = j
    /\ \A t \in Threads, i \in Slots : conn[t] = pool[i] => conn[t] = Null

\* The pool counts right: the connections out are as many as the threads that
\* hold one, so the assertion of line 85 holds, and so does no connection leak.
CountIsRight == Cardinality(In("holding")) = used

\* A connection is exclusive, and none leaks: whoever returns them in whatever
\* order, the slots are refilled from the right end.
PoolIsSound == SlotsMatchUse /\ NoSharedConnection /\ CountIsRight

\* Those who are about to wake a sleeper, or to look for a connection again.
Stirring == In("notifying") \cup In("woken")

\* A free connection and a sleeping thread do not wait for one another: as
\* many notifications are under way as there are free connections, though the
\* notification is sent after the mutex was released and a thread that comes
\* by may take the connection first (lines 72-89).
NoLostWakeup ==
    In("asleep") # {} => Capacity - used =< Cardinality(Stirring)

\* When there is a free connection, the sleepers are woken or it is taken.
FreeConnectionIsTaken ==
    In("asleep") # {} /\ used < Capacity ~> In("asleep") = {} \/ used = Capacity
-----------------------------------------------------------------------------
HolderOf(c) ==
    IF \E t \in Threads : conn[t] = c THEN CHOOSE t \in Threads : conn[t] = c ELSE Null

Exclusive == INSTANCE ExclusiveUse WITH
    Users <- Threads, Resources <- Connections, Nobody <- Null,
    holder <- [c \in Connections |-> HolderOf(c)]

\* The pool implements exclusive use: what it hands out was nobody's.
ExclusiveSpec == Exclusive!ExclusiveSpec
=============================================================================
