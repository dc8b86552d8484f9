------------------------------ MODULE MCQueues ------------------------------
(* The queue of one mediation in either store, on small instances: which   *)
(* store is chosen when the mediator starts, and only that one is used.    *)
(* The in-process queue has less state, so its bounds are wider.           *)
EXTENDS RedisQueue, TLC

CONSTANTS r1, r2, p1, p2

VARIABLES
    store,  \* which store was opened
    mClock, mLast, mEntries, mAcked, mEra

Memory == INSTANCE MemoryQueue WITH
    Recipients <- {r1, r2}, MaxTime <- 7, MaxPuts <- 4,
    clock <- mClock, last <- mLast, entries <- mEntries, acked <- mAcked,
    era <- mEra

memory == <<mClock, mLast, mEntries, mAcked, mEra>>

QueuesInit == store \in {"redis", "memory"} /\ Init /\ Memory!Init

InRedis == store = "redis" /\ Next /\ UNCHANGED memory
InMemory == store = "memory" /\ Memory!Next /\ UNCHANGED vars

QueuesSpec ==
    QueuesInit /\ [][(InRedis \/ InMemory) /\ UNCHANGED store]_<<store, vars, memory>>

(* MemoryQueue says what this is about.                                    *)
MemoryKeepsPromise == Memory!KeepsPromise

(* Connections are interchangeable.                                        *)
PickerSymmetry == Permutations(Pickers)
=============================================================================
