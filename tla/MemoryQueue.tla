---------------------------- MODULE MemoryQueue -----------------------------
(***************************************************************************)
(* The queue of one mediation as the in-process store keeps it             *)
(* (store/memory.rs): a list under a mutex, so that every store call is    *)
(* one step.  Expired messages are only dropped when the queue is used.    *)
(* Time is in ticks, as in RedisQueue; this store sees whole seconds.  The *)
(* constants are RedisQueue's, and what is assumed of them is said there.  *)
(***************************************************************************)
EXTENDS Integers, FiniteSets, FiniteSetsExt

CONSTANTS
    Recipients,   \* recipient DIDs of the mediation
    Sizes,        \* message sizes, in bytes
    MaxMessages,  \* QueueLimits.max_messages
    MaxBytes,     \* QueueLimits.max_bytes
    TTL,          \* QueueLimits.ttl_secs
    Second,       \* ticks in a second
    MaxTime,      \* bound: the clock stops here
    MaxPuts,      \* bound: messages ever accepted
    MaxRemovals   \* bound: times the mediation is removed

VARIABLES
    clock,    \* the clock, in ticks; the store is told its seconds
    last,     \* Inner.seq, as of the last message accepted
    entries,  \* the queue; "at" is the tick a message came
    acked,    \* history: the ids acknowledged
    era       \* history: how often the mediation was removed

vars == <<clock, last, entries, acked, era>>

Lifetime == TTL * Second

Seconds(tick) == tick \div Second

Init ==
    /\ clock = Lifetime
    /\ last = 0
    /\ entries = {}
    /\ acked = {}
    /\ era = 0

(* Mutant of Fresh: a message goes in its last second.                     *)
FreshStrictly(e) == Seconds(e.at) > Seconds(clock) - TTL

(* Inner::queue keeps what was received at the cutoff second or later.     *)
Fresh(e) == Seconds(e.at) >= Seconds(clock) - TTL

Queue == {e \in entries : Fresh(e)}

BytesOf(S) == MapThenSumSet(LAMBDA e : e.size, S)

Full(size) ==
    \/ Cardinality(Queue) >= MaxMessages
    \/ BytesOf(Queue) + size > MaxBytes

Enqueue(to, size) ==
    /\ last < MaxPuts
    /\ ~Full(size)
    /\ last' = last + 1
    /\ entries' = Queue \union
         {[id |-> last + 1, to |-> to, size |-> size, at |-> clock]}
    /\ UNCHANGED <<clock, acked, era>>

(* summary, peek and an enqueue that is refused: the queue is trimmed.     *)
Use ==
    /\ entries' = Queue
    /\ UNCHANGED <<clock, last, acked, era>>

Remove(ids) ==
    /\ entries' = {e \in entries : e.id \notin ids}
    /\ acked' = acked \union ids
    /\ UNCHANGED <<clock, last, era>>

RemoveMediation ==
    /\ era < MaxRemovals
    /\ era' = era + 1
    /\ entries' = {}
    /\ UNCHANGED <<clock, last, acked>>

Tick ==
    /\ clock < MaxTime
    /\ clock' = clock + 1
    /\ UNCHANGED <<last, entries, acked, era>>

Next ==
    \/ Tick
    \/ RemoveMediation
    \/ Use
    \/ \E to \in Recipients, size \in Sizes : Enqueue(to, size)
    \/ \E ids \in SUBSET (1 .. last) : Remove(ids)

Spec == Init /\ [][Next]_vars

-----------------------------------------------------------------------------
(* Properties.                                                             *)

(* The in-process store keeps the store's promise too, though it drops     *)
(* messages by the second and only when the queue is used.                 *)
Promise == INSTANCE Mailbox WITH mail <- entries

KeepsPromise == Promise!MailSpec
=============================================================================
