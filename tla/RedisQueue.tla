----------------------------- MODULE RedisQueue -----------------------------
(***************************************************************************)
(* The queue of one mediation as store/redis.rs keeps it: a stream of      *)
(* small entries, one key per message body with a TTL of its own, and a    *)
(* byte counter.  Each Lua script is one step.  A peek is four: the trim   *)
(* script, the XRANGE, the MGET of the bodies and, when some have expired, *)
(* the script that removes their entries.                                  *)
(*                                                                         *)
(* Redis stamps an entry with its clock in milliseconds and expires a body *)
(* to the millisecond; the mediator trims by its clock in whole seconds.   *)
(* So time is in ticks, several to the second.  Both clocks are the same.  *)
(***************************************************************************)
EXTENDS Integers, FiniteSets, FiniteSetsExt

CONSTANTS
    Recipients,   \* recipient DIDs of the mediation
    Anyone,       \* "no recipient_did given"
    Wants,        \* the values of recipient_did wallets ask with
    Sizes,        \* message sizes, in bytes
    Pickers,      \* connections of the wallet that pick up at the same time
    Limits,       \* values of a delivery-request's limit
    MaxMessages,  \* QueueLimits.max_messages
    MaxBytes,     \* QueueLimits.max_bytes
    TTL,          \* QueueLimits.ttl_secs
    Second,       \* ticks in a second
    MaxLag,       \* the seconds between reading the clock and the script
    Forgets,      \* whether a wallet may die before it acknowledges
    MaxTime,      \* bound: the clock stops here
    MaxPuts,      \* bound: messages ever accepted
    MaxRemovals   \* bound: times the mediation is removed

ASSUME RedisQueueAssumption ==
    /\ Anyone \notin Recipients
    /\ Wants \subseteq Recipients \union {Anyone}
    /\ Sizes \subseteq Nat \ {0}
    /\ Limits \subseteq Nat \ {0}
    /\ MaxMessages \in Nat \ {0}
    /\ MaxBytes \in Nat
    /\ TTL \in Nat \ {0}
    /\ Second \in Nat \ {0}
    /\ MaxLag \in Nat
    /\ Forgets \in BOOLEAN
    /\ MaxTime \in Nat
    /\ MaxPuts \in Nat
    /\ MaxRemovals \in Nat

VARIABLES
    clock,    \* Redis's clock, in ticks
    last,     \* the stream's last id
    entries,  \* mediation:{M}:queue
    bodies,   \* the keys mediation:{M}:msg:{id}, each with its expiry
    bytes,    \* mediation:{M}:bytes
    expires,  \* when the stream and the counter expire
    picker,   \* per connection: the pickup in progress
    acked,    \* history: the ids acknowledged
    era       \* history: how often the mediation was removed

vars == <<clock, last, entries, bodies, bytes, expires, picker, acked, era>>

queue == <<entries, bodies, bytes, expires>>

Lifetime == TTL * Second

Idle == [pc |-> "idle", want |-> Anyone, limit |-> 0,
         chosen |-> {}, answer |-> {}, orphans |-> {}]

(* The clock starts a lifetime after the epoch.                            *)
Init ==
    /\ clock = Lifetime
    /\ last = 0
    /\ entries = {}
    /\ bodies = {}
    /\ bytes = 0
    /\ expires = 0
    /\ picker = [p \in Pickers |-> Idle]
    /\ acked = {}
    /\ era = 0

-----------------------------------------------------------------------------
(* The queue scripts.                                                      *)

IdsOf(S) == {e.id : e \in S}

SizeOf(S) == MapThenSumSet(LAMBDA e : e.size, S)

(* uncount: the counter never goes below zero.                             *)
Uncount(freed) == IF bytes > freed THEN bytes - freed ELSE 0

(* min_id, as a tick: the mediator's clock in whole seconds, read up to    *)
(* MaxLag seconds ago, less the TTL.                                       *)
MinId(lag) ==
    LET now == (clock \div Second) - lag
    IN  (IF now > TTL THEN now - TTL ELSE 0) * Second

Old(lag) == {e \in entries : e.at < MinId(lag)}

(* Mutant of Trim: the counter is not told.                                *)
TrimUncounted(lag) ==
    /\ entries' = entries \ Old(lag)
    /\ UNCHANGED <<bytes, bodies, expires>>

(* TRIM: drops the entries below the minimal id and uncounts them.         *)
Trim(lag) ==
    /\ entries' = entries \ Old(lag)
    /\ bytes' = Uncount(SizeOf(Old(lag)))
    /\ UNCHANGED <<bodies, expires>>

(* Mutant of RemoveIds: the bodies are left to expire.                     *)
RemoveEntriesOnly(ids) ==
    LET gone == {e \in entries : e.id \in ids}
    IN  /\ entries' = entries \ gone
        /\ bytes' = Uncount(SizeOf(gone))
        /\ UNCHANGED <<bodies, expires>>

(* REMOVE: an id without an entry frees nothing; its body goes anyway.     *)
RemoveIds(ids) ==
    LET gone == {e \in entries : e.id \in ids}
    IN  /\ entries' = entries \ gone
        /\ bytes' = Uncount(SizeOf(gone))
        /\ bodies' = {b \in bodies : b.id \notin ids}
        /\ UNCHANGED expires

(* Mutant of HasRoom: one message too many.                                *)
HasOneMore(kept, used, size) ==
    Cardinality(kept) <= MaxMessages /\ used + size <= MaxBytes

HasRoom(kept, used, size) ==
    Cardinality(kept) < MaxMessages /\ used + size <= MaxBytes

(* ENQUEUE: trims, then adds entry and body and sets every expiry, or      *)
(* answers that the queue is full.                                         *)
Enqueue(to, size, lag) ==
    LET kept == entries \ Old(lag)
        used == Uncount(SizeOf(Old(lag)))
        id   == last + 1
    IN  /\ last < MaxPuts
        /\ IF HasRoom(kept, used, size)
             THEN /\ last' = id
                  /\ entries' = kept \union
                       {[id |-> id, to |-> to, size |-> size, at |-> clock]}
                  /\ bodies' = bodies \union {[id |-> id, until |-> clock + Lifetime]}
                  /\ bytes' = used + size
                  /\ expires' = clock + Lifetime
             ELSE /\ entries' = kept
                  /\ bytes' = used
                  /\ UNCHANGED <<last, bodies, expires>>
        /\ UNCHANGED <<clock, picker, acked, era>>

(* The part of REMOVE_MEDIATION about the queue: the bodies of its         *)
(* entries, the stream and the counter.                                    *)
RemoveMediation ==
    /\ era < MaxRemovals
    /\ era' = era + 1
    /\ bodies' = {b \in bodies : b.id \notin IdsOf(entries)}
    /\ entries' = {}
    /\ bytes' = 0
    /\ expires' = 0
    /\ UNCHANGED <<clock, last, picker, acked>>

-----------------------------------------------------------------------------
(* A wallet's connection picking up.                                       *)

(* Mutant of First: the newest n.                                          *)
NewestOnes(S, n) == {e \in S : Cardinality({f \in S : f.id > e.id}) < n}

(* The n oldest.                                                           *)
First(S, n) == {e \in S : Cardinality({f \in S : f.id < e.id}) < n}

Matching(S, want) == {e \in S : want = Anyone \/ e.to = want}

(* delivery-request: peek begins with the trim.                            *)
StartPeek(p, want, limit, lag) ==
    /\ picker[p].pc = "idle"
    /\ Trim(lag)
    /\ picker' = [picker EXCEPT ![p] = [Idle EXCEPT !.pc = "range",
                                          !.want = want, !.limit = limit]]
    /\ UNCHANGED <<clock, last, acked, era>>

(* The XRANGE, filtered and cut to the limit.  Nothing there: the answer   *)
(* is a status.                                                            *)
XRange(p) ==
    LET chosen == First(Matching(entries, picker[p].want), picker[p].limit)
    IN  /\ picker[p].pc = "range"
        /\ picker' = IF chosen = {}
                       THEN [picker EXCEPT ![p] = [Idle EXCEPT !.pc = "status"]]
                       ELSE [picker EXCEPT ![p].pc = "mget", ![p].limit = 0,
                                            ![p].chosen = chosen]
        /\ UNCHANGED <<clock, last, queue, acked, era>>

(* Mutant of Missing: whatever is read is cleared away.                    *)
AllChosen(chosen) == IdsOf(chosen)

(* The chosen entries whose body is gone.                                  *)
Missing(chosen) == IdsOf(chosen) \ IdsOf(bodies)

(* The MGET.                                                               *)
MGet(p) ==
    /\ picker[p].pc = "mget"
    /\ picker' = [picker EXCEPT
         ![p].pc = "orphans",
         ![p].answer = {e \in picker[p].chosen : e.id \in IdsOf(bodies)},
         ![p].orphans = Missing(picker[p].chosen),
         ![p].chosen = {}]
    /\ UNCHANGED <<clock, last, queue, acked, era>>

(* Mutant of RemoveOrphans: the entries without a body are left.           *)
LeaveOrphans(p) ==
    /\ picker[p].pc = "orphans"
    /\ picker' = IF picker[p].answer = {}
                   THEN [picker EXCEPT ![p] = [Idle EXCEPT !.pc = "status"]]
                   ELSE [picker EXCEPT ![p].pc = "delivered", ![p].orphans = {}]
    /\ UNCHANGED <<clock, last, queue, acked, era>>

(* The entries without a body are removed, and the delivery answered; an   *)
(* empty one becomes a status.                                             *)
RemoveOrphans(p) ==
    /\ picker[p].pc = "orphans"
    /\ RemoveIds(picker[p].orphans)
    /\ picker' = IF picker[p].answer = {}
                   THEN [picker EXCEPT ![p] = [Idle EXCEPT !.pc = "status"]]
                   ELSE [picker EXCEPT ![p].pc = "delivered", ![p].orphans = {}]
    /\ UNCHANGED <<clock, last, acked, era>>

(* messages-received for what was delivered, then a status.                *)
Acknowledge(p) ==
    /\ picker[p].pc = "delivered"
    /\ RemoveIds(IdsOf(picker[p].answer))
    /\ acked' = acked \union IdsOf(picker[p].answer)
    /\ picker' = [picker EXCEPT ![p].pc = "status"]
    /\ UNCHANGED <<clock, last, era>>

(* The wallet went away with the delivery.                                 *)
Forget(p) ==
    /\ Forgets
    /\ picker[p].pc = "delivered"
    /\ picker' = [picker EXCEPT ![p] = Idle]
    /\ UNCHANGED <<clock, last, queue, acked, era>>

(* status: trims, and only reads besides.                                  *)
Status(p, lag) ==
    /\ picker[p].pc = "status"
    /\ Trim(lag)
    /\ picker' = [picker EXCEPT ![p] = Idle]
    /\ UNCHANGED <<clock, last, acked, era>>

(* The acknowledgement's answer was lost: the wallet sends it again.       *)
AcknowledgeAgain(p) ==
    /\ Forgets
    /\ picker[p].pc = "status"
    /\ picker[p].answer # {}
    /\ picker' = [picker EXCEPT ![p].pc = "delivered"]
    /\ UNCHANGED <<clock, last, queue, acked, era>>

-----------------------------------------------------------------------------
(* Redis expires a body a lifetime after its entry was added, and stream   *)
(* and counter a lifetime after the last one.                              *)
Tick ==
    /\ clock < MaxTime
    /\ clock' = clock + 1
    /\ bodies' = {b \in bodies : clock' <= b.until}
    /\ IF clock' > expires
         THEN entries' = {} /\ bytes' = 0
         ELSE UNCHANGED <<entries, bytes>>
    /\ UNCHANGED <<last, expires, picker, acked, era>>

PickerStep(p) ==
    \/ \E want \in Wants, limit \in Limits, lag \in 0 .. MaxLag :
         StartPeek(p, want, limit, lag)
    \/ XRange(p) \/ MGet(p) \/ RemoveOrphans(p)
    \/ Acknowledge(p)
    \/ \E lag \in 0 .. MaxLag : Status(p, lag)

Next ==
    \/ Tick
    \/ RemoveMediation
    \/ \E to \in Recipients, size \in Sizes, lag \in 0 .. MaxLag : Enqueue(to, size, lag)
    \/ \E p \in Pickers : PickerStep(p) \/ Forget(p) \/ AcknowledgeAgain(p)

Spec == Init /\ [][Next]_vars

(* The wallet keeps picking up, also everything at once.                   *)
Fairness ==
    \A p \in Pickers :
      /\ WF_vars(PickerStep(p))
      /\ SF_vars(\E limit \in Limits, lag \in 0 .. MaxLag :
                   StartPeek(p, Anyone, limit, lag))

FairSpec == Spec /\ Fairness

-----------------------------------------------------------------------------
(* Properties.                                                             *)

(* The byte counter is what the entries add up to: "kept in step by the    *)
(* enqueue, expiry and removal scripts" (docs/didcomm.md, section 8), also *)
(* when two connections acknowledge, and clear away, the same messages.    *)
BytesInStep == bytes = SizeOf(entries)

(* The queue never holds more messages, or more bytes, than its limits.    *)
WithinLimits ==
    /\ Cardinality(entries) <= MaxMessages
    /\ SizeOf(entries) <= MaxBytes

(* Every body has an entry, so that it can be delivered and deleted: the   *)
(* trim, by whole seconds, never overtakes the body's own expiry.          *)
NoBodyLost == IdsOf(bodies) \subseteq IdsOf(entries)

(* A delivery is oldest first without gaps: a message still waiting that   *)
(* matches and is older than one delivered was delivered too.              *)
OldestFirst ==
    \A p \in Pickers : picker[p].pc \in {"orphans", "delivered"} =>
      \A e \in Matching(entries, picker[p].want), a \in picker[p].answer :
        e.id \in IdsOf(bodies) /\ e.id < a.id => e \in picker[p].answer

(* The messages a wallet can still pick up.                                *)
Mail == {e \in entries : e.id \in IdsOf(bodies)}

(* Redis keeps the store's promise: a message leaves only acknowledged,    *)
(* expired, or with its mediation, though three keys and four separate     *)
(* steps stand for the one queue.                                          *)
Promise == INSTANCE Mailbox WITH mail <- Mail

KeepsPromise == Promise!MailSpec

(* A wallet that keeps picking up gets everything, if time does not take   *)
(* it first: entries whose body expired never stand in the way for good.   *)
EverythingPickedUp ==
    \A i \in 1 .. MaxPuts :
      i \in IdsOf(Mail) ~> i \in acked \/ i \notin IdsOf(bodies)
=============================================================================
