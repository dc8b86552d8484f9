------------------------------- MODULE Relay -------------------------------
(***************************************************************************)
(* Federation: passing a payload on to another mediator, and retrying it   *)
(* (dispatch/relay.rs, and the relays of store/redis.rs and                *)
(* store/memory.rs).                                                       *)
(*                                                                         *)
(* The first attempt is made by the task that handles the forward; a       *)
(* payload whose attempt fails is stored, and the retry worker of each     *)
(* mediator instance takes batches of due ones under a lease.  Deliveries  *)
(* and workers are concurrent; each store call is atomic and takes no      *)
(* time, an HTTP request takes up to Timeout seconds.  Times are kept as   *)
(* seconds still to go (due) or gone by (age, elapsed), so no bound on the *)
(* clock is needed; overdue relays are equally overdue, and a batch, which *)
(* the code takes oldest first, is any of them in any order.               *)
(***************************************************************************)
EXTENDS Integers, FiniteSets, Sequences, FiniteSetsExt, Functions

CONSTANTS
    Ids,          \* relay ids: a payload and its destination
    Workers,      \* the retry workers, one per mediator instance
    Backoff,      \* BACKOFF
    MaxPending,   \* MAX_PENDING
    Lease,        \* LEASE_SECS
    Batch,        \* BATCH
    Timeout,      \* seconds until an HTTP request is given up
    MaxFailures,  \* bound: store calls that fail and processes that crash
    MaxForwards   \* bound: forwards, of different payloads or the same

ASSUME RelayAssumption ==
    /\ Backoff \in Seq(Nat \ {0}) /\ Backoff # <<>>
    /\ MaxPending \in Nat \ {0}
    /\ Lease \in Nat \ {0}
    /\ Batch \in Nat \ {0}
    /\ Timeout \in Nat \ {0}
    /\ MaxFailures \in Nat
    /\ MaxForwards \in Nat \ {0}

VARIABLES
    item,      \* item[i]: the stored relay, or Absent
    worker,    \* the workers
    first,     \* first[i]: the delivery making i's first attempt
    forwards,  \* how often i was forwarded
    attempts,  \* history: requests made for i, counted up to
               \* MaxAttempts + MaxFailures + 1
    accepted,  \* history: the relays the destination has answered Ok
    stored,    \* history: the relays ever stored
    failures,  \* failures so far
    overlapped \* history: the relays a worker took while another had them

vars == <<item, worker, first, forwards, attempts, accepted, stored,
          failures, overlapped>>

Absent == [retries |-> -1, due |-> 0]
IdleWorker ==
    [pc |-> "idle",     \* or next, post, ok, failed
     batch |-> {},      \* the relays left of the round
     age |-> 0,         \* seconds since the round's `now`
     cur |-> <<>>,      \* the one being tried
     elapsed |-> 0]     \* seconds its request has taken
NoDelivery == [pc |-> "idle", elapsed |-> 0]

(* The first attempt and the retries.                                      *)
MaxAttempts == 1 + Len(Backoff)
MostAttempts == MaxAttempts + MaxFailures + 1

Init ==
    /\ item = [i \in Ids |-> Absent]
    /\ worker = [w \in Workers |-> IdleWorker]
    /\ first = [i \in Ids |-> NoDelivery]
    /\ forwards = [i \in Ids |-> 0]
    /\ attempts = [i \in Ids |-> 0]
    /\ accepted = {}
    /\ stored = {}
    /\ failures = 0
    /\ overlapped = {}

-----------------------------------------------------------------------------
(* The store.                                                              *)

Pending == {i \in Ids : item[i] # Absent}

(* schedule_relay: a new id needs room, a known one is replaced.           *)
Room(i) == i \in Pending \/ Cardinality(Pending) < MaxPending

ScheduleRelay(i, retries, due) ==
    /\ item' = IF Room(i) THEN [item EXCEPT ![i] = [retries |-> retries, due |-> due]]
                          ELSE item
    /\ stored' = IF Room(i) THEN stored \union {i} ELSE stored

(* due_relays: the relays taken are due again when the lease ends.         *)
DueRelays(ids) == [i \in Ids |-> IF i \in ids THEN [item[i] EXCEPT !.due = Lease]
                                              ELSE item[i]]

(* Mutant of FinishRelay: only the due set is told, and the lease is still *)
(* running.                                                                *)
FinishForNow(i) == [item EXCEPT ![i].due = Lease]

(* finish_relay: due set and items go together.                            *)
FinishRelay(i) == [item EXCEPT ![i] = Absent]

-----------------------------------------------------------------------------
(* The first attempt: deliver.                                             *)

Counted(i) == [attempts EXCEPT ![i] = Min({@ + 1, MostAttempts})]

(* A forward was routed: post_didcomm.                                     *)
Deliver(i) ==
    /\ first[i].pc = "idle"
    /\ FoldFunction(+, 0, forwards) < MaxForwards
    /\ forwards' = [forwards EXCEPT ![i] = @ + 1]
    /\ first' = [first EXCEPT ![i].pc = "post"]
    /\ attempts' = Counted(i)
    /\ UNCHANGED <<item, worker, accepted, stored, failures, overlapped>>

FirstOk(i) ==
    /\ first[i].pc = "post"
    /\ first' = [first EXCEPT ![i] = NoDelivery]
    /\ accepted' = accepted \union {i}
    /\ UNCHANGED <<item, worker, forwards, attempts, stored, failures,
                   overlapped>>

FirstFails(i) ==
    /\ first[i].pc = "post"
    /\ first' = [first EXCEPT ![i] = [pc |-> "schedule", elapsed |-> 0]]
    /\ UNCHANGED <<item, worker, forwards, attempts, accepted, stored,
                   failures, overlapped>>

(* The failed first attempt is stored, if there is room; if not, the       *)
(* payload is dropped.                                                     *)
Schedule(i) ==
    /\ first[i].pc = "schedule"
    /\ first' = [first EXCEPT ![i] = NoDelivery]
    /\ ScheduleRelay(i, 0, Backoff[1])
    /\ UNCHANGED <<worker, forwards, attempts, accepted, failures, overlapped>>

Fail == failures < MaxFailures /\ failures' = failures + 1

(* The store fails, or the process crashes: the payload is dropped.        *)
DeliveryLost(i) ==
    /\ Fail
    /\ first[i].pc # "idle"
    /\ first' = [first EXCEPT ![i] = NoDelivery]
    /\ UNCHANGED <<item, worker, forwards, attempts, accepted, stored,
                   overlapped>>

-----------------------------------------------------------------------------
(* A worker: retry_due, every TICK.                                        *)

(* The relay is the one w tries, or among those left of its round.         *)
Trying(w, i) == worker[w].pc = "post" /\ worker[w].cur.id = i
Tried(w, i) == worker[w].pc \in {"post", "ok", "failed"} /\ worker[w].cur.id = i
Holds(w, i) == Tried(w, i) \/ \E r \in worker[w].batch : r.id = i

(* A round takes up to Batch due relays, whoever else has them yet.        *)
Round(w) ==
    LET due == {i \in Pending : item[i].due = 0}
    IN  /\ worker[w].pc = "idle"
        /\ due # {}
        /\ \E ids \in kSubset(Min({Batch, Cardinality(due)}), due) :
             /\ item' = DueRelays(ids)
             /\ worker' = [worker EXCEPT ![w] =
                  [IdleWorker EXCEPT
                     !.pc = "next",
                     !.batch = {[id |-> i, retries |-> item[i].retries] : i \in ids}]]
             /\ overlapped' = overlapped \union
                  {i \in ids : \E v \in Workers \ {w} : Holds(v, i)}
        /\ UNCHANGED <<first, forwards, attempts, accepted, stored, failures>>

(* The next one of the batch: post_didcomm.                                *)
Retry(w) ==
    /\ worker[w].pc = "next"
    /\ \E r \in worker[w].batch :
         /\ worker' = [worker EXCEPT ![w].pc = "post", ![w].cur = r,
                                     ![w].batch = @ \ {r}]
         /\ attempts' = Counted(r.id)
    /\ UNCHANGED <<item, first, forwards, accepted, stored, failures,
                   overlapped>>

RetryOk(w) ==
    /\ worker[w].pc = "post"
    /\ worker' = [worker EXCEPT ![w].pc = "ok", ![w].elapsed = 0]
    /\ accepted' = accepted \union {worker[w].cur.id}
    /\ UNCHANGED <<item, first, forwards, attempts, stored, failures,
                   overlapped>>

RetryFails(w) ==
    /\ worker[w].pc = "post"
    /\ worker' = [worker EXCEPT ![w].pc = "failed", ![w].elapsed = 0]
    /\ UNCHANGED <<item, first, forwards, attempts, accepted, stored,
                   failures, overlapped>>

(* The round goes on, or ends.                                             *)
Continue(w) ==
    worker' = [worker EXCEPT ![w] =
                 IF worker[w].batch = {} THEN IdleWorker
                 ELSE [worker[w] EXCEPT !.pc = "next", !.cur = <<>>]]

(* Mutant of LastRetry: one retry is left out.                             *)
LastRetryEarly(r) == r.retries + 2 >= Len(Backoff)

(* BACKOFF.get(retries + 1) is None: that was the last retry.              *)
LastRetry(r) == r.retries + 1 >= Len(Backoff)

(* Delivered, or failed for the last time.                                 *)
Finish(w) ==
    /\ \/ worker[w].pc = "ok"
       \/ worker[w].pc = "failed" /\ LastRetry(worker[w].cur)
    /\ item' = FinishRelay(worker[w].cur.id)
    /\ Continue(w)
    /\ UNCHANGED <<first, forwards, attempts, accepted, stored, failures,
                   overlapped>>

(* Mutant of Reschedule: the retry is not counted.                         *)
RescheduleUncounted(w) ==
    LET r == worker[w].cur
    IN  /\ worker[w].pc = "failed"
        /\ ~LastRetry(r)
        /\ ScheduleRelay(r.id, r.retries, Max({0, Backoff[r.retries + 2] - worker[w].age}))
        /\ Continue(w)
        /\ UNCHANGED <<first, forwards, attempts, accepted, failures,
                       overlapped>>

(* Failed: due again after the next wait, from the round's `now`; that it  *)
(* did not fit is ignored.                                                 *)
Reschedule(w) ==
    LET r == worker[w].cur
    IN  /\ worker[w].pc = "failed"
        /\ ~LastRetry(r)
        /\ ScheduleRelay(r.id, r.retries + 1,
                         Max({0, Backoff[r.retries + 2] - worker[w].age}))
        /\ Continue(w)
        /\ UNCHANGED <<first, forwards, attempts, accepted, failures,
                       overlapped>>

(* The store fails, which ends the round, or the instance crashes: what    *)
(* the round had left stays leased.                                        *)
RoundLost(w) ==
    /\ Fail
    /\ worker[w].pc # "idle"
    /\ worker' = [worker EXCEPT ![w] = IdleWorker]
    /\ UNCHANGED <<item, first, forwards, attempts, accepted, stored,
                   overlapped>>

-----------------------------------------------------------------------------
Waiting(p) == p.pc = "idle" \/ (p.pc = "post" /\ p.elapsed < Timeout)

Older(p) == IF p.pc = "post" THEN [p EXCEPT !.elapsed = @ + 1] ELSE p

(* A second passes, while nothing but requests is under way.               *)
Tick ==
    /\ \A w \in Workers : Waiting(worker[w])
    /\ \A i \in Ids : Waiting(first[i])
    /\ item' = [i \in Ids |-> [item[i] EXCEPT !.due = Max({0, @ - 1})]]
    /\ worker' = [w \in Workers |->
                    IF worker[w].pc = "idle" THEN worker[w]
                    ELSE [Older(worker[w]) EXCEPT !.age = @ + 1]]
    /\ first' = [i \in Ids |-> Older(first[i])]
    /\ UNCHANGED <<forwards, attempts, accepted, stored, failures, overlapped>>

DeliveryStep(i) ==
    Deliver(i) \/ FirstOk(i) \/ FirstFails(i) \/ Schedule(i) \/ DeliveryLost(i)

WorkerStep(w) ==
    \/ Round(w) \/ Retry(w) \/ RetryOk(w) \/ RetryFails(w)
    \/ Finish(w) \/ Reschedule(w) \/ RoundLost(w)

Next ==
    \/ \E i \in Ids : DeliveryStep(i)
    \/ \E w \in Workers : WorkerStep(w)
    \/ Tick

Spec == Init /\ [][Next]_vars

(* Time passes; requests end, at the latest with the timeout; the workers  *)
(* keep running (spawn_retries).  Nothing is assumed of forwards, nor of   *)
(* which way a request ends.                                               *)
FairSpec ==
    /\ Spec
    /\ WF_vars(Tick)
    /\ \A i \in Ids : WF_vars(FirstOk(i) \/ FirstFails(i) \/ Schedule(i))
    /\ \A w \in Workers :
         WF_vars(Round(w) \/ Retry(w) \/ RetryOk(w) \/ RetryFails(w)
                 \/ Finish(w) \/ Reschedule(w))

-----------------------------------------------------------------------------
(* Properties.                                                             *)

(* "It leases them for 60 s while trying, so ... several instances never   *)
(* send the same one at once" (docs/didcomm.md, section 7): while one      *)
(* worker's request for a relay is under way, no other's is.  Of a payload *)
(* that was forwarded once: a second forward replaces the lease.  The code *)
(* breaks this: a round of BATCH requests may outlast LEASE_SECS, and what *)
(* it has left is due again.                                               *)
NoConcurrentSend ==
    \A i \in Ids : \A v, w \in Workers :
      forwards[i] <= 1 /\ Trying(v, i) /\ Trying(w, i) => v = w

(* However long a round takes: without failures, a payload forwarded once  *)
(* that no worker took while another still had it is not sent again once   *)
(* the destination has accepted it, nor after its last retry.              *)
SentInTurn ==
    [][\A i \in Ids \ overlapped' :
         attempts'[i] # attempts[i] /\ forwards'[i] = 1 /\ failures = 0
           => i \notin accepted /\ attempts'[i] <= MaxAttempts]_vars

(* A stored payload is not lost: it stays until the destination accepts it *)
(* or every attempt has been made, whichever workers and restarts come     *)
(* between.                                                                *)
GivenUpOnlyAtTheEnd ==
    \A i \in stored : item[i] = Absent => i \in accepted \/ attempts[i] >= MaxAttempts

(* A stored relay does not wait for ever, failures being finitely many: it *)
(* is delivered or given up.                                               *)
NothingWaitsForever == \A i \in Ids : i \in Pending ~> i \notin Pending
=============================================================================
