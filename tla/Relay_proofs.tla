---------------------------- MODULE Relay_proofs ----------------------------
(***************************************************************************)
(* Proofs about Relay, for any number of relays and workers, any backoff,  *)
(* lease, batch and timeout, and any number of crashes and of forwards of  *)
(* the same payload.                                                       *)
(***************************************************************************)
EXTENDS Relay, FiniteSetTheorems, TLAPS

(* What a worker takes: a relay, and how often it had been retried.        *)
Tries == [id : Ids, retries : 0 .. Len(Backoff) - 1]
Items == {Absent} \union [retries : 0 .. Len(Backoff) - 1, due : Nat]
WorkerStates == [pc : {"idle", "next", "post", "ok", "failed"}, batch : SUBSET Tries,
                 age : Nat, cur : Tries \union {<<>>}, elapsed : Nat]

(* The types.                                                              *)
TypeInv ==
    /\ item \in [Ids -> Items]
    /\ worker \in [Workers -> WorkerStates]
    /\ first \in [Ids -> [pc : {"idle", "post", "schedule"}, elapsed : Nat]]
    /\ forwards \in [Ids -> Nat]
    /\ attempts \in [Ids -> 0 .. MostAttempts]
    /\ accepted \subseteq Ids /\ stored \subseteq Ids
    /\ failures \in Nat /\ overlapped \subseteq Ids

(* A retry count, stored or in a worker's hands, is less than the requests *)
(* that were made: by how much depends on where it is.                     *)
Counts ==
    /\ \A i \in Ids :
         /\ first[i].pc # "idle" => attempts[i] >= 1
         /\ item[i] # Absent => attempts[i] >= item[i].retries + 1
    /\ \A w \in Workers :
         /\ \A r \in worker[w].batch : attempts[r.id] >= r.retries + 1
         /\ worker[w].pc \in {"post", "ok", "failed"} =>
              /\ worker[w].cur \in Tries
              /\ attempts[worker[w].cur.id] >= worker[w].cur.retries + 2
         /\ worker[w].pc = "ok" => worker[w].cur.id \in accepted

(* The inductive invariant, whatever the lease.                            *)
IInv == TypeInv /\ Counts /\ GivenUpOnlyAtTheEnd

-----------------------------------------------------------------------------
(* A worker has a relay once; an idle one has none.                        *)
HeldOnce ==
    \A w \in Workers :
      /\ \A q, r \in worker[w].batch : q.id = r.id => q = r
      /\ worker[w].pc \in {"post", "ok", "failed"}
           => \A r \in worker[w].batch : r.id # worker[w].cur.id
      /\ worker[w].pc = "idle" => worker[w].batch = {}

(* Of a relay forwarded once that nobody took from another, without        *)
(* failures: one worker at most has it, with the retry count it is stored  *)
(* with, which is the number of requests made, but for the first and the   *)
(* one under way; and only that one can have been accepted.                *)
Turn(i) ==
    /\ forwards[i] = 0 =>
         item[i] = Absent /\ first[i].pc = "idle" /\ attempts[i] = 0 /\ i \notin accepted
    /\ first[i].pc # "idle" =>
         item[i] = Absent /\ attempts[i] = 1 /\ i \notin accepted
    /\ \A w \in Workers : Holds(w, i) =>
         item[i] # Absent /\ \A v \in Workers : Holds(v, i) => v = w
    /\ \A w \in Workers : \A r \in worker[w].batch :
         r.id = i => r.retries = item[i].retries
    /\ \A w \in Workers : Tried(w, i) =>
         /\ worker[w].cur.retries = item[i].retries
         /\ attempts[i] = item[i].retries + 2
         /\ worker[w].pc # "ok" => i \notin accepted
    /\ item[i] # Absent /\ (\A w \in Workers : ~Tried(w, i)) =>
         attempts[i] = item[i].retries + 1 /\ i \notin accepted

InTurn ==
    failures = 0 => \A i \in Ids \ overlapped : forwards[i] <= 1 => Turn(i)

-----------------------------------------------------------------------------
(* What Max and Min of FiniteSetsExt are for two numbers.                  *)
LEMMA MaxOfTwo ==
    ASSUME NEW a \in Int, NEW b \in Int
    PROVE  Max({a, b}) = IF a >= b THEN a ELSE b
<1> DEFINE m == IF a >= b THEN a ELSE b
<1>1. m \in {a, b} /\ \A y \in {a, b} : m >= y
  OBVIOUS
<1>2. \A x \in {a, b} : (\A y \in {a, b} : x >= y) => x = m
  OBVIOUS
<1>3. QED
  BY <1>1, <1>2 DEF Max

LEMMA MinOfTwo ==
    ASSUME NEW a \in Int, NEW b \in Int
    PROVE  Min({a, b}) = IF a <= b THEN a ELSE b
<1> DEFINE m == IF a <= b THEN a ELSE b
<1>1. m \in {a, b} /\ \A y \in {a, b} : m <= y
  OBVIOUS
<1>2. \A x \in {a, b} : (\A y \in {a, b} : x <= y) => x = m
  OBVIOUS
<1>3. QED
  BY <1>1, <1>2 DEF Min

(* The backoff has an entry, and the count stops above its length.         *)
LEMMA Lengths ==
    /\ Len(Backoff) \in Nat /\ Len(Backoff) >= 1
    /\ MaxAttempts = Len(Backoff) + 1 /\ MostAttempts \in Nat
    /\ MostAttempts >= Len(Backoff) + 2
    /\ \A k \in 1 .. Len(Backoff) : Backoff[k] \in Nat
BY RelayAssumption DEF MaxAttempts, MostAttempts

(* Counting a request.                                                     *)
LEMMA CountedFacts ==
    ASSUME TypeInv, NEW i \in Ids
    PROVE  /\ Counted(i) \in [Ids -> 0 .. MostAttempts]
           /\ \A j \in Ids : Counted(i)[j] >= attempts[j]
           /\ \A j \in Ids : j # i => Counted(i)[j] = attempts[j]
           /\ \A n \in 0 .. Len(Backoff) + 1 : attempts[i] >= n => Counted(i)[i] >= n + 1
<1> DEFINE n == Min({attempts[i] + 1, MostAttempts})
<1>1. attempts[i] \in 0 .. MostAttempts
  BY DEF TypeInv
<1>2. n = IF attempts[i] + 1 <= MostAttempts THEN attempts[i] + 1 ELSE MostAttempts
  BY <1>1, MinOfTwo, Lengths
<1>3. Counted(i) = [attempts EXCEPT ![i] = n]
  BY DEF Counted
<1> HIDE DEF n
<1>4. n \in 0 .. MostAttempts /\ n >= attempts[i]
      /\ \A k \in 0 .. Len(Backoff) + 1 : attempts[i] >= k => n >= k + 1
  BY <1>1, <1>2, Lengths
<1>5. QED
  BY <1>3, <1>4, Lengths DEF TypeInv

(* schedule_relay stores the relay, or leaves an absent one absent.        *)
LEMMA ScheduleFacts ==
    ASSUME TypeInv, NEW i \in Ids, NEW n \in 0 .. Len(Backoff) - 1, NEW d \in Nat,
           ScheduleRelay(i, n, d)
    PROVE  \/ /\ item' = [item EXCEPT ![i] = [retries |-> n, due |-> d]]
              /\ [retries |-> n, due |-> d] \in Items
              /\ [retries |-> n, due |-> d] # Absent
              /\ stored' = stored \union {i}
           \/ item' = item /\ stored' = stored /\ item[i] = Absent
<1>1. [retries |-> n, due |-> d] \in Items /\ [retries |-> n, due |-> d] # Absent
  BY Lengths DEF Items, Absent
<1>2. CASE Room(i)
  BY <1>1, <1>2 DEF ScheduleRelay
<1>3. CASE ~Room(i)
  BY <1>3 DEF ScheduleRelay, Room, Pending
<1>4. QED
  BY <1>2, <1>3

(* due_relays takes relays that are stored and due.                        *)
LEMMA RoundFacts ==
    ASSUME TypeInv, NEW w \in Workers, Round(w)
    PROVE  \E ids \in SUBSET Ids :
             /\ \A i \in ids : item[i] # Absent /\ item[i].due = 0
             /\ \A i \in Ids \ ids : item'[i] = item[i]
             /\ \A i \in ids : item'[i].retries = item[i].retries /\ item'[i].due = Lease
             /\ item' \in [Ids -> Items]
             /\ \A i \in ids : item'[i] # Absent
             /\ worker' \in [Workers -> WorkerStates]
             /\ \A v \in Workers : v # w => worker'[v] = worker[v]
             /\ worker'[w].pc = "next" /\ worker'[w].age = 0
             /\ worker'[w].batch = {[id |-> i, retries |-> item[i].retries] : i \in ids}
             /\ \A i \in ids : item[i].retries \in 0 .. Len(Backoff) - 1
             /\ overlapped' = overlapped \union
                  {i \in ids : \E v \in Workers \ {w} : Holds(v, i)}
<1> DEFINE due == {i \in Pending : item[i].due = 0}
           Taken(ids) == {[id |-> i, retries |-> item[i].retries] : i \in ids}
<1>1. PICK ids \in SUBSET due :
        /\ item' = DueRelays(ids)
        /\ worker' = [worker EXCEPT ![w] =
             [IdleWorker EXCEPT !.pc = "next", !.batch = Taken(ids)]]
        /\ overlapped' = overlapped \union
             {i \in ids : \E v \in Workers \ {w} : Holds(v, i)}
  BY DEF Round, kSubset
<1>2. ids \subseteq Ids /\ \A i \in ids : item[i] # Absent /\ item[i].due = 0
  BY DEF Pending
<1>3. \A i \in ids : item[i] \in [retries : 0 .. Len(Backoff) - 1, due : Nat]
  BY <1>2 DEF TypeInv, Items
<1>4. Taken(ids) \subseteq Tries
  BY <1>2, <1>3 DEF Tries
<1> DEFINE taken == Taken(ids)
           new == [IdleWorker EXCEPT !.pc = "next", !.batch = taken]
<1>5. taken \subseteq Tries
  BY <1>4
<1> HIDE DEF taken
<1>6. /\ new \in WorkerStates /\ new.pc = "next" /\ new.age = 0 /\ new.batch = taken
  BY <1>5 DEF IdleWorker, WorkerStates
<1> HIDE DEF new
<1>7. worker' = [worker EXCEPT ![w] = new]
  BY <1>1 DEF new, taken
<1>8. \A i \in ids : /\ item'[i] \in [retries : 0 .. Len(Backoff) - 1, due : Nat]
                     /\ item'[i].retries = item[i].retries /\ item'[i].due = Lease
  BY <1>1, <1>2, <1>3, RelayAssumption DEF DueRelays
<1>9. \A i \in Ids \ ids : item'[i] = item[i]
  BY <1>1 DEF DueRelays
<1>10. item' \in [Ids -> Items]
  BY <1>1, <1>8, <1>9 DEF DueRelays, TypeInv, Items
<1>11. \A i \in ids : item'[i] # Absent
  BY <1>8, Lengths DEF Absent
<1>12. \A i \in ids : item[i].retries \in 0 .. Len(Backoff) - 1
  BY <1>3
<1>13. /\ worker' \in [Workers -> WorkerStates]
       /\ worker'[w].pc = "next" /\ worker'[w].age = 0 /\ worker'[w].batch = taken
       /\ \A v \in Workers : v # w => worker'[v] = worker[v]
  BY <1>6, <1>7 DEF TypeInv
<1>14. QED
  BY <1>1, <1>2, <1>8, <1>9, <1>10, <1>11, <1>12, <1>13 DEF taken

(* A round that goes on keeps its batch and its age.                       *)
LEMMA ContinueFacts ==
    ASSUME TypeInv, NEW w \in Workers, Continue(w)
    PROVE  /\ worker' \in [Workers -> WorkerStates]
           /\ \A v \in Workers : v # w => worker'[v] = worker[v]
           /\ worker'[w].pc \in {"idle", "next"}
           /\ worker'[w].batch = worker[w].batch
           /\ worker'[w].batch # {} => worker'[w].age = worker[w].age
           /\ worker'[w].pc = "idle" => worker'[w].batch = {}
<1>1. worker[w] \in WorkerStates
  BY DEF TypeInv
<1>2. CASE worker[w].batch = {}
  <2>1. IdleWorker \in WorkerStates /\ IdleWorker.pc = "idle" /\ IdleWorker.batch = {}
    BY DEF IdleWorker, WorkerStates
  <2>2. worker' = [worker EXCEPT ![w] = IdleWorker]
    BY <1>2 DEF Continue
  <2>3. QED
    BY <1>2, <2>1, <2>2 DEF TypeInv
<1>3. CASE worker[w].batch # {}
  <2> DEFINE new == [worker[w] EXCEPT !.pc = "next", !.cur = <<>>]
  <2>1. /\ new \in WorkerStates /\ new.pc = "next" /\ new.batch = worker[w].batch
        /\ new.age = worker[w].age
    BY <1>1 DEF WorkerStates
  <2> HIDE DEF new
  <2>2. worker' = [worker EXCEPT ![w] = new]
    BY <1>3 DEF Continue, new
  <2>3. QED
    BY <2>1, <2>2 DEF TypeInv
<1>4. QED
  BY <1>2, <1>3

(* What a worker does to itself on its way through a batch.                *)
LEMMA RetryFacts ==
    ASSUME TypeInv, NEW w \in Workers, Retry(w)
    PROVE  \E r \in worker[w].batch :
             /\ r \in Tries
             /\ worker' \in [Workers -> WorkerStates]
             /\ \A v \in Workers : v # w => worker'[v] = worker[v]
             /\ worker'[w].pc = "post" /\ worker'[w].cur = r
             /\ worker'[w].batch = worker[w].batch \ {r}
             /\ worker'[w].age = worker[w].age
             /\ attempts' = Counted(r.id)
<1>1. PICK r \in worker[w].batch :
        /\ worker' = [worker EXCEPT ![w].pc = "post", ![w].cur = r,
                                    ![w].batch = @ \ {r}]
        /\ attempts' = Counted(r.id)
  BY DEF Retry
<1>2. worker[w] \in WorkerStates /\ r \in Tries
  BY DEF TypeInv, WorkerStates
<1> DEFINE new == [worker[w] EXCEPT !.pc = "post", !.cur = r,
                                    !.batch = worker[w].batch \ {r}]
<1>3. worker' = [worker EXCEPT ![w] = new]
  BY <1>1, <1>2 DEF TypeInv
<1>4. /\ new \in WorkerStates /\ new.pc = "post" /\ new.cur = r
      /\ new.batch = worker[w].batch \ {r} /\ new.age = worker[w].age
  BY <1>2 DEF WorkerStates
<1> HIDE DEF new
<1>5. /\ worker' \in [Workers -> WorkerStates] /\ worker'[w] = new
      /\ \A v \in Workers : v # w => worker'[v] = worker[v]
  BY <1>3, <1>4 DEF TypeInv
<1>6. QED
  BY <1>1, <1>2, <1>4, <1>5

LEMMA AnswerFacts ==
    ASSUME TypeInv, NEW w \in Workers, RetryOk(w) \/ RetryFails(w)
    PROVE  /\ worker[w].pc = "post"
           /\ worker' \in [Workers -> WorkerStates]
           /\ \A v \in Workers : v # w => worker'[v] = worker[v]
           /\ worker'[w].pc \in {"ok", "failed"}
           /\ worker'[w].pc = "ok" => accepted' = accepted \union {worker[w].cur.id}
           /\ worker'[w].pc = "failed" => accepted' = accepted
           /\ worker'[w].cur = worker[w].cur
           /\ worker'[w].batch = worker[w].batch
           /\ worker'[w].age = worker[w].age
           /\ UNCHANGED <<item, first, forwards, attempts, stored, failures, overlapped>>
<1>1. worker[w] \in WorkerStates
  BY DEF TypeInv
<1>2. PICK pc \in {"ok", "failed"} :
        /\ worker' = [worker EXCEPT ![w].pc = pc, ![w].elapsed = 0]
        /\ pc = "ok" => accepted' = accepted \union {worker[w].cur.id}
        /\ pc = "failed" => accepted' = accepted
  BY DEF RetryOk, RetryFails
<1>3. /\ worker[w].pc = "post"
      /\ UNCHANGED <<item, first, forwards, attempts, stored, failures, overlapped>>
  BY DEF RetryOk, RetryFails
<1>4. QED
  BY <1>1, <1>2, <1>3 DEF TypeInv, WorkerStates

LEMMA LostFacts ==
    ASSUME TypeInv, NEW w \in Workers, RoundLost(w)
    PROVE  /\ worker' \in [Workers -> WorkerStates]
           /\ \A v \in Workers : v # w => worker'[v] = worker[v]
           /\ worker'[w].pc = "idle" /\ worker'[w].batch = {}
           /\ failures' = failures + 1
           /\ UNCHANGED <<item, first, forwards, attempts, accepted, stored, overlapped>>
<1>1. IdleWorker \in WorkerStates /\ IdleWorker.pc = "idle" /\ IdleWorker.batch = {}
  BY DEF IdleWorker, WorkerStates
<1>2. QED
  BY <1>1 DEF RoundLost, Fail, TypeInv

(* A second that passes.                                                   *)
LEMMA TickFacts ==
    ASSUME TypeInv, Tick
    PROVE  /\ item' \in [Ids -> Items]
           /\ \A i \in Ids : /\ item[i] = Absent <=> item'[i] = Absent
                             /\ item'[i].retries = item[i].retries
                             /\ item[i].due > 0 => item'[i].due = item[i].due - 1
           /\ worker' \in [Workers -> WorkerStates]
           /\ \A w \in Workers :
                /\ worker'[w].pc = worker[w].pc /\ worker'[w].batch = worker[w].batch
                /\ worker'[w].cur = worker[w].cur
                /\ worker'[w].age = IF worker[w].pc = "idle" THEN worker[w].age
                                                             ELSE worker[w].age + 1
           /\ first' \in [Ids -> [pc : {"idle", "post", "schedule"}, elapsed : Nat]]
           /\ \A i \in Ids : first'[i].pc = first[i].pc
           /\ UNCHANGED <<forwards, attempts, accepted, stored, failures, overlapped>>
<1>1. ASSUME NEW i \in Ids
      PROVE  /\ item'[i] \in Items
             /\ item[i] = Absent <=> item'[i] = Absent
             /\ item'[i].retries = item[i].retries
             /\ item[i].due > 0 => item'[i].due = item[i].due - 1
  <2> DEFINE d == item[i].due
             e == Max({0, d - 1})
  <2>1. d \in Nat /\ item[i] \in Items
    BY DEF TypeInv, Items, Absent
  <2>2. e = IF 0 >= d - 1 THEN 0 ELSE d - 1
    BY <2>1, MaxOfTwo
  <2>3. item'[i] = [item[i] EXCEPT !.due = e]
    BY DEF Tick
  <2>4. e \in Nat /\ (d > 0 => e = d - 1) /\ (d = 0 => e = 0)
    BY <2>1, <2>2
  <2> HIDE DEF e
  <2>5. CASE item[i] = Absent
    BY <2>3, <2>4, <2>5 DEF Absent, Items
  <2>6. CASE item[i] \in [retries : 0 .. Len(Backoff) - 1, due : Nat]
    BY <2>3, <2>4, <2>6, Lengths DEF Absent, Items
  <2>7. QED
    BY <2>1, <2>5, <2>6 DEF Items
<1>2. ASSUME NEW w \in Workers
      PROVE  /\ worker'[w] \in WorkerStates
             /\ worker'[w].pc = worker[w].pc /\ worker'[w].batch = worker[w].batch
             /\ worker'[w].cur = worker[w].cur
             /\ worker'[w].age = IF worker[w].pc = "idle" THEN worker[w].age
                                                          ELSE worker[w].age + 1
  <2> DEFINE o == Older(worker[w])
  <2>1. worker[w] \in WorkerStates
    BY DEF TypeInv
  <2>2. /\ o \in WorkerStates /\ o.pc = worker[w].pc /\ o.batch = worker[w].batch
        /\ o.cur = worker[w].cur /\ o.age = worker[w].age
    BY <2>1 DEF Older, WorkerStates
  <2>3. worker'[w] = IF worker[w].pc = "idle" THEN worker[w] ELSE [o EXCEPT !.age = @ + 1]
    BY DEF Tick
  <2> HIDE DEF o
  <2>4. QED
    BY <2>1, <2>2, <2>3 DEF WorkerStates
<1>3. ASSUME NEW i \in Ids
      PROVE  /\ first'[i] \in [pc : {"idle", "post", "schedule"}, elapsed : Nat]
             /\ first'[i].pc = first[i].pc
  BY DEF Tick, Older, TypeInv
<1>4. QED
  BY <1>1, <1>2, <1>3 DEF Tick

-----------------------------------------------------------------------------
(* Finish and Reschedule: what becomes of the relay just tried.            *)
LEMMA FinishFacts ==
    ASSUME IInv, NEW w \in Workers, Finish(w)
    PROVE  LET i == worker[w].cur.id
           IN  /\ i \in Ids /\ item' = [item EXCEPT ![i] = Absent]
               /\ worker[w].pc \in {"ok", "failed"}
               /\ i \in accepted \/ attempts[i] >= MaxAttempts
               /\ UNCHANGED <<first, forwards, attempts, accepted, stored, failures, overlapped>>
<1> DEFINE r == worker[w].cur
<1>1. /\ worker[w].pc \in {"ok", "failed"} /\ item' = [item EXCEPT ![r.id] = Absent]
      /\ worker[w].pc = "failed" => r.retries + 1 >= Len(Backoff)
      /\ UNCHANGED <<first, forwards, attempts, accepted, stored, failures, overlapped>>
  BY DEF Finish, FinishRelay, LastRetry
<1>2. /\ r \in Tries /\ attempts[r.id] >= r.retries + 2
      /\ worker[w].pc = "ok" => r.id \in accepted
  BY <1>1 DEF IInv, Counts
<1> HIDE DEF r
<1>3. r.id \in Ids /\ r.retries \in Nat /\ attempts[r.id] \in Nat
  BY <1>2, Lengths DEF Tries, IInv, TypeInv
<1>4. r.id \in accepted \/ attempts[r.id] >= MaxAttempts
  BY <1>1, <1>2, <1>3, Lengths
<1>5. QED
  BY <1>1, <1>3, <1>4 DEF r

LEMMA RescheduleFacts ==
    ASSUME IInv, NEW w \in Workers, Reschedule(w)
    PROVE  \E d \in Nat :
             LET r == worker[w].cur
             IN  /\ r \in Tries /\ worker[w].pc = "failed"
                 /\ r.retries + 1 \in 0 .. Len(Backoff) - 1
                 /\ attempts[r.id] >= r.retries + 2
                 /\ ScheduleRelay(r.id, r.retries + 1, d)
                 /\ UNCHANGED <<first, forwards, attempts, accepted, failures, overlapped>>
<1> DEFINE r == worker[w].cur
           d == Max({0, Backoff[r.retries + 2] - worker[w].age})
<1>1. /\ worker[w].pc = "failed" /\ ~LastRetry(r)
      /\ ScheduleRelay(r.id, r.retries + 1, d)
      /\ UNCHANGED <<first, forwards, attempts, accepted, failures, overlapped>>
  BY DEF Reschedule
<1>2. r \in Tries /\ attempts[r.id] >= r.retries + 2
  BY <1>1 DEF IInv, Counts
<1>3. worker[w].age \in Nat
  BY DEF IInv, TypeInv, WorkerStates
<1>4. r.retries \in 0 .. Len(Backoff) - 1 /\ r.retries + 1 < Len(Backoff)
  BY <1>1, <1>2, Lengths DEF Tries, LastRetry
<1>5. Backoff[r.retries + 2] \in Nat
  BY <1>4, Lengths
<1>6. d \in Nat
  <2>1. Backoff[r.retries + 2] - worker[w].age \in Int
    BY <1>3, <1>5
  <2>2. d = IF 0 >= Backoff[r.retries + 2] - worker[w].age THEN 0
            ELSE Backoff[r.retries + 2] - worker[w].age
    BY <2>1, MaxOfTwo
  <2>3. QED
    BY <2>1, <2>2
<1>7. r.retries + 1 \in 0 .. Len(Backoff) - 1
  BY <1>4, Lengths
<1>8. QED
  BY <1>1, <1>2, <1>6, <1>7

(* Every step keeps the types and the counts, and gives up no stored relay *)
(* that is not accepted before its attempts are used up.                   *)
LEMMA IInvStep == IInv /\ [Next]_vars => IInv'
<1> SUFFICES ASSUME IInv, [Next]_vars PROVE IInv'
  OBVIOUS
<1> USE DEF IInv
<1>0. \A i \in Ids : attempts[i] \in Nat
  BY Lengths DEF TypeInv
<1>1. ASSUME NEW i \in Ids, Deliver(i) PROVE IInv'
  <2>1. /\ forwards' = [forwards EXCEPT ![i] = @ + 1]
        /\ first' = [first EXCEPT ![i].pc = "post"]
        /\ attempts' = Counted(i)
        /\ UNCHANGED <<item, worker, accepted, stored, failures, overlapped>>
    BY <1>1 DEF Deliver
  <2>2. /\ attempts' \in [Ids -> 0 .. MostAttempts]
        /\ \A j \in Ids : attempts'[j] >= attempts[j]
        /\ attempts'[i] >= 1
    <3>1. attempts[i] >= 0 /\ 0 \in 0 .. Len(Backoff) + 1
      BY <1>0, Lengths
    <3>2. attempts'[i] >= 0 + 1
      BY <2>1, <3>1, CountedFacts
    <3>3. QED
      BY <2>1, <3>2, CountedFacts
  <2>3. TypeInv'
    <3>1. first' \in [Ids -> [pc : {"idle", "post", "schedule"}, elapsed : Nat]]
      BY <2>1 DEF TypeInv
    <3>2. forwards' \in [Ids -> Nat]
      BY <2>1 DEF TypeInv
    <3>3. QED
      BY <2>1, <2>2, <3>1, <3>2 DEF TypeInv
  <2>4. \A j \in Ids : attempts'[j] \in Nat
    BY <2>2, Lengths
  <2>5. Counts'
    <3>1. \A j \in Ids : first'[j].pc # "idle" => attempts'[j] >= 1
      BY <1>0, <2>1, <2>2, <2>4 DEF Counts, TypeInv
    <3>2. \A j \in Ids : item'[j] # Absent => attempts'[j] >= item'[j].retries + 1
      <4>1. \A j \in Ids : item[j] # Absent => item[j].retries \in Nat
        BY Lengths DEF TypeInv, Items
      <4>2. QED
        BY <1>0, <2>1, <2>2, <2>4, <4>1 DEF Counts
    <3>3. ASSUME NEW w \in Workers
          PROVE  /\ \A r \in worker'[w].batch : attempts'[r.id] >= r.retries + 1
                 /\ worker'[w].pc \in {"post", "ok", "failed"} =>
                      /\ worker'[w].cur \in Tries
                      /\ attempts'[worker'[w].cur.id] >= worker'[w].cur.retries + 2
                 /\ worker'[w].pc = "ok" => worker'[w].cur.id \in accepted'
      <4>1. \A r \in Tries : r.id \in Ids /\ r.retries \in Nat
        BY Lengths DEF Tries
      <4>2. worker[w].batch \subseteq Tries
        BY DEF TypeInv, WorkerStates
      <4>3. worker' = worker /\ accepted' = accepted
        BY <2>1
      <4>4. \A r \in worker[w].batch : attempts'[r.id] >= r.retries + 1
        BY <1>0, <2>2, <2>4, <4>1, <4>2 DEF Counts
      <4>5. worker[w].pc \in {"post", "ok", "failed"} =>
              /\ worker[w].cur \in Tries
              /\ attempts'[worker[w].cur.id] >= worker[w].cur.retries + 2
        BY <1>0, <2>2, <2>4, <4>1 DEF Counts
      <4>6. QED
        BY <4>3, <4>4, <4>5 DEF Counts
    <3>4. QED
      BY <3>1, <3>2, <3>3 DEF Counts
  <2>6. GivenUpOnlyAtTheEnd'
    BY <1>0, <2>1, <2>2, <2>4, Lengths DEF GivenUpOnlyAtTheEnd, TypeInv
  <2>7. QED
    BY <2>3, <2>5, <2>6
<1>2. ASSUME NEW i \in Ids, FirstOk(i) \/ FirstFails(i) \/ DeliveryLost(i) PROVE IInv'
  <2>1. /\ UNCHANGED <<item, worker, forwards, attempts, stored, overlapped>>
        /\ accepted' \in {accepted, accepted \union {i}}
        /\ failures' \in Nat
        /\ first' \in [Ids -> [pc : {"idle", "post", "schedule"}, elapsed : Nat]]
        /\ \A j \in Ids : first'[j].pc # "idle" => first[j].pc # "idle"
    <3>1. CASE FirstOk(i)
      BY <3>1 DEF FirstOk, NoDelivery, TypeInv
    <3>2. CASE FirstFails(i)
      BY <3>2 DEF FirstFails, TypeInv
    <3>3. CASE DeliveryLost(i)
      BY <3>3 DEF DeliveryLost, Fail, NoDelivery, TypeInv
    <3>4. QED
      BY <1>2, <3>1, <3>2, <3>3
  <2>2. TypeInv'
    BY <2>1 DEF TypeInv
  <2>3. Counts' /\ GivenUpOnlyAtTheEnd'
    BY <2>1 DEF Counts, GivenUpOnlyAtTheEnd
  <2>4. QED
    BY <2>2, <2>3
<1>3. ASSUME NEW i \in Ids, Schedule(i) PROVE IInv'
  <2>1. /\ first[i].pc = "schedule" /\ ScheduleRelay(i, 0, Backoff[1])
        /\ first' = [first EXCEPT ![i] = NoDelivery]
        /\ UNCHANGED <<worker, forwards, attempts, accepted, failures, overlapped>>
    BY <1>3 DEF Schedule
  <2>2. 0 \in 0 .. Len(Backoff) - 1 /\ Backoff[1] \in Nat /\ attempts[i] >= 1
    BY <2>1, Lengths DEF Counts
  <2> DEFINE x == [retries |-> 0, due |-> Backoff[1]]
  <2>3. x.retries = 0
    OBVIOUS
  <2> HIDE DEF x
  <2>4. \/ /\ item' = [item EXCEPT ![i] = x] /\ x \in Items /\ x # Absent
           /\ stored' = stored \union {i}
        \/ item' = item /\ stored' = stored
    BY <2>1, <2>2, ScheduleFacts DEF x
  <2>5. first' \in [Ids -> [pc : {"idle", "post", "schedule"}, elapsed : Nat]]
        /\ \A j \in Ids : first'[j].pc # "idle" => first[j].pc # "idle"
    BY <2>1 DEF TypeInv, NoDelivery
  <2>6. TypeInv'
    BY <2>1, <2>4, <2>5 DEF TypeInv
  <2>7. Counts'
    <3>1. \A j \in Ids : item'[j] # Absent => attempts[j] >= item'[j].retries + 1
      BY <1>0, <2>2, <2>3, <2>4 DEF Counts, TypeInv
    <3>2. QED
      BY <2>1, <2>5, <3>1 DEF Counts
  <2>8. GivenUpOnlyAtTheEnd'
    BY <2>1, <2>4 DEF GivenUpOnlyAtTheEnd, TypeInv
  <2>9. QED
    BY <2>6, <2>7, <2>8
<1>4. ASSUME NEW w \in Workers, Round(w) PROVE IInv'
  <2>1. UNCHANGED <<first, forwards, attempts, accepted, stored, failures>>
    BY <1>4 DEF Round
  <2>2. PICK ids \in SUBSET Ids :
          /\ \A i \in ids : item[i] # Absent /\ item[i].due = 0
          /\ \A i \in Ids \ ids : item'[i] = item[i]
          /\ \A i \in ids : item'[i].retries = item[i].retries /\ item'[i].due = Lease
          /\ item' \in [Ids -> Items]
          /\ \A i \in ids : item'[i] # Absent
          /\ worker' \in [Workers -> WorkerStates]
          /\ \A v \in Workers : v # w => worker'[v] = worker[v]
          /\ worker'[w].pc = "next" /\ worker'[w].age = 0
          /\ worker'[w].batch = {[id |-> i, retries |-> item[i].retries] : i \in ids}
          /\ \A i \in ids : item[i].retries \in 0 .. Len(Backoff) - 1
          /\ overlapped' = overlapped \union
               {i \in ids : \E v \in Workers \ {w} : Holds(v, i)}
    BY <1>4, RoundFacts
  <2>3. TypeInv'
    BY <2>1, <2>2 DEF TypeInv
  <2>4. Counts'
    <3>1. \A i \in Ids : item'[i] # Absent => attempts[i] >= item'[i].retries + 1
      BY <2>2 DEF Counts
    <3>2. \A r \in worker'[w].batch : attempts[r.id] >= r.retries + 1
      BY <2>2 DEF Counts
    <3>3. QED
      BY <2>1, <2>2, <3>1, <3>2 DEF Counts
  <2>5. GivenUpOnlyAtTheEnd'
    BY <2>1, <2>2 DEF GivenUpOnlyAtTheEnd, TypeInv
  <2>6. QED
    BY <2>3, <2>4, <2>5
<1>5. ASSUME NEW w \in Workers, Retry(w) PROVE IInv'
  <2>1. UNCHANGED <<item, first, forwards, accepted, stored, failures, overlapped>>
    BY <1>5 DEF Retry
  <2>2. PICK r \in worker[w].batch :
          /\ r \in Tries
          /\ worker' \in [Workers -> WorkerStates]
          /\ \A v \in Workers : v # w => worker'[v] = worker[v]
          /\ worker'[w].pc = "post" /\ worker'[w].cur = r
          /\ worker'[w].batch = worker[w].batch \ {r}
          /\ attempts' = Counted(r.id)
    BY <1>5, RetryFacts
  <2>3. r.id \in Ids /\ r.retries \in 0 .. Len(Backoff) - 1
    BY <2>2 DEF Tries
  <2>4. /\ attempts' \in [Ids -> 0 .. MostAttempts]
        /\ \A j \in Ids : attempts'[j] >= attempts[j] /\ attempts'[j] \in Nat
    BY <2>2, <2>3, CountedFacts, Lengths
  <2>5. attempts'[r.id] >= r.retries + 2
    <3>1. attempts[r.id] >= r.retries + 1
      BY DEF Counts
    <3>2. r.retries + 1 \in 0 .. Len(Backoff) + 1
      BY <2>3, Lengths
    <3>3. attempts'[r.id] >= (r.retries + 1) + 1
      BY <2>2, <2>3, <3>1, <3>2, CountedFacts
    <3>4. QED
      BY <2>3, <2>4, <3>3, Lengths
  <2>6. TypeInv'
    BY <2>1, <2>2, <2>4 DEF TypeInv
  <2>7. Counts'
    <3>1. \A j \in Ids : first'[j].pc # "idle" => attempts'[j] >= 1
      BY <1>0, <2>1, <2>4 DEF Counts
    <3>2. \A j \in Ids : item'[j] # Absent => attempts'[j] >= item'[j].retries + 1
      BY <1>0, <2>1, <2>4, Lengths DEF Counts, TypeInv, Items
    <3>3. ASSUME NEW v \in Workers
          PROVE  /\ \A q \in worker'[v].batch : attempts'[q.id] >= q.retries + 1
                 /\ worker'[v].pc \in {"post", "ok", "failed"} =>
                      /\ worker'[v].cur \in Tries
                      /\ attempts'[worker'[v].cur.id] >= worker'[v].cur.retries + 2
                 /\ worker'[v].pc = "ok" => worker'[v].cur.id \in accepted'
      <4>1. \A q \in worker'[v].batch : q \in worker[v].batch
        BY <2>2
      <4>2. \A q \in worker[v].batch : q \in Tries /\ attempts[q.id] >= q.retries + 1
        BY DEF Counts, TypeInv, WorkerStates
      <4>3. \A q \in worker'[v].batch : attempts'[q.id] >= q.retries + 1
        BY <1>0, <2>4, <4>1, <4>2, Lengths DEF Tries
      <4>4. CASE v = w
        BY <2>2, <2>5, <4>3, <4>4
      <4>5. CASE v # w
        <5>1. worker'[v] = worker[v]
          BY <2>2, <4>5
        <5>2. worker[v].pc \in {"post", "ok", "failed"} =>
                /\ worker[v].cur \in Tries
                /\ attempts'[worker[v].cur.id] >= worker[v].cur.retries + 2
          BY <1>0, <2>4, Lengths, SMTT(20) DEF Counts, Tries
        <5>3. QED
          BY <2>1, <4>3, <5>1, <5>2 DEF Counts
      <4>6. QED
        BY <4>4, <4>5
    <3>4. QED
      BY <3>1, <3>2, <3>3 DEF Counts
  <2>8. GivenUpOnlyAtTheEnd'
    BY <1>0, <2>1, <2>4, Lengths DEF GivenUpOnlyAtTheEnd, TypeInv
  <2>9. QED
    BY <2>6, <2>7, <2>8
<1>6. ASSUME NEW w \in Workers, RetryOk(w) \/ RetryFails(w) PROVE IInv'
  <2>1. /\ worker[w].cur \in Tries /\ worker[w].cur.id \in Ids
    BY <1>6, AnswerFacts DEF Counts, Tries
  <2>2. TypeInv'
    BY <1>6, <2>1, AnswerFacts DEF TypeInv
  <2>3. accepted \subseteq accepted'
    BY <1>6, AnswerFacts
  <2>4. Counts' /\ GivenUpOnlyAtTheEnd'
    BY <1>6, <2>1, <2>3, AnswerFacts DEF Counts, GivenUpOnlyAtTheEnd
  <2>5. QED
    BY <2>2, <2>4
<1>7. ASSUME NEW w \in Workers, Finish(w) PROVE IInv'
  <2> DEFINE i == worker[w].cur.id
  <2>1. /\ i \in Ids /\ item' = [item EXCEPT ![i] = Absent]
        /\ i \in accepted \/ attempts[i] >= MaxAttempts
        /\ UNCHANGED <<first, forwards, attempts, accepted, stored, failures, overlapped>>
    BY <1>7, FinishFacts
  <2> HIDE DEF i
  <2>2. /\ worker' \in [Workers -> WorkerStates]
        /\ \A v \in Workers : v # w => worker'[v] = worker[v]
        /\ worker'[w].pc \in {"idle", "next"}
        /\ worker'[w].batch = worker[w].batch
    BY <1>7, ContinueFacts DEF Finish
  <2>3. Absent \in Items
    BY DEF Items
  <2>4. TypeInv'
    BY <2>1, <2>2, <2>3 DEF TypeInv
  <2>5. Counts'
    BY <2>1, <2>2 DEF Counts, TypeInv
  <2>6. GivenUpOnlyAtTheEnd'
    BY <2>1 DEF GivenUpOnlyAtTheEnd, TypeInv
  <2>7. QED
    BY <2>4, <2>5, <2>6
<1>8. ASSUME NEW w \in Workers, Reschedule(w) PROVE IInv'
  <2> DEFINE r == worker[w].cur
  <2>1. PICK d \in Nat :
          /\ r \in Tries
          /\ r.retries + 1 \in 0 .. Len(Backoff) - 1
          /\ attempts[r.id] >= r.retries + 2
          /\ ScheduleRelay(r.id, r.retries + 1, d)
          /\ UNCHANGED <<first, forwards, attempts, accepted, failures, overlapped>>
    BY <1>8, RescheduleFacts
  <2> HIDE DEF r
  <2> DEFINE x == [retries |-> r.retries + 1, due |-> d]
  <2>2. x.retries = r.retries + 1
    OBVIOUS
  <2> HIDE DEF x
  <2>3. r.id \in Ids /\ r.retries \in Nat
    BY <2>1, Lengths DEF Tries
  <2>4. \/ /\ item' = [item EXCEPT ![r.id] = x] /\ x \in Items /\ x # Absent
           /\ stored' = stored \union {r.id}
        \/ item' = item /\ stored' = stored
    BY <2>1, <2>3, ScheduleFacts DEF x
  <2>5. /\ worker' \in [Workers -> WorkerStates]
        /\ \A v \in Workers : v # w => worker'[v] = worker[v]
        /\ worker'[w].pc \in {"idle", "next"}
        /\ worker'[w].batch = worker[w].batch
    BY <1>8, ContinueFacts DEF Reschedule
  <2>6. TypeInv'
    BY <2>1, <2>3, <2>4, <2>5 DEF TypeInv
  <2>7. Counts'
    <3>1. \A j \in Ids : item'[j] # Absent => attempts[j] >= item'[j].retries + 1
      <4>1. attempts[r.id] >= x.retries + 1
        BY <1>0, <2>1, <2>2, <2>3
      <4>2. \A j \in Ids : item'[j] = item[j] \/ (j = r.id /\ item'[j] = x)
        BY <2>3, <2>4 DEF TypeInv
      <4>3. QED
        BY <4>1, <4>2 DEF Counts
    <3>2. QED
      BY <2>1, <2>5, <3>1 DEF Counts
  <2>8. GivenUpOnlyAtTheEnd'
    BY <2>1, <2>3, <2>4 DEF GivenUpOnlyAtTheEnd, TypeInv
  <2>9. QED
    BY <2>6, <2>7, <2>8
<1>9. ASSUME NEW w \in Workers, RoundLost(w) PROVE IInv'
  <2>1. TypeInv'
    BY <1>9, LostFacts DEF TypeInv
  <2>2. Counts' /\ GivenUpOnlyAtTheEnd'
    BY <1>9, LostFacts DEF Counts, GivenUpOnlyAtTheEnd
  <2>3. QED
    BY <2>1, <2>2
<1>10. CASE Tick
  <2>1. TypeInv'
    BY <1>10, TickFacts DEF TypeInv
  <2>2. Counts' /\ GivenUpOnlyAtTheEnd'
    BY <1>10, TickFacts DEF Counts, GivenUpOnlyAtTheEnd, TypeInv
  <2>3. QED
    BY <2>1, <2>2
<1>11. CASE UNCHANGED vars
  BY <1>11 DEF vars, TypeInv, Counts, GivenUpOnlyAtTheEnd
<1>12. QED
  BY <1>1, <1>2, <1>3, <1>4, <1>5, <1>6, <1>7, <1>8, <1>9, <1>10, <1>11
  DEF Next, DeliveryStep, WorkerStep

LEMMA InitIInv == Init => IInv /\ HeldOnce /\ InTurn
<1> SUFFICES ASSUME Init PROVE IInv /\ HeldOnce /\ InTurn
  OBVIOUS
<1>1. TypeInv
  BY Lengths DEF Init, TypeInv, Items, WorkerStates, IdleWorker, NoDelivery
<1>2. Counts /\ GivenUpOnlyAtTheEnd
  BY DEF Init, Counts, GivenUpOnlyAtTheEnd, IdleWorker, NoDelivery
<1>3. HeldOnce /\ InTurn
  BY DEF Init, HeldOnce, InTurn, Turn, Holds, Tried, IdleWorker, NoDelivery
<1>4. QED
  BY <1>1, <1>2, <1>3 DEF IInv

(* The inductive invariant holds in every state.                           *)
THEOREM Invariance == Spec => []IInv
<1>1. Init => IInv
  BY InitIInv
<1>2. QED
  BY <1>1, IInvStep, PTL DEF Spec

(* A relay that was stored is given up only when the destination has       *)
(* accepted it or the first attempt and every retry of BACKOFF were made:  *)
(* over crashes, leases that run out and second forwards alike.            *)
THEOREM StoredRelaysTried == Spec => []GivenUpOnlyAtTheEnd
<1>1. IInv => GivenUpOnlyAtTheEnd
  BY DEF IInv
<1>2. QED
  BY <1>1, Invariance, PTL

-----------------------------------------------------------------------------
(* No step gives a worker a relay twice.                                   *)
LEMMA HeldOnceStep == IInv /\ HeldOnce /\ [Next]_vars => HeldOnce'
<1> SUFFICES ASSUME IInv, HeldOnce, [Next]_vars PROVE HeldOnce'
  OBVIOUS
<1>0. TypeInv
  BY DEF IInv
<1>1. ASSUME NEW w \in Workers, Round(w) PROVE HeldOnce'
  <2>1. PICK ids \in SUBSET Ids :
          /\ \A v \in Workers : v # w => worker'[v] = worker[v]
          /\ worker'[w].pc = "next"
          /\ worker'[w].batch = {[id |-> i, retries |-> item[i].retries] : i \in ids}
    BY <1>0, <1>1, RoundFacts
  <2>2. \A q, r \in worker'[w].batch : q.id = r.id => q = r
    BY <2>1
  <2>3. QED
    BY <2>1, <2>2 DEF HeldOnce
<1>2. ASSUME NEW w \in Workers, Retry(w) PROVE HeldOnce'
  <2>1. PICK r \in worker[w].batch :
          /\ \A v \in Workers : v # w => worker'[v] = worker[v]
          /\ worker'[w].pc = "post" /\ worker'[w].cur = r
          /\ worker'[w].batch = worker[w].batch \ {r}
    BY <1>0, <1>2, RetryFacts
  <2>2. QED
    BY <2>1 DEF HeldOnce
<1>3. ASSUME NEW w \in Workers, RetryOk(w) \/ RetryFails(w) PROVE HeldOnce'
  BY <1>0, <1>3, AnswerFacts DEF HeldOnce
<1>4. ASSUME NEW w \in Workers, Finish(w) \/ Reschedule(w) PROVE HeldOnce'
  <2>1. Continue(w)
    BY <1>4 DEF Finish, Reschedule
  <2>2. QED
    BY <1>0, <2>1, ContinueFacts DEF HeldOnce
<1>5. ASSUME NEW w \in Workers, RoundLost(w) PROVE HeldOnce'
  BY <1>0, <1>5, LostFacts DEF HeldOnce
<1>6. ASSUME NEW i \in Ids, DeliveryStep(i) PROVE HeldOnce'
  BY <1>6 DEF DeliveryStep, Deliver, FirstOk, FirstFails, Schedule, DeliveryLost, HeldOnce
<1>7. CASE Tick
  BY <1>0, <1>7, TickFacts DEF HeldOnce
<1>8. CASE UNCHANGED vars
  BY <1>8 DEF vars, HeldOnce
<1>9. QED
  BY <1>1, <1>2, <1>3, <1>4, <1>5, <1>6, <1>7, <1>8 DEF Next, WorkerStep

(* A relay that a step does not touch.                                     *)
LEMMA TurnKept ==
    ASSUME NEW j \in Ids, Turn(j),
           forwards'[j] = forwards[j], first'[j].pc = first[j].pc,
           item'[j] = Absent <=> item[j] = Absent,
           item'[j].retries = item[j].retries,
           attempts'[j] = attempts[j], j \in accepted' <=> j \in accepted,
           \A w \in Workers :
             /\ \A r : r.id = j => (r \in worker'[w].batch <=> r \in worker[w].batch)
             /\ Tried(w, j)' <=> Tried(w, j)
             /\ Tried(w, j) => /\ worker'[w].cur = worker[w].cur
                               /\ worker'[w].pc = "ok" <=> worker[w].pc = "ok"
    PROVE  Turn(j)'
<1>1. \A w \in Workers : Holds(w, j)' <=> Holds(w, j)
  BY DEF Holds
<1>2. QED
  BY <1>1 DEF Turn

(* Counting a request that is not beyond the last.                         *)
LEMMA CountedExactly ==
    ASSUME TypeInv, NEW i \in Ids, attempts[i] <= Len(Backoff) + 1
    PROVE  Counted(i) = [attempts EXCEPT ![i] = attempts[i] + 1]
<1>1. attempts[i] \in Nat /\ attempts[i] + 1 <= MostAttempts /\ MostAttempts \in Int
  BY Lengths DEF TypeInv
<1>2. Min({attempts[i] + 1, MostAttempts}) = attempts[i] + 1
  BY <1>1, MinOfTwo
<1>3. QED
  BY <1>2 DEF Counted

(* The first attempt: nobody has the relay, nor is it stored before.       *)
LEMMA TurnOfDelivery ==
    ASSUME IInv, NEW j \in Ids, Turn(j), forwards'[j] <= 1, failures' = failures,
           NEW i \in Ids, DeliveryStep(i)
    PROVE  Turn(j)'
<1>0. TypeInv /\ forwards[j] \in Nat
  BY DEF IInv, TypeInv
<1>1. worker' = worker /\ ~DeliveryLost(i)
  <2>1. ~DeliveryLost(i)
    BY DEF DeliveryLost, Fail, IInv, TypeInv
  <2>2. worker' = worker
    BY DEF DeliveryStep, Deliver, FirstOk, FirstFails, Schedule, DeliveryLost
  <2>3. QED
    BY <2>1, <2>2
<1>2. first'[j].pc = first[j].pc \/ j = i
  BY DEF DeliveryStep, Deliver, FirstOk, FirstFails, Schedule, DeliveryLost, IInv, TypeInv
<1>3. \A w \in Workers : Tried(w, j)' <=> Tried(w, j)
  BY <1>1 DEF Tried
<1>4. \A w \in Workers : Holds(w, j)' <=> Holds(w, j)
  BY <1>1, <1>3 DEF Holds
<1>5. CASE Deliver(i)
  <2>1. /\ forwards' = [forwards EXCEPT ![i] = @ + 1]
        /\ first' = [first EXCEPT ![i].pc = "post"]
        /\ attempts' = Counted(i)
        /\ UNCHANGED <<item, accepted>>
    BY <1>5 DEF Deliver
  <2>2. CASE j = i
    <3>1. forwards[i] = 0 /\ forwards'[i] = 1
      BY <1>0, <2>1, <2>2 DEF TypeInv
    <3>2. item[i] = Absent /\ attempts[i] = 0 /\ i \notin accepted
      BY <2>2, <3>1 DEF Turn
    <3>3. attempts'[i] = 1
      BY <1>0, <2>1, <3>2, CountedExactly, Lengths DEF TypeInv
    <3>4. \A w \in Workers : ~Holds(w, i)
      BY <2>2, <3>2 DEF Turn
    <3>5. QED
      BY <1>1, <1>4, <2>1, <2>2, <3>1, <3>2, <3>3, <3>4 DEF Turn, Holds
  <2>3. CASE j # i
    <3>1. attempts'[j] = attempts[j]
      BY <1>0, <2>1, <2>3, CountedFacts
    <3>2. forwards'[j] = forwards[j] /\ first'[j].pc = first[j].pc
      BY <1>0, <1>2, <2>1, <2>3 DEF TypeInv
    <3>3. QED
      BY <1>1, <1>3, <2>1, <3>1, <3>2, TurnKept
  <2>4. QED
    BY <2>2, <2>3
<1>6. CASE FirstOk(i) \/ FirstFails(i)
  <2>1. /\ first[i].pc = "post" /\ UNCHANGED <<item, forwards, attempts>>
        /\ \/ accepted' = accepted \union {i} /\ first'[i].pc = "idle"
           \/ accepted' = accepted
    BY <1>6 DEF FirstOk, FirstFails, NoDelivery, IInv, TypeInv
  <2>2. CASE j = i
    <3>1. item[j] = Absent /\ attempts[j] = 1 /\ j \notin accepted /\ forwards[j] # 0
      BY <2>1, <2>2 DEF Turn
    <3>2. \A w \in Workers : ~Holds(w, j)
      BY <3>1 DEF Turn
    <3>3. QED
      BY <1>1, <1>4, <2>1, <2>2, <3>1, <3>2 DEF Turn, Holds
  <2>3. CASE j # i
    BY <1>1, <1>2, <1>3, <2>1, <2>3, TurnKept
  <2>4. QED
    BY <2>2, <2>3
<1>7. CASE Schedule(i)
  <2>1. /\ first[i].pc = "schedule" /\ ScheduleRelay(i, 0, Backoff[1])
        /\ first' = [first EXCEPT ![i] = NoDelivery]
        /\ UNCHANGED <<forwards, attempts, accepted>>
    BY <1>7 DEF Schedule
  <2>2. 0 \in 0 .. Len(Backoff) - 1 /\ Backoff[1] \in Nat
    BY Lengths
  <2> DEFINE x == [retries |-> 0, due |-> Backoff[1]]
  <2>3. x.retries = 0
    OBVIOUS
  <2> HIDE DEF x
  <2>4. \/ item' = [item EXCEPT ![i] = x] /\ x # Absent
        \/ item' = item
    BY <1>0, <2>1, <2>2, ScheduleFacts DEF x
  <2>5. CASE j = i
    <3>1. item[j] = Absent /\ attempts[j] = 1 /\ j \notin accepted /\ forwards[j] # 0
      BY <2>1, <2>5 DEF Turn
    <3>2. \A w \in Workers : ~Holds(w, j)
      BY <3>1 DEF Turn
    <3>3. first'[j].pc = "idle"
      BY <1>0, <2>1, <2>5 DEF TypeInv, NoDelivery
    <3>4. item'[j] = Absent \/ item'[j].retries = 0
      BY <1>0, <2>3, <2>4, <2>5, <3>1 DEF TypeInv
    <3>5. QED
      BY <1>1, <1>4, <2>1, <3>1, <3>2, <3>3, <3>4 DEF Turn, Holds
  <2>6. CASE j # i
    <3>1. item'[j] = item[j]
      BY <1>0, <2>4, <2>6 DEF TypeInv
    <3>2. QED
      BY <1>1, <1>2, <1>3, <2>1, <2>6, <3>1, TurnKept
  <2>7. QED
    BY <2>5, <2>6
<1>8. QED
  BY <1>1, <1>5, <1>6, <1>7 DEF DeliveryStep

(* A worker's step: a relay it takes was held by nobody.                   *)
LEMMA TurnOfWorker ==
    ASSUME IInv, HeldOnce, NEW j \in Ids \ overlapped', Turn(j), failures' = failures,
           NEW w \in Workers, WorkerStep(w)
    PROVE  Turn(j)'
<1>0. TypeInv /\ Counts
  BY DEF IInv
<1>1. CASE Round(w)
  <2>1. UNCHANGED <<first, forwards, attempts, accepted>> /\ worker[w].pc = "idle"
    BY <1>1 DEF Round
  <2>2. PICK ids \in SUBSET Ids :
          /\ \A i \in ids : item[i] # Absent
          /\ \A i \in Ids \ ids : item'[i] = item[i]
          /\ \A i \in ids : item'[i].retries = item[i].retries
          /\ \A i \in ids : item'[i] # Absent
          /\ \A v \in Workers : v # w => worker'[v] = worker[v]
          /\ worker'[w].pc = "next"
          /\ worker'[w].batch = {[id |-> i, retries |-> item[i].retries] : i \in ids}
          /\ overlapped' = overlapped \union
               {i \in ids : \E v \in Workers \ {w} : Holds(v, i)}
    BY <1>0, <1>1, RoundFacts
  <2>3. ~Holds(w, j) /\ ~Tried(w, j) /\ worker[w].batch = {}
    BY <2>1 DEF HeldOnce, Holds, Tried
  <2>4. \A v \in Workers : Tried(v, j)' <=> Tried(v, j)
    BY <2>2, <2>3 DEF Tried
  <2>5. CASE j \in ids
    <3>1. \A v \in Workers : ~Holds(v, j)
      BY <2>2, <2>3, <2>5
    <3>2. /\ item[j] # Absent /\ forwards[j] # 0 /\ first[j].pc = "idle"
          /\ attempts[j] = item[j].retries + 1 /\ j \notin accepted
      BY <2>2, <2>5, <3>1 DEF Turn, Holds
    <3>3. \A v \in Workers : Holds(v, j)' => v = w
      BY <2>2, <2>4, <3>1 DEF Holds
    <3>4. \A v \in Workers : ~Tried(v, j)'
      BY <2>4, <3>1 DEF Holds
    <3>5. \A v \in Workers : \A r \in worker'[v].batch :
            r.id = j => r.retries = item'[j].retries
      BY <2>2, <2>5, <3>1 DEF Holds
    <3>6. QED
      BY <2>1, <2>2, <2>5, <3>2, <3>3, <3>4, <3>5 DEF Turn
  <2>6. CASE j \notin ids
    <3>1. \A v \in Workers : \A r : r.id = j =>
            (r \in worker'[v].batch <=> r \in worker[v].batch)
      BY <2>2, <2>3, <2>6
    <3>2. \A v \in Workers : Tried(v, j) => worker'[v] = worker[v]
      BY <2>2, <2>3
    <3>3. item'[j] = item[j]
      BY <2>2, <2>6
    <3>4. QED
      BY <2>1, <2>4, <3>1, <3>2, <3>3, TurnKept
  <2>7. QED
    BY <2>5, <2>6
<1>2. CASE Retry(w)
  <2>1. UNCHANGED <<item, first, forwards, accepted>> /\ worker[w].pc = "next"
    BY <1>2 DEF Retry
  <2>2. PICK r \in worker[w].batch :
          /\ r \in Tries
          /\ \A v \in Workers : v # w => worker'[v] = worker[v]
          /\ worker'[w].pc = "post" /\ worker'[w].cur = r
          /\ worker'[w].batch = worker[w].batch \ {r}
          /\ attempts' = Counted(r.id)
    BY <1>0, <1>2, RetryFacts
  <2>3. ~Tried(w, j)
    BY <2>1 DEF Tried
  <2>4. CASE j = r.id
    <3>1. Holds(w, j) /\ r.retries = item[j].retries
      BY <2>2, <2>4 DEF Holds, Turn
    <3>2. item[j] # Absent /\ \A v \in Workers : Holds(v, j) => v = w
      BY <3>1 DEF Turn
    <3>3. \A v \in Workers : ~Tried(v, j)
      BY <2>3, <3>2 DEF Holds
    <3>4. /\ forwards[j] # 0 /\ first[j].pc = "idle"
          /\ attempts[j] = item[j].retries + 1 /\ j \notin accepted
      BY <3>2, <3>3 DEF Turn
    <3>5. r.retries \in 0 .. Len(Backoff) - 1
      BY <2>2 DEF Tries
    <3>6. attempts'[j] = item[j].retries + 2
      <4>1. attempts[j] <= Len(Backoff) + 1
        BY <3>1, <3>4, <3>5, Lengths
      <4>2. attempts'[j] = attempts[j] + 1
        BY <1>0, <2>2, <2>4, <4>1, CountedExactly DEF TypeInv
      <4>3. QED
        BY <3>1, <3>4, <3>5, <4>2
    <3>7. \A q \in worker'[w].batch : q.id # j
      BY <2>2, <2>4 DEF HeldOnce
    <3>8. \A v \in Workers : Holds(v, j)' => v = w
      BY <2>2, <3>2 DEF Holds, Tried
    <3>9. \A v \in Workers : \A q \in worker'[v].batch : q.id # j
      BY <3>7, <3>8 DEF Holds
    <3>10. Tried(w, j)' /\ \A v \in Workers : Tried(v, j)' => v = w
      BY <2>2, <2>4, <3>8 DEF Holds, Tried
    <3>11. QED
      BY <2>1, <2>2, <3>1, <3>2, <3>4, <3>6, <3>8, <3>9, <3>10 DEF Turn
  <2>5. CASE j # r.id
    <3>1. attempts'[j] = attempts[j]
      BY <1>0, <2>2, <2>5, CountedFacts DEF Tries
    <3>2. \A v \in Workers : Tried(v, j)' <=> Tried(v, j)
      BY <2>2, <2>3, <2>5 DEF Tried
    <3>3. \A v \in Workers : \A q : q.id = j =>
            (q \in worker'[v].batch <=> q \in worker[v].batch)
      BY <2>2, <2>5
    <3>4. \A v \in Workers : Tried(v, j) => worker'[v] = worker[v]
      BY <2>2, <2>3
    <3>5. QED
      BY <2>1, <3>1, <3>2, <3>3, <3>4, TurnKept
  <2>6. QED
    BY <2>4, <2>5
<1>3. CASE RetryOk(w) \/ RetryFails(w)
  <2>1. /\ worker[w].pc = "post" /\ UNCHANGED <<item, first, forwards, attempts>>
        /\ \A v \in Workers : v # w => worker'[v] = worker[v]
        /\ worker'[w].pc \in {"ok", "failed"}
        /\ worker'[w].pc = "ok" => accepted' = accepted \union {worker[w].cur.id}
        /\ worker'[w].pc = "failed" => accepted' = accepted
        /\ worker'[w].cur = worker[w].cur /\ worker'[w].batch = worker[w].batch
    BY <1>0, <1>3, AnswerFacts
  <2>2. \A v \in Workers : /\ Tried(v, j)' <=> Tried(v, j)
                           /\ worker'[v].batch = worker[v].batch
                           /\ worker'[v].cur = worker[v].cur
    BY <2>1 DEF Tried
  <2>3. \A v \in Workers : Holds(v, j)' <=> Holds(v, j)
    BY <2>2 DEF Holds
  <2>4. CASE j = worker[w].cur.id
    <3>1. Tried(w, j) /\ Holds(w, j)
      BY <2>1, <2>4 DEF Tried, Holds
    <3>2. \A v \in Workers : Tried(v, j) => v = w
      BY <3>1 DEF Turn, Holds
    <3>3. /\ item[j] # Absent /\ forwards[j] # 0 /\ first[j].pc = "idle"
          /\ j \notin accepted
      BY <2>1, <3>1 DEF Turn
    <3>4. worker'[w].pc # "ok" => j \notin accepted'
      BY <2>1, <3>3
    <3>5. QED
      BY <2>1, <2>2, <2>3, <3>1, <3>2, <3>3, <3>4 DEF Turn
  <2>5. CASE j # worker[w].cur.id
    <3>1. j \in accepted' <=> j \in accepted
      BY <2>1, <2>5
    <3>2. \A v \in Workers : Tried(v, j) => v # w
      BY <2>5 DEF Tried
    <3>3. QED
      BY <2>1, <2>2, <3>1, <3>2, TurnKept
  <2>6. QED
    BY <2>4, <2>5
<1>4. CASE Finish(w) \/ Reschedule(w)
  <2> DEFINE i == worker[w].cur.id
  <2>1. /\ Continue(w) /\ worker[w].pc \in {"ok", "failed"}
        /\ UNCHANGED <<first, forwards, attempts, accepted>>
    BY <1>4 DEF Finish, Reschedule
  <2>2. /\ \A v \in Workers : v # w => worker'[v] = worker[v]
        /\ worker'[w].pc \in {"idle", "next"}
        /\ worker'[w].batch = worker[w].batch
    BY <1>0, <2>1, ContinueFacts
  <2>3. worker[w].cur \in Tries /\ i \in Ids
    BY <1>0, <2>1 DEF Counts, Tries
  <2>4. \/ item' = [item EXCEPT ![i] = Absent]
        \/ /\ worker[w].pc = "failed"
           /\ item[i] # Absent =>
                /\ item'[i].retries = worker[w].cur.retries + 1
                /\ \A k \in Ids \ {i} : item'[k] = item[k]
           /\ item[i] = Absent => \A k \in Ids \ {i} : item'[k] = item[k]
    <3>1. CASE Finish(w)
      BY <3>1, FinishFacts
    <3>2. CASE Reschedule(w)
      <4> DEFINE r == worker[w].cur
      <4>1. PICK d \in Nat : /\ worker[w].pc = "failed"
                             /\ r.retries + 1 \in 0 .. Len(Backoff) - 1
                             /\ ScheduleRelay(r.id, r.retries + 1, d)
        BY <3>2, RescheduleFacts
      <4>2. \/ item' = [item EXCEPT ![i] = [retries |-> r.retries + 1, due |-> d]]
            \/ item' = item /\ item[i] = Absent
        BY <1>0, <2>3, <4>1, ScheduleFacts
      <4>3. QED
        BY <1>0, <2>3, <4>1, <4>2 DEF TypeInv
    <3>3. QED
      BY <1>4, <3>1, <3>2
  <2>5. \A v \in Workers : Tried(v, j)' <=> v # w /\ Tried(v, j)
    BY <2>2 DEF Tried
  <2>6. CASE j = i
    <3>1. Tried(w, j) /\ Holds(w, j)
      BY <2>1, <2>6 DEF Tried, Holds
    <3>2. /\ item[j] # Absent /\ forwards[j] # 0 /\ first[j].pc = "idle"
          /\ \A v \in Workers : Holds(v, j) => v = w
      BY <3>1 DEF Turn
    <3>3. \A v \in Workers : ~Holds(v, j)'
      <4>1. \A r \in worker[w].batch : r.id # j
        BY <2>1, <2>6 DEF HeldOnce
      <4>2. \A v \in Workers : ~Tried(v, j)'
        BY <2>5, <3>2 DEF Holds
      <4>3. QED
        BY <2>2, <3>2, <4>1, <4>2 DEF Holds
    <3>4. item'[j] = Absent \/ (attempts[j] = item'[j].retries + 1 /\ j \notin accepted)
      <4>1. CASE item' = [item EXCEPT ![i] = Absent]
        BY <1>0, <2>6, <4>1 DEF TypeInv
      <4>2. CASE worker[w].pc = "failed" /\ item'[i].retries = worker[w].cur.retries + 1
        <5>1. /\ worker[w].cur.retries = item[j].retries
              /\ attempts[j] = item[j].retries + 2 /\ j \notin accepted
          BY <3>1, <4>2 DEF Turn
        <5>2. worker[w].cur.retries \in Nat
          BY <2>3, Lengths DEF Tries
        <5>3. QED
          BY <2>6, <4>2, <5>1, <5>2
      <4>3. QED
        BY <2>4, <2>6, <3>2, <4>1, <4>2
    <3>5. QED
      BY <2>1, <3>2, <3>3, <3>4 DEF Turn, Holds
  <2>7. CASE j # i
    <3>1. item'[j] = item[j]
      BY <1>0, <2>3, <2>4, <2>7 DEF TypeInv
    <3>2. \A v \in Workers : /\ worker'[v].batch = worker[v].batch
                             /\ Tried(v, j)' <=> Tried(v, j)
                             /\ Tried(v, j) => worker'[v] = worker[v]
      BY <2>2, <2>5, <2>7 DEF Tried
    <3>3. QED
      BY <2>1, <3>1, <3>2, TurnKept
  <2>8. QED
    BY <2>6, <2>7
<1>5. CASE RoundLost(w)
  BY <1>0, <1>5, LostFacts DEF TypeInv
<1>6. QED
  BY <1>1, <1>2, <1>3, <1>4, <1>5 DEF WorkerStep

LEMMA TurnStep == IInv /\ HeldOnce /\ InTurn /\ [Next]_vars => InTurn'
<1> SUFFICES ASSUME IInv, HeldOnce, InTurn, [Next]_vars, failures' = 0,
                    NEW j \in Ids \ overlapped', forwards'[j] <= 1
             PROVE  Turn(j)'
  BY DEF InTurn
<1>0. TypeInv
  BY DEF IInv
<1>1. ASSUME NEW i \in Ids, DeliveryStep(i) PROVE Turn(j)'
  <2>1. failures' \in {failures, failures + 1} /\ overlapped' = overlapped
        /\ forwards' \in {forwards, [forwards EXCEPT ![i] = @ + 1]}
    BY <1>1 DEF DeliveryStep, Deliver, FirstOk, FirstFails, Schedule, DeliveryLost, Fail
  <2>2. failures = 0 /\ forwards[j] <= 1
    BY <1>0, <2>1 DEF TypeInv
  <2>3. Turn(j)
    BY <2>1, <2>2 DEF InTurn
  <2>4. QED
    BY <1>1, <2>2, <2>3, TurnOfDelivery
<1>2. ASSUME NEW w \in Workers, WorkerStep(w) PROVE Turn(j)'
  <2>1. failures' \in {failures, failures + 1} /\ forwards' = forwards
        /\ overlapped \subseteq overlapped'
    BY <1>2 DEF WorkerStep, Round, Retry, RetryOk, RetryFails, Finish, Reschedule,
                RoundLost, Fail
  <2>2. failures = 0
    BY <1>0, <2>1 DEF TypeInv
  <2>3. Turn(j)
    BY <2>1, <2>2 DEF InTurn
  <2>4. QED
    BY <1>2, <2>2, <2>3, TurnOfWorker
<1>3. CASE Tick
  <2>1. Turn(j)
    BY <1>0, <1>3, TickFacts DEF InTurn
  <2>2. \A w \in Workers : Tried(w, j)' <=> Tried(w, j)
    BY <1>0, <1>3, TickFacts DEF Tried
  <2>3. QED
    BY <1>0, <1>3, <2>1, <2>2, TickFacts, TurnKept
<1>4. CASE UNCHANGED vars
  BY <1>4 DEF vars, InTurn, Turn, Holds, Tried
<1>5. QED
  BY <1>1, <1>2, <1>3, <1>4 DEF Next

(* However long a round takes: without failures, a payload forwarded once  *)
(* that no worker took while another still had it is sent again only until *)
(* the destination accepts it, and at most MaxAttempts times.              *)
THEOREM RelayedInTurn == Spec => SentInTurn
<1> DEFINE Inv == IInv /\ HeldOnce /\ InTurn
           Again(i) == attempts'[i] # attempts[i] /\ forwards'[i] = 1 /\ failures = 0
                         => i \notin accepted /\ attempts'[i] <= MaxAttempts
<1>1. Init => Inv
  BY InitIInv
<1>2. Inv /\ [Next]_vars => Inv'
  BY IInvStep, HeldOnceStep, TurnStep
<1>3. Inv /\ [Next]_vars => [\A i \in Ids \ overlapped' : Again(i)]_vars
  <2> SUFFICES ASSUME Inv, Next, NEW j \in Ids \ overlapped', attempts'[j] # attempts[j],
                      forwards'[j] = 1, failures = 0
               PROVE  j \notin accepted /\ attempts'[j] <= MaxAttempts
    BY DEF vars
  <2>0. TypeInv
    BY DEF IInv
  <2>1. ASSUME NEW i \in Ids, Deliver(i) PROVE j \notin accepted /\ attempts'[j] <= MaxAttempts
    <3>1. /\ forwards' = [forwards EXCEPT ![i] = @ + 1] /\ attempts' = Counted(i)
          /\ overlapped' = overlapped
      BY <2>1 DEF Deliver
    <3>2. i = j
      BY <2>0, <3>1, CountedFacts
    <3>3. forwards[j] = 0
      <4>1. forwards'[j] = forwards[j] + 1 /\ forwards[j] \in Nat
        BY <2>0, <3>1, <3>2 DEF TypeInv
      <4>2. QED
        BY <4>1
    <3>4. attempts[j] = 0 /\ j \notin accepted
      BY <3>1, <3>3 DEF InTurn, Turn
    <3>5. attempts'[j] = 1
      BY <2>0, <3>1, <3>2, <3>4, CountedExactly, Lengths DEF TypeInv
    <3>6. QED
      BY <3>4, <3>5, Lengths
  <2>2. ASSUME NEW w \in Workers, Retry(w) PROVE j \notin accepted /\ attempts'[j] <= MaxAttempts
    <3>1. PICK r \in worker[w].batch : r \in Tries /\ attempts' = Counted(r.id)
      BY <2>0, <2>2, RetryFacts
    <3>2. worker[w].pc = "next" /\ forwards' = forwards /\ overlapped' = overlapped
      BY <2>2 DEF Retry
    <3>3. r.id = j /\ r.retries \in 0 .. Len(Backoff) - 1
      BY <2>0, <3>1, CountedFacts DEF Tries
    <3>4. Turn(j)
      BY <3>2 DEF InTurn
    <3>5. Holds(w, j) /\ r.retries = item[j].retries
      <4>1. Holds(w, j)
        BY <3>1, <3>3 DEF Holds
      <4>2. r.retries = item[j].retries
        BY <3>1, <3>3, <3>4 DEF Turn
      <4>3. QED
        BY <4>1, <4>2
    <3>6. item[j] # Absent /\ \A v \in Workers : ~Tried(v, j)
      BY <3>2, <3>4, <3>5 DEF Turn, Holds, Tried
    <3>7. attempts[j] = r.retries + 1 /\ j \notin accepted
      BY <3>4, <3>5, <3>6 DEF Turn
    <3>8. attempts[j] <= Len(Backoff) + 1
      BY <3>3, <3>7, Lengths
    <3>9. attempts'[j] = attempts[j] + 1
      BY <2>0, <3>1, <3>3, <3>8, CountedExactly DEF TypeInv
    <3>10. QED
      BY <3>3, <3>7, <3>9, Lengths
  <2>3. QED
    BY <2>1, <2>2 DEF Next, DeliveryStep, WorkerStep, FirstOk, FirstFails, Schedule,
       DeliveryLost, Round, RetryOk, RetryFails, Finish, Reschedule, RoundLost, Tick
<1>4. QED
  BY <1>1, <1>2, <1>3, PTL DEF Spec, SentInTurn

=============================================================================
