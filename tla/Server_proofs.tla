--------------------------- MODULE Server_proofs ----------------------------
(***************************************************************************)
(* Proofs about the mediator's process: in module Server the rate limit,   *)
(* on either store, and the metrics; in module Startup its key file, for   *)
(* any number of processes and any settings.                               *)
(***************************************************************************)
EXTENDS Server, Startup, FiniteSetTheorems, TLAPS

-----------------------------------------------------------------------------
(* The inductive invariant.                                                *)

Slots == Clients \X Windows

(* A connection carries a time that has been.                              *)
ConnOk(conn) ==
    \E ats, vias, ips : conn \in [at : ats, via : vias, ip : ips, now : 0 .. clock]

TypeInv ==
    /\ kind \in {"redis", "memory"}
    /\ clock \in Nat
    /\ DOMAIN conns = Conns
    /\ \A c \in Conns : ConnOk(conns[c])
    /\ passed \in [Slots -> Nat]
    /\ tried \in [Slots -> Nat]
    /\ late \in Nat
    /\ failed \in Nat

(* A counter is of a window that has begun, and in Redis it outlives that  *)
(* window.                                                                 *)
HitsInv ==
    \A k \in DOMAIN hits :
      /\ hits[k].count \in Nat /\ hits[k].window \in Nat /\ hits[k].until \in Nat
      /\ hits[k].window <= WindowOf(clock)
      /\ kind = "redis" => k[2] = hits[k].window /\ WindowOf(hits[k].until) > hits[k].window

(* The counter of an address in a window, and whether there is one.        *)
Key(ip, w) == <<ip, IF kind = "redis" THEN w ELSE 0>>
Counted(ip, w) == Key(ip, w) \in DOMAIN hits /\ hits[Key(ip, w)].window = w
Count(ip, w) == hits[Key(ip, w)].count

(* Nobody's counter is ahead of what it has sent.                          *)
CountsTruly ==
    \A ip \in Clients, w \in Windows : Counted(ip, w) => Count(ip, w) <= tried[<<ip, w>>]

Capped(n) == IF n < Limit THEN n ELSE Limit

(* Where a budget stands: while it is counted, before it is first counted, *)
(* and once its counter is gone, after its window.                         *)
BudgetAt(ip, w) ==
    IF Counted(ip, w)
      THEN passed[<<ip, w>>] <= Limit * late + Capped(Count(ip, w)) + failed
      ELSE \/ passed[<<ip, w>>] <= Limit * late + failed
           \/ /\ w < WindowOf(clock)
              /\ passed[<<ip, w>>] <= Limit * late + Limit + failed

Budgets == \A ip \in Clients, w \in Windows : BudgetAt(ip, w)

IInv == TypeInv /\ HitsInv /\ CountsTruly /\ Budgets

-----------------------------------------------------------------------------
(* Windows.                                                                *)

LEMMA WindowType ==
    ASSUME NEW t \in Nat
    PROVE  WindowOf(t) \in Nat /\ WindowOf(t + Window) = WindowOf(t) + 1
  BY RateAssumption DEF WindowOf

LEMMA WindowGrows ==
    ASSUME NEW t \in Nat, NEW u \in Nat, t <= u
    PROVE  WindowOf(t) <= WindowOf(u)
  <1> DEFINE a == t \div Window
             b == u \div Window
  <1>1. /\ Window \in Nat /\ Window > 0 /\ a \in Nat /\ b \in Nat
        /\ a * Window <= t /\ u < b * Window + Window
    BY RateAssumption
  <1> HIDE DEF a, b
  <1>2. ASSUME b + 1 <= a PROVE FALSE
    <2>1. (b + 1) * Window <= a * Window
      BY <1>1, <1>2
    <2>2. (b + 1) * Window = b * Window + Window
      BY <1>1
    <2> PICK x \in Nat, y \in Nat : x = a * Window /\ y = b * Window
      BY <1>1
    <2> QED  BY <1>1, <2>1, <2>2
  <1> QED  BY <1>1, <1>2 DEF WindowOf, a, b

LEMMA WindowsType == \A w \in Windows : w \in Nat
  BY RateAssumption DEF Windows

LEMMA BudgetType ==
    ASSUME TypeInv
    PROVE  Limit * late \in Nat /\ Limit \in Nat /\ Limit * (late + 1) = Limit * late + Limit
  BY RateAssumption DEF TypeInv

-----------------------------------------------------------------------------
(* A step without a hit.                                                   *)

(* What was passed, and the allowance, grow together or not at all.        *)
LEMMA QuietStep ==
    ASSUME IInv, kind' = kind, hits' = hits, tried' = tried, late' = late,
           clock' \in Nat, clock' >= clock,
           DOMAIN conns' = Conns, \A c \in Conns : ConnOk(conns[c])',
           failed' \in Nat, passed' \in [Slots -> Nat],
           \A x \in Slots : \/ passed'[x] = passed[x] /\ failed' >= failed
                            \/ passed'[x] = passed[x] + 1 /\ failed' = failed + 1
    PROVE  IInv'
  <1>1. TypeInv'
    BY DEF IInv, TypeInv
  <1>2. WindowOf(clock) \in Nat /\ WindowOf(clock') \in Nat /\ WindowOf(clock) <= WindowOf(clock')
    BY WindowType, WindowGrows DEF IInv, TypeInv
  <1>3. HitsInv'
    <2> SUFFICES ASSUME NEW k \in DOMAIN hits PROVE hits[k].window <= WindowOf(clock')
      BY DEF IInv, HitsInv, WindowOf
    <2>1. hits[k].window \in Nat /\ hits[k].window <= WindowOf(clock)
      BY DEF IInv, HitsInv
    <2> QED  BY <1>2, <2>1
  <1>4. /\ \A ip, w : Counted(ip, w)' = Counted(ip, w)
        /\ \A ip, w : Count(ip, w)' = Count(ip, w)
    BY DEF Counted, Count, Key
  <1>5. CountsTruly'
    BY <1>4 DEF IInv, CountsTruly
  <1>6. Budgets'
    <2> SUFFICES ASSUME NEW ip \in Clients, NEW w \in Windows
                 PROVE  BudgetAt(ip, w)'
      BY DEF Budgets
    <2>1. PICK x \in Slots : x = <<ip, w>>
      BY DEF Slots
    <2>2. /\ passed[x] \in Nat /\ failed \in Nat /\ failed' \in Nat /\ w \in Nat
          /\ \/ passed'[x] = passed[x] /\ failed' >= failed
             \/ passed'[x] = passed[x] + 1 /\ failed' = failed + 1
      BY <2>1, WindowsType DEF IInv, TypeInv
    <2>3. PICK B \in Nat : B = Limit * late
      BY BudgetType DEF IInv
    <2>4. BudgetAt(ip, w) /\ Limit \in Nat
      BY RateAssumption DEF IInv, Budgets
    <2>5. CASE Counted(ip, w)
      <3>1. PICK n \in Nat : n = Capped(Count(ip, w))
        BY <2>5, RateAssumption DEF IInv, HitsInv, Counted, Count, Capped
      <3>2. passed[x] <= B + n + failed
        BY <2>1, <2>3, <2>4, <2>5, <3>1 DEF BudgetAt
      <3>3. passed'[x] <= B + n + failed'
        BY <2>2, <3>2
      <3>4. Capped(Count(ip, w))' = n
        BY <1>4, <3>1 DEF Capped
      <3> QED  BY <1>4, <2>1, <2>3, <2>5, <3>3, <3>4 DEF BudgetAt
    <2>6. CASE ~Counted(ip, w)
      <3>1. \/ passed[x] <= B + failed
            \/ w < WindowOf(clock) /\ passed[x] <= B + Limit + failed
        BY <2>1, <2>3, <2>4, <2>6 DEF BudgetAt
      <3>2. \/ passed'[x] <= B + failed'
            \/ w < WindowOf(clock') /\ passed'[x] <= B + Limit + failed'
        BY <1>2, <2>2, <2>4, <3>1
      <3> QED  BY <1>4, <2>1, <2>3, <2>6, <3>2 DEF BudgetAt, WindowOf
    <2> QED  BY <2>5, <2>6
  <1> QED  BY <1>1, <1>3, <1>5, <1>6 DEF IInv

-----------------------------------------------------------------------------
(* What a hit does to the counters.                                        *)

(* It counts on, or starts anew: only when there was no counter, or after  *)
(* the window.  A counter that goes is of a window that is over, or goes   *)
(* because the hit is late.                                                *)
HitDone(ip, w0) ==
    /\ Counted(ip, w0)'
    /\ \/ Counted(ip, w0) /\ Count(ip, w0)' = Count(ip, w0) + 1
       \/ Count(ip, w0)' = 1 /\ (Counted(ip, w0) => w0 < WindowOf(clock))
    /\ \A i : \A w \in Nat : <<i, w>> # <<ip, w0>> =>
         /\ Counted(i, w)' => (Counted(i, w) /\ Count(i, w)' = Count(i, w))
         /\ (Counted(i, w) /\ ~Counted(i, w)') => (w < WindowOf(clock) \/ w0 < WindowOf(clock))

LEMMA RedisHitFacts ==
    ASSUME IInv, kind = "redis", kind' = kind, clock' = clock,
           NEW ip, NEW now \in Nat, now <= clock, hits' = RedisHit(hits, ip, now)
    PROVE  HitsInv' /\ HitDone(ip, WindowOf(now))
  <1>1. PICK w0 : w0 = WindowOf(now)
    OBVIOUS
  <1>2. w0 \in Nat /\ w0 <= WindowOf(clock) /\ WindowOf(clock) \in Nat /\ clock \in Nat
    BY <1>1, WindowType, WindowGrows DEF IInv, TypeInv
  <1>3. PICK D : D = {k \in DOMAIN hits : hits[k].until > clock}
    OBVIOUS
  <1>4. PICK key : key = <<ip, w0>>
    OBVIOUS
  <1>5. PICK n : n = IF key \in D THEN hits[key].count + 1 ELSE 1
    OBVIOUS
  <1>6. PICK rec : rec = [window |-> w0, count |-> n, until |-> clock + Window]
    OBVIOUS
  <1>7. hits' = [k \in D \union {key} |-> IF k = key THEN rec ELSE hits[k]]
    <2> DEFINE live == Only(hits, D)
    <2>1. live = [k \in D |-> hits[k]] /\ DOMAIN live = D
      BY <1>3 DEF Only
    <2>2. hits' = Put(live, key, rec)
      <3>1. n = IF key \in DOMAIN live THEN live[key].count + 1 ELSE 1
        BY <1>5, <2>1
      <3> QED  BY <1>1, <1>3, <1>4, <1>6, <3>1 DEF RedisHit
    <2> QED  BY <2>1, <2>2 DEF Put
  <1>8. /\ \A k \in DOMAIN hits : /\ hits[k].count \in Nat /\ hits[k].window \in Nat
                                  /\ hits[k].until \in Nat
                                  /\ hits[k].window <= WindowOf(clock)
                                  /\ k[2] = hits[k].window
                                  /\ WindowOf(hits[k].until) > hits[k].window
    BY DEF IInv, HitsInv
  <1>9. n \in Nat /\ n >= 1
    BY <1>3, <1>5, <1>8
  <1>10. rec.window = w0 /\ rec.count = n /\ rec.until = clock + Window
    BY <1>6
  <1>11. clock + Window \in Nat /\ WindowOf(clock + Window) > w0
    BY <1>2, WindowType, RateAssumption
  <1>12. HitsInv'
    <2> SUFFICES ASSUME NEW k \in D \union {key}
                 PROVE  /\ hits'[k].count \in Nat /\ hits'[k].window \in Nat
                        /\ hits'[k].until \in Nat /\ hits'[k].window <= WindowOf(clock)
                        /\ k[2] = hits'[k].window
                        /\ WindowOf(hits'[k].until) > hits'[k].window
      BY <1>7 DEF HitsInv, WindowOf
    <2>1. CASE k = key
      <3>1. hits'[k] = rec /\ k[2] = w0
        BY <1>4, <1>7, <2>1
      <3> QED  BY <1>2, <1>9, <1>10, <1>11, <3>1
    <2>2. CASE k # key
      <3>1. hits'[k] = hits[k] /\ k \in DOMAIN hits
        BY <1>3, <1>7, <2>2
      <3> QED  BY <1>8, <3>1
    <2> QED  BY <2>1, <2>2
  <1>13. /\ \A i, w : Counted(i, w) <=> (<<i, w>> \in DOMAIN hits /\ hits[<<i, w>>].window = w)
         /\ \A i, w : Count(i, w) = hits[<<i, w>>].count
         /\ \A i, w : Counted(i, w)' <=> (<<i, w>> \in DOMAIN hits' /\ hits'[<<i, w>>].window = w)
         /\ \A i, w : Count(i, w)' = hits'[<<i, w>>].count
    BY DEF Counted, Count, Key
  <1>14. Counted(ip, w0)' /\ Count(ip, w0)' = n
    BY <1>4, <1>7, <1>10, <1>13
  <1>15. \/ Counted(ip, w0) /\ n = Count(ip, w0) + 1
         \/ n = 1 /\ (Counted(ip, w0) => w0 < WindowOf(clock))
    <2>1. CASE key \in D
      <3>1. key \in DOMAIN hits /\ key[2] = w0
        BY <1>3, <1>4, <2>1
      <3> QED  BY <1>4, <1>5, <1>8, <1>13, <2>1, <3>1
    <2>2. CASE key \notin D
      <3>1. ASSUME Counted(ip, w0) PROVE w0 < WindowOf(clock)
        <4>1. key \in DOMAIN hits /\ hits[key].window = w0
          BY <1>4, <1>13, <3>1
        <4>2. hits[key].until \in Nat /\ hits[key].until <= clock
          BY <1>2, <1>3, <1>8, <2>2, <4>1
        <4>3. /\ WindowOf(hits[key].until) <= WindowOf(clock)
              /\ WindowOf(hits[key].until) \in Nat
          BY <1>2, <4>2, WindowGrows, WindowType
        <4> QED  BY <1>2, <1>8, <4>1, <4>3
      <3> QED  BY <1>5, <2>2, <3>1
    <2> QED  BY <2>1, <2>2
  <1>16. ASSUME NEW i, NEW w \in Nat, <<i, w>> # <<ip, w0>>
         PROVE  /\ Counted(i, w)' => (Counted(i, w) /\ Count(i, w)' = Count(i, w))
                /\ (Counted(i, w) /\ ~Counted(i, w)') => w < WindowOf(clock)
    <2>1. PICK k : k = <<i, w>>
      OBVIOUS
    <2>2. k # key
      BY <1>4, <1>16, <2>1
    <2>3. /\ k \in DOMAIN hits' <=> k \in D
          /\ k \in D => hits'[k] = hits[k] /\ k \in DOMAIN hits
      BY <1>3, <1>7, <2>2
    <2>4. Counted(i, w)' => (Counted(i, w) /\ Count(i, w)' = Count(i, w))
      BY <1>13, <2>1, <2>3
    <2>5. ASSUME Counted(i, w), ~Counted(i, w)' PROVE w < WindowOf(clock)
      <3>1. k \in DOMAIN hits /\ hits[k].window = w /\ k \notin D
        BY <1>13, <2>1, <2>3, <2>5
      <3>2. hits[k].until \in Nat /\ hits[k].until <= clock
        BY <1>2, <1>3, <1>8, <3>1
      <3>3. /\ WindowOf(hits[k].until) <= WindowOf(clock)
            /\ WindowOf(hits[k].until) \in Nat
        BY <1>2, <3>2, WindowGrows, WindowType
      <3> QED  BY <1>2, <1>8, <3>1, <3>3
    <2> QED  BY <2>4, <2>5
  <1> QED  BY <1>1, <1>12, <1>14, <1>15, <1>16 DEF HitDone

LEMMA MemoryHitFacts ==
    ASSUME IInv, kind = "memory", kind' = kind, clock' = clock,
           NEW ip, NEW now \in Nat, now <= clock, hits' = MemoryHit(hits, ip, now)
    PROVE  HitsInv' /\ HitDone(ip, WindowOf(now))
  <1>1. PICK w0 : w0 = WindowOf(now)
    OBVIOUS
  <1>2. w0 \in Nat /\ w0 <= WindowOf(clock) /\ WindowOf(clock) \in Nat /\ clock \in Nat
    BY <1>1, WindowType, WindowGrows DEF IInv, TypeInv
  <1>3. PICK D : /\ D \subseteq DOMAIN hits
                 /\ \A k \in DOMAIN hits \ D : hits[k].window # w0
                 /\ D = DOMAIN (IF Cardinality(DOMAIN hits) > MemoryKeys
                                THEN Only(hits, {k \in DOMAIN hits : hits[k].window = w0})
                                ELSE hits)
                 /\ \A k \in D : (IF Cardinality(DOMAIN hits) > MemoryKeys
                                  THEN Only(hits, {x \in DOMAIN hits : hits[x].window = w0})
                                  ELSE hits)[k] = hits[k]
    BY DEF Only
  <1>4. PICK key : key = <<ip, 0>>
    OBVIOUS
  <1>5. PICK n : n = IF key \in D /\ hits[key].window = w0 THEN hits[key].count + 1 ELSE 1
    OBVIOUS
  <1>6. PICK rec : rec = [window |-> w0, count |-> n, until |-> 0]
    OBVIOUS
  <1>7. hits' = [k \in D \union {key} |-> IF k = key THEN rec ELSE hits[k]]
    <2>1. PICK kept : kept = IF Cardinality(DOMAIN hits) > MemoryKeys
                             THEN Only(hits, {k \in DOMAIN hits : hits[k].window = w0})
                             ELSE hits
      OBVIOUS
    <2>2. DOMAIN kept = D /\ \A k \in D : kept[k] = hits[k]
      BY <1>3, <2>1
    <2>3. n = IF key \in DOMAIN kept /\ kept[key].window = w0 THEN kept[key].count + 1 ELSE 1
      BY <1>5, <2>2
    <2>4. hits' = Put(kept, key, rec)
      BY <1>1, <1>4, <1>6, <2>1, <2>3 DEF MemoryHit
    <2> QED  BY <2>2, <2>4 DEF Put
  <1>8. \A k \in DOMAIN hits : /\ hits[k].count \in Nat /\ hits[k].window \in Nat
                               /\ hits[k].until \in Nat
                               /\ hits[k].window <= WindowOf(clock)
    BY DEF IInv, HitsInv
  <1>9. n \in Nat /\ n >= 1
    BY <1>3, <1>5, <1>8
  <1>10. rec.window = w0 /\ rec.count = n /\ rec.until = 0
    BY <1>6
  <1>11. HitsInv'
    <2> SUFFICES ASSUME NEW k \in D \union {key}
                 PROVE  /\ hits'[k].count \in Nat /\ hits'[k].window \in Nat
                        /\ hits'[k].until \in Nat /\ hits'[k].window <= WindowOf(clock)
      BY <1>7 DEF HitsInv, WindowOf
    <2>1. CASE k = key
      <3>1. hits'[k] = rec
        BY <1>7, <2>1
      <3> QED  BY <1>2, <1>9, <1>10, <3>1
    <2>2. CASE k # key
      <3>1. hits'[k] = hits[k] /\ k \in DOMAIN hits
        BY <1>3, <1>7, <2>2
      <3> QED  BY <1>8, <3>1
    <2> QED  BY <2>1, <2>2
  <1>12. /\ \A i, w : Counted(i, w) <=> (<<i, 0>> \in DOMAIN hits /\ hits[<<i, 0>>].window = w)
         /\ \A i, w : Count(i, w) = hits[<<i, 0>>].count
         /\ \A i, w : Counted(i, w)' <=> (<<i, 0>> \in DOMAIN hits' /\ hits'[<<i, 0>>].window = w)
         /\ \A i, w : Count(i, w)' = hits'[<<i, 0>>].count
    BY DEF Counted, Count, Key
  <1>13. Counted(ip, w0)' /\ Count(ip, w0)' = n
    BY <1>4, <1>7, <1>10, <1>12
  <1>14. \/ Counted(ip, w0) /\ n = Count(ip, w0) + 1
         \/ n = 1 /\ ~Counted(ip, w0)
    BY <1>3, <1>4, <1>5, <1>12
  <1>15. ASSUME NEW i, NEW w \in Nat, <<i, w>> # <<ip, w0>>
         PROVE  /\ Counted(i, w)' => (Counted(i, w) /\ Count(i, w)' = Count(i, w))
                /\ (Counted(i, w) /\ ~Counted(i, w)') =>
                     (w < WindowOf(clock) \/ w0 < WindowOf(clock))
    <2>1. PICK k : k = <<i, 0>>
      OBVIOUS
    <2>2. k = key => i = ip /\ w # w0
      BY <1>4, <1>15, <2>1
    <2>3. ASSUME Counted(i, w)' PROVE Counted(i, w) /\ Count(i, w)' = Count(i, w)
      <3>1. k # key
        BY <1>7, <1>10, <1>12, <2>1, <2>2, <2>3
      <3>2. k \in D /\ hits'[k] = hits[k]
        BY <1>7, <1>12, <2>1, <2>3, <3>1
      <3> QED  BY <1>3, <1>12, <2>1, <2>3, <3>2
    <2>4. ASSUME Counted(i, w), ~Counted(i, w)'
          PROVE  w < WindowOf(clock) \/ w0 < WindowOf(clock)
      <3>1. k \in DOMAIN hits /\ hits[k].window = w /\ w <= WindowOf(clock)
        BY <1>8, <1>12, <2>1, <2>4
      <3>2. w # w0
        <4>1. CASE k = key
          BY <2>2, <4>1
        <4>2. CASE k # key
          <5>1. k \notin D
            BY <1>7, <1>12, <2>1, <2>4, <3>1, <4>2
          <5> QED  BY <1>3, <3>1, <5>1
        <4> QED  BY <4>1, <4>2
      <3> QED  BY <1>2, <3>1, <3>2
    <2> QED  BY <2>3, <2>4
  <1> QED  BY <1>1, <1>11, <1>13, <1>14, <1>15 DEF HitDone

-----------------------------------------------------------------------------
(* What a hit does to the budgets.                                         *)

(* A hit of ip in window w0, as the histories see it: what it lets through *)
(* beyond the failures is at most one, and none above the limit.           *)
HitMade(ip, w0) ==
    /\ w0 \in Nat /\ w0 <= WindowOf(clock)
    /\ kind' = kind /\ clock' = clock
    /\ late' = late + IF WindowOf(clock) > w0 THEN 1 ELSE 0
    /\ tried' \in [Slots -> Nat]
    /\ \A x \in Slots : tried'[x] = IF x = <<ip, w0>> THEN tried[x] + 1 ELSE tried[x]
    /\ Count(ip, w0)' \in Nat

HitPaid(ip, w0) ==
    /\ Limit > 0 /\ failed' \in Nat /\ failed' >= failed /\ passed' \in [Slots -> Nat]
    /\ \A x \in Slots :
         IF x = <<ip, w0>>
           THEN passed'[x] - failed' <= passed[x] - failed + IF Count(ip, w0)' <= Limit THEN 1 ELSE 0
           ELSE passed'[x] = passed[x]

HitSeen(ip, w0) == HitMade(ip, w0) /\ HitPaid(ip, w0)

LEMMA HitCountsTruly ==
    ASSUME IInv, NEW ip, NEW w0, HitsInv', HitDone(ip, w0), HitMade(ip, w0)
    PROVE  CountsTruly'
  <1> SUFFICES ASSUME NEW i \in Clients, NEW w \in Windows, Counted(i, w)'
               PROVE  Count(i, w)' <= tried'[<<i, w>>]
    BY DEF CountsTruly
  <1>1. PICK x \in Slots : x = <<i, w>>
    BY DEF Slots
  <1>2. w \in Nat /\ tried[x] \in Nat /\ tried'[x] \in Nat
    BY <1>1, WindowsType DEF IInv, TypeInv, HitMade
  <1>3. Counted(i, w) => Count(i, w) \in Nat /\ Count(i, w) <= tried[x]
    BY <1>1 DEF IInv, CountsTruly, HitsInv, Counted, Count
  <1>4. CASE x = <<ip, w0>>
    <2>1. i = ip /\ w = w0 /\ tried'[x] = tried[x] + 1
      BY <1>1, <1>4 DEF HitMade
    <2>2. \/ Counted(i, w) /\ Count(i, w)' = Count(i, w) + 1
          \/ Count(i, w)' = 1
      BY <2>1 DEF HitDone
    <2> QED  BY <1>1, <1>2, <1>3, <2>1, <2>2
  <1>5. CASE x # <<ip, w0>>
    <2>1. Counted(i, w) /\ Count(i, w)' = Count(i, w) /\ tried'[x] = tried[x]
      BY <1>1, <1>2, <1>5 DEF HitDone, HitMade
    <2> QED  BY <1>1, <1>3, <2>1
  <1> QED  BY <1>4, <1>5

LEMMA HitBudgets ==
    ASSUME IInv, NEW ip, NEW w0, HitsInv', HitDone(ip, w0), HitSeen(ip, w0)
    PROVE  Budgets'
  <1> SUFFICES ASSUME NEW i \in Clients, NEW w \in Windows
               PROVE  BudgetAt(i, w)'
    BY DEF Budgets
  <1>1. PICK x \in Slots : x = <<i, w>>
    BY DEF Slots
  <1>2. /\ w \in Nat /\ passed[x] \in Nat /\ passed'[x] \in Nat /\ failed \in Nat
        /\ Limit \in Nat /\ Limit > 0 /\ w0 \in Nat /\ failed' \in Nat /\ failed' >= failed
    BY <1>1, WindowsType, RateAssumption DEF IInv, TypeInv, HitSeen, HitMade, HitPaid
  <1>3. PICK W \in Nat : W = WindowOf(clock) /\ W = WindowOf(clock')
    BY WindowType DEF IInv, TypeInv, HitSeen, HitMade
  <1>4. PICK B \in Nat : B = Limit * late
    BY BudgetType DEF IInv
  <1>5. PICK C \in Nat : C = Limit * late' /\ C = IF W > w0 THEN B + Limit ELSE B
    <2>1. CASE W > w0
      <3>1. late' = late + 1
        BY <1>3, <2>1 DEF HitSeen, HitMade
      <3> QED  BY <1>2, <1>4, <2>1, <3>1, BudgetType DEF IInv
    <2>2. CASE ~(W > w0)
      <3>1. late' = late
        BY <1>3, <2>2 DEF HitSeen, HitMade, IInv, TypeInv
      <3> QED  BY <1>4, <2>2, <3>1
    <2> QED  BY <2>1, <2>2
  <1>6. w0 <= W
    BY <1>3 DEF HitSeen, HitMade
  <1>7. Counted(i, w) => /\ Count(i, w) \in Nat
                         /\ Capped(Count(i, w)) \in Nat /\ Capped(Count(i, w)) <= Limit
                         /\ passed[x] <= B + Capped(Count(i, w)) + failed
    BY <1>1, <1>2, <1>4 DEF IInv, Budgets, BudgetAt, HitsInv, Counted, Count, Capped
  <1>8. ~Counted(i, w) => \/ passed[x] <= B + failed
                          \/ w < W /\ passed[x] <= B + Limit + failed
    BY <1>1, <1>3, <1>4 DEF IInv, Budgets, BudgetAt
  <1>9. CASE x = <<ip, w0>>
    <2>1. i = ip /\ w = w0
      BY <1>1, <1>9
    <2>2. Counted(i, w)'
      BY <2>1 DEF HitDone
    <2>3. PICK n \in Nat : n = Count(i, w)'
      BY <2>2 DEF HitsInv, Counted, Count
    <2>4. passed'[x] - failed' <= passed[x] - failed + IF n <= Limit THEN 1 ELSE 0
      BY <1>9, <2>1, <2>3 DEF HitSeen, HitPaid
    <2>5. passed'[x] <= C + Capped(n) + failed'
      <3>1. CASE Counted(i, w) /\ n = Count(i, w) + 1
        BY <1>2, <1>5, <1>7, <2>4, <3>1 DEF Capped
      <3>2. CASE n = 1 /\ (Counted(i, w) => w0 < W)
        <4>1. Capped(n) = 1 /\ passed'[x] - failed' <= passed[x] - failed + 1
          BY <1>2, <2>4, <3>2 DEF Capped
        <4>2. CASE w0 < W
          <5>1. passed[x] <= B + Limit + failed
            BY <1>2, <1>7, <1>8
          <5> QED  BY <1>2, <1>5, <4>1, <4>2, <5>1
        <4>3. CASE ~(w0 < W)
          BY <1>2, <1>5, <1>8, <2>1, <3>2, <4>1, <4>3
        <4> QED  BY <4>2, <4>3
      <3> QED  BY <1>3, <2>1, <2>3, <3>1, <3>2 DEF HitDone
    <2>6. Capped(Count(i, w))' = Capped(n)
      BY <2>3 DEF Capped
    <2> QED  BY <1>1, <1>2, <1>5, <2>2, <2>5, <2>6 DEF BudgetAt
  <1>10. CASE x # <<ip, w0>>
    <2>1. passed'[x] = passed[x]
      BY <1>10 DEF HitSeen, HitPaid
    <2>2. CASE Counted(i, w)'
      <3>1. Counted(i, w) /\ Count(i, w)' = Count(i, w)
        BY <1>1, <1>2, <1>10, <2>2 DEF HitDone
      <3>2. PICK n : n = Capped(Count(i, w)) /\ n = Capped(Count(i, w))'
        BY <3>1 DEF Capped
      <3>3. passed'[x] <= C + n + failed'
        BY <1>2, <1>5, <1>7, <2>1, <3>1, <3>2
      <3> QED  BY <1>1, <1>2, <1>5, <2>2, <3>2, <3>3 DEF BudgetAt
    <2>3. CASE ~Counted(i, w)'
      <3>1. Counted(i, w) => (w < W \/ w0 < W)
        BY <1>1, <1>2, <1>3, <1>10, <2>3 DEF HitDone
      <3>2. \/ passed'[x] <= C + failed'
            \/ w < W /\ passed'[x] <= C + Limit + failed'
        BY <1>2, <1>5, <1>7, <1>8, <2>1, <3>1
      <3> QED  BY <1>1, <1>2, <1>3, <1>5, <2>3, <3>2 DEF BudgetAt, WindowOf
    <2> QED  BY <2>2, <2>3
  <1> QED  BY <1>9, <1>10

-----------------------------------------------------------------------------
(* Connections, and the actions.                                           *)

(* The records the handlers write are connections.                         *)
LEMMA ConnRecords ==
    ASSUME TypeInv, NEW at, NEW via, NEW ip
    PROVE  /\ ConnOk(Free)
           /\ ConnOk([[Free EXCEPT !.via = via, !.ip = ip] EXCEPT !.at = at, !.now = clock])
           /\ \A c \in Conns :
                /\ ConnOk(Pass(conns[c]))
                /\ ConnOk([conns[c] EXCEPT !.at = at])
                /\ ConnOk([conns[c] EXCEPT !.at = at, !.via = via])
                /\ ConnOk([[conns[c] EXCEPT !.via = via] EXCEPT !.at = at, !.now = clock])
  <1>1. clock \in Nat /\ 0 \in 0 .. clock /\ clock \in 0 .. clock
    BY DEF TypeInv
  <1>2. Free \in [at : {"free"}, via : {"http"}, ip : {NoIp}, now : 0 .. clock]
    BY <1>1 DEF Free
  <1>3. [[Free EXCEPT !.via = via, !.ip = ip] EXCEPT !.at = at, !.now = clock]
          \in [at : {at}, via : {via}, ip : {ip}, now : 0 .. clock]
    <2>1. [Free EXCEPT !.via = via, !.ip = ip]
            \in [at : {"free"}, via : {via}, ip : {ip}, now : 0 .. clock]
      BY <1>2
    <2> QED  BY <1>1, <2>1
  <1>4. ASSUME NEW c \in Conns
        PROVE  /\ ConnOk(Pass(conns[c]))
               /\ ConnOk([conns[c] EXCEPT !.at = at])
               /\ ConnOk([conns[c] EXCEPT !.at = at, !.via = via])
               /\ ConnOk([[conns[c] EXCEPT !.via = via] EXCEPT !.at = at, !.now = clock])
    <2>1. PICK A, V, I : conns[c] \in [at : A, via : V, ip : I, now : 0 .. clock]
      BY <1>4 DEF TypeInv, ConnOk
    <2>2. Pass(conns[c]) \in [at : {"passed"}, via : V, ip : I, now : 0 .. clock]
      BY <1>1, <2>1 DEF Pass
    <2>3. [conns[c] EXCEPT !.at = at] \in [at : {at}, via : V, ip : I, now : 0 .. clock]
      BY <2>1
    <2>4. [conns[c] EXCEPT !.at = at, !.via = via]
            \in [at : {at}, via : {via}, ip : I, now : 0 .. clock]
      BY <2>1
    <2>5. [[conns[c] EXCEPT !.via = via] EXCEPT !.at = at, !.now = clock]
            \in [at : {at}, via : {via}, ip : I, now : 0 .. clock]
      <3>1. [conns[c] EXCEPT !.via = via] \in [at : A, via : {via}, ip : I, now : 0 .. clock]
        BY <2>1
      <3> QED  BY <1>1, <3>1
    <2> QED  BY <2>2, <2>3, <2>4, <2>5 DEF ConnOk
  <1>5. ConnOk(Free)
    BY <1>2 DEF ConnOk
  <1>6. ConnOk([[Free EXCEPT !.via = via, !.ip = ip] EXCEPT !.at = at, !.now = clock])
    BY <1>3 DEF ConnOk
  <1> QED  BY <1>4, <1>5, <1>6

(* Writing one keeps them all.                                             *)
LEMMA ConnStep ==
    ASSUME TypeInv, clock' = clock, NEW c \in Conns, NEW k, ConnOk(k),
           conns' = [conns EXCEPT ![c] = k]
    PROVE  DOMAIN conns' = Conns /\ \A d \in Conns : ConnOk(conns[d])'
  <1>1. DOMAIN conns' = Conns /\ \A d \in Conns : conns'[d] = k \/ conns'[d] = conns[d]
    BY DEF TypeInv
  <1>2. ASSUME NEW d \in Conns PROVE ConnOk(conns[d])'
    <2>1. ConnOk(k) /\ ConnOk(conns[d])
      BY DEF TypeInv
    <2>2. PICK A, V, I : conns'[d] \in [at : A, via : V, ip : I, now : 0 .. clock]
      BY <1>1, <2>1 DEF ConnOk
    <2> QED  BY <2>2 DEF ConnOk
  <1> QED  BY <1>1, <1>2

(* A step of one connection that hits no counter and passes nothing.       *)
LEMMA ConnOnly ==
    ASSUME IInv, NEW c \in Conns, NEW k, ConnOk(k), conns' = [conns EXCEPT ![c] = k],
           UNCHANGED <<kind, clock, passed, failed, counts>>
    PROVE  IInv'
  <1>1. DOMAIN conns' = Conns /\ \A d \in Conns : ConnOk(conns[d])'
    BY ConnStep DEF IInv
  <1>2. /\ clock' \in Nat /\ clock' >= clock /\ failed' \in Nat /\ passed' \in [Slots -> Nat]
        /\ \A x \in Slots : passed'[x] = passed[x] /\ failed' >= failed
        /\ kind' = kind /\ hits' = hits /\ tried' = tried /\ late' = late
    BY DEF IInv, TypeInv, counts
  <1> QED  BY <1>1, <1>2, QuietStep

(* Adding to one entry of a table, which may be none of its entries.       *)
LEMMA Bump ==
    ASSUME NEW S, NEW f \in [S -> Nat], NEW p, NEW n \in Nat
    PROVE  /\ [f EXCEPT ![p] = @ + n] \in [S -> Nat]
           /\ \A x \in S : [f EXCEPT ![p] = @ + n][x] = IF x = p THEN f[x] + n ELSE f[x]
  <1> DEFINE g == [f EXCEPT ![p] = @ + n]
  <1>1. \A x \in S : g[x] = IF x = p THEN f[x] + n ELSE f[x]
    OBVIOUS
  <1>2. DOMAIN g = S
    OBVIOUS
  <1>3. g = [x \in S |-> IF x = p THEN f[x] + n ELSE f[x]]
    BY <1>1, <1>2
  <1>4. [x \in S |-> IF x = p THEN f[x] + n ELSE f[x]] \in [S -> Nat]
    OBVIOUS
  <1> QED  BY <1>1, <1>3, <1>4

LEMMA CountingFacts ==
    ASSUME IInv, NEW c \in Conns, Counting(c), kind' = kind, clock' = clock
    PROVE  \E ip, w0 : /\ HitsInv' /\ HitDone(ip, w0) /\ HitMade(ip, w0)
                       /\ <<ip, w0>> = <<conns[c].ip, WindowOf(conns[c].now)>>
                       /\ CountOf(hits', conns[c].ip, conns[c].now) = Count(ip, w0)'
  <1>1. PICK A, V, I : conns[c] \in [at : A, via : V, ip : I, now : 0 .. clock]
    BY DEF IInv, TypeInv, ConnOk
  <1>2. PICK now \in Nat : now <= clock /\ conns[c].now = now
    BY <1>1 DEF IInv, TypeInv
  <1>3. PICK ip : conns[c].ip = ip
    OBVIOUS
  <1>4. PICK w0 : w0 = WindowOf(now)
    OBVIOUS
  <1>5. /\ hits' = StoreHit(ip, now)
        /\ late' = late + IF WindowOf(clock) > w0 THEN 1 ELSE 0
        /\ tried' = [tried EXCEPT ![<<ip, w0>>] = @ + 1]
    BY <1>2, <1>3, <1>4 DEF Counting
  <1>6. HitsInv' /\ HitDone(ip, w0)
    <2>1. CASE kind = "redis"
      <3>1. hits' = RedisHit(hits, ip, now)
        BY <1>5, <2>1 DEF StoreHit
      <3> QED  BY <1>2, <1>4, <1>5, <2>1, <3>1, RedisHitFacts
    <2>2. CASE kind = "memory"
      <3>1. hits' = MemoryHit(hits, ip, now)
        BY <1>5, <2>2 DEF StoreHit
      <3> QED  BY <1>2, <1>4, <1>5, <2>2, <3>1, MemoryHitFacts
    <2> QED  BY <2>1, <2>2 DEF IInv, TypeInv
  <1>7. w0 \in Nat /\ w0 <= WindowOf(clock)
    BY <1>2, <1>4, WindowType, WindowGrows DEF IInv, TypeInv
  <1>8. CountOf(hits', ip, now) = Count(ip, w0)'
    BY <1>4 DEF CountOf, Count, Key
  <1>9. Count(ip, w0)' \in Nat
    BY <1>6 DEF HitDone, HitsInv, Counted, Count
  <1>10. /\ tried' \in [Slots -> Nat]
         /\ \A x \in Slots : tried'[x] = IF x = <<ip, w0>> THEN tried[x] + 1 ELSE tried[x]
    BY <1>5, Bump DEF IInv, TypeInv
  <1>11. HitMade(ip, w0)
    BY <1>5, <1>7, <1>9, <1>10 DEF HitMade
  <1> QED  BY <1>2, <1>3, <1>4, <1>6, <1>8, <1>11

LEMMA HitFacts ==
    ASSUME IInv, NEW c \in Conns, Hit(c)
    PROVE  \E ip, w0 : /\ HitsInv' /\ HitDone(ip, w0) /\ HitSeen(ip, w0)
                       /\ metrics' # metrics => Count(ip, w0)' > Limit
  <1>1. kind' = kind /\ clock' = clock /\ failed' = failed /\ Limit > 0 /\ Counting(c)
    BY DEF Hit, Asking
  <1>2. PICK ip, w0 : /\ HitsInv' /\ HitDone(ip, w0) /\ HitMade(ip, w0)
                      /\ <<ip, w0>> = <<conns[c].ip, WindowOf(conns[c].now)>>
                      /\ CountOf(hits', conns[c].ip, conns[c].now) = Count(ip, w0)'
    BY <1>1, CountingFacts
  <1>3. PICK n \in Nat : n = Count(ip, w0)'
    BY <1>2 DEF HitMade
  <1>4. PICK over : over = Over(CountOf(hits', conns[c].ip, conns[c].now))
    OBVIOUS
  <1>5. hits' = StoreHit(conns[c].ip, conns[c].now)
    BY <1>1 DEF Counting
  <1>6. /\ passed' = [passed EXCEPT ![<<conns[c].ip, WindowOf(conns[c].now)>>] =
                        @ + IF over THEN 0 ELSE 1]
        /\ ~over => metrics' = metrics
    BY <1>4, <1>5 DEF Hit
  <1>7. over <=> n > Limit
    BY <1>2, <1>3, <1>4 DEF Over
  <1>8. PICK one \in Nat : one = IF n > Limit THEN 0 ELSE 1
    OBVIOUS
  <1>9. passed' = [passed EXCEPT ![<<ip, w0>>] = @ + one]
    <2>1. (IF over THEN 0 ELSE 1) = one
      BY <1>7, <1>8
    <2> QED  BY ONLY <1>2, <1>6, <2>1
  <1>10. passed \in [Slots -> Nat] /\ failed \in Nat /\ Limit \in Nat
    BY RateAssumption DEF IInv, TypeInv
  <1>11. /\ passed' \in [Slots -> Nat]
         /\ \A x \in Slots : passed'[x] = IF x = <<ip, w0>> THEN passed[x] + one ELSE passed[x]
    BY ONLY <1>8, <1>9, <1>10, Bump
  <1>12. one = IF Count(ip, w0)' <= Limit THEN 1 ELSE 0
    BY <1>3, <1>8, <1>10
  <1>13. HitPaid(ip, w0)
    BY <1>1, <1>10, <1>11, <1>12 DEF HitPaid
  <1> QED  BY <1>2, <1>3, <1>6, <1>7, <1>13 DEF HitSeen

(* What every hit does, whatever becomes of its answer.                    *)
LEMMA CountedStep ==
    ASSUME IInv, NEW ip, NEW w0, HitsInv', HitDone(ip, w0), HitSeen(ip, w0),
           NEW c \in Conns, NEW k, ConnOk(k), conns' = [conns EXCEPT ![c] = k]
    PROVE  IInv'
  <1>1. HitMade(ip, w0) /\ HitPaid(ip, w0)
    BY DEF HitSeen
  <1>2. CountsTruly' /\ Budgets'
    BY <1>1, HitCountsTruly, HitBudgets
  <1>3. DOMAIN conns' = Conns /\ \A d \in Conns : ConnOk(conns[d])'
    BY <1>1, ConnStep DEF IInv, HitMade
  <1>4. late' \in Nat
    <2>1. late' = late + 1 \/ late' = late
      BY <1>1 DEF HitMade, IInv, TypeInv
    <2> QED  BY <2>1 DEF IInv, TypeInv
  <1>5. TypeInv'
    BY <1>1, <1>3, <1>4 DEF IInv, TypeInv, HitMade, HitPaid
  <1> QED  BY <1>2, <1>5 DEF IInv

LEMMA HitStep ==
    ASSUME IInv, NEW c \in Conns, Hit(c)
    PROVE  IInv'
  <1>1. PICK ip, w0 : HitsInv' /\ HitDone(ip, w0) /\ HitSeen(ip, w0)
    BY HitFacts
  <1>2. PICK k : ConnOk(k) /\ conns' = [conns EXCEPT ![c] = k]
    BY ConnRecords DEF Hit, IInv, Pass
  <1> QED  BY <1>1, <1>2, CountedStep

(* The store fails: one more is let through, and may have been counted.    *)
LEMMA StoreFailsStep ==
    ASSUME IInv, NEW c \in Conns, StoreFails(c)
    PROVE  IInv'
  <1>1. /\ kind' = kind /\ clock' = clock /\ Limit > 0
        /\ failed' = failed + 1
        /\ passed' = [passed EXCEPT ![<<conns[c].ip, WindowOf(conns[c].now)>>] = @ + 1]
        /\ conns' = [conns EXCEPT ![c] = Pass(conns[c])]
    BY DEF StoreFails, Asking
  <1>2. PICK k : k = Pass(conns[c]) /\ ConnOk(k)
    BY ConnRecords DEF IInv
  <1>3. DOMAIN conns' = Conns /\ \A d \in Conns : ConnOk(conns[d])'
    BY <1>1, <1>2, ConnStep DEF IInv
  <1>4. PICK p : /\ p = <<conns[c].ip, WindowOf(conns[c].now)>>
                 /\ passed' = [passed EXCEPT ![p] = @ + 1]
    BY <1>1
  <1>5. passed \in [Slots -> Nat] /\ 1 \in Nat /\ failed \in Nat /\ clock \in Nat
    BY DEF IInv, TypeInv
  <1>6. /\ passed' \in [Slots -> Nat]
        /\ \A x \in Slots : passed'[x] = IF x = p THEN passed[x] + 1 ELSE passed[x]
    BY ONLY <1>4, <1>5, Bump
  <1>7. /\ failed' \in Nat /\ failed' >= failed /\ clock' \in Nat /\ clock' >= clock
        /\ \A x \in Slots : \/ passed'[x] = passed[x] /\ failed' >= failed
                            \/ passed'[x] = passed[x] + 1 /\ failed' = failed + 1
    BY <1>1, <1>5, <1>6
  <1>8. CASE UNCHANGED counts
    <2>1. hits' = hits /\ tried' = tried /\ late' = late
      BY <1>8 DEF counts
    <2> QED  BY <1>1, <1>3, <1>6, <1>7, <2>1, QuietStep
  <1>9. CASE Counting(c)
    <2>1. PICK ip, w0 : /\ HitsInv' /\ HitDone(ip, w0) /\ HitMade(ip, w0)
                        /\ <<ip, w0>> = p
      BY <1>1, <1>4, <1>9, CountingFacts
    <2>2. \A x \in Slots :
            IF x = p THEN passed'[x] - failed' <= passed[x] - failed + 0
                     ELSE passed'[x] = passed[x]
      BY <1>1, <1>5, <1>6
    <2>3. HitPaid(ip, w0)
      <3>1. PICK one \in Nat : one = IF Count(ip, w0)' <= Limit THEN 1 ELSE 0
        OBVIOUS
      <3>2. \A x \in Slots :
              IF x = <<ip, w0>> THEN passed'[x] - failed' <= passed[x] - failed + one
                                ELSE passed'[x] = passed[x]
        BY <1>5, <1>6, <1>7, <2>1, <2>2
      <3> QED  BY <1>1, <1>6, <1>7, <3>1, <3>2 DEF HitPaid
    <2> QED  BY <1>1, <1>2, <2>1, <2>3, CountedStep DEF HitSeen
  <1> QED  BY <1>8, <1>9 DEF StoreFails, Unanswered

(* The handler is dropped: nothing is let through.                         *)
LEMMA VanishStep ==
    ASSUME IInv, NEW c \in Conns, Vanish(c)
    PROVE  IInv'
  <1>1. /\ kind' = kind /\ clock' = clock /\ failed' = failed /\ passed' = passed
        /\ conns' = [conns EXCEPT ![c] = Free] /\ ConnOk(Free)
    BY ConnRecords DEF Vanish, IInv
  <1>2. CASE UNCHANGED counts
    BY <1>1, <1>2, ConnOnly
  <1>3. CASE Asking(c) /\ Counting(c)
    <2>1. PICK ip, w0 : HitsInv' /\ HitDone(ip, w0) /\ HitMade(ip, w0)
      BY <1>1, <1>3, CountingFacts
    <2>2. passed \in [Slots -> Nat] /\ failed \in Nat /\ Limit > 0
      BY <1>3 DEF IInv, TypeInv, Asking
    <2>3. PICK one \in Nat : one = IF Count(ip, w0)' <= Limit THEN 1 ELSE 0
      OBVIOUS
    <2>4. \A x \in Slots : passed'[x] - failed' <= passed[x] - failed + one
      BY <1>1, <2>2
    <2>5. HitPaid(ip, w0)
      BY <1>1, <2>2, <2>3, <2>4 DEF HitPaid
    <2> QED  BY <1>1, <2>1, <2>5, CountedStep DEF HitSeen
  <1> QED  BY <1>2, <1>3 DEF Vanish, Unanswered

LEMMA TickStep ==
    ASSUME IInv, Tick
    PROVE  IInv'
  <1>1. /\ UNCHANGED <<kind, hits, conns, tried, late, passed, failed>>
        /\ clock' = clock + 1 /\ clock \in Nat
    BY DEF Tick, IInv, TypeInv, counts
  <1>2. ASSUME NEW d \in Conns PROVE ConnOk(conns[d])'
    <2>1. PICK A, V, I : conns[d] \in [at : A, via : V, ip : I, now : 0 .. clock]
      BY DEF IInv, TypeInv, ConnOk
    <2>2. conns'[d] \in [at : A, via : V, ip : I, now : 0 .. clock']
      BY <1>1, <2>1
    <2> QED  BY <2>2 DEF ConnOk
  <1>3. /\ DOMAIN conns' = Conns /\ passed' \in [Slots -> Nat] /\ failed' \in Nat
        /\ clock' \in Nat /\ clock' >= clock
        /\ \A x \in Slots : passed'[x] = passed[x] /\ failed' >= failed
    BY <1>1 DEF IInv, TypeInv
  <1> QED  BY <1>1, <1>2, <1>3, QuietStep

(* The other actions write one connection.                                 *)
LEMMA OtherSteps ==
    ASSUME IInv, NEW c \in Conns,
           \/ Request(c) \/ Frame(c) \/ Unlimited(c) \/ NotAMessage(c)
           \/ \E result \in Results, gone \in BOOLEAN : Receive(c, result, gone)
           \/ OpenSession(c) \/ EndSession(c)
    PROVE  IInv'
  <1>1. UNCHANGED <<kind, clock, passed, failed, counts>>
    BY DEF Request, Frame, Ask, Unlimited, NotAMessage, Receive, OpenSession, EndSession
  <1>2. \E k : ConnOk(k) /\ conns' = [conns EXCEPT ![c] = k]
    <2>1. CASE Request(c)
      <3>1. PICK via, ip : conns' =
              [conns EXCEPT ![c] =
                 [[Free EXCEPT !.via = via, !.ip = ip] EXCEPT !.at = "asking", !.now = clock]]
        BY <2>1 DEF Request, Ask
      <3> QED  BY <3>1, ConnRecords DEF IInv
    <2>2. CASE Frame(c)
      <3>1. conns' = [conns EXCEPT ![c] =
              [[conns[c] EXCEPT !.via = "websocket"] EXCEPT !.at = "asking", !.now = clock]]
        BY <2>2 DEF Frame, Ask
      <3> QED  BY <3>1, ConnRecords DEF IInv
    <2>3. CASE Unlimited(c)
      <3>1. conns' = [conns EXCEPT ![c] = Pass(conns[c])]
        BY <2>3 DEF Unlimited
      <3> QED  BY <3>1, ConnRecords DEF IInv
    <2>4. CASE NotAMessage(c)
      BY <2>4, ConnRecords DEF NotAMessage, IInv
    <2>5. CASE \E result \in Results, gone \in BOOLEAN : Receive(c, result, gone)
      <3>1. \/ conns' = [conns EXCEPT ![c] = Free]
            \/ conns' = [conns EXCEPT ![c] = [conns[c] EXCEPT !.at = "open"]]
        BY <2>5 DEF Receive
      <3> QED  BY <3>1, ConnRecords DEF IInv
    <2>6. CASE OpenSession(c)
      <3>1. \/ conns' = [conns EXCEPT ![c] = Free]
            \/ conns' = [conns EXCEPT ![c].at = "open", ![c].via = "websocket"]
        BY <2>6 DEF OpenSession
      <3>2. [conns EXCEPT ![c].at = "open", ![c].via = "websocket"]
              = [conns EXCEPT ![c] = [conns[c] EXCEPT !.at = "open", !.via = "websocket"]]
        BY DEF IInv, TypeInv
      <3> QED  BY <3>1, <3>2, ConnRecords DEF IInv
    <2>7. CASE EndSession(c)
      BY <2>7, ConnRecords DEF EndSession, IInv
    <2> QED  BY <2>1, <2>2, <2>3, <2>4, <2>5, <2>6, <2>7
  <1> QED  BY <1>1, <1>2, ConnOnly

-----------------------------------------------------------------------------
(* The theorems.                                                           *)

LEMMA Initially == Init => IInv
  <1> SUFFICES ASSUME Init PROVE IInv
    OBVIOUS
  <1>1. DOMAIN hits = {}
    BY DEF Init, NoHits
  <1>2. clock = 0 /\ late = 0 /\ failed = 0 /\ 0 \in 0 .. clock
    BY DEF Init
  <1>3. Free \in [at : {"free"}, via : {"http"}, ip : {NoIp}, now : 0 .. clock]
    BY <1>2 DEF Free
  <1>4. ConnOk(Free)
    BY <1>3 DEF ConnOk
  <1>5. TypeInv
    BY <1>4 DEF Init, TypeInv, Slots
  <1>6. \A ip, w : ~Counted(ip, w)
    BY <1>1 DEF Counted
  <1>7. ASSUME NEW ip \in Clients, NEW w \in Windows PROVE BudgetAt(ip, w)
    <2>1. passed[<<ip, w>>] = 0
      BY DEF Init
    <2>2. Limit * late = 0
      BY <1>2, RateAssumption
    <2> QED  BY <1>2, <1>6, <2>1, <2>2 DEF BudgetAt
  <1> QED  BY <1>1, <1>5, <1>6, <1>7 DEF IInv, HitsInv, CountsTruly, Budgets

LEMMA Stutter ==
    ASSUME IInv, UNCHANGED vars
    PROVE  IInv'
  <1>1. UNCHANGED <<kind, clock, hits, conns, passed, tried, late, failed>>
    BY DEF vars, counts
  <1>2. \A d \in Conns : ConnOk(conns[d])'
    BY <1>1 DEF IInv, TypeInv, ConnOk
  <1>3. /\ DOMAIN conns' = Conns /\ passed' \in [Slots -> Nat] /\ failed' \in Nat
        /\ clock' \in Nat /\ clock' >= clock
        /\ \A x \in Slots : passed'[x] = passed[x] /\ failed' >= failed
    BY <1>1 DEF IInv, TypeInv
  <1> QED  BY <1>1, <1>2, <1>3, QuietStep

(* IInv is an invariant of the front: the counters of either store and the *)
(* budgets they keep (routes.rs over_limit, hit of store/redis.rs and      *)
(* store/memory.rs).                                                       *)
THEOREM Invariance == Spec => []IInv
  <1>1. ASSUME IInv, [Next]_vars PROVE IInv'
    <2>1. ASSUME NEW c \in Conns, Hit(c) PROVE IInv'
      BY <1>1, <2>1, HitStep
    <2>2. ASSUME NEW c \in Conns, StoreFails(c) PROVE IInv'
      BY <1>1, <2>2, StoreFailsStep
    <2>3. ASSUME NEW c \in Conns, Vanish(c) PROVE IInv'
      BY <1>1, <2>3, VanishStep
    <2>4. CASE Tick
      BY <1>1, <2>4, TickStep
    <2>5. CASE UNCHANGED vars
      BY <1>1, <2>5, Stutter
    <2> QED  BY <1>1, <2>1, <2>2, <2>3, <2>4, <2>5, OtherSteps DEF Next
  <1> QED  BY <1>1, Initially, PTL DEF Spec

(* WithinBudget: whatever the limit, the number of clients and connections *)
(* and the store, over_limit lets an address no more through in a window   *)
(* than rate_limit, but for late hits and failures of the store.           *)
THEOREM BudgetHolds == Spec => []WithinBudget
  <1>1. ASSUME IInv PROVE WithinBudget
    <2> SUFFICES ASSUME NEW ip \in Clients, NEW w \in Windows
                 PROVE  passed[<<ip, w>>] <= Limit * (1 + late) + failed
      BY DEF WithinBudget
    <2>1. PICK B \in Nat : B = Limit * late /\ Limit * (1 + late) = B + Limit
      BY <1>1, BudgetType DEF IInv, TypeInv
    <2>2. PICK p \in Nat : p = passed[<<ip, w>>]
      BY <1>1 DEF IInv, TypeInv, Slots
    <2>3. failed \in Nat /\ Limit \in Nat
      BY <1>1, RateAssumption DEF IInv, TypeInv
    <2>4. Counted(ip, w) => Capped(Count(ip, w)) \in Nat /\ Capped(Count(ip, w)) <= Limit
      BY <1>1, <2>3 DEF IInv, HitsInv, Counted, Count, Capped
    <2>5. BudgetAt(ip, w)
      BY <1>1 DEF IInv, Budgets
    <2>6. p <= B + Limit + failed
      BY <2>1, <2>2, <2>3, <2>4, <2>5 DEF BudgetAt
    <2> QED  BY <2>1, <2>2, <2>6
  <1> QED  BY <1>1, Invariance, PTL

(* OnlyOverusersRefused: over_limit refuses only who has itself sent more  *)
(* than rate_limit in that window, on either store and however late hits   *)
(* come.                                                                   *)
THEOREM OverusersOnly == Spec => OnlyOverusersRefused
  <1> DEFINE A == \A x \in Clients \X Windows :
                    metrics'.rate_limited # metrics.rate_limited /\ tried'[x] > tried[x]
                      => tried'[x] > Limit
  <1>1. ASSUME IInv, IInv', [Next]_vars PROVE A
    <2> SUFFICES ASSUME NEW x \in Slots, tried'[x] > tried[x],
                        metrics'.rate_limited # metrics.rate_limited
                 PROVE  tried'[x] > Limit
      BY DEF Slots
    <2>1. tried[x] \in Nat /\ tried'[x] \in Nat /\ Limit \in Nat
      BY <1>1, RateAssumption DEF IInv, TypeInv
    <2>2. tried' # tried /\ metrics' # metrics
      BY <2>1
    <2>3. PICK c \in Conns : Hit(c)
      <3>1. \/ tried' = tried \/ metrics' = metrics
            \/ \E c \in Conns : Hit(c)
        BY <1>1 DEF Next, vars, counts, StoreFails, Tick, Vanish, Request, Frame, Ask,
                    Unlimited, NotAMessage, Receive, OpenSession, EndSession
      <3> QED  BY <2>2, <3>1
    <2>4. PICK ip, w0 : /\ HitsInv' /\ HitDone(ip, w0) /\ HitSeen(ip, w0)
                        /\ Count(ip, w0)' > Limit
      BY <1>1, <2>2, <2>3, HitFacts
    <2>5. x = <<ip, w0>> /\ Count(ip, w0)' \in Nat
      BY <2>1, <2>4 DEF HitSeen, HitMade
    <2>6. Count(ip, w0)' <= tried'[<<ip, w0>>]
      <3>1. ip \in Clients /\ w0 \in Windows
        BY <2>5 DEF Slots
      <3> QED  BY <1>1, <2>4, <3>1 DEF IInv, CountsTruly, HitDone
    <2> QED  BY <2>1, <2>4, <2>5, <2>6
  <1>2. ASSUME IInv, IInv', [Next]_vars PROVE [A]_vars
    BY <1>1, <1>2
  <1>3. Spec => [][A]_vars
    BY <1>2, Invariance, PTL DEF Spec
  <1> QED  BY <1>3 DEF OnlyOverusersRefused

-----------------------------------------------------------------------------
(* The metrics.                                                            *)

MetricsSet ==
    [messages : [Vias -> [Outcomes -> Nat]], rate_limited : Nat, forwards_refused : Nat,
     live_sessions : Int]

Messages(m) ==
    m.messages["http"]["accepted"] + m.messages["http"]["reply"]
      + m.messages["http"]["rejected"] + m.messages["websocket"]["accepted"]
      + m.messages["websocket"]["reply"] + m.messages["websocket"]["rejected"]
Rejected(m) == m.messages["http"]["rejected"] + m.messages["websocket"]["rejected"]

Busy(conn) == conn.at \in {"asking", "passed"}
Live(conn) == conn.at # "free" /\ conn.via = "websocket"
One(b) == IF b THEN 1 ELSE 0

(* Only sessions are open.                                                 *)
ConnKind(conn) ==
    /\ conn.at \in {"free", "asking", "passed", "open"}
    /\ conn.via \in Vias \union {"upgrade"}
    /\ conn.at = "open" => conn.via = "websocket"

(* Requests that end uncounted, and the gauge without those that died.     *)
Ended == done + lost
Gauge == metrics.live_sessions - dead

MetricsInv ==
    /\ metrics \in MetricsSet /\ asked \in Nat
    /\ done \in Nat /\ lost \in Nat /\ dead \in Nat
    /\ \A c \in Conns : ConnKind(conns[c])
    /\ MetricsTruthful

(* One element comes or goes.                                              *)
LEMMA CardSwap ==
    ASSUME NEW S, NEW T, IsFiniteSet(S), NEW c, S \ {c} = T \ {c}
    PROVE  /\ IsFiniteSet(T) /\ Cardinality(S) \in Nat /\ Cardinality(T) \in Nat
           /\ Cardinality(T) - One(c \in T) = Cardinality(S) - One(c \in S)
  <1> DEFINE U == S \ {c}
  <1>1. /\ IsFiniteSet(U) /\ Cardinality(S) \in Nat
        /\ Cardinality(U) = IF c \in S THEN Cardinality(S) - 1 ELSE Cardinality(S)
    BY FS_RemoveElement, FS_CardinalityType
  <1>2. Cardinality(U) \in Nat /\ c \notin U
    BY <1>1, FS_CardinalityType
  <1>3. CASE c \in T
    <2>1. T = U \union {c}
      BY <1>3
    <2>2. IsFiniteSet(T) /\ Cardinality(T) = Cardinality(U) + 1
      BY <1>1, <1>2, <2>1, FS_AddElement
    <2> QED  BY <1>1, <1>2, <1>3, <2>2 DEF One
  <1>4. CASE c \notin T
    <2>1. T = U
      BY <1>4
    <2> QED  BY <1>1, <1>2, <1>4, <2>1 DEF One
  <1> QED  BY <1>3, <1>4

(* What is in flight, and what is live, when one connection is written.    *)
LEMMA CardMoves ==
    ASSUME IsFiniteSet(Conns), TypeInv, NEW c \in Conns, NEW k, conns' = [conns EXCEPT ![c] = k]
    PROVE  LET S == {d \in Conns : Busy(conns[d])}
               L == {d \in Conns : Live(conns[d])}
           IN /\ Cardinality(S) \in Nat /\ Cardinality(S)' \in Nat
              /\ Cardinality(L) \in Nat /\ Cardinality(L)' \in Nat
              /\ Cardinality(S)' - One(Busy(k)) = Cardinality(S) - One(Busy(conns[c]))
              /\ Cardinality(L)' - One(Live(k)) = Cardinality(L) - One(Live(conns[c]))
  <1>1. conns'[c] = k /\ \A d \in Conns : d # c => conns'[d] = conns[d]
    BY DEF TypeInv
  <1>2. PICK S : S = {d \in Conns : Busy(conns[d])}
    OBVIOUS
  <1>3. PICK S2 : S2 = {d \in Conns : Busy(conns'[d])}
    OBVIOUS
  <1>4. PICK L : L = {d \in Conns : Live(conns[d])}
    OBVIOUS
  <1>5. PICK L2 : L2 = {d \in Conns : Live(conns'[d])}
    OBVIOUS
  <1>6. S \ {c} = S2 \ {c} /\ L \ {c} = L2 \ {c}
    BY <1>1, <1>2, <1>3, <1>4, <1>5
  <1>7. IsFiniteSet(S) /\ IsFiniteSet(L)
    BY <1>2, <1>4, FS_Subset
  <1>8. /\ Cardinality(S) \in Nat /\ Cardinality(S2) \in Nat
        /\ Cardinality(S2) - One(c \in S2) = Cardinality(S) - One(c \in S)
    BY <1>6, <1>7, CardSwap
  <1>9. /\ Cardinality(L) \in Nat /\ Cardinality(L2) \in Nat
        /\ Cardinality(L2) - One(c \in L2) = Cardinality(L) - One(c \in L)
    BY <1>6, <1>7, CardSwap
  <1>10. /\ One(c \in S) = One(Busy(conns[c])) /\ One(c \in S2) = One(Busy(k))
         /\ One(c \in L) = One(Live(conns[c])) /\ One(c \in L2) = One(Live(k))
    BY <1>1, <1>2, <1>3, <1>4, <1>5 DEF One
  <1> QED  BY <1>2, <1>3, <1>4, <1>5, <1>8, <1>9, <1>10 DEF Busy, Live

LEMMA MetricsTypes ==
    ASSUME NEW m \in MetricsSet
    PROVE  /\ Messages(m) \in Nat /\ Rejected(m) \in Nat
           /\ m.rate_limited \in Nat /\ m.forwards_refused \in Nat /\ m.live_sessions \in Int
  BY DEF MetricsSet, Messages, Rejected, Vias, Outcomes

(* Each step accounts for what it starts and what it ends.                 *)
LEMMA MetricsStep ==
    ASSUME IsFiniteSet(Conns), TypeInv, MetricsInv, NEW c \in Conns, NEW k, ConnKind(k),
           conns' = [conns EXCEPT ![c] = k],
           metrics' \in MetricsSet, asked' \in Nat, done' \in Nat, lost' \in Nat, dead' \in Nat,
           asked' - Messages(metrics') - metrics'.rate_limited - Ended' - One(Busy(k))
             = asked - Messages(metrics) - metrics.rate_limited - Ended - One(Busy(conns[c])),
           Gauge' - One(Live(k)) = Gauge - One(Live(conns[c])),
           metrics'.forwards_refused - Rejected(metrics')
             <= metrics.forwards_refused - Rejected(metrics)
    PROVE  MetricsInv'
  <1>1. \A d \in Conns : conns'[d] = k \/ conns'[d] = conns[d]
    BY DEF TypeInv
  <1>2. \A d \in Conns : ConnKind(conns'[d])
    BY <1>1 DEF MetricsInv
  <1>3. PICK s, s2, l, l2 :
          /\ s = Cardinality({d \in Conns : Busy(conns[d])})
          /\ s2 = Cardinality({d \in Conns : Busy(conns'[d])})
          /\ l = Cardinality({d \in Conns : Live(conns[d])})
          /\ l2 = Cardinality({d \in Conns : Live(conns'[d])})
    OBVIOUS
  <1>4. /\ s \in Nat /\ s2 \in Nat /\ l \in Nat /\ l2 \in Nat
        /\ s2 - One(Busy(k)) = s - One(Busy(conns[c]))
        /\ l2 - One(Live(k)) = l - One(Live(conns[c]))
    BY <1>3, CardMoves
  <1>5. /\ asked = Messages(metrics) + metrics.rate_limited + done + lost + s
        /\ metrics.live_sessions = l + dead
        /\ metrics.forwards_refused <= Rejected(metrics)
    BY <1>3 DEF MetricsInv, MetricsTruthful, Messages, Rejected, Busy, Live
  <1>6. \A b : One(b) \in Nat
    BY DEF One
  <1>7. /\ Messages(metrics) \in Nat /\ Messages(metrics') \in Nat
        /\ Rejected(metrics) \in Nat /\ Rejected(metrics') \in Nat
        /\ metrics.rate_limited \in Nat /\ metrics'.rate_limited \in Nat
        /\ metrics.forwards_refused \in Nat /\ metrics'.forwards_refused \in Nat
        /\ metrics.live_sessions \in Int /\ metrics'.live_sessions \in Int
        /\ asked \in Nat /\ done \in Nat /\ lost \in Nat /\ dead \in Nat
    BY MetricsTypes DEF MetricsInv
  <1>8. /\ asked' = Messages(metrics') + metrics'.rate_limited + done' + lost' + s2
        /\ metrics'.live_sessions = l2 + dead'
        /\ metrics'.forwards_refused <= Rejected(metrics')
    <2>1. PICK bk, bc, lk, lc \in Nat : /\ bk = One(Busy(k)) /\ bc = One(Busy(conns[c]))
                                        /\ lk = One(Live(k)) /\ lc = One(Live(conns[c]))
      BY <1>6
    <2>2. s2 - bk = s - bc /\ l2 - lk = l - lc
      BY <1>4, <2>1
    <2>3. PICK m, m2, r, r2 \in Nat :
            /\ m = Messages(metrics) /\ m2 = Messages(metrics')
            /\ r = metrics.rate_limited /\ r2 = metrics'.rate_limited
      BY <1>7
    <2>4. asked' = m2 + r2 + done' + lost' + s2
      <3>1. PICK a, a2, d, d2, v, v2 \in Nat :
              a = asked /\ a2 = asked' /\ d = done /\ d2 = done' /\ v = lost /\ v2 = lost'
        BY <1>7
      <3>2. a2 - m2 - r2 - (d2 + v2) - bk = a - m - r - (d + v) - bc
        BY <2>1, <2>3, <3>1 DEF Ended
      <3>3. a = m + r + d + v + s /\ s \in Nat /\ s2 \in Nat
        BY <1>4, <1>5, <2>3, <3>1
      <3>4. s2 - bk = s - bc
        BY <2>2
      <3>5. a2 = m2 + r2 + d2 + v2 + s2
        <4>1. /\ a \in Int /\ a2 \in Int /\ d \in Int /\ d2 \in Int /\ m \in Int /\ m2 \in Int
              /\ r \in Int /\ r2 \in Int /\ bk \in Int /\ bc \in Int /\ s \in Int /\ s2 \in Int
              /\ v \in Int /\ v2 \in Int
          BY <3>3
        <4> QED  BY ONLY <3>2, <3>3, <3>4, <4>1
      <3> QED  BY <3>1, <3>5
    <2>5. metrics'.live_sessions = l2 + dead'
      <3>1. PICK g, g2 \in Int : g = metrics.live_sessions /\ g2 = metrics'.live_sessions
        BY <1>7
      <3>2. PICK x, x2 \in Nat : x = dead /\ x2 = dead'
        BY <1>7
      <3>3. g2 - x2 - lk = g - x - lc /\ g = l + x
        BY <1>5, <2>1, <3>1, <3>2 DEF Gauge
      <3>4. l \in Nat /\ l2 \in Nat /\ lk \in Nat /\ lc \in Nat
        BY <1>4
      <3>5. g2 = l2 + x2
        BY ONLY <2>2, <3>1, <3>2, <3>3, <3>4
      <3> QED  BY <3>1, <3>2, <3>5
    <2>6. metrics'.forwards_refused <= Rejected(metrics')
      <3>1. PICK f, f2, j, j2 \in Nat :
              /\ f = metrics.forwards_refused /\ f2 = metrics'.forwards_refused
              /\ j = Rejected(metrics) /\ j2 = Rejected(metrics')
        BY <1>7
      <3>2. f2 - j2 <= f - j /\ f <= j
        BY <1>5, <3>1
      <3>3. f2 <= j2
        BY <3>2
      <3> QED  BY <3>1, <3>3
    <2> QED  BY <2>3, <2>4, <2>5, <2>6
  <1>9. MetricsTruthful'
    BY <1>3, <1>8 DEF MetricsTruthful, Messages, Rejected, Busy, Live
  <1> QED  BY <1>2, <1>9 DEF MetricsInv, ConnKind

(* A message counted by its outcome: one more, refused only if rejected.   *)
Tallied(m, via, o, n) == [m EXCEPT !.messages[via][o] = @ + 1, !.forwards_refused = @ + n]

LEMMA CountMessage ==
    ASSUME NEW m \in MetricsSet, NEW via \in Vias, NEW o \in Outcomes, NEW n \in {0, 1},
           n = 1 => o = "rejected",
           NEW new, new = Tallied(m, via, o, n)
    PROVE  /\ new \in MetricsSet
           /\ Messages(new) = Messages(m) + 1
           /\ new.rate_limited = m.rate_limited /\ new.live_sessions = m.live_sessions
           /\ new.forwards_refused - Rejected(new) <= m.forwards_refused - Rejected(m)
  <1>1. PICK all \in [Vias -> [Outcomes -> Nat]] : all = m.messages
    BY DEF MetricsSet
  <1>2. PICK row \in [Outcomes -> Nat] : row = all[via]
    OBVIOUS
  <1>3. PICK row2 : row2 = [row EXCEPT ![o] = @ + 1]
    OBVIOUS
  <1>4. row2 \in [Outcomes -> Nat] /\ \A p \in Outcomes : row2[p] = IF p = o THEN row[p] + 1
                                                                     ELSE row[p]
    BY <1>3
  <1>5. PICK all2 : all2 = [all EXCEPT ![via] = row2]
    OBVIOUS
  <1>6. all2 \in [Vias -> [Outcomes -> Nat]] /\ \A v \in Vias : all2[v] = IF v = via THEN row2
                                                                           ELSE all[v]
    BY <1>4, <1>5
  <1>7. PICK f \in Nat : f = m.forwards_refused
    BY DEF MetricsSet
  <1>8. new = [m EXCEPT !.messages = all2, !.forwards_refused = f + n]
    <2>1. n \in Nat
      OBVIOUS
    <2>2. new = [m EXCEPT !.messages = [m.messages EXCEPT ![via] = [m.messages[via] EXCEPT
                                                                     ![o] = @ + 1]],
                          !.forwards_refused = m.forwards_refused + n]
      BY <2>1 DEF MetricsSet, Tallied
    <2>3. [m.messages[via] EXCEPT ![o] = @ + 1] = row2
      BY ONLY <1>1, <1>2, <1>3
    <2>4. [m.messages EXCEPT ![via] = [m.messages[via] EXCEPT ![o] = @ + 1]] = all2
      BY ONLY <1>1, <1>5, <2>3
    <2> QED  BY ONLY <1>7, <2>2, <2>4
  <1>9. /\ new \in MetricsSet /\ new.messages = all2 /\ new.forwards_refused = f + n
        /\ new.rate_limited = m.rate_limited /\ new.live_sessions = m.live_sessions
    <2>1. m \in MetricsSet /\ f + n \in Nat
      OBVIOUS
    <2> QED  BY ONLY <1>6, <1>8, <2>1 DEF MetricsSet
  <1>10. Messages(new) = Messages(m) + 1 /\ Rejected(new) = Rejected(m) + One(o = "rejected")
    <2>1. all["http"] \in [Outcomes -> Nat] /\ all["websocket"] \in [Outcomes -> Nat]
      BY DEF Vias
    <2>2. \/ via = "http" /\ all2["http"] = row2 /\ all2["websocket"] = all["websocket"]
          \/ via = "websocket" /\ all2["websocket"] = row2 /\ all2["http"] = all["http"]
      BY <1>6 DEF Vias
    <2>3. /\ row2["accepted"] = row["accepted"] + One(o = "accepted")
          /\ row2["reply"] = row["reply"] + One(o = "reply")
          /\ row2["rejected"] = row["rejected"] + One(o = "rejected")
      BY <1>4 DEF Outcomes, One
    <2>4. One(o = "accepted") + One(o = "reply") + One(o = "rejected") = 1
      BY DEF Outcomes, One
    <2>5. PICK x, y, z \in Nat : /\ x = One(o = "accepted") /\ y = One(o = "reply")
                                 /\ z = One(o = "rejected")
      BY DEF One
    <2>6. PICK ha, hr, hj, wa, wr, wj \in Nat :
            /\ ha = all["http"]["accepted"] /\ wa = all["websocket"]["accepted"]
            /\ hr = all["http"]["reply"] /\ wr = all["websocket"]["reply"]
            /\ hj = all["http"]["rejected"] /\ wj = all["websocket"]["rejected"]
      BY <2>1 DEF Outcomes
    <2>7. Messages(m) = ha + hr + hj + wa + wr + wj /\ Rejected(m) = hj + wj
      BY <1>1, <2>6 DEF Messages, Rejected
    <2>8. CASE via = "http"
      <3>1. /\ all2["http"]["accepted"] = ha + x /\ all2["websocket"]["accepted"] = wa
            /\ all2["http"]["reply"] = hr + y /\ all2["websocket"]["reply"] = wr
            /\ all2["http"]["rejected"] = hj + z /\ all2["websocket"]["rejected"] = wj
        BY <1>2, <2>2, <2>3, <2>5, <2>6, <2>8
      <3>2. Messages(new) = (ha + x) + (hr + y) + (hj + z) + wa + wr + wj
        BY <1>9, <3>1 DEF Messages
      <3>3. Rejected(new) = (hj + z) + wj
        BY <1>9, <3>1 DEF Rejected
      <3> QED  BY <2>4, <2>5, <2>7, <3>2, <3>3
    <2>9. CASE via = "websocket"
      <3>1. /\ all2["http"]["accepted"] = ha /\ all2["websocket"]["accepted"] = wa + x
            /\ all2["http"]["reply"] = hr /\ all2["websocket"]["reply"] = wr + y
            /\ all2["http"]["rejected"] = hj /\ all2["websocket"]["rejected"] = wj + z
        BY <1>2, <2>2, <2>3, <2>5, <2>6, <2>9
      <3>2. Messages(new) = ha + hr + hj + (wa + x) + (wr + y) + (wj + z)
        BY <1>9, <3>1 DEF Messages
      <3>3. Rejected(new) = hj + (wj + z)
        BY <1>9, <3>1 DEF Rejected
      <3> QED  BY <2>4, <2>5, <2>7, <3>2, <3>3
    <2> QED  BY <2>8, <2>9 DEF Vias
  <1>11. new.forwards_refused - Rejected(new) <= m.forwards_refused - Rejected(m)
    <2>1. PICK j \in Nat : j = Rejected(m)
      BY MetricsTypes
    <2>2. PICK z \in Nat : z = One(o = "rejected") /\ n <= z
      BY DEF One
    <2>3. (f + n) - (j + z) <= f - j
      BY <2>2
    <2> QED  BY <1>7, <1>9, <1>10, <2>1, <2>2, <2>3
  <1> QED  BY <1>9, <1>10, <1>11

(* A session that ends, and a request that is limited.                     *)
LEMMA CloseMetrics ==
    ASSUME NEW m \in MetricsSet, NEW via, NEW new, new = CloseSession(m, via)
    PROVE  /\ new \in MetricsSet /\ Messages(new) = Messages(m) /\ Rejected(new) = Rejected(m)
           /\ new.rate_limited = m.rate_limited /\ new.forwards_refused = m.forwards_refused
           /\ new.live_sessions = m.live_sessions - One(via = "websocket")
  <1>1. CASE via = "websocket"
    <2>1. new = [m EXCEPT !.live_sessions = @ - 1]
      BY <1>1 DEF CloseSession
    <2>2. /\ new \in MetricsSet /\ new.messages = m.messages
          /\ new.rate_limited = m.rate_limited /\ new.forwards_refused = m.forwards_refused
          /\ new.live_sessions = m.live_sessions - 1
      BY <2>1 DEF MetricsSet
    <2> QED  BY <1>1, <2>2 DEF Messages, Rejected, One
  <1>2. CASE via # "websocket"
    BY <1>2 DEF CloseSession, One, MetricsSet
  <1> QED  BY <1>1, <1>2

LEMMA LimitMetrics ==
    ASSUME NEW m \in MetricsSet, NEW new, new = [m EXCEPT !.rate_limited = @ + 1]
    PROVE  /\ new \in MetricsSet /\ Messages(new) = Messages(m) /\ Rejected(new) = Rejected(m)
           /\ new.rate_limited = m.rate_limited + 1
           /\ new.forwards_refused = m.forwards_refused
           /\ new.live_sessions = m.live_sessions
  <1>1. /\ new \in MetricsSet /\ new.messages = m.messages
        /\ new.rate_limited = m.rate_limited + 1
        /\ new.forwards_refused = m.forwards_refused /\ new.live_sessions = m.live_sessions
    BY DEF MetricsSet
  <1> QED  BY <1>1 DEF Messages, Rejected

(* What the handlers write into a connection.                              *)
LEMMA ConnFields ==
    ASSUME TypeInv, NEW at, NEW via, NEW ip, NEW c \in Conns
    PROVE  /\ Free.at = "free" /\ Free.via = "http"
           /\ LET k == [[Free EXCEPT !.via = via, !.ip = ip] EXCEPT !.at = at, !.now = clock]
              IN  k.at = at /\ k.via = via
           /\ Pass(conns[c]).at = "passed" /\ Pass(conns[c]).via = conns[c].via
           /\ LET k == [conns[c] EXCEPT !.at = at]
              IN  k.at = at /\ k.via = conns[c].via
           /\ LET k == [conns[c] EXCEPT !.at = at, !.via = via]
              IN  k.at = at /\ k.via = via
           /\ LET k == [[conns[c] EXCEPT !.via = via] EXCEPT !.at = at, !.now = clock]
              IN  k.at = at /\ k.via = via
  <1>1. PICK A, V, I : conns[c] \in [at : A, via : V, ip : I, now : 0 .. clock]
    BY DEF TypeInv, ConnOk
  <1>2. Free.at = "free" /\ Free.via = "http"
    BY DEF Free
  <1>3. LET k == [[Free EXCEPT !.via = via, !.ip = ip] EXCEPT !.at = at, !.now = clock]
        IN  k.at = at /\ k.via = via
    BY DEF Free
  <1>4. Pass(conns[c]).at = "passed" /\ Pass(conns[c]).via = conns[c].via
    BY <1>1 DEF Pass
  <1>5. LET k == [conns[c] EXCEPT !.at = at]
        IN  k.at = at /\ k.via = conns[c].via
    BY <1>1
  <1>6. LET k == [conns[c] EXCEPT !.at = at, !.via = via]
        IN  k.at = at /\ k.via = via
    BY <1>1
  <1>7. LET k == [[conns[c] EXCEPT !.via = via] EXCEPT !.at = at, !.now = clock]
        IN  k.at = at /\ k.via = via
    BY <1>1
  <1> QED  BY <1>2, <1>3, <1>4, <1>5, <1>6, <1>7

(* The same in numbers: what begins (da) is what is counted (dm, dr, dd)   *)
(* and what comes to be in flight; what goes live (dl) is on the gauge;    *)
(* nothing vanishes.                                                       *)
Moves(c, k, da, dm, dr, dd, dl) ==
    /\ ConnKind(k) /\ conns' = [conns EXCEPT ![c] = k]
    /\ metrics' \in MetricsSet /\ UNCHANGED vanished
    /\ da \in Nat /\ dm \in Nat /\ dr \in Nat /\ dd \in Nat /\ dl \in Int
    /\ asked' = asked + da /\ Messages(metrics') = Messages(metrics) + dm
    /\ metrics'.rate_limited = metrics.rate_limited + dr /\ done' = done + dd
    /\ metrics'.live_sessions = metrics.live_sessions + dl
    /\ da + One(Busy(conns[c])) = dm + dr + dd + One(Busy(k))
    /\ One(Live(k)) = One(Live(conns[c])) + dl
    /\ metrics'.forwards_refused - Rejected(metrics')
         <= metrics.forwards_refused - Rejected(metrics)

LEMMA MetricsMove ==
    ASSUME IsFiniteSet(Conns), TypeInv, MetricsInv, NEW c \in Conns, NEW k,
           NEW da, NEW dm, NEW dr, NEW dd, NEW dl, Moves(c, k, da, dm, dr, dd, dl)
    PROVE  MetricsInv'
  <1> USE DEF Moves
  <1>0. PICK b, b2, l, l2 \in Nat : /\ b = One(Busy(conns[c])) /\ b2 = One(Busy(k))
                                    /\ l = One(Live(conns[c])) /\ l2 = One(Live(k))
    BY DEF One
  <1>1. PICK m, r, a, d, v \in Nat : /\ m = Messages(metrics) /\ r = metrics.rate_limited
                                     /\ a = asked /\ d = done /\ v = lost /\ v = lost'
    BY MetricsTypes DEF MetricsInv, vanished
  <1>2. PICK g \in Int, x \in Nat : g = metrics.live_sessions /\ x = dead /\ x = dead'
    BY MetricsTypes DEF MetricsInv, vanished
  <1>3. (a + da) - (m + dm) - (r + dr) - (d + dd + v) - b2 = a - m - r - (d + v) - b
    <2>1. /\ a \in Int /\ da \in Int /\ m \in Int /\ dm \in Int /\ r \in Int /\ dr \in Int
          /\ d \in Int /\ dd \in Int /\ v \in Int /\ b \in Int /\ b2 \in Int /\ da + b = dm + dr + dd + b2
      BY <1>0
    <2> QED  BY ONLY <2>1
  <1>4. (g + dl) - x - l2 = g - x - l
    <2>1. x \in Int /\ g \in Int /\ dl \in Int /\ l \in Int /\ l2 \in Int /\ l2 = l + dl
      BY <1>0
    <2> QED  BY ONLY <2>1
  <1>5. asked' - Messages(metrics') - metrics'.rate_limited - Ended' - One(Busy(k))
          = asked - Messages(metrics) - metrics.rate_limited - Ended - One(Busy(conns[c]))
    BY <1>0, <1>1, <1>3 DEF Ended
  <1>6. Gauge' - One(Live(k)) = Gauge - One(Live(conns[c]))
    BY <1>0, <1>2, <1>4 DEF Gauge
  <1>7. asked' \in Nat /\ done' \in Nat /\ lost' \in Nat /\ dead' \in Nat
    BY DEF MetricsInv, vanished
  <1> QED  BY <1>5, <1>6, <1>7, MetricsStep

(* What a connection's place says of it.                                   *)
LEMMA Places ==
    ASSUME NEW conn
    PROVE  /\ conn.at \in {"asking", "passed"} => One(Busy(conn)) = 1
           /\ conn.at \in {"free", "open"} => One(Busy(conn)) = 0
           /\ conn.at = "free" \/ conn.via # "websocket" => One(Live(conn)) = 0
           /\ conn.at \in {"asking", "passed", "open"} /\ conn.via = "websocket"
                => One(Live(conn)) = 1
  BY DEF One, Busy, Live

(* Nothing is counted, and the connection stays what it is.                *)
LEMMA MetricsKept ==
    ASSUME IsFiniteSet(Conns), TypeInv, MetricsInv, NEW c \in Conns,
           conns[c].at = "asking", conns' = [conns EXCEPT ![c] = Pass(conns[c])],
           UNCHANGED <<metrics, asked, done, vanished>>
    PROVE  MetricsInv'
  <1>1. PICK k : k = Pass(conns[c])
    OBVIOUS
  <1>2. k.at = "passed" /\ k.via = conns[c].via
    BY <1>1, ConnFields
  <1>3. ConnKind(k)
    BY <1>2 DEF MetricsInv, ConnKind
  <1>4. PICK l \in Nat : l = One(Live(conns[c])) /\ l = One(Live(k))
    BY <1>2 DEF One, Live
  <1>5. One(Busy(conns[c])) = 1 /\ One(Busy(k)) = 1
    BY <1>2, Places
  <1>6. PICK m, r, a, d, f, j \in Nat : /\ m = Messages(metrics) /\ r = metrics.rate_limited
                                        /\ a = asked /\ d = done
                                        /\ f = metrics.forwards_refused /\ j = Rejected(metrics)
    BY MetricsTypes DEF MetricsInv
  <1>7. /\ asked' = asked + 0 /\ Messages(metrics') = Messages(metrics) + 0
        /\ metrics'.rate_limited = metrics.rate_limited + 0 /\ done' = done + 0
        /\ metrics'.forwards_refused - Rejected(metrics')
             <= metrics.forwards_refused - Rejected(metrics)
    BY <1>6
  <1>8. metrics' \in MetricsSet /\ metrics'.live_sessions = metrics.live_sessions + 0
    BY MetricsTypes DEF MetricsInv
  <1>9. /\ 0 + One(Busy(conns[c])) = 0 + 0 + 0 + One(Busy(k))
        /\ One(Live(k)) = One(Live(conns[c])) + 0
    BY <1>4, <1>5
  <1>10. Moves(c, k, 0, 0, 0, 0, 0)
    BY <1>1, <1>3, <1>7, <1>8, <1>9 DEF Moves
  <1> QED  BY <1>10, MetricsMove

(* The counters are numbers.                                               *)
LEMMA MetricsNumbers ==
    ASSUME MetricsInv
    PROVE  /\ asked = asked + 0 /\ done = done + 0 /\ Messages(metrics) = Messages(metrics) + 0
           /\ metrics.rate_limited = metrics.rate_limited + 0
           /\ metrics.live_sessions = metrics.live_sessions + 0
           /\ metrics.forwards_refused - Rejected(metrics)
                <= metrics.forwards_refused - Rejected(metrics)
           /\ metrics \in MetricsSet
  <1>1. PICK m, r, a, d, f, j \in Nat : /\ m = Messages(metrics) /\ r = metrics.rate_limited
                                        /\ a = asked /\ d = done
                                        /\ f = metrics.forwards_refused /\ j = Rejected(metrics)
    BY MetricsTypes DEF MetricsInv
  <1>2. metrics.live_sessions = metrics.live_sessions + 0
    BY MetricsTypes DEF MetricsInv
  <1> QED  BY <1>1, <1>2 DEF MetricsInv

LEMMA AskMetrics ==
    ASSUME IsFiniteSet(Conns), TypeInv, MetricsInv, NEW c \in Conns, Request(c) \/ Frame(c)
    PROVE  MetricsInv'
  <1>1. asked' = asked + 1 /\ done' = done /\ metrics' = metrics /\ UNCHANGED vanished
    BY DEF Request, Frame, Ask
  <1>2. PICK k : /\ conns' = [conns EXCEPT ![c] = k] /\ k.at = "asking"
                 /\ \/ conns[c].at = "free" /\ k.via \in {"http", "upgrade"}
                    \/ conns[c].at = "open" /\ k.via = "websocket"
    <2>1. CASE Request(c)
      <3>1. PICK via \in {"http", "upgrade"}, header \in Headers, peer \in Clients :
              conns' = [conns EXCEPT ![c] =
                 [[Free EXCEPT !.via = via, !.ip = ClientIp(header, peer)] EXCEPT
                    !.at = "asking", !.now = clock]]
        BY <2>1 DEF Request, Ask
      <3>2. PICK ip : ip = ClientIp(header, peer)
        OBVIOUS
      <3>3. PICK k : k = [[Free EXCEPT !.via = via, !.ip = ip] EXCEPT
                            !.at = "asking", !.now = clock]
        OBVIOUS
      <3>4. k.at = "asking" /\ k.via = via
        BY <3>3, ConnFields
      <3> QED  BY <2>1, <3>1, <3>2, <3>3, <3>4 DEF Request
    <2>2. CASE Frame(c)
      <3>1. PICK k : k = [[conns[c] EXCEPT !.via = "websocket"] EXCEPT
                            !.at = "asking", !.now = clock]
        OBVIOUS
      <3>2. k.at = "asking" /\ k.via = "websocket"
        BY <3>1, ConnFields
      <3> QED  BY <2>2, <3>1, <3>2 DEF Frame, Ask
    <2> QED  BY <2>1, <2>2
  <1>3. ConnKind(k)
    BY <1>2 DEF ConnKind, Vias
  <1>4. conns[c].at = "open" => conns[c].via = "websocket"
    BY DEF MetricsInv, ConnKind
  <1>5. One(Busy(conns[c])) = 0 /\ One(Busy(k)) = 1 /\ One(Live(k)) = One(Live(conns[c])) + 0
    <2>1. One(Busy(conns[c])) = 0 /\ One(Busy(k)) = 1
      BY <1>2, Places
    <2>2. \/ One(Live(conns[c])) = 0 /\ One(Live(k)) = 0
          \/ One(Live(conns[c])) = 1 /\ One(Live(k)) = 1
      BY <1>2, <1>4, Places
    <2> QED  BY <2>1, <2>2
  <1>6. 1 + One(Busy(conns[c])) = 0 + 0 + 0 + One(Busy(k))
    BY <1>5
  <1>7. Moves(c, k, 1, 0, 0, 0, 0)
    BY <1>1, <1>2, <1>3, <1>5, <1>6, MetricsNumbers DEF Moves
  <1> QED  BY <1>7, MetricsMove

LEMMA HitMetrics ==
    ASSUME IsFiniteSet(Conns), TypeInv, MetricsInv, NEW c \in Conns, Hit(c)
    PROVE  MetricsInv'
  <1>1. /\ conns[c].at = "asking" /\ asked' = asked /\ done' = done /\ UNCHANGED vanished
        /\ \/ /\ conns' = [conns EXCEPT ![c] = Free]
              /\ metrics' = CloseSession([metrics EXCEPT !.rate_limited = @ + 1], conns[c].via)
           \/ conns' = [conns EXCEPT ![c] = Pass(conns[c])] /\ metrics' = metrics
    BY DEF Hit, Asking
  <1>2. CASE /\ conns' = [conns EXCEPT ![c] = Free]
             /\ metrics' = CloseSession([metrics EXCEPT !.rate_limited = @ + 1], conns[c].via)
    <2>1. PICK mid : mid = [metrics EXCEPT !.rate_limited = @ + 1]
      OBVIOUS
    <2>2. /\ mid \in MetricsSet /\ Messages(mid) = Messages(metrics)
          /\ Rejected(mid) = Rejected(metrics)
          /\ mid.rate_limited = metrics.rate_limited + 1
          /\ mid.forwards_refused = metrics.forwards_refused
          /\ mid.live_sessions = metrics.live_sessions
      BY <2>1, LimitMetrics DEF MetricsInv
    <2>3. PICK via : via = conns[c].via
      OBVIOUS
    <2>4. PICK new : new = CloseSession(mid, via) /\ metrics' = new
      BY <1>2, <2>1, <2>3
    <2>5. /\ new \in MetricsSet /\ Messages(new) = Messages(mid) /\ Rejected(new) = Rejected(mid)
          /\ new.rate_limited = mid.rate_limited
          /\ new.forwards_refused = mid.forwards_refused
          /\ new.live_sessions = mid.live_sessions - One(via = "websocket")
      BY <2>2, <2>4, CloseMetrics
    <2>6. PICK dl \in Int : /\ dl = - One(Live(conns[c]))
                            /\ new.live_sessions = metrics.live_sessions + dl
                            /\ 0 = One(Live(conns[c])) + dl
      <3>1. One(via = "websocket") = One(Live(conns[c])) /\ One(Live(conns[c])) \in {0, 1}
        BY <1>1, <2>3 DEF One, Live
      <3>2. metrics.live_sessions \in Int
        BY MetricsTypes DEF MetricsInv
      <3>3. new.live_sessions = metrics.live_sessions - One(Live(conns[c]))
        BY <2>2, <2>5, <3>1
      <3> QED  BY <3>1, <3>2, <3>3
    <2>7. /\ One(Busy(conns[c])) = 1 /\ One(Busy(Free)) = 0 /\ One(Live(Free)) = 0
      BY <1>1, Places DEF Free
    <2>8. ConnKind(Free)
      BY DEF ConnKind, Free, Vias
    <2>9. 0 + One(Busy(conns[c])) = 0 + 1 + 0 + One(Busy(Free))
      BY <2>7
    <2>10. /\ metrics' \in MetricsSet
           /\ asked' = asked + 0 /\ Messages(metrics') = Messages(metrics) + 0
           /\ metrics'.rate_limited = metrics.rate_limited + 1 /\ done' = done + 0
           /\ metrics'.live_sessions = metrics.live_sessions + dl
           /\ metrics'.forwards_refused - Rejected(metrics')
                <= metrics.forwards_refused - Rejected(metrics)
      BY <1>1, <2>2, <2>4, <2>5, <2>6, MetricsNumbers
    <2>11. One(Live(Free)) = One(Live(conns[c])) + dl
      BY <2>6, <2>7
    <2>12. Moves(c, Free, 0, 0, 1, 0, dl)
      BY <1>1, <1>2, <2>8, <2>9, <2>10, <2>11 DEF Moves
    <2> QED  BY <2>12, MetricsMove
  <1>3. CASE conns' = [conns EXCEPT ![c] = Pass(conns[c])] /\ metrics' = metrics
    BY <1>1, <1>3, MetricsKept
  <1> QED  BY <1>1, <1>2, <1>3

(* A connection ends that is no session, and is counted as done.           *)
LEMMA DoneMetrics ==
    ASSUME IsFiniteSet(Conns), TypeInv, MetricsInv, NEW c \in Conns,
           NotAMessage(c) \/ OpenSession(c)
    PROVE  MetricsInv'
  <1>1. /\ conns[c].at = "passed" /\ conns[c].via \in {"http", "upgrade"}
        /\ asked' = asked /\ done' = done + 1 /\ UNCHANGED vanished
        /\ \/ conns' = [conns EXCEPT ![c] = Free] /\ metrics' = metrics
           \/ /\ conns' = [conns EXCEPT ![c].at = "open", ![c].via = "websocket"]
              /\ metrics' = [metrics EXCEPT !.live_sessions = @ + 1]
    BY DEF NotAMessage, OpenSession
  <1>2. One(Busy(conns[c])) = 1 /\ One(Live(conns[c])) = 0
    BY <1>1, Places
  <1>3. CASE conns' = [conns EXCEPT ![c] = Free] /\ metrics' = metrics
    <2>1. ConnKind(Free) /\ One(Busy(Free)) = 0 /\ One(Live(Free)) = 0
      BY Places DEF ConnKind, Free, Vias
    <2>2. /\ 0 + One(Busy(conns[c])) = 0 + 0 + 1 + One(Busy(Free))
          /\ One(Live(Free)) = One(Live(conns[c])) + 0
      BY <1>2, <2>1
    <2>3. Moves(c, Free, 0, 0, 0, 1, 0)
      BY <1>1, <1>3, <2>1, <2>2, MetricsNumbers DEF Moves
    <2> QED  BY <2>3, MetricsMove
  <1>4. CASE /\ conns' = [conns EXCEPT ![c].at = "open", ![c].via = "websocket"]
             /\ metrics' = [metrics EXCEPT !.live_sessions = @ + 1]
    <2>1. PICK k : k = [conns[c] EXCEPT !.at = "open", !.via = "websocket"]
      OBVIOUS
    <2>2. conns' = [conns EXCEPT ![c] = k]
      BY <1>4, <2>1 DEF TypeInv
    <2>3. k.at = "open" /\ k.via = "websocket"
      BY <2>1, ConnFields
    <2>4. ConnKind(k) /\ One(Busy(k)) = 0 /\ One(Live(k)) = 1
      BY <2>3, Places DEF ConnKind, Vias
    <2>5. /\ 0 + One(Busy(conns[c])) = 0 + 0 + 1 + One(Busy(k))
          /\ One(Live(k)) = One(Live(conns[c])) + 1
      BY <1>2, <2>4
    <2>6. /\ metrics' \in MetricsSet /\ metrics'.messages = metrics.messages
          /\ metrics'.rate_limited = metrics.rate_limited
          /\ metrics'.forwards_refused = metrics.forwards_refused
          /\ metrics'.live_sessions = metrics.live_sessions + 1
      BY <1>4 DEF MetricsInv, MetricsSet
    <2>7. Messages(metrics') = Messages(metrics) /\ Rejected(metrics') = Rejected(metrics)
      BY <2>6 DEF Messages, Rejected
    <2>8. /\ asked' = asked + 0 /\ Messages(metrics') = Messages(metrics) + 0
          /\ metrics'.rate_limited = metrics.rate_limited + 0
          /\ metrics'.forwards_refused - Rejected(metrics')
               <= metrics.forwards_refused - Rejected(metrics)
      BY <1>1, <2>6, <2>7, MetricsNumbers
    <2>9. Moves(c, k, 0, 0, 0, 1, 1)
      BY <1>1, <2>2, <2>4, <2>5, <2>6, <2>8 DEF Moves
    <2> QED  BY <2>9, MetricsMove
  <1> QED  BY <1>1, <1>3, <1>4

LEMMA EndMetrics ==
    ASSUME IsFiniteSet(Conns), TypeInv, MetricsInv, NEW c \in Conns, EndSession(c)
    PROVE  MetricsInv'
  <1>1. /\ conns[c].at = "open" /\ conns[c].via = "websocket"
        /\ conns' = [conns EXCEPT ![c] = Free] /\ asked' = asked /\ done' = done
        /\ UNCHANGED vanished
    BY DEF EndSession, MetricsInv, ConnKind
  <1>2. PICK new : new = CloseSession(metrics, "websocket") /\ metrics' = new
    BY DEF EndSession
  <1>3. /\ new \in MetricsSet /\ Messages(new) = Messages(metrics)
        /\ Rejected(new) = Rejected(metrics)
        /\ new.rate_limited = metrics.rate_limited
        /\ new.forwards_refused = metrics.forwards_refused
        /\ new.live_sessions = metrics.live_sessions - One("websocket" = "websocket")
    BY <1>2, CloseMetrics DEF MetricsInv
  <1>4. new.live_sessions = metrics.live_sessions + (-1)
    BY <1>3, MetricsTypes DEF MetricsInv, One
  <1>5. /\ ConnKind(Free) /\ One(Busy(Free)) = 0 /\ One(Live(Free)) = 0
        /\ One(Busy(conns[c])) = 0 /\ One(Live(conns[c])) = 1
    BY <1>1, Places DEF ConnKind, Free, Vias
  <1>6. /\ 0 + One(Busy(conns[c])) = 0 + 0 + 0 + One(Busy(Free))
        /\ One(Live(Free)) = One(Live(conns[c])) + (-1)
    BY <1>5
  <1>7. /\ asked' = asked + 0 /\ Messages(metrics') = Messages(metrics) + 0
        /\ metrics'.rate_limited = metrics.rate_limited + 0 /\ done' = done + 0
        /\ metrics'.forwards_refused - Rejected(metrics')
             <= metrics.forwards_refused - Rejected(metrics)
    BY <1>1, <1>2, <1>3, MetricsNumbers
  <1>8. Moves(c, Free, 0, 0, 0, 0, -1)
    BY <1>1, <1>2, <1>3, <1>4, <1>5, <1>6, <1>7 DEF Moves
  <1> QED  BY <1>8, MetricsMove

LEMMA ReceiveMetrics ==
    ASSUME IsFiniteSet(Conns), TypeInv, MetricsInv, NEW c \in Conns,
           NEW result \in Results, NEW gone \in BOOLEAN, Receive(c, result, gone)
    PROVE  MetricsInv'
  <1>1. PICK via : via = conns[c].via
    OBVIOUS
  <1>2. PICK o : o = OutcomeOf(result)
    OBVIOUS
  <1>3. PICK n : n = IF result \in {"bad_forward", "unknown_recipient", "queue_full"}
                     THEN 1 ELSE 0
    OBVIOUS
  <1>4. PICK mid : mid = Tallied(metrics, via, o, n)
    OBVIOUS
  <1>5. /\ conns[c].at = "passed" /\ via # "upgrade"
        /\ gone => via = "websocket" /\ result = "reply"
        /\ asked' = asked /\ done' = done /\ UNCHANGED vanished
    BY <1>1 DEF Receive
  <1>6. metrics' = IF gone THEN CloseSession(mid, via) ELSE mid
    BY <1>1, <1>2, <1>3, <1>4 DEF Receive, Tallied
  <1>7. conns' = [conns EXCEPT ![c] = IF via = "http" \/ gone THEN Free
                                      ELSE [conns[c] EXCEPT !.at = "open"]]
    BY <1>1 DEF Receive
  <1>8. via \in Vias /\ o \in Outcomes /\ n \in {0, 1} /\ (n = 1 => o = "rejected")
    BY <1>1, <1>2, <1>3, <1>5 DEF MetricsInv, ConnKind, OutcomeOf, Outcomes
  <1>9. /\ mid \in MetricsSet /\ Messages(mid) = Messages(metrics) + 1
        /\ mid.rate_limited = metrics.rate_limited
        /\ mid.live_sessions = metrics.live_sessions
        /\ mid.forwards_refused - Rejected(mid) <= metrics.forwards_refused - Rejected(metrics)
    BY <1>4, <1>8, CountMessage DEF MetricsInv
  <1>10. One(Busy(conns[c])) = 1 /\ One(Live(conns[c])) = One(via = "websocket")
    BY <1>1, <1>5 DEF One, Busy, Live
  <1>11. PICK k : /\ conns' = [conns EXCEPT ![c] = k] /\ ConnKind(k) /\ One(Busy(k)) = 0
                  /\ One(Live(k)) = IF via = "websocket" /\ ~gone THEN 1 ELSE 0
    <2>1. CASE via = "http" \/ gone
      <3>1. conns' = [conns EXCEPT ![c] = Free]
        BY <1>7, <2>1
      <3>2. ConnKind(Free) /\ One(Busy(Free)) = 0 /\ One(Live(Free)) = 0
        BY Places DEF ConnKind, Free, Vias
      <3>3. ~(via = "websocket" /\ ~gone)
        BY <2>1
      <3> QED  BY <3>1, <3>2, <3>3
    <2>2. CASE ~(via = "http" \/ gone)
      <3>1. PICK k : k = [conns[c] EXCEPT !.at = "open"]
        OBVIOUS
      <3>2. conns' = [conns EXCEPT ![c] = k]
        BY <1>7, <2>2, <3>1
      <3>3. via = "websocket" /\ ~gone
        BY <1>8, <2>2 DEF Vias
      <3>4. k.at = "open" /\ k.via = "websocket"
        <4>1. PICK A, V, I : conns[c] \in [at : A, via : V, ip : I, now : 0 .. clock]
          BY DEF TypeInv, ConnOk
        <4>2. k.at = "open" /\ k.via = conns[c].via
          BY <3>1, <4>1
        <4> QED  BY <1>1, <3>3, <4>2
      <3>5. ConnKind(k) /\ One(Busy(k)) = 0 /\ One(Live(k)) = 1
        BY <3>4, Places DEF ConnKind, Vias
      <3> QED  BY <3>2, <3>3, <3>5
    <2> QED  BY <2>1, <2>2
  <1>12. PICK dl \in Int : /\ dl = IF gone THEN -1 ELSE 0
                           /\ One(Live(k)) = One(Live(conns[c])) + dl
    BY <1>5, <1>10, <1>11 DEF One
  <1>13. /\ metrics' \in MetricsSet /\ Messages(metrics') = Messages(metrics) + 1
         /\ metrics'.rate_limited = metrics.rate_limited + 0
         /\ metrics'.live_sessions = metrics.live_sessions + dl
         /\ metrics'.forwards_refused - Rejected(metrics')
              <= metrics.forwards_refused - Rejected(metrics)
    <2>1. CASE gone
      <3>1. PICK new : new = CloseSession(mid, via) /\ metrics' = new
        BY <1>6, <2>1
      <3>2. /\ new \in MetricsSet /\ Messages(new) = Messages(mid)
            /\ Rejected(new) = Rejected(mid)
            /\ new.rate_limited = mid.rate_limited
            /\ new.forwards_refused = mid.forwards_refused
            /\ new.live_sessions = mid.live_sessions - One(via = "websocket")
        BY <1>9, <3>1, CloseMetrics
      <3>3. new.live_sessions = metrics.live_sessions + (-1)
        <4>1. One(via = "websocket") = 1 /\ metrics.live_sessions \in Int
          BY <1>5, <2>1, MetricsTypes DEF One, MetricsInv
        <4> QED  BY <1>9, <3>2, <4>1
      <3>4. dl = -1
        BY <1>12, <2>1
      <3> QED  BY <1>9, <3>1, <3>2, <3>3, <3>4, MetricsNumbers
    <2>2. CASE ~gone
      <3>1. dl = 0 /\ metrics' = mid
        BY <1>6, <1>12, <2>2
      <3> QED  BY <1>9, <3>1, MetricsNumbers
    <2> QED  BY <2>1, <2>2
  <1>14. 0 + One(Busy(conns[c])) = 1 + 0 + 0 + One(Busy(k))
    BY <1>10, <1>11
  <1>15. asked' = asked + 0 /\ done' = done + 0
    BY <1>5, MetricsNumbers
  <1>16. Moves(c, k, 0, 1, 0, 0, dl)
    BY <1>5, <1>11, <1>12, <1>13, <1>14, <1>15 DEF Moves
  <1> QED  BY <1>16, MetricsMove

LEMMA MetricsInitially ==
    ASSUME Init
    PROVE  MetricsInv
  <1>1. /\ metrics = NoMetrics /\ asked = 0 /\ done = 0 /\ lost = 0 /\ dead = 0
        /\ \A c \in Conns : conns[c] = Free
    BY DEF Init
  <1>2. /\ NoMetrics \in MetricsSet /\ NoMetrics.rate_limited = 0
        /\ NoMetrics.forwards_refused = 0 /\ NoMetrics.live_sessions = 0
    BY DEF NoMetrics, MetricsSet
  <1>3. Messages(NoMetrics) = 0 /\ Rejected(NoMetrics) = 0
    BY DEF NoMetrics, Messages, Rejected, Vias, Outcomes
  <1>4. /\ Free.at = "free" /\ Free.via = "http" /\ ConnKind(Free)
    BY DEF Free, ConnKind, Vias
  <1>5. /\ {c \in Conns : conns[c].at \in {"asking", "passed"}} = {}
        /\ {c \in Conns : conns[c].at # "free" /\ conns[c].via = "websocket"} = {}
    BY <1>1, <1>4
  <1>6. Cardinality({}) = 0
    BY FS_EmptySet
  <1>7. MetricsTruthful
    <2>1. /\ asked = Messages(metrics) + metrics.rate_limited + done + lost
                       + Cardinality({c \in Conns : conns[c].at \in {"asking", "passed"}})
          /\ metrics.live_sessions =
               Cardinality({c \in Conns : conns[c].at # "free" /\ conns[c].via = "websocket"})
                 + dead
          /\ metrics.forwards_refused <= Rejected(metrics)
      <3>1. /\ asked = 0 /\ done = 0 /\ lost = 0 /\ dead = 0 /\ Messages(metrics) = 0 /\ Rejected(metrics) = 0
            /\ metrics.rate_limited = 0 /\ metrics.live_sessions = 0
            /\ metrics.forwards_refused = 0
        BY ONLY <1>1, <1>2, <1>3
      <3>2. /\ Cardinality({c \in Conns : conns[c].at \in {"asking", "passed"}}) = 0
            /\ Cardinality({c \in Conns : conns[c].at # "free" /\ conns[c].via = "websocket"}) = 0
        BY <1>5, <1>6
      <3> QED  BY ONLY <3>1, <3>2
    <2> QED  BY ONLY <2>1 DEF MetricsTruthful, Messages, Rejected
  <1> QED  BY <1>1, <1>2, <1>4, <1>7 DEF MetricsInv

(* A handler that is dropped, or a session that dies, is lost to the       *)
(* metrics, and is one that ended uncounted.                               *)
LEMMA VanishMetrics ==
    ASSUME IsFiniteSet(Conns), TypeInv, MetricsInv, NEW c \in Conns, Vanish(c)
    PROVE  MetricsInv'
  <1>1. /\ conns[c].at \in {"asking", "passed", "open"}
        /\ conns' = [conns EXCEPT ![c] = Free] /\ UNCHANGED <<metrics, asked, done>>
        /\ lost' = lost + IF conns[c].at = "open" THEN 0 ELSE 1
        /\ dead' = dead + IF conns[c].via = "websocket" THEN 1 ELSE 0
    BY DEF Vanish, Asking
  <1>2. ConnKind(Free) /\ One(Busy(Free)) = 0 /\ One(Live(Free)) = 0
    BY Places DEF ConnKind, Free, Vias
  <1>3. PICK b, l \in Nat : /\ b = One(Busy(conns[c])) /\ l = One(Live(conns[c]))
                            /\ lost' = lost + b /\ dead' = dead + l
    <2>1. One(Busy(conns[c])) = IF conns[c].at = "open" THEN 0 ELSE 1
      BY <1>1 DEF One, Busy
    <2>2. One(Live(conns[c])) = IF conns[c].via = "websocket" THEN 1 ELSE 0
      BY <1>1 DEF One, Live
    <2>3. One(Busy(conns[c])) \in Nat /\ One(Live(conns[c])) \in Nat
      BY DEF One
    <2> QED  BY <1>1, <2>1, <2>2, <2>3
  <1>4. PICK m, r, a, d, v, x, f, j \in Nat :
          /\ m = Messages(metrics) /\ r = metrics.rate_limited /\ a = asked /\ d = done
          /\ v = lost /\ x = dead /\ f = metrics.forwards_refused /\ j = Rejected(metrics)
    BY MetricsTypes DEF MetricsInv
  <1>5. PICK g \in Int : g = metrics.live_sessions
    BY MetricsTypes DEF MetricsInv
  <1>6. asked' - Messages(metrics') - metrics'.rate_limited - Ended' - One(Busy(Free))
          = asked - Messages(metrics) - metrics.rate_limited - Ended - One(Busy(conns[c]))
    <2>1. a - m - r - (d + (v + b)) - 0 = a - m - r - (d + v) - b
      BY <1>4
    <2> QED  BY <1>1, <1>2, <1>3, <1>4, <2>1 DEF Ended
  <1>7. Gauge' - One(Live(Free)) = Gauge - One(Live(conns[c]))
    <2>1. g - (x + l) - 0 = g - x - l
      BY <1>4, <1>5
    <2> QED  BY <1>1, <1>2, <1>3, <1>4, <1>5, <2>1 DEF Gauge
  <1>8. /\ metrics' \in MetricsSet /\ asked' \in Nat /\ done' \in Nat
        /\ lost' \in Nat /\ dead' \in Nat
        /\ metrics'.forwards_refused - Rejected(metrics')
             <= metrics.forwards_refused - Rejected(metrics)
    BY <1>1, <1>3, <1>4 DEF MetricsInv
  <1> QED  BY <1>1, <1>2, <1>6, <1>7, <1>8, MetricsStep

(* MetricsTruthful: a message is counted once whatever way it leaves its   *)
(* handler in routes.rs, but for a handler that is dropped; the gauge of   *)
(* live sessions is their number and that of the sessions whose task died  *)
(* without close_session; for any number of connections.                   *)
THEOREM MetricsHold ==
    ASSUME IsFiniteSet(Conns)
    PROVE  Spec => []MetricsTruthful
  <1>1. Init => MetricsInv
    BY MetricsInitially
  <1>2. ASSUME IInv, MetricsInv, [Next]_vars PROVE MetricsInv'
    <2>1. TypeInv
      BY <1>2 DEF IInv
    <2>2. ASSUME NEW c \in Conns, Unlimited(c) \/ StoreFails(c) PROVE MetricsInv'
      <3>1. /\ conns[c].at = "asking" /\ conns' = [conns EXCEPT ![c] = Pass(conns[c])]
            /\ UNCHANGED <<metrics, asked, done, vanished>>
        BY <2>2 DEF Unlimited, StoreFails, Asking
      <3> QED  BY <1>2, <2>1, <3>1, MetricsKept
    <2>3. ASSUME NEW c \in Conns,
                 NEW result \in Results, NEW gone \in BOOLEAN, Receive(c, result, gone)
          PROVE  MetricsInv'
      BY <1>2, <2>1, <2>3, ReceiveMetrics
    <2>4. CASE UNCHANGED <<metrics, asked, done, conns, vanished>>
      BY <1>2, <2>4 DEF MetricsInv, MetricsTruthful, ConnKind, vanished
    <2>5. Tick \/ UNCHANGED vars => UNCHANGED <<metrics, asked, done, conns, vanished>>
      BY DEF Tick, vars
    <2>6. ASSUME NEW c \in Conns, Request(c) \/ Frame(c) PROVE MetricsInv'
      BY <1>2, <2>1, <2>6, AskMetrics
    <2>7. ASSUME NEW c \in Conns, Hit(c) PROVE MetricsInv'
      BY <1>2, <2>1, <2>7, HitMetrics
    <2>8. ASSUME NEW c \in Conns, NotAMessage(c) \/ OpenSession(c) PROVE MetricsInv'
      BY <1>2, <2>1, <2>8, DoneMetrics
    <2>9. ASSUME NEW c \in Conns, EndSession(c) PROVE MetricsInv'
      BY <1>2, <2>1, <2>9, EndMetrics
    <2>10. ASSUME NEW c \in Conns, Vanish(c) PROVE MetricsInv'
      BY <1>2, <2>1, <2>10, VanishMetrics
    <2> QED  BY <1>2, <2>2, <2>3, <2>4, <2>5, <2>6, <2>7, <2>8, <2>9, <2>10 DEF Next
  <1>3. MetricsInv => MetricsTruthful
    BY DEF MetricsInv
  <1> QED  BY <1>1, <1>2, <1>3, Invariance, PTL DEF Spec

-----------------------------------------------------------------------------
(* Start-up: the key file.                                                 *)

Steps == {"none", "check", "read", "open", "write", "rename", "store", "start",
          "bind", "serving", "exited"}

(* Past the key file: the steps of a process that has its keys.            *)
Keyed == {"store", "start", "bind", "serving"}

Files == Processes \union {None}

Process == [at : Steps, env : Environments \union {Idle.env},
            command : {"serve", "rotate-keys"}, fd : Files, keys : Files,
            epoch : Nat, tasks : SUBSET {"relay_retries", "cleanup", "pusher"}]

(* The types.                                                              *)
StartupType ==
    /\ path \in Files
    /\ tmp \in Files
    /\ content \in [Processes -> Files]
    /\ redisUp \in BOOLEAN
    /\ proc \in [Processes -> Process]
    /\ rotations \in Nat
    /\ overlapped \in BOOLEAN

(* A file has the name of the process that created it, which is past       *)
(* opening it, and one entry at most.                                      *)
FilesInv ==
    /\ path # None => path # tmp
    /\ \A p \in Processes : p \in {path, tmp} => proc[p].at \notin {"none", "check", "open"}

(* What a process has come to before it is where it is.                    *)
ProcInv ==
    \A p \in Processes :
      /\ proc[p].epoch <= rotations
      /\ proc[p].at \in Creating => proc[p].keys = p
      /\ proc[p].at \in {"write", "rename"} => proc[p].fd # None
      /\ proc[p].at = "read" => path # None
      /\ proc[p].at \in Keyed \union {"read"} => proc[p].command = "serve"

(* Unless two created keys at once: one that creates keys is alone with    *)
(* the temporary file, and, to serve, with no key file to replace.         *)
Alone ==
    ~overlapped =>
      \A p \in Processes : proc[p].at \in Creating =>
        /\ \A q \in Processes : proc[q].at \in Creating => q = p
        /\ proc[p].at \in {"write", "rename"} => tmp = proc[p].fd
        /\ proc[p].at = "rename" => content[tmp] = p
        /\ proc[p].command = "serve" => path = None

(* One that has its keys has those of the file, unless they were rotated.  *)
KeysOfFile ==
    ~overlapped =>
      \A p \in Processes : proc[p].at \in Keyed /\ proc[p].epoch = rotations
                             => path # None /\ proc[p].keys = content[path]

(* What has to hold of a process that goes on to new, the files left alone.*)
Sound(p, new) ==
    /\ new.at \notin {"none", "write", "rename"}
    /\ new.at \in {"check", "open"} => proc[p].at \in {"none", "check"}
    /\ new.epoch <= rotations
    /\ new.at = "open" => new.keys = p
    /\ new.at = "open" /\ new.command = "serve" => path = None
    /\ new.at = "read" => path # None
    /\ new.at \in Keyed \union {"read"} => new.command = "serve"
    /\ new.at \in Keyed /\ new.epoch = rotations /\ ~overlapped
         => path # None /\ new.keys = content[path]

(* The inductive invariant.                                                *)
StartupInv == StartupType /\ FilesInv /\ ProcInv /\ Alone /\ KeysOfFile /\ KeyFileWhole

-----------------------------------------------------------------------------
(* A process that stops.                                                   *)
Exited == [Idle EXCEPT !.at = "exited"]

LEMMA IdleFacts ==
    /\ Idle \in Process /\ Exited \in Process
    /\ Idle.at = "none" /\ Exited.at = "exited"
    /\ Idle.epoch = 0 /\ Exited.epoch = 0
<1> DEFINE e == [name \in {} |-> Unset]
<1> HIDE DEF e
<1>1. Idle = [at |-> "none", env |-> e, command |-> "serve", fd |-> None,
              keys |-> None, epoch |-> 0, tasks |-> {}]
  BY DEF Idle, e
<1>2. QED
  BY <1>1 DEF Exited, Process, Steps, Files

(* What Goto does, to the process that goes on and to the others.          *)
LEMMA GotoFacts ==
    ASSUME StartupType, NEW p \in Processes, NEW new \in Process, Goto(p, new)
    PROVE  /\ proc' \in [Processes -> Process]
           /\ proc'[p] = new
           /\ \A q \in Processes : q # p => proc'[q] = proc[q]
           /\ overlapped' \in BOOLEAN
           /\ ~overlapped' => ~overlapped
           /\ ~overlapped' /\ new.at \in Creating
                => \A q \in Processes : q # p => proc[q].at \notin Creating
BY DEF StartupType, Goto

(* Tasks are names.                                                        *)
LEMMA TasksType ==
    ASSUME NEW c PROVE Tasks(c) \in SUBSET {"relay_retries", "cleanup", "pusher"}
BY DEF Tasks

(* A step that leaves the files alone keeps the invariant.                 *)
LEMMA MoveStep ==
    ASSUME StartupInv, NEW p \in Processes, NEW new \in Process,
           Goto(p, new), Sound(p, new), redisUp' \in BOOLEAN,
           UNCHANGED <<path, tmp, content, rotations>>
    PROVE  StartupInv'
<1>1. /\ proc' \in [Processes -> Process]
      /\ proc'[p] = new
      /\ \A q \in Processes : q # p => proc'[q] = proc[q]
      /\ overlapped' \in BOOLEAN
      /\ ~overlapped' => ~overlapped
      /\ ~overlapped' /\ new.at \in Creating
           => \A q \in Processes : q # p => proc[q].at \notin Creating
  BY GotoFacts DEF StartupInv
<1>2. StartupType'
  BY <1>1 DEF StartupInv, StartupType
<1>3. FilesInv'
  BY <1>1 DEF StartupInv, FilesInv, Sound
<1>4. ProcInv'
  BY <1>1 DEF StartupInv, ProcInv, Sound, Creating, Config, Keyed
<1>5. Alone'
  BY <1>1 DEF StartupInv, Alone, Sound, Creating
<1>6. KeysOfFile' /\ KeyFileWhole'
  BY <1>1 DEF StartupInv, KeysOfFile, Sound, KeyFileWhole
<1>7. QED
  BY <1>2, <1>3, <1>4, <1>5, <1>6 DEF StartupInv

(* So does the end of a process.                                           *)
LEMMA ExitStep ==
    ASSUME StartupInv, NEW p \in Processes, Exit(p), redisUp' \in BOOLEAN,
           UNCHANGED <<path, tmp, content, rotations>>
    PROVE  StartupInv'
<1>1. Goto(p, Exited) /\ Exited \in Process
  BY IdleFacts DEF Exit, Exited
<1>2. Sound(p, Exited)
  BY IdleFacts DEF Sound, Keyed, StartupInv, StartupType
<1>3. QED
  BY <1>1, <1>2, MoveStep

-----------------------------------------------------------------------------
LEMMA LaunchStep ==
    ASSUME StartupInv, NEW p \in Processes, NEW command \in {"serve", "rotate-keys"},
           NEW env \in Environments, Launch(p, command, env)
    PROVE  StartupInv'
<1>1. redisUp' \in BOOLEAN /\ UNCHANGED <<path, tmp, content, rotations>>
  BY DEF Launch, StartupInv, StartupType
<1>2. CASE Valid(Settings(env))
  <2> DEFINE new == [Idle EXCEPT !.at = "check", !.command = command,
                       !.env = IF command = "serve" THEN env ELSE @]
  <2>1. Goto(p, new) /\ proc[p].at = "none"
    BY <1>2 DEF Launch
  <2>2. /\ new \in Process /\ new.at = "check" /\ new.command = command
        /\ new.epoch = 0
    BY IdleFacts DEF Process, Steps
  <2> HIDE DEF new
  <2>3. Sound(p, new)
    BY <1>2, <2>1, <2>2 DEF Sound, Keyed, StartupInv, StartupType
  <2>4. QED
    BY <1>1, <2>1, <2>2, <2>3, MoveStep
<1>3. CASE ~Valid(Settings(env))
  BY <1>1, <1>3, ExitStep DEF Launch
<1>4. QED
  BY <1>2, <1>3

LEMMA CheckStep == ASSUME StartupInv, NEW p \in Processes, Check(p) PROVE StartupInv'
<1>1. /\ redisUp' \in BOOLEAN /\ UNCHANGED <<path, tmp, content, rotations>>
      /\ proc[p].at = "check" /\ proc[p] \in Process
      /\ rotations \in Nat
  BY DEF Check, StartupInv, StartupType
<1>2. CASE proc[p].command = "rotate-keys" /\ path = None
  BY <1>1, <1>2, ExitStep DEF Check
<1>3. CASE proc[p].command = "serve" /\ path # None
  <2> DEFINE new == [proc[p] EXCEPT !.at = "read"]
  <2>1. Goto(p, new)
    BY <1>3 DEF Check
  <2>2. /\ new \in Process /\ new.at = "read" /\ new.command = "serve"
        /\ new.epoch = proc[p].epoch
    BY <1>1, <1>3 DEF Process, Steps
  <2> HIDE DEF new
  <2>3. Sound(p, new)
    BY <1>1, <1>3, <2>2 DEF Sound, Keyed, StartupInv, ProcInv, Config
  <2>4. QED
    BY <1>1, <2>1, <2>2, <2>3, MoveStep
<1>4. CASE /\ ~(proc[p].command = "rotate-keys" /\ path = None)
           /\ ~(proc[p].command = "serve" /\ path # None)
  <2> DEFINE new == [proc[p] EXCEPT !.at = "open", !.keys = p]
  <2>1. Goto(p, new)
    BY <1>4 DEF Check
  <2>2. /\ new \in Process /\ new.at = "open" /\ new.command = proc[p].command
        /\ new.epoch = proc[p].epoch /\ new.keys = p
    BY <1>1 DEF Process, Steps, Files
  <2> HIDE DEF new
  <2>3. Sound(p, new)
    BY <1>1, <1>4, <2>2 DEF Sound, Keyed, StartupInv, ProcInv, Config
  <2>4. QED
    BY <1>1, <2>1, <2>2, <2>3, MoveStep
<1>5. QED
  BY <1>2, <1>3, <1>4

LEMMA ReadStep == ASSUME StartupInv, NEW p \in Processes, Read(p) PROVE StartupInv'
<1>1. /\ redisUp' \in BOOLEAN /\ UNCHANGED <<path, tmp, content, rotations>>
      /\ proc[p].at = "read" /\ proc[p] \in Process
      /\ rotations \in Nat
  BY DEF Read, StartupInv, StartupType
<1>2. CASE content[path] = None
  BY <1>1, <1>2, ExitStep DEF Read
<1>3. CASE content[path] # None
  <2> DEFINE new == [proc[p] EXCEPT !.at = "store", !.keys = content[path],
                                    !.epoch = rotations]
  <2>1. Goto(p, new)
    BY <1>3 DEF Read
  <2>2. path \in Processes /\ content[path] \in Files
    BY <1>1 DEF StartupInv, ProcInv, StartupType, Files
  <2>3. /\ new \in Process /\ new.at = "store" /\ new.command = proc[p].command
        /\ new.epoch = rotations /\ new.keys = content[path]
    BY <1>1, <2>2 DEF Process, Steps
  <2> HIDE DEF new
  <2>4. Sound(p, new)
    BY <1>1, <2>3 DEF Sound, Keyed, StartupInv, ProcInv, Config
  <2>5. QED
    BY <1>1, <2>1, <2>3, <2>4, MoveStep
<1>4. QED
  BY <1>2, <1>3

(* The store, the tasks and the ports: a process that has its keys keeps   *)
(* them, or stops.                                                         *)
LEMMA ServeStep ==
    ASSUME StartupInv, NEW p \in Processes, OpenStore(p) \/ Start(p) \/ Bind(p)
    PROVE  StartupInv'
<1>1. /\ redisUp' \in BOOLEAN /\ UNCHANGED <<path, tmp, content, rotations>>
      /\ proc[p].at \in Keyed /\ proc[p] \in Process
      /\ rotations \in Nat
  BY DEF OpenStore, Start, Bind, StartupInv, StartupType, Keyed
<1>2. CASE Exit(p)
  BY <1>1, <1>2, ExitStep
<1>3. CASE ~Exit(p)
  <2>1. PICK new :
          /\ Goto(p, new)
          /\ \/ new = [proc[p] EXCEPT !.at = "start"]
             \/ new = [proc[p] EXCEPT !.at = "bind", !.tasks = Tasks(Config(p))]
             \/ new = [proc[p] EXCEPT !.at = "serving"]
    <3>1. CASE OpenStore(p)
      <4>1. Goto(p, [proc[p] EXCEPT !.at = "start"])
        BY <1>3, <3>1 DEF OpenStore
      <4>2. QED
        BY <4>1
    <3>2. CASE Start(p)
      <4>1. Goto(p, [proc[p] EXCEPT !.at = "bind", !.tasks = Tasks(Config(p))])
        BY <1>3, <3>2 DEF Start
      <4>2. QED
        BY <4>1
    <3>3. CASE Bind(p)
      <4>1. Goto(p, [proc[p] EXCEPT !.at = "serving"])
        BY <1>3, <3>3 DEF Bind
      <4>2. QED
        BY <4>1
    <3>4. QED
      BY <3>1, <3>2, <3>3
  <2>2. /\ new \in Process /\ new.at \in Keyed /\ new.command = proc[p].command
        /\ new.epoch = proc[p].epoch
        /\ new.keys = proc[p].keys
    <3> DEFINE tasks == Tasks(Config(p))
    <3> tasks \in SUBSET {"relay_retries", "cleanup", "pusher"}
      BY TasksType
    <3> HIDE DEF tasks
    <3>1. CASE new = [proc[p] EXCEPT !.at = "start"]
      BY <1>1, <3>1 DEF Process, Steps, Keyed
    <3>2. CASE new = [proc[p] EXCEPT !.at = "bind", !.tasks = tasks]
      BY <1>1, <3>2 DEF Process, Steps, Keyed, tasks
    <3>3. CASE new = [proc[p] EXCEPT !.at = "serving"]
      BY <1>1, <3>3 DEF Process, Steps, Keyed
    <3>4. QED
      BY <2>1, <3>1, <3>2, <3>3 DEF tasks
  <2>3. Sound(p, new)
    BY <1>1, <2>2 DEF Sound, Keyed, StartupInv, ProcInv, KeysOfFile, Config
  <2>4. QED
    BY <1>1, <2>1, <2>2, <2>3, MoveStep
<1>4. QED
  BY <1>2, <1>3

(* A file that is opened is the temporary one, or a new one: never the key *)
(* file.                                                                   *)
LEMMA OpenStep == ASSUME StartupInv, NEW p \in Processes, Open(p) PROVE StartupInv'
<1> DEFINE file == IF tmp = None THEN p ELSE tmp
           new == [proc[p] EXCEPT !.at = "write", !.fd = file]
<1>1. /\ tmp' = file /\ content' = [content EXCEPT ![file] = None]
      /\ Goto(p, new) /\ UNCHANGED <<path, redisUp, rotations>>
      /\ proc[p].at = "open" /\ proc[p] \in Process
  BY DEF Open, StartupInv, StartupType
<1>2. file \in Processes /\ file # path /\ file # None
  BY <1>1 DEF StartupInv, StartupType, FilesInv, Files, Processes, None
<1>3. file = p \/ proc[file].at \notin {"none", "check", "open"}
  BY <1>2 DEF StartupInv, FilesInv
<1> HIDE DEF file
<1>4. /\ new \in Process /\ new.at = "write" /\ new.command = proc[p].command
      /\ new.epoch = proc[p].epoch
      /\ new.keys = proc[p].keys /\ new.fd = file
  BY <1>1, <1>2 DEF Process, Steps, Files
<1> HIDE DEF new
<1>5. /\ proc' \in [Processes -> Process]
      /\ proc'[p] = new
      /\ \A q \in Processes : q # p => proc'[q] = proc[q]
      /\ overlapped' \in BOOLEAN
      /\ ~overlapped' => ~overlapped
      /\ ~overlapped' => \A q \in Processes : q # p => proc[q].at \notin Creating
  BY <1>1, <1>4, GotoFacts DEF StartupInv, Creating
<1>6. StartupType'
  BY <1>1, <1>2, <1>5 DEF StartupInv, StartupType, Files
<1>7. FilesInv'
  BY <1>1, <1>2, <1>3, <1>4, <1>5 DEF StartupInv, FilesInv
<1>8. ProcInv'
  BY <1>1, <1>2, <1>4, <1>5 DEF StartupInv, ProcInv, Creating, Config, Keyed
<1>9. Alone'
  BY <1>1, <1>2, <1>4, <1>5 DEF StartupInv, Alone, Creating
<1>10. KeysOfFile' /\ KeyFileWhole'
  <2>1. path # None => content'[path] = content[path]
    BY <1>1, <1>2 DEF StartupInv, StartupType, Files
  <2>2. QED
    BY <1>1, <1>4, <1>5, <2>1 DEF StartupInv, KeysOfFile, KeyFileWhole, Keyed
<1>11. QED
  BY <1>6, <1>7, <1>8, <1>9, <1>10 DEF StartupInv

LEMMA WriteStep == ASSUME StartupInv, NEW p \in Processes, Write(p) PROVE StartupInv'
<1> DEFINE new == [proc[p] EXCEPT !.at = "rename"]
<1>1. /\ content' = [content EXCEPT ![proc[p].fd] = p]
      /\ Goto(p, new) /\ UNCHANGED <<path, tmp, redisUp, rotations>>
      /\ proc[p].at = "write" /\ proc[p] \in Process
  BY DEF Write, StartupInv, StartupType, ProcInv, Creating
<1>2. proc[p].fd \in Processes
  BY <1>1 DEF StartupInv, ProcInv, Process, Files
<1>3. p # None
  BY StartupAssumption DEF Processes, None
<1>4. /\ new \in Process /\ new.at = "rename" /\ new.command = proc[p].command
      /\ new.epoch = proc[p].epoch
      /\ new.keys = proc[p].keys /\ new.fd = proc[p].fd
  BY <1>1, <1>2 DEF Process, Steps
<1> HIDE DEF new
<1>5. /\ proc' \in [Processes -> Process]
      /\ proc'[p] = new
      /\ \A q \in Processes : q # p => proc'[q] = proc[q]
      /\ overlapped' \in BOOLEAN
      /\ ~overlapped' => ~overlapped
      /\ ~overlapped' => \A q \in Processes : q # p => proc[q].at \notin Creating
  BY <1>1, <1>4, GotoFacts DEF StartupInv, Creating
<1>6. StartupType'
  BY <1>1, <1>2, <1>5 DEF StartupInv, StartupType, Files
<1>7. FilesInv'
  BY <1>1, <1>4, <1>5 DEF StartupInv, FilesInv
<1>8. ProcInv'
  BY <1>1, <1>4, <1>5 DEF StartupInv, ProcInv, Creating, Config, Keyed
<1>9. Alone'
  BY <1>1, <1>2, <1>4, <1>5 DEF StartupInv, StartupType, Alone, Creating
<1>10. KeysOfFile' /\ KeyFileWhole'
  <2>1. ~overlapped => proc[p].fd = tmp
    BY <1>1 DEF StartupInv, Alone, Creating
  <2>2. ~overlapped /\ path # None => content'[path] = content[path]
    BY <1>1, <1>2, <2>1 DEF StartupInv, StartupType, FilesInv, Files
  <2>3. QED
    BY <1>1, <1>4, <1>5, <2>2 DEF StartupInv, KeysOfFile, KeyFileWhole, Keyed
<1>11. QED
  BY <1>6, <1>7, <1>8, <1>9, <1>10 DEF StartupInv

(* The rename puts a whole set of keys in place, the first, or one that    *)
(* starts a new epoch: no process is left with the keys it replaces.       *)
LEMMA RenameStep == ASSUME StartupInv, NEW p \in Processes, Rename(p) PROVE StartupInv'
<1>1. /\ proc[p].at = "rename" /\ proc[p] \in Process
      /\ UNCHANGED <<content, redisUp>>
      /\ redisUp \in BOOLEAN /\ rotations \in Nat
  BY DEF Rename, StartupInv, StartupType
<1>2. CASE tmp = None
  BY <1>1, <1>2, ExitStep DEF Rename
<1>3. CASE tmp # None
  <2> DEFINE serve == proc[p].command = "serve"
             kept == [proc[p] EXCEPT !.at = "store", !.epoch = rotations]
  <2>1. PICK new \in Process :
          /\ Goto(p, new)
          /\ IF serve THEN /\ rotations' = rotations
                           /\ new.at = "store" /\ new.command = "serve"
                           /\ new.env = proc[p].env /\ new.keys = p
                           /\ new.epoch = rotations
             ELSE rotations' = rotations + 1 /\ new.at = "exited" /\ new.epoch = 0
    <3>1. CASE serve
      <4>1. Goto(p, kept) /\ rotations' = rotations
        BY <1>3, <3>1 DEF Rename
      <4>2. /\ kept \in Process /\ kept.at = "store" /\ kept.command = "serve"
            /\ kept.env = proc[p].env /\ kept.keys = proc[p].keys
            /\ kept.epoch = rotations
        BY <1>1, <3>1 DEF Process, Steps
      <4>3. proc[p].keys = p
        BY <1>1 DEF StartupInv, ProcInv, Creating
      <4>4. QED
        BY <3>1, <4>1, <4>2, <4>3
    <3>2. CASE ~serve
      <4>1. Goto(p, Exited) /\ rotations' = rotations + 1
        BY <1>3, <3>2 DEF Rename, Exit, Exited
      <4>2. QED
        BY <3>2, <4>1, IdleFacts
    <3>3. QED
      BY <3>1, <3>2
  <2>2. path' = tmp /\ tmp' = None
    BY <1>3 DEF Rename
  <2>3. tmp \in Processes /\ tmp # path
    BY <1>3 DEF StartupInv, StartupType, FilesInv, Files
  <2>4. /\ proc' \in [Processes -> Process]
        /\ proc'[p] = new
        /\ \A q \in Processes : q # p => proc'[q] = proc[q]
        /\ overlapped' \in BOOLEAN
        /\ ~overlapped' => ~overlapped
    BY <2>1, GotoFacts DEF StartupInv
  <2>5. ~overlapped => /\ content[tmp] = p
                       /\ serve => path = None
                       /\ \A q \in Processes : q # p => proc[q].at \notin Creating
    BY <1>1 DEF StartupInv, Alone, Creating
  <2>6. new.at \in {"store", "exited"}
    BY <2>1
  <2>7. StartupType'
    BY <1>1, <2>1, <2>2, <2>3, <2>4 DEF StartupInv, StartupType, Files
  <2>8. FilesInv'
    BY <1>1, <2>2, <2>4, <2>6 DEF StartupInv, FilesInv, None, Processes
  <2>9. ProcInv'
    <3>1. \A q \in Processes : q # p => proc[q].epoch <= rotations'
      BY <1>1, <2>1 DEF StartupInv, StartupType, ProcInv, Process
    <3>2. path' # None
      BY <2>2, <1>3
    <3>3. QED
      BY <1>1, <2>1, <2>4, <2>6, <3>1, <3>2 DEF StartupInv, ProcInv, Creating, Config, Keyed
  <2>10. Alone'
    BY <2>4, <2>5, <2>6 DEF StartupInv, Alone, Creating
  <2>11. p # None
    BY StartupAssumption DEF Processes, None
  <2>12. KeyFileWhole'
    BY <1>1, <2>2, <2>4, <2>5, <2>11 DEF KeyFileWhole
  <2>13. KeysOfFile'
    <3> SUFFICES ASSUME ~overlapped', NEW q \in Processes,
                        proc'[q].at \in Keyed, proc'[q].epoch = rotations'
                 PROVE  path' # None /\ proc'[q].keys = content'[path']
      BY DEF KeysOfFile
    <3>1. CASE q = p
      BY <1>1, <1>3, <2>1, <2>2, <2>4, <2>5, <3>1 DEF Keyed
    <3>2. CASE q # p
      <4>1. proc[q].at \in Keyed /\ proc[q].epoch = rotations'
        BY <2>4, <3>2
      <4>2. proc[q].epoch \in Nat /\ proc[q].epoch <= rotations
        BY DEF StartupInv, ProcInv, StartupType, Process
      <4>3. serve /\ proc[q].epoch = rotations
        BY <1>1, <2>1, <4>1, <4>2
      <4>4. path # None
        BY <2>4, <4>1, <4>3 DEF StartupInv, KeysOfFile
      <4>5. QED
        BY <2>4, <2>5, <4>3, <4>4
    <3>3. QED
      BY <3>1, <3>2
  <2>14. QED
    BY <2>7, <2>8, <2>9, <2>10, <2>12, <2>13 DEF StartupInv
<1>4. QED
  BY <1>2, <1>3

-----------------------------------------------------------------------------
(* The inductive invariant holds in every state.                           *)
THEOREM StartupInvariance == StartupSpec => []StartupInv
<1>1. StartupInit => StartupInv
  <2> SUFFICES ASSUME StartupInit PROVE StartupInv
    OBVIOUS
  <2>1. \A p \in Processes : proc[p] = Idle
    BY DEF StartupInit
  <2>2. StartupType
    BY <2>1, IdleFacts, StartupAssumption DEF StartupInit, StartupType, Files
  <2>3. FilesInv /\ KeyFileWhole
    BY StartupAssumption DEF StartupInit, FilesInv, KeyFileWhole, Processes, None
  <2>4. ProcInv /\ Alone /\ KeysOfFile
    BY <2>1, IdleFacts DEF StartupInit, ProcInv, Alone, KeysOfFile, Creating, Keyed
  <2>5. QED
    BY <2>2, <2>3, <2>4 DEF StartupInv
<1>2. StartupInv /\ [StartupNext]_startupVars => StartupInv'
  <2> SUFFICES ASSUME StartupInv, [StartupNext]_startupVars PROVE StartupInv'
    OBVIOUS
  <2>1. ASSUME NEW p \in Processes, Stop(p) PROVE StartupInv'
    BY <2>1, ExitStep DEF Stop, StartupInv, StartupType
  <2>2. CASE RedisToggles
    BY <2>2 DEF RedisToggles, StartupInv, StartupType, FilesInv, ProcInv, Alone, KeysOfFile,
       KeyFileWhole, Config
  <2>3. CASE UNCHANGED startupVars
    BY <2>3 DEF startupVars, StartupInv, StartupType, FilesInv, ProcInv, Alone, KeysOfFile,
       KeyFileWhole, Config
  <2>4. QED
    BY <2>1, <2>2, <2>3, LaunchStep, CheckStep, ReadStep, OpenStep, WriteStep,
       RenameStep, ServeStep DEF StartupNext
<1>3. QED
  BY <1>1, <1>2, PTL DEF StartupSpec

(* identity.rs, Keys::write: wherever processes stop, the key file is      *)
(* whole, as long as one process at a time creates keys.                   *)
THEOREM KeyFileSafe == StartupSpec => []KeyFileWhole
<1>1. StartupInv => KeyFileWhole
  BY DEF StartupInv
<1>2. QED
  BY <1>1, StartupInvariance, PTL

(* load_or_create: the identity outlives the process; whoever serves has   *)
(* the keys of the file, unless they were rotated since it read them.      *)
THEOREM IdentitySafe == StartupSpec => []SameIdentity
<1>1. StartupInv => SameIdentity
  BY DEF StartupInv, KeysOfFile, SameIdentity, Keyed
<1>2. QED
  BY <1>1, StartupInvariance, PTL
=============================================================================
