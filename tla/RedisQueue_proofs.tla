------------------------- MODULE RedisQueue_proofs --------------------------
(***************************************************************************)
(* Proofs about module RedisQueue: stream, bodies and pickups stay in step *)
(* although each expires, is trimmed and is removed on its own, so that    *)
(* the Redis store keeps the promise of module Mailbox; and the in-process *)
(* store (module MemoryQueue) keeps the same promise.                      *)
(***************************************************************************)
EXTENDS RedisQueue, FiniteSetTheorems, WellFoundedInduction, TLAPS

-----------------------------------------------------------------------------
(* The inductive invariant.                                                *)

Entries == [id: Nat, to: Recipients, size: Sizes, at: Nat]

Pickups ==
    [pc: {"idle", "range", "mget", "orphans", "delivered", "status"},
     want: Recipients \union {Anyone}, limit: Nat,
     chosen: SUBSET Entries, answer: SUBSET Entries, orphans: SUBSET Nat]

QueueType ==
    /\ clock \in Nat
    /\ last \in Nat
    /\ entries \in SUBSET Entries
    /\ IsFiniteSet(entries)
    /\ bodies \in SUBSET [id: Nat, until: Nat]
    /\ expires \in Nat

TypeInv ==
    /\ QueueType
    /\ picker \in [Pickers -> Pickups]

(* Ids are unique and only grow.                                           *)
EntryInv ==
    /\ \A e \in entries : 1 <= e.id /\ e.id <= last /\ e.at <= clock
    /\ \A e, f \in entries : e.id = f.id => e = f

(* A body ends a lifetime after its entry came, and the stream no sooner.  *)
BodyInv ==
    \A b \in bodies :
      /\ clock <= b.until /\ b.until <= expires
      /\ \E e \in entries : e.id = b.id /\ b.until = e.at + Lifetime

(* A pickup k holds ids that were given out; an orphan gets no body again; *)
(* what is chosen, and the answer, have no gap from the oldest on.         *)
GoodPickup(k) ==
    /\ \A e \in k.chosen \union k.answer : 1 <= e.id /\ e.id <= last
    /\ \A i \in k.orphans : 1 <= i /\ i <= last /\ i \notin IdsOf(bodies)
    /\ \A e \in Matching(entries, k.want), a \in k.chosen :
         e.id < a.id => e \in k.chosen
    /\ \A e \in Matching(entries, k.want), a \in k.answer :
         (e.id \in IdsOf(bodies) /\ e.id < a.id) => e \in k.answer

PickerInv == \A p \in Pickers : GoodPickup(picker[p])

(* The part of WithinLimits about the number of messages.                  *)
CountWithinLimit == Cardinality(entries) <= MaxMessages

IInv == TypeInv /\ EntryInv /\ BodyInv /\ PickerInv /\ CountWithinLimit

-----------------------------------------------------------------------------
(* Sums over finite sets: what SizeOf comes to for sets of every size.  A  *)
(* minimal counterexample stands in for induction.                         *)

LEMMA LeastNumber ==
    ASSUME NEW T, T \subseteq Nat, T # {}
    PROVE  \E n \in T : \A m \in T : n <= m
  <1>1. PICK n \in T : \A m \in T : ~(<<m, n>> \in OpToRel(<, Nat))
    BY NatLessThanWellFounded, WFMin
  <1>2. \A m \in T : ~(m < n)
    BY <1>1 DEF OpToRel
  <1> QED  BY <1>2

(* Of sets of subsets of a finite set one is minimal.                      *)
LEMMA MinimalSet ==
    ASSUME NEW S, IsFiniteSet(S), NEW B, B \subseteq SUBSET S, B # {}
    PROVE  \E T \in B : IsFiniteSet(T) /\ \A U \in SUBSET T : U # T => U \notin B
  <1> DEFINE N == {Cardinality(T) : T \in B}
  <1>1. \A T \in SUBSET S : IsFiniteSet(T) /\ Cardinality(T) \in Nat
    BY FS_Subset, FS_CardinalityType
  <1>2. N \subseteq Nat /\ N # {}
    BY <1>1
  <1>3. PICK n \in N : \A m \in N : n <= m
    BY <1>2, LeastNumber
  <1>4. PICK T \in B : Cardinality(T) = n
    BY <1>3
  <1>5. ASSUME NEW U \in SUBSET T, U # T PROVE U \notin B
    <2>1. Cardinality(U) < Cardinality(T)
      BY <1>1, <1>5, FS_Subset
    <2> QED  BY <1>1, <1>2, <1>3, <1>4, <2>1
  <1> QED  BY <1>1, <1>5

(* The element a sum takes first, and the equation of a sum on the sets D. *)
OneOf(T) == CHOOSE x \in T : TRUE

Sums(f, D) ==
    f = [T \in D |-> IF T = {} THEN 0 ELSE OneOf(T).size + f[T \ {OneOf(T)}]]

LEMMA OneOfIsIn == ASSUME NEW T, T # {} PROVE OneOf(T) \in T
  BY DEF OneOf

LEMMA SizeOfUnfolded == ASSUME NEW S PROVE SizeOf(S) = (CHOOSE f : Sums(f, SUBSET S))[S]
  BY DEF SizeOf, MapThenSumSet, MapThenFoldSet, Sums, OneOf

LEMMA SumExists ==
    ASSUME NEW S, IsFiniteSet(S)
    PROVE  \E f : Sums(f, SUBSET S)
  <1> DEFINE Small(n) == {T \in SUBSET S : Cardinality(T) <= n}
             Bad == {n \in Nat : ~\E f : Sums(f, Small(n))}
  <1>1. \A T \in SUBSET S : /\ IsFiniteSet(T) /\ Cardinality(T) \in Nat
                            /\ Cardinality(T) <= Cardinality(S)
    BY FS_Subset, FS_CardinalityType
  <1>2. SUBSET S = Small(Cardinality(S))
    BY <1>1
  <1>3. Bad = {}
    <2> SUFFICES ASSUME Bad # {} PROVE FALSE
      OBVIOUS
    <2>1. PICK n \in Bad : \A m \in Bad : n <= m
      BY LeastNumber
    <2>2. n \in Nat /\ ~\E f : Sums(f, Small(n))
      BY <2>1
    <2>3. CASE n = 0
      <3>1. \A T \in Small(0) : T = {}
        BY <1>1, FS_EmptySet
      <3>2. Sums([T \in Small(0) |-> 0], Small(0))
        BY <3>1 DEF Sums
      <3> QED  BY <2>2, <2>3, <3>2
    <2>4. CASE n # 0
      <3>1. n - 1 \in Nat
        BY <2>2, <2>4
      <3>2. n - 1 \notin Bad
        <4> HIDE DEF Bad
        <4> QED  BY <2>1, <2>2, <3>1
      <3>3. PICK g : Sums(g, Small(n - 1))
        BY <3>1, <3>2
      <3> DEFINE h == [T \in Small(n) |-> IF T = {} THEN 0
                                          ELSE OneOf(T).size + g[T \ {OneOf(T)}]]
      <3>4. \A T \in Small(n) : T # {} => T \ {OneOf(T)} \in Small(n - 1)
        <4> SUFFICES ASSUME NEW T \in Small(n), T # {}
                     PROVE  T \ {OneOf(T)} \in Small(n - 1)
          OBVIOUS
        <4>1. Cardinality(T \ {OneOf(T)}) = Cardinality(T) - 1
          BY <1>1, OneOfIsIn, FS_RemoveElement
        <4> QED  BY <1>1, <2>2, <4>1
      <3>5. \A T \in Small(n - 1) : T \in Small(n) /\ h[T] = g[T]
        <4>1. \A T \in Small(n - 1) : T \in Small(n)
          BY <1>1, <2>2
        <4>2. \A T \in Small(n - 1) :
                g[T] = IF T = {} THEN 0 ELSE OneOf(T).size + g[T \ {OneOf(T)}]
          BY <3>3 DEF Sums
        <4> QED  BY <4>1, <4>2
      <3>6. \A T \in Small(n) :
              h[T] = IF T = {} THEN 0 ELSE OneOf(T).size + h[T \ {OneOf(T)}]
        BY <3>4, <3>5
      <3>7. Sums(h, Small(n))
        <4>1. h = [T \in Small(n) |-> h[T]]
          OBVIOUS
        <4> HIDE DEF h, Small
        <4> QED  BY <3>6, <4>1 DEF Sums
      <3> QED  BY <2>2, <3>7
    <2> QED  BY <2>3, <2>4
  <1>4. Cardinality(S) \in Nat
    BY FS_CardinalityType
  <1> QED  BY <1>2, <1>3, <1>4

LEMMA SumUnique ==
    ASSUME NEW S, NEW R, R \subseteq S, IsFiniteSet(S), NEW f, NEW g,
           Sums(f, SUBSET S), Sums(g, SUBSET R)
    PROVE  f[R] = g[R]
  <1> DEFINE B == {T \in SUBSET R : f[T] # g[T]}
  <1> SUFFICES ASSUME B # {} PROVE FALSE
    OBVIOUS
  <1>1. IsFiniteSet(R)
    BY FS_Subset
  <1>2. PICK T \in B : \A V \in SUBSET T : V # T => V \notin B
    <2>1. B \subseteq SUBSET R
      OBVIOUS
    <2> HIDE DEF B
    <2> QED  BY <1>1, <2>1, MinimalSet
  <1>3. /\ f[T] = IF T = {} THEN 0 ELSE OneOf(T).size + f[T \ {OneOf(T)}]
        /\ g[T] = IF T = {} THEN 0 ELSE OneOf(T).size + g[T \ {OneOf(T)}]
    <2>1. T \in SUBSET S /\ T \in SUBSET R
      OBVIOUS
    <2> QED  BY <2>1 DEF Sums
  <1>4. T # {} => f[T \ {OneOf(T)}] = g[T \ {OneOf(T)}]
    BY <1>2, OneOfIsIn
  <1> QED  BY <1>3, <1>4

LEMMA SizeEquation ==
    ASSUME NEW S, IsFiniteSet(S)
    PROVE  /\ SizeOf({}) = 0
           /\ S # {} => SizeOf(S) = OneOf(S).size + SizeOf(S \ {OneOf(S)})
  <1>1. ASSUME NEW T, IsFiniteSet(T)
        PROVE  \E f : Sums(f, SUBSET T) /\ SizeOf(T) = f[T]
    <2>1. Sums(CHOOSE f : Sums(f, SUBSET T), SUBSET T)
      BY <1>1, SumExists
    <2> QED  BY <2>1, SizeOfUnfolded
  <1>2. SizeOf({}) = 0
    <2>1. PICK f : Sums(f, SUBSET {}) /\ SizeOf({}) = f[{}]
      BY <1>1, FS_EmptySet
    <2>2. {} \in SUBSET {}
      OBVIOUS
    <2> QED  BY <2>1, <2>2 DEF Sums
  <1>3. ASSUME S # {} PROVE SizeOf(S) = OneOf(S).size + SizeOf(S \ {OneOf(S)})
    <2> DEFINE R == S \ {OneOf(S)}
    <2>1. IsFiniteSet(R)
      BY FS_Subset
    <2>2. PICK f : Sums(f, SUBSET S) /\ SizeOf(S) = f[S]
      BY <1>1
    <2>3. PICK g : Sums(g, SUBSET R) /\ SizeOf(R) = g[R]
      BY <1>1, <2>1
    <2>4. f[R] = g[R]
      <3>1. R \subseteq S
        OBVIOUS
      <3>2. Sums(f, SUBSET S)
        BY <2>2
      <3>3. Sums(g, SUBSET R)
        BY <2>3
      <3> HIDE DEF R
      <3> QED  BY <3>1, <3>2, <3>3, SumUnique
    <2>5. f[S] = OneOf(S).size + f[R]
      <3>1. S \in SUBSET S
        OBVIOUS
      <3> QED  BY <1>3, <2>2, <3>1 DEF Sums
    <2> QED  BY <2>2, <2>3, <2>4, <2>5
  <1> QED  BY <1>2, <1>3

(* Everything in S has a size.                                             *)
Sized(S) == IsFiniteSet(S) /\ \A e \in S : e.size \in Nat

LEMMA SizeType == ASSUME NEW S, Sized(S) PROVE SizeOf(S) \in Nat
  <1> DEFINE B == {T \in SUBSET S : SizeOf(T) \notin Nat}
  <1> SUFFICES ASSUME B # {} PROVE FALSE
    OBVIOUS
  <1>1. PICK T \in B : IsFiniteSet(T) /\ \A V \in SUBSET T : V # T => V \notin B
    <2>1. B \subseteq SUBSET S /\ IsFiniteSet(S)
      BY DEF Sized
    <2> HIDE DEF B
    <2> QED  BY <2>1, MinimalSet
  <1>2. CASE T = {}
    <2>1. SizeOf(T) = 0
      BY <1>1, <1>2, SizeEquation
    <2> QED  BY <2>1
  <1>3. CASE T # {}
    <2>1. OneOf(T) \in T /\ OneOf(T).size \in Nat
      BY <1>3, OneOfIsIn DEF Sized
    <2>2. SizeOf(T \ {OneOf(T)}) \in Nat
      BY <1>1, <2>1
    <2> QED  BY <1>1, <1>3, <2>1, <2>2, SizeEquation
  <1> QED  BY <1>2, <1>3

(* A sum may begin with any element.                                       *)
LEMMA SizeTake ==
    ASSUME NEW S, Sized(S), NEW x \in S
    PROVE  SizeOf(S) = x.size + SizeOf(S \ {x})
  <1> DEFINE B == {T \in SUBSET S : \E y \in T : SizeOf(T) # y.size + SizeOf(T \ {y})}
  <1> SUFFICES ASSUME B # {} PROVE FALSE
    OBVIOUS
  <1>1. PICK T \in B : IsFiniteSet(T) /\ \A V \in SUBSET T : V # T => V \notin B
    <2>1. B \subseteq SUBSET S /\ IsFiniteSet(S)
      BY DEF Sized
    <2> HIDE DEF B
    <2> QED  BY <2>1, MinimalSet
  <1>2. PICK y \in T : SizeOf(T) # y.size + SizeOf(T \ {y})
    OBVIOUS
  <1>3. PICK c : c = OneOf(T)
    OBVIOUS
  <1>4. c \in T /\ SizeOf(T) = c.size + SizeOf(T \ {c})
    BY <1>1, <1>2, <1>3, OneOfIsIn, SizeEquation
  <1>5. c # y
    BY <1>2, <1>4
  <1>6. SizeOf(T \ {c}) = y.size + SizeOf((T \ {c}) \ {y})
    BY <1>1, <1>4, <1>5
  <1>7. SizeOf(T \ {y}) = c.size + SizeOf((T \ {y}) \ {c})
    BY <1>1, <1>4, <1>5
  <1>8. (T \ {c}) \ {y} = (T \ {y}) \ {c}
    OBVIOUS
  <1>9. c.size \in Nat /\ y.size \in Nat /\ SizeOf((T \ {c}) \ {y}) \in Nat
    <2>1. Sized((T \ {c}) \ {y})
      BY <1>1, FS_Subset DEF Sized
    <2> QED  BY <1>4, <2>1, SizeType DEF Sized
  <1> QED  BY <1>2, <1>4, <1>6, <1>7, <1>8, <1>9

(* A part and the rest add up.                                             *)
LEMMA SizeSplit ==
    ASSUME NEW S, Sized(S), NEW R \in SUBSET S
    PROVE  /\ SizeOf(S) = SizeOf(R) + SizeOf(S \ R)
           /\ SizeOf(R) \in Nat /\ SizeOf(S \ R) \in Nat /\ SizeOf(S) \in Nat
  <1> DEFINE B == {T \in SUBSET S : SizeOf(S) # SizeOf(T) + SizeOf(S \ T)}
  <1>1. \A T \in SUBSET S : Sized(T) /\ SizeOf(T) \in Nat
    BY SizeType, FS_Subset DEF Sized
  <1>2. B = {}
    <2> SUFFICES ASSUME B # {} PROVE FALSE
      OBVIOUS
    <2>1. PICK T \in B : \A V \in SUBSET T : V # T => V \notin B
      <3>1. B \subseteq SUBSET S /\ IsFiniteSet(S)
        BY DEF Sized
      <3> HIDE DEF B
      <3> QED  BY <3>1, MinimalSet
    <2>2. CASE T = {}
      <3>1. S \ T = S
        BY <2>2
      <3>2. SizeOf(T) = 0
        BY <2>2, FS_EmptySet, SizeEquation
      <3>3. SizeOf(S) \in Nat
        BY <1>1
      <3> QED  BY <3>1, <3>2, <3>3
    <2>3. CASE T # {}
      <3>1. PICK x \in T : TRUE
        BY <2>3
      <3>2. SizeOf(S) = SizeOf(T \ {x}) + SizeOf(S \ (T \ {x}))
        BY <2>1
      <3>3. SizeOf(T) = x.size + SizeOf(T \ {x})
        BY <1>1, SizeTake
      <3>4. SizeOf(S \ (T \ {x})) = x.size + SizeOf(S \ T)
        <4>1. x \in S \ (T \ {x}) /\ (S \ (T \ {x})) \ {x} = S \ T
          OBVIOUS
        <4>2. Sized(S \ (T \ {x}))
          BY <1>1
        <4> QED  BY <4>1, <4>2, SizeTake
      <3>5. x.size \in Nat /\ SizeOf(T \ {x}) \in Nat /\ SizeOf(S \ T) \in Nat
        BY <1>1 DEF Sized
      <3> QED  BY <3>2, <3>3, <3>4, <3>5
    <2> QED  BY <2>2, <2>3
  <1> QED  BY <1>1, <1>2

-----------------------------------------------------------------------------
(* Arithmetic of the trim.                                                 *)

LEMMA LifetimeType == Lifetime \in Nat /\ Lifetime = TTL * Second
  BY RedisQueueAssumption DEF Lifetime

(* The minimal id is a lifetime ago, or the epoch.                         *)
LEMMA MinIdBound ==
    ASSUME clock \in Nat, NEW lag \in 0 .. MaxLag
    PROVE  MinId(lag) \in Nat /\ (MinId(lag) = 0 \/ MinId(lag) + Lifetime <= clock)
  <1> DEFINE q == clock \div Second
             now == q - lag
  <1>1. Second \in Nat /\ Second > 0 /\ TTL \in Nat /\ lag \in Nat
    BY RedisQueueAssumption
  <1>2. q \in Int /\ q * Second <= clock
    BY <1>1
  <1> HIDE DEF q
  <1>3. CASE now > TTL
    <2>1. MinId(lag) = (now - TTL) * Second
      BY <1>3 DEF MinId, q
    <2> PICK d \in Nat : d = now - TTL
      BY <1>1, <1>2, <1>3
    <2>2. d * Second \in Nat
      BY <1>1
    <2>3. d + TTL <= q
      BY <1>1, <1>2
    <2>4. (d + TTL) * Second <= q * Second
      BY <1>1, <1>2, <2>3
    <2>5. (d + TTL) * Second = d * Second + TTL * Second
      BY <1>1
    <2>6. d * Second + TTL * Second <= clock
      BY <1>1, <1>2, <2>2, <2>4, <2>5
    <2> QED  BY <2>1, <2>2, <2>6, LifetimeType
  <1>4. CASE ~(now > TTL)
    BY <1>1, <1>4 DEF MinId, q
  <1> QED  BY <1>3, <1>4

-----------------------------------------------------------------------------
(* What a script does to the queue.                                        *)

QueueInv == QueueType /\ EntryInv /\ BodyInv /\ CountWithinLimit

(* Nothing came but ids that were not given out before.                    *)
OnlyNew ==
    /\ last' >= last
    /\ \A e \in entries' : e \in entries \/ e.id > last
    /\ \A i \in IdsOf(bodies') : i \in IdsOf(bodies) \/ i > last

LEMMA BodyHasEntry ==
    ASSUME IInv, NEW e \in entries, e.id \in IdsOf(bodies)
    PROVE  \E b \in bodies : b.id = e.id /\ b.until = e.at + Lifetime
  <1>1. PICK b \in bodies : b.id = e.id
    BY DEF IdsOf
  <1>2. PICK f \in entries : f.id = b.id /\ b.until = f.at + Lifetime
    BY DEF IInv, BodyInv
  <1>3. f = e
    BY <1>1, <1>2 DEF IInv, EntryInv
  <1> QED  BY <1>1, <1>2, <1>3

(* Entries whose body is gone, or goes with them, may go.                  *)
LEMMA ShrinkQueue ==
    ASSUME IInv, entries' \subseteq entries, bodies' \subseteq bodies,
           clock' = clock, last' = last, expires' = expires,
           \A e \in entries \ entries' : e.id \notin IdsOf(bodies')
    PROVE  QueueInv' /\ OnlyNew
  <1>1. IsFiniteSet(entries') /\ Cardinality(entries') <= Cardinality(entries)
        /\ Cardinality(entries') \in Nat /\ Cardinality(entries) \in Nat
    BY FS_Subset, FS_CardinalityType DEF IInv, TypeInv, QueueType
  <1>2. QueueType'
    BY <1>1 DEF IInv, TypeInv, QueueType
  <1>3. EntryInv'
    BY DEF IInv, EntryInv
  <1>4. BodyInv'
    <2> SUFFICES ASSUME NEW b \in bodies'
                 PROVE  /\ clock <= b.until /\ b.until <= expires
                        /\ \E e \in entries' : e.id = b.id /\ b.until = e.at + Lifetime
      BY LifetimeType DEF BodyInv, Lifetime
    <2>1. /\ clock <= b.until /\ b.until <= expires
          /\ \E e \in entries : e.id = b.id /\ b.until = e.at + Lifetime
      BY DEF IInv, BodyInv
    <2>2. b.id \in IdsOf(bodies')
      BY DEF IdsOf
    <2> QED  BY <2>1, <2>2
  <1>5. CountWithinLimit'
    BY <1>1, RedisQueueAssumption DEF IInv, CountWithinLimit
  <1>6. OnlyNew
    BY DEF OnlyNew, IdsOf, IInv, TypeInv, QueueType
  <1> QED  BY <1>2, <1>3, <1>4, <1>5, <1>6 DEF QueueInv

(* A trim takes no entry whose body is still there: by whole seconds it is *)
(* never ahead of the body's own expiry.                                   *)
LEMMA OldHasNoBody ==
    ASSUME IInv, NEW lag \in 0 .. MaxLag, NEW e \in Old(lag)
    PROVE  e \in entries /\ e.id \notin IdsOf(bodies)
  <1>1. e \in entries /\ e.at < MinId(lag)
    BY DEF Old
  <1>2. clock \in Nat /\ e.at \in Nat /\ Lifetime \in Nat
    BY <1>1, LifetimeType DEF IInv, TypeInv, QueueType, Entries
  <1>3. MinId(lag) \in Nat /\ (MinId(lag) = 0 \/ MinId(lag) + Lifetime <= clock)
    BY <1>2, MinIdBound
  <1>4. e.at + Lifetime < clock
    BY <1>1, <1>2, <1>3
  <1>5. ASSUME e.id \in IdsOf(bodies) PROVE FALSE
    <2>1. PICK b \in bodies : b.until = e.at + Lifetime
      BY <1>1, <1>5, BodyHasEntry
    <2>2. clock <= b.until
      BY DEF IInv, BodyInv
    <2> QED  BY <1>2, <1>4, <2>1, <2>2
  <1> QED  BY <1>1, <1>5

LEMMA TrimFacts ==
    ASSUME IInv, NEW lag \in 0 .. MaxLag, Trim(lag), clock' = clock, last' = last
    PROVE  QueueInv' /\ OnlyNew /\ Mail' = Mail
  <1>1. entries' = entries \ Old(lag) /\ bodies' = bodies /\ expires' = expires
    BY DEF Trim
  <1>2. \A e \in entries \ entries' : e.id \notin IdsOf(bodies)
    BY <1>1, OldHasNoBody
  <1>3. QueueInv' /\ OnlyNew
    BY <1>1, <1>2, ShrinkQueue
  <1>4. Mail' = Mail
    BY <1>1, <1>2 DEF Mail, IdsOf
  <1> QED  BY <1>3, <1>4

LEMMA RemoveFacts ==
    ASSUME IInv, NEW ids, RemoveIds(ids), clock' = clock, last' = last
    PROVE  /\ QueueInv' /\ OnlyNew
           /\ Mail' = {e \in Mail : e.id \notin ids}
  <1>1. /\ entries' = {e \in entries : e.id \notin ids}
        /\ bodies' = {b \in bodies : b.id \notin ids} /\ expires' = expires
    BY DEF RemoveIds
  <1>2. IdsOf(bodies') = {i \in IdsOf(bodies) : i \notin ids}
    BY <1>1 DEF IdsOf
  <1>3. \A e \in entries \ entries' : e.id \notin IdsOf(bodies')
    BY <1>1, <1>2
  <1>4. QueueInv' /\ OnlyNew
    BY <1>1, <1>3, ShrinkQueue
  <1>5. Mail' = {e \in Mail : e.id \notin ids}
    BY <1>1, <1>2 DEF Mail
  <1> QED  BY <1>4, <1>5

LEMMA QueueUnchanged ==
    ASSUME IInv, UNCHANGED queue, clock' = clock, last' = last
    PROVE  QueueInv' /\ OnlyNew /\ Mail' = Mail
  <1>1. entries' = entries /\ bodies' = bodies /\ expires' = expires
    BY DEF queue
  <1>2. QueueInv' /\ OnlyNew
    BY <1>1, ShrinkQueue
  <1> QED  BY <1>1, <1>2 DEF Mail, IdsOf

(* ENQUEUE: a message comes with its body, or only the trim happens.       *)
LEMMA EnqueueFacts ==
    ASSUME IInv, NEW to \in Recipients, NEW size \in Sizes, NEW lag \in 0 .. MaxLag,
           Enqueue(to, size, lag)
    PROVE  /\ QueueInv' /\ OnlyNew
           /\ clock' = clock /\ acked' = acked /\ era' = era
           /\ \/ Mail' = Mail /\ last' = last
              \/ /\ last < MaxPuts /\ last' = last + 1
                 /\ Cardinality(Mail) < MaxMessages
                 /\ Mail' = Mail \union
                      {[id |-> last + 1, to |-> to, size |-> size, at |-> clock]}
  <1> DEFINE kept == entries \ Old(lag)
             used == Uncount(SizeOf(Old(lag)))
  <1>1. clock' = clock /\ acked' = acked /\ era' = era /\ last < MaxPuts
    BY DEF Enqueue
  <1>2. /\ clock \in Nat /\ last \in Nat /\ Lifetime \in Nat /\ expires \in Nat
        /\ entries \in SUBSET Entries /\ IsFiniteSet(entries)
        /\ bodies \in SUBSET [id: Nat, until: Nat]
    BY LifetimeType DEF IInv, TypeInv, QueueType
  <1>3. \A e \in entries \ kept : e.id \notin IdsOf(bodies)
    BY OldHasNoBody
  <1>4. kept \subseteq entries
    OBVIOUS
  <1>5. Mail \subseteq kept
    BY <1>3 DEF Mail
  <1>6. /\ IsFiniteSet(kept) /\ Cardinality(kept) \in Nat
        /\ IsFiniteSet(Mail) /\ Cardinality(Mail) \in Nat
        /\ Cardinality(Mail) <= Cardinality(kept)
    BY <1>2, <1>4, <1>5, FS_Subset, FS_CardinalityType
  <1>7. CASE ~HasRoom(kept, used, size)
    <2>1. /\ entries' = kept /\ last' = last /\ bodies' = bodies /\ expires' = expires
      BY <1>7 DEF Enqueue
    <2>2. QueueInv' /\ OnlyNew
      BY <1>1, <1>3, <1>4, <2>1, ShrinkQueue
    <2>3. Mail' = Mail
      BY <1>3, <1>4, <2>1 DEF Mail, IdsOf
    <2> QED  BY <1>1, <2>1, <2>2, <2>3
  <1>8. CASE HasRoom(kept, used, size)
    <2>1. PICK new : new = [id |-> last + 1, to |-> to, size |-> size, at |-> clock]
      OBVIOUS
    <2>2. PICK body : body = [id |-> last + 1, until |-> clock + Lifetime]
      OBVIOUS
    <2>3. /\ last' = last + 1 /\ entries' = kept \union {new}
          /\ bodies' = bodies \union {body} /\ expires' = clock + Lifetime
      BY <1>8, <2>1, <2>2 DEF Enqueue
    <2>4. /\ new \in Entries /\ new.id = last + 1 /\ new.at = clock
          /\ body \in [id: Nat, until: Nat] /\ body.id = last + 1
          /\ body.until = clock + Lifetime
      BY <1>2, <2>1, <2>2, RedisQueueAssumption DEF Entries
    <2>5. Cardinality(kept) < MaxMessages
      BY <1>8 DEF HasRoom
    <2>6. \A e \in entries : e.id \in Nat /\ 1 <= e.id /\ e.id <= last /\ e.at \in Nat /\ e.at <= clock
      BY <1>2 DEF IInv, EntryInv, Entries
    <2>7. new \notin kept
      BY <1>2, <2>4, <2>6
    <2>8. IsFiniteSet(entries') /\ Cardinality(entries') = Cardinality(kept) + 1
      BY <1>6, <2>3, <2>7, FS_AddElement
    <2>9. QueueType'
      BY <1>1, <1>2, <1>4, <2>3, <2>4, <2>8 DEF QueueType
    <2>10. EntryInv'
      <3>1. \A e \in entries' : 1 <= e.id /\ e.id <= last' /\ e.at <= clock'
        BY <1>1, <1>2, <2>3, <2>4, <2>6
      <3>2. \A e, f \in entries' : e.id = f.id => e = f
        <4>1. \A e, f \in kept : e.id = f.id => e = f
          BY DEF IInv, EntryInv
        <4>2. \A e \in kept : e.id # new.id
          BY <1>2, <2>4, <2>6
        <4> QED  BY <2>3, <4>1, <4>2
      <3> QED  BY <3>1, <3>2 DEF EntryInv
    <2>11. BodyInv'
      <3> SUFFICES ASSUME NEW b \in bodies'
                   PROVE  /\ clock <= b.until /\ b.until <= clock + Lifetime
                          /\ \E e \in entries' : e.id = b.id /\ b.until = e.at + Lifetime
        BY <1>1, <2>3 DEF BodyInv, Lifetime
      <3>1. CASE b = body
        BY <1>2, <2>3, <2>4, <3>1
      <3>2. CASE b \in bodies
        <4>1. clock <= b.until /\ b.id \in IdsOf(bodies)
          BY <3>2 DEF IInv, BodyInv, IdsOf
        <4>2. PICK e \in entries : e.id = b.id /\ b.until = e.at + Lifetime
          BY <3>2 DEF IInv, BodyInv
        <4>3. e \in kept
          BY <1>3, <4>1, <4>2
        <4>4. b.until <= clock + Lifetime
          BY <1>2, <2>6, <4>2
        <4> QED  BY <2>3, <4>1, <4>2, <4>3, <4>4
      <3> QED  BY <2>3, <3>1, <3>2
    <2>12. CountWithinLimit'
      BY <1>6, <2>5, <2>8, RedisQueueAssumption DEF CountWithinLimit
    <2>13. IdsOf(bodies') = IdsOf(bodies) \union {last + 1}
      BY <2>3, <2>4 DEF IdsOf
    <2>14. OnlyNew
      <3>1. last' >= last /\ last + 1 > last
        BY <1>2, <2>3
      <3>2. \A e \in entries' : e \in entries \/ e.id > last
        BY <2>3, <2>4, <3>1
      <3>3. \A i \in IdsOf(bodies') : i \in IdsOf(bodies) \/ i > last
        BY <2>13, <3>1
      <3> QED  BY <3>1, <3>2, <3>3 DEF OnlyNew
    <2>15. Mail' = Mail \union {new}
      <3>1. \A e \in kept : e.id # last + 1
        BY <1>2, <2>6
      <3>2. Mail' = {e \in kept \union {new} : e.id \in IdsOf(bodies) \union {last + 1}}
        BY <2>3, <2>13 DEF Mail
      <3>3. Mail = {e \in kept : e.id \in IdsOf(bodies)}
        BY <1>3 DEF Mail
      <3> QED  BY <2>4, <3>1, <3>2, <3>3
    <2>16. Cardinality(Mail) < MaxMessages
      BY <1>6, <2>5, RedisQueueAssumption
    <2> QED  BY <1>1, <2>1, <2>3, <2>9, <2>10, <2>11, <2>12, <2>14, <2>15, <2>16 DEF QueueInv
  <1> QED  BY <1>7, <1>8

(* REMOVE_MEDIATION leaves nothing.                                        *)
LEMMA RemoveMediationFacts ==
    ASSUME IInv, RemoveMediation
    PROVE  QueueInv' /\ OnlyNew /\ Mail' = {}
  <1>1. /\ entries' = {} /\ expires' = 0 /\ clock' = clock /\ last' = last
        /\ bodies' = {b \in bodies : b.id \notin IdsOf(entries)}
    BY DEF RemoveMediation
  <1>2. bodies' = {}
    BY <1>1 DEF IInv, BodyInv, IdsOf
  <1>3. QueueType'
    BY <1>1, <1>2, FS_EmptySet DEF IInv, TypeInv, QueueType
  <1>4. CountWithinLimit'
    BY <1>1, FS_EmptySet, RedisQueueAssumption DEF CountWithinLimit
  <1> QED  BY <1>1, <1>2, <1>3, <1>4 DEF QueueInv, EntryInv, BodyInv, OnlyNew, Mail, IdsOf,
                                         IInv, TypeInv, QueueType

(* With time bodies go, then the stream; the stream takes no body along.   *)
LEMMA TickFacts ==
    ASSUME IInv, Tick
    PROVE  /\ QueueInv' /\ OnlyNew
           /\ Mail' \subseteq Mail
           /\ \A e \in Mail \ Mail' : e.at + Lifetime < clock'
  <1>1. /\ clock' = clock + 1 /\ bodies' = {b \in bodies : clock' <= b.until}
        /\ last' = last /\ expires' = expires
        /\ (clock' > expires) => entries' = {}
        /\ ~(clock' > expires) => entries' = entries
    BY DEF Tick
  <1>2. /\ clock \in Nat /\ last \in Nat /\ Lifetime \in Nat /\ expires \in Nat
        /\ entries \in SUBSET Entries /\ IsFiniteSet(entries)
        /\ bodies \in SUBSET [id: Nat, until: Nat]
    BY LifetimeType DEF IInv, TypeInv, QueueType
  <1>3. entries' \subseteq entries
    BY <1>1
  <1>4. ASSUME clock' > expires PROVE bodies' = {}
    <2>1. \A b \in bodies : b.until \in Nat /\ b.until <= expires
      BY <1>2 DEF IInv, BodyInv
    <2> QED  BY <1>1, <1>2, <1>4, <2>1
  <1>5. IsFiniteSet(entries') /\ Cardinality(entries') <= Cardinality(entries)
        /\ Cardinality(entries') \in Nat /\ Cardinality(entries) \in Nat
    BY <1>2, <1>3, FS_Subset, FS_CardinalityType
  <1>6. QueueType'
    BY <1>1, <1>2, <1>3, <1>5 DEF QueueType
  <1>7. EntryInv'
    <2>1. \A e \in entries : e.at \in Nat /\ e.at <= clock /\ 1 <= e.id /\ e.id <= last
      BY <1>2 DEF IInv, EntryInv, Entries
    <2>2. \A e \in entries' : e.at <= clock' /\ 1 <= e.id /\ e.id <= last'
      BY <1>1, <1>2, <1>3, <2>1
    <2> QED  BY <1>3, <2>2 DEF IInv, EntryInv
  <1>8. BodyInv'
    <2> SUFFICES ASSUME NEW b \in bodies'
                 PROVE  /\ clock' <= b.until /\ b.until <= expires
                        /\ \E e \in entries' : e.id = b.id /\ b.until = e.at + Lifetime
      BY <1>1 DEF BodyInv, Lifetime
    <2>1. b \in bodies /\ clock' <= b.until /\ entries' = entries
      BY <1>1, <1>4
    <2> QED  BY <2>1 DEF IInv, BodyInv
  <1>9. CountWithinLimit'
    BY <1>5, RedisQueueAssumption DEF IInv, CountWithinLimit
  <1>10. OnlyNew
    BY <1>1, <1>2, <1>3 DEF OnlyNew, IdsOf
  <1>11. Mail' \subseteq Mail
    BY <1>1, <1>3 DEF Mail, IdsOf
  <1>12. ASSUME NEW e \in Mail, e \notin Mail' PROVE e.at + Lifetime < clock'
    <2>1. e \in entries /\ e.id \in IdsOf(bodies) /\ e.at \in Nat
      BY <1>2 DEF Mail, Entries
    <2>2. PICK b \in bodies : b.id = e.id /\ b.until = e.at + Lifetime
      BY <2>1, BodyHasEntry
    <2>3. ~(clock' <= b.until)
      <3>1. CASE clock' > expires
        BY <1>1, <1>4, <3>1
      <3>2. CASE ~(clock' > expires)
        <4>1. e.id \notin IdsOf(bodies')
          BY <1>1, <1>12, <2>1, <3>2 DEF Mail
        <4> QED  BY <1>1, <2>2, <4>1 DEF IdsOf
      <3> QED  BY <3>1, <3>2
    <2> QED  BY <1>1, <1>2, <2>1, <2>2, <2>3
  <1> QED  BY <1>6, <1>7, <1>8, <1>9, <1>10, <1>11, <1>12 DEF QueueInv

-----------------------------------------------------------------------------
(* What a script leaves of a pickup.                                       *)

(* A pickup stays good: what comes is younger than all it holds.           *)
LEMMA GoodKept ==
    ASSUME QueueType, QueueType', OnlyNew, NEW k \in Pickups, GoodPickup(k)
    PROVE  GoodPickup(k)'
  <1>1. /\ last \in Nat /\ last' \in Nat /\ last' >= last
        /\ \A e \in entries' : e.id \in Nat
    BY DEF QueueType, OnlyNew, Entries
  <1>2. \A e \in k.chosen \union k.answer : e.id \in Nat /\ 1 <= e.id /\ e.id <= last
    BY DEF GoodPickup, Pickups, Entries
  <1>3. \A e \in k.chosen \union k.answer : 1 <= e.id /\ e.id <= last'
    BY <1>1, <1>2
  <1>4. \A i \in k.orphans : i \in Nat /\ 1 <= i /\ i <= last /\ i \notin IdsOf(bodies)
    BY DEF GoodPickup, Pickups
  <1>5. \A i \in k.orphans : 1 <= i /\ i <= last' /\ i \notin IdsOf(bodies')
    BY <1>1, <1>4 DEF OnlyNew
  <1>6. ASSUME NEW e \in Matching(entries', k.want), NEW a \in k.chosen \union k.answer,
               e.id < a.id
        PROVE  e \in Matching(entries, k.want) /\ e.id <= last /\ e.id \in Nat
    <2>1. e \in entries' /\ (k.want = Anyone \/ e.to = k.want) /\ e.id \in Nat
      BY <1>1 DEF Matching
    <2>2. e.id <= last
      BY <1>1, <1>2, <1>6, <2>1
    <2>3. e \in entries
      BY <1>1, <2>1, <2>2 DEF OnlyNew
    <2> QED  BY <2>1, <2>2, <2>3 DEF Matching
  <1>7. \A e \in Matching(entries', k.want), a \in k.chosen :
          e.id < a.id => e \in k.chosen
    BY <1>6 DEF GoodPickup
  <1>8. \A e \in Matching(entries', k.want), a \in k.answer :
          (e.id \in IdsOf(bodies') /\ e.id < a.id) => e \in k.answer
    <2> SUFFICES ASSUME NEW e \in Matching(entries', k.want), NEW a \in k.answer,
                        e.id \in IdsOf(bodies'), e.id < a.id
                 PROVE  e \in k.answer
      OBVIOUS
    <2>1. e \in Matching(entries, k.want) /\ e.id <= last /\ e.id \in Nat
      BY <1>6
    <2>2. e.id \in IdsOf(bodies)
      BY <1>1, <2>1 DEF OnlyNew
    <2> QED  BY <2>1, <2>2 DEF GoodPickup
  <1> QED  BY <1>3, <1>5, <1>7, <1>8 DEF GoodPickup, Matching

(* A pickup that holds nothing is good.                                    *)
LEMMA EmptyGood ==
    ASSUME NEW k, k.chosen = {}, k.answer = {}, k.orphans = {}
    PROVE  GoodPickup(k) /\ GoodPickup(k)'
  BY DEF GoodPickup

LEMMA PickersKept ==
    ASSUME IInv, QueueInv', OnlyNew, picker' = picker
    PROVE  IInv'
  <1>1. TypeInv' /\ QueueType /\ QueueType'
    BY DEF IInv, TypeInv, QueueInv
  <1>2. ASSUME NEW p \in Pickers PROVE GoodPickup(picker[p])'
    <2>1. PICK k \in Pickups : k = picker[p]
      BY DEF IInv, TypeInv
    <2>2. GoodPickup(k)
      BY <2>1 DEF IInv, PickerInv
    <2>3. GoodPickup(k)'
      BY <1>1, <2>2, GoodKept
    <2>4. picker'[p] = k
      BY <2>1
    <2> QED  BY <2>3, <2>4 DEF GoodPickup
  <1> QED  BY <1>1, <1>2 DEF IInv, QueueInv, PickerInv

LEMMA PickerSet ==
    ASSUME IInv, QueueInv', OnlyNew, NEW p \in Pickers, NEW k \in Pickups, GoodPickup(k),
           picker' = [picker EXCEPT ![p] = k]
    PROVE  IInv'
  <1>1. TypeInv' /\ QueueType /\ QueueType'
    BY DEF IInv, TypeInv, QueueInv
  <1>2. ASSUME NEW q \in Pickers PROVE GoodPickup(picker[q])'
    <2>1. PICK j \in Pickups : j = picker'[q] /\ (j = picker[q] \/ j = k)
      BY DEF IInv, TypeInv
    <2>2. GoodPickup(j)
      BY <2>1 DEF IInv, PickerInv
    <2>3. GoodPickup(j)'
      BY <1>1, <2>2, GoodKept
    <2> QED  BY <2>1, <2>3 DEF GoodPickup
  <1> QED  BY <1>1, <1>2 DEF IInv, QueueInv, PickerInv

-----------------------------------------------------------------------------
(* The steps of a pickup.                                                  *)

LEMMA FirstClosed ==
    ASSUME NEW S \in SUBSET Entries, IsFiniteSet(S), NEW n \in Nat,
           NEW a \in First(S, n), NEW e \in S, e.id < a.id
    PROVE  e \in First(S, n)
  <1> DEFINE A == {f \in S : f.id < e.id}
             B == {f \in S : f.id < a.id}
  <1>1. Cardinality(B) < n /\ a \in S
    BY DEF First
  <1>2. \A f \in S : f.id \in Nat
    BY DEF Entries
  <1>3. A \subseteq B /\ B \subseteq S
    BY <1>1, <1>2
  <1>4. IsFiniteSet(B) /\ Cardinality(B) \in Nat
    BY <1>3, FS_Subset, FS_CardinalityType
  <1>5. Cardinality(A) <= Cardinality(B) /\ Cardinality(A) \in Nat
    BY <1>3, <1>4, FS_Subset, FS_CardinalityType
  <1>6. Cardinality(A) < n
    BY <1>1, <1>4, <1>5
  <1> QED  BY <1>6 DEF First

LEMMA PickupType ==
    ASSUME IInv, NEW p \in Pickers
    PROVE  /\ picker[p] \in Pickups /\ GoodPickup(picker[p])
           /\ picker \in [Pickers -> Pickups]
  BY DEF IInv, TypeInv, PickerInv

(* A pickup that begins, or ends with a status, holds nothing.             *)
LEMMA FreshPickup ==
    ASSUME NEW k, NEW pc \in {"idle", "range", "status"}, NEW want \in Recipients \union {Anyone},
           NEW limit \in Nat,
           k = [pc |-> pc, want |-> want, limit |-> limit,
                chosen |-> {}, answer |-> {}, orphans |-> {}]
    PROVE  k \in Pickups /\ GoodPickup(k)
  <1>1. PICK none : none = {}
    OBVIOUS
  <1>2. k = [pc |-> pc, want |-> want, limit |-> limit,
             chosen |-> none, answer |-> none, orphans |-> none]
    BY <1>1
  <1>3. k.chosen = none /\ k.answer = none /\ k.orphans = none
    BY ONLY <1>2
  <1>4. k \in Pickups
    BY DEF Pickups
  <1> QED  BY <1>1, <1>3, <1>4, EmptyGood

LEMMA StatusPickup ==
    /\ Idle \in Pickups /\ GoodPickup(Idle)
    /\ [Idle EXCEPT !.pc = "status"] \in Pickups
    /\ GoodPickup([Idle EXCEPT !.pc = "status"])
  <1>1. PICK k : k = [Idle EXCEPT !.pc = "status"]
    OBVIOUS
  <1>2. PICK idle : idle = Idle
    OBVIOUS
  <1>3. k = [pc |-> "status", want |-> Anyone, limit |-> 0,
             chosen |-> {}, answer |-> {}, orphans |-> {}]
    BY <1>1 DEF Idle
  <1>4. idle = [pc |-> "idle", want |-> Anyone, limit |-> 0,
                chosen |-> {}, answer |-> {}, orphans |-> {}]
    BY <1>2 DEF Idle
  <1>5. k \in Pickups /\ GoodPickup(k)
    BY <1>3, FreshPickup
  <1>6. idle \in Pickups /\ GoodPickup(idle)
    BY <1>4, FreshPickup
  <1> QED  BY <1>1, <1>2, <1>5, <1>6

LEMMA StartPeekStep ==
    ASSUME IInv, NEW p \in Pickers, NEW want \in Wants, NEW limit \in Limits,
           NEW lag \in 0 .. MaxLag, StartPeek(p, want, limit, lag)
    PROVE  IInv' /\ UNCHANGED <<clock, last, Mail, acked, era>>
  <1>1. PICK k : k = [Idle EXCEPT !.pc = "range", !.want = want, !.limit = limit]
    OBVIOUS
  <1>2. /\ Trim(lag) /\ picker' = [picker EXCEPT ![p] = k]
        /\ clock' = clock /\ last' = last /\ acked' = acked /\ era' = era
    BY <1>1 DEF StartPeek
  <1>3. QueueInv' /\ OnlyNew /\ Mail' = Mail
    BY <1>2, TrimFacts
  <1>4. want \in Recipients \union {Anyone} /\ limit \in Nat
    BY RedisQueueAssumption
  <1>5. k = [pc |-> "range", want |-> want, limit |-> limit,
             chosen |-> {}, answer |-> {}, orphans |-> {}]
    BY <1>1 DEF Idle
  <1>6. k \in Pickups /\ GoodPickup(k)
    BY <1>4, <1>5, FreshPickup
  <1> QED  BY <1>2, <1>3, <1>6, PickerSet

LEMMA XRangeStep ==
    ASSUME IInv, NEW p \in Pickers, XRange(p)
    PROVE  IInv' /\ UNCHANGED <<clock, last, Mail, acked, era>>
  <1>1. PICK chosen : chosen = First(Matching(entries, picker[p].want), picker[p].limit)
    OBVIOUS
  <1>2. PICK old : old = picker[p]
    OBVIOUS
  <1>3. PICK k : k = [old EXCEPT !.pc = "mget", !.limit = 0, !.chosen = chosen]
    OBVIOUS
  <1>4. old \in Pickups /\ GoodPickup(old) /\ picker \in [Pickers -> Pickups]
    BY <1>2, PickupType
  <1>5. /\ UNCHANGED queue /\ clock' = clock /\ last' = last /\ acked' = acked /\ era' = era
        /\ picker' = IF chosen = {}
                       THEN [picker EXCEPT ![p] = [Idle EXCEPT !.pc = "status"]]
                       ELSE [picker EXCEPT ![p].pc = "mget", ![p].limit = 0,
                                            ![p].chosen = chosen]
    BY <1>1 DEF XRange
  <1>6. QueueInv' /\ OnlyNew /\ Mail' = Mail
    BY <1>5, QueueUnchanged
  <1>7. CASE chosen = {}
    BY <1>5, <1>6, <1>7, StatusPickup, PickerSet
  <1>8. CASE chosen # {}
    <2> DEFINE S == Matching(entries, old.want)
    <2>1. S \subseteq entries /\ entries \in SUBSET Entries /\ IsFiniteSet(entries)
      BY DEF Matching, IInv, TypeInv, QueueType
    <2>2. S \in SUBSET Entries /\ IsFiniteSet(S)
      BY <2>1, FS_Subset
    <2>3. old.limit \in Nat /\ chosen = First(S, old.limit) /\ chosen \subseteq S
      BY <1>1, <1>2, <1>4 DEF Pickups, First
    <2>4. \A e \in S, a \in chosen : e.id < a.id => e \in chosen
      BY <2>2, <2>3, FirstClosed
    <2>5. chosen \in SUBSET Entries /\ \A e \in chosen : 1 <= e.id /\ e.id <= last
      BY <2>1, <2>2, <2>3 DEF IInv, EntryInv
    <2>6. k \in Pickups
      BY ONLY <1>3, <1>4, <2>5 DEF Pickups
    <2>7. /\ k.chosen = chosen /\ k.answer = old.answer /\ k.orphans = old.orphans
          /\ k.want = old.want
      BY ONLY <1>3, <1>4 DEF Pickups
    <2>8. GoodPickup(k)
      BY <1>4, <2>4, <2>5, <2>7 DEF GoodPickup
    <2>9. picker' = [picker EXCEPT ![p] = k]
      BY <1>2, <1>3, <1>4, <1>5, <1>8
    <2> QED  BY <1>5, <1>6, <2>6, <2>8, <2>9, PickerSet
  <1> QED  BY <1>7, <1>8

LEMMA MGetStep ==
    ASSUME IInv, NEW p \in Pickers, MGet(p)
    PROVE  IInv' /\ UNCHANGED <<clock, last, Mail, acked, era>>
  <1>1. PICK old : old = picker[p]
    OBVIOUS
  <1>2. PICK answer : answer = {e \in old.chosen : e.id \in IdsOf(bodies)}
    OBVIOUS
  <1>3. PICK orphans : orphans = IdsOf(old.chosen) \ IdsOf(bodies)
    OBVIOUS
  <1>4. PICK k : k = [old EXCEPT !.pc = "orphans", !.answer = answer,
                                 !.orphans = orphans, !.chosen = {}]
    OBVIOUS
  <1>5. old \in Pickups /\ GoodPickup(old) /\ picker \in [Pickers -> Pickups]
    BY <1>1, PickupType
  <1>6. /\ UNCHANGED queue /\ clock' = clock /\ last' = last /\ acked' = acked /\ era' = era
        /\ picker' = [picker EXCEPT ![p].pc = "orphans", ![p].answer = answer,
                                    ![p].orphans = orphans, ![p].chosen = {}]
    BY <1>1, <1>2, <1>3 DEF MGet, Missing
  <1>7. QueueInv' /\ OnlyNew /\ Mail' = Mail
    BY <1>6, QueueUnchanged
  <1>8. old.chosen \in SUBSET Entries /\ \A e \in old.chosen : e.id \in Nat
    BY <1>5 DEF Pickups, Entries
  <1>9. answer \in SUBSET Entries /\ orphans \in SUBSET Nat
    BY <1>2, <1>3, <1>8 DEF IdsOf
  <1>10. k \in Pickups
    BY ONLY <1>4, <1>5, <1>9 DEF Pickups
  <1>11. k.answer = answer /\ k.orphans = orphans /\ k.chosen = {} /\ k.want = old.want
    BY ONLY <1>4, <1>5 DEF Pickups
  <1>12. GoodPickup(k)
    <2>1. \A e \in answer : 1 <= e.id /\ e.id <= last
      BY <1>2, <1>5 DEF GoodPickup
    <2>2. \A i \in orphans : 1 <= i /\ i <= last /\ i \notin IdsOf(bodies)
      BY <1>3, <1>5 DEF GoodPickup, IdsOf
    <2>3. \A e \in Matching(entries, old.want), a \in answer :
            (e.id \in IdsOf(bodies) /\ e.id < a.id) => e \in answer
      BY <1>2, <1>5 DEF GoodPickup
    <2> QED  BY <1>11, <2>1, <2>2, <2>3 DEF GoodPickup
  <1>13. picker' = [picker EXCEPT ![p] = k]
    BY <1>1, <1>4, <1>5, <1>6
  <1> QED  BY <1>6, <1>7, <1>10, <1>12, <1>13, PickerSet

(* What is cleared away was no mail any more.                              *)
LEMMA RemoveOrphansStep ==
    ASSUME IInv, NEW p \in Pickers, RemoveOrphans(p)
    PROVE  IInv' /\ UNCHANGED <<clock, last, Mail, acked, era>>
  <1>1. PICK old : old = picker[p]
    OBVIOUS
  <1>2. PICK k : k = [old EXCEPT !.pc = "delivered", !.orphans = {}]
    OBVIOUS
  <1>3. old \in Pickups /\ GoodPickup(old) /\ picker \in [Pickers -> Pickups]
    BY <1>1, PickupType
  <1>4. /\ RemoveIds(old.orphans)
        /\ clock' = clock /\ last' = last /\ acked' = acked /\ era' = era
        /\ picker' = IF old.answer = {}
                       THEN [picker EXCEPT ![p] = [Idle EXCEPT !.pc = "status"]]
                       ELSE [picker EXCEPT ![p].pc = "delivered", ![p].orphans = {}]
    BY <1>1 DEF RemoveOrphans
  <1>5. QueueInv' /\ OnlyNew /\ Mail' = {e \in Mail : e.id \notin old.orphans}
    BY <1>4, RemoveFacts
  <1>6. Mail' = Mail
    BY <1>3, <1>5 DEF Mail, GoodPickup
  <1>7. CASE old.answer = {}
    BY <1>4, <1>5, <1>6, <1>7, StatusPickup, PickerSet
  <1>8. CASE old.answer # {}
    <2>1. {} \in SUBSET Nat
      OBVIOUS
    <2>2. k \in Pickups
      BY ONLY <1>2, <1>3, <2>1 DEF Pickups
    <2>3. k.answer = old.answer /\ k.orphans = {} /\ k.chosen = old.chosen /\ k.want = old.want
      BY ONLY <1>2, <1>3 DEF Pickups
    <2>4. GoodPickup(k)
      BY <1>3, <2>3 DEF GoodPickup
    <2>5. picker' = [picker EXCEPT ![p] = k]
      BY <1>1, <1>2, <1>3, <1>4, <1>8
    <2> QED  BY <1>4, <1>5, <1>6, <2>2, <2>4, <2>5, PickerSet
  <1> QED  BY <1>7, <1>8

(* A pickup that only moves on stays good.                                 *)
LEMMA MovedOn ==
    ASSUME IInv, QueueInv', OnlyNew, NEW p \in Pickers, NEW pc \in {"delivered", "status"},
           picker' = [picker EXCEPT ![p].pc = pc]
    PROVE  IInv'
  <1>1. PICK old : old = picker[p]
    OBVIOUS
  <1>2. PICK k : k = [old EXCEPT !.pc = pc]
    OBVIOUS
  <1>3. old \in Pickups /\ GoodPickup(old) /\ picker \in [Pickers -> Pickups]
    BY <1>1, PickupType
  <1>4. k \in Pickups
    BY ONLY <1>2, <1>3, pc \in {"delivered", "status"} DEF Pickups
  <1>5. k.answer = old.answer /\ k.orphans = old.orphans /\ k.chosen = old.chosen
        /\ k.want = old.want
    BY ONLY <1>2, <1>3 DEF Pickups
  <1>6. GoodPickup(k)
    BY <1>3, <1>5 DEF GoodPickup
  <1>7. picker' = [picker EXCEPT ![p] = k]
    BY <1>1, <1>2, <1>3
  <1> QED  BY <1>4, <1>6, <1>7, PickerSet

LEMMA AcknowledgeStep ==
    ASSUME IInv, NEW p \in Pickers, Acknowledge(p)
    PROVE  /\ IInv' /\ UNCHANGED <<clock, last, era>>
           /\ IdsOf(picker[p].answer) \in SUBSET (1 .. last)
           /\ acked' = acked \union IdsOf(picker[p].answer)
           /\ Mail' = {e \in Mail : e.id \notin IdsOf(picker[p].answer)}
  <1>1. PICK ids : ids = IdsOf(picker[p].answer)
    OBVIOUS
  <1>2. /\ RemoveIds(ids) /\ clock' = clock /\ last' = last /\ era' = era
        /\ acked' = acked \union ids /\ picker' = [picker EXCEPT ![p].pc = "status"]
    BY <1>1 DEF Acknowledge
  <1>3. QueueInv' /\ OnlyNew /\ Mail' = {e \in Mail : e.id \notin ids}
    BY <1>2, RemoveFacts
  <1>4. IInv'
    BY <1>2, <1>3, MovedOn
  <1>5. ids \in SUBSET (1 .. last)
    <2>1. picker[p] \in Pickups /\ GoodPickup(picker[p]) /\ last \in Nat
      BY PickupType DEF IInv, TypeInv, QueueType
    <2>2. \A e \in picker[p].answer : e.id \in Nat /\ 1 <= e.id /\ e.id <= last
      BY <2>1 DEF Pickups, Entries, GoodPickup
    <2> QED  BY <1>1, <2>1, <2>2 DEF IdsOf
  <1> QED  BY <1>1, <1>2, <1>3, <1>4, <1>5

LEMMA OtherPickerSteps ==
    ASSUME IInv, NEW p \in Pickers,
           Forget(p) \/ AcknowledgeAgain(p) \/ \E lag \in 0 .. MaxLag : Status(p, lag)
    PROVE  IInv' /\ UNCHANGED <<clock, last, Mail, acked, era>>
  <1>1. CASE Forget(p)
    <2>1. /\ UNCHANGED <<clock, last, queue, acked, era>> /\ picker' = [picker EXCEPT ![p] = Idle]
      BY <1>1 DEF Forget
    <2>2. QueueInv' /\ OnlyNew /\ Mail' = Mail
      BY <2>1, QueueUnchanged
    <2> QED  BY <2>1, <2>2, StatusPickup, PickerSet
  <1>2. CASE AcknowledgeAgain(p)
    <2>1. /\ UNCHANGED <<clock, last, queue, acked, era>>
          /\ picker' = [picker EXCEPT ![p].pc = "delivered"]
      BY <1>2 DEF AcknowledgeAgain
    <2>2. QueueInv' /\ OnlyNew /\ Mail' = Mail
      BY <2>1, QueueUnchanged
    <2> QED  BY <2>1, <2>2, MovedOn
  <1>3. ASSUME NEW lag \in 0 .. MaxLag, Status(p, lag)
        PROVE  IInv' /\ UNCHANGED <<clock, last, Mail, acked, era>>
    <2>1. /\ Trim(lag) /\ UNCHANGED <<clock, last, acked, era>>
          /\ picker' = [picker EXCEPT ![p] = Idle]
      BY <1>3 DEF Status
    <2>2. QueueInv' /\ OnlyNew /\ Mail' = Mail
      BY <2>1, TrimFacts
    <2> QED  BY <2>1, <2>2, StatusPickup, PickerSet
  <1> QED  BY <1>1, <1>2, <1>3

-----------------------------------------------------------------------------
(* The theorems.                                                           *)

LEMMA InitInv == Init => IInv
  <1> SUFFICES ASSUME Init PROVE IInv
    OBVIOUS
  <1>1. QueueType
    BY LifetimeType, FS_EmptySet DEF Init, QueueType
  <1>2. TypeInv
    BY <1>1, StatusPickup DEF Init, TypeInv
  <1>3. PickerInv
    BY StatusPickup DEF Init, PickerInv
  <1>4. EntryInv /\ BodyInv
    BY DEF Init, EntryInv, BodyInv
  <1>5. CountWithinLimit
    BY FS_EmptySet, RedisQueueAssumption DEF Init, CountWithinLimit
  <1> QED  BY <1>2, <1>3, <1>4, <1>5 DEF IInv

(* Each step keeps the invariant, and is a step of the mailbox or leaves   *)
(* the mail as it is.                                                      *)
LEMMA NextInv ==
    ASSUME IInv, [Next]_vars
    PROVE  IInv' /\ [Promise!MailNext]_(Promise!mailVars)
  <1>1. ASSUME UNCHANGED <<clock, last, Mail, acked, era>>
        PROVE  [Promise!MailNext]_(Promise!mailVars)
    BY <1>1 DEF Promise!mailVars
  <1>2. CASE UNCHANGED vars
    <2>1. UNCHANGED <<clock, last, queue, acked, era>> /\ picker' = picker
      BY <1>2 DEF vars, queue
    <2>2. QueueInv' /\ OnlyNew /\ Mail' = Mail
      BY <2>1, QueueUnchanged
    <2>3. IInv'
      BY <2>1, <2>2, PickersKept
    <2> QED  BY <1>1, <2>1, <2>2, <2>3
  <1>3. CASE Tick
    <2>1. /\ QueueInv' /\ OnlyNew /\ Mail' \subseteq Mail
          /\ \A e \in Mail \ Mail' : e.at + Lifetime < clock'
      BY <1>3, TickFacts
    <2>2. /\ clock < MaxTime /\ clock' = clock + 1 /\ last' = last /\ acked' = acked
          /\ era' = era /\ picker' = picker
      BY <1>3 DEF Tick
    <2>3. IInv'
      BY <2>1, <2>2, PickersKept
    <2>4. clock' <= MaxTime
      BY <2>2, RedisQueueAssumption DEF IInv, TypeInv, QueueType
    <2>5. Promise!Age
      BY <2>1, <2>2, <2>4 DEF Promise!Age, Promise!OnlyExpiredGone, Promise!Expired
    <2> QED  BY <2>3, <2>5 DEF Promise!MailNext
  <1>4. CASE RemoveMediation
    <2>1. QueueInv' /\ OnlyNew /\ Mail' = {}
      BY <1>4, RemoveMediationFacts
    <2>2. /\ era < MaxRemovals /\ era' = era + 1 /\ clock' = clock /\ last' = last
          /\ acked' = acked /\ picker' = picker
      BY <1>4 DEF RemoveMediation
    <2>3. IInv'
      BY <2>1, <2>2, PickersKept
    <2>4. Promise!Close
      BY <2>1, <2>2 DEF Promise!Close
    <2> QED  BY <2>3, <2>4 DEF Promise!MailNext
  <1>5. ASSUME NEW to \in Recipients, NEW size \in Sizes, NEW lag \in 0 .. MaxLag,
               Enqueue(to, size, lag)
        PROVE  IInv' /\ [Promise!MailNext]_(Promise!mailVars)
    <2>1. /\ QueueInv' /\ OnlyNew
          /\ clock' = clock /\ acked' = acked /\ era' = era
          /\ \/ Mail' = Mail /\ last' = last
             \/ /\ last < MaxPuts /\ last' = last + 1
                /\ Cardinality(Mail) < MaxMessages
                /\ Mail' = Mail \union
                     {[id |-> last + 1, to |-> to, size |-> size, at |-> clock]}
      BY <1>5, EnqueueFacts
    <2>2. picker' = picker
      BY <1>5 DEF Enqueue
    <2>3. IInv'
      BY <2>1, <2>2, PickersKept
    <2>4. CASE Mail' = Mail /\ last' = last
      BY <1>1, <2>1, <2>3, <2>4
    <2>5. CASE /\ last < MaxPuts /\ last' = last + 1
               /\ Cardinality(Mail) < MaxMessages
               /\ Mail' = Mail \union
                    {[id |-> last + 1, to |-> to, size |-> size, at |-> clock]}
      <3>1. Promise!Put(to, size, Mail)
        <4>1. Promise!Cardinality(Mail) = Cardinality(Mail)
          BY DEF Promise!Cardinality, Cardinality
        <4> QED  BY <2>1, <2>5, <4>1 DEF Promise!Put, Promise!OnlyExpiredGone
      <3>2. Mail \in SUBSET Mail
        OBVIOUS
      <3> QED  BY <2>3, <3>1, <3>2 DEF Promise!MailNext
    <2> QED  BY <2>1, <2>4, <2>5
  <1>6. ASSUME NEW p \in Pickers, PickerStep(p) \/ Forget(p) \/ AcknowledgeAgain(p)
        PROVE  IInv' /\ [Promise!MailNext]_(Promise!mailVars)
    <2>1. CASE Acknowledge(p)
      <3>1. /\ IInv' /\ UNCHANGED <<clock, last, era>>
            /\ IdsOf(picker[p].answer) \in SUBSET (1 .. last)
            /\ acked' = acked \union IdsOf(picker[p].answer)
            /\ Mail' = {e \in Mail : e.id \notin IdsOf(picker[p].answer)}
        BY <2>1, AcknowledgeStep
      <3>2. Promise!Acknowledge(IdsOf(picker[p].answer))
        BY <3>1 DEF Promise!Acknowledge
      <3> QED  BY <3>1, <3>2 DEF Promise!MailNext
    <2>2. CASE ~Acknowledge(p)
      <3>1. IInv' /\ UNCHANGED <<clock, last, Mail, acked, era>>
        BY <1>6, <2>2, StartPeekStep, XRangeStep, MGetStep, RemoveOrphansStep, OtherPickerSteps
           DEF PickerStep
      <3> QED  BY <1>1, <3>1
    <2> QED  BY <2>1, <2>2
  <1> QED  BY <1>2, <1>3, <1>4, <1>5, <1>6 DEF Next

(* The invariant holds in every reachable state, for any TTL, clock        *)
(* resolution, limits and number of connections.                           *)
THEOREM Invariance == Spec => []IInv
  <1>1. IInv /\ [Next]_vars => IInv'
    BY NextInv
  <1> QED  BY <1>1, InitInv, PTL DEF Spec

(* A message body in Redis always has its stream entry, so that it can be  *)
(* delivered and deleted: trims by whole seconds, the expiry of three      *)
(* kinds of keys, and removals by several connections never part them.     *)
THEOREM BodiesHaveEntries == Spec => []NoBodyLost
  <1>1. IInv => NoBodyLost
    BY DEF IInv, BodyInv, NoBodyLost, IdsOf
  <1> QED  BY <1>1, Invariance, PTL

(* A delivery leaves out no older message that still waits and matches,    *)
(* whatever other connections do between the four calls of a peek.         *)
THEOREM DeliveredInOrder == Spec => []OldestFirst
  <1>1. IInv => OldestFirst
    BY DEF IInv, PickerInv, GoodPickup, OldestFirst
  <1> QED  BY <1>1, Invariance, PTL

(* The counter and the entries.                                            *)
BytesInv == BytesInStep /\ SizeOf(entries) <= MaxBytes

(* uncount takes off exactly what goes: it never meets its floor at zero.  *)
LEMMA UncountExact ==
    ASSUME IInv, BytesInv, NEW gone \in SUBSET entries
    PROVE  /\ Uncount(SizeOf(gone)) = SizeOf(entries \ gone)
           /\ SizeOf(entries \ gone) \in Nat /\ SizeOf(entries \ gone) <= MaxBytes
  <1>1. Sized(entries)
    BY RedisQueueAssumption DEF IInv, TypeInv, QueueType, Entries, Sized
  <1>2. /\ SizeOf(entries) = SizeOf(gone) + SizeOf(entries \ gone)
        /\ SizeOf(gone) \in Nat /\ SizeOf(entries \ gone) \in Nat
    BY <1>1, SizeSplit
  <1>3. bytes = SizeOf(entries) /\ SizeOf(entries) <= MaxBytes /\ MaxBytes \in Nat
    BY RedisQueueAssumption DEF BytesInv, BytesInStep
  <1> QED  BY <1>2, <1>3 DEF Uncount

LEMMA BytesShrink ==
    ASSUME IInv, BytesInv, NEW gone \in SUBSET entries,
           entries' = entries \ gone, bytes' = Uncount(SizeOf(gone))
    PROVE  BytesInv'
  BY UncountExact DEF BytesInv, BytesInStep

LEMMA BytesEmpty ==
    ASSUME entries' = {}, bytes' = 0
    PROVE  BytesInv'
  <1>1. SizeOf(entries') = 0
    BY SizeEquation, FS_EmptySet
  <1> QED  BY <1>1, RedisQueueAssumption DEF BytesInv, BytesInStep

LEMMA TrimBytes ==
    ASSUME IInv, BytesInv, NEW lag, Trim(lag)
    PROVE  BytesInv'
  <1>1. Old(lag) \in SUBSET entries
    BY DEF Old
  <1> QED  BY <1>1, BytesShrink DEF Trim

LEMMA RemoveBytes ==
    ASSUME IInv, BytesInv, NEW ids, RemoveIds(ids)
    PROVE  BytesInv'
  <1> DEFINE gone == {e \in entries : e.id \in ids}
  <1>1. gone \in SUBSET entries
    OBVIOUS
  <1>2. entries' = entries \ gone /\ bytes' = Uncount(SizeOf(gone))
    BY DEF RemoveIds
  <1> HIDE DEF gone
  <1> QED  BY <1>1, <1>2, BytesShrink

LEMMA EnqueueBytes ==
    ASSUME IInv, BytesInv, NEW to \in Recipients, NEW size \in Sizes,
           NEW lag \in 0 .. MaxLag, Enqueue(to, size, lag)
    PROVE  BytesInv'
  <1>1. PICK kept : kept = entries \ Old(lag)
    OBVIOUS
  <1>2. PICK used : used = Uncount(SizeOf(Old(lag)))
    OBVIOUS
  <1>3. Old(lag) \in SUBSET entries
    BY DEF Old
  <1>4. used = SizeOf(kept) /\ used \in Nat /\ used <= MaxBytes
    BY <1>1, <1>2, <1>3, UncountExact
  <1>5. CASE ~HasRoom(kept, used, size)
    <2>1. entries' = kept /\ bytes' = used
      BY <1>1, <1>2, <1>5 DEF Enqueue
    <2> QED  BY <1>4, <2>1 DEF BytesInv, BytesInStep
  <1>6. CASE HasRoom(kept, used, size)
    <2>1. PICK new : new = [id |-> last + 1, to |-> to, size |-> size, at |-> clock]
      OBVIOUS
    <2>2. entries' = kept \union {new} /\ bytes' = used + size
      BY <1>1, <1>2, <1>6, <2>1 DEF Enqueue
    <2>3. new.size = size /\ new.id = last + 1 /\ size \in Nat
      BY <2>1, RedisQueueAssumption
    <2>4. \A e \in entries : e.id \in Nat /\ e.id <= last /\ e.size \in Nat
      BY RedisQueueAssumption DEF IInv, TypeInv, QueueType, Entries, EntryInv
    <2>5. new \notin kept
      BY <1>1, <2>3, <2>4 DEF IInv, TypeInv, QueueType
    <2>6. Sized(entries')
      <3>1. IsFiniteSet(kept)
        BY <1>1, FS_Subset DEF IInv, TypeInv, QueueType
      <3> QED  BY <1>1, <2>2, <2>3, <2>4, <3>1, FS_AddElement DEF Sized
    <2>7. SizeOf(entries') = new.size + SizeOf(kept)
      <3>1. new \in entries' /\ entries' \ {new} = kept
        BY <2>2, <2>5
      <3> QED  BY <2>6, <3>1, SizeTake
    <2>8. used + size <= MaxBytes
      BY <1>6 DEF HasRoom
    <2> QED  BY <1>4, <2>2, <2>3, <2>7, <2>8 DEF BytesInv, BytesInStep
  <1> QED  BY <1>5, <1>6

LEMMA NextBytes ==
    ASSUME IInv, BytesInv, [Next]_vars
    PROVE  BytesInv'
  <1>1. ASSUME UNCHANGED queue PROVE BytesInv'
    BY <1>1 DEF queue, BytesInv, BytesInStep
  <1>2. CASE UNCHANGED vars
    BY <1>1, <1>2 DEF vars, queue
  <1>3. CASE Tick
    <2>1. CASE clock' > expires
      BY <1>3, <2>1, BytesEmpty DEF Tick
    <2>2. CASE ~(clock' > expires)
      BY <1>3, <2>2 DEF Tick, BytesInv, BytesInStep
    <2> QED  BY <2>1, <2>2
  <1>4. CASE RemoveMediation
    BY <1>4, BytesEmpty DEF RemoveMediation
  <1>5. ASSUME NEW to \in Recipients, NEW size \in Sizes, NEW lag \in 0 .. MaxLag,
               Enqueue(to, size, lag)
        PROVE  BytesInv'
    BY <1>5, EnqueueBytes
  <1>6. ASSUME NEW p \in Pickers, PickerStep(p) \/ Forget(p) \/ AcknowledgeAgain(p)
        PROVE  BytesInv'
    <2>1. CASE \E want \in Wants, limit \in Limits, lag \in 0 .. MaxLag :
                 StartPeek(p, want, limit, lag)
      BY <2>1, TrimBytes DEF StartPeek
    <2>2. CASE XRange(p) \/ MGet(p) \/ Forget(p) \/ AcknowledgeAgain(p)
      BY <1>1, <2>2 DEF XRange, MGet, Forget, AcknowledgeAgain
    <2>3. CASE RemoveOrphans(p) \/ Acknowledge(p)
      BY <2>3, RemoveBytes DEF RemoveOrphans, Acknowledge
    <2>4. CASE \E lag \in 0 .. MaxLag : Status(p, lag)
      BY <2>4, TrimBytes DEF Status
    <2> QED  BY <1>6, <2>1, <2>2, <2>3, <2>4 DEF PickerStep
  <1> QED  BY <1>2, <1>3, <1>4, <1>5, <1>6 DEF Next

LEMMA BytesAlways == Spec => []BytesInv
  <1>1. Init => BytesInv
    <2> SUFFICES ASSUME Init PROVE BytesInv
      OBVIOUS
    <2>1. SizeOf(entries) = 0
      BY SizeEquation, FS_EmptySet DEF Init
    <2> QED  BY <2>1, RedisQueueAssumption DEF Init, BytesInv, BytesInStep
  <1>2. IInv /\ BytesInv /\ [Next]_vars => BytesInv'
    BY NextBytes
  <1> QED  BY <1>1, <1>2, Invariance, PTL DEF Spec

(* The byte counter is what the entries add up to, for any number of       *)
(* entries: no trim, removal, expiry or enqueue of the scripts takes off   *)
(* or adds anything else, though two connections remove the same messages. *)
THEOREM CounterInStep == Spec => []BytesInStep
  BY BytesAlways, PTL DEF BytesInv

(* The queue of a mediation never holds more messages, or more bytes, than *)
(* its limits.                                                             *)
THEOREM LimitsHold == Spec => []WithinLimits
  <1>1. IInv /\ BytesInv => WithinLimits
    BY DEF IInv, CountWithinLimit, BytesInv, WithinLimits
  <1> QED  BY <1>1, Invariance, BytesAlways, PTL

(* Redis keeps the store's promise: a message leaves only acknowledged,    *)
(* expired or with its mediation.  Every step of the queue is a step of    *)
(* the mailbox, with the entries that have a body as its mail.             *)
THEOREM RedisKeepsPromise == Spec => KeepsPromise
  <1>1. Init => Promise!MailInit
    <2> SUFFICES ASSUME Init PROVE Promise!MailInit
      OBVIOUS
    <2>1. Mail = {} /\ clock \in Nat
      BY LifetimeType DEF Init, Mail
    <2> QED  BY <2>1 DEF Init, Promise!MailInit
  <1>2. IInv /\ [Next]_vars => [Promise!MailNext]_(Promise!mailVars)
    BY NextInv
  <1> QED  BY <1>1, <1>2, Invariance, PTL DEF Spec, KeepsPromise, Promise!MailSpec

-----------------------------------------------------------------------------
(* The in-process store, with the same constants and its own use of the    *)
(* variables of the same names.                                            *)
Memory == INSTANCE MemoryQueue

(* The inductive invariant of MemoryQueue.                                 *)
MemoryInv ==
    /\ clock \in Nat
    /\ last \in Nat
    /\ entries \in SUBSET Entries
    /\ IsFiniteSet(entries)
    /\ clock <= MaxTime \/ \A e \in entries : e.at = clock

(* What the queue no longer shows has outlived its lifetime, to the tick,  *)
(* though the store compares whole seconds.                                *)
LEMMA StaleIsExpired ==
    ASSUME MemoryInv, NEW e \in entries, ~Memory!Fresh(e)
    PROVE  e.at + Memory!Lifetime < clock
  <1> DEFINE q == clock \div Second
             r == e.at \div Second
  <1>1. Second \in Nat /\ Second > 0 /\ TTL \in Nat
    BY RedisQueueAssumption
  <1>2. clock \in Nat /\ e.at \in Nat
    BY DEF MemoryInv, Entries
  <1>3. q \in Int /\ q * Second <= clock
    BY <1>1, <1>2
  <1>4. r \in Int /\ e.at < r * Second + Second
    BY <1>1, <1>2
  <1>5. ~(r >= q - TTL)
    BY DEF Memory!Fresh, Memory!Seconds
  <1>6. Memory!Lifetime = TTL * Second
    BY DEF Memory!Lifetime
  <1> HIDE DEF q, r
  <1>7. r + 1 + TTL <= q
    BY <1>1, <1>3, <1>4, <1>5
  <1>8. (r + 1 + TTL) * Second <= q * Second
    BY <1>1, <1>3, <1>4, <1>7
  <1>9. (r + 1 + TTL) * Second = (r * Second + Second) + TTL * Second
    BY <1>1, <1>4
  <1>10. TTL * Second \in Nat /\ r * Second \in Int /\ q * Second \in Int
    BY <1>1, <1>3, <1>4
  <1> QED  BY <1>1, <1>2, <1>3, <1>4, <1>6, <1>8, <1>9, <1>10

(* Each step keeps the invariant and is a step of the mailbox.             *)
LEMMA MemoryNext ==
    ASSUME MemoryInv, [Memory!Next]_(Memory!vars)
    PROVE  MemoryInv' /\ [Memory!Promise!MailNext]_(Memory!Promise!mailVars)
  <1>1. PICK shown : shown = Memory!Queue
    OBVIOUS
  <1>2. shown \subseteq entries /\ \A e \in entries \ shown : e.at + Memory!Lifetime < clock
    BY <1>1, StaleIsExpired DEF Memory!Queue
  <1>3. IsFiniteSet(shown) /\ Cardinality(shown) \in Nat
    BY <1>2, FS_Subset, FS_CardinalityType DEF MemoryInv
  <1>4. CASE UNCHANGED Memory!vars
    BY <1>4 DEF Memory!vars, MemoryInv, Memory!Promise!mailVars
  <1>5. CASE Memory!Tick
    <2>1. /\ clock < MaxTime /\ clock' = clock + 1
          /\ UNCHANGED <<last, entries, acked, era>>
      BY <1>5 DEF Memory!Tick
    <2>2. clock' <= MaxTime
      BY <2>1, RedisQueueAssumption DEF MemoryInv
    <2>3. MemoryInv'
      BY <2>1, <2>2 DEF MemoryInv
    <2>4. Memory!Promise!Age
      BY <2>1, <2>2 DEF Memory!Promise!Age, Memory!Promise!OnlyExpiredGone
    <2> QED  BY <2>3, <2>4 DEF Memory!Promise!MailNext
  <1>6. CASE Memory!RemoveMediation
    <2>1. /\ era < MaxRemovals /\ era' = era + 1 /\ entries' = {}
          /\ UNCHANGED <<clock, last, acked>>
      BY <1>6 DEF Memory!RemoveMediation
    <2>2. MemoryInv'
      BY <2>1, FS_EmptySet DEF MemoryInv
    <2>3. Memory!Promise!Close
      BY <2>1 DEF Memory!Promise!Close
    <2> QED  BY <2>2, <2>3 DEF Memory!Promise!MailNext
  <1>7. CASE Memory!Use
    <2>1. entries' = shown /\ UNCHANGED <<clock, last, acked, era>>
      BY <1>1, <1>7 DEF Memory!Use
    <2>2. MemoryInv'
      BY <1>2, <1>3, <2>1 DEF MemoryInv
    <2>3. CASE clock <= MaxTime
      <3>1. Memory!Promise!Age
        BY <1>2, <2>1, <2>3
           DEF Memory!Promise!Age, Memory!Promise!OnlyExpiredGone, Memory!Promise!Expired
      <3> QED  BY <2>2, <3>1 DEF Memory!Promise!MailNext
    <2>4. CASE \A e \in entries : e.at = clock
      <3>1. Memory!Lifetime \in Nat /\ clock \in Nat
        BY RedisQueueAssumption DEF Memory!Lifetime, MemoryInv
      <3>2. shown = entries
        BY <1>2, <2>4, <3>1
      <3> QED  BY <2>1, <2>2, <3>2 DEF Memory!Promise!mailVars
    <2> QED  BY <2>3, <2>4 DEF MemoryInv
  <1>8. ASSUME NEW to \in Recipients, NEW size \in Sizes, Memory!Enqueue(to, size)
        PROVE  MemoryInv' /\ Memory!Promise!MailNext
    <2>1. PICK new : new = [id |-> last + 1, to |-> to, size |-> size, at |-> clock]
      OBVIOUS
    <2>2. /\ last < MaxPuts /\ ~Memory!Full(size) /\ last' = last + 1
          /\ entries' = shown \union {new} /\ UNCHANGED <<clock, acked, era>>
      BY <1>1, <1>8, <2>1 DEF Memory!Enqueue
    <2>3. new \in Entries /\ new.at = clock
      BY <2>1 DEF MemoryInv, Entries
    <2>4. MemoryInv'
      <3>1. IsFiniteSet(entries')
        BY <1>3, <2>2, FS_AddElement
      <3>2. clock' <= MaxTime \/ \A e \in entries' : e.at = clock'
        BY <1>2, <2>2, <2>3 DEF MemoryInv
      <3> QED  BY <1>2, <2>2, <2>3, <3>1, <3>2 DEF MemoryInv
    <2>5. Cardinality(shown) < MaxMessages
      <3>1. Memory!Cardinality(shown) = Cardinality(shown)
        BY DEF Memory!Cardinality, Cardinality
      <3> QED  BY <1>1, <1>3, <2>2, <3>1, RedisQueueAssumption DEF Memory!Full
    <2>6. Memory!Promise!Put(to, size, shown)
      <3>1. Memory!Promise!Cardinality(shown) = Cardinality(shown)
        BY DEF Memory!Promise!Cardinality, Cardinality
      <3> QED  BY <1>2, <2>1, <2>2, <2>5, <3>1
               DEF Memory!Promise!Put, Memory!Promise!OnlyExpiredGone, Memory!Promise!Expired
    <2> QED  BY <1>2, <2>4, <2>6 DEF Memory!Promise!MailNext
  <1>9. ASSUME NEW ids \in SUBSET (1 .. last), Memory!Remove(ids)
        PROVE  MemoryInv' /\ Memory!Promise!MailNext
    <2>1. /\ entries' = {e \in entries : e.id \notin ids} /\ acked' = acked \union ids
          /\ UNCHANGED <<clock, last, era>>
      BY <1>9 DEF Memory!Remove
    <2>2. MemoryInv'
      BY <2>1, FS_Subset DEF MemoryInv
    <2>3. Memory!Promise!Acknowledge(ids)
      BY <2>1 DEF Memory!Promise!Acknowledge
    <2> QED  BY <2>2, <2>3 DEF Memory!Promise!MailNext
  <1> QED  BY <1>4, <1>5, <1>6, <1>7, <1>8, <1>9 DEF Memory!Next

(* The in-process store keeps the store's promise too: what it drops when  *)
(* the queue is used, by the second, was past its lifetime to the tick.    *)
THEOREM MemoryKeepsPromise == Memory!Spec => Memory!KeepsPromise
  <1>1. Memory!Init => MemoryInv /\ Memory!Promise!MailInit
    <2> SUFFICES ASSUME Memory!Init PROVE MemoryInv /\ Memory!Promise!MailInit
      OBVIOUS
    <2>1. clock \in Nat /\ entries = {} /\ last = 0 /\ acked = {} /\ era = 0
      BY RedisQueueAssumption DEF Memory!Init, Memory!Lifetime
    <2> QED  BY <2>1, FS_EmptySet DEF MemoryInv, Memory!Promise!MailInit
  <1>2. MemoryInv /\ [Memory!Next]_(Memory!vars)
          => MemoryInv' /\ [Memory!Promise!MailNext]_(Memory!Promise!mailVars)
    BY MemoryNext
  <1> QED  BY <1>1, <1>2, PTL DEF Memory!Spec, Memory!KeepsPromise, Memory!Promise!MailSpec
=============================================================================
