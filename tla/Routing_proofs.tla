-------------------------- MODULE Routing_proofs ---------------------------
(***************************************************************************)
(* Proofs about module Routing: a message on its way always carries a rest *)
(* of the route of its recipient's document.  From that, and from the      *)
(* consistency checks of unpack, follow the properties of the runs.        *)
(***************************************************************************)
EXTENDS Routing, SequenceTheorems, TLAPS

-----------------------------------------------------------------------------
(* The inductive invariant.                                                *)

Forwards == [to: Mediators, next: Dids]
Packets == [wraps: Seq(Forwards), core: Cores]
Messages == [at: Mediators, msg: Packets, ws: BOOLEAN,
             trail: SUBSET (Mediators \X Dids), again: BOOLEAN]

TypeInv ==
    /\ doc \in [Wallets -> Services]
    /\ \A w \in Wallets : doc[w] \in Documents[w]
    /\ registered \in [Mediators -> SUBSET Wallets]
    /\ federated \in SUBSET Mediators
    /\ wire \in SUBSET Messages
    /\ queue \in [Mediators -> [Wallets -> SUBSET Packets]]
    /\ posted \in SUBSET Cores

(* What is left of the wrapping for d from the k-th routing key on.        *)
Rest(d, k) == [i \in 1 .. Len(RoutingKeys(d)) - k + 1 |-> Wraps(d)[i + k - 1]]

(* A forward carries a message that was sent, in a rest of its route.      *)
OnRoute(r) ==
    r.msg.wraps # <<>> =>
      /\ r.msg.core \in posted
      /\ r.msg.core.to \in Wallets
      /\ \E k \in 1 .. Len(RoutingKeys(r.msg.core.to)) :
           r.msg.wraps = Rest(r.msg.core.to, k)

WireInv == \A r \in wire : OnRoute(r)

(* The request r is at the k-th mediator of the route of its message.      *)
AtKey(r, k) ==
    /\ r.at = RoutingKeys(r.msg.core.to)[k]
    /\ r.msg.wraps = Rest(r.msg.core.to, k)

(* A message is at one of the mediators of its route, or has arrived.      *)
Located(core) ==
    \/ \E r \in wire : /\ r.msg.core = core
                       /\ \E k \in 1 .. Len(RoutingKeys(core.to)) : AtKey(r, k)
    \/ Packed(<<>>, core) \in queue[EndOfRoute(core.to)][core.to]

Underway == \A core \in posted : (core.to \in Wallets /\ Reachable(core.to)) => Located(core)

IInv == TypeInv /\ WireInv /\ Underway /\ OnlyItsMail /\ OnlyAskersGetReplies

-----------------------------------------------------------------------------
(* Routes.                                                                 *)

(* The routing keys of a document are mediators; a mediator has none.      *)
LEMMA KeysType ==
    ASSUME TypeInv, NEW d \in Dids
    PROVE  /\ RoutingKeys(d) \in Seq(Mediators)
           /\ Len(RoutingKeys(d)) \in Nat
           /\ \A i \in 1 .. Len(RoutingKeys(d)) : RoutingKeys(d)[i] \in Mediators
           /\ d \in Mediators => RoutingKeys(d) = <<>> /\ Uri(d) = d
                                 /\ Service(d).kind = "http"
           /\ Service(d).kind # "none" => Uri(d) \in Mediators
  <1>1. CASE d \in Mediators
    <2>1. Service(d) = [kind |-> "http", of |-> d, hops |-> <<>>]
      BY <1>1 DEF Service
    <2>2. RoutingKeys(d) = <<>> /\ Uri(d) = d /\ Service(d).kind = "http"
      BY <2>1 DEF RoutingKeys, Uri
    <2> QED  BY <1>1, <2>2, EmptySeq
  <1>2. CASE d \notin Mediators
    <2>1. d \in Wallets /\ Service(d) = doc[d] /\ doc[d] \in Documents[d]
      BY <1>2 DEF Service, Dids, TypeInv
    <2>2. /\ Service(d) \in Services
          /\ Service(d).kind = "none" \/ Service(d).of # NoOne
      BY <2>1, RoutingAssumption
    <2>3. /\ Service(d).hops \in Seq(Mediators)
          /\ Service(d).kind # "none" => Service(d).of \in Mediators
      BY <2>2 DEF Services
    <2>4. RoutingKeys(d) \in Seq(Mediators)
      <3>1. CASE Service(d).kind = "did"
        <4>1. <<Service(d).of>> \in Seq(Mediators)
          BY <3>1, <2>3
        <4> QED  BY <3>1, <4>1, <2>3, ConcatProperties DEF RoutingKeys
      <3>2. CASE Service(d).kind # "did"
        BY <3>2, <2>3 DEF RoutingKeys
      <3> QED  BY <3>1, <3>2
    <2>5. Len(RoutingKeys(d)) \in Nat
          /\ \A i \in 1 .. Len(RoutingKeys(d)) : RoutingKeys(d)[i] \in Mediators
      BY <2>4, LenProperties, ElementOfSeq
    <2> QED  BY <1>2, <2>3, <2>4, <2>5 DEF Uri
  <1> QED  BY <1>1, <1>2

(* A function on 1 .. n is a sequence of length n.                         *)
LEMMA FunctionSeq ==
    ASSUME NEW S, NEW n \in Nat, NEW f \in [1 .. n -> S]
    PROVE  f \in Seq(S) /\ Len(f) = n
  <1>1. f \in Seq(S)
    BY SeqDef
  <1>2. Len(f) \in Nat /\ DOMAIN f = 1 .. Len(f) /\ DOMAIN f = 1 .. n
    BY <1>1, LenProperties
  <1>3. Len(f) = n
    BY <1>2
  <1> QED  BY <1>1, <1>3

LEMMA NonEmpty ==
    ASSUME NEW S, NEW s \in Seq(S), s # <<>>
    PROVE  1 \in 1 .. Len(s) /\ Len(s) \in 1 .. Len(s)
  <1>1. Len(s) \in Nat \ {0}
    BY EmptySeq
  <1> QED  BY <1>1

(* Sequences of one length with the same elements are equal.               *)
LEMMA SameSeq ==
    ASSUME NEW S, NEW n \in Nat, NEW s \in Seq(S), NEW t \in Seq(S),
           Len(s) = n, Len(t) = n, \A i \in 1 .. n : s[i] = t[i]
    PROVE  s = t
  BY SeqEqual

(* The rests of a route: the first is the whole wrapping, a mediator takes *)
(* one forward off, and after the last there is none.                      *)
LEMMA RestFacts ==
    ASSUME TypeInv, NEW d \in Dids
    PROVE  /\ Wraps(d) \in Seq(Forwards) /\ Rest(d, 1) = Wraps(d)
           /\ Len(Wraps(d)) = Len(RoutingKeys(d))
           /\ \A k \in 1 .. Len(RoutingKeys(d)) :
                /\ Rest(d, k) \in Seq(Forwards) /\ Rest(d, k) # <<>>
                /\ Head(Rest(d, k)) =
                     [to |-> RoutingKeys(d)[k],
                      next |-> IF k < Len(RoutingKeys(d)) THEN RoutingKeys(d)[k + 1] ELSE d]
                /\ k < Len(RoutingKeys(d)) => Tail(Rest(d, k)) = Rest(d, k + 1)
                /\ k = Len(RoutingKeys(d)) => Tail(Rest(d, k)) = <<>>
  <1> DEFINE keys == RoutingKeys(d)
             n == Len(keys)
             W == Wraps(d)
  <1>1. n \in Nat /\ \A i \in 1 .. n : keys[i] \in Mediators
    BY KeysType
  <1>2. W = [i \in 1 .. n |-> [to |-> keys[i], next |-> IF i < n THEN keys[i + 1] ELSE d]]
    BY DEF Wraps
  <1> HIDE DEF n, keys, W
  <1>3. \A i \in 1 .. n : (IF i < n THEN keys[i + 1] ELSE d) \in Dids
    BY <1>1 DEF Dids
  <1>4. W \in [1 .. n -> Forwards]
    BY <1>1, <1>2, <1>3 DEF Forwards
  <1>5. W \in Seq(Forwards) /\ Len(W) = n
    BY <1>1, <1>4, FunctionSeq
  <1>6. ASSUME NEW k \in 1 .. n + 1
        PROVE  /\ Rest(d, k) = [i \in 1 .. n - k + 1 |-> W[i + k - 1]]
               /\ Rest(d, k) \in [1 .. n - k + 1 -> Forwards]
               /\ Rest(d, k) \in Seq(Forwards) /\ Len(Rest(d, k)) = n - k + 1
    <2>1. Rest(d, k) = [i \in 1 .. n - k + 1 |-> W[i + k - 1]]
      BY DEF Rest, n, keys, W
    <2>2. \A i \in 1 .. n - k + 1 : W[i + k - 1] \in Forwards
      BY <1>1, <1>4
    <2>3. Rest(d, k) \in [1 .. n - k + 1 -> Forwards]
      BY <2>1, <2>2
    <2> DEFINE len == n - k + 1
    <2>4. len \in Nat
      BY <1>1
    <2>5. Rest(d, k) \in [1 .. len -> Forwards]
      BY <2>3
    <2> HIDE DEF len
    <2>6. Rest(d, k) \in Seq(Forwards) /\ Len(Rest(d, k)) = len
      BY ONLY <2>4, <2>5, FunctionSeq, Zenon
    <2> QED  BY <2>1, <2>3, <2>6 DEF len
  <1>7. Rest(d, 1) = W
    <2>1. 1 \in 1 .. n + 1 /\ n - 1 + 1 = n
      BY <1>1
    <2>2. Rest(d, 1) \in Seq(Forwards) /\ Len(Rest(d, 1)) = n
          /\ \A i \in 1 .. n : Rest(d, 1)[i] = W[i]
      <3>1. \A i \in 1 .. n : i + 1 - 1 = i
        BY <1>1
      <3>2. Rest(d, 1) \in Seq(Forwards) /\ Len(Rest(d, 1)) = n
            /\ Rest(d, 1) = [i \in 1 .. n |-> W[i + 1 - 1]]
        BY <1>6, <2>1
      <3> QED  BY <3>1, <3>2
    <2> QED  BY ONLY <1>1, <1>5, <2>2, SameSeq, Zenon
  <1>8. ASSUME NEW k \in 1 .. n
        PROVE  /\ Rest(d, k) \in Seq(Forwards) /\ Rest(d, k) # <<>>
               /\ Head(Rest(d, k)) =
                    [to |-> keys[k], next |-> IF k < n THEN keys[k + 1] ELSE d]
               /\ k < n => Tail(Rest(d, k)) = Rest(d, k + 1)
               /\ k = n => Tail(Rest(d, k)) = <<>>
    <2>1. k \in 1 .. n + 1 /\ k + 1 \in 1 .. n + 1 /\ n - k + 1 \in Nat \ {0}
      BY <1>1
    <2>2. /\ Rest(d, k) \in Seq(Forwards) /\ Len(Rest(d, k)) = n - k + 1
          /\ Rest(d, k) = [i \in 1 .. n - k + 1 |-> W[i + k - 1]]
      BY <1>6, <2>1
    <2>3. Rest(d, k) # <<>>
      BY <2>1, <2>2, EmptySeq
    <2>4. Head(Rest(d, k)) = W[k]
      <3>1. Head(Rest(d, k)) = Rest(d, k)[1]
        BY <2>2, <2>3
      <3>2. Rest(d, k)[1] = W[1 + k - 1] /\ 1 + k - 1 = k
        BY <2>1, <2>2
      <3> QED  BY <3>1, <3>2
    <2>5. /\ Rest(d, k + 1) \in Seq(Forwards) /\ Len(Rest(d, k + 1)) = n - k
          /\ \A i \in 1 .. n - k : Rest(d, k + 1)[i] = W[i + k]
      <3>1. n - (k + 1) + 1 = n - k /\ \A i \in 1 .. n - k : i + (k + 1) - 1 = i + k
        BY <1>1
      <3> QED  BY <1>6, <2>1, <3>1
    <2> DEFINE t == Tail(Rest(d, k))
    <2>6. /\ t \in Seq(Forwards)
          /\ Len(t) = Len(Rest(d, k)) - 1
          /\ \A i \in 1 .. Len(t) : t[i] = Rest(d, k)[i + 1]
      BY ONLY <2>2, <2>3, HeadTailProperties, Zenon
    <2> HIDE DEF t
    <2>7. Len(t) = n - k /\ n - k \in Nat
      BY <1>1, <2>2, <2>6
    <2>8. \A i \in 1 .. n - k : t[i] = W[i + k]
      <3> TAKE i \in 1 .. n - k
      <3>1. i + 1 \in 1 .. n - k + 1 /\ i + 1 + k - 1 = i + k
        BY <1>1
      <3> QED  BY <2>2, <2>6, <2>7, <3>1
    <2>10. t = Rest(d, k + 1)
      <3> DEFINE len == n - k
      <3>1. len \in Nat
        BY <2>7
      <3>2. /\ Rest(d, k + 1) \in Seq(Forwards) /\ Len(Rest(d, k + 1)) = len
            /\ t \in Seq(Forwards) /\ Len(t) = len
            /\ \A i \in 1 .. len : t[i] = Rest(d, k + 1)[i]
        BY <2>5, <2>6, <2>7, <2>8
      <3> HIDE DEF len
      <3> QED  BY ONLY <3>1, <3>2, SameSeq, Zenon
    <2>11. k = n => t = <<>>
      <3>1. k = n => Len(t) = 0
        BY <1>1, <2>7
      <3> QED  BY ONLY <2>6, <3>1, EmptySeq
    <2>9. W[k] = [to |-> keys[k], next |-> IF k < n THEN keys[k + 1] ELSE d]
      BY <1>2
    <2> QED  BY <2>2, <2>3, <2>4, <2>9, <2>10, <2>11 DEF t
  <1> QED  BY <1>5, <1>7, <1>8 DEF n, keys, W

-----------------------------------------------------------------------------
(* What a mediator finds in a request.                                     *)

(* A message that is not wrapped yet gets the wrapping of its route; a     *)
(* mediator is sent what there is.                                         *)
LEMMA RouteFacts ==
    ASSUME TypeInv, NEW d \in Dids, NEW c
    PROVE  /\ Route(Packed(<<>>, c), d) = Packed(Wraps(d), c)
           /\ d \in Mediators => Wraps(d) = <<>>
           /\ d \in Mediators => \A s \in Seq(Forwards) : Route(Packed(s, c), d) = Packed(s, c)
  <1>1. Wraps(d) \in Seq(Forwards) /\ Len(Wraps(d)) = Len(RoutingKeys(d))
    BY RestFacts
  <1>2. Wraps(d) \o <<>> = Wraps(d)
    BY <1>1, ConcatEmptySeq
  <1>3. Route(Packed(<<>>, c), d) = Packed(Wraps(d), c)
    BY <1>2 DEF Route, Packed
  <1>4. ASSUME d \in Mediators PROVE Wraps(d) = <<>>
    <2>1. Len(Wraps(d)) = 0
      BY <1>1, <1>4, KeysType, EmptySeq
    <2> QED  BY <1>1, <2>1, EmptySeq
  <1>5. ASSUME d \in Mediators, NEW s \in Seq(Forwards)
        PROVE  Route(Packed(s, c), d) = Packed(s, c)
    <2>1. Wraps(d) \o s = s
      BY <1>4, <1>5, ConcatEmptySeq
    <2> QED  BY <2>1 DEF Route, Packed
  <1> QED  BY <1>3, <1>4, <1>5

(* A forward that can be opened is at a mediator of its route, and next is *)
(* the mediator after it or, at the last, the recipient.                   *)
LEMMA OpensFacts ==
    ASSUME IInv, NEW r \in wire, Opens(r)
    PROVE  LET w == r.msg.core.to
               keys == RoutingKeys(w)
           IN  /\ r \in Messages /\ w \in Wallets /\ r.msg.core \in posted
               /\ NextParty(r) \in Dids
               /\ \E k \in 1 .. Len(keys) :
                    /\ AtKey(r, k)
                    /\ k < Len(keys) => /\ k + 1 \in 1 .. Len(keys)
                                        /\ NextParty(r) = keys[k + 1]
                                        /\ NextParty(r) \in Mediators
                                        /\ Payload(r) = Packed(Rest(w, k + 1), r.msg.core)
                    /\ k = Len(keys) => /\ NextParty(r) = w
                                        /\ Payload(r) = Packed(<<>>, r.msg.core)
  <1> DEFINE w == r.msg.core.to
             keys == RoutingKeys(w)
  <1>1. r \in Messages /\ r.msg \in Packets
    BY DEF IInv, TypeInv, Messages
  <1>2. r.msg.wraps # <<>> /\ Head(r.msg.wraps).to = r.at
    BY DEF Opens
  <1>3. OnRoute(r)
    BY DEF IInv, WireInv
  <1>4. r.msg.core \in posted /\ w \in Wallets /\ w \in Dids
    BY <1>2, <1>3 DEF OnRoute, Dids
  <1>5. PICK k \in 1 .. Len(keys) : r.msg.wraps = Rest(w, k)
    BY <1>2, <1>3 DEF OnRoute
  <1>6. Len(keys) \in Nat /\ \A i \in 1 .. Len(keys) : keys[i] \in Mediators
    BY <1>4, KeysType DEF IInv
  <1>7. /\ Head(r.msg.wraps) =
             [to |-> keys[k], next |-> IF k < Len(keys) THEN keys[k + 1] ELSE w]
        /\ k < Len(keys) => Tail(r.msg.wraps) = Rest(w, k + 1)
        /\ k = Len(keys) => Tail(r.msg.wraps) = <<>>
    BY <1>4, <1>5, RestFacts, ZenonT(20) DEF IInv
  <1>8. NextParty(r) = IF k < Len(keys) THEN keys[k + 1] ELSE w
    BY <1>7 DEF NextParty
  <1>9. r.at = keys[k]
    BY <1>2, <1>7
  <1>10. Payload(r) = Packed(Tail(r.msg.wraps), r.msg.core)
    <2>1. PICK a, b : r.msg = [wraps |-> a, core |-> b]
      BY <1>1 DEF Packets
    <2>2. PICK t : t = Tail(r.msg.wraps)
      OBVIOUS
    <2>3. Payload(r) = [r.msg EXCEPT !.wraps = t]
      BY <2>2 DEF Payload
    <2>4. [r.msg EXCEPT !.wraps = t] = [wraps |-> t, core |-> r.msg.core]
      BY <2>1
    <2> QED  BY <2>2, <2>3, <2>4 DEF Packed
  <1>11. k < Len(keys) => k + 1 \in 1 .. Len(keys)
    BY <1>6
  <1>12. AtKey(r, k)
    BY <1>5, <1>9 DEF AtKey
  <1>13. k < Len(keys) \/ k = Len(keys)
    BY <1>6
  <1>14. k < Len(keys) => keys[k + 1] \in Mediators
    BY <1>6, <1>11
  <1>15. k = Len(keys) => NextParty(r) = w
    BY <1>6, <1>8
  <1>16. NextParty(r) \in Dids
    BY <1>4, <1>8, <1>13, <1>14 DEF Dids
  <1> HIDE DEF keys, w
  <1>17. /\ k < Len(keys) => /\ k + 1 \in 1 .. Len(keys)
                             /\ NextParty(r) = keys[k + 1]
                             /\ NextParty(r) \in Mediators
                             /\ Payload(r) = Packed(Rest(w, k + 1), r.msg.core)
         /\ k = Len(keys) => /\ NextParty(r) = w
                             /\ Payload(r) = Packed(<<>>, r.msg.core)
    BY <1>7, <1>8, <1>10, <1>11, <1>14, <1>15
  <1> QED  BY <1>1, <1>4, <1>12, <1>16, <1>17 DEF keys, w

(* At a mediator of its route a forward opens.                             *)
LEMMA AtKeyOpens ==
    ASSUME TypeInv, NEW r, r.msg.core.to \in Wallets,
           NEW k \in 1 .. Len(RoutingKeys(r.msg.core.to)), AtKey(r, k)
    PROVE  Opens(r)
  <1>1. r.msg.core.to \in Dids
    BY DEF Dids
  <1> QED  BY <1>1, RestFacts DEF Opens, AtKey

(* Documents, registrations and federation stay, and routes with them.     *)
LEMMA ConfigKept ==
    ASSUME UNCHANGED config
    PROVE  /\ \A d : RoutingKeys(d)' = RoutingKeys(d)
           /\ \A d, k : Rest(d, k)' = Rest(d, k)
           /\ \A d : EndOfRoute(d)' = EndOfRoute(d)
           /\ \A d : Reachable(d)' = Reachable(d)
           /\ registered' = registered
  <1>1. doc' = doc /\ registered' = registered /\ federated' = federated
    BY DEF config
  <1>2. \A d : Service(d)' = Service(d)
    BY <1>1 DEF Service
  <1>3. \A d : RoutingKeys(d)' = RoutingKeys(d) /\ Uri(d)' = Uri(d)
    BY <1>2 DEF RoutingKeys, Uri
  <1>4. \A d : Wraps(d)' = Wraps(d) /\ EndOfRoute(d)' = EndOfRoute(d)
    BY <1>3 DEF Wraps, EndOfRoute
  <1>5. \A d, k : Rest(d, k)' = Rest(d, k)
    BY <1>3, <1>4 DEF Rest
  <1>6. \A d : Reachable(d)' = Reachable(d)
    BY <1>1, <1>2, <1>3, <1>4 DEF Reachable
  <1> QED  BY <1>1, <1>3, <1>4, <1>5, <1>6

-----------------------------------------------------------------------------
(* A step keeps the invariant if what it puts on the wire is on its route, *)
(* and the request it takes away is still located after it.                *)

QueueType == queue \in [Mediators -> [Wallets -> SUBSET Packets]]

LEMMA WireStep ==
    ASSUME IInv, UNCHANGED config, posted \subseteq posted', posted' \subseteq Cores,
           QueueType',
           \A r \in wire' : r \in wire \/ (r \in Messages /\ OnRoute(r)')
    PROVE  TypeInv' /\ WireInv'
  <1>1. doc' = doc /\ registered' = registered /\ federated' = federated
    BY DEF config
  <1>2. wire' \in SUBSET Messages
    BY DEF IInv, TypeInv
  <1>3. TypeInv'
    BY <1>1, <1>2 DEF IInv, TypeInv, QueueType
  <1>4. WireInv'
    <2> SUFFICES ASSUME NEW r \in wire, OnRoute(r) PROVE OnRoute(r)'
      BY DEF IInv, WireInv
    <2> QED  BY ConfigKept DEF OnRoute
  <1> QED  BY <1>3, <1>4

LEMMA UnderwayStep ==
    ASSUME IInv, UNCHANGED config,
           \A m \in Mediators, w \in Wallets : queue[m][w] \subseteq queue'[m][w],
           \A core \in posted' \ posted :
             core.to \in Wallets /\ Reachable(core.to) => Located(core)',
           \A r \in wire :
             \/ r \in wire'
             \/ (Opens(r) /\ r.msg.core.to \in Wallets /\ Reachable(r.msg.core.to))
                  => Located(r.msg.core)'
    PROVE  Underway'
  <1> SUFFICES ASSUME NEW core \in posted', core.to \in Wallets, Reachable(core.to)
               PROVE  Located(core)'
    BY ConfigKept DEF Underway
  <1>1. CASE core \notin posted
    BY <1>1
  <1>2. CASE core \in posted
    <2>1. Located(core)
      BY <1>2 DEF IInv, Underway
    <2>2. CASE Packed(<<>>, core) \in queue[EndOfRoute(core.to)][core.to]
      <3>1. EndOfRoute(core.to) \in Mediators
        <4>1. core.to \in Dids /\ TypeInv
          BY DEF Dids, IInv
        <4>2. RoutingKeys(core.to) # <<>>
          BY DEF Reachable
        <4>3. /\ RoutingKeys(core.to) \in Seq(Mediators)
              /\ Len(RoutingKeys(core.to)) \in Nat
              /\ \A i \in 1 .. Len(RoutingKeys(core.to)) : RoutingKeys(core.to)[i] \in Mediators
          BY <4>1, KeysType
        <4>4. Len(RoutingKeys(core.to)) \in 1 .. Len(RoutingKeys(core.to))
          BY <4>2, <4>3, EmptySeq
        <4> QED  BY <4>3, <4>4 DEF EndOfRoute, Last
      <3> QED  BY <2>2, <3>1, ConfigKept DEF Located
    <2>3. CASE \E r \in wire : /\ r.msg.core = core
                               /\ \E k \in 1 .. Len(RoutingKeys(core.to)) : AtKey(r, k)
      <3>1. PICK r \in wire : /\ r.msg.core = core
                              /\ \E k \in 1 .. Len(RoutingKeys(core.to)) : AtKey(r, k)
        BY <2>3
      <3>2. PICK k \in 1 .. Len(RoutingKeys(core.to)) : AtKey(r, k)
        BY <3>1
      <3>3. CASE r \notin wire'
        <4>1. Opens(r)
          BY <3>1, <3>2, <3>3, AtKeyOpens DEF IInv
        <4> QED  BY <3>1, <3>3, <4>1
      <3>4. CASE r \in wire'
        <4>1. r \in wire' /\ AtKey(r, k)'
          BY <3>2, <3>4, ConfigKept DEF AtKey
        <4>2. k \in 1 .. Len(RoutingKeys(core.to))'
          BY ConfigKept
        <4> QED  BY <3>1, <4>1, <4>2 DEF Located
      <3> QED  BY <3>3, <3>4
    <2> QED  BY <2>1, <2>2, <2>3 DEF Located
  <1> QED  BY <1>1, <1>2

LEMMA QueueKept ==
    ASSUME IInv, queue' = queue,
           \A core \in posted' \ posted : core.type = "answer" => core.asked = core.to
    PROVE  /\ QueueType'
           /\ \A m \in Mediators, w \in Wallets : queue[m][w] \subseteq queue'[m][w]
           /\ OnlyItsMail' /\ OnlyAskersGetReplies'
  BY DEF IInv, TypeInv, QueueType, OnlyItsMail, OnlyAskersGetReplies

LEMMA QueueStep ==
    ASSUME IInv, NEW m \in Mediators, NEW w \in Wallets, NEW p \in Packets,
           p.wraps = <<>>, p.core.to = w, p.core.type = "answer" => p.core.asked = w,
           queue' = [queue EXCEPT ![m][w] = @ \union {p}], posted' = posted
    PROVE  /\ QueueType'
           /\ \A n \in Mediators, v \in Wallets : queue[n][v] \subseteq queue'[n][v]
           /\ p \in queue'[m][w]
           /\ OnlyItsMail' /\ OnlyAskersGetReplies'
  <1>1. QueueType
    BY DEF IInv, TypeInv, QueueType
  <1>2. \A n \in Mediators, v \in Wallets :
          queue'[n][v] = IF n = m /\ v = w THEN queue[n][v] \union {p} ELSE queue[n][v]
    BY <1>1 DEF QueueType
  <1>3. QueueType'
    BY <1>1 DEF QueueType
  <1>4. OnlyItsMail'
    BY <1>2 DEF IInv, OnlyItsMail
  <1>5. OnlyAskersGetReplies'
    BY <1>2 DEF IInv, OnlyAskersGetReplies
  <1> QED  BY <1>2, <1>3, <1>4, <1>5

(* A reply is encrypted to the plaintext's from, which is who authcrypt    *)
(* says has asked.                                                         *)
LEMMA ReplyFacts ==
    ASSUME IInv, NEW r \in wire, SendsReply(r)
    PROVE  /\ r \in Messages /\ r.at \in Mediators
           /\ r.msg.core.from \in Dids
           /\ Reply(r.at, r.msg.core) \in Cores
           /\ Reply(r.at, r.msg.core).to = r.msg.core.from
           /\ Reply(r.at, r.msg.core).asked = r.msg.core.from
           /\ ~Opens(r)
  <1>1. r \in Messages /\ r.at \in Mediators /\ r.msg.core \in Cores
    BY DEF IInv, TypeInv, Messages, Packets
  <1>2. /\ r.msg.core.from \in Dids
        /\ r.msg.core.skid \in Dids \union {NoOne}
    BY <1>1 DEF SendsReply, Cores, Dids
  <1>3. r.msg.core.from = r.msg.core.skid /\ r.msg.wraps = <<>>
    BY DEF SendsReply, Handles, Accepted, Consistent
  <1>4. <<"auth">> \in Seq({"anon", "auth", "signed"})
    OBVIOUS
  <1>5. Reply(r.at, r.msg.core) \in Cores
    BY <1>1, <1>2, <1>4 DEF Reply, Cores, Dids
  <1> QED  BY <1>1, <1>2, <1>3, <1>5 DEF Reply, Opens

(* What a sender puts on the wire is at the beginning of its route.        *)
LEMMA SentFacts ==
    ASSUME IInv, UNCHANGED config, NEW d \in Dids, Service(d).kind # "none",
           NEW core \in Cores, core.to = d, core \in posted',
           NEW new, new = Request(Uri(d), Route(Packed(<<>>, core), d), FALSE)
    PROVE  /\ new \in Messages
           /\ OnRoute(new)'
           /\ new \in wire' /\ d \in Wallets /\ Reachable(d) => Located(core)'
  <1>1. TypeInv /\ Uri(d) \in Mediators
    BY KeysType DEF IInv
  <1>2. Route(Packed(<<>>, core), d) = Packed(Wraps(d), core)
    BY <1>1, RouteFacts
  <1>3. /\ Wraps(d) \in Seq(Forwards) /\ Rest(d, 1) = Wraps(d)
        /\ Len(Wraps(d)) = Len(RoutingKeys(d)) /\ Len(RoutingKeys(d)) \in Nat
    BY <1>1, RestFacts, KeysType
  <1>4. PICK p : p = [wraps |-> Wraps(d), core |-> core]
    OBVIOUS
  <1>5. new = [at |-> Uri(d), msg |-> p, ws |-> FALSE, trail |-> {}, again |-> FALSE]
    BY <1>2, <1>4 DEF Request, Packed
  <1>9. new \in Messages
    <2>1. p \in Packets
      BY <1>3, <1>4 DEF Packets
    <2>2. {} \in SUBSET (Mediators \X Dids)
      OBVIOUS
    <2> QED  BY ONLY <1>1, <1>5, <2>1, <2>2 DEF Messages
  <1>8. new.at = Uri(d) /\ new.msg.wraps = Wraps(d) /\ new.msg.core = core
    <2>1. new.at = Uri(d) /\ new.msg = p
      BY ONLY <1>5
    <2>2. p.wraps = Wraps(d) /\ p.core = core
      BY ONLY <1>4
    <2> QED  BY <2>1, <2>2
  <1>6. OnRoute(new)'
    <2>1. ASSUME Wraps(d) # <<>> PROVE d \in Wallets
      BY <1>1, <2>1, RouteFacts DEF Dids
    <2>2. ASSUME Wraps(d) # <<>> PROVE 1 \in 1 .. Len(RoutingKeys(d))
      <3>1. 1 \in 1 .. Len(Wraps(d))
        BY ONLY <1>3, <2>2, NonEmpty
      <3> QED  BY <1>3, <3>1
    <2>3. /\ \A k : Rest(d, k)' = Rest(d, k)
          /\ RoutingKeys(d)' = RoutingKeys(d)
      BY ConfigKept
    <2> QED  BY <1>3, <1>8, <2>1, <2>2, <2>3 DEF OnRoute
  <1>7. ASSUME new \in wire', d \in Wallets, Reachable(d)
        PROVE  Located(core)'
    <2>1. RoutingKeys(d) # <<>> /\ Uri(d) = RoutingKeys(d)[1]
      BY <1>7 DEF Reachable
    <2>2. 1 \in 1 .. Len(RoutingKeys(d))
      <3>1. RoutingKeys(d) \in Seq(Mediators)
        BY <1>1, KeysType
      <3> QED  BY ONLY <2>1, <3>1, NonEmpty
    <2>3. AtKey(new, 1)' /\ new.msg.core = core
      BY <1>3, <1>8, <2>1, ConfigKept DEF AtKey
    <2>4. 1 \in 1 .. Len(RoutingKeys(core.to))'
      BY <2>2, ConfigKept
    <2> QED  BY <1>7, <2>3, <2>4 DEF Located
  <1> QED  BY <1>6, <1>7, <1>9

(* What a relay sends on is the rest of the route after it or, from the    *)
(* last mediator of a route, all of it again.                              *)
Relayed(r) ==
    [Request(Uri(NextParty(r)), Route(Payload(r), NextParty(r)), FALSE) EXCEPT
       !.trail = r.trail \union {<<r.at, NextParty(r)>>},
       !.again = r.again \/ <<r.at, NextParty(r)>> \in r.trail]

LEMMA RelayFacts ==
    ASSUME IInv, NEW r \in wire, Relay(r)
    PROVE  LET w == r.msg.core.to
               keys == RoutingKeys(w)
               next == NextParty(r)
               new == Relayed(r)
           IN  /\ new \in Messages /\ w \in Wallets /\ r.msg.core \in posted
               /\ new.msg.core = r.msg.core
               /\ new.trail = r.trail \union {<<r.at, next>>}
               /\ new.again = (r.again \/ <<r.at, next>> \in r.trail)
               /\ \E k \in 1 .. Len(keys) :
                    /\ AtKey(r, k)
                    /\ \/ /\ k + 1 \in 1 .. Len(keys) /\ next = keys[k + 1]
                          /\ new.at = keys[k + 1] /\ new.msg.wraps = Rest(w, k + 1)
                       \/ /\ k = Len(keys) /\ next = w
                          /\ new.msg.wraps = Rest(w, 1) /\ 1 \in 1 .. Len(keys)
  <1> DEFINE w == r.msg.core.to
             keys == RoutingKeys(w)
             next == NextParty(r)
             new == Relayed(r)
  <1>1. Opens(r) /\ next \notin registered[r.at] /\ Relayable(r.at, next) /\ TypeInv
    BY DEF Relay, IInv
  <1>2. /\ r \in Messages /\ w \in Wallets /\ r.msg.core \in posted /\ next \in Dids
    BY <1>1, OpensFacts
  <1>3. PICK k \in 1 .. Len(keys) :
          /\ AtKey(r, k)
          /\ k < Len(keys) => /\ k + 1 \in 1 .. Len(keys)
                              /\ next = keys[k + 1]
                              /\ next \in Mediators
                              /\ Payload(r) = Packed(Rest(w, k + 1), r.msg.core)
          /\ k = Len(keys) => /\ next = w
                              /\ Payload(r) = Packed(<<>>, r.msg.core)
    BY <1>1, OpensFacts
  <1>4. Len(keys) \in Nat /\ Uri(next) \in Mediators /\ w \in Dids
    BY <1>1, <1>2, KeysType DEF Relayable, Dids
  <1>5. r.trail \in SUBSET (Mediators \X Dids) /\ r.at \in Mediators
        /\ r.again \in BOOLEAN /\ r.msg.core \in Cores
    BY <1>2 DEF Messages, Packets
  <1>6. PICK wraps \in Seq(Forwards) :
          /\ Route(Payload(r), next) = Packed(wraps, r.msg.core)
          /\ \/ /\ k + 1 \in 1 .. Len(keys) /\ next = keys[k + 1]
                /\ Uri(next) = keys[k + 1] /\ wraps = Rest(w, k + 1)
             \/ /\ k = Len(keys) /\ next = w
                /\ wraps = Rest(w, 1) /\ 1 \in 1 .. Len(keys)
    <2>1. CASE k < Len(keys)
      <3>1. Rest(w, k + 1) \in Seq(Forwards)
        BY <1>1, <1>3, <1>4, <2>1, RestFacts
      <3>2. Route(Packed(Rest(w, k + 1), r.msg.core), next) = Packed(Rest(w, k + 1), r.msg.core)
        BY <1>1, <1>2, <1>3, <2>1, <3>1, RouteFacts
      <3>3. Uri(next) = next
        BY <1>1, <1>2, <1>3, <2>1, KeysType
      <3> QED  BY <1>3, <2>1, <3>1, <3>2, <3>3
    <2>2. CASE k = Len(keys)
      <3>1. Route(Payload(r), next) = Packed(Wraps(w), r.msg.core)
        BY <1>1, <1>3, <1>4, <2>2, RouteFacts
      <3>2. Wraps(w) \in Seq(Forwards) /\ Rest(w, 1) = Wraps(w)
        BY <1>1, <1>4, RestFacts
      <3>3. 1 \in 1 .. Len(keys)
        BY <1>4
      <3> QED  BY <1>3, <2>2, <3>1, <3>2, <3>3
    <2> QED  BY <1>4, <2>1, <2>2
  <1>7. PICK p : p = Packed(wraps, r.msg.core)
    OBVIOUS
  <1>8. p \in Packets /\ p.wraps = wraps /\ p.core = r.msg.core
    BY <1>5, <1>7 DEF Packed, Packets
  <1>9. PICK trail : trail = r.trail \union {<<r.at, next>>}
    OBVIOUS
  <1>10. PICK again : again = (r.again \/ <<r.at, next>> \in r.trail)
    OBVIOUS
  <1>11. trail \in SUBSET (Mediators \X Dids) /\ again \in BOOLEAN
    BY <1>2, <1>5, <1>9, <1>10
  <1>12. PICK base : base = [at |-> Uri(next), msg |-> p, ws |-> FALSE,
                              trail |-> {}, again |-> FALSE]
    OBVIOUS
  <1>13. base \in Messages
    <2>1. {} \in SUBSET (Mediators \X Dids)
      OBVIOUS
    <2> QED  BY ONLY <1>4, <1>8, <1>12, <2>1 DEF Messages
  <1>14. new = [base EXCEPT !.trail = trail, !.again = again]
    BY ONLY <1>6, <1>7, <1>9, <1>10, <1>12 DEF Relayed, Request
  <1> HIDE DEF new
  <1>17. new \in Messages
    BY ONLY <1>11, <1>13, <1>14 DEF Messages
  <1>18. new.at = base.at /\ new.msg = base.msg /\ new.trail = trail /\ new.again = again
    BY ONLY <1>13, <1>14 DEF Messages
  <1>19. new.at = Uri(next) /\ new.msg = p
    BY ONLY <1>12, <1>18
  <1>15. new.msg.core = r.msg.core /\ new.msg.wraps = wraps
    BY <1>8, <1>19
  <1> HIDE DEF w, keys, next
  <1>16. \/ /\ k + 1 \in 1 .. Len(keys) /\ next = keys[k + 1]
            /\ new.at = keys[k + 1] /\ new.msg.wraps = Rest(w, k + 1)
         \/ /\ k = Len(keys) /\ next = w
            /\ new.msg.wraps = Rest(w, 1) /\ 1 \in 1 .. Len(keys)
    BY <1>6, <1>15, <1>19
  <1> QED  BY <1>2, <1>3, <1>9, <1>10, <1>15, <1>16, <1>17, <1>18 DEF w, keys, next, new

-----------------------------------------------------------------------------
(* The steps.                                                              *)

LEMMA SendStep ==
    ASSUME IInv, NEW w \in Wallets, Send(w)
    PROVE  IInv'
  <1>1. PICK new : new = Request(Uri(w), Route(Packed(<<>>, Letter(w)), w), FALSE)
    OBVIOUS
  <1>2. /\ UNCHANGED config /\ queue' = queue
        /\ wire' = wire \union {new} /\ posted' = posted \union {Letter(w)}
        /\ Service(w).kind # "none"
    BY <1>1 DEF Send
  <1>3. w \in Dids /\ Letter(w).to = w /\ Letter(w).type = "other"
    BY DEF Dids, Letter
  <1>4. Letter(w) \in Cores
    <2>1. <<"anon">> \in Seq({"anon", "auth", "signed"})
      OBVIOUS
    <2> QED  BY <1>3, <2>1 DEF Letter, Cores
  <1>5. /\ new \in Messages /\ OnRoute(new)'
        /\ Reachable(w) => Located(Letter(w))'
    BY <1>1, <1>2, <1>3, <1>4, SentFacts
  <1>6. /\ posted \subseteq posted' /\ posted' \subseteq Cores
        /\ \A core \in posted' \ posted : core = Letter(w)
    BY <1>2, <1>4 DEF IInv, TypeInv
  <1>7. /\ QueueType'
        /\ \A m \in Mediators, v \in Wallets : queue[m][v] \subseteq queue'[m][v]
        /\ OnlyItsMail' /\ OnlyAskersGetReplies'
    BY <1>2, <1>3, <1>6, QueueKept
  <1>8. TypeInv' /\ WireInv'
    <2>1. \A r \in wire' : r \in wire \/ (r \in Messages /\ OnRoute(r)')
      BY <1>2, <1>5
    <2> QED  BY <1>2, <1>6, <1>7, <2>1, WireStep
  <1>9. Underway'
    <2>1. \A r \in wire : r \in wire'
      BY <1>2
    <2> QED  BY <1>2, <1>3, <1>5, <1>6, <1>7, <2>1, UnderwayStep
  <1> QED  BY <1>7, <1>8, <1>9 DEF IInv

LEMMA AskStep ==
    ASSUME IInv, NEW core \in Requests, NEW ws \in BOOLEAN, Ask(core, ws)
    PROVE  IInv'
  <1>1. PICK p : p = Packed(<<>>, core)
    OBVIOUS
  <1>2. PICK new : new = Request(core.to, p, ws)
    OBVIOUS
  <1>3. /\ UNCHANGED config /\ queue' = queue /\ posted' = posted
        /\ wire' = wire \union {new}
    BY <1>1, <1>2 DEF Ask
  <1>4. core \in Cores /\ core.to \in Mediators
    BY RoutingAssumption
  <1>5. p \in Packets /\ p.wraps = <<>>
    <2>1. <<>> \in Seq(Forwards)
      BY EmptySeq
    <2> QED  BY <1>1, <1>4, <2>1 DEF Packed, Packets
  <1>6. new \in Messages /\ new.msg = p
    <2>1. {} \in SUBSET (Mediators \X Dids)
      OBVIOUS
    <2> QED  BY ONLY ws \in BOOLEAN, <1>2, <1>4, <1>5, <2>1 DEF Request, Messages
  <1>7. OnRoute(new)'
    BY <1>5, <1>6 DEF OnRoute
  <1>8. posted \subseteq posted' /\ posted' \subseteq Cores /\ posted' \ posted = {}
    BY <1>3 DEF IInv, TypeInv
  <1>9. /\ QueueType'
        /\ \A m \in Mediators, v \in Wallets : queue[m][v] \subseteq queue'[m][v]
        /\ OnlyItsMail' /\ OnlyAskersGetReplies'
    BY <1>3, <1>8, QueueKept
  <1>10. TypeInv' /\ WireInv'
    <2>1. \A r \in wire' : r \in wire \/ (r \in Messages /\ OnRoute(r)')
      BY <1>3, <1>6, <1>7
    <2> QED  BY <1>3, <1>8, <1>9, <2>1, WireStep
  <1>11. Underway'
    <2>1. \A r \in wire : r \in wire'
      BY <1>3
    <2> QED  BY <1>3, <1>8, <1>9, <2>1, UnderwayStep
  <1> QED  BY <1>9, <1>10, <1>11 DEF IInv

(* A request that ends, and that is no forward on the route of a reachable *)
(* wallet, takes nothing with it.                                          *)
LEMMA EndStep ==
    ASSUME IInv, NEW r \in wire, UNCHANGED config, wire' = wire \ {r},
           queue' = queue, posted' = posted,
           ~(Opens(r) /\ r.msg.core.to \in Wallets /\ Reachable(r.msg.core.to))
    PROVE  IInv'
  <1>1. posted \subseteq posted' /\ posted' \subseteq Cores /\ posted' \ posted = {}
    BY DEF IInv, TypeInv
  <1>2. /\ QueueType'
        /\ \A m \in Mediators, v \in Wallets : queue[m][v] \subseteq queue'[m][v]
        /\ OnlyItsMail' /\ OnlyAskersGetReplies'
    BY <1>1, QueueKept
  <1>3. \A s \in wire' : s \in wire
    OBVIOUS
  <1>4. TypeInv' /\ WireInv'
    BY <1>1, <1>2, <1>3, WireStep
  <1>5. \A s \in wire : s \in wire' \/ s = r
    OBVIOUS
  <1>6. Underway'
    BY <1>1, <1>2, <1>5, UnderwayStep
  <1> QED  BY <1>2, <1>4, <1>6 DEF IInv

LEMMA QueueForwardStep ==
    ASSUME IInv, NEW r \in wire, QueueForward(r)
    PROVE  IInv'
  <1> DEFINE w == r.msg.core.to
  <1>1. /\ Opens(r) /\ NextParty(r) \in registered[r.at] /\ UNCHANGED config
        /\ wire' = wire \ {r} /\ posted' = posted
        /\ queue' = [queue EXCEPT ![r.at][NextParty(r)] = @ \union {Payload(r)}]
    BY DEF QueueForward
  <1>2. /\ r \in Messages /\ w \in Wallets /\ r.msg.core \in posted
        /\ NextParty(r) \in Dids
    BY <1>1, OpensFacts
  <1>3. PICK k \in 1 .. Len(RoutingKeys(w)) :
          /\ AtKey(r, k)
          /\ k < Len(RoutingKeys(w)) => NextParty(r) \in Mediators
          /\ k = Len(RoutingKeys(w)) => /\ NextParty(r) = w
                                        /\ Payload(r) = Packed(<<>>, r.msg.core)
    BY <1>1, OpensFacts
  <1>4. r.at \in Mediators /\ r.msg.core \in Cores
    BY <1>2 DEF Messages, Packets
  <1>5. NextParty(r) \in Wallets /\ NextParty(r) \notin Mediators
    BY <1>1, <1>4, RoutingAssumption DEF IInv, TypeInv
  <1>6. Len(RoutingKeys(w)) \in Nat
    BY <1>2, KeysType DEF IInv, Dids
  <1>7. k = Len(RoutingKeys(w))
    BY <1>3, <1>5, <1>6
  <1>8. PICK p : p = Packed(<<>>, r.msg.core)
    OBVIOUS
  <1>9. p \in Packets /\ p.wraps = <<>> /\ p.core = r.msg.core
    <2>1. <<>> \in Seq(Forwards)
      BY EmptySeq
    <2> QED  BY <1>4, <1>8, <2>1 DEF Packed, Packets
  <1>10. /\ queue' = [queue EXCEPT ![r.at][w] = @ \union {p}]
         /\ r.at = EndOfRoute(w)
    BY <1>1, <1>3, <1>7, <1>8 DEF AtKey, EndOfRoute, Last
  <1>11. p.core.type = "answer" => p.core.asked = w
    BY <1>2, <1>9 DEF IInv, OnlyAskersGetReplies
  <1>12. /\ QueueType'
         /\ \A n \in Mediators, v \in Wallets : queue[n][v] \subseteq queue'[n][v]
         /\ p \in queue'[r.at][w]
         /\ OnlyItsMail' /\ OnlyAskersGetReplies'
    <2>1. r.at \in Mediators
      BY <1>4
    <2>2. w \in Wallets
      BY <1>2
    <2>3. p \in Packets
      BY <1>9
    <2>4. p.wraps = <<>>
      BY <1>9
    <2>5. p.core.to = w
      BY <1>9
    <2>6. queue' = [queue EXCEPT ![r.at][w] = @ \union {p}]
      BY <1>10
    <2>7. posted' = posted
      BY <1>1
    <2> HIDE DEF w
    <2> QED
      BY <1>11, <2>1, <2>2, <2>3, <2>4, <2>5, <2>6, <2>7, QueueStep, ZenonT(30)
  <1>13. posted \subseteq posted' /\ posted' \subseteq Cores /\ posted' \ posted = {}
    BY <1>1 DEF IInv, TypeInv
  <1>14. TypeInv' /\ WireInv'
    <2>1. \A s \in wire' : s \in wire
      BY <1>1
    <2> QED  BY <1>1, <1>12, <1>13, <2>1, WireStep
  <1>15. Located(r.msg.core)'
    BY <1>1, <1>8, <1>10, <1>12, ConfigKept DEF Located
  <1>16. Underway'
    <2>1. \A s \in wire : s \in wire' \/ s = r
      BY <1>1
    <2> QED  BY <1>1, <1>12, <1>13, <1>15, <2>1, UnderwayStep
  <1> QED  BY <1>12, <1>14, <1>16 DEF IInv

(* From a reachable wallet's route a relay goes one mediator on.           *)
LEMMA RelayStep ==
    ASSUME IInv, NEW r \in wire, Relay(r)
    PROVE  IInv'
  <1> DEFINE w == r.msg.core.to
             keys == RoutingKeys(w)
  <1>1. PICK new : new = Relayed(r)
    OBVIOUS
  <1>2. /\ UNCHANGED config /\ queue' = queue /\ posted' = posted
        /\ wire' = (wire \ {r}) \union {new}
        /\ NextParty(r) \notin registered[r.at]
    BY <1>1 DEF Relay, Relayed
  <1>3. /\ new \in Messages /\ w \in Wallets /\ r.msg.core \in posted
        /\ new.msg.core = r.msg.core
    BY <1>1, RelayFacts
  <1>4. PICK k \in 1 .. Len(keys) :
          /\ AtKey(r, k)
          /\ \/ /\ k + 1 \in 1 .. Len(keys) /\ NextParty(r) = keys[k + 1]
                /\ new.at = keys[k + 1] /\ new.msg.wraps = Rest(w, k + 1)
             \/ /\ k = Len(keys) /\ NextParty(r) = w
                /\ new.msg.wraps = Rest(w, 1) /\ 1 \in 1 .. Len(keys)
    BY <1>1, RelayFacts
  <1>5. OnRoute(new)'
    <2>1. \E j \in 1 .. Len(keys) : new.msg.wraps = Rest(w, j)
      BY <1>4
    <2>2. keys' = keys /\ \A j : Rest(w, j)' = Rest(w, j)
      BY <1>2, ConfigKept
    <2>3. \E j \in 1 .. Len(keys') : new.msg.wraps = Rest(w, j)'
      BY <2>1, <2>2
    <2> QED  BY <1>2, <1>3, <2>3 DEF OnRoute
  <1>6. posted \subseteq posted' /\ posted' \subseteq Cores /\ posted' \ posted = {}
    BY <1>2 DEF IInv, TypeInv
  <1>7. /\ QueueType'
        /\ \A m \in Mediators, v \in Wallets : queue[m][v] \subseteq queue'[m][v]
        /\ OnlyItsMail' /\ OnlyAskersGetReplies'
    BY <1>2, <1>6, QueueKept
  <1>8. TypeInv' /\ WireInv'
    <2>1. \A s \in wire' : s \in wire \/ (s \in Messages /\ OnRoute(s)')
      BY <1>2, <1>3, <1>5
    <2> QED  BY <1>2, <1>6, <1>7, <2>1, WireStep
  <1>9. ASSUME Reachable(w) PROVE Located(r.msg.core)'
    <2>1. w \in registered[EndOfRoute(w)]
      BY <1>9 DEF Reachable
    <2>2. ~(k = Len(keys) /\ NextParty(r) = w)
      BY <1>2, <1>4, <2>1 DEF AtKey, EndOfRoute, Last
    <2>3. k + 1 \in 1 .. Len(keys) /\ AtKey(new, k + 1)
      BY <1>3, <1>4, <2>2 DEF AtKey
    <2>4. AtKey(new, k + 1)' /\ keys' = keys
      BY <1>2, <2>3, ConfigKept DEF AtKey
    <2> QED  BY <1>2, <1>3, <2>3, <2>4 DEF Located
  <1>10. Underway'
    <2>1. \A s \in wire : s \in wire' \/ s = r
      BY <1>2
    <2> QED  BY <1>2, <1>6, <1>7, <1>9, <2>1, UnderwayStep
  <1> QED  BY <1>7, <1>8, <1>10 DEF IInv

(* At a mediator of a reachable wallet's route the way on is always open.  *)
LEMMA RefuseStep ==
    ASSUME IInv, NEW r \in wire, Refuse(r)
    PROVE  IInv'
  <1> DEFINE w == r.msg.core.to
             keys == RoutingKeys(w)
             next == NextParty(r)
  <1>1. /\ Opens(r) /\ next \notin registered[r.at] /\ ~Relayable(r.at, next)
        /\ UNCHANGED config /\ wire' = wire \ {r} /\ queue' = queue /\ posted' = posted
    BY DEF Refuse
  <1>2. ASSUME Reachable(w) PROVE FALSE
    <2>1. /\ w \in Wallets /\ next \in Dids /\ r \in Messages
      BY <1>1, OpensFacts
    <2>2. PICK k \in 1 .. Len(keys) :
            /\ AtKey(r, k)
            /\ k < Len(keys) => /\ k + 1 \in 1 .. Len(keys)
                                /\ next = keys[k + 1] /\ next \in Mediators
            /\ k = Len(keys) => next = w
      BY <1>1, OpensFacts
    <2>3. /\ w \in registered[EndOfRoute(w)] /\ IsInjective(keys)
          /\ \A i \in 1 .. Len(keys) - 1 : keys[i] \in federated
      BY <1>2 DEF Reachable
    <2>4. Len(keys) \in Nat /\ DOMAIN keys = 1 .. Len(keys)
      <3>1. keys \in Seq(Mediators)
        BY <2>1, KeysType DEF IInv, Dids
      <3> QED  BY <3>1, LenProperties
    <2>5. k < Len(keys)
      BY <1>1, <2>2, <2>3, <2>4 DEF AtKey, EndOfRoute, Last
    <2>6. r.at = keys[k] /\ r.at \in federated
      BY <2>2, <2>3, <2>4, <2>5 DEF AtKey
    <2>7. next = keys[k + 1] /\ next \in Mediators /\ next # r.at
      BY <2>2, <2>3, <2>4, <2>5, <2>6 DEF IsInjective
    <2>8. RoutingKeys(next) = <<>> /\ Uri(next) = next /\ Service(next).kind = "http"
      BY <2>1, <2>7, KeysType DEF IInv
    <2>9. r.at # NoOne
      BY <2>1, RoutingAssumption DEF Messages, Dids
    <2> QED  BY <1>1, <2>6, <2>7, <2>8, <2>9 DEF Relayable, FirstHop
  <1> QED  BY <1>1, <1>2, EndStep

LEMMA QueueReplyStep ==
    ASSUME IInv, NEW r \in wire, QueueReply(r)
    PROVE  IInv'
  <1>1. PICK w : w = r.msg.core.from
    OBVIOUS
  <1>2. PICK reply : reply = Reply(r.at, r.msg.core)
    OBVIOUS
  <1>3. PICK p : p = Packed(<<>>, reply)
    OBVIOUS
  <1>4. /\ SendsReply(r) /\ w \in registered[r.at] /\ UNCHANGED config
        /\ queue' = [queue EXCEPT ![r.at][w] = @ \union {p}]
        /\ wire' = wire \ {r} /\ posted' = posted
    BY <1>1, <1>2, <1>3 DEF QueueReply
  <1>5. r.at \in Mediators /\ reply \in Cores /\ reply.to = w /\ reply.asked = w /\ ~Opens(r)
    BY <1>1, <1>2, <1>4, ReplyFacts
  <1>6. p \in Packets /\ p.wraps = <<>> /\ p.core = reply
    <2>1. <<>> \in Seq(Forwards)
      BY EmptySeq
    <2> QED  BY <1>3, <1>5, <2>1 DEF Packed, Packets
  <1>7. w \in Wallets
    BY <1>4, <1>5 DEF IInv, TypeInv
  <1>8. /\ QueueType'
        /\ \A n \in Mediators, v \in Wallets : queue[n][v] \subseteq queue'[n][v]
        /\ OnlyItsMail' /\ OnlyAskersGetReplies'
    BY <1>4, <1>5, <1>6, <1>7, QueueStep
  <1>9. posted \subseteq posted' /\ posted' \subseteq Cores /\ posted' \ posted = {}
    BY <1>4 DEF IInv, TypeInv
  <1>10. TypeInv' /\ WireInv'
    <2>1. \A s \in wire' : s \in wire
      BY <1>4
    <2> QED  BY <1>4, <1>8, <1>9, <2>1, WireStep
  <1>11. Underway'
    <2>1. \A s \in wire : s \in wire' \/ s = r
      BY <1>4
    <2> QED  BY <1>4, <1>5, <1>8, <1>9, <2>1, UnderwayStep
  <1> QED  BY <1>8, <1>10, <1>11 DEF IInv

LEMMA PostReplyStep ==
    ASSUME IInv, NEW r \in wire, PostReply(r)
    PROVE  IInv'
  <1>1. PICK w : w = r.msg.core.from
    OBVIOUS
  <1>2. PICK reply : reply = Reply(r.at, r.msg.core)
    OBVIOUS
  <1>3. PICK new : new = Request(Uri(w), Route(Packed(<<>>, reply), w), FALSE)
    OBVIOUS
  <1>4. /\ SendsReply(r) /\ UNCHANGED config /\ Service(w).kind # "none"
        /\ wire' = (wire \ {r}) \union {new}
        /\ posted' = posted \union {reply} /\ queue' = queue
    BY <1>1, <1>2, <1>3 DEF PostReply, Postable
  <1>5. /\ w \in Dids /\ reply \in Cores /\ reply.to = w /\ reply.asked = w /\ ~Opens(r)
    BY <1>1, <1>2, <1>4, ReplyFacts
  <1>6. reply \in posted' /\ new \in wire'
    BY <1>4
  <1>7. /\ new \in Messages /\ OnRoute(new)'
        /\ w \in Wallets /\ Reachable(w) => Located(reply)'
    BY <1>3, <1>4, <1>5, <1>6, SentFacts
  <1>8. /\ posted \subseteq posted' /\ posted' \subseteq Cores
        /\ \A core \in posted' \ posted : core = reply
    BY <1>4, <1>5 DEF IInv, TypeInv
  <1>9. /\ QueueType'
        /\ \A m \in Mediators, v \in Wallets : queue[m][v] \subseteq queue'[m][v]
        /\ OnlyItsMail' /\ OnlyAskersGetReplies'
    BY <1>4, <1>5, <1>8, QueueKept
  <1>10. TypeInv' /\ WireInv'
    <2>1. \A s \in wire' : s \in wire \/ (s \in Messages /\ OnRoute(s)')
      BY <1>4, <1>7
    <2> QED  BY <1>4, <1>8, <1>9, <2>1, WireStep
  <1>11. Underway'
    <2>1. \A s \in wire : s \in wire' \/ s = r
      BY <1>4
    <2> QED  BY <1>4, <1>5, <1>7, <1>8, <1>9, <2>1, UnderwayStep
  <1> QED  BY <1>9, <1>10, <1>11 DEF IInv

LEMMA HandleStep ==
    ASSUME IInv, NEW r \in wire, Handle(r)
    PROVE  IInv'
  <1>1. CASE QueueForward(r)
    BY <1>1, QueueForwardStep
  <1>2. CASE Relay(r)
    BY <1>2, RelayStep
  <1>3. CASE Refuse(r)
    BY <1>3, RefuseStep
  <1>4. CASE Reject(r)
    BY <1>4, EndStep DEF Reject
  <1>5. CASE Answer(r)
    BY <1>5, EndStep DEF Answer, Handles, Opens
  <1>6. CASE QueueReply(r)
    BY <1>6, QueueReplyStep
  <1>7. CASE PostReply(r)
    BY <1>7, PostReplyStep
  <1>8. CASE NoReply(r)
    BY <1>8, EndStep DEF NoReply, Handles, Opens
  <1> QED  BY <1>1, <1>2, <1>3, <1>4, <1>5, <1>6, <1>7, <1>8 DEF Handle

(* The invariant holds in every reachable state, for any mediators,        *)
(* wallets, documents, registrations and requests.                         *)
THEOREM Invariance == Spec => []IInv
  <1>1. Init => IInv
    <2> SUFFICES ASSUME Init PROVE IInv
      OBVIOUS
    <2>1. \A w \in Wallets : doc[w] \in Documents[w] /\ doc[w] \in Services
      BY RoutingAssumption DEF Init
    <2>2. doc \in [Wallets -> Services]
      BY <2>1 DEF Init
    <2>3. TypeInv
      BY <2>1, <2>2 DEF Init, TypeInv
    <2> QED  BY <2>3 DEF Init, IInv, WireInv, Underway, OnlyItsMail, OnlyAskersGetReplies
  <1>2. IInv /\ [Next]_vars => IInv'
    <2> SUFFICES ASSUME IInv, [Next]_vars PROVE IInv'
      OBVIOUS
    <2>1. CASE UNCHANGED vars
      <3>1. UNCHANGED config /\ wire' = wire /\ queue' = queue /\ posted' = posted
        BY <2>1 DEF vars, config
      <3>2. posted \subseteq posted' /\ posted' \subseteq Cores /\ posted' \ posted = {}
        BY <3>1 DEF IInv, TypeInv
      <3>3. /\ QueueType'
            /\ \A m \in Mediators, v \in Wallets : queue[m][v] \subseteq queue'[m][v]
            /\ OnlyItsMail' /\ OnlyAskersGetReplies'
        BY <3>1, <3>2, QueueKept
      <3>4. TypeInv' /\ WireInv'
        BY <3>1, <3>2, <3>3, WireStep
      <3>5. Underway'
        BY <3>1, <3>2, <3>3, UnderwayStep
      <3> QED  BY <3>3, <3>4, <3>5 DEF IInv
    <2>2. CASE \E w \in Wallets : Send(w)
      BY <2>2, SendStep
    <2>3. CASE \E core \in Requests, ws \in BOOLEAN : Ask(core, ws)
      BY <2>3, AskStep
    <2>4. CASE \E r \in wire : Handle(r)
      BY <2>4, HandleStep
    <2> QED  BY <2>1, <2>2, <2>3, <2>4 DEF Next
  <1> QED  BY <1>1, <1>2, PTL DEF Spec

(* A mediator queues for a wallet only what is encrypted to it, with every *)
(* forward around it taken off.                                            *)
THEOREM QueuesAreReadable == Spec => []OnlyItsMail
  BY Invariance, PTL DEF IInv

(* Only a sender that authcrypt has proved is sent a reply.                *)
THEOREM RepliesGoToAskers == Spec => []OnlyAskersGetReplies
  BY Invariance, PTL DEF IInv

(* A message sent to a wallet whose document describes a route, however    *)
(* long, is on its way or in the queue at the end of the route.            *)
THEOREM RoutingLosesNothing == Spec => []NothingLost
  <1>1. IInv => NothingLost
    <2> SUFFICES ASSUME IInv, NEW core \in posted, Reachable(core.to)
                 PROVE  \/ \E r \in wire : r.msg.core = core
                        \/ Packed(<<>>, core) \in queue[EndOfRoute(core.to)][core.to]
      BY DEF NothingLost
    <2>1. core.to \in Wallets
      <3>1. core.to \in Dids
        BY DEF IInv, TypeInv, Cores
      <3>2. RoutingKeys(core.to) # <<>>
        BY DEF Reachable
      <3>3. core.to \in Mediators => RoutingKeys(core.to) = <<>>
        BY <3>1, KeysType DEF IInv
      <3> QED  BY <3>1, <3>2, <3>3 DEF Dids
    <2> QED  BY <2>1 DEF IInv, Underway, Located
  <1> QED  BY <1>1, Invariance, PTL

=============================================================================
