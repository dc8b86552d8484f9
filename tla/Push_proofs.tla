----------------------------- MODULE Push_proofs ----------------------------
(***************************************************************************)
(* Proofs about Push, for any set of services, any number of wake-up tasks *)
(* and of pickups at the same time, any interval, TTL and lag.             *)
(***************************************************************************)
EXTENDS Push, TLAPS

(* The types.                                                              *)
TypeInv ==
    /\ clock \in Nat
    /\ devices \in [Services -> Nat]
    /\ wanted \in [Services -> Nat]
    /\ rejected \in [Services -> SUBSET Nat]
    /\ marker \in {NoMarker} \cup [sent : Nat, until : Nat]
    /\ wake \in [Wakes -> [pc : {"idle", "devices", "claim", "push", "remove"},
                           left : SUBSET Services,
                           tokens : [Services -> Nat]]]
    /\ pickup \in [Pickups -> {"idle", "release", "look"}]
    /\ claimed \in Nat \cup {-1}
    /\ pushed \in BOOLEAN
    /\ waiting \in BOOLEAN
    /\ owed \in BOOLEAN

(* A task removes a token because its service rejected it.                 *)
RemovedRejected ==
    \A t \in Wakes, s \in Services :
      wake[t].pc = "remove" /\ s = Min(wake[t].left)
        => wake[t].tokens[s] \in rejected[s]

(* The marker is the trace of the last claim: it carries the `now` of that *)
(* call, and lives as long as the TTL while the wallet has not picked up.  *)
MarkerInv ==
    /\ claimed <= clock
    /\ marker # NoMarker =>
         /\ claimed # -1
         /\ marker.sent <= claimed
         /\ claimed - Lag <= marker.sent
    /\ pushed => /\ marker # NoMarker
                 /\ marker.until >= claimed + Hold

(* A pickup leaves no marker that outlives the interval.                   *)
ReleasedSoon ==
    marker # NoMarker /\ ~pushed
      => marker.until <= claimed + MinInterval + Lag

(* While the interval lasts, the marker does: where the TTL is no shorter. *)
MarkerLasts ==
    claimed # -1 =>
      IF marker # NoMarker
      THEN marker.until >= claimed + MinInterval - Lag
      ELSE clock >= claimed + MinInterval - Lag

(* The inductive invariant.                                                *)
IInv ==
    /\ TypeInv /\ RemovedRejected /\ DeviceKept
    /\ MarkerInv /\ ReleasedSoon /\ NeverLeftWaiting

-----------------------------------------------------------------------------
(* What Max and Min of FiniteSetsExt are for two numbers.                  *)
LEMMA MaxOfTwo ==
    ASSUME NEW a \in Int, NEW b \in Int
    PROVE  Max({a, b}) = IF a >= b THEN a ELSE b
<1> DEFINE m == IF a >= b THEN a ELSE b
<1>1. m \in {a, b} /\ \A y \in {a, b} : m >= y
  OBVIOUS
<1>2. \A x \in {a, b} : (\A y \in {a, b} : x >= y) => x = m
  OBVIOUS
<1>3. QED
  BY <1>1, <1>2 DEF Max

LEMMA MinOfTwo ==
    ASSUME NEW a \in Int, NEW b \in Int
    PROVE  Min({a, b}) = IF a <= b THEN a ELSE b
<1> DEFINE m == IF a <= b THEN a ELSE b
<1>1. m \in {a, b} /\ \A y \in {a, b} : m <= y
  OBVIOUS
<1>2. \A x \in {a, b} : (\A y \in {a, b} : x <= y) => x = m
  OBVIOUS
<1>3. QED
  BY <1>1, <1>2 DEF Min

(* What a claim and a release write.                                       *)
LEMMA ClaimHold == Max({Hold, 1}) = Hold
<1> Hold \in Int /\ Hold >= 1
  BY PushAssumption
<1> QED
  BY MaxOfTwo

LEMMA ReleaseMarker ==
    ASSUME TypeInv, NEW p \in Pickups, NEW n \in Nows, Release(p, n)
    PROVE  \/ /\ ~MarkerSet
              /\ marker' = NoMarker
           \/ /\ MarkerSet
              /\ marker.sent + MinInterval <= n
              /\ marker' = NoMarker
           \/ /\ MarkerSet
              /\ marker' \in [sent : Nat, until : Nat]
              /\ marker' # NoMarker
              /\ marker'.sent = marker.sent
              /\ marker'.until <= clock + (marker.sent + MinInterval - n)
              /\ \/ marker'.until = marker.until
                 \/ marker'.until = clock + (marker.sent + MinInterval - n)
<1> DEFINE left == marker.sent + MinInterval - n
           ttl == marker.until - clock
<1>1. n \in Nat /\ n <= clock
  BY DEF Nows, TypeInv
<1>2. CASE ~MarkerSet \/ left <= 0
  BY <1>1, <1>2, PushAssumption DEF Release, TypeInv, MarkerSet
<1>3. CASE MarkerSet /\ ~(left <= 0)
  <2>1. marker \in [sent : Nat, until : Nat] /\ marker # NoMarker /\ ttl > 0
    BY <1>3 DEF TypeInv, MarkerSet
  <2>2. left \in Int /\ ttl \in Int /\ left > 0
    BY <1>1, <1>3, <2>1, PushAssumption DEF TypeInv
  <2>3. Min({left, ttl}) = IF left <= ttl THEN left ELSE ttl
    BY <2>2, MinOfTwo
  <2>4. marker' = [marker EXCEPT !.until = clock + Min({left, ttl})]
    BY <1>3 DEF Release
  <2> DEFINE until == clock + Min({left, ttl})
  <2>5. clock \in Nat
    BY DEF TypeInv
  <2>6. until \in Nat /\ until <= clock + left /\ until \in {clock + left, clock + ttl}
    BY <2>1, <2>2, <2>3, <2>5
  <2> HIDE DEF left, ttl, until
  <2>7. /\ marker' \in [sent : Nat, until : Nat]
        /\ marker'.sent = marker.sent
        /\ marker'.until = until
    BY <2>1, <2>4, <2>6 DEF until
  <2>8. marker' # NoMarker
    BY <2>7 DEF NoMarker
  <2>9. QED
    <3>1. clock + ttl = marker.until
      BY <2>1, <2>5 DEF ttl
    <3>2. QED
      BY <1>3, <2>7, <2>8, <2>6, <3>1 DEF left
<1>4. QED
  BY <1>2, <1>3

(* A task that is done with a device is idle, or has the same tokens and   *)
(* goes on to the next: it is neither about to claim nor to remove.        *)
LEMMA WakeDone ==
    ASSUME TypeInv, NEW t \in Wakes, NEW s
    PROVE  /\ Done(t, s) \in [pc : {"idle", "push"}, left : SUBSET Services,
                              tokens : [Services -> Nat]]
           /\ Done(t, s).tokens \in {wake[t].tokens, [r \in Services |-> 0]}
<1>1. CASE wake[t].left \ {s} = {}
  BY <1>1 DEF Done, NoWake
<1>2. CASE wake[t].left \ {s} # {}
  <2>1. Done(t, s) = [wake[t] EXCEPT !.pc = "push", !.left = wake[t].left \ {s}]
    BY <1>2 DEF Done
  <2>2. wake[t].left \ {s} \in SUBSET Services
    BY DEF TypeInv
  <2>3. wake[t] \in [pc : {"idle", "devices", "claim", "push", "remove"},
                     left : SUBSET Services, tokens : [Services -> Nat]]
    BY DEF TypeInv
  <2>4. QED
    BY <2>1, <2>2, <2>3
<1>3. QED
  BY <1>1, <1>2

-----------------------------------------------------------------------------
(* Every step keeps the types.                                             *)
LEMMA TypeStep == TypeInv /\ [Next]_vars => TypeInv'
<1> SUFFICES ASSUME TypeInv, [Next]_vars PROVE TypeInv'
  OBVIOUS
<1> USE PushAssumption
<1>1. ASSUME NEW t \in Wakes, Spawn(t) PROVE TypeInv'
  BY <1>1, ZenonT(20) DEF Spawn, TypeInv
<1>2. ASSUME NEW t \in Wakes, ReadDevices(t) PROVE TypeInv'
  BY <1>2 DEF ReadDevices, TypeInv, NoWake
<1>3. ASSUME NEW t \in Wakes, NEW n \in Nows, Claim(t, n) PROVE TypeInv'
  <2>1. n \in Nat
    BY DEF Nows, TypeInv
  <2>2. marker' \in [sent : Nat, until : Nat]
    BY <1>3, <2>1, ClaimHold DEF Claim, TypeInv
  <2>3. QED
    BY <1>3, <2>2, ZenonT(20) DEF Claim, TypeInv
<1>4. ASSUME NEW t \in Wakes, Refused(t) PROVE TypeInv'
  BY <1>4 DEF Refused, TypeInv, NoWake
<1>5. ASSUME NEW t \in Wakes, Send(t) PROVE TypeInv'
  BY <1>5, WakeDone DEF Send, TypeInv
<1>6. ASSUME NEW t \in Wakes, InvalidToken(t) PROVE TypeInv'
  <2>1. PICK s : \E tokens \in [Services -> Nat] :
          rejected' = [rejected EXCEPT ![s] = @ \cup {tokens[s]}]
    <3>1. wake[t] \in [pc : {"idle", "devices", "claim", "push", "remove"},
                       left : SUBSET Services, tokens : [Services -> Nat]]
      BY ZenonT(20) DEF TypeInv
    <3>2. wake[t].tokens \in [Services -> Nat]
      BY <3>1
    <3>3. QED
      BY <1>6, <3>2 DEF InvalidToken
  <2>2. rejected' \in [Services -> SUBSET Nat]
    <3>1. PICK tokens \in [Services -> Nat] :
            rejected' = [rejected EXCEPT ![s] = @ \cup {tokens[s]}]
      BY <2>1
    <3>2. rejected \in [Services -> SUBSET Nat]
      BY DEF TypeInv
    <3>3. \A r \in Services : rejected'[r] \in {rejected[r], rejected[r] \cup {tokens[s]}}
      BY <3>1, <3>2
    <3>4. \A r \in Services : rejected'[r] \in SUBSET Nat
      <4>1. CASE s \in Services
        BY <3>2, <3>3, <4>1
      <4>2. CASE s \notin Services
        <5>1. rejected' = rejected
          BY <3>1, <3>2, <4>2
        <5>2. QED
          BY <3>2, <5>1
      <4>3. QED
        BY <4>1, <4>2
    <3>5. rejected' = [r \in Services |-> rejected'[r]]
      BY <3>1, <3>2
    <3>6. QED
      BY <3>4, <3>5
  <2>3. QED
    BY <1>6, <2>2 DEF InvalidToken, TypeInv
<1>7. ASSUME NEW t \in Wakes, RemoveDevice(t) PROVE TypeInv'
  BY <1>7, WakeDone DEF RemoveDevice, TypeInv
<1>8. ASSUME NEW t \in Wakes, WakeFails(t) PROVE TypeInv'
  BY <1>8 DEF WakeFails, TypeInv, NoWake
<1>9. ASSUME NEW p \in Pickups, StartPickup(p) \/ PickupFails(p) \/ Look(p)
      PROVE  TypeInv'
  BY <1>9 DEF StartPickup, PickupFails, Look, TypeInv
<1>10. ASSUME NEW p \in Pickups, NEW n \in Nows, Release(p, n) PROVE TypeInv'
  <2>1. marker' \in {NoMarker} \cup [sent : Nat, until : Nat]
    BY <1>10, ReleaseMarker
  <2>2. QED
    BY <1>10, <2>1 DEF Release, TypeInv
<1>11. CASE RemoveMediation
  BY <1>11 DEF RemoveMediation, TypeInv
<1>12. ASSUME NEW s \in Services, NEW token \in Tokens(s), SetDevice(s, token)
       PROVE  TypeInv'
  BY <1>12 DEF SetDevice, TypeInv, Tokens
<1>13. CASE Tick
  BY <1>13 DEF Tick, TypeInv
<1>14. CASE Restart
  BY <1>14 DEF Restart, TypeInv, NoWake
<1>15. CASE UNCHANGED vars
  BY <1>15 DEF vars, TypeInv
<1>16. QED
  BY <1>1, <1>2, <1>3, <1>4, <1>5, <1>6, <1>7, <1>8, <1>9, <1>10, <1>11,
     <1>12, <1>13, <1>14, <1>15 DEF Next, WakeStep, PickupStep, DeviceStep

(* A task that is given a state in which it removes no device disturbs     *)
(* nothing of what is known of the devices.                                *)
LEMMA WakeGiven ==
    ASSUME TypeInv, RemovedRejected, DeviceKept,
           NEW t \in Wakes, NEW w,
           w.pc # "remove",
           wake' = [wake EXCEPT ![t] = w],
           UNCHANGED <<devices, wanted, rejected>>
    PROVE  RemovedRejected' /\ DeviceKept'
<1>1. wake'[t] = w /\ \A u \in Wakes : u # t => wake'[u] = wake[u]
  BY DEF TypeInv
<1>2. DeviceKept'
  BY DEF DeviceKept
<1>3. RemovedRejected'
  <2> SUFFICES ASSUME NEW u \in Wakes, NEW s \in Services,
                      wake'[u].pc = "remove", s = Min(wake'[u].left)
               PROVE  wake'[u].tokens[s] \in rejected'[s]
    BY DEF RemovedRejected
  <2>1. wake'[u] = wake[u]
    BY <1>1
  <2>2. QED
    BY <2>1 DEF RemovedRejected
<1>4. QED
  BY <1>2, <1>3

(* No step unregisters a token that its service did not reject.            *)
LEMMA DeviceStepKept ==
    TypeInv /\ RemovedRejected /\ DeviceKept /\ [Next]_vars
      => RemovedRejected' /\ DeviceKept'
<1> DEFINE Known == RemovedRejected /\ DeviceKept
<1> SUFFICES ASSUME TypeInv, Known, [Next]_vars PROVE Known'
  OBVIOUS
<1> USE PushAssumption DEF RemovedRejected, DeviceKept
<1>1. ASSUME NEW t \in Wakes, Spawn(t) PROVE Known'
  BY <1>1 DEF Spawn, TypeInv
<1>2. ASSUME NEW t \in Wakes, ReadDevices(t) PROVE Known'
  BY <1>2 DEF ReadDevices, TypeInv, NoWake
<1>3. ASSUME NEW t \in Wakes, NEW n \in Nows, Claim(t, n) PROVE Known'
  BY <1>3 DEF Claim, TypeInv
<1>4. ASSUME NEW t \in Wakes, Refused(t) \/ WakeFails(t) PROVE Known'
  <2>1. /\ wake' = [wake EXCEPT ![t] = NoWake]
        /\ UNCHANGED <<devices, wanted, rejected>>
    BY <1>4 DEF Refused, WakeFails
  <2>2. NoWake.pc # "remove"
    BY DEF NoWake
  <2>3. QED
    BY <2>1, <2>2, WakeGiven
<1>5. ASSUME NEW t \in Wakes, Send(t) PROVE Known'
  <2>1. PICK s : wake' = [wake EXCEPT ![t] = Done(t, s)]
    BY <1>5 DEF Send
  <2>2. UNCHANGED <<devices, wanted, rejected>>
    BY <1>5 DEF Send
  <2>3. Done(t, s).pc # "remove"
    BY WakeDone
  <2>4. QED
    BY <2>1, <2>2, <2>3, WakeGiven
<1>6. ASSUME NEW t \in Wakes, InvalidToken(t) PROVE Known'
  <2> DEFINE s == Min(wake[t].left)
             token == wake[t].tokens[s]
  <2>1. /\ wake' = [wake EXCEPT ![t].pc = "remove"]
        /\ rejected' = [rejected EXCEPT ![s] = @ \cup {token}]
        /\ UNCHANGED <<devices, wanted>>
    BY <1>6 DEF InvalidToken
  <2>2. /\ \A r \in Services : rejected[r] \subseteq rejected'[r]
        /\ s \in Services => token \in rejected'[s]
    <3> HIDE DEF s, token
    <3>1. QED
      BY <2>1 DEF TypeInv
  <2>3. DeviceKept'
    BY <2>1, <2>2
  <2>4. RemovedRejected'
    <3> SUFFICES ASSUME NEW u \in Wakes, NEW r \in Services,
                        wake'[u].pc = "remove", r = Min(wake'[u].left)
                 PROVE  wake'[u].tokens[r] \in rejected'[r]
      OBVIOUS
    <3>1. wake'[u].left = wake[u].left /\ wake'[u].tokens = wake[u].tokens
      BY <2>1 DEF TypeInv
    <3>2. CASE u = t
      BY <2>2, <3>1, <3>2
    <3>3. CASE u # t
      <4>1. wake'[u] = wake[u]
        BY <2>1, <3>3 DEF TypeInv
      <4>2. QED
        BY <2>2, <4>1
    <3>4. QED
      BY <3>2, <3>3
  <2>5. QED
    BY <2>3, <2>4
<1>7. ASSUME NEW t \in Wakes, RemoveDevice(t) PROVE Known'
  <2> DEFINE s == Min(wake[t].left)
  <2>1. /\ wake[t].pc = "remove"
        /\ wake' = [wake EXCEPT ![t] = Done(t, s)]
        /\ devices' = [devices EXCEPT ![s] = IF @ = wake[t].tokens[s] THEN 0 ELSE @]
        /\ UNCHANGED <<wanted, rejected>>
    BY <1>7 DEF RemoveDevice
  <2>2. s \in Services => wake[t].tokens[s] \in rejected[s]
    BY <2>1
  <2> HIDE DEF s
  <2>3. RemovedRejected'
    <3>1. Done(t, s).pc # "remove"
      BY WakeDone
    <3>2. wake'[t] = Done(t, s) /\ \A u \in Wakes : u # t => wake'[u] = wake[u]
      BY <2>1 DEF TypeInv
    <3>3. QED
      BY <2>1, <3>1, <3>2
  <2>4. DeviceKept'
    BY <2>1, <2>2 DEF TypeInv
  <2>5. QED
    BY <2>3, <2>4
<1>8. ASSUME NEW p \in Pickups, StartPickup(p) \/ PickupFails(p) \/ Look(p)
      PROVE  Known'
  BY <1>8 DEF StartPickup, PickupFails, Look
<1>9. ASSUME NEW p \in Pickups, NEW n \in Nows, Release(p, n) PROVE Known'
  BY <1>9 DEF Release
<1>10. CASE RemoveMediation
  BY <1>10 DEF RemoveMediation
<1>11. ASSUME NEW s \in Services, NEW token \in Tokens(s), SetDevice(s, token)
       PROVE  Known'
  BY <1>11 DEF SetDevice, TypeInv
<1>12. CASE Tick
  BY <1>12 DEF Tick
<1>13. CASE Restart
  BY <1>13 DEF Restart, NoWake, TypeInv
<1>14. CASE UNCHANGED vars
  BY <1>14 DEF vars
<1>15. QED
  BY <1>1, <1>2, <1>3, <1>4, <1>5, <1>6, <1>7, <1>8, <1>9, <1>10, <1>11,
     <1>12, <1>13, <1>14 DEF Next, WakeStep, PickupStep, DeviceStep

(* Only a claim, a release, the removal of the mediation and the clock     *)
(* touch what the marker says.                                             *)
LEMMA MarkerSteps ==
    ASSUME [Next]_vars
    PROVE  \/ \E t \in Wakes, n \in Nows : Claim(t, n)
           \/ \E p \in Pickups, n \in Nows : Release(p, n)
           \/ Tick
           \/ RemoveMediation
           \/ UNCHANGED <<clock, marker, claimed, pushed>>
BY DEF Next, vars, WakeStep, PickupStep, DeviceStep, Spawn, ReadDevices, Refused,
       Send, InvalidToken, RemoveDevice, WakeFails, StartPickup, PickupFails,
       Look, SetDevice, Restart

(* The marker stays the trace of the last claim.                           *)
LEMMA MarkerStep ==
    TypeInv /\ MarkerInv /\ ReleasedSoon /\ [Next]_vars
      => MarkerInv' /\ ReleasedSoon'
<1> SUFFICES ASSUME TypeInv, MarkerInv, ReleasedSoon, [Next]_vars
             PROVE  MarkerInv' /\ ReleasedSoon'
  OBVIOUS
<1> USE PushAssumption DEF MarkerInv, ReleasedSoon
<1>1. ASSUME NEW t \in Wakes, NEW n \in Nows, Claim(t, n)
      PROVE  MarkerInv' /\ ReleasedSoon'
  <2>1. /\ marker' = [sent |-> n, until |-> clock + Hold]
        /\ claimed' = clock /\ pushed' = TRUE /\ clock' = clock
    BY <1>1, ClaimHold DEF Claim
  <2>2. n \in Nat /\ n <= clock /\ clock - n <= Lag /\ clock \in Nat
    BY DEF Nows, TypeInv
  <2>3. QED
    BY <2>1, <2>2 DEF NoMarker
<1>2. ASSUME NEW p \in Pickups, NEW n \in Nows, Release(p, n)
      PROVE  MarkerInv' /\ ReleasedSoon'
  <2>1. claimed' = claimed /\ pushed' = FALSE /\ clock' = clock
    BY <1>2 DEF Release
  <2>2. n \in Nat /\ n <= clock /\ clock - n <= Lag /\ clock \in Nat
    BY DEF Nows, TypeInv
  <2>3. CASE marker' = NoMarker
    BY <2>1, <2>3 DEF TypeInv
  <2>4. CASE marker' # NoMarker
    <3>1. /\ MarkerSet
          /\ marker' \in [sent : Nat, until : Nat]
          /\ marker'.sent = marker.sent
          /\ marker'.until <= clock + (marker.sent + MinInterval - n)
      BY <1>2, <2>4, ReleaseMarker
    <3>2. marker # NoMarker /\ marker \in [sent : Nat, until : Nat]
      BY <3>1 DEF MarkerSet, TypeInv
    <3>3. claimed \in Nat /\ marker.sent <= claimed
      BY <3>2 DEF TypeInv
    <3>4. QED
      BY <2>1, <2>2, <3>1, <3>2, <3>3
  <2>5. QED
    BY <2>3, <2>4
<1>3. CASE Tick
  BY <1>3 DEF Tick, TypeInv
<1>4. CASE RemoveMediation
  BY <1>4 DEF RemoveMediation, TypeInv
<1>5. CASE UNCHANGED <<clock, marker, claimed, pushed>>
  BY <1>5
<1>6. QED
  BY <1>1, <1>2, <1>3, <1>4, <1>5, MarkerSteps

(* Where the TTL is no shorter than the interval, the marker lasts.        *)
LEMMA MarkerLastsStep ==
    ASSUME Hold >= MinInterval
    PROVE  TypeInv /\ MarkerInv /\ MarkerLasts /\ [Next]_vars => MarkerLasts'
<1> SUFFICES ASSUME TypeInv, MarkerInv, MarkerLasts, [Next]_vars PROVE MarkerLasts'
  OBVIOUS
<1> USE PushAssumption
<1>1. ASSUME NEW t \in Wakes, NEW n \in Nows, Claim(t, n) PROVE MarkerLasts'
  <2>1. /\ marker' = [sent |-> n, until |-> clock + Hold]
        /\ claimed' = clock /\ clock' = clock
    BY <1>1, ClaimHold DEF Claim
  <2>2. n \in Nat /\ clock \in Nat
    BY DEF Nows, TypeInv
  <2>3. QED
    BY <2>1, <2>2 DEF NoMarker, MarkerLasts
<1>2. ASSUME NEW p \in Pickups, NEW n \in Nows, Release(p, n) PROVE MarkerLasts'
  <2>1. claimed' = claimed /\ clock' = clock
    BY <1>2 DEF Release
  <2>2. n \in Nat /\ n <= clock /\ clock - n <= Lag /\ clock \in Nat
    BY DEF Nows, TypeInv
  <2>3. SUFFICES ASSUME claimed # -1
                 PROVE  IF marker' # NoMarker
                        THEN marker'.until >= claimed + MinInterval - Lag
                        ELSE clock >= claimed + MinInterval - Lag
    BY <2>1 DEF MarkerLasts
  <2>4. claimed \in Nat
    BY <2>3 DEF TypeInv
  <2>5. CASE marker = NoMarker
    BY <1>2, <2>3, <2>5, ReleaseMarker DEF MarkerLasts, MarkerSet
  <2>6. CASE marker # NoMarker
    <3>1. /\ marker \in [sent : Nat, until : Nat]
          /\ marker.sent >= claimed - Lag
          /\ marker.until >= claimed + MinInterval - Lag
      BY <2>3, <2>6 DEF MarkerInv, MarkerLasts, TypeInv
    <3>2. ~MarkerSet => clock >= marker.until
      BY <2>2, <2>6, <3>1 DEF MarkerSet
    <3>3. CASE marker' = NoMarker
      BY <1>2, <2>2, <2>4, <3>1, <3>2, <3>3, ReleaseMarker
    <3>4. CASE marker' # NoMarker
      <4>1. \/ marker'.until = marker.until
            \/ marker'.until = clock + (marker.sent + MinInterval - n)
        BY <1>2, <3>4, ReleaseMarker
      <4>2. QED
        BY <2>2, <2>4, <3>1, <3>4, <4>1
    <3>5. QED
      BY <3>3, <3>4
  <2>7. QED
    BY <2>5, <2>6
<1>3. CASE Tick
  BY <1>3 DEF Tick, TypeInv, MarkerLasts
<1>4. CASE RemoveMediation
  BY <1>4 DEF RemoveMediation, MarkerLasts
<1>5. CASE UNCHANGED <<clock, marker, claimed, pushed>>
  BY <1>5 DEF MarkerLasts
<1>6. QED
  BY <1>1, <1>2, <1>3, <1>4, <1>5, MarkerSteps

-----------------------------------------------------------------------------
(* Mail that a task owes a push stays covered: a task that gives up within *)
(* a claim's TTL leaves the push of that claim, and one that gives up      *)
(* after a pickup does so within the interval, or the pickup has not       *)
(* looked yet.                                                             *)
LEMMA WaitingStep ==
    TypeInv /\ MarkerInv /\ ReleasedSoon /\ NeverLeftWaiting /\ [Next]_vars
      => NeverLeftWaiting'
<1> SUFFICES ASSUME TypeInv, MarkerInv, ReleasedSoon, NeverLeftWaiting, [Next]_vars,
                    owed'
             PROVE  \/ pushed'
                    \/ \E t \in Wakes : wake'[t].pc = "claim"
                    \/ \E p \in Pickups : pickup'[p] = "look"
  BY DEF NeverLeftWaiting
<1> DEFINE Covered == \/ pushed'
                      \/ \E t \in Wakes : wake'[t].pc = "claim"
                      \/ \E p \in Pickups : pickup'[p] = "look"
<1> USE PushAssumption DEF NeverLeftWaiting
<1>1. ASSUME NEW t \in Wakes, Spawn(t) PROVE Covered
  BY <1>1 DEF Spawn, TypeInv
<1>2. ASSUME NEW t \in Wakes, ReadDevices(t) PROVE Covered
  BY <1>2 DEF ReadDevices, TypeInv, NoWake
<1>3. ASSUME NEW t \in Wakes, NEW n \in Nows, Claim(t, n) PROVE Covered
  BY <1>3 DEF Claim
<1>4. ASSUME NEW t \in Wakes, Refused(t) PROVE Covered
  <2>1. /\ owed /\ clock >= claimed + MinInterval + Lag
        /\ MarkerSet /\ UNCHANGED pushed
    BY <1>4 DEF Refused
  <2>2. marker # NoMarker /\ marker \in [sent : Nat, until : Nat]
        /\ clock < marker.until /\ claimed \in Nat /\ clock \in Nat
    BY <2>1 DEF MarkerSet, TypeInv, MarkerInv
  <2>3. pushed
    BY <2>1, <2>2 DEF ReleasedSoon, TypeInv
  <2>4. QED
    BY <2>1, <2>3
<1>5. ASSUME NEW t \in Wakes, Send(t) PROVE Covered
  <2>1. PICK s : wake' = [wake EXCEPT ![t] = Done(t, s)]
    BY <1>5 DEF Send
  <2>2. wake[t].pc = "push" /\ UNCHANGED <<pushed, pickup, owed>>
    BY <1>5 DEF Send
  <2>3. QED
    BY <2>1, <2>2 DEF TypeInv
<1>6. ASSUME NEW t \in Wakes, InvalidToken(t) PROVE Covered
  BY <1>6 DEF InvalidToken, TypeInv
<1>7. ASSUME NEW t \in Wakes, RemoveDevice(t) PROVE Covered
  <2>1. PICK s : wake' = [wake EXCEPT ![t] = Done(t, s)]
    BY <1>7 DEF RemoveDevice
  <2>2. wake[t].pc = "remove" /\ UNCHANGED <<pushed, pickup, owed>>
    BY <1>7 DEF RemoveDevice
  <2>3. QED
    BY <2>1, <2>2 DEF TypeInv
<1>8. ASSUME NEW t \in Wakes, WakeFails(t) PROVE Covered
  BY <1>8 DEF WakeFails
<1>9. ASSUME NEW p \in Pickups, StartPickup(p) \/ PickupFails(p) PROVE Covered
  BY <1>9 DEF StartPickup, PickupFails, TypeInv
<1>10. ASSUME NEW p \in Pickups, NEW n \in Nows, Release(p, n) PROVE Covered
  BY <1>10 DEF Release, TypeInv
<1>11. ASSUME NEW p \in Pickups, Look(p) PROVE Covered
  BY <1>11 DEF Look
<1>12. ASSUME NEW s \in Services, DeviceStep(s) PROVE Covered
  BY <1>12 DEF DeviceStep, SetDevice
<1>13. CASE Tick \/ Restart \/ RemoveMediation \/ UNCHANGED vars
  BY <1>13 DEF Tick, Restart, RemoveMediation, vars
<1>14. QED
  BY <1>1, <1>2, <1>3, <1>4, <1>5, <1>6, <1>7, <1>8, <1>9, <1>10, <1>11,
     <1>12, <1>13 DEF Next, WakeStep, PickupStep

-----------------------------------------------------------------------------
(* Nothing is registered, claimed or owed at the start.                    *)
LEMMA InitIInv == Init => IInv /\ MarkerLasts
<1> SUFFICES ASSUME Init PROVE IInv /\ MarkerLasts
  OBVIOUS
<1> USE PushAssumption DEF Init, NoWake
<1>1. TypeInv
  BY DEF TypeInv
<1>2. RemovedRejected /\ DeviceKept
  BY DEF RemovedRejected, DeviceKept
<1>3. MarkerInv /\ ReleasedSoon /\ MarkerLasts /\ NeverLeftWaiting
  BY DEF MarkerInv, ReleasedSoon, MarkerLasts, NeverLeftWaiting
<1>4. QED
  BY <1>1, <1>2, <1>3 DEF IInv

(* The inductive invariant holds in every state.                           *)
THEOREM Invariance == Spec => []IInv
<1>1. Init => IInv
  BY InitIInv
<1>2. IInv /\ [Next]_vars => IInv'
  BY TypeStep, DeviceStepKept, MarkerStep, WaitingStep DEF IInv
<1>3. QED
  BY <1>1, <1>2, PTL DEF Spec

(* remove_device takes the rejected token only: what the wallet registered *)
(* stays registered unless its push service rejected that token.           *)
THEOREM DevicesSafe == Spec => []DeviceKept
<1>1. IInv => DeviceKept
  BY DEF IInv
<1>2. QED
  BY <1>1, Invariance, PTL

(* Mail that a wake-up task owes a push is never left without one:         *)
(* whichever way the tasks, the pickups and the marker's expiry interleave.*)
THEOREM WakesSafe == Spec => []NeverLeftWaiting
<1>1. IInv => NeverLeftWaiting
  BY DEF IInv
<1>2. QED
  BY <1>1, Invariance, PTL

(* Only a claim starts a push.                                             *)
LEMMA OnlyClaimPushes ==
    ASSUME TypeInv, [Next]_vars, NEW t \in Wakes,
           wake[t].pc = "claim", wake'[t].pc = "push"
    PROVE  ~MarkerSet
<1>1. SUFFICES ASSUME NEW u \in Wakes, WakeStep(u) PROVE ~MarkerSet
  <2>1. Restart => wake'[t].pc = "idle"
    BY DEF Restart, NoWake
  <2>2. \/ UNCHANGED vars \/ Tick
        \/ \E p \in Pickups : PickupStep(p)
        \/ \E s \in Services : DeviceStep(s)
        \/ RemoveMediation
        => wake' = wake
    BY DEF vars, Tick, PickupStep, DeviceStep, StartPickup, PickupFails, Look,
       Release, SetDevice, RemoveMediation
  <2>3. QED
    BY <2>1, <2>2 DEF Next
<1>2. CASE u # t
  <2>1. wake'[t] = wake[t]
    BY <1>1, <1>2 DEF WakeStep, Spawn, ReadDevices, Claim, Refused, Send,
       InvalidToken, RemoveDevice, WakeFails, TypeInv
  <2>2. QED
    BY <2>1
<1>3. CASE u = t
  BY <1>1, <1>3 DEF WakeStep, Spawn, ReadDevices, Claim, Refused, Send,
     InvalidToken, RemoveDevice, WakeFails, TypeInv, NoWake
<1>4. QED
  BY <1>2, <1>3

(* SET NX EX: without a pickup, no second push before the TTL is over.     *)
THEOREM OnePushPerPickup == Spec => OnePerPickup
<1>1. IInv /\ [Next]_vars =>
        [\A t \in Wakes : wake[t].pc = "claim" /\ wake'[t].pc = "push" /\ pushed
           => clock >= claimed + Hold]_vars
  <2> SUFFICES ASSUME IInv, [Next]_vars, NEW t \in Wakes,
                      wake[t].pc = "claim", wake'[t].pc = "push", pushed
               PROVE  clock >= claimed + Hold
    OBVIOUS
  <2>1. ~MarkerSet /\ marker # NoMarker /\ marker.until >= claimed + Hold
    BY OnlyClaimPushes DEF IInv, MarkerInv
  <2>2. marker \in [sent : Nat, until : Nat] /\ claimed \in Int /\ clock \in Nat
    BY <2>1 DEF IInv, TypeInv
  <2>3. QED
    BY <2>1, <2>2, PushAssumption DEF MarkerSet
<1>2. QED
  BY <1>1, Invariance, PTL DEF OnePerPickup, Spec

(* The minimum interval between two pushes, whatever pickups come between  *)
(* them: RELEASE_PUSH shortens the marker's life, never below the          *)
(* interval; where the queue TTL is no shorter than the interval.          *)
THEOREM PushesSpaced ==
    ASSUME Hold >= MinInterval
    PROVE  Spec => IntervalKept
<1>1. Init => MarkerLasts
  BY InitIInv
<1>2. IInv /\ MarkerLasts /\ [Next]_vars => MarkerLasts'
  BY MarkerLastsStep DEF IInv
<1>3. IInv /\ MarkerLasts /\ [Next]_vars =>
        [\A t \in Wakes : wake[t].pc = "claim" /\ wake'[t].pc = "push" /\ claimed # -1
           => clock - claimed >= MinInterval - Lag]_vars
  <2> SUFFICES ASSUME IInv, MarkerLasts, [Next]_vars, NEW t \in Wakes,
                      wake[t].pc = "claim", wake'[t].pc = "push", claimed # -1
               PROVE  clock - claimed >= MinInterval - Lag
    OBVIOUS
  <2>1. ~MarkerSet
    BY OnlyClaimPushes DEF IInv
  <2>2. claimed \in Nat /\ clock \in Nat
    BY DEF IInv, TypeInv
  <2>3. CASE marker = NoMarker
    BY <2>2, <2>3, PushAssumption DEF MarkerLasts
  <2>4. CASE marker # NoMarker
    <3>1. marker \in [sent : Nat, until : Nat]
      BY <2>4 DEF IInv, TypeInv
    <3>2. clock >= marker.until /\ marker.until >= claimed + MinInterval - Lag
      BY <2>1, <2>2, <2>4, <3>1 DEF MarkerSet, MarkerLasts
    <3>3. QED
      BY <2>2, <3>1, <3>2, PushAssumption
  <2>5. QED
    BY <2>3, <2>4
<1>4. QED
  BY <1>1, <1>2, <1>3, Invariance, PTL DEF IntervalKept, Spec
=============================================================================
