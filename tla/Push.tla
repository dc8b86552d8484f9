-------------------------------- MODULE Push --------------------------------
(***************************************************************************)
(* Push wake-ups of one mediation (push/mod.rs, dispatch/devices.rs, and   *)
(* the push marker and the devices of store/redis.rs).                     *)
(*                                                                         *)
(* Every forward to a mediation that is not live spawns a task that reads  *)
(* the devices, claims the marker and pushes to each device it read.  A    *)
(* pickup releases the marker, before it looks at the queue.  Tasks and    *)
(* pickups are concurrent; each store call is atomic, and its `now` is up  *)
(* to Lag seconds old when it reaches the store.  The marker's own expiry  *)
(* is Redis's clock.  (store/memory.rs is the case Lag = 0.)               *)
(***************************************************************************)
EXTENDS Integers, FiniteSets, FiniteSetsExt

CONSTANTS
    Services,     \* the pusher's services, as numbers: their order
    Wakes,        \* wake-up tasks running at the same time
    Pickups,      \* pickup messages being handled at the same time
    MinInterval,  \* Limits.push_min_interval_secs
    Hold,         \* QueueLimits.ttl_secs
    Lag,          \* the most seconds a call takes to reach the store
    MayFail,      \* whether store calls may fail and the process restart
    MaxTokens,    \* bound: the tokens a device may have, by service
    MaxTime       \* bound: seconds

ASSUME PushAssumption ==
    /\ Services \subseteq Nat /\ IsFiniteSet(Services)
    /\ MinInterval \in Nat
    /\ Hold \in Nat \ {0}          \* Config: "positive"
    /\ Lag \in Nat
    /\ MayFail \in BOOLEAN
    /\ MaxTokens \in [Services -> Nat]
    /\ MaxTime \in Nat

VARIABLES
    clock,     \* seconds
    devices,   \* devices[s]: the token registered, or 0
    marker,    \* the push marker: when it was set, and when it expires
    wake,      \* the wake-up tasks
    pickup,    \* the pickup messages
    wanted,    \* history: what the wallet last registered
    rejected,  \* history: the tokens that each push service rejected
    claimed,   \* history: when the marker was last claimed, or -1
    pushed,    \* history: claimed since the wallet last picked up
    waiting,   \* history: something was queued since the last answer
    owed       \* history: and a task found a device to tell, and was neither
               \* stopped by a failure nor refused within the interval

vars == <<clock, devices, marker, wake, pickup, wanted, rejected, claimed,
          pushed, waiting, owed>>

Tokens(s) == 0 .. MaxTokens[s]
NoMarker == [sent |-> -1, until |-> 0]
NoWake == [pc |-> "idle", left |-> {}, tokens |-> [s \in Services |-> 0]]

Init ==
    /\ clock = 0
    /\ devices = [s \in Services |-> 0]
    /\ marker = NoMarker
    /\ wake = [t \in Wakes |-> NoWake]
    /\ pickup = [p \in Pickups |-> "idle"]
    /\ wanted = [s \in Services |-> 0]
    /\ rejected = [s \in Services |-> {}]
    /\ claimed = -1
    /\ pushed = FALSE
    /\ waiting = FALSE
    /\ owed = FALSE

(* The values `now` may have in a call that reaches the store now.         *)
Nows == {n \in 0 .. clock : clock - n <= Lag}

(* The marker's key is there.                                              *)
MarkerSet == marker # NoMarker /\ clock < marker.until

-----------------------------------------------------------------------------
(* The device.                                                             *)

(* set-device-info: registers a token, or (0) removes it.                  *)
SetDevice(s, token) ==
    /\ token # wanted[s] \/ token # devices[s]
    /\ devices' = [devices EXCEPT ![s] = token]
    /\ wanted' = [wanted EXCEPT ![s] = token]
    /\ UNCHANGED <<clock, marker, wake, pickup, rejected, claimed, pushed,
                   waiting, owed>>

(* REMOVE_MEDIATION, of a wallet that has long not been heard of: its      *)
(* devices and its marker go too, whatever tasks are about.  What comes    *)
(* after is another mediation's.  When it may go is Registry's matter.     *)
RemoveMediation ==
    /\ \A p \in Pickups : pickup[p] = "idle"
    /\ devices' = [s \in Services |-> 0]
    /\ wanted' = [s \in Services |-> 0]
    /\ marker' = NoMarker
    /\ claimed' = -1
    /\ pushed' = FALSE /\ waiting' = FALSE /\ owed' = FALSE
    /\ UNCHANGED <<clock, wake, pickup, rejected>>

-----------------------------------------------------------------------------
(* A wake-up task: push::wake.                                             *)

(* Something was queued, and the mediation is not live: Mediator::wake.    *)
Spawn(t) ==
    /\ wake[t].pc = "idle"
    /\ wake' = [wake EXCEPT ![t].pc = "devices"]
    /\ waiting' = TRUE
    /\ UNCHANGED <<clock, devices, marker, pickup, wanted, rejected, claimed,
                   pushed, owed>>

(* Without devices the task ends there.                                    *)
ReadDevices(t) ==
    LET registered == {s \in Services : devices[s] # 0}
    IN  /\ wake[t].pc = "devices"
        /\ wake' = [wake EXCEPT ![t] =
                      IF registered = {} THEN NoWake
                      ELSE [pc |-> "claim", left |-> registered, tokens |-> devices]]
        /\ owed' = (owed \/ (waiting /\ registered # {}))
        /\ UNCHANGED <<clock, devices, marker, pickup, wanted, rejected,
                       claimed, pushed, waiting>>

(* Mutant of Claim: without NX.                                            *)
ClaimAlways(t, now) ==
    /\ wake[t].pc = "claim"
    /\ wake' = [wake EXCEPT ![t].pc = "push"]
    /\ marker' = [sent |-> now, until |-> clock + Max({Hold, 1})]
    /\ claimed' = clock
    /\ pushed' = TRUE
    /\ UNCHANGED <<clock, devices, pickup, wanted, rejected, waiting, owed>>

(* claim_push: SET NX EX.                                                  *)
Claim(t, now) ==
    /\ wake[t].pc = "claim"
    /\ ~MarkerSet
    /\ wake' = [wake EXCEPT ![t].pc = "push"]
    /\ marker' = [sent |-> now, until |-> clock + Max({Hold, 1})]
    /\ claimed' = clock
    /\ pushed' = TRUE
    /\ UNCHANGED <<clock, devices, pickup, wanted, rejected, waiting, owed>>

(* A push already went out: the task ends.                                 *)
Refused(t) ==
    /\ wake[t].pc = "claim"
    /\ MarkerSet
    /\ wake' = [wake EXCEPT ![t] = NoWake]
    /\ owed' = (owed /\ clock >= claimed + MinInterval + Lag)
    /\ UNCHANGED <<clock, devices, marker, pickup, wanted, rejected, claimed,
                   pushed, waiting>>

(* On to the next device, if there is one.                                 *)
Done(t, s) ==
    LET left == wake[t].left \ {s}
    IN  IF left = {} THEN NoWake ELSE [wake[t] EXCEPT !.pc = "push", !.left = left]

(* Pusher::wake for the next device of those read: sent, or failed and     *)
(* logged; or the service rejects its token, which it may do to any.       *)
Send(t) ==
    LET s == Min(wake[t].left)
    IN  /\ wake[t].pc = "push"
        /\ wake' = [wake EXCEPT ![t] = Done(t, s)]
        /\ UNCHANGED <<clock, devices, marker, pickup, wanted, rejected,
                       claimed, pushed, waiting, owed>>

InvalidToken(t) ==
    LET s == Min(wake[t].left)
    IN  /\ wake[t].pc = "push"
        /\ wake' = [wake EXCEPT ![t].pc = "remove"]
        /\ rejected' = [rejected EXCEPT ![s] = @ \cup {wake[t].tokens[s]}]
        /\ UNCHANGED <<clock, devices, marker, pickup, wanted, claimed,
                       pushed, waiting, owed>>

(* Mutant of RemoveDevice: whatever token is registered now goes.          *)
RemoveAnyDevice(t) ==
    LET s == Min(wake[t].left)
    IN  /\ wake[t].pc = "remove"
        /\ devices' = [devices EXCEPT ![s] = 0]
        /\ wake' = [wake EXCEPT ![t] = Done(t, s)]
        /\ UNCHANGED <<clock, marker, pickup, wanted, rejected, claimed, pushed,
                       waiting, owed>>

(* remove_device: only if the rejected token is still the one registered.  *)
RemoveDevice(t) ==
    LET s == Min(wake[t].left)
    IN  /\ wake[t].pc = "remove"
        /\ devices' = [devices EXCEPT ![s] = IF @ = wake[t].tokens[s] THEN 0 ELSE @]
        /\ wake' = [wake EXCEPT ![t] = Done(t, s)]
        /\ UNCHANGED <<clock, marker, pickup, wanted, rejected, claimed, pushed,
                       waiting, owed>>

(* A store call fails (the `?` of wake): the task ends there, and devices  *)
(* it has not come to are not tried.                                       *)
WakeFails(t) ==
    /\ MayFail
    /\ wake[t].pc \in {"devices", "claim", "remove"}
    /\ wake' = [wake EXCEPT ![t] = NoWake]
    /\ owed' = FALSE
    /\ UNCHANGED <<clock, devices, marker, pickup, wanted, rejected, claimed,
                   pushed, waiting>>

-----------------------------------------------------------------------------
(* A pickup message.                                                       *)

StartPickup(p) ==
    /\ pickup[p] = "idle"
    /\ pickup' = [pickup EXCEPT ![p] = "release"]
    /\ UNCHANGED <<clock, devices, marker, wake, wanted, rejected, claimed,
                   pushed, waiting, owed>>

(* Mutants of Release: the interval is forgotten; it starts over.          *)
ReleaseAtOnce(p, now) ==
    /\ pickup[p] = "release"
    /\ pickup' = [pickup EXCEPT ![p] = "look"]
    /\ marker' = NoMarker
    /\ pushed' = FALSE
    /\ UNCHANGED <<clock, devices, wake, wanted, rejected, claimed, waiting, owed>>

ReleaseFromNow(p, now) ==
    /\ pickup[p] = "release"
    /\ pickup' = [pickup EXCEPT ![p] = "look"]
    /\ marker' = IF MarkerSet THEN [marker EXCEPT !.until = clock + MinInterval]
                              ELSE NoMarker
    /\ pushed' = FALSE
    /\ UNCHANGED <<clock, devices, wake, wanted, rejected, claimed, waiting, owed>>

(* picked_up, release_push: RELEASE_PUSH deletes the marker when the       *)
(* interval is over, or else has it expire then.                           *)
Release(p, now) ==
    LET left == marker.sent + MinInterval - now
        ttl == marker.until - clock
    IN  /\ pickup[p] = "release"
        /\ pickup' = [pickup EXCEPT ![p] = "look"]
        /\ marker' = IF ~MarkerSet \/ left <= 0 THEN NoMarker
                     ELSE [marker EXCEPT !.until = clock + Min({left, ttl})]
        /\ pushed' = FALSE
        /\ UNCHANGED <<clock, devices, wake, wanted, rejected, claimed, waiting, owed>>

(* picked_up fails: the handler ends, and the marker stays.                *)
PickupFails(p) ==
    /\ MayFail
    /\ pickup[p] = "release"
    /\ pickup' = [pickup EXCEPT ![p] = "idle"]
    /\ UNCHANGED <<clock, devices, marker, wake, wanted, rejected, claimed,
                   pushed, waiting, owed>>

(* The rest of the handler looks at the queue, or refuses the message: the *)
(* wallet is awake, and has its answer.                                    *)
Look(p) ==
    /\ pickup[p] = "look"
    /\ pickup' = [pickup EXCEPT ![p] = "idle"]
    /\ waiting' = FALSE
    /\ owed' = FALSE
    /\ UNCHANGED <<clock, devices, marker, wake, wanted, rejected, claimed, pushed>>

-----------------------------------------------------------------------------
Tick ==
    /\ clock < MaxTime
    /\ clock' = clock + 1
    /\ UNCHANGED <<devices, marker, wake, pickup, wanted, rejected, claimed,
                   pushed, waiting, owed>>

(* The process stops, and its tasks with it; the store keeps its state.    *)
Restart ==
    /\ MayFail
    /\ wake' = [t \in Wakes |-> NoWake]
    /\ pickup' = [p \in Pickups |-> "idle"]
    /\ owed' = FALSE
    /\ UNCHANGED <<clock, devices, marker, wanted, rejected, claimed, pushed,
                   waiting>>

WakeStep(t) ==
    \/ Spawn(t) \/ ReadDevices(t) \/ Refused(t) \/ Send(t)
    \/ InvalidToken(t) \/ RemoveDevice(t) \/ WakeFails(t)
    \/ \E now \in Nows : Claim(t, now)

PickupStep(p) ==
    \/ StartPickup(p) \/ PickupFails(p) \/ Look(p)
    \/ \E now \in Nows : Release(p, now)

DeviceStep(s) == \E token \in Tokens(s) : SetDevice(s, token)

Next ==
    \/ \E t \in Wakes : WakeStep(t)
    \/ \E p \in Pickups : PickupStep(p)
    \/ \E s \in Services : DeviceStep(s)
    \/ RemoveMediation
    \/ Tick
    \/ Restart

Spec == Init /\ [][Next]_vars

-----------------------------------------------------------------------------
(* Properties.                                                             *)

(* The store has what the wallet last registered, unless its push service  *)
(* rejected that very token: a rejection, however late, never removes the  *)
(* token that took the rejected one's place.                               *)
DeviceKept ==
    \A s \in Services :
      \/ devices[s] = wanted[s]
      \/ devices[s] = 0 /\ wanted[s] \in rejected[s]

(* Two pushes to a mediation are never closer than the minimum interval,   *)
(* but for the time a call takes to reach the store (push/mod.rs):         *)
(* provided that the queue TTL, which bounds the marker's life, is not     *)
(* shorter.                                                                *)
IntervalKept ==
    [][\A t \in Wakes :
         wake[t].pc = "claim" /\ wake'[t].pc = "push" /\ claimed # -1
           => clock - claimed >= MinInterval - Lag]_vars

(* At most one push until the wallet picks up: a second one means that a   *)
(* pickup began since the first, or that the marker has expired.           *)
OnePerPickup ==
    [][\A t \in Wakes :
         wake[t].pc = "claim" /\ wake'[t].pc = "push" /\ pushed
           => clock >= claimed + Hold]_vars

(* "When a message is queued for a DID that is not online, the mediator    *)
(* sends a push to that DID's devices" (docs/didcomm.md, section 5), but   *)
(* for failures and the minimum interval: mail queued since the wallet     *)
(* last had an answer has had a push since the last pickup began, or a     *)
(* task is about to send one, or a pickup about to look.                   *)
NeverLeftWaiting ==
    owed => \/ pushed
            \/ \E t \in Wakes : wake[t].pc = "claim"
            \/ \E p \in Pickups : pickup[p] = "look"
=============================================================================
