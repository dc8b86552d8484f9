----------------------------- MODULE MCProgress -----------------------------
(* What must happen in the end, of three parts of the mediator that have   *)
(* no state in common: its two background tasks, which retry relays        *)
(* (Relay) and clean up idle mediations (Registry), and its answers to a   *)
(* wallet that keeps picking up (RedisQueue).  A behaviour is one of one   *)
(* of them, chosen when it starts; the others stand still.                 *)
EXTENDS Relay, TLC

CONSTANTS m1, m2, h1, c1, c2, NoOne,   \* of the cleanup
          r1, r2, p1, Anyone           \* of the pickup

(* Two retries, the second after a longer wait.                            *)
ShortBackoff == <<1, 2>>

VARIABLES
    part,  \* which of the three runs
    now, granted, seen, owner, recipients, devices, handler, cleaner,
    clock, last, entries, bodies, bytes, expires, picker, acked, era

registry == <<now, granted, seen, owner, recipients, devices, handler, cleaner>>

queue == <<clock, last, entries, bodies, bytes, expires, picker, acked, era>>

Cleanup == INSTANCE Registry WITH
    Wallets <- {m1, m2}, Dids <- {m1, m2}, Handlers <- {h1},
    Cleaners <- {c1, c2}, Proofs <- {}, ProofRequired <- FALSE,
    ProofMaxAge <- 1, ProofMaxSkew <- 1, MaxRecipients <- 1, TTL <- 2,
    Batch <- 1, StoreFails <- FALSE, MaxHandling <- 0, MaxUpdates <- 0,
    MaxTime <- 4

Pickup == INSTANCE RedisQueue WITH
    Recipients <- {r1, r2}, Wants <- {Anyone, r2}, Sizes <- {1},
    Pickers <- {p1}, Limits <- {1, 2}, MaxMessages <- 3, MaxBytes <- 3,
    TTL <- 1, Second <- 2, MaxLag <- 1, Forgets <- FALSE, MaxTime <- 6,
    MaxPuts <- 3, MaxRemovals <- 0

Parts == {"relays", "cleanup", "pickup"}

ProgressInit == part \in Parts /\ Init /\ Cleanup!Init /\ Pickup!Init

Relays == part = "relays" /\ Next /\ UNCHANGED <<registry, queue>>
Cleans == part = "cleanup" /\ Cleanup!Next /\ UNCHANGED <<vars, queue>>
Picks == part = "pickup" /\ Pickup!Next /\ UNCHANGED <<vars, registry>>

ProgressNext == (Relays \/ Cleans \/ Picks) /\ UNCHANGED part

(* The fairness of each module, for the part that runs.                    *)
RelaysFair ==
    /\ WF_vars(part = "relays" /\ Tick)
    /\ \A i \in Ids :
         WF_vars(part = "relays" /\ (FirstOk(i) \/ FirstFails(i) \/ Schedule(i)))
    /\ \A w \in Workers :
         WF_vars(part = "relays" /\ (Round(w) \/ Retry(w) \/ RetryOk(w)
                   \/ RetryFails(w) \/ Finish(w) \/ Reschedule(w)))

CleanupFair ==
    \A c \in {c1, c2} :
      WF_registry(part = "cleanup" /\ Cleanup!CleanerStep(c))

PickupFair ==
    /\ WF_queue(part = "pickup" /\ Pickup!PickerStep(p1))
    /\ SF_queue(part = "pickup" /\ \E limit \in {1, 2}, lag \in 0 .. 1 :
                            Pickup!StartPeek(p1, Anyone, limit, lag))

ProgressSpec ==
    /\ ProgressInit
    /\ [][ProgressNext]_<<part, vars, registry, queue>>
    /\ RelaysFair /\ CleanupFair /\ PickupFair

(* Registry and RedisQueue say what these are about.                       *)
IdleGoesAway == Cleanup!IdleGoesAway
OldestFirst == Pickup!OldestFirst
EverythingPickedUp == Pickup!EverythingPickedUp
=============================================================================
