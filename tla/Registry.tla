------------------------------ MODULE Registry ------------------------------
(***************************************************************************)
(* The registration side of the mediator: which wallets have a mediation,  *)
(* which recipient DIDs and devices each of them registered, when each     *)
(* wallet was last heard of, and the hourly cleanup of idle mediations.    *)
(*                                                                         *)
(* The store is the Redis one (store/redis.rs): a Lua script or a MULTI    *)
(* block is one atomic step, and between two of them other tasks and other *)
(* instances run.  The in-process store (store/memory.rs) performs the     *)
(* same operations under one mutex, a whole cleanup batch included, so its *)
(* behaviours are among these.                                             *)
(*                                                                         *)
(* A handler is one authenticated wallet message inside Mediator::handle:  *)
(* the clock is read, the mediation touched, then the message handled,     *)
(* with an await between any two store calls.  A mediation is named by its *)
(* wallet's DID.                                                           *)
(***************************************************************************)
EXTENDS Integers, FiniteSets

CONSTANTS
    Wallets,        \* the authenticated DIDs that send messages
    Dids,           \* the DIDs that may be registered, wallets' own included
    Handlers,       \* wallet messages being handled at the same time
    Cleaners,       \* mediator instances, each with its cleanup task
    NoOne,          \* "no such key" and "field not in use"
    Proofs,         \* the possession proofs ever signed
    ProofRequired,  \* Limits.recipient_proof
    ProofMaxAge,    \* PROOF_MAX_AGE_SECS
    ProofMaxSkew,   \* PROOF_MAX_SKEW_SECS
    MaxRecipients,  \* Limits.max_recipient_dids
    TTL,            \* Limits.mediation_ttl_secs, not 0
    Batch,          \* CLEANUP_BATCH
    StoreFails,     \* whether store calls may fail and instances crash
    MaxHandling,    \* the longest from reading the clock to the last store call
    MaxUpdates,     \* bound: updates in one recipient-update
    MaxTime         \* bound: the clock stops here

(* What a proof claims; aud is this mediator or another one.               *)
ProofClaims == [iss: Dids, sub: Wallets, aud: {"here", "elsewhere"}, iat: Nat]

ASSUME RegistryAssumption ==
    /\ Wallets \subseteq Dids
    /\ NoOne \notin Dids
    /\ Proofs \subseteq ProofClaims
    /\ ProofRequired \in BOOLEAN
    /\ StoreFails \in BOOLEAN
    /\ ProofMaxAge \in Nat
    /\ ProofMaxSkew \in Nat
    /\ MaxRecipients \in Nat \ {0}
    /\ TTL \in Nat \ {0}
    /\ Batch \in Nat \ {0}
    /\ MaxHandling \in Nat
    /\ MaxUpdates \in Nat
    /\ MaxTime \in Nat

(* A message is handled well within a mediation's lifetime: seconds (an    *)
(* outbound fetch times out after 15 s) against 90 days by default.  The   *)
(* factor 2 is needed: see Spared in Registry_proofs.                      *)
ASSUME HandlingAssumption == 2 * MaxHandling < TTL

VARIABLES
    now,         \* message::now(), in seconds
    granted,     \* the keys mediation:{M} that exist
    seen,        \* the scores of mediations:seen, Never for a non-member
    owner,       \* recipient:{R}
    recipients,  \* mediation:{M}:recipients
    devices,     \* the keys push:{M} that exist
    handler,     \* per handler: where it is and what it works on
    cleaner      \* per cleaner: the round it is in

vars == <<now, granted, seen, owner, recipients, devices, handler, cleaner>>

store == <<granted, seen, owner, recipients, devices>>

Never == -1

(* The messages that change the registry.  Those that only touch and read  *)
(* (recipient-query, Message Pickup) do here what a recipient-update with  *)
(* no updates does.                                                        *)
Kinds == {"mediate-request", "recipient-update", "set-device"}

HandlerStates ==
    [pc: {"idle", "touch", "grant", "has", "updates", "add", "device"},
     kind: Kinds \union {NoOne}, who: Wallets \union {NoOne}, at: Nat,
     did: Dids \union {NoOne}, left: Nat]

CleanerStates ==
    [pc: {"waiting", "scan", "removing"}, cutoff: Nat,
     batch: SUBSET Wallets, removed: Nat]

(* Every variable has its type.                                            *)
TypeOK ==
    /\ now \in Nat
    /\ granted \in SUBSET Wallets
    /\ seen \in [Wallets -> Int]
    /\ owner \in [Dids -> Wallets \union {NoOne}]
    /\ recipients \in [Wallets -> SUBSET Dids]
    /\ devices \in SUBSET Wallets
    /\ handler \in [Handlers -> HandlerStates]
    /\ cleaner \in [Cleaners -> CleanerStates]

Idle == [pc |-> "idle", kind |-> NoOne, who |-> NoOne, at |-> 0,
         did |-> NoOne, left |-> 0]

Waiting == [pc |-> "waiting", cutoff |-> 0, batch |-> {}, removed |-> 0]

(* The clock starts TTL seconds after the epoch, so that now - TTL is a    *)
(* time before any wallet was seen.                                        *)
Init ==
    /\ now = TTL
    /\ granted = {}
    /\ seen = [m \in Wallets |-> Never]
    /\ owner = [d \in Dids |-> NoOne]
    /\ recipients = [m \in Wallets |-> {}]
    /\ devices = {}
    /\ handler = [h \in Handlers |-> Idle]
    /\ cleaner = [c \in Cleaners |-> Waiting]

-----------------------------------------------------------------------------
(* Store operations.                                                       *)

(* SET NX and ZADD in one MULTI block.                                     *)
GrantMediation(m, at) ==
    /\ granted' = granted \union {m}
    /\ seen' = [seen EXCEPT ![m] = at]
    /\ UNCHANGED <<owner, recipients, devices>>

(* Mutant of TouchMediation: the wallet's activity is not recorded.        *)
TouchNotRecorded(m, at) == UNCHANGED store

(* Nothing if there is no such mediation.                                  *)
TouchMediation(m, at) ==
    /\ seen' = IF m \in granted THEN [seen EXCEPT ![m] = at] ELSE seen
    /\ UNCHANGED <<granted, owner, recipients, devices>>

(* Mutants of AddRecipient: one too many, and no look at the owner.        *)
AddOneTooMany(m, d) ==
    /\ IF owner[d] = NoOne /\ Cardinality(recipients[m]) <= MaxRecipients
         THEN /\ owner' = [owner EXCEPT ![d] = m]
              /\ recipients' = [recipients EXCEPT ![m] = @ \union {d}]
         ELSE UNCHANGED <<owner, recipients>>
    /\ UNCHANGED <<granted, seen, devices>>

AddOverOwner(m, d) ==
    /\ IF Cardinality(recipients[m]) < MaxRecipients
         THEN /\ owner' = [owner EXCEPT ![d] = m]
              /\ recipients' = [recipients EXCEPT ![m] = @ \union {d}]
         ELSE UNCHANGED <<owner, recipients>>
    /\ UNCHANGED <<granted, seen, devices>>

(* First come first served, up to the limit; the mediation itself is not   *)
(* looked at.                                                              *)
AddRecipient(m, d) ==
    /\ IF owner[d] = NoOne /\ Cardinality(recipients[m]) < MaxRecipients
         THEN /\ owner' = [owner EXCEPT ![d] = m]
              /\ recipients' = [recipients EXCEPT ![m] = @ \union {d}]
         ELSE UNCHANGED <<owner, recipients>>
    /\ UNCHANGED <<granted, seen, devices>>

RemoveRecipient(m, d) ==
    /\ IF owner[d] = m
         THEN /\ owner' = [owner EXCEPT ![d] = NoOne]
              /\ recipients' = [recipients EXCEPT ![m] = @ \ {d}]
         ELSE UNCHANGED <<owner, recipients>>
    /\ UNCHANGED <<granted, seen, devices>>

(* One device stands for those of all push services: module Push keeps     *)
(* them apart.                                                             *)
SetDevice(m, present) ==
    /\ devices' = IF present THEN devices \union {m} ELSE devices \ {m}
    /\ UNCHANGED <<granted, seen, owner, recipients>>

(* Mutants of StillIdle: the scan is trusted; the cutoff itself excluded.  *)
ScanTrusted(m, cutoff) == TRUE

IdleBeforeCutoff(m, cutoff) == seen[m] = Never \/ seen[m] < cutoff

(* The check that the mediation is still idle, made again in the script;   *)
(* a mediation with no score passes it.                                    *)
StillIdle(m, cutoff) == seen[m] = Never \/ seen[m] <= cutoff

(* Mutant of RemoveMediation: the recipient keys stay behind.              *)
RemoveKeepingOwners(m) ==
    /\ recipients' = [recipients EXCEPT ![m] = {}]
    /\ devices' = devices \ {m}
    /\ granted' = granted \ {m}
    /\ seen' = [seen EXCEPT ![m] = Never]
    /\ UNCHANGED owner

(* REMOVE_MEDIATION once the check passed.  It deletes the mediation's     *)
(* queue (RedisQueue) and its push marker (Push) too.                      *)
RemoveMediation(m) ==
    /\ owner' = [d \in Dids |-> IF d \in recipients[m] /\ owner[d] = m
                                  THEN NoOne ELSE owner[d]]
    /\ recipients' = [recipients EXCEPT ![m] = {}]
    /\ devices' = devices \ {m}
    /\ granted' = granted \ {m}
    /\ seen' = [seen EXCEPT ![m] = Never]

-----------------------------------------------------------------------------
(* One wallet message.                                                     *)

Finish(h) == handler' = [handler EXCEPT ![h] = Idle]

(* The envelope opened, its sender is authenticated, and the clock is read *)
(* for touch_mediation.                                                    *)
Receive(h, m, kind) ==
    /\ handler[h].pc = "idle"
    /\ handler' = [handler EXCEPT ![h] =
                     [Idle EXCEPT !.pc = "touch", !.kind = kind,
                                  !.who = m, !.at = now]]
    /\ UNCHANGED <<now, store, cleaner>>

(* The touch reaches the store; a mediate-request then reads the clock     *)
(* again for the grant.                                                    *)
Touch(h) ==
    /\ handler[h].pc = "touch"
    /\ TouchMediation(handler[h].who, handler[h].at)
    /\ handler' = IF handler[h].kind = "mediate-request"
                    THEN [handler EXCEPT ![h].pc = "grant", ![h].at = now]
                    ELSE [handler EXCEPT ![h].pc = "has"]
    /\ UNCHANGED <<now, cleaner>>

(* mediate-request: every request is granted.                              *)
Grant(h) ==
    /\ handler[h].pc = "grant"
    /\ GrantMediation(handler[h].who, handler[h].at)
    /\ Finish(h)
    /\ UNCHANGED <<now, cleaner>>

(* has_mediation, then the loop over the updates.                          *)
BeginUpdates(h) ==
    /\ handler[h].pc = "has"
    /\ handler[h].kind = "recipient-update"
    /\ handler[h].who \in granted
    /\ handler' = [handler EXCEPT ![h].pc = "updates", ![h].kind = NoOne,
                                  ![h].left = MaxUpdates]
    /\ UNCHANGED <<now, store, cleaner>>

(* has_mediation, then set_device.                                         *)
BeginDevice(h) ==
    /\ handler[h].pc = "has"
    /\ handler[h].kind = "set-device"
    /\ handler[h].who \in granted
    /\ handler' = [handler EXCEPT ![h].pc = "device", ![h].kind = NoOne]
    /\ UNCHANGED <<now, store, cleaner>>

(* No such mediation: the sender gets a NoMediation problem.               *)
NoMediation(h) ==
    /\ handler[h].pc = "has"
    /\ handler[h].who \notin granted
    /\ Finish(h)
    /\ UNCHANGED <<now, store, cleaner>>

(* Mutant of ProofOK: a proof made for another mediator is accepted.       *)
ProofForAnyone(m, d, p) ==
    /\ p.iss = d
    /\ p.sub = m
    /\ p.iat + ProofMaxAge >= now
    /\ p.iat <= now + ProofMaxSkew

(* check_proof's verdict at the current clock.                             *)
ProofOK(m, d, p) ==
    /\ p.iss = d
    /\ p.aud = "here"
    /\ p.sub = m
    /\ p.iat + ProofMaxAge >= now
    /\ p.iat <= now + ProofMaxSkew

CheckProof(m, d) ==
    \/ ~ProofRequired
    \/ d = m
    \/ \E p \in Proofs : ProofOK(m, d, p)

(* The next update is an add whose proof resolved and verified.            *)
StartAdd(h, d) ==
    /\ handler[h].pc = "updates"
    /\ handler[h].left > 0
    /\ CheckProof(handler[h].who, d)
    /\ handler' = [handler EXCEPT ![h].pc = "add", ![h].did = d,
                                  ![h].left = @ - 1]
    /\ UNCHANGED <<now, store, cleaner>>

Add(h) ==
    /\ handler[h].pc = "add"
    /\ AddRecipient(handler[h].who, handler[h].did)
    /\ handler' = [handler EXCEPT ![h].pc = "updates", ![h].did = NoOne]
    /\ UNCHANGED <<now, cleaner>>

(* Mutant of Remove: nothing ends the list of updates.                     *)
RemoveEndlessly(h, d) ==
    /\ handler[h].pc = "updates"
    /\ RemoveRecipient(handler[h].who, d)
    /\ handler' = [handler EXCEPT ![h].left = @ - 1]
    /\ UNCHANGED <<now, cleaner>>

(* The next update is a remove.                                            *)
Remove(h, d) ==
    /\ handler[h].pc = "updates"
    /\ handler[h].left > 0
    /\ RemoveRecipient(handler[h].who, d)
    /\ handler' = [handler EXCEPT ![h].left = @ - 1]
    /\ UNCHANGED <<now, cleaner>>

(* The updates are exhausted; those refused changed nothing.               *)
Respond(h) ==
    /\ handler[h].pc = "updates"
    /\ Finish(h)
    /\ UNCHANGED <<now, store, cleaner>>

(* Push protocol: set-device-info registers a device or removes it.        *)
UpdateDevice(h, present) ==
    /\ handler[h].pc = "device"
    /\ SetDevice(handler[h].who, present)
    /\ Finish(h)
    /\ UNCHANGED <<now, cleaner>>

(* A store call failed, or the instance went down: what is left is not     *)
(* done.                                                                   *)
Abort(h) ==
    /\ StoreFails
    /\ handler[h].pc # "idle"
    /\ Finish(h)
    /\ UNCHANGED <<now, store, cleaner>>

-----------------------------------------------------------------------------
(* Cleanup of idle mediations: remove_idle, one task per instance.         *)

StartRound(c) ==
    /\ cleaner[c].pc = "waiting"
    /\ cleaner' = [cleaner EXCEPT ![c] =
                     [Waiting EXCEPT !.pc = "scan",
                                     !.cutoff = IF now > TTL THEN now - TTL
                                                             ELSE 0]]
    /\ UNCHANGED <<now, store, handler>>

(* The Batch oldest mediations not seen since the cutoff.                  *)
IsIdleBatch(batch, cutoff) ==
    LET idle == {m \in Wallets : seen[m] # Never /\ seen[m] <= cutoff}
    IN  /\ batch \subseteq idle
        /\ \A m \in batch, n \in idle \ batch : seen[m] <= seen[n]
        /\ Cardinality(batch) <= Batch
        /\ idle # batch => Cardinality(batch) = Batch

(* remove_idle_mediations, first call: the ZRANGE.                         *)
Scan(c, batch) ==
    /\ cleaner[c].pc = "scan"
    /\ IsIdleBatch(batch, cleaner[c].cutoff)
    /\ cleaner' = [cleaner EXCEPT ![c].pc = "removing", ![c].batch = batch,
                                  ![c].removed = 0]
    /\ UNCHANGED <<now, store, handler>>

(* One REMOVE_MEDIATION of the batch.                                      *)
RemoveIdle(c, m) ==
    /\ cleaner[c].pc = "removing"
    /\ m \in cleaner[c].batch
    /\ IF StillIdle(m, cleaner[c].cutoff)
         THEN /\ RemoveMediation(m)
              /\ cleaner' = [cleaner EXCEPT ![c].batch = @ \ {m},
                                            ![c].removed = @ + 1]
         ELSE /\ cleaner' = [cleaner EXCEPT ![c].batch = @ \ {m}]
              /\ UNCHANGED store
    /\ UNCHANGED <<now, handler>>

(* A full batch went: there may be more; else the round is over.           *)
EndBatch(c) ==
    /\ cleaner[c].pc = "removing"
    /\ cleaner[c].batch = {}
    /\ cleaner' = IF cleaner[c].removed < Batch
                    THEN [cleaner EXCEPT ![c] = Waiting]
                    ELSE [cleaner EXCEPT ![c].pc = "scan"]
    /\ UNCHANGED <<now, store, handler>>

(* A store call of the round failed, or the instance restarted.            *)
AbortRound(c) ==
    /\ StoreFails
    /\ cleaner[c].pc # "waiting"
    /\ cleaner' = [cleaner EXCEPT ![c] = Waiting]
    /\ UNCHANGED <<now, store, handler>>

-----------------------------------------------------------------------------
Tick ==
    /\ now < MaxTime
    /\ \A h \in Handlers :
         handler[h].pc # "idle" => now < handler[h].at + MaxHandling
    /\ now' = now + 1
    /\ UNCHANGED <<store, handler, cleaner>>

HandlerStep(h) ==
    \/ Touch(h) \/ Grant(h)
    \/ BeginUpdates(h) \/ BeginDevice(h) \/ NoMediation(h)
    \/ Add(h) \/ Respond(h)
    \/ \E d \in Dids : StartAdd(h, d) \/ Remove(h, d)
    \/ \E present \in BOOLEAN : UpdateDevice(h, present)

CleanerStep(c) ==
    \/ StartRound(c) \/ EndBatch(c)
    \/ \E batch \in SUBSET Wallets : Scan(c, batch)
    \/ \E m \in Wallets : RemoveIdle(c, m)

Next ==
    \/ Tick
    \/ \E h \in Handlers :
         \/ \E m \in Wallets, kind \in Kinds : Receive(h, m, kind)
         \/ HandlerStep(h)
         \/ Abort(h)
    \/ \E c \in Cleaners : CleanerStep(c) \/ AbortRound(c)

Spec == Init /\ [][Next]_vars

(* tokio runs every ready task, and the cleanup timer keeps firing.        *)
Fairness ==
    /\ \A h \in Handlers : WF_vars(HandlerStep(h))
    /\ \A c \in Cleaners : WF_vars(CleanerStep(c))

FairSpec == Spec /\ Fairness

-----------------------------------------------------------------------------
(* Properties.                                                             *)

(* The two records of a registration agree: forward finds a recipient's    *)
(* mediation (mediation_of) exactly when recipient-query of that mediation *)
(* lists it, whatever registrations, removals and cleanups interleave.     *)
OwnersMatch ==
    \A d \in Dids, m \in Wallets : owner[d] = m <=> d \in recipients[m]

(* No mediation holds more recipient DIDs than the limit, however many of  *)
(* its recipient-updates run at once.                                      *)
WithinLimit ==
    \A m \in Wallets : Cardinality(recipients[m]) <= MaxRecipients

(* Nothing is registered for a mediation that does not exist, although the *)
(* scripts that register do not look: a DID owned by a removed mediation   *)
(* could be registered by nobody else, and its mail would go to a queue    *)
(* nobody can pick up; a device token would be kept without a mediation.   *)
NothingOrphaned ==
    /\ \A d \in Dids : owner[d] # NoOne => owner[d] \in granted
    /\ devices \subseteq granted

(* A registered DID never passes from one mediation to another in one      *)
(* step: it is first given up or cleaned up.                               *)
NoTakeover ==
    [][\A d \in Dids : owner[d] # NoOne => owner'[d] \in {owner[d], NoOne}]_vars

(* A mediation is removed, and a DID taken from it without its asking,     *)
(* only when its wallet was not seen for the TTL: a scan made before the   *)
(* wallet's latest message never removes it.                               *)
OnlyIdleRemoved ==
    [][\A m \in Wallets :
         m \in granted \ granted' => seen[m] + TTL <= now]_vars

(* A DID becomes registered with another wallet's mediation only if it     *)
(* signed a proof for that mediation and this mediator that was recent     *)
(* when the message was handled.                                           *)
RegisteredWithProof ==
    [][\A d \in Dids, m \in Wallets :
         /\ ProofRequired
         /\ d # m
         /\ owner[d] # m
         /\ owner'[d] = m
         => \E p \in Proofs :
              /\ p.iss = d /\ p.sub = m /\ p.aud = "here"
              /\ p.iat + ProofMaxAge + MaxHandling >= now
              /\ p.iat <= now + ProofMaxSkew]_vars

(* An idle mediation does not stay: it is removed, or its wallet is heard  *)
(* of again.  A round that stops early because a wallet of a full batch    *)
(* came back leaves the rest to the next round.                            *)
IdleGoesAway ==
    \A m \in Wallets :
      m \in granted /\ seen[m] + TTL <= now
        ~> m \notin granted \/ seen[m] + TTL > now
=============================================================================
