-------------------------- MODULE Registry_proofs ---------------------------
(***************************************************************************)
(* Proofs about Registry, for any number of wallets, DIDs, handlers and    *)
(* instances, and any limits that satisfy the module's assumptions.        *)
(***************************************************************************)
EXTENDS Registry, FiniteSetTheorems, TLAPS

(* The two records of a mediation agree: it has a score iff it exists, and *)
(* no score is in the future.                                              *)
SeenInv ==
    /\ now >= TTL
    /\ \A m \in Wallets :
         /\ m \in granted <=> seen[m] # Never
         /\ seen[m] <= now
         /\ m \in granted => seen[m] >= 0

(* A message in handling has a sender, and an add a DID.                   *)
Busy ==
    \A h \in Handlers :
      /\ handler[h].pc # "idle" => handler[h].who \in Wallets
      /\ handler[h].pc = "add" => handler[h].did \in Dids

(* A message in handling read the clock at most MaxHandling ago.           *)
HandlerInv ==
    \A h \in Handlers : handler[h].pc # "idle" =>
      /\ handler[h].at <= now
      /\ now <= handler[h].at + MaxHandling

(* A mediation whose message is being handled was seen no longer ago than  *)
(* MaxHandling before that message.  Not "since that message": another     *)
(* message of the same wallet may have read the clock earlier and reached  *)
(* the store later, moving the score back.                                 *)
Spared ==
    \A h \in Handlers :
      /\ handler[h].pc \in {"has", "updates", "add", "device"}
      /\ handler[h].who \in granted
      => handler[h].at <= seen[handler[h].who] + MaxHandling

(* What has_mediation answered stays true while the message is handled.    *)
InUse ==
    \A h \in Handlers :
      handler[h].pc \in {"updates", "add", "device"}
        => handler[h].who \in granted

(* The cutoff of a round lies TTL in the past, or further.                 *)
CleanerInv ==
    \A c \in Cleaners : cleaner[c].pc # "waiting" => cleaner[c].cutoff + TTL <= now

(* A DID about to be added was proved when its proof was checked.          *)
Proved ==
    \A h \in Handlers :
      /\ handler[h].pc = "add"
      /\ ProofRequired
      /\ handler[h].did # handler[h].who
      => \E p \in Proofs :
           /\ p.iss = handler[h].did
           /\ p.sub = handler[h].who
           /\ p.aud = "here"
           /\ p.iat + ProofMaxAge >= handler[h].at
           /\ p.iat <= now + ProofMaxSkew

(* Cardinality means something: the recipients are finitely many.          *)
FiniteRecipients == \A m \in Wallets : IsFiniteSet(recipients[m])

(* The inductive invariant.                                                *)
IInv ==
    /\ TypeOK /\ Busy
    /\ SeenInv /\ HandlerInv /\ CleanerInv
    /\ Spared /\ InUse /\ Proved
    /\ OwnersMatch /\ NothingOrphaned
    /\ FiniteRecipients /\ WithinLimit

-----------------------------------------------------------------------------
(* Every step keeps the types.                                             *)
LEMMA TypeStep == TypeOK /\ Busy /\ [Next]_vars => TypeOK' /\ Busy'
<1> SUFFICES ASSUME TypeOK, Busy, [Next]_vars PROVE TypeOK' /\ Busy'
  OBVIOUS
<1> USE RegistryAssumption
<1>1. CASE Tick
  BY <1>1 DEF Tick, TypeOK, Busy, store
<1>2. ASSUME NEW h \in Handlers, NEW m \in Wallets, NEW kind \in Kinds,
             Receive(h, m, kind)
      PROVE  TypeOK' /\ Busy'
  BY <1>2 DEF Receive, TypeOK, Busy, store, HandlerStates, Idle
<1>3. ASSUME NEW h \in Handlers, HandlerStep(h) PROVE TypeOK' /\ Busy'
  <2>1. CASE Touch(h)
    <3>1. seen' \in [Wallets -> Int]
      BY <2>1 DEF Touch, TouchMediation, TypeOK, Busy, HandlerStates
    <3>2. CASE handler[h].kind = "mediate-request"
      <4>1. handler' = [handler EXCEPT ![h] = [@ EXCEPT !.pc = "grant", !.at = now]]
        BY <2>1, <3>2 DEF Touch, TypeOK
      <4>2. [handler[h] EXCEPT !.pc = "grant", !.at = now] \in HandlerStates
        BY DEF TypeOK, HandlerStates
      <4>3. handler' \in [Handlers -> HandlerStates]
        BY <4>1, <4>2 DEF TypeOK
      <4>4. Busy'
        BY <2>1, <4>1 DEF Touch, Busy, TypeOK, HandlerStates
      <4> QED
        BY <2>1, <3>1, <4>3, <4>4 DEF Touch, TouchMediation, TypeOK
    <3>3. CASE handler[h].kind # "mediate-request"
      BY <2>1, <3>1, <3>3 DEF Touch, TouchMediation, TypeOK, Busy, HandlerStates
    <3> QED
      BY <3>2, <3>3
  <2>2. CASE Grant(h)
    BY <2>2 DEF Grant, GrantMediation, Finish, Idle, TypeOK, Busy, HandlerStates
  <2>3. CASE BeginUpdates(h) \/ BeginDevice(h)
    BY <2>3, SMTT(20) DEF BeginUpdates, BeginDevice, TypeOK, Busy, HandlerStates, store
  <2>4. CASE NoMediation(h) \/ Respond(h)
    BY <2>4 DEF NoMediation, Respond, Finish, Idle, TypeOK, Busy, HandlerStates, store
  <2>5. CASE Add(h)
    BY <2>5 DEF Add, AddRecipient, TypeOK, Busy, HandlerStates
  <2>6. ASSUME NEW d \in Dids, StartAdd(h, d) PROVE TypeOK' /\ Busy'
    BY <2>6 DEF StartAdd, TypeOK, Busy, HandlerStates, store
  <2>7. ASSUME NEW d \in Dids, Remove(h, d) PROVE TypeOK' /\ Busy'
    BY <2>7 DEF Remove, RemoveRecipient, TypeOK, Busy, HandlerStates
  <2>8. ASSUME NEW present \in BOOLEAN, UpdateDevice(h, present) PROVE TypeOK' /\ Busy'
    BY <2>8 DEF UpdateDevice, SetDevice, Finish, Idle, TypeOK, Busy, HandlerStates
  <2> QED
    BY <1>3, <2>1, <2>2, <2>3, <2>4, <2>5, <2>6, <2>7, <2>8 DEF HandlerStep
<1>4. ASSUME NEW h \in Handlers, Abort(h) PROVE TypeOK' /\ Busy'
  BY <1>4 DEF Abort, Finish, Idle, TypeOK, Busy, HandlerStates, store
<1>5. ASSUME NEW c \in Cleaners, CleanerStep(c) PROVE TypeOK' /\ Busy'
  <2>0. Waiting \in CleanerStates
    BY DEF Waiting, CleanerStates
  <2>1. CASE StartRound(c)
    <3>1. (IF now > TTL THEN now - TTL ELSE 0) \in Nat
      BY DEF TypeOK
    <3> QED
      BY <2>1, <3>1 DEF StartRound, Waiting, TypeOK, Busy, CleanerStates, store
  <2>4. CASE EndBatch(c)
    BY <2>0, <2>4 DEF EndBatch, TypeOK, Busy, CleanerStates, store
  <2>2. ASSUME NEW batch \in SUBSET Wallets, Scan(c, batch) PROVE TypeOK' /\ Busy'
    <3>1. /\ UNCHANGED <<now, granted, seen, owner, recipients, devices, handler>>
          /\ cleaner' = [cleaner EXCEPT ![c] = [@ EXCEPT !.pc = "removing",
                                                !.batch = batch, !.removed = 0]]
      BY <2>2 DEF Scan, store, TypeOK
    <3>2. [cleaner[c] EXCEPT !.pc = "removing", !.batch = batch, !.removed = 0]
            \in CleanerStates
      BY DEF TypeOK, CleanerStates
    <3>3. cleaner' \in [Cleaners -> CleanerStates]
      BY <3>1, <3>2 DEF TypeOK
    <3> QED
      BY <3>1, <3>3 DEF TypeOK, Busy
  <2>3. ASSUME NEW m \in Wallets, RemoveIdle(c, m) PROVE TypeOK' /\ Busy'
    BY <2>3 DEF RemoveIdle, RemoveMediation, TypeOK, Busy, CleanerStates, store, Never
  <2> QED
    BY <1>5, <2>1, <2>2, <2>3, <2>4 DEF CleanerStep
<1>6. ASSUME NEW c \in Cleaners, AbortRound(c) PROVE TypeOK' /\ Busy'
  BY <1>6 DEF AbortRound, Waiting, TypeOK, Busy, CleanerStates, store
<1>7. CASE UNCHANGED vars
  BY <1>7 DEF vars, TypeOK, Busy
<1> QED
  BY <1>1, <1>2, <1>3, <1>4, <1>5, <1>6, <1>7 DEF Next

-----------------------------------------------------------------------------
(* The clock's invariants: no score or reading lies in the future, and     *)
(* the cutoff of a round stays TTL behind.                                 *)
LEMMA ClockStep ==
  IInv /\ [Next]_vars => SeenInv' /\ HandlerInv' /\ CleanerInv'
<1> SUFFICES ASSUME IInv, [Next]_vars
             PROVE  SeenInv' /\ HandlerInv' /\ CleanerInv'
  OBVIOUS
<1> USE RegistryAssumption DEF IInv, SeenInv, HandlerInv, CleanerInv, TypeOK
<1>1. CASE Tick
  BY <1>1 DEF Tick, store, HandlerStates, CleanerStates
<1>2. ASSUME NEW h \in Handlers, NEW m \in Wallets, NEW kind \in Kinds,
             Receive(h, m, kind)
      PROVE  SeenInv' /\ HandlerInv' /\ CleanerInv'
  BY <1>2 DEF Receive, store, Idle
<1>3. ASSUME NEW h \in Handlers, HandlerStep(h)
      PROVE  SeenInv' /\ HandlerInv' /\ CleanerInv'
  <2>1. CASE Touch(h)
    <3>1. SeenInv'
      BY <2>1 DEF Touch, TouchMediation, Busy, HandlerStates, Never
    <3>2. HandlerInv'
      BY <2>1 DEF Touch, HandlerStates
    <3> QED
      BY <2>1, <3>1, <3>2 DEF Touch
  <2>2. CASE Grant(h)
    <3>1. SeenInv'
      BY <2>2 DEF Grant, GrantMediation, Busy, HandlerStates, Never
    <3> QED
      BY <2>2, <3>1 DEF Grant, Finish, Idle
  <2>3. CASE BeginUpdates(h) \/ BeginDevice(h)
    <3>1. CASE BeginUpdates(h)
      BY <3>1 DEF BeginUpdates, store, HandlerStates
    <3>2. CASE BeginDevice(h)
      BY <3>2 DEF BeginDevice, store, HandlerStates
    <3> QED
      BY <2>3, <3>1, <3>2
  <2>4. CASE NoMediation(h) \/ Respond(h)
    BY <2>4 DEF NoMediation, Respond, Finish, Idle, store
  <2>5. CASE Add(h)
    BY <2>5 DEF Add, AddRecipient
  <2>6. ASSUME NEW d \in Dids, StartAdd(h, d)
        PROVE  SeenInv' /\ HandlerInv' /\ CleanerInv'
    BY <2>6 DEF StartAdd, store
  <2>7. ASSUME NEW d \in Dids, Remove(h, d)
        PROVE  SeenInv' /\ HandlerInv' /\ CleanerInv'
    BY <2>7 DEF Remove, RemoveRecipient
  <2>8. ASSUME NEW present \in BOOLEAN, UpdateDevice(h, present)
        PROVE  SeenInv' /\ HandlerInv' /\ CleanerInv'
    BY <2>8 DEF UpdateDevice, SetDevice, Finish, Idle
  <2> QED
    BY <1>3, <2>1, <2>2, <2>3, <2>4, <2>5, <2>6, <2>7, <2>8 DEF HandlerStep
<1>4. ASSUME NEW h \in Handlers, Abort(h)
      PROVE  SeenInv' /\ HandlerInv' /\ CleanerInv'
  BY <1>4 DEF Abort, Finish, Idle, store
<1>5. ASSUME NEW c \in Cleaners, CleanerStep(c)
      PROVE  SeenInv' /\ HandlerInv' /\ CleanerInv'
  <2>1. CASE StartRound(c)
    BY <2>1 DEF StartRound, Waiting, store
  <2>2. CASE EndBatch(c)
    BY <2>2 DEF EndBatch, Waiting, store
  <2>3. ASSUME NEW batch \in SUBSET Wallets, Scan(c, batch)
        PROVE  SeenInv' /\ HandlerInv' /\ CleanerInv'
    BY <2>3 DEF Scan, store
  <2>4. ASSUME NEW m \in Wallets, RemoveIdle(c, m)
        PROVE  SeenInv' /\ HandlerInv' /\ CleanerInv'
    <3>1. SeenInv'
      BY <2>4 DEF RemoveIdle, RemoveMediation, store, Never
    <3>2. HandlerInv'
      BY <2>4 DEF RemoveIdle
    <3>3. \A b \in Cleaners : /\ cleaner'[b].pc = cleaner[b].pc
                             /\ cleaner'[b].cutoff = cleaner[b].cutoff
      <4>1. CASE StillIdle(m, cleaner[c].cutoff)
        BY <2>4, <4>1 DEF RemoveIdle, CleanerStates
      <4>2. CASE ~StillIdle(m, cleaner[c].cutoff)
        BY <2>4, <4>2 DEF RemoveIdle, CleanerStates
      <4> QED
        BY <4>1, <4>2
    <3> QED
      BY <2>4, <3>1, <3>2, <3>3 DEF RemoveIdle
  <2> QED
    BY <1>5, <2>1, <2>2, <2>3, <2>4 DEF CleanerStep
<1>6. ASSUME NEW c \in Cleaners, AbortRound(c)
      PROVE  SeenInv' /\ HandlerInv' /\ CleanerInv'
  BY <1>6 DEF AbortRound, Waiting, store
<1>7. CASE UNCHANGED vars
  BY <1>7 DEF vars
<1> QED
  BY <1>1, <1>2, <1>3, <1>4, <1>5, <1>6, <1>7 DEF Next

(* The heart of the matter: cleanup never removes a mediation one of whose *)
(* messages is past has_mediation.                                         *)
LEMMA CleanupSpares ==
  ASSUME IInv, NEW c \in Cleaners, NEW m \in Wallets,
         cleaner[c].pc = "removing", StillIdle(m, cleaner[c].cutoff),
         NEW h \in Handlers,
         handler[h].pc \in {"has", "updates", "add", "device"},
         handler[h].who = m
  PROVE  m \notin granted
<1> SUFFICES ASSUME m \in granted PROVE FALSE
  OBVIOUS
<1>1. /\ seen[m] \in Int /\ now \in Nat /\ cleaner[c].cutoff \in Nat
      /\ handler[h].at \in Nat
  BY DEF IInv, TypeOK, HandlerStates, CleanerStates
<1>2. seen[m] + TTL <= now
  <2>1. seen[m] <= cleaner[c].cutoff
    BY DEF IInv, SeenInv, StillIdle
  <2>2. cleaner[c].cutoff + TTL <= now
    BY DEF IInv, CleanerInv
  <2> QED
    BY <1>1, <2>1, <2>2, RegistryAssumption
<1>3. now <= handler[h].at + MaxHandling
  BY DEF IInv, HandlerInv
<1>4. handler[h].at <= seen[m] + MaxHandling
  BY DEF IInv, Spared
<1> QED
  BY <1>1, <1>2, <1>3, <1>4, RegistryAssumption, HandlingAssumption

(* What a handler relies on after has_mediation stays true.                *)
LEMMA SparedStep == IInv /\ [Next]_vars => Spared' /\ InUse'
<1> SUFFICES ASSUME IInv, [Next]_vars PROVE Spared' /\ InUse'
  OBVIOUS
<1> USE RegistryAssumption DEF IInv, Spared, InUse, TypeOK, Busy
<1>1. CASE Tick
  BY <1>1 DEF Tick, store
<1>2. ASSUME NEW h \in Handlers, NEW m \in Wallets, NEW kind \in Kinds,
             Receive(h, m, kind)
      PROVE  Spared' /\ InUse'
  BY <1>2 DEF Receive, store, Idle
<1>3. ASSUME NEW h \in Handlers, HandlerStep(h) PROVE Spared' /\ InUse'
  <2>0. \A g \in Handlers : handler[g] \in HandlerStates
    OBVIOUS
  <2>1. CASE Touch(h)
    <3>1. ASSUME NEW g \in Handlers,
                 handler'[g].pc \in {"has", "updates", "add", "device"},
                 handler'[g].who \in granted'
          PROVE  handler'[g].at <= seen'[handler'[g].who] + MaxHandling
      <4>1. CASE g = h
        BY <2>1, <3>1, <4>1, <2>0 DEF Touch, TouchMediation, HandlerStates
      <4>2. CASE g # h
        <5>1. handler'[g] = handler[g]
          BY <2>1, <4>2 DEF Touch
        <5>2. handler[g].at <= handler[h].at + MaxHandling
          BY <2>1, <2>0, <3>1, <5>1 DEF Touch, HandlerInv, HandlerStates
        <5> QED
          BY <2>1, <3>1, <4>2, <5>1, <5>2 DEF Touch, TouchMediation
      <4> QED
        BY <4>1, <4>2
    <3>2. InUse'
      BY <2>1 DEF Touch, TouchMediation
    <3> QED
      BY <3>1, <3>2
  <2>2. CASE Grant(h)
    <3>1. ASSUME NEW g \in Handlers,
                 handler'[g].pc \in {"has", "updates", "add", "device"},
                 handler'[g].who \in granted'
          PROVE  handler'[g].at <= seen'[handler'[g].who] + MaxHandling
      <4>1. g # h /\ handler'[g] = handler[g]
        BY <2>2, <3>1 DEF Grant, Finish, Idle
      <4>2. handler[g].at <= handler[h].at + MaxHandling
        BY <2>2, <2>0, <3>1, <4>1 DEF Grant, HandlerInv, HandlerStates
      <4> QED
        BY <2>2, <3>1, <4>1, <4>2 DEF Grant, GrantMediation
    <3>2. InUse'
      BY <2>2 DEF Grant, GrantMediation, Finish, Idle
    <3> QED
      BY <3>1, <3>2
  <2>3. CASE BeginUpdates(h) \/ BeginDevice(h)
    <3>1. CASE BeginUpdates(h)
      BY <3>1 DEF BeginUpdates, store, HandlerStates
    <3>2. CASE BeginDevice(h)
      BY <3>2 DEF BeginDevice, store, HandlerStates
    <3> QED
      BY <2>3, <3>1, <3>2
  <2>4. CASE NoMediation(h) \/ Respond(h)
    BY <2>4 DEF NoMediation, Respond, Finish, Idle, store
  <2>5. CASE Add(h)
    BY <2>5 DEF Add, AddRecipient
  <2>6. ASSUME NEW d \in Dids, StartAdd(h, d) PROVE Spared' /\ InUse'
    BY <2>6 DEF StartAdd, store
  <2>7. ASSUME NEW d \in Dids, Remove(h, d) PROVE Spared' /\ InUse'
    BY <2>7 DEF Remove, RemoveRecipient
  <2>8. ASSUME NEW present \in BOOLEAN, UpdateDevice(h, present)
        PROVE  Spared' /\ InUse'
    BY <2>8 DEF UpdateDevice, SetDevice, Finish, Idle
  <2> QED
    BY <1>3, <2>1, <2>2, <2>3, <2>4, <2>5, <2>6, <2>7, <2>8 DEF HandlerStep
<1>4. ASSUME NEW h \in Handlers, Abort(h) PROVE Spared' /\ InUse'
  BY <1>4 DEF Abort, Finish, Idle, store
<1>5. ASSUME NEW c \in Cleaners, CleanerStep(c) PROVE Spared' /\ InUse'
  <2>1. CASE StartRound(c) \/ EndBatch(c)
    BY <2>1 DEF StartRound, EndBatch, store
  <2>2. ASSUME NEW batch \in SUBSET Wallets, Scan(c, batch)
        PROVE  Spared' /\ InUse'
    BY <2>2 DEF Scan, store
  <2>3. ASSUME NEW m \in Wallets, RemoveIdle(c, m) PROVE Spared' /\ InUse'
    <3>1. CASE StillIdle(m, cleaner[c].cutoff)
      <4>1. \A g \in Handlers :
              handler[g].pc \in {"has", "updates", "add", "device"}
                => handler[g].who # m \/ m \notin granted
        BY <2>3, <3>1, CleanupSpares DEF RemoveIdle
      <4>2. granted' = granted \ {m} /\ seen' = [seen EXCEPT ![m] = Never]
        BY <2>3, <3>1 DEF RemoveIdle, RemoveMediation
      <4> QED
        BY <2>3, <4>1, <4>2 DEF RemoveIdle
    <3>2. CASE ~StillIdle(m, cleaner[c].cutoff)
      BY <2>3, <3>2 DEF RemoveIdle, store
    <3> QED
      BY <3>1, <3>2
  <2> QED
    BY <1>5, <2>1, <2>2, <2>3 DEF CleanerStep
<1>6. ASSUME NEW c \in Cleaners, AbortRound(c) PROVE Spared' /\ InUse'
  BY <1>6 DEF AbortRound, store
<1>7. CASE UNCHANGED vars
  BY <1>7 DEF vars
<1> QED
  BY <1>1, <1>2, <1>3, <1>4, <1>5, <1>6, <1>7 DEF Next

(* A proof that was recent when it was checked stays so while the DID is   *)
(* being added.                                                            *)
LEMMA ProvedStep == IInv /\ [Next]_vars => Proved'
<1> SUFFICES ASSUME IInv, [Next]_vars PROVE Proved'
  OBVIOUS
<1> USE RegistryAssumption DEF IInv, TypeOK, Busy
<1>1. CASE Tick
  BY <1>1 DEF Tick, store, Proved, ProofClaims
<1>2. ASSUME NEW h \in Handlers, NEW d \in Dids, StartAdd(h, d) PROVE Proved'
  <2>1. \A g \in Handlers : g # h => handler'[g] = handler[g]
    BY <1>2 DEF StartAdd
  <2>2. /\ handler'[h].did = d
        /\ handler'[h].who = handler[h].who
        /\ handler'[h].at = handler[h].at
    BY <1>2 DEF StartAdd, HandlerStates
  <2>3. ASSUME ProofRequired, d # handler[h].who
        PROVE  \E p \in Proofs :
                 /\ p.iss = d /\ p.sub = handler[h].who /\ p.aud = "here"
                 /\ p.iat + ProofMaxAge >= handler[h].at
                 /\ p.iat <= now + ProofMaxSkew
    <3>1. PICK p \in Proofs : ProofOK(handler[h].who, d, p)
      BY <1>2, <2>3 DEF StartAdd, CheckProof
    <3>2. handler[h].at <= now /\ handler[h].at \in Nat /\ p.iat \in Nat
      BY <1>2, <3>1 DEF StartAdd, HandlerInv, HandlerStates, ProofClaims
    <3> QED
      BY <3>1, <3>2 DEF ProofOK
  <2>4. now' = now
    BY <1>2 DEF StartAdd
  <2> QED
    BY <2>1, <2>2, <2>3, <2>4 DEF Proved
<1>3. ASSUME now' = now,
             \A g \in Handlers : handler'[g].pc = "add" => handler'[g] = handler[g]
      PROVE  Proved'
  BY <1>3 DEF Proved
<1>4. ASSUME NEW h \in Handlers, NEW m \in Wallets, NEW kind \in Kinds,
             Receive(h, m, kind)
      PROVE  Proved'
  BY <1>3, <1>4 DEF Receive, Idle
<1>5. ASSUME NEW h \in Handlers, HandlerStep(h),
             \A d \in Dids : ~StartAdd(h, d)
      PROVE  Proved'
  <2>1. CASE Touch(h)
    BY <1>3, <2>1 DEF Touch, HandlerStates
  <2>2. CASE Grant(h)
    BY <1>3, <2>2 DEF Grant, Finish, Idle
  <2>3. CASE BeginUpdates(h)
    BY <1>3, <2>3 DEF BeginUpdates, HandlerStates
  <2>4. CASE BeginDevice(h)
    BY <1>3, <2>4 DEF BeginDevice, HandlerStates
  <2>5. CASE NoMediation(h) \/ Respond(h)
    BY <1>3, <2>5 DEF NoMediation, Respond, Finish, Idle
  <2>6. CASE Add(h)
    BY <1>3, <2>6 DEF Add, HandlerStates
  <2>7. ASSUME NEW d \in Dids, Remove(h, d) PROVE Proved'
    BY <1>3, <2>7 DEF Remove, HandlerStates
  <2>8. ASSUME NEW present \in BOOLEAN, UpdateDevice(h, present) PROVE Proved'
    BY <1>3, <2>8 DEF UpdateDevice, Finish, Idle
  <2> QED
    BY <1>5, <2>1, <2>2, <2>3, <2>4, <2>5, <2>6, <2>7, <2>8 DEF HandlerStep
<1>6. ASSUME NEW h \in Handlers, Abort(h) PROVE Proved'
  BY <1>3, <1>6 DEF Abort, Finish, Idle
<1>7. ASSUME NEW c \in Cleaners, CleanerStep(c) \/ AbortRound(c) PROVE Proved'
  BY <1>3, <1>7 DEF CleanerStep, StartRound, EndBatch, Scan, RemoveIdle, AbortRound
<1>8. CASE UNCHANGED vars
  BY <1>3, <1>8 DEF vars
<1> QED
  BY <1>1, <1>2, <1>4, <1>5, <1>6, <1>7, <1>8 DEF Next

(* One more element makes a finite set at most one larger.                 *)
LEMMA AddOne ==
  ASSUME NEW S, IsFiniteSet(S), NEW x
  PROVE  /\ IsFiniteSet(S \union {x})
         /\ Cardinality(S \union {x}) <= Cardinality(S) + 1
         /\ Cardinality(S) \in Nat
<1>1. Cardinality(S) \in Nat
  BY FS_CardinalityType
<1>2. IsFiniteSet(S \union {x})
  BY FS_AddElement
<1>3. CASE x \in S
  <2>1. S \union {x} = S
    BY <1>3
  <2>2. Cardinality(S) <= Cardinality(S) + 1
    BY <1>1
  <2> QED
    BY <1>1, <1>2, <2>1, <2>2, Zenon
<1>4. CASE x \notin S
  <2>1. Cardinality(S \union {x}) = Cardinality(S) + 1
    BY <1>4, FS_AddElement
  <2>2. Cardinality(S) + 1 <= Cardinality(S) + 1
    BY <1>1
  <2> QED
    BY <1>1, <1>2, <2>1, <2>2, Zenon
<1> QED
  BY <1>3, <1>4

(* Registrations: both records agree, stay within the limit, and belong to *)
(* mediations that exist.                                                  *)
Registered == OwnersMatch /\ NothingOrphaned /\ FiniteRecipients /\ WithinLimit

LEMMA RegisteredStep == IInv /\ [Next]_vars => Registered'
<1> SUFFICES ASSUME IInv, [Next]_vars PROVE Registered'
  OBVIOUS
<1> USE RegistryAssumption DEF IInv, TypeOK, Busy
<1>0. ASSUME UNCHANGED <<owner, recipients, devices>>, granted \subseteq granted'
      PROVE  Registered'
  BY <1>0 DEF Registered, OwnersMatch, NothingOrphaned, FiniteRecipients, WithinLimit
<1>1. CASE Tick
  BY <1>0, <1>1 DEF Tick, store
<1>2. ASSUME NEW h \in Handlers, NEW m \in Wallets, NEW kind \in Kinds,
             Receive(h, m, kind)
      PROVE  Registered'
  BY <1>0, <1>2 DEF Receive, store
<1>3. ASSUME NEW h \in Handlers, HandlerStep(h) PROVE Registered'
  <2>1. CASE Touch(h)
    BY <1>0, <2>1 DEF Touch, TouchMediation
  <2>2. CASE Grant(h)
    BY <1>0, <2>2 DEF Grant, GrantMediation
  <2>3. CASE BeginUpdates(h) \/ BeginDevice(h) \/ NoMediation(h) \/ Respond(h)
    BY <1>0, <2>3 DEF BeginUpdates, BeginDevice, NoMediation, Respond, store
  <2>4. ASSUME NEW d \in Dids, StartAdd(h, d) PROVE Registered'
    BY <1>0, <2>4 DEF StartAdd, store
  <2>5. CASE Add(h)
    <3> DEFINE m == handler[h].who
               d == handler[h].did
    <3>1. m \in Wallets /\ d \in Dids /\ m \in granted
      BY <2>5 DEF Add, InUse
    <3>2. CASE ~(owner[d] = NoOne /\ Cardinality(recipients[m]) < MaxRecipients)
      BY <1>0, <2>5, <3>2 DEF Add, AddRecipient
    <3>3. CASE owner[d] = NoOne /\ Cardinality(recipients[m]) < MaxRecipients
      <4>1. /\ owner' = [owner EXCEPT ![d] = m]
            /\ recipients' = [recipients EXCEPT ![m] = @ \union {d}]
            /\ UNCHANGED <<granted, devices>>
        BY <2>5, <3>3 DEF Add, AddRecipient
      <4>2. OwnersMatch'
        BY <3>1, <3>3, <4>1 DEF OwnersMatch
      <4>3. NothingOrphaned'
        BY <3>1, <4>1 DEF NothingOrphaned
      <4>4. /\ IsFiniteSet(recipients[m] \union {d})
            /\ Cardinality(recipients[m] \union {d}) <= Cardinality(recipients[m]) + 1
            /\ Cardinality(recipients[m]) \in Nat
        <5>1. IsFiniteSet(recipients[m])
          BY <3>1 DEF FiniteRecipients
        <5> QED
          BY <5>1, AddOne
      <4>5. Cardinality(recipients[m] \union {d}) \in Nat
        BY <4>4, FS_CardinalityType
      <4>6. FiniteRecipients' /\ WithinLimit'
        <5>1. /\ recipients'[m] = recipients[m] \union {d}
              /\ \A n \in Wallets : n # m => recipients'[n] = recipients[n]
          BY <3>1, <4>1
        <5>2. Cardinality(recipients'[m]) <= MaxRecipients
          BY <3>3, <4>4, <4>5, <5>1
        <5> QED
          BY <4>4, <5>1, <5>2 DEF FiniteRecipients, WithinLimit
      <4> QED
        BY <4>2, <4>3, <4>6 DEF Registered
    <3> QED
      BY <3>2, <3>3
  <2>6. ASSUME NEW d \in Dids, Remove(h, d) PROVE Registered'
    <3> DEFINE m == handler[h].who
    <3>1. m \in Wallets
      BY <2>6 DEF Remove
    <3>2. CASE owner[d] # m
      BY <1>0, <2>6, <3>2 DEF Remove, RemoveRecipient
    <3>3. CASE owner[d] = m
      <4>1. /\ owner' = [owner EXCEPT ![d] = NoOne]
            /\ recipients' = [recipients EXCEPT ![m] = @ \ {d}]
            /\ UNCHANGED <<granted, devices>>
        BY <2>6, <3>3 DEF Remove, RemoveRecipient
      <4>2. OwnersMatch'
        BY <3>1, <3>3, <4>1 DEF OwnersMatch
      <4>3. NothingOrphaned'
        BY <4>1 DEF NothingOrphaned
      <4>4. /\ IsFiniteSet(recipients[m] \ {d})
            /\ Cardinality(recipients[m] \ {d}) <= Cardinality(recipients[m])
            /\ Cardinality(recipients[m] \ {d}) \in Nat
            /\ Cardinality(recipients[m]) \in Nat
        BY <3>1, FS_Subset, FS_CardinalityType DEF FiniteRecipients
      <4>5. FiniteRecipients' /\ WithinLimit'
        <5>1. /\ recipients'[m] = recipients[m] \ {d}
              /\ \A n \in Wallets : n # m => recipients'[n] = recipients[n]
          BY <3>1, <4>1
        <5>2. Cardinality(recipients'[m]) <= MaxRecipients
          BY <3>1, <4>4, <5>1 DEF WithinLimit
        <5> QED
          BY <4>4, <5>1, <5>2 DEF FiniteRecipients, WithinLimit
      <4> QED
        BY <4>2, <4>3, <4>5 DEF Registered
    <3> QED
      BY <3>2, <3>3
  <2>7. ASSUME NEW present \in BOOLEAN, UpdateDevice(h, present)
        PROVE  Registered'
    <3>1. handler[h].who \in granted
      BY <2>7 DEF UpdateDevice, InUse
    <3>2. NothingOrphaned'
      BY <2>7, <3>1 DEF UpdateDevice, SetDevice, NothingOrphaned
    <3> QED
      BY <2>7, <3>2 DEF UpdateDevice, SetDevice, Registered, OwnersMatch,
                        FiniteRecipients, WithinLimit
  <2> QED
    BY <1>3, <2>1, <2>2, <2>3, <2>4, <2>5, <2>6, <2>7 DEF HandlerStep
<1>4. ASSUME NEW h \in Handlers, Abort(h) PROVE Registered'
  BY <1>0, <1>4 DEF Abort, store
<1>5. ASSUME NEW c \in Cleaners, CleanerStep(c) PROVE Registered'
  <2>1. CASE StartRound(c) \/ EndBatch(c)
    BY <1>0, <2>1 DEF StartRound, EndBatch, store
  <2>2. ASSUME NEW batch \in SUBSET Wallets, Scan(c, batch) PROVE Registered'
    BY <1>0, <2>2 DEF Scan, store
  <2>3. ASSUME NEW m \in Wallets, RemoveIdle(c, m) PROVE Registered'
    <3>1. CASE ~StillIdle(m, cleaner[c].cutoff)
      BY <1>0, <2>3, <3>1 DEF RemoveIdle, store
    <3>2. CASE StillIdle(m, cleaner[c].cutoff)
      <4>1. RemoveMediation(m)
        BY <2>3, <3>2 DEF RemoveIdle
      <4>2. OwnersMatch'
        BY <4>1 DEF RemoveMediation, OwnersMatch
      <4>3. NothingOrphaned'
        BY <4>1 DEF RemoveMediation, NothingOrphaned, OwnersMatch
      <4>4. IsFiniteSet({}) /\ Cardinality({}) = 0
        BY FS_EmptySet
      <4>5. FiniteRecipients' /\ WithinLimit'
        BY <4>1, <4>4 DEF RemoveMediation, FiniteRecipients, WithinLimit
      <4> QED
        BY <4>2, <4>3, <4>5 DEF Registered
    <3> QED
      BY <3>1, <3>2
  <2> QED
    BY <1>5, <2>1, <2>2, <2>3 DEF CleanerStep
<1>6. ASSUME NEW c \in Cleaners, AbortRound(c) PROVE Registered'
  BY <1>0, <1>6 DEF AbortRound, store
<1>7. CASE UNCHANGED vars
  BY <1>0, <1>7 DEF vars
<1> QED
  BY <1>1, <1>2, <1>3, <1>4, <1>5, <1>6, <1>7 DEF Next

-----------------------------------------------------------------------------
(* The invariant holds in every reachable state.                           *)
LEMMA Inductive == Spec => []IInv
<1>1. Init => IInv
  <2> SUFFICES ASSUME Init PROVE IInv
    OBVIOUS
  <2> USE RegistryAssumption
  <2>1. Idle \in HandlerStates /\ Waiting \in CleanerStates
    BY DEF Idle, HandlerStates, Waiting, CleanerStates
  <2>2. TypeOK
    BY <2>1 DEF Init, TypeOK, Never
  <2>3. Busy /\ HandlerInv /\ Spared /\ InUse /\ Proved
    BY DEF Init, Idle, Busy, HandlerInv, Spared, InUse, Proved
  <2>4. SeenInv /\ CleanerInv
    BY DEF Init, Waiting, SeenInv, CleanerInv, Never
  <2>5. OwnersMatch /\ NothingOrphaned
    BY DEF Init, OwnersMatch, NothingOrphaned
  <2>6. FiniteRecipients /\ WithinLimit
    BY FS_EmptySet DEF Init, FiniteRecipients, WithinLimit
  <2> QED
    BY <2>2, <2>3, <2>4, <2>5, <2>6 DEF IInv
<1>2. IInv /\ [Next]_vars => IInv'
  <2> SUFFICES ASSUME IInv, [Next]_vars PROVE IInv'
    OBVIOUS
  <2>1. TypeOK' /\ Busy'
    BY TypeStep DEF IInv
  <2> QED
    BY <2>1, ClockStep, SparedStep, ProvedStep, RegisteredStep DEF IInv, Registered
<1> QED
  BY <1>1, <1>2, PTL DEF Spec

(* Type correctness of the registry.                                       *)
THEOREM TypeCorrect == Spec => []TypeOK
BY Inductive, PTL DEF IInv

(* recipient:{R} and mediation:{M}:recipients agree in every state.        *)
THEOREM OwnersAlwaysMatch == Spec => []OwnersMatch
BY Inductive, PTL DEF IInv

(* ALMENA_MAX_RECIPIENT_DIDS is never exceeded.                            *)
THEOREM LimitHolds == Spec => []WithinLimit
BY Inductive, PTL DEF IInv

(* No registration outlives, or comes after, its mediation's removal, if   *)
(* handling a message takes less than half the mediation TTL.              *)
THEOREM NothingEverOrphaned == Spec => []NothingOrphaned
BY Inductive, PTL DEF IInv

(* A registered DID changes hands only through a state where it is free.   *)
THEOREM NeverTakenOver == Spec => NoTakeover
<1> DEFINE Kept == \A d \in Dids : owner[d] # NoOne => owner'[d] \in {owner[d], NoOne}
<1>1. IInv /\ [Next]_vars => [Kept]_vars
  <2> SUFFICES ASSUME IInv, [Next]_vars PROVE Kept
    OBVIOUS
  <2> USE RegistryAssumption DEF IInv, TypeOK, Busy
  <2>0. ASSUME UNCHANGED owner PROVE Kept
    BY <2>0
  <2>1. CASE Tick \/ UNCHANGED vars
    BY <2>0, <2>1 DEF Tick, store, vars
  <2>2. ASSUME NEW h \in Handlers, NEW m \in Wallets, NEW kind \in Kinds,
               Receive(h, m, kind)
        PROVE  Kept
    BY <2>0, <2>2 DEF Receive, store
  <2>3. ASSUME NEW h \in Handlers, HandlerStep(h) PROVE Kept
    <3>1. CASE Add(h)
      BY <3>1 DEF Add, AddRecipient
    <3>2. ASSUME NEW d \in Dids, Remove(h, d) PROVE Kept
      BY <3>2 DEF Remove, RemoveRecipient
    <3>3. CASE UNCHANGED owner
      BY <2>0, <3>3
    <3> QED
      BY <2>3, <3>1, <3>2, <3>3
         DEF HandlerStep, Touch, TouchMediation, Grant, GrantMediation,
             BeginUpdates, BeginDevice, NoMediation, Respond, StartAdd,
             UpdateDevice, SetDevice, store
  <2>4. ASSUME NEW h \in Handlers, Abort(h) PROVE Kept
    BY <2>0, <2>4 DEF Abort, store
  <2>5. ASSUME NEW c \in Cleaners, CleanerStep(c) \/ AbortRound(c) PROVE Kept
    <3>1. ASSUME NEW m \in Wallets, RemoveIdle(c, m) PROVE Kept
      BY <3>1 DEF RemoveIdle, RemoveMediation, store
    <3> QED
      BY <2>0, <2>5, <3>1
         DEF CleanerStep, StartRound, EndBatch, Scan, AbortRound, store
  <2> QED
    BY <2>1, <2>2, <2>3, <2>4, <2>5 DEF Next
<1> QED
  BY <1>1, Inductive, PTL DEF Spec, NoTakeover

(* A mediation leaves only after its wallet was silent for the TTL.        *)
THEOREM RemovedOnlyIfIdle == Spec => OnlyIdleRemoved
<1> DEFINE Silent == \A m \in Wallets :
                       m \in granted \ granted' => seen[m] + TTL <= now
<1>1. IInv /\ [Next]_vars => [Silent]_vars
  <2> SUFFICES ASSUME IInv, [Next]_vars PROVE Silent
    OBVIOUS
  <2> USE RegistryAssumption DEF IInv, TypeOK, Busy
  <2>0. ASSUME granted \subseteq granted' PROVE Silent
    BY <2>0
  <2>1. CASE Tick \/ UNCHANGED vars
    BY <2>0, <2>1 DEF Tick, store, vars
  <2>2. ASSUME NEW h \in Handlers,
               \/ \E m \in Wallets, kind \in Kinds : Receive(h, m, kind)
               \/ HandlerStep(h)
               \/ Abort(h)
        PROVE  Silent
    BY <2>0, <2>2
       DEF HandlerStep, Receive, Touch, TouchMediation, Grant, GrantMediation,
           BeginUpdates, BeginDevice, NoMediation, Respond, StartAdd, Add,
           AddRecipient, Remove, RemoveRecipient, UpdateDevice, SetDevice,
           Abort, store
  <2>3. ASSUME NEW c \in Cleaners, CleanerStep(c) \/ AbortRound(c) PROVE Silent
    <3>1. ASSUME NEW m \in Wallets, RemoveIdle(c, m) PROVE Silent
      <4>1. CASE ~StillIdle(m, cleaner[c].cutoff)
        BY <2>0, <3>1, <4>1 DEF RemoveIdle, store
      <4>2. CASE StillIdle(m, cleaner[c].cutoff)
        <5>1. granted' = granted \ {m}
          BY <3>1, <4>2 DEF RemoveIdle, RemoveMediation
        <5>2. m \in granted => seen[m] <= cleaner[c].cutoff
          BY <4>2 DEF StillIdle, SeenInv
        <5>3. cleaner[c].cutoff + TTL <= now /\ cleaner[c].cutoff \in Nat
          BY <3>1 DEF RemoveIdle, CleanerInv, CleanerStates
        <5> QED
          BY <5>1, <5>2, <5>3
      <4> QED
        BY <4>1, <4>2
    <3> QED
      BY <2>0, <2>3, <3>1
         DEF CleanerStep, StartRound, EndBatch, Scan, AbortRound, store
  <2> QED
    BY <2>1, <2>2, <2>3 DEF Next
<1> QED
  BY <1>1, Inductive, PTL DEF Spec, OnlyIdleRemoved

(* A DID is registered for another wallet only with a recent proof of its  *)
(* own for that wallet and this mediator.                                  *)
THEOREM AlwaysProved == Spec => RegisteredWithProof
<1> DEFINE Shown == \A d \in Dids, m \in Wallets :
                      /\ ProofRequired
                      /\ d # m
                      /\ owner[d] # m
                      /\ owner'[d] = m
                      => \E p \in Proofs :
                           /\ p.iss = d /\ p.sub = m /\ p.aud = "here"
                           /\ p.iat + ProofMaxAge + MaxHandling >= now
                           /\ p.iat <= now + ProofMaxSkew
<1>1. IInv /\ [Next]_vars => [Shown]_vars
  <2> SUFFICES ASSUME IInv, [Next]_vars PROVE Shown
    OBVIOUS
  <2> USE RegistryAssumption DEF IInv, TypeOK, Busy
  <2>0. ASSUME \A d \in Dids : owner'[d] \in {owner[d], NoOne} PROVE Shown
    BY <2>0
  <2>1. CASE Tick \/ UNCHANGED vars
    BY <2>0, <2>1 DEF Tick, store, vars
  <2>2. ASSUME NEW h \in Handlers, NEW m \in Wallets, NEW kind \in Kinds,
               Receive(h, m, kind)
        PROVE  Shown
    BY <2>0, <2>2 DEF Receive, store
  <2>3. ASSUME NEW h \in Handlers, HandlerStep(h) PROVE Shown
    <3>1. CASE Add(h)
      <4> DEFINE w == handler[h].who
                 e == handler[h].did
      <4>1. w \in Wallets /\ e \in Dids
        BY <3>1 DEF Add
      <4>2. \A d \in Dids : d # e => owner'[d] = owner[d]
        BY <3>1 DEF Add, AddRecipient
      <4>3. owner'[e] \in {owner[e], w}
        BY <3>1, <4>1 DEF Add, AddRecipient
      <4>4. ASSUME ProofRequired, e # w
            PROVE  \E p \in Proofs :
                     /\ p.iss = e /\ p.sub = w /\ p.aud = "here"
                     /\ p.iat + ProofMaxAge + MaxHandling >= now
                     /\ p.iat <= now + ProofMaxSkew
        <5>1. PICK p \in Proofs :
                /\ p.iss = e /\ p.sub = w /\ p.aud = "here"
                /\ p.iat + ProofMaxAge >= handler[h].at
                /\ p.iat <= now + ProofMaxSkew
          BY <3>1, <4>4 DEF Add, Proved
        <5>2. /\ now <= handler[h].at + MaxHandling
              /\ handler[h].at \in Nat /\ p.iat \in Nat
          BY <3>1 DEF Add, HandlerInv, HandlerStates, ProofClaims
        <5> QED
          BY <5>1, <5>2
      <4> QED
        BY <4>1, <4>2, <4>3, <4>4
    <3>2. ASSUME NEW d \in Dids, Remove(h, d) PROVE Shown
      BY <2>0, <3>2 DEF Remove, RemoveRecipient
    <3>3. CASE UNCHANGED owner
      BY <2>0, <3>3
    <3> QED
      BY <2>3, <3>1, <3>2, <3>3
         DEF HandlerStep, Touch, TouchMediation, Grant, GrantMediation,
             BeginUpdates, BeginDevice, NoMediation, Respond, StartAdd,
             UpdateDevice, SetDevice, store
  <2>4. ASSUME NEW h \in Handlers, Abort(h) PROVE Shown
    BY <2>0, <2>4 DEF Abort, store
  <2>5. ASSUME NEW c \in Cleaners, CleanerStep(c) \/ AbortRound(c) PROVE Shown
    <3>1. ASSUME NEW m \in Wallets, RemoveIdle(c, m) PROVE Shown
      BY <2>0, <3>1 DEF RemoveIdle, RemoveMediation, store
    <3> QED
      BY <2>0, <2>5, <3>1
         DEF CleanerStep, StartRound, EndBatch, Scan, AbortRound, store
  <2> QED
    BY <2>1, <2>2, <2>3, <2>4, <2>5 DEF Next
<1> QED
  BY <1>1, Inductive, PTL DEF Spec, RegisteredWithProof
=============================================================================
