------------------------------ MODULE Delivery ------------------------------
(***************************************************************************)
(* From a forward to the wallet: a message is queued, pushed to the live   *)
(* WebSocket sessions of its mediation, and, when there are none, a push   *)
(* wake-up is started (dispatch/mediation.rs, dispatch/live.rs,            *)
(* Mediator::wake, and websocket_session of routes.rs).                    *)
(*                                                                         *)
(* One mediator instance: LiveHub is in process.  A session's task is      *)
(* sequential; forwards run concurrently with it and with each other.  The *)
(* queue is what the store promises (module Mailbox), without expiry; its  *)
(* ids are per mediation, as a Redis stream's are, so that messages of two *)
(* mediations may have the same id.  Wake-ups end here where push::wake    *)
(* begins (module Push).                                                   *)
(***************************************************************************)
EXTENDS Integers, FiniteSets, Sequences

CONSTANTS
    Wallets,      \* mediations, named by their wallet's DID
    Dids,         \* the recipient DIDs registered
    Owner,        \* Owner[d]: the mediation d is registered for
    Sessions,     \* WebSocket connections
    Forwards,     \* forwards being handled at the same time
    NoOne,        \* no mediation, no recipient
    Users,        \* Users[s]: the wallets that authenticate on connection s
    Buffer,       \* BUFFER: pushes a session may fall behind by
    MaxQueue,     \* QueueLimits.max_messages
    MaxPayloads,  \* the most attachments a forward carries
    MaxIds        \* bound: messages ever queued per mediation

ASSUME DeliveryAssumption ==
    /\ NoOne \notin Wallets \union Dids
    /\ Owner \in [Dids -> Wallets]
    /\ Users \in [Sessions -> SUBSET Wallets]
    /\ Buffer \in Nat \ {0}
    /\ MaxQueue \in Nat \ {0}
    /\ MaxPayloads \in Nat \ {0}
    /\ MaxIds \in Nat

VARIABLES
    queue,    \* queue[w]: the messages waiting
    next,     \* next[w]: the latest queue id
    hub,      \* LiveHub.sessions: hub[w], the sessions subscribed
    session,  \* the connections
    forward,  \* the forwards
    woken,    \* history: those waiting that a wake-up was started for
    unanswered \* history: those waiting that a call queued and never said so

vars == <<queue, next, hub, session, forward, woken, unanswered>>

Opened ==
    [conn |-> "open",     \* or broken, or closed
     pc |-> "idle",       \* or, while it goes live: insert, status
     live |-> NoOne,      \* Session.live
     want |-> NoOne,      \* the mediation being enabled
     told |-> {},         \* history: recipients whose count it was told
     buffer |-> <<>>,     \* the channel's contents
     aware |-> {}]        \* history: counted for it, or offered to it

NoForward ==
    [pc |-> "idle",       \* or enqueue, notify, wake
     to |-> NoOne,        \* the mediation
     did |-> NoOne,       \* next, its recipient
     left |-> 0,          \* payloads
     sent |-> {},         \* queued by this forward
     dead |-> {}]         \* history: gone when last notified

Init ==
    /\ queue = [w \in Wallets |-> {}]
    /\ next = [w \in Wallets |-> 0]
    /\ hub = [w \in Wallets |-> {}]
    /\ session = [s \in Sessions |-> Opened]
    /\ forward = [f \in Forwards |-> NoForward]
    /\ woken = {}
    /\ unanswered = {}

-----------------------------------------------------------------------------
(* A forward.                                                              *)

(* A forward to d, of n payloads, which are checked; mediation_of finds    *)
(* the mediation.                                                          *)
StartForward(f, d, n) ==
    /\ forward[f].pc = "idle"
    /\ next[Owner[d]] < MaxIds
    /\ forward' = [forward EXCEPT ![f] = [NoForward EXCEPT
                     !.pc = "enqueue", !.to = Owner[d], !.did = d, !.left = n]]
    /\ UNCHANGED <<queue, next, hub, session, woken, unanswered>>

(* What f queues next.                                                     *)
Payload(f) ==
    [of |-> forward[f].to, did |-> forward[f].did, id |-> next[forward[f].to] + 1]

(* The enqueue script: one payload goes into the queue, within its limit.  *)
Put(f) ==
    LET w == forward[f].to
    IN  /\ forward[f].pc = "enqueue"
        /\ Cardinality(queue[w]) < MaxQueue
        /\ next[w] < MaxIds
        /\ next' = [next EXCEPT ![w] = @ + 1]
        /\ queue' = [queue EXCEPT ![w] = @ \union {Payload(f)}]

(* The script ran and its answer came back.                                *)
Enqueue(f) ==
    /\ Put(f)
    /\ forward' = [forward EXCEPT ![f].pc = "notify", ![f].left = @ - 1,
                                  ![f].sent = @ \union {Payload(f)}]
    /\ UNCHANGED <<hub, session, woken, unanswered>>

(* The script ran, but its answer was lost, or the request was dropped     *)
(* while it waited for it: queued, and neither offered nor woken for.      *)
EnqueueUnanswered(f) ==
    /\ Put(f)
    /\ unanswered' = unanswered \union {Payload(f)}
    /\ forward' = [forward EXCEPT ![f] = NoForward]
    /\ UNCHANGED <<hub, session, woken>>

(* The queue is full: the forward ends there, and wakes nobody for the     *)
(* payloads it has queued ...                                              *)
QueueFull(f) ==
    /\ forward[f].pc = "enqueue"
    /\ Cardinality(queue[forward[f].to]) >= MaxQueue
    /\ forward' = [forward EXCEPT ![f] = NoForward]
    /\ UNCHANGED <<queue, next, hub, session, woken, unanswered>>

(* ... nor when the store fails, or the request is dropped, before the     *)
(* script has run.                                                         *)
EnqueueFails(f) ==
    /\ forward[f].pc = "enqueue"
    /\ forward' = [forward EXCEPT ![f] = NoForward]
    /\ UNCHANGED <<queue, next, hub, session, woken, unanswered>>

(* The message f queued last.                                              *)
Latest(f) == CHOOSE m \in forward[f].sent : \A n \in forward[f].sent : n.id <= m.id

Gone == {s \in Sessions : session[s].conn = "closed"}

(* try_send of m to s, which misses it when its buffer is full.            *)
Offer(s, m) ==
    [session[s] EXCEPT !.buffer = IF Len(@) < Buffer THEN Append(@, m) ELSE @,
                       !.aware = @ \union {m}]

AfterNotify(f) ==
    [forward EXCEPT ![f].pc = IF forward[f].left > 0 THEN "enqueue" ELSE "wake",
                    ![f].dead = Gone]

(* Mutants of Notify: a session that is gone stays subscribed; the first   *)
(* session takes the message for all.                                      *)
NotifyKeepingGone(f) ==
    LET w == forward[f].to
    IN  /\ forward[f].pc = "notify"
        /\ session' = [s \in Sessions |-> IF s \in hub[w] \ Gone
                                            THEN Offer(s, Latest(f))
                                            ELSE session[s]]
        /\ forward' = AfterNotify(f)
        /\ UNCHANGED <<queue, next, hub, woken, unanswered>>

NotifyOne(f) ==
    LET w == forward[f].to
        first == IF hub[w] \ Gone = {} THEN {} ELSE {CHOOSE s \in hub[w] \ Gone : TRUE}
    IN  /\ forward[f].pc = "notify"
        /\ session' = [s \in Sessions |-> IF s \in first THEN Offer(s, Latest(f))
                                                         ELSE session[s]]
        /\ hub' = [hub EXCEPT ![w] = @ \ Gone]
        /\ forward' = AfterNotify(f)
        /\ UNCHANGED <<queue, next, woken, unanswered>>

(* LiveHub::notify: offers the message to every subscribed session; those  *)
(* whose receiver is gone are dropped from the list.                       *)
Notify(f) ==
    LET w == forward[f].to
    IN  /\ forward[f].pc = "notify"
        /\ session' = [s \in Sessions |-> IF s \in hub[w] \ Gone
                                            THEN Offer(s, Latest(f))
                                            ELSE session[s]]
        /\ hub' = [hub EXCEPT ![w] = @ \ Gone]
        /\ forward' = AfterNotify(f)
        /\ UNCHANGED <<queue, next, woken, unanswered>>

(* Every payload is queued: Mediator::wake, unless the mediation is live.  *)
Wake(f) ==
    /\ forward[f].pc = "wake"
    /\ woken' = IF hub[forward[f].to] = {}
                  THEN woken \union (forward[f].sent \intersect queue[forward[f].to])
                  ELSE woken
    /\ forward' = [forward EXCEPT ![f] = NoForward]
    /\ UNCHANGED <<queue, next, hub, session, unanswered>>

-----------------------------------------------------------------------------
(* A WebSocket session: websocket_session's loop.                          *)

Ready(s) == session[s].conn = "open" /\ session[s].pc = "idle"

(* LiveHub::disable: off the list of the mediation it was live for.        *)
Unsubscribed(s) ==
    [w \in Wallets |-> IF session[s].live = w THEN hub[w] \ {s} ELSE hub[w]]

(* The session's own half of disable; the history is about the live mode   *)
(* that ends.                                                              *)
NotLive(s) == [session[s] EXCEPT !.live = NoOne, !.told = {}, !.aware = {}]

(* The session's receiver is dropped, with what is in it.                  *)
Dropped(s) == [NotLive(s) EXCEPT !.conn = "closed", !.pc = "idle", !.buffer = <<>>]

(* live-delivery-change, live_delivery true, from w: first off for any     *)
(* other mediation (one lock) ...                                          *)
BeginLive(s, w) ==
    /\ Ready(s)
    /\ w \in Users[s]
    /\ hub' = Unsubscribed(s)
    /\ session' = [session EXCEPT ![s] = [NotLive(s) EXCEPT !.pc = "insert",
                                                            !.want = w]]
    /\ UNCHANGED <<queue, next, forward, woken, unanswered>>

(* ... then on for w (another lock) ...                                    *)
Insert(s) ==
    LET w == session[s].want
    IN  /\ session[s].conn = "open"
        /\ session[s].pc = "insert"
        /\ hub' = [hub EXCEPT ![w] = @ \union {s}]
        /\ session' = [session EXCEPT ![s].pc = "status", ![s].live = w,
                                      ![s].want = NoOne]
        /\ UNCHANGED <<queue, next, forward, woken, unanswered>>

(* ... and then the status, which counts what is queued for ds: one        *)
(* recipient_did, or all of them when it names none.                       *)
Status(s, ds) ==
    /\ session[s].conn = "open"
    /\ session[s].pc = "status"
    /\ ds = Dids \/ \E d \in Dids : ds = {d} /\ Owner[d] = session[s].live
    /\ session' = [session EXCEPT ![s].pc = "idle", ![s].told = ds,
          ![s].aware = @ \union {m \in queue[session[s].live] : m.did \in ds}]
    /\ UNCHANGED <<queue, next, hub, forward, woken, unanswered>>

(* The summary fails: no answer, but live mode stays on.                   *)
StatusFails(s) ==
    /\ session[s].conn = "open"
    /\ session[s].pc = "status"
    /\ session' = [session EXCEPT ![s].pc = "idle"]
    /\ UNCHANGED <<queue, next, hub, forward, woken, unanswered>>

(* live_delivery false, from whichever wallet.                             *)
EndLive(s) ==
    /\ Ready(s)
    /\ Users[s] # {}
    /\ hub' = Unsubscribed(s)
    /\ session' = [session EXCEPT ![s] = NotLive(s)]
    /\ UNCHANGED <<queue, next, forward, woken, unanswered>>

(* The task takes a push from its channel; live_delivery packs it for the  *)
(* mediation the session is live for now, or drops it.                     *)
Deliver(s) ==
    /\ Ready(s)
    /\ session[s].buffer # <<>>
    /\ session' = [session EXCEPT ![s].buffer = Tail(@)]
    /\ UNCHANGED <<queue, next, hub, forward, woken, unanswered>>

(* The socket closed, failed or went over the rate limit: out of the loop. *)
Break(s) ==
    /\ Ready(s)
    /\ session' = [session EXCEPT ![s].conn = "broken"]
    /\ UNCHANGED <<queue, next, hub, forward, woken, unanswered>>

(* close_session, and the receiver is dropped.                             *)
CloseSession(s) ==
    /\ session[s].conn = "broken"
    /\ hub' = Unsubscribed(s)
    /\ session' = [session EXCEPT ![s] = Dropped(s)]
    /\ UNCHANGED <<queue, next, forward, woken, unanswered>>

(* The task is dropped without reaching close_session (a panic in a        *)
(* handler): the receiver goes, the hub is not told.                       *)
Die(s) ==
    /\ session[s].conn = "open"
    /\ session[s].pc # "insert"
    /\ session' = [session EXCEPT ![s] = Dropped(s)]
    /\ UNCHANGED <<queue, next, hub, forward, woken, unanswered>>

-----------------------------------------------------------------------------
(* messages-received from w: the ids it names are removed from w's queue,  *)
(* whether they were delivered or not.                                     *)
Acknowledge(w, removed) ==
    /\ queue' = [queue EXCEPT ![w] = @ \ removed]
    /\ woken' = woken \ removed
    /\ unanswered' = unanswered \ removed
    /\ UNCHANGED <<next, hub, session, forward>>

-----------------------------------------------------------------------------
SessionStep(s) ==
    \/ \E w \in Wallets : BeginLive(s, w)
    \/ \E ds \in {Dids} \union {{d} : d \in Dids} : Status(s, ds)
    \/ Insert(s) \/ StatusFails(s) \/ EndLive(s) \/ Deliver(s)
    \/ Break(s) \/ CloseSession(s) \/ Die(s)

ForwardStep(f) ==
    \/ \E d \in Dids, n \in 1 .. MaxPayloads : StartForward(f, d, n)
    \/ Enqueue(f) \/ EnqueueUnanswered(f) \/ QueueFull(f) \/ EnqueueFails(f)
    \/ Notify(f) \/ Wake(f)

Next ==
    \/ \E f \in Forwards : ForwardStep(f)
    \/ \E s \in Sessions : SessionStep(s)
    \/ \E w \in Wallets : \E removed \in SUBSET queue[w] \ {{}} : Acknowledge(w, removed)

Spec == Init /\ [][Next]_vars

-----------------------------------------------------------------------------
(* Properties.                                                             *)

(* A message whose forward has queued it but not yet offered it.           *)
InFlight(m) ==
    \E f \in Forwards : forward[f].pc = "notify" /\ Latest(f) = m

(* Going live leaves no gap: every message waiting in the queue of a live  *)
(* session's mediation, for a recipient that the status answering          *)
(* live-delivery-change spoke for, was counted in that status, pushed to   *)
(* the session, or dropped because its buffer was full, whenever it was    *)
(* queued; except those whose forward never learnt that they were queued.  *)
NoGap ==
    \A w \in Wallets : \A s \in hub[w] : \A m \in queue[w] \ unanswered :
      m.did \in session[s].told =>
        InFlight(m) \/ m \in session[s].aware

(* A wake-up is not held back for a session that was already gone when the *)
(* message was offered: notify drops it before wake looks.                 *)
GoneSessionsDontSilence ==
    \A f \in Forwards :
      forward[f].pc = "wake" => hub[forward[f].to] \cap forward[f].dead = {}

(* "When a message is queued for a DID that is not online, the mediator    *)
(* sends a push to that DID's devices" (docs/didcomm.md, section 5): a     *)
(* message waiting for a wallet that never connects, whose forward was     *)
(* told it is queued and has ended, had a wake-up.  The code breaks this:  *)
(* a forward of several payloads that fails half way returns before wake,  *)
(* and the payloads already queued wait without one.                       *)
PushedWhenOffline ==
    \A w \in {u \in Wallets : \A s \in Sessions : u \notin Users[s]} :
      \A m \in queue[w] \ unanswered :
        m \in woken \/ \E f \in Forwards : m \in forward[f].sent
=============================================================================
