-------------------------- MODULE Delivery_proofs ---------------------------
(***************************************************************************)
(* Proofs about Delivery, for any number of wallets, connections and       *)
(* forwards, whichever wallets share a connection, any owners of the       *)
(* recipients, and any buffer, payloads and queue limit.                   *)
(***************************************************************************)
EXTENDS Delivery, TLAPS

Messages == [of : Wallets, did : Dids, id : Nat]
Mediations == Wallets \union {NoOne}

Session == [conn : {"open", "broken", "closed"}, pc : {"idle", "insert", "status"},
            live : Mediations, want : Mediations, told : SUBSET Dids,
            buffer : Seq(Messages), aware : SUBSET Messages]

Forward == [pc : {"idle", "enqueue", "notify", "wake"}, to : Mediations,
            did : Dids \union {NoOne}, left : Int,
            sent : SUBSET Messages, dead : SUBSET Sessions]

(* The types.                                                              *)
TypeInv ==
    /\ queue \in [Wallets -> SUBSET Messages]
    /\ next \in [Wallets -> Nat]
    /\ hub \in [Wallets -> SUBSET Sessions]
    /\ session \in [Sessions -> Session]
    /\ forward \in [Forwards -> Forward]
    /\ woken \subseteq Messages
    /\ unanswered \subseteq Messages

(* A forward has a mediation, and queues for that one only; the message it *)
(* is about to offer is one it queued; the sessions it found gone stay so. *)
ForwardInv ==
    \A f \in Forwards :
      /\ forward[f].pc # "idle" => forward[f].to \in Wallets /\ forward[f].did \in Dids
      /\ \A m \in forward[f].sent :
           m.of = forward[f].to /\ forward[f].to \in Wallets /\ m.id <= next[forward[f].to]
      /\ forward[f].pc = "notify" => Latest(f) \in forward[f].sent
      /\ forward[f].dead \subseteq Gone

(* The two records of live mode agree: a session that is not gone is on    *)
(* the list of the mediation it is live for, and on no other.  It is told  *)
(* only after it was listed.                                               *)
SessionInv ==
    \A s \in Sessions :
      /\ session[s].conn = "closed" => session[s].told = {}
      /\ session[s].pc # "idle" => session[s].told = {}
      /\ session[s].pc = "insert" => session[s].want \in Wallets /\ session[s].live = NoOne
      /\ session[s].pc = "status" => session[s].live \in Wallets
      /\ \A w \in Wallets : s \in hub[w] /\ session[s].conn # "closed" => session[s].live = w

(* A queue holds its own mediation's messages.                             *)
QueueInv == \A w \in Wallets : \A m \in queue[w] : m.of = w

(* The inductive invariant.                                                *)
IInv ==
    /\ TypeInv /\ ForwardInv /\ SessionInv /\ QueueInv
    /\ NoGap /\ GoneSessionsDontSilence

-----------------------------------------------------------------------------
(* What a forward offers depends on what it queued only.                   *)
LEMMA LatestKept ==
    ASSUME NEW f \in Forwards, forward'[f].sent = forward[f].sent
    PROVE  Latest(f)' = Latest(f)
BY DEF Latest

(* What a forward queues next is a message of its mediation, and newer     *)
(* than those it has queued.                                               *)
LEMMA PayloadIsNew ==
    ASSUME TypeInv, ForwardInv, NEW f \in Forwards, forward[f].pc = "enqueue"
    PROVE  /\ forward[f].to \in Wallets
           /\ Payload(f) \in Messages /\ Payload(f).of = forward[f].to
           /\ next[forward[f].to] \in Nat
           /\ Payload(f).id = next[forward[f].to] + 1
           /\ \A n \in forward[f].sent :
                n \in Messages /\ n.of = forward[f].to /\ n.id <= next[forward[f].to]
<1>1. forward[f].to \in Wallets /\ forward[f].did \in Dids /\ forward[f] \in Forward
  BY DEF TypeInv, ForwardInv
<1>2. next[forward[f].to] \in Nat /\ forward[f].sent \subseteq Messages
  BY <1>1 DEF TypeInv, Forward
<1>3. Payload(f) \in Messages
  BY <1>1, <1>2 DEF Payload, Messages
<1>4. QED
  BY <1>1, <1>2, <1>3 DEF Payload, ForwardInv

(* The message queued last is the one with the largest id.                 *)
LEMMA LatestIsNew ==
    ASSUME TypeInv, ForwardInv, NEW f \in Forwards, forward[f].pc = "enqueue",
           forward'[f].sent = forward[f].sent \union {Payload(f)}
    PROVE  Latest(f)' = Payload(f)
<1> DEFINE m == Payload(f)
           sent == forward[f].sent
           last == next[forward[f].to]
<1>1. last \in Nat /\ m.id = last + 1 /\ \A n \in sent : n.id \in Nat /\ n.id <= last
  BY PayloadIsNew DEF Messages
<1>2. Latest(f)' = CHOOSE x \in sent \union {m} : \A n \in sent \union {m} : n.id <= x.id
  BY DEF Latest
<1> HIDE DEF m, sent, last
<1>3. \A n \in sent \union {m} : n.id <= m.id
  BY <1>1
<1>4. \A x \in sent \union {m} : (\A n \in sent \union {m} : n.id <= x.id) => x = m
  <2> SUFFICES ASSUME NEW x \in sent, m.id <= x.id PROVE FALSE
    OBVIOUS
  <2> QED
    BY <1>1
<1>5. Latest(f)' = m
  BY <1>2, <1>3, <1>4
<1>6. QED
  BY <1>5 DEF m

-----------------------------------------------------------------------------
(* A step of one session, which leaves the queues and the forwards alone:  *)
(* what has to hold of what it becomes.                                    *)
Moves(s, new) ==
    /\ session' = [session EXCEPT ![s] = new]
    /\ UNCHANGED <<queue, next, forward, woken, unanswered>>
    /\ hub' \in [Wallets -> SUBSET Sessions]
    /\ session[s].conn = "closed" => new.conn = "closed"
    /\ new.conn = "closed" => new.told = {}
    /\ new.pc # "idle" => new.told = {}
    /\ new.pc = "insert" => new.want \in Wallets /\ new.live = NoOne
    /\ new.pc = "status" => new.live \in Wallets
    /\ \A w \in Wallets :
         /\ \A r \in Sessions : r # s => (r \in hub'[w] <=> r \in hub[w])
         /\ s \in hub'[w] =>
              /\ s \in hub[w] \/ session[s].conn # "closed"
              /\ new.conn # "closed" => new.live = w
              /\ \/ {m \in queue[w] : m.did \in new.told} \subseteq new.aware
                 \/ /\ s \in hub[w] /\ session[s].told = new.told
                    /\ session[s].aware \subseteq new.aware

(* Such a step keeps the invariant.                                        *)
LEMMA MoveStep ==
    ASSUME IInv, NEW s \in Sessions, NEW new \in Session, Moves(s, new)
    PROVE  IInv'
<1>1. /\ session' \in [Sessions -> Session]
      /\ session'[s] = new
      /\ \A r \in Sessions : r # s => session'[r] = session[r]
  BY DEF IInv, TypeInv, Moves
<1>2. TypeInv'
  BY <1>1 DEF IInv, TypeInv, Moves
<1>3. Gone \subseteq Gone'
  BY <1>1 DEF Gone, Moves
<1>4. \A f \in Forwards : Latest(f)' = Latest(f) /\ forward'[f] = forward[f]
  BY LatestKept DEF Moves
<1>5. ForwardInv'
  BY <1>3, <1>4 DEF IInv, ForwardInv, Moves
<1>6. SessionInv'
  BY <1>1 DEF IInv, SessionInv, Moves
<1>7. QueueInv'
  BY DEF IInv, QueueInv, Moves
<1>8. NoGap'
  <2> SUFFICES ASSUME NEW w \in Wallets, NEW r \in Sessions, r \in hub'[w],
                      NEW m \in queue[w] \ unanswered, m.did \in session'[r].told,
                      ~InFlight(m)
               PROVE  m \in session'[r].aware
    BY <1>2, <1>4 DEF NoGap, InFlight, Moves, TypeInv
  <2>1. \A q \in hub[w] : m.did \in session[q].told => m \in session[q].aware
    BY DEF IInv, NoGap
  <2>2. QED
    BY <1>1, <2>1 DEF Moves
<1>9. GoneSessionsDontSilence'
  <2> SUFFICES ASSUME NEW f \in Forwards, forward[f].pc = "wake",
                      NEW r \in Sessions, r \in hub'[forward[f].to], r \in forward[f].dead
               PROVE  FALSE
    BY <1>2, <1>4 DEF GoneSessionsDontSilence, TypeInv, Forward
  <2>1. forward[f].to \in Wallets /\ r \in Gone
    BY DEF IInv, ForwardInv
  <2>2. r \in hub[forward[f].to]
    BY <2>1 DEF Moves, Gone
  <2>3. QED
    BY <2>2 DEF IInv, GoneSessionsDontSilence
<1>10. QED
  BY <1>2, <1>5, <1>6, <1>7, <1>8, <1>9 DEF IInv

(* What disabling live mode leaves of a session, and of the lists.         *)
LEMMA NotLiveFacts ==
    ASSUME IInv, NEW s \in Sessions
    PROVE  /\ NotLive(s) \in Session
           /\ NotLive(s).conn = session[s].conn /\ NotLive(s).pc = session[s].pc
           /\ NotLive(s).live = NoOne /\ NotLive(s).told = {}
           /\ Dropped(s) \in Session
           /\ Dropped(s).conn = "closed" /\ Dropped(s).pc = "idle" /\ Dropped(s).told = {}
           /\ Unsubscribed(s) \in [Wallets -> SUBSET Sessions]
           /\ \A w \in Wallets :
                /\ \A r \in Sessions : r # s => (r \in Unsubscribed(s)[w] <=> r \in hub[w])
                /\ s \in Unsubscribed(s)[w] => s \in hub[w] /\ session[s].conn = "closed"
<1>1. session[s] \in Session
  BY DEF IInv, TypeInv
<1>2. /\ NotLive(s) \in Session
      /\ NotLive(s).conn = session[s].conn /\ NotLive(s).pc = session[s].pc
      /\ NotLive(s).live = NoOne /\ NotLive(s).told = {}
  BY <1>1 DEF NotLive, Session, Mediations
<1>3. /\ Dropped(s) \in Session
      /\ Dropped(s).conn = "closed" /\ Dropped(s).pc = "idle" /\ Dropped(s).told = {}
  <2> DEFINE n == NotLive(s)
  <2>1. n \in Session
    BY <1>2
  <2>2. <<>> \in Seq(Messages)
    OBVIOUS
  <2> HIDE DEF n
  <2>3. Dropped(s) = [n EXCEPT !.conn = "closed", !.pc = "idle", !.buffer = <<>>]
    BY DEF Dropped, n
  <2>4. Dropped(s) \in Session
    BY <2>1, <2>2, <2>3 DEF Session
  <2>5. /\ Dropped(s).conn = "closed" /\ Dropped(s).pc = "idle"
        /\ Dropped(s).told = n.told
    BY <2>1, <2>3 DEF Session
  <2>6. QED
    BY <1>2, <2>4, <2>5 DEF n
<1>4. Unsubscribed(s) \in [Wallets -> SUBSET Sessions]
  BY DEF Unsubscribed, IInv, TypeInv
<1>5. ASSUME NEW w \in Wallets
      PROVE  /\ \A r \in Sessions : r # s => (r \in Unsubscribed(s)[w] <=> r \in hub[w])
             /\ s \in Unsubscribed(s)[w] => s \in hub[w] /\ session[s].conn = "closed"
  BY DEF Unsubscribed, IInv, SessionInv
<1>6. QED
  BY <1>2, <1>3, <1>4, <1>5

-----------------------------------------------------------------------------
(* The steps of a session.                                                 *)
LEMMA SessionSteps ==
    ASSUME IInv, NEW s \in Sessions, SessionStep(s) PROVE IInv'
<1> USE DEF IInv
<1>0. /\ session[s] \in Session /\ hub \in [Wallets -> SUBSET Sessions]
  BY DEF TypeInv
<1>1. ASSUME NEW w \in Wallets, BeginLive(s, w) PROVE IInv'
  <2> DEFINE off == NotLive(s)
             new == [off EXCEPT !.pc = "insert", !.want = w]
  <2>1. off \in Session /\ off.live = NoOne /\ off.told = {} /\ off.conn = session[s].conn
    BY NotLiveFacts
  <2>2. /\ session' = [session EXCEPT ![s] = new] /\ hub' = Unsubscribed(s)
        /\ UNCHANGED <<queue, next, forward, woken, unanswered>>
        /\ session[s].conn = "open"
    BY <1>1 DEF BeginLive, Ready
  <2> HIDE DEF off
  <2>3. /\ new \in Session /\ new.pc = "insert" /\ new.want = w /\ new.live = NoOne
        /\ new.told = {} /\ new.conn = "open"
    BY <2>1, <2>2 DEF Session, Mediations
  <2> HIDE DEF new
  <2>4. Moves(s, new)
    BY <1>0, <2>2, <2>3, NotLiveFacts DEF Moves
  <2>5. QED
    BY <2>3, <2>4, MoveStep
<1>2. CASE Insert(s)
  <2> DEFINE w == session[s].want
             new == [session[s] EXCEPT !.pc = "status", !.live = w, !.want = NoOne]
  <2>1. w \in Wallets /\ session[s].live = NoOne /\ session[s].told = {}
    BY <1>2 DEF Insert, SessionInv
  <2>2. /\ session' = [session EXCEPT ![s] = new]
        /\ hub' = [hub EXCEPT ![w] = @ \union {s}]
        /\ UNCHANGED <<queue, next, forward, woken, unanswered>>
        /\ session[s].conn = "open"
    BY <1>2 DEF Insert, TypeInv
  <2>3. \A u \in Wallets : s \notin hub[u]
    BY <2>1, <2>2, DeliveryAssumption DEF SessionInv
  <2> HIDE DEF w
  <2>4. /\ new \in Session /\ new.pc = "status" /\ new.live = w /\ new.told = {}
        /\ new.conn = "open"
    BY <1>0, <2>1, <2>2 DEF Session, Mediations
  <2> HIDE DEF new
  <2>5. Moves(s, new)
    BY <1>0, <2>1, <2>2, <2>3, <2>4 DEF Moves
  <2>6. QED
    BY <2>4, <2>5, MoveStep
<1>3. ASSUME NEW ds \in {Dids} \union {{d} : d \in Dids}, Status(s, ds) PROVE IInv'
  <2> DEFINE w == session[s].live
             counted == {m \in queue[w] : m.did \in ds}
             new == [session[s] EXCEPT !.pc = "idle", !.told = ds,
                                       !.aware = @ \union counted]
  <2>1. w \in Wallets /\ queue[w] \subseteq Messages /\ ds \subseteq Dids
    BY <1>3 DEF Status, SessionInv, TypeInv
  <2>2. /\ session' = [session EXCEPT ![s] = new] /\ hub' = hub
        /\ UNCHANGED <<queue, next, forward, woken, unanswered>>
        /\ session[s].conn = "open"
    BY <1>3 DEF Status, TypeInv
  <2>3. \A u \in Wallets : s \in hub[u] => u = w
    BY <2>2 DEF SessionInv
  <2>4. /\ new \in Session /\ new.pc = "idle" /\ new.live = w /\ new.told = ds
        /\ new.conn = "open" /\ {m \in queue[w] : m.did \in ds} \subseteq new.aware
    BY <1>0, <2>1, <2>2 DEF Session
  <2> HIDE DEF new, w
  <2>5. Moves(s, new)
    BY <1>0, <2>1, <2>2, <2>3, <2>4 DEF Moves
  <2>6. QED
    BY <2>4, <2>5, MoveStep
<1>4. CASE StatusFails(s) \/ Break(s)
  <2>1. PICK c \in {"open", "broken"} :
          session' = [session EXCEPT ![s] = [session[s] EXCEPT !.pc = "idle", !.conn = c]]
    <3>1. CASE StatusFails(s)
      <4>1. [session[s] EXCEPT !.pc = "idle", !.conn = "open"]
              = [session[s] EXCEPT !.pc = "idle"]
        BY <1>0, <3>1 DEF StatusFails, Session
      <4>2. QED
        BY <3>1, <4>1 DEF StatusFails
    <3>2. CASE Break(s)
      <4>1. [session[s] EXCEPT !.pc = "idle", !.conn = "broken"]
              = [session[s] EXCEPT !.conn = "broken"]
        BY <1>0, <3>2 DEF Break, Ready, Session
      <4>2. QED
        BY <3>2, <4>1 DEF Break
    <3>3. QED
      BY <1>4, <3>1, <3>2
  <2> DEFINE new == [session[s] EXCEPT !.pc = "idle", !.conn = c]
  <2>2. /\ session[s].conn = "open" /\ hub' = hub
        /\ UNCHANGED <<queue, next, forward, woken, unanswered>>
    BY <1>4 DEF StatusFails, Break, Ready
  <2>3. /\ new \in Session /\ new.pc = "idle" /\ new.conn = c
        /\ new.live = session[s].live /\ new.told = session[s].told
        /\ new.aware = session[s].aware
    BY <1>0 DEF Session
  <2>4. session' = [session EXCEPT ![s] = new]
    BY <2>1
  <2> HIDE DEF new
  <2>5. Moves(s, new)
    BY <1>0, <2>2, <2>3, <2>4 DEF Moves, SessionInv
  <2>6. QED
    BY <2>3, <2>5, MoveStep
<1>5. CASE EndLive(s)
  <2> DEFINE new == NotLive(s)
  <2>1. /\ session' = [session EXCEPT ![s] = new] /\ hub' = Unsubscribed(s)
        /\ UNCHANGED <<queue, next, forward, woken, unanswered>>
        /\ session[s].conn = "open" /\ session[s].pc = "idle"
    BY <1>5 DEF EndLive, Ready
  <2>2. /\ new \in Session /\ new.live = NoOne /\ new.told = {} /\ new.conn = "open"
        /\ new.pc = "idle"
    BY <2>1, NotLiveFacts
  <2> HIDE DEF new
  <2>3. Moves(s, new)
    BY <1>0, <2>1, <2>2, NotLiveFacts DEF Moves
  <2>4. QED
    BY <2>2, <2>3, MoveStep
<1>6. CASE Deliver(s)
  <2> DEFINE new == [session[s] EXCEPT !.buffer = Tail(@)]
  <2>1. /\ session' = [session EXCEPT ![s] = new] /\ hub' = hub
        /\ UNCHANGED <<queue, next, forward, woken, unanswered>>
        /\ session[s].conn = "open" /\ session[s].pc = "idle"
        /\ session[s].buffer # <<>>
    BY <1>6 DEF Deliver, Ready
  <2>2. Tail(session[s].buffer) \in Seq(Messages)
    BY <1>0, <2>1 DEF Session
  <2>3. /\ new \in Session /\ new.pc = "idle" /\ new.conn = "open"
        /\ new.live = session[s].live /\ new.told = session[s].told
        /\ new.aware = session[s].aware
    BY <1>0, <2>1, <2>2 DEF Session
  <2> HIDE DEF new
  <2>4. Moves(s, new)
    BY <1>0, <2>1, <2>3 DEF Moves, SessionInv
  <2>5. QED
    BY <2>3, <2>4, MoveStep
<1>7. CASE CloseSession(s) \/ Die(s)
  <2> DEFINE new == Dropped(s)
  <2>1. /\ session' = [session EXCEPT ![s] = new] /\ hub' \in {hub, Unsubscribed(s)}
        /\ UNCHANGED <<queue, next, forward, woken, unanswered>>
    BY <1>7 DEF CloseSession, Die
  <2>2. new \in Session /\ new.told = {} /\ new.conn = "closed" /\ new.pc = "idle"
    BY NotLiveFacts
  <2> HIDE DEF new
  <2>3. Moves(s, new)
    <3>1. CASE hub' = hub
      BY <1>0, <2>1, <2>2, <3>1 DEF Moves
    <3>2. CASE hub' = Unsubscribed(s)
      BY <1>0, <2>1, <2>2, <3>2, NotLiveFacts DEF Moves
    <3>3. QED
      BY <2>1, <3>1, <3>2
  <2>4. QED
    BY <2>2, <2>3, MoveStep
<1>8. QED
  BY <1>1, <1>2, <1>3, <1>4, <1>5, <1>6, <1>7 DEF SessionStep

-----------------------------------------------------------------------------
(* An acknowledgement: the queue does not grow.                            *)
LEMMA AcknowledgeStep ==
    ASSUME IInv, NEW w \in Wallets, NEW removed \in SUBSET queue[w],
           Acknowledge(w, removed)
    PROVE  IInv'
<1>1. /\ UNCHANGED <<next, hub, session, forward>>
      /\ queue' = [queue EXCEPT ![w] = @ \ removed]
      /\ queue' \in [Wallets -> SUBSET Messages]
      /\ woken' = woken \ removed /\ unanswered' = unanswered \ removed
      /\ \A u \in Wallets : queue'[u] \subseteq queue[u]
  BY DEF Acknowledge, IInv, TypeInv
<1>2. TypeInv'
  BY <1>1 DEF IInv, TypeInv
<1>3. \A f \in Forwards : Latest(f)' = Latest(f)
  BY <1>1, LatestKept
<1>4. Gone' = Gone
  BY <1>1 DEF Gone
<1>5. ForwardInv' /\ SessionInv' /\ QueueInv' /\ GoneSessionsDontSilence'
  BY <1>1, <1>3, <1>4 DEF IInv, ForwardInv, SessionInv, QueueInv, GoneSessionsDontSilence
<1>6. NoGap'
  <2>1. ASSUME NEW u \in Wallets, NEW m \in queue'[u], m \notin unanswered'
        PROVE  m \in queue[u] \ unanswered
    <3>1. CASE u = w
      BY <1>1, <2>1, <3>1 DEF IInv, TypeInv
    <3>2. CASE u # w
      <4>1. m \notin removed
        BY <1>1, <2>1, <3>2 DEF IInv, QueueInv
      <4>2. QED
        BY <1>1, <2>1, <4>1
    <3>3. QED
      BY <3>1, <3>2
  <2>2. QED
    BY <1>1, <1>3, <2>1 DEF IInv, NoGap, InFlight
<1>7. QED
  BY <1>2, <1>5, <1>6 DEF IInv

-----------------------------------------------------------------------------
(* A forward that begins or ends: nothing it queued was still to be        *)
(* offered.                                                                *)
LEMMA ForwardEnds ==
    ASSUME IInv, NEW f \in Forwards, NEW new \in Forward,
           forward' = [forward EXCEPT ![f] = new],
           forward[f].pc # "notify", new.pc \in {"idle", "enqueue"},
           new.pc = "enqueue" => new.to \in Wallets /\ new.did \in Dids,
           new.sent = {}, new.dead = {},
           woken' \subseteq Messages,
           UNCHANGED <<queue, next, hub, session, unanswered>>
    PROVE  IInv'
<1>1. /\ forward' \in [Forwards -> Forward] /\ forward'[f] = new
      /\ \A g \in Forwards : g # f => forward'[g] = forward[g]
  BY DEF IInv, TypeInv
<1>2. TypeInv'
  BY <1>1 DEF IInv, TypeInv
<1>3. \A g \in Forwards : g # f => Latest(g)' = Latest(g)
  BY <1>1, LatestKept
<1>4. Gone' = Gone
  BY DEF Gone
<1>5. ForwardInv'
  BY <1>1, <1>3, <1>4 DEF IInv, ForwardInv
<1>6. SessionInv' /\ QueueInv' /\ GoneSessionsDontSilence'
  BY <1>1 DEF IInv, SessionInv, QueueInv, GoneSessionsDontSilence
<1>7. NoGap'
  BY <1>1, <1>3 DEF IInv, NoGap, InFlight
<1>8. QED
  BY <1>2, <1>5, <1>6, <1>7 DEF IInv

(* What was just queued is in flight.                                      *)
LEMMA EnqueueStep ==
    ASSUME IInv, NEW f \in Forwards, Enqueue(f) PROVE IInv'
<1> DEFINE w == forward[f].to
           m == Payload(f)
           new == [forward[f] EXCEPT !.pc = "notify", !.left = @ - 1,
                                     !.sent = @ \union {m}]
<1>1. /\ w \in Wallets /\ m \in Messages /\ m.of = w /\ m.id = next[w] + 1
      /\ next[w] \in Nat
  BY PayloadIsNew DEF IInv, Enqueue, Put
<1>2. /\ forward[f] \in Forward /\ forward[f].pc = "enqueue"
      /\ next' = [next EXCEPT ![w] = @ + 1]
      /\ queue' = [queue EXCEPT ![w] = @ \union {m}]
      /\ UNCHANGED <<hub, session, woken, unanswered>>
      /\ \A g \in Forwards : g # f => forward'[g] = forward[g]
      /\ DOMAIN forward' = Forwards
      /\ forward' = [forward EXCEPT ![f] = new]
      /\ forward'[f] = new
  BY DEF Enqueue, Put, IInv, TypeInv
<1> HIDE DEF m
<1>4. /\ new \in Forward /\ new.pc = "notify" /\ new.to = w
      /\ new.did = forward[f].did
      /\ new.sent = forward[f].sent \union {m} /\ new.dead = forward[f].dead
  <2>1. forward[f].left - 1 \in Int /\ forward[f].sent \union {m} \in SUBSET Messages
    BY <1>1, <1>2 DEF Forward
  <2>2. new = [forward[f] EXCEPT !.pc = "notify", !.left = forward[f].left - 1,
                                 !.sent = forward[f].sent \union {m}]
    BY <1>2 DEF Forward
  <2>3. QED
    BY <1>2, <2>1, <2>2 DEF Forward
<1>3. Latest(f)' = m
  BY <1>2, <1>4, LatestIsNew DEF m, IInv
<1> HIDE DEF new
<1>5. TypeInv'
  BY <1>1, <1>2, <1>4 DEF IInv, TypeInv
<1> HIDE DEF w
<1>6. \A g \in Forwards : g # f => Latest(g)' = Latest(g)
  BY <1>2, LatestKept
<1>7. Gone' = Gone
  BY <1>2 DEF Gone
<1>8. \A u \in Wallets : next'[u] \in Nat /\ next[u] \in Nat /\ next[u] <= next'[u]
  BY <1>1, <1>2 DEF IInv, TypeInv
<1>9. ForwardInv'
  <2> SUFFICES ASSUME NEW g \in Forwards
               PROVE  /\ forward'[g].pc # "idle" =>
                           forward'[g].to \in Wallets /\ forward'[g].did \in Dids
                      /\ \A n \in forward'[g].sent :
                           /\ n.of = forward'[g].to /\ forward'[g].to \in Wallets
                           /\ n.id <= next'[forward'[g].to]
                      /\ forward'[g].pc = "notify" => Latest(g)' \in forward'[g].sent
                      /\ forward'[g].dead \subseteq Gone'
    BY DEF ForwardInv
  <2>1. CASE g = f
    <3>1. forward[f].to = w
      BY DEF w
    <3>2. next'[w] = next[w] + 1
      BY <1>1, <1>2 DEF IInv, TypeInv
    <3>3. \A n \in forward[f].sent : n.of = w /\ n.id <= next[w] /\ n.id \in Nat
      BY <3>1 DEF IInv, ForwardInv, TypeInv, Forward, Messages
    <3>4. \A n \in new.sent : n.of = w /\ n.id <= next'[w]
      BY <1>1, <1>4, <3>2, <3>3
    <3>5. QED
      BY <1>1, <1>2, <1>3, <1>4, <1>7, <2>1, <3>4 DEF IInv, ForwardInv
  <2>2. CASE g # f
    <3>1. forward[g].sent \subseteq Messages
      BY DEF IInv, TypeInv, Forward
    <3>2. QED
      BY <1>2, <1>6, <1>7, <1>8, <2>2, <3>1 DEF IInv, ForwardInv, Messages
  <2>3. QED
    BY <2>1, <2>2
<1>10. SessionInv'
  BY <1>2 DEF IInv, SessionInv
<1>11. QueueInv'
  BY <1>1, <1>2, <1>3 DEF IInv, QueueInv, TypeInv
<1>12. NoGap'
  <2> SUFFICES ASSUME NEW u \in Wallets, NEW s \in hub[u],
                      NEW n \in queue'[u] \ unanswered, n.did \in session[s].told
               PROVE  InFlight(n)' \/ n \in session[s].aware
    BY <1>2 DEF NoGap
  <2>1. CASE n = m
    BY <1>2, <1>3, <1>4, <2>1 DEF InFlight
  <2>2. CASE n # m
    <3>1. n \in queue[u]
      BY <1>2, <2>2 DEF IInv, TypeInv
    <3>2. InFlight(n) => InFlight(n)'
      BY <1>2, <1>6 DEF InFlight
    <3>3. QED
      BY <3>1, <3>2 DEF IInv, NoGap
  <2>3. QED
    BY <2>1, <2>2
<1>13. GoneSessionsDontSilence'
  BY <1>1, <1>2, <1>4 DEF IInv, GoneSessionsDontSilence
<1>14. QED
  BY <1>5, <1>9, <1>10, <1>11, <1>12, <1>13 DEF IInv

(* What notify leaves of a session it offers m to.                         *)
LEMMA OfferFacts ==
    ASSUME NEW s \in Sessions, session[s] \in Session, NEW m \in Messages
    PROVE  /\ Offer(s, m) \in Session
           /\ Offer(s, m).conn = session[s].conn /\ Offer(s, m).pc = session[s].pc
           /\ Offer(s, m).live = session[s].live /\ Offer(s, m).want = session[s].want
           /\ Offer(s, m).told = session[s].told
           /\ session[s].aware \subseteq Offer(s, m).aware
           /\ m \in Offer(s, m).aware
<1> DEFINE buffer == IF Len(session[s].buffer) < Buffer
                       THEN Append(session[s].buffer, m) ELSE session[s].buffer
<1>1. buffer \in Seq(Messages) /\ session[s].aware \union {m} \in SUBSET Messages
  BY DEF Session
<1>2. Offer(s, m) = [session[s] EXCEPT !.buffer = buffer,
                                       !.aware = session[s].aware \union {m}]
  BY DEF Offer
<1> HIDE DEF buffer
<1>3. Offer(s, m) \in Session
  BY <1>1, <1>2 DEF Session
<1>4. QED
  BY <1>1, <1>2, <1>3 DEF Session

(* What was in flight has been offered to every session on the list, and   *)
(* those that are gone are off the list.                                   *)
LEMMA NotifyStep ==
    ASSUME IInv, NEW f \in Forwards, Notify(f) PROVE IInv'
<1> DEFINE w == forward[f].to
           m == Latest(f)
           pc == IF forward[f].left > 0 THEN "enqueue" ELSE "wake"
           new == [forward[f] EXCEPT !.pc = pc, !.dead = Gone]
<1>1. /\ forward[f].pc = "notify" /\ forward[f] \in Forward
      /\ w \in Wallets /\ m \in Messages /\ m \in forward[f].sent /\ m.of = w
  BY DEF Notify, IInv, ForwardInv, TypeInv, Forward
<1>2. /\ session' = [s \in Sessions |-> IF s \in hub[w] \ Gone THEN Offer(s, m)
                                                               ELSE session[s]]
      /\ hub' = [hub EXCEPT ![w] = @ \ Gone]
      /\ forward' = [forward EXCEPT ![f] = new]
      /\ UNCHANGED <<queue, next, woken, unanswered>>
  BY <1>1 DEF Notify, AfterNotify, IInv, TypeInv
<1>3. Gone \subseteq Sessions
  BY DEF Gone
<1> HIDE DEF w, m
<1>4. /\ new \in Forward /\ new.pc \in {"enqueue", "wake"} /\ new.to = w
      /\ new.did = forward[f].did
      /\ new.sent = forward[f].sent /\ new.dead = Gone
  BY <1>1, <1>3 DEF Forward, w
<1> HIDE DEF new, pc
<1>5. /\ forward' \in [Forwards -> Forward] /\ forward'[f] = new
      /\ \A g \in Forwards : g # f => forward'[g] = forward[g]
  BY <1>2, <1>4 DEF IInv, TypeInv
<1>6. \A s \in Sessions : session[s] \in Session
  BY DEF IInv, TypeInv
<1>7. \A s \in Sessions :
        /\ session'[s] \in Session
        /\ session'[s].conn = session[s].conn /\ session'[s].pc = session[s].pc
        /\ session'[s].live = session[s].live /\ session'[s].want = session[s].want
        /\ session'[s].told = session[s].told
        /\ session[s].aware \subseteq session'[s].aware
        /\ s \in hub[w] \ Gone => m \in session'[s].aware
  BY <1>1, <1>2, <1>6, OfferFacts
<1>8. Gone' = Gone
  BY <1>7 DEF Gone
<1>9. /\ hub' \in [Wallets -> SUBSET Sessions]
      /\ \A u \in Wallets : hub'[u] \subseteq hub[u]
      /\ hub'[w] = hub[w] \ Gone
  BY <1>1, <1>2 DEF IInv, TypeInv
<1>10. session' \in [Sessions -> Session]
  BY <1>2, <1>7
<1>11. TypeInv'
  BY <1>2, <1>5, <1>9, <1>10 DEF IInv, TypeInv
<1>12. \A g \in Forwards : Latest(g)' = Latest(g)
  BY <1>4, <1>5, LatestKept
<1>13. ForwardInv'
  BY <1>1, <1>2, <1>4, <1>5, <1>8, <1>12 DEF IInv, ForwardInv
<1>14. SessionInv'
  BY <1>7, <1>9 DEF IInv, SessionInv
<1>15. QueueInv'
  BY <1>2, <1>9 DEF IInv, QueueInv
<1>16. NoGap'
  <2> SUFFICES ASSUME NEW u \in Wallets, NEW s \in Sessions, s \in hub'[u],
                      NEW n \in queue[u] \ unanswered,
                      n.did \in session'[s].told, ~InFlight(n)'
               PROVE  n \in session'[s].aware
    BY <1>2, <1>9 DEF NoGap
  <2>1. s \in hub[u] /\ n.did \in session[s].told
    BY <1>7, <1>9
  <2>2. CASE InFlight(n)
    <3>1. n = m
      <4>1. PICK g \in Forwards : forward[g].pc = "notify" /\ Latest(g) = n
        BY <2>2 DEF InFlight
      <4>2. g = f
        BY <1>5, <1>12, <4>1 DEF InFlight
      <4>3. QED
        BY <4>1, <4>2 DEF m
    <3>2. u = w
      BY <1>1, <3>1 DEF IInv, QueueInv
    <3>3. QED
      BY <1>7, <1>9, <3>1, <3>2
  <2>3. CASE ~InFlight(n)
    <3>1. n \in session[s].aware
      BY <2>1, <2>3 DEF IInv, NoGap
    <3>2. QED
      BY <1>7, <3>1
  <2>4. QED
    BY <2>2, <2>3
<1>17. GoneSessionsDontSilence'
  <2> SUFFICES ASSUME NEW g \in Forwards, forward'[g].pc = "wake"
               PROVE  hub'[forward'[g].to] \cap forward'[g].dead = {}
    BY DEF GoneSessionsDontSilence
  <2>1. CASE g = f
    BY <1>4, <1>5, <1>9, <2>1
  <2>2. CASE g # f
    <3>1. forward'[g] = forward[g] /\ forward[g].to \in Wallets
      BY <1>5, <2>2 DEF IInv, ForwardInv
    <3>2. QED
      BY <1>9, <3>1 DEF IInv, GoneSessionsDontSilence
  <2>3. QED
    BY <2>1, <2>2
<1>18. QED
  BY <1>11, <1>13, <1>14, <1>15, <1>16, <1>17 DEF IInv

(* What is queued without an answer is nobody's to offer.                  *)
LEMMA EnqueueUnansweredStep ==
    ASSUME IInv, NEW f \in Forwards, EnqueueUnanswered(f) PROVE IInv'
<1> DEFINE w == forward[f].to
           m == Payload(f)
<1>1. /\ w \in Wallets /\ m \in Messages /\ m.of = w /\ next[w] \in Nat
  BY PayloadIsNew DEF IInv, EnqueueUnanswered, Put
<1>2. /\ forward[f].pc = "enqueue"
      /\ next' = [next EXCEPT ![w] = @ + 1]
      /\ queue' = [queue EXCEPT ![w] = @ \union {m}]
      /\ unanswered' = unanswered \union {m}
      /\ forward' = [forward EXCEPT ![f] = NoForward]
      /\ UNCHANGED <<hub, session, woken>>
  BY DEF EnqueueUnanswered, Put
<1> HIDE DEF w, m
<1>3. /\ NoForward \in Forward /\ NoForward.pc = "idle"
      /\ NoForward.sent = {} /\ NoForward.dead = {}
  BY DEF NoForward, Forward, Mediations
<1>4. /\ forward' \in [Forwards -> Forward] /\ forward'[f] = NoForward
      /\ \A g \in Forwards : g # f => forward'[g] = forward[g]
  BY <1>2, <1>3 DEF IInv, TypeInv
<1>5. TypeInv'
  BY <1>1, <1>2, <1>4 DEF IInv, TypeInv
<1>6. \A g \in Forwards : g # f => Latest(g)' = Latest(g)
  BY <1>4, LatestKept
<1>7. Gone' = Gone
  BY <1>2 DEF Gone
<1>8. \A u \in Wallets : next'[u] \in Nat /\ next[u] \in Nat /\ next[u] <= next'[u]
  BY <1>1, <1>2 DEF IInv, TypeInv
<1>9. ForwardInv'
  <2> SUFFICES ASSUME NEW g \in Forwards
               PROVE  /\ forward'[g].pc # "idle" =>
                           forward'[g].to \in Wallets /\ forward'[g].did \in Dids
                      /\ \A n \in forward'[g].sent :
                           /\ n.of = forward'[g].to /\ forward'[g].to \in Wallets
                           /\ n.id <= next'[forward'[g].to]
                      /\ forward'[g].pc = "notify" => Latest(g)' \in forward'[g].sent
                      /\ forward'[g].dead \subseteq Gone'
    BY DEF ForwardInv
  <2>1. CASE g = f
    BY <1>3, <1>4, <2>1
  <2>2. CASE g # f
    <3>1. forward[g].sent \subseteq Messages
      BY DEF IInv, TypeInv, Forward
    <3>2. QED
      BY <1>4, <1>6, <1>7, <1>8, <2>2, <3>1 DEF IInv, ForwardInv, Messages
  <2>3. QED
    BY <2>1, <2>2
<1>10. SessionInv'
  BY <1>2 DEF IInv, SessionInv
<1>11. QueueInv'
  BY <1>1, <1>2 DEF IInv, QueueInv, TypeInv
<1>12. NoGap'
  <2> SUFFICES ASSUME NEW u \in Wallets, NEW s \in hub[u],
                      NEW n \in queue'[u] \ unanswered', n.did \in session[s].told
               PROVE  InFlight(n)' \/ n \in session[s].aware
    BY <1>2 DEF NoGap
  <2>1. n \in queue[u] \ unanswered
    BY <1>2 DEF IInv, TypeInv
  <2>2. InFlight(n) => InFlight(n)'
    BY <1>2, <1>4, <1>6 DEF InFlight
  <2>3. QED
    BY <2>1, <2>2 DEF IInv, NoGap
<1>13. GoneSessionsDontSilence'
  BY <1>2, <1>3, <1>4 DEF IInv, GoneSessionsDontSilence
<1>14. QED
  BY <1>5, <1>9, <1>10, <1>11, <1>12, <1>13 DEF IInv

(* The steps of a forward.                                                 *)
LEMMA ForwardSteps ==
    ASSUME IInv, NEW f \in Forwards, ForwardStep(f) PROVE IInv'
<1>0. /\ NoForward \in Forward /\ NoForward.pc = "idle" /\ NoForward.to = NoOne
      /\ NoForward.sent = {} /\ NoForward.dead = {}
  BY DEF NoForward, Forward, Mediations
<1>1. ASSUME NEW d \in Dids, NEW n \in 1 .. MaxPayloads, StartForward(f, d, n)
      PROVE  IInv'
  <2> DEFINE new == [NoForward EXCEPT !.pc = "enqueue", !.to = Owner[d], !.did = d,
                                      !.left = n]
  <2>1. /\ new \in Forward /\ new.pc = "enqueue"
        /\ new.to \in Wallets /\ new.did \in Dids
        /\ new.sent = {} /\ new.dead = {}
    <3>1. n \in Int /\ Owner[d] \in Wallets
      BY DeliveryAssumption
    <3>2. QED
      BY <1>0, <3>1 DEF Forward, Mediations
  <2>2. /\ forward' = [forward EXCEPT ![f] = new] /\ forward[f].pc = "idle"
        /\ UNCHANGED <<queue, next, hub, session, woken, unanswered>>
    BY <1>1 DEF StartForward
  <2> HIDE DEF new
  <2>3. woken' \subseteq Messages
    BY <2>2 DEF IInv, TypeInv
  <2>4. QED
    BY <2>1, <2>2, <2>3, ForwardEnds
<1>2. CASE QueueFull(f) \/ EnqueueFails(f) \/ Wake(f)
  <2>1. /\ forward' = [forward EXCEPT ![f] = NoForward]
        /\ forward[f].pc \in {"enqueue", "wake"}
        /\ UNCHANGED <<queue, next, hub, session, unanswered>>
        /\ woken' \subseteq woken \union forward[f].sent
    BY <1>2 DEF QueueFull, EnqueueFails, Wake
  <2>2. woken' \subseteq Messages
    BY <2>1 DEF IInv, TypeInv, Forward
  <2>3. QED
    BY <1>0, <2>1, <2>2, ForwardEnds
<1>3. QED
  BY <1>1, <1>2, EnqueueStep, EnqueueUnansweredStep, NotifyStep DEF ForwardStep

-----------------------------------------------------------------------------
(* Nobody is live and nothing is queued at the start.                      *)
LEMMA InitIInv == Init => IInv
<1> SUFFICES ASSUME Init PROVE IInv
  OBVIOUS
<1>1. Opened \in Session /\ NoForward \in Forward
  <2>1. <<>> \in Seq(Messages)
    OBVIOUS
  <2>2. QED
    BY <2>1 DEF Opened, NoForward, Session, Forward, Mediations
<1>2. TypeInv
  BY <1>1 DEF Init, TypeInv
<1>3. ForwardInv /\ SessionInv /\ QueueInv
  BY DEF Init, ForwardInv, SessionInv, QueueInv, Opened, NoForward
<1>4. NoGap /\ GoneSessionsDontSilence
  BY DEF Init, NoGap, GoneSessionsDontSilence, NoForward
<1>5. QED
  BY <1>2, <1>3, <1>4 DEF IInv

(* The inductive invariant holds in every state.                           *)
THEOREM Invariance == Spec => []IInv
<1>1. Init => IInv
  BY InitIInv
<1>2. IInv /\ [Next]_vars => IInv'
  <2> SUFFICES ASSUME IInv, [Next]_vars PROVE IInv'
    OBVIOUS
  <2>1. CASE UNCHANGED vars
    <3>1. \A f \in Forwards : Latest(f)' = Latest(f)
      BY <2>1, LatestKept DEF vars
    <3>2. Gone' = Gone
      BY <2>1 DEF vars, Gone
    <3>3. QED
      BY <2>1, <3>1, <3>2 DEF vars, IInv, TypeInv, ForwardInv, SessionInv, QueueInv,
         NoGap, InFlight, GoneSessionsDontSilence
  <2>2. QED
    BY <2>1, ForwardSteps, SessionSteps, AcknowledgeStep DEF Next
<1>3. QED
  BY <1>1, <1>2, PTL DEF Spec

(* The order of live-delivery-change (listed, then counted) and of forward *)
(* (queued, then offered): no message falls between the two.               *)
THEOREM LiveComplete == Spec => []NoGap
<1>1. IInv => NoGap
  BY DEF IInv
<1>2. QED
  BY <1>1, Invariance, PTL

(* LiveHub::notify drops the senders of sessions that are gone, and        *)
(* nothing brings one back: wake never mistakes one for a live wallet.     *)
THEOREM GoneSessionsWake == Spec => []GoneSessionsDontSilence
<1>1. IInv => GoneSessionsDontSilence
  BY DEF IInv
<1>2. QED
  BY <1>1, Invariance, PTL
=============================================================================
