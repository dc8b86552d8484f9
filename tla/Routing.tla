------------------------------ MODULE Routing ------------------------------
(***************************************************************************)
(* A message on its way through several mediators: what a mediator accepts *)
(* of an envelope (didcomm/unpack.rs), where it sends the reply            *)
(* (Mediator::handle, route_back, send_reply), and how a forward comes to  *)
(* the recipient's queue (didcomm/pack.rs, dispatch/relay.rs,              *)
(* mediation::forward).                                                    *)
(*                                                                         *)
(* A packed message is its core, encrypted to the recipient, in the        *)
(* forwards it is wrapped in, outermost first.  Keys, and with them        *)
(* authcrypt and signatures, are sound: skid and signer are who they say.  *)
(* Requests read the registrations once, by one store call, and share      *)
(* nothing else, so the handling of one is a single step.  A request that  *)
(* is refused is retried by module Relay, to the same end.  Documents,     *)
(* registrations and federation are fixed, as they are found.              *)
(***************************************************************************)
EXTENDS Integers, Sequences, SequencesExt

CONSTANTS
    Mediators,    \* mediators, by their DID; each runs this program
    Wallets,      \* wallets, by their DID
    NoOne,        \* no DID
    Documents,    \* Documents[w]: the services w's document may have
    Requests,     \* messages a wallet may send to a mediator
    MaxSent       \* bound: messages sent

Dids == Mediators \union Wallets

(* A DIDCommMessaging service: none, one at a mediator's URL, or one with  *)
(* a mediator's DID as its uri; and its routing keys.                      *)
Services == [kind: {"none", "http", "did"}, of: Mediators \union {NoOne},
             hops: Seq(Mediators)]

Cores ==
    [layers: Seq({"anon", "auth", "signed"}),  \* its envelopes, outermost first
     to: Dids,                                 \* whose keys they are encrypted to
     from: Wallets \union Mediators \union {NoOne},  \* the plaintext's from
     skid: Dids \union {NoOne},                \* the authcrypt sender
     signer: Dids \union {NoOne},
     names: BOOLEAN,                           \* the plaintext's to is absent or has `to`
     type: {"ping", "quiet", "report", "wallet", "expired", "other", "answer"},
     ret: {"all", "none", "absent"},           \* return_route
     asked: Dids \union {NoOne}]               \* history: the authcrypt sender answered

ASSUME RoutingAssumption ==
    /\ Mediators \intersect Wallets = {} /\ NoOne \notin Dids
    /\ \A w \in Wallets : \A s \in Documents[w] :
         s \in Services /\ (s.kind = "none" \/ s.of # NoOne)
    /\ \A c \in Requests : c \in Cores /\ c.to \in Mediators
    /\ MaxSent \in Nat

VARIABLES
    doc,         \* doc[w]: the service in w's document
    registered,  \* registered[m]: the wallets that are recipients at m
    federated,   \* the mediators with federation on
    wire,        \* requests under way
    queue,       \* queue[m][w]: what m has queued for w
    answers,     \* replies that went back on their connection
    posted,      \* history: cores sent to wallets through the network
    sent         \* messages sent so far

config == <<doc, registered, federated>>
vars == <<doc, registered, federated, wire, queue, answers, posted, sent>>

Packed(wraps, core) == [wraps |-> wraps, core |-> core]

(* A request: trail is the history of the relays of its payload, and again *)
(* says that a mediator relayed it twice to the same next.                 *)
Request(at, p, ws) == [at |-> at, msg |-> p, ws |-> ws, trail |-> {}, again |-> FALSE]

Init ==
    /\ doc \in {d \in [Wallets -> UNION {Documents[w] : w \in Wallets}] :
                  \A w \in Wallets : d[w] \in Documents[w]}
    /\ registered \in [Mediators -> SUBSET Wallets]
    /\ federated \in SUBSET Mediators
    /\ wire = {}
    /\ queue = [m \in Mediators |-> [w \in Wallets |-> {}]]
    /\ answers = {}
    /\ posted = {}
    /\ sent = 0

-----------------------------------------------------------------------------
(* route: the way to a DID.                                                *)

(* first_didcomm_endpoint; a mediator's own document has its URL.          *)
Service(d) == IF d \in Mediators THEN [kind |-> "http", of |-> d, hops |-> <<>>]
                                 ELSE doc[d]

(* A mediator's DID as uri goes first in the routing keys, and the URL is  *)
(* that mediator's.                                                        *)
RoutingKeys(d) ==
    IF Service(d).kind = "did" THEN <<Service(d).of>> \o Service(d).hops
                               ELSE Service(d).hops
Uri(d) == Service(d).of
FirstHop(d) == IF RoutingKeys(d) = <<>> THEN NoOne ELSE Head(RoutingKeys(d))

(* Mutant of Wraps: next is the hop itself.                                *)
WrapsToItself(d) ==
    [i \in 1 .. Len(RoutingKeys(d)) |->
       [to |-> RoutingKeys(d)[i], next |-> RoutingKeys(d)[i]]]

(* A forward for each routing key, whose next is the hop after it.         *)
Wraps(d) ==
    LET keys == RoutingKeys(d)
    IN  [i \in 1 .. Len(keys) |->
           [to |-> keys[i], next |-> IF i < Len(keys) THEN keys[i + 1] ELSE d]]

Route(p, d) == [p EXCEPT !.wraps = Wraps(d) \o @]

-----------------------------------------------------------------------------
(* unpack of a core.                                                       *)

(* The layerings accepted, layer by layer.                                 *)
Layered(layers) ==
    \A i \in 1 .. Len(layers) :
      CASE layers[i] = "anon"   -> i = 1
        [] layers[i] = "auth"   -> i = 1 \/ (i = 2 /\ layers[1] = "anon")
        [] layers[i] = "signed" -> \A j \in 1 .. i - 1 : layers[j] # "signed"

Has(core, layer) == \E i \in 1 .. Len(core.layers) : core.layers[i] = layer
Encrypted(core) == Has(core, "anon") \/ Has(core, "auth")
Authenticated(core) == Has(core, "auth")

(* Mutant of Consistent: the authcrypt sender is not compared.             *)
ConsistentSignerOnly(core) ==
    /\ Has(core, "signed") => core.from = core.signer
    /\ core.names

(* check_consistency: from is the authcrypt sender and the signer, and to  *)
(* has the recipient.                                                      *)
Consistent(core) ==
    /\ Authenticated(core) => core.from = core.skid
    /\ Has(core, "signed") => core.from = core.signer
    /\ core.names

(* The mediator m unpacks the core, and finds it encrypted.                *)
Accepted(m, core) ==
    core.to = m /\ Layered(core.layers) /\ Encrypted(core) /\ Consistent(core)

-----------------------------------------------------------------------------
(* Senders.                                                                *)

(* A message for the wallet w, as pack_encrypted makes it.                 *)
Letter(w) == [layers |-> <<"anon">>, to |-> w, from |-> NoOne, skid |-> NoOne,
              signer |-> NoOne, names |-> TRUE, type |-> "other",
              ret |-> "absent", asked |-> NoOne]

(* Someone sends it along the route of w's document, wrapped as route      *)
(* does.  The mediator would also queue, for w, what no sender so wrapped: *)
(* forward asks of an attachment only that Jwe::parse takes it.            *)
Send(w) ==
    /\ sent < MaxSent
    /\ Service(w).kind # "none"
    /\ sent' = sent + 1
    /\ wire' = wire \union {Request(Uri(w), Route(Packed(<<>>, Letter(w)), w), FALSE)}
    /\ posted' = posted \union {Letter(w)}
    /\ UNCHANGED <<config, queue, answers>>

(* A wallet sends a message to a mediator, over HTTP or a WebSocket.       *)
Ask(core, ws) ==
    /\ sent < MaxSent
    /\ sent' = sent + 1
    /\ wire' = wire \union {Request(core.to, Packed(<<>>, core), ws)}
    /\ UNCHANGED <<config, queue, answers, posted>>

-----------------------------------------------------------------------------
(* A mediator handles a forward.                                           *)

Opens(r) == r.msg.wraps # <<>> /\ Head(r.msg.wraps).to = r.at
NextParty(r) == Head(r.msg.wraps).next
Payload(r) == [r.msg EXCEPT !.wraps = Tail(@)]

(* Mutant of QueueForward: the forward is queued as it came.               *)
QueueWrapped(r) ==
    /\ Opens(r)
    /\ NextParty(r) \in registered[r.at]
    /\ queue' = [queue EXCEPT ![r.at][NextParty(r)] = @ \union {r.msg}]
    /\ wire' = wire \ {r}
    /\ UNCHANGED <<config, answers, posted, sent>>

(* forward: next is a recipient here.                                      *)
QueueForward(r) ==
    /\ Opens(r)
    /\ NextParty(r) \in registered[r.at]
    /\ queue' = [queue EXCEPT ![r.at][NextParty(r)] = @ \union {Payload(r)}]
    /\ wire' = wire \ {r}
    /\ UNCHANGED <<config, answers, posted, sent>>

(* relay: federation is on, next has a service, and its route neither      *)
(* begins here nor is sent here.                                           *)
Relayable(m, next) ==
    /\ m \in federated
    /\ Service(next).kind # "none"
    /\ FirstHop(next) # m
    /\ Uri(next) # m

(* forward, relay: next is not a recipient here, and the payload goes on   *)
(* as a sender would send it.                                              *)
Relay(r) ==
    LET next == NextParty(r)
    IN  /\ Opens(r)
        /\ next \notin registered[r.at]
        /\ Relayable(r.at, next)
        /\ wire' = (wire \ {r}) \union
             {[Request(Uri(next), Route(Payload(r), next), FALSE) EXCEPT
                 !.trail = r.trail \union {<<r.at, next>>},
                 !.again = r.again \/ <<r.at, next>> \in r.trail]}
        /\ UNCHANGED <<config, queue, answers, posted, sent>>

(* UnknownRecipient: there is nowhere to relay it to.                      *)
Refuse(r) ==
    /\ Opens(r)
    /\ NextParty(r) \notin registered[r.at]
    /\ ~Relayable(r.at, NextParty(r))
    /\ wire' = wire \ {r}
    /\ UNCHANGED <<config, queue, answers, posted, sent>>

(* unpack fails: none of the keys is the mediator's, or the message is not *)
(* acceptable.                                                             *)
Reject(r) ==
    /\ ~Opens(r)
    /\ r.msg.wraps # <<>> \/ ~Accepted(r.at, r.msg.core)
    /\ wire' = wire \ {r}
    /\ UNCHANGED <<config, queue, answers, posted, sent>>

-----------------------------------------------------------------------------
(* A mediator handles a message to itself.                                 *)

Handles(r) == r.msg.wraps = <<>> /\ Accepted(r.at, r.msg.core)

(* Whether handle has a reply: pings that ask for none and problem reports *)
(* have none; what is expired, not supported or not authenticated has a    *)
(* problem report.                                                         *)
Replies(core) == core.type \notin {"quiet", "report"}

Reply(m, core) ==
    [layers |-> <<"auth">>, to |-> core.from, from |-> m, skid |-> m,
     signer |-> NoOne, names |-> TRUE, type |-> "answer", ret |-> "absent",
     asked |-> core.skid]

(* route_back: the reply goes back on the connection.                      *)
GoesBack(r) ==
    \/ r.msg.core.ret = "all"
    \/ r.msg.core.ret = "absent" /\ r.ws

(* A reply on the connection, encrypted to the DID in from.                *)
Answer(r) ==
    LET core == r.msg.core
    IN  /\ Handles(r) /\ Replies(core)
        /\ core.from # NoOne /\ GoesBack(r)
        /\ answers' = answers \union {Reply(r.at, core)}
        /\ wire' = wire \ {r}
        /\ UNCHANGED <<config, queue, posted, sent>>

(* send_reply is only for a sender that authcrypt has proved.              *)
SendsReply(r) ==
    /\ Handles(r) /\ Replies(r.msg.core)
    /\ r.msg.core.from # NoOne
    /\ ~GoesBack(r)
    /\ Authenticated(r.msg.core)

(* Into the sender's queue, when it is mediated here.                      *)
QueueReply(r) ==
    LET w == r.msg.core.from
    IN  /\ SendsReply(r)
        /\ w \in registered[r.at]
        /\ queue' = [queue EXCEPT ![r.at][w] =
                       @ \union {Packed(<<>>, Reply(r.at, r.msg.core))}]
        /\ wire' = wire \ {r}
        /\ UNCHANGED <<config, answers, posted, sent>>

Postable(m, w) == m \in federated /\ Service(w).kind # "none" /\ Uri(w) # m

(* Along the route of its document, unless that leads here.                *)
PostReply(r) ==
    LET w == r.msg.core.from
        reply == Reply(r.at, r.msg.core)
    IN  /\ SendsReply(r)
        /\ w \notin registered[r.at]
        /\ Postable(r.at, w)
        /\ wire' = (wire \ {r}) \union {Request(Uri(w), Route(Packed(<<>>, reply), w), FALSE)}
        /\ posted' = posted \union {reply}
        /\ UNCHANGED <<config, queue, answers, sent>>

(* Nothing to reply, nobody to reply to, or no way to.                     *)
NoReply(r) ==
    LET core == r.msg.core
    IN  /\ Handles(r)
        /\ \/ ~Replies(core)
           \/ core.from = NoOne
           \/ ~GoesBack(r) /\ ~Authenticated(core)
           \/ SendsReply(r) /\ core.from \notin registered[r.at]
                            /\ ~Postable(r.at, core.from)
        /\ wire' = wire \ {r}
        /\ UNCHANGED <<config, queue, answers, posted, sent>>

-----------------------------------------------------------------------------
Handle(r) ==
    \/ QueueForward(r) \/ Relay(r) \/ Refuse(r) \/ Reject(r)
    \/ Answer(r) \/ QueueReply(r) \/ PostReply(r) \/ NoReply(r)

Next ==
    \/ \E w \in Wallets : Send(w)
    \/ \E core \in Requests, ws \in BOOLEAN : Ask(core, ws)
    \/ \E r \in wire : Handle(r)

Spec == Init /\ [][Next]_vars

-----------------------------------------------------------------------------
(* Properties.                                                             *)

EndOfRoute(w) == Last(RoutingKeys(w))

(* "A route that leads back to this mediator ... is 404, not a loop"       *)
(* (docs/didcomm.md, section 7): no mediator relays a payload twice to the *)
(* same next.  The code breaks this: relay compares the beginning of the   *)
(* route with its own endpoints, and is not the beginning of it when it is *)
(* a later one of its mediators.                                           *)
NoLoop == \A r \in wire : ~r.again

(* The document of w describes a route: it is sent to its first mediator,  *)
(* each of them passes messages on, and the last has w as a recipient.     *)
Reachable(w) ==
    LET keys == RoutingKeys(w)
    IN  /\ Service(w).kind # "none" /\ keys # <<>>
        /\ IsInjective(keys)
        /\ Uri(w) = keys[1]
        /\ \A i \in 1 .. Len(keys) - 1 : keys[i] \in federated
        /\ w \in registered[EndOfRoute(w)]

(* Routing and its undoing agree: a message or a reply sent to a reachable *)
(* wallet is on its way or in its queue, whatever mediators it passes.     *)
NothingLost ==
    \A core \in posted : Reachable(core.to) =>
      \/ \E r \in wire : r.msg.core = core
      \/ Packed(<<>>, core) \in queue[EndOfRoute(core.to)][core.to]

(* What is queued for a wallet is encrypted to it, and no wrapping is left *)
(* around it.                                                              *)
OnlyItsMail ==
    \A m \in Mediators, w \in Wallets : \A p \in queue[m][w] :
      p.wraps = <<>> /\ p.core.to = w

(* "Only to a sender the authcrypt proved: an unauthenticated `from` could *)
(* name anyone, and we would be sending them our replies" (route_back):    *)
(* whoever is sent a reply, by a queue or by the network, asked for it.    *)
OnlyAskersGetReplies ==
    /\ \A core \in posted : core.type = "answer" => core.asked = core.to
    /\ \A m \in Mediators, w \in Wallets : \A p \in queue[m][w] :
         p.core.type = "answer" => p.core.asked = w
=============================================================================
