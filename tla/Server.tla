------------------------------- MODULE Server -------------------------------
(***************************************************************************)
(* The HTTP and WebSocket front of the mediator: the rate limit, the way   *)
(* of one message through a handler, sessions, and the metrics (routes.rs, *)
(* metrics.rs, and hit of both stores).                                    *)
(*                                                                         *)
(* A handler reads the clock and then asks the store, so hits may reach it *)
(* in another order than their times; what the mediator makes of a message *)
(* is one of its outcomes, any of them.                                    *)
(***************************************************************************)
EXTENDS Integers, Sequences, FiniteSets

CONSTANTS
    Clients, NoIp,   \* addresses; and none
    Junk,            \* an entry of the proxy's header that is no address
    Headers,         \* values the proxy's header may have (sequences)
    Limit,           \* rate_limit
    Window,          \* RATE_WINDOW_SECS
    Delay,           \* bound: from reading the clock to the store
    MemoryKeys,      \* hits the in-process store keeps before it cleans up
    Conns,           \* bound: connections at once
    MaxTime, MaxAsked  \* bounds: the clock, and requests

ASSUME RateAssumption ==
    Limit \in Nat /\ Window \in Nat \ {0} /\ Delay < Window /\ MaxTime \in Nat

VARIABLES
    kind, proxied,   \* which store; whether client_ip_header is set
    clock,
    hits,            \* the store's counters
    conns,           \* connections: where each is, its address and clock
    metrics,         \* METRICS
    asked, done,     \* history: requests asked for, and no message after all
    lost, dead,      \* history: handlers dropped on the way; sessions that died
    passed,          \* history: let through by address and window
    tried,           \* history: hits by address and window
    late, failed     \* history: hits after their window ended; store failures

counts == <<hits, tried, late>>
vanished == <<lost, dead>>
vars ==
    <<kind, proxied, clock, conns, metrics, asked, done, passed, failed, counts, vanished>>

Windows == 0 .. MaxTime \div Window
WindowOf(now) == now \div Window

Free == [at |-> "free", via |-> "http", ip |-> NoIp, now |-> 0]

Pass(conn) == [conn EXCEPT !.at = "passed", !.now = 0]

(* Counters by the way a message came and by what became of it.            *)
Vias == {"http", "websocket"}
Outcomes == {"accepted", "reply", "rejected"}
NoMetrics ==
    [messages |-> [v \in Vias |-> [o \in Outcomes |-> 0]], rate_limited |-> 0,
     forwards_refused |-> 0, live_sessions |-> 0]

(***************************************************************************)
(* The stores: hits maps a key to [window, count, until]                   *)
(***************************************************************************)
NoHits == [k \in {} |-> [window |-> 0, count |-> 0, until |-> 0]]
Put(map, k, v) == [x \in DOMAIN map \union {k} |-> IF x = k THEN v ELSE map[x]]
Only(map, keys) == [x \in DOMAIN map \cap keys |-> map[x]]

(* Redis: a counter per address and window, which expires a window after   *)
(* its last hit.                                                           *)
RedisHit(map, ip, now) ==
    LET key == <<ip, WindowOf(now)>>
        live == Only(map, {k \in DOMAIN map : map[k].until > clock})
        count == IF key \in DOMAIN live THEN live[key].count + 1 ELSE 1
    IN Put(live, key, [window |-> WindowOf(now), count |-> count, until |-> clock + Window])

(* Mutant: the entry of an earlier window is counted on.                   *)
MemoryHitNoReset(map, ip, now) ==
    LET key == <<ip, 0>>
        count == IF key \in DOMAIN map THEN map[key].count + 1 ELSE 1
    IN Put(map, key, [window |-> WindowOf(now), count |-> count, until |-> 0])

(* In process: one counter per address, for the window of its last hit;    *)
(* all of other windows are dropped when there are too many.               *)
MemoryHit(map, ip, now) ==
    LET key == <<ip, 0>>
        kept == IF Cardinality(DOMAIN map) > MemoryKeys
                THEN Only(map, {k \in DOMAIN map : map[k].window = WindowOf(now)})
                ELSE map
        count == IF key \in DOMAIN kept /\ kept[key].window = WindowOf(now)
                 THEN kept[key].count + 1 ELSE 1
    IN Put(kept, key, [window |-> WindowOf(now), count |-> count, until |-> 0])

StoreHit(ip, now) == IF kind = "redis" THEN RedisHit(hits, ip, now) ELSE MemoryHit(hits, ip, now)
CountOf(map, ip, now) == map[<<ip, IF kind = "redis" THEN WindowOf(now) ELSE 0>>].count

(* Mutant: one more than the limit.                                        *)
OverByTwo(count) == count > Limit + 1

Over(count) == count > Limit

(***************************************************************************)
(* Handlers                                                                *)
(***************************************************************************)
(* The last address in the proxy's header, or the peer's.                  *)
ClientIp(header, peer) ==
    LET addresses == SelectSeq(header, LAMBDA v : v # Junk)
    IN IF ~proxied THEN peer
       ELSE IF addresses = <<>> THEN NoIp ELSE addresses[Len(addresses)]

Init ==
    /\ kind \in {"redis", "memory"} /\ proxied \in BOOLEAN
    /\ clock = 0
    /\ hits = NoHits
    /\ conns = [c \in Conns |-> Free]
    /\ metrics = NoMetrics
    /\ asked = 0 /\ done = 0 /\ lost = 0 /\ dead = 0
    /\ passed = [x \in Clients \X Windows |-> 0]
    /\ tried = [x \in Clients \X Windows |-> 0]
    /\ late = 0 /\ failed = 0

(* A request comes, or a frame on an open session; it reads the clock.     *)
Ask(c, conn) ==
    /\ asked < MaxAsked
    /\ asked' = asked + 1
    /\ conns' = [conns EXCEPT ![c] = [conn EXCEPT !.at = "asking", !.now = clock]]
    /\ UNCHANGED <<kind, proxied, clock, metrics, done, passed, failed, counts, vanished>>

Request(c) ==
    /\ conns[c].at = "free"
    /\ \E via \in {"http", "upgrade"}, header \in Headers, peer \in Clients :
         /\ proxied \/ header = <<>>
         /\ Ask(c, [Free EXCEPT !.via = via, !.ip = ClientIp(header, peer)])

(* A text frame; pings and frames that are not UTF-8 change nothing.       *)
Frame(c) == conns[c].at = "open" /\ Ask(c, [conns[c] EXCEPT !.via = "websocket"])

(* Mutant: the session is left without close_session.                      *)
CloseNoGauge(m, via) == m

(* A session that ends is taken off the gauge.                             *)
CloseSession(m, via) ==
    IF via = "websocket" THEN [m EXCEPT !.live_sessions = @ - 1] ELSE m

(* over_limit: without an address or a limit nothing is counted; if the    *)
(* store fails the message goes through.                                   *)
Unlimited(c) ==
    /\ conns[c].at = "asking" /\ (conns[c].ip = NoIp \/ Limit = 0)
    /\ conns' = [conns EXCEPT ![c] = Pass(@)]
    /\ UNCHANGED <<kind, proxied, clock, metrics, asked, done, passed, failed, counts, vanished>>

(* Asking the store: a counter is needed, and there is one.                *)
Asking(c) == conns[c].at = "asking" /\ conns[c].ip # NoIp /\ Limit > 0

(* What a hit does in the store.                                           *)
Counting(c) ==
    LET ip == conns[c].ip
        now == conns[c].now
    IN /\ hits' = StoreHit(ip, now)
       /\ tried' = [tried EXCEPT ![<<ip, WindowOf(now)>>] = @ + 1]
       /\ late' = late + IF WindowOf(clock) > WindowOf(now) THEN 1 ELSE 0

(* Without an answer, Redis may have counted the hit or not.               *)
Unanswered(c) == UNCHANGED counts \/ (kind = "redis" /\ Counting(c))

StoreFails(c) ==
    /\ Asking(c) /\ Unanswered(c)
    /\ conns' = [conns EXCEPT ![c] = Pass(@)]
    /\ failed' = failed + 1
    /\ passed' = [passed EXCEPT ![<<conns[c].ip, WindowOf(conns[c].now)>>] = @ + 1]
    /\ UNCHANGED <<kind, proxied, clock, metrics, asked, done, vanished>>

Hit(c) ==
    LET ip == conns[c].ip
        now == conns[c].now
        over == Over(CountOf(StoreHit(ip, now), ip, now))
    IN /\ Asking(c) /\ Counting(c)
       /\ passed' = [passed EXCEPT ![<<ip, WindowOf(now)>>] = @ + IF over THEN 0 ELSE 1]
       /\ conns' = [conns EXCEPT ![c] = IF over THEN Free ELSE Pass(@)]
       /\ metrics' = IF over
                     THEN CloseSession([metrics EXCEPT !.rate_limited = @ + 1], conns[c].via)
                     ELSE metrics
       /\ UNCHANGED <<kind, proxied, clock, asked, done, failed, vanished>>

(* The body is of another media type, or not UTF-8.                        *)
NotAMessage(c) ==
    /\ conns[c].at = "passed" /\ conns[c].via = "http"
    /\ conns' = [conns EXCEPT ![c] = Free]
    /\ done' = done + 1
    /\ UNCHANGED <<kind, proxied, clock, metrics, asked, passed, failed, counts, vanished>>

(* Mediator::receive, and the answer.  A reply to a socket that is gone    *)
(* ends its session.                                                       *)
Results ==
    {"accepted", "reply", "unpack", "bad_forward", "unknown_recipient", "queue_full", "store"}
OutcomeOf(result) == IF result \in {"accepted", "reply"} THEN result ELSE "rejected"

Receive(c, result, gone) ==
    LET via == conns[c].via
        counted == [metrics EXCEPT
          !.messages[via][OutcomeOf(result)] = @ + 1,
          !.forwards_refused =
              @ + IF result \in {"bad_forward", "unknown_recipient", "queue_full"} THEN 1 ELSE 0]
    IN /\ conns[c].at = "passed" /\ via # "upgrade"
       /\ gone => via = "websocket" /\ result = "reply"
       /\ metrics' = IF gone THEN CloseSession(counted, via) ELSE counted
       /\ conns' = [conns EXCEPT ![c] = IF via = "http" \/ gone THEN Free
                                        ELSE [@ EXCEPT !.at = "open"]]
       /\ UNCHANGED <<kind, proxied, clock, asked, done, passed, failed, counts, vanished>>

(* The socket is there: the session begins.  If it never comes, nothing.   *)
OpenSession(c) ==
    /\ conns[c].at = "passed" /\ conns[c].via = "upgrade"
    /\ done' = done + 1
    /\ \/ /\ conns' = [conns EXCEPT ![c].at = "open", ![c].via = "websocket"]
          /\ metrics' = [metrics EXCEPT !.live_sessions = @ + 1]
       \/ /\ conns' = [conns EXCEPT ![c] = Free]
          /\ UNCHANGED metrics
    /\ UNCHANGED <<kind, proxied, clock, asked, passed, failed, counts, vanished>>

(* A close frame, an error, or a push that cannot be sent.                 *)
EndSession(c) ==
    /\ conns[c].at = "open"
    /\ conns' = [conns EXCEPT ![c] = Free]
    /\ metrics' = CloseSession(metrics, "websocket")
    /\ UNCHANGED <<kind, proxied, clock, asked, done, passed, failed, counts, vanished>>

(* The client disconnects, and the handler is dropped where it awaits: the *)
(* store, which in process it never does, or handle.  So ends a session's  *)
(* task that dies: nobody calls close_session.                             *)
Vanish(c) ==
    /\ \/ Asking(c) /\ kind = "redis" /\ Unanswered(c)
       \/ conns[c].at \in {"passed", "open"} /\ UNCHANGED counts
    /\ conns' = [conns EXCEPT ![c] = Free]
    /\ lost' = lost + IF conns[c].at = "open" THEN 0 ELSE 1
    /\ dead' = dead + IF conns[c].via = "websocket" THEN 1 ELSE 0
    /\ UNCHANGED <<kind, proxied, clock, metrics, asked, done, passed, failed>>

Tick ==
    /\ clock < MaxTime
    /\ \A c \in Conns : conns[c].at = "asking" => clock < conns[c].now + Delay
    /\ clock' = clock + 1
    /\ UNCHANGED <<kind, proxied, conns, metrics, asked, done, passed, failed, counts, vanished>>

Next ==
    \/ \E c \in Conns :
         \/ Request(c) \/ Frame(c) \/ Unlimited(c) \/ StoreFails(c) \/ Hit(c) \/ NotAMessage(c)
         \/ \E result \in Results, gone \in BOOLEAN : Receive(c, result, gone)
         \/ OpenSession(c) \/ EndSession(c) \/ Vanish(c)
    \/ Tick

Spec == Init /\ [][Next]_vars

(***************************************************************************)
(* Properties                                                              *)
(***************************************************************************)
(* HTTP requests, upgrades and frames of one address share one budget per  *)
(* window, kept to the message but for those let through while the store   *)
(* failed.  Only a hit that reaches the store after its window has ended   *)
(* grants another budget: Redis may have dropped that window's counter by  *)
(* then, and in process it takes the place of the newer window's.          *)
WithinBudget ==
    \A x \in Clients \X Windows : passed[x] <= Limit * (1 + late) + failed

(* Nobody is refused who has not sent more than the limit in that window:  *)
(* not for another's messages, nor for those of an earlier window.         *)
OnlyOverusersRefused ==
    [][\A x \in Clients \X Windows :
         metrics'.rate_limited # metrics.rate_limited /\ tried'[x] > tried[x]
           => tried'[x] > Limit]_vars

(* What the metrics tell and what they do not: a request is counted once,  *)
(* as limited or as a message, unless it never was a message, is on its    *)
(* way, or its handler was dropped.  The gauge is the number of sessions,  *)
(* and of those whose task died, which stay on it.                         *)
MetricsTruthful ==
    LET http == metrics.messages["http"]
        websocket == metrics.messages["websocket"]
        messages == http["accepted"] + http["reply"] + http["rejected"]
                      + websocket["accepted"] + websocket["reply"] + websocket["rejected"]
        inFlight == Cardinality({c \in Conns : conns[c].at \in {"asking", "passed"}})
        sessions ==
            Cardinality({c \in Conns : conns[c].at # "free" /\ conns[c].via = "websocket"})
    IN /\ asked = messages + metrics.rate_limited + done + lost + inFlight
       /\ metrics.live_sessions = sessions + dead
       /\ metrics.forwards_refused <= http["rejected"] + websocket["rejected"]
=============================================================================
