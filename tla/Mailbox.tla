------------------------------ MODULE Mailbox -------------------------------
(***************************************************************************)
(* What the store promises about the queue of one mediation, whichever     *)
(* backend keeps it (the Store trait, store/mod.rs): a message accepted    *)
(* stays, in the order of its id, until the wallet acknowledges it, its    *)
(* time to live has passed, or the mediation is removed.                   *)
(***************************************************************************)
EXTENDS Integers, FiniteSets

CONSTANTS
    Recipients,   \* recipient DIDs of the mediation
    Sizes,        \* message sizes, in bytes
    MaxMessages,  \* QueueLimits.max_messages
    Lifetime,     \* QueueLimits.ttl_secs, in clock ticks
    MaxTime,      \* bound: the clock stops here
    MaxPuts,      \* bound: messages ever accepted
    MaxRemovals   \* bound: times the mediation is removed

VARIABLES
    clock,  \* the store's clock, in ticks
    last,   \* the latest id given out; ids only grow
    mail,   \* the messages a wallet can still pick up
    acked,  \* the ids the wallet has acknowledged
    era     \* how often the mediation was removed

mailVars == <<clock, last, mail, acked, era>>

Expired(e, time) == e.at + Lifetime < time

MailInit ==
    /\ clock \in Nat
    /\ last = 0
    /\ mail = {}
    /\ acked = {}
    /\ era = 0

(* Only messages past their lifetime are dropped.                          *)
OnlyExpiredGone(kept, time) == \A e \in mail \ kept : Expired(e, time)

(* enqueue, when there is room; expired messages may make it.              *)
Put(to, size, kept) ==
    /\ last < MaxPuts
    /\ OnlyExpiredGone(kept, clock)
    /\ Cardinality(kept) < MaxMessages
    /\ last' = last + 1
    /\ mail' = kept \union
         {[id |-> last + 1, to |-> to, size |-> size, at |-> clock]}
    /\ UNCHANGED <<clock, acked, era>>

(* remove, asked for by the wallet (messages-received).                    *)
Acknowledge(ids) ==
    /\ acked' = acked \union ids
    /\ mail' = {e \in mail : e.id \notin ids}
    /\ UNCHANGED <<clock, last, era>>

(* Time passes; messages past their lifetime may go, then or later.        *)
Age ==
    /\ clock' \in {clock, clock + 1}
    /\ clock' <= MaxTime
    /\ mail' \subseteq mail
    /\ OnlyExpiredGone(mail', clock')
    /\ UNCHANGED <<last, acked, era>>

(* remove_idle_mediations took the mediation with all it owns.             *)
Close ==
    /\ era < MaxRemovals
    /\ era' = era + 1
    /\ mail' = {}
    /\ UNCHANGED <<clock, last, acked>>

MailNext ==
    \/ \E to \in Recipients, size \in Sizes, kept \in SUBSET mail :
         Put(to, size, kept)
    \/ \E ids \in SUBSET (1 .. last) : Acknowledge(ids)
    \/ Age
    \/ Close

MailSpec == MailInit /\ [][MailNext]_mailVars
=============================================================================
