----------------------------- MODULE MCRouting -----------------------------
(* Routing on a small instance: two mediators, and a wallet whose document *)
(* may have any service that names them once or twice.                     *)
EXTENDS Routing

CONSTANTS mA, mB, w1, w2

None == [kind |-> "none", of |-> NoOne, hops |-> <<>>]
Hops == {<<>>, <<mA>>, <<mB>>, <<mA, mB>>}
AnyService == {None} \union [kind: {"http"}, of: {mA}, hops: Hops]
              \union [kind: {"did"}, of: {mA}, hops: Hops \ {<<mA, mB>>}]

(* The second wallet has no service.                                       *)
SomeDocuments == [w \in Wallets |-> IF w = w1 THEN AnyService ELSE {None}]

Layerings == {<<>>, <<"signed">>, <<"anon">>, <<"auth">>, <<"anon", "auth">>,
              <<"anon", "signed">>, <<"auth", "signed">>, <<"anon", "auth", "signed">>,
              <<"signed", "auth">>, <<"auth", "anon">>, <<"signed", "signed">>}

Core(layers, to, from, skid, signer, names, type, ret) ==
    [layers |-> layers, to |-> to, from |-> from, skid |-> skid,
     signer |-> signer, names |-> names, type |-> type, ret |-> ret,
     asked |-> NoOne]

Senders == Wallets \union {NoOne}

(* Every layering, with senders that agree and that do not ...             *)
Shapes ==
    {c \in {Core(l, m, f, k, s, n, "ping", "none") :
              l \in Layerings, m \in Mediators, f \in Senders, k \in Senders,
              s \in Senders, n \in BOOLEAN} :
       /\ (c.skid # NoOne) = (\E i \in DOMAIN c.layers : c.layers[i] = "auth")
       /\ (c.signer # NoOne) = (\E i \in DOMAIN c.layers : c.layers[i] = "signed")}

(* ... and every kind of message, however its reply is to travel.          *)
Kinds ==
    {Core(<<"auth">>, m, w, w, NoOne, TRUE, t, r) :
       m \in Mediators, w \in Wallets, r \in {"all", "none", "absent"},
       t \in {"ping", "quiet", "report", "wallet", "expired", "other"}}
    \union
    {Core(<<"anon">>, m, f, NoOne, NoOne, TRUE, t, r) :
       m \in Mediators, f \in Senders, r \in {"all", "none", "absent"},
       t \in {"ping", "wallet"}}

SomeRequests == Shapes \union Kinds
=============================================================================
