----------------------------- MODULE MCEnvelope -----------------------------
(* Every DID method on both sides, with keys on shared and other curves.   *)
EXTENDS Envelope

MCWebKeys ==
    [n \in 1 .. 2 |-> <<Key("Ed25519", 20 + n), Key("X25519", 30 + n), Key("P256", 40 + n)>>]

Jwk(fragment, key) == [format |-> "jwk", fragment |-> <<fragment>>, jwk |-> ToJwk(key)]

MCPeerInput ==
    <<[methods |-> <<Jwk(1, Key("Ed25519", 51)), [format |-> "other", fragment |-> <<2>>]>>,
       authentication |-> <<Reference(<<1>>)>>,
       keyAgreement |-> <<Jwk(3, Key("P384", 52)), Jwk(4, Key("X25519", 53))>>],
      [methods |-> <<[format |-> "multibase", fragment |-> <<1>>,
                      bytes |-> EncodeKey(Key("P256", 54))]>>,
       authentication |-> <<Reference(<<1>>)>>,
       keyAgreement |-> <<Reference(<<2>>), [format |-> "base58", fragment |-> <<3>>,
                                             curve |-> "X25519", of |-> 55], Reference(<<1>>)>>]>>

MCPrior == DidKey(Key("Secp256k1", 9))

MCIdentities ==
    {[alice |-> DidKey(Key("Ed25519", 1)), bob |-> Web("bob")],
     [alice |-> Web("alice"),
      bob |-> Peer2(<<<<"E", Key("P256", 3)>>, <<"V", Key("Ed25519", 2)>>,
                      <<"E", Key("X25519", 4)>>, <<"E", Key("P256", 5)>>>>)],
     [alice |-> Peer4Short(Peer4(1)), bob |-> Peer4(2)],
     [alice |-> Peer2(<<<<"V", Key("P256", 6)>>, <<"E", Key("P521", 7)>>,
                        <<"E", Key("P256", 8)>>>>),
      bob |-> DidKey(Key("P256", 10))],
     [alice |-> DidKey(Key("Secp256k1", 11)), bob |-> DidKey(Key("X25519", 12))]}
=============================================================================
