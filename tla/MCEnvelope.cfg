\* One message from alice to bob, with any DID methods, keys and layers.
SPECIFICATION Spec
CONSTANTS
    WebKeys <- MCWebKeys
    PeerInput <- MCPeerInput
    Prior <- MCPrior
    Identities <- MCIdentities
    Encs = {"A256GCM", "A256CBC-HS512"}
    MaxVersion = 2
INVARIANTS
    NothingAlteredOpens
    RotationProved
PROPERTIES
    WhatIsPackedOpens
    CompatibleKeysSuffice
