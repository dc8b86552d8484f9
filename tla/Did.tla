-------------------------------- MODULE Did --------------------------------
(***************************************************************************)
(* Keys, DIDs and DID documents (crates/didcomm: crypto/keys.rs and did/). *)
(*                                                                         *)
(* A key pair is its curve and a number; the number stands for the secret, *)
(* and for the point or bytes that belong to it.  A DID is a record of     *)
(* what its text holds, so that decoding it is resolving it; base58,       *)
(* base64 and SHA-256 are left out, being injective.                       *)
(***************************************************************************)
EXTENDS Integers, Sequences, FiniteSets

CONSTANTS
    PeerInput,  \* the input documents of did:peer:4 DIDs, by their number
    WebKeys     \* the verification methods a did:web has in its n-th version

(***************************************************************************)
(* Curves and keys                                                         *)
(***************************************************************************)
Curves == {"Ed25519", "X25519", "P256", "P384", "P521", "Secp256k1"}

IsKeyAgreement(curve) == curve \in {"X25519", "P256", "P384", "P521"}

Kty(curve) == IF curve \in {"Ed25519", "X25519"} THEN "OKP" ELSE "EC"

NoAlg == "none"
SignatureAlg(curve) ==
    CASE curve = "Ed25519"   -> "EdDSA"
      [] curve = "P256"      -> "ES256"
      [] curve = "Secp256k1" -> "ES256K"
      [] OTHER               -> NoAlg

Key(curve, n) == [curve |-> curve, of |-> n]
NoKey == Key("none", 0)

(* A JWK has both coordinates of a point, and only x of an OKP key (0 is   *)
(* an absent y).  Reading one checks that they belong together.            *)
ToJwk(key) ==
    [kty |-> Kty(key.curve), crv |-> key.curve, x |-> key.of,
     y |-> IF Kty(key.curve) = "EC" THEN key.of ELSE 0]

FromJwk(jwk) ==
    IF /\ jwk.crv \in Curves
       /\ jwk.kty = Kty(jwk.crv)
       /\ jwk.kty = "EC" => jwk.y = jwk.x
    THEN Key(jwk.crv, jwk.x)
    ELSE NoKey

(* What signs with a key, and verifies: the secret and what was signed.    *)
Sign(key, text) == [by |-> key, over |-> text]

Verifies(key, text, signature) ==
    SignatureAlg(key.curve) # NoAlg /\ signature = Sign(key, text)

(* Both ends of a key agreement come to the same value, on one curve.      *)
DiffieHellman(secret, public) ==
    [curve |-> secret.curve, between |-> {secret.of, public.of}]

(***************************************************************************)
(* Multikey: the multicodec of the curve as a varint, then the key         *)
(***************************************************************************)
Codec ==
    [c \in Curves |->
       CASE c = "Ed25519" -> 237 [] c = "X25519" -> 236 [] c = "P256" -> 4608
         [] c = "P384" -> 4609 [] c = "P521" -> 4610 [] c = "Secp256k1" -> 231]

MaxVarint == 65535   \* bound: the values that are encoded, all below it
EncodeVarint[value \in 0 .. MaxVarint] ==
    IF value < 128 THEN <<value>>
    ELSE <<128 + (value % 128)>> \o EncodeVarint[value \div 128]

(* The first byte below 128 ends a varint, within nine bytes.              *)
VarintLength(bytes) ==
    LET ends == {i \in 1 .. Len(bytes) : i <= 9 /\ bytes[i] < 128}
    IN IF ends = {} THEN 0 ELSE CHOOSE i \in ends : \A j \in ends : i <= j

DecodeVarint(bytes) ==
    LET value[i \in 0 .. VarintLength(bytes)] ==
          IF i = 0 THEN 0
          ELSE value[i - 1] + ((bytes[i] % 128) * (128^(i - 1)))
    IN value[VarintLength(bytes)]

EncodeKey(key) == EncodeVarint[Codec[key.curve]] \o <<key.of>>

DecodeKey(bytes) ==
    LET curves == {c \in Curves : Codec[c] = DecodeVarint(bytes)}
        rest == SubSeq(bytes, VarintLength(bytes) + 1, Len(bytes))
    IN IF VarintLength(bytes) = 0 \/ curves = {} \/ Len(rest) # 1 THEN NoKey
       ELSE Key(CHOOSE c \in curves : TRUE, rest[1])

(***************************************************************************)
(* Documents.  A method is [id, key]; relationships are sequences of key   *)
(* ids, in the owner's order of preference.                                *)
(***************************************************************************)
Kid(did, fragment) == [did |-> did, fragment |-> fragment]

Document(did, methods, authentication, keyAgreement) ==
    [id |-> did, methods |-> methods,
     authentication |-> authentication, keyAgreement |-> keyAgreement]

NoDocument == Document([m |-> "none"], <<>>, <<>>, <<>>)

In(x, seq) == \E i \in DOMAIN seq : seq[i] = x

Method(doc, kid) ==
    LET at == {i \in DOMAIN doc.methods : doc.methods[i].id = kid}
    IN IF at = {} THEN NoKey
       ELSE doc.methods[CHOOSE i \in at : \A j \in at : i <= j].key

KeyAgreementKey(doc, kid) ==
    IF In(kid, doc.keyAgreement) THEN Method(doc, kid) ELSE NoKey

AuthenticationKey(doc, kid) ==
    IF In(kid, doc.authentication) THEN Method(doc, kid) ELSE NoKey

(* A document as JSON: methods in a format, and relationships that refer   *)
(* to one or hold one; ids are relative, so fragments.  A method in an     *)
(* unknown format is skipped; a bad key makes the document unreadable.     *)
MethodKey(vm) ==
    CASE vm.format = "jwk"       -> FromJwk(vm.jwk)
      [] vm.format = "multibase" -> DecodeKey(vm.bytes)
      [] vm.format = "base58"    -> Key(vm.curve, vm.of)

Known(vm) ==
    \/ vm.format \in {"jwk", "multibase"}
    \/ vm.format = "base58" /\ vm.curve \in {"Ed25519", "X25519"}

Embedded(entries) == SelectSeq(entries, Known)

FromJson(did, json) ==
    LET method(vm) == [id |-> Kid(did, vm.fragment), key |-> MethodKey(vm)]
        listed == SelectSeq(json.methods, Known)
        all == listed \o Embedded(json.authentication) \o Embedded(json.keyAgreement)
        ids(entries) ==
          LET kept == SelectSeq(entries, LAMBDA x : x.format = "reference" \/ Known(x))
          IN [i \in DOMAIN kept |-> Kid(did, kept[i].fragment)]
    IN IF \E i \in DOMAIN all : MethodKey(all[i]) = NoKey THEN NoDocument
       ELSE Document(did, [i \in DOMAIN all |-> method(all[i])],
                     ids(json.authentication), ids(json.keyAgreement))

Reference(fragment) == [format |-> "reference", fragment |-> fragment]

ToJson(doc) ==
    LET refs(kids) == [i \in DOMAIN kids |-> Reference(kids[i].fragment)]
    IN [methods |-> [i \in DOMAIN doc.methods |->
                       [format |-> "jwk", fragment |-> doc.methods[i].id.fragment,
                        jwk |-> ToJwk(doc.methods[i].key)]],
        authentication |-> refs(doc.authentication),
        keyAgreement |-> refs(doc.keyAgreement)]

(***************************************************************************)
(* The DID methods                                                         *)
(***************************************************************************)
DidKey(key) == [m |-> "key", bytes |-> EncodeKey(key)]

(* An Ed25519 did:key also has the X25519 key made from it.                *)
KeyDocument(did, key) ==
    LET main == Kid(did, did.bytes)
        derived == Key("X25519", key.of)
        extra == Kid(did, EncodeKey(derived))
    IN CASE key = NoKey -> NoDocument
         [] key.curve = "Ed25519" ->
              Document(did, <<[id |-> main, key |-> key], [id |-> extra, key |-> derived]>>,
                       <<main>>, <<extra>>)
         [] OTHER ->
              Document(did, <<[id |-> main, key |-> key]>>,
                       IF SignatureAlg(key.curve) # NoAlg THEN <<main>> ELSE <<>>,
                       IF IsKeyAgreement(key.curve) THEN <<main>> ELSE <<>>)

ResolveKey(did) == KeyDocument(did, DecodeKey(did.bytes))

(* A did:peer:2 lists its keys with their purposes: V (authentication), E  *)
(* (key agreement) and others; they become #key-1, #key-2, ...             *)
Peer2(elements) ==
    [m |-> "peer2", elements |-> [i \in DOMAIN elements |->
                                    <<elements[i][1], EncodeKey(elements[i][2])>>]]

ResolvePeer2(did) ==
    LET of(purpose) ==
          LET at == SelectSeq([i \in DOMAIN did.elements |-> i],
                              LAMBDA i : did.elements[i][1] = purpose)
          IN [i \in DOMAIN at |-> Reference(<<at[i]>>)]
    IN FromJson(did,
         [methods |-> [i \in DOMAIN did.elements |->
                         [format |-> "multibase", fragment |-> <<i>>,
                          bytes |-> did.elements[i][2]]],
          authentication |-> of("V"), keyAgreement |-> of("E")])

(* A did:peer:4 holds a document (here its number) and its hash; its short *)
(* form only the hash.                                                     *)
Peer4(n) == [m |-> "peer4", hash |-> n, input |-> n]
Peer4Short(long) == [m |-> "peer4short", hash |-> long.hash]

ResolvePeer4(long, asDid) ==
    IF long.hash # long.input THEN NoDocument
    ELSE FromJson(asDid, PeerInput[long.input])

(* A did:web has the document published under its name, which is written   *)
(* with to_json; version n of it has the keys WebKeys[n].                  *)
Web(name) == [m |-> "web", name |-> name]

WebDocument(did, n) ==
    LET kid(i) == Kid(did, <<i>>)
        all == [i \in DOMAIN WebKeys[n] |-> i]
        kids(Test(_)) ==
          LET at == SelectSeq(all, LAMBDA i : Test(WebKeys[n][i].curve))
          IN [i \in DOMAIN at |-> kid(at[i])]
    IN Document(did, [i \in DOMAIN all |-> [id |-> kid(i), key |-> WebKeys[n][i]]],
                kids(LAMBDA c : SignatureAlg(c) # NoAlg), kids(IsKeyAgreement))

ResolveWeb(did, n) == FromJson(did, ToJson(WebDocument(did, n)))
=============================================================================
