------------------------------ MODULE Envelope ------------------------------
(***************************************************************************)
(* One message packed by alice, carried to bob and unpacked by him         *)
(* (crates/didcomm: pack.rs, unpack.rs, from_prior.rs, secrets.rs and      *)
(* crypto/).                                                               *)
(*                                                                         *)
(* Cryptography is symbolic: what is derived, wrapped, sealed or signed is *)
(* a record of everything that went into it, so two ends agree exactly     *)
(* when they put in the same things.  Unpacking awaits a resolver at every *)
(* layer, so it is one step per layer: meanwhile documents are rotated and *)
(* fetched again, and remembered did:peer:4 long forms dropped.            *)
(***************************************************************************)
EXTENDS Did

CONSTANTS
    Identities,   \* who alice and bob may be: records [alice, bob] of DIDs
    Prior,        \* the DID alice had before
    Encs,         \* the content encryptions alice asks for
    MaxVersion    \* bound: versions of a did:web document

ASSUME EnvelopeAssumption ==
    /\ Prior.m = "key"
    /\ MaxVersion \in Nat \ {0}

Parties == {"alice", "bob"}
Other(p) == CHOOSE q \in Parties : q # p

VARIABLES
    own,      \* the DID of each party
    held,     \* the ids of the keys each holds a secret for
    version,  \* the version of each party's did:web document
    view,     \* the version of the other's document that a party resolves to
    known,    \* short forms of did:peer:4 that bob's LocalResolver remembers
    sent,     \* what was asked to be packed, and what came of it
    wire,     \* the envelope on its way
    altered,  \* whether the wire changed it
    unpack    \* bob's unpacking: status, current envelope, layers, metadata

vars == <<own, held, version, view, known, sent, wire, altered, unpack>>

NoDid == [m |-> "none"]
NoKid == Kid(NoDid, <<>>)
Whole(did) == Kid(did, <<>>)          \* an address that is a DID, no key id
IsKeyId(address) == address.fragment # <<>>

(***************************************************************************)
(* Resolving, and one's own secrets                                        *)
(***************************************************************************)
Dids == (UNION {{i.alice, i.bob} : i \in Identities}) \union {Prior}

(* The document of every DID; n is the version of a did:web one.           *)
DocumentOf ==
    [did \in Dids |-> [n \in 1 .. MaxVersion |->
       CASE did.m = "key"        -> ResolveKey(did)
         [] did.m = "peer2"      -> ResolvePeer2(did)
         [] did.m = "peer4"      -> ResolvePeer4(did, did)
         [] did.m = "peer4short" -> ResolvePeer4(Peer4(did.hash), did)
         [] did.m = "web"        -> ResolveWeb(did, n)]]

(* A party's chain of resolvers.  Its own document is the current one; a   *)
(* short form resolves only if its long form is remembered.                *)
Resolve(p, did) ==
    IF did \notin Dids \/ (did.m = "peer4short" /\ did \notin known \union {own[p]})
    THEN NoDocument
    ELSE DocumentOf[did][IF did = own[p] THEN version[p] ELSE view[p]]

(* Resolving a long form remembers it.                                     *)
Remembered(dids) ==
    known \union {Peer4Short(did) : did \in {d \in dids : d.m = "peer4"}}

Secret(p, kid) ==
    IF kid \in held[p] THEN Method(Resolve(p, kid.did), kid) ELSE NoKey

(***************************************************************************)
(* JWE                                                                     *)
(***************************************************************************)
KeyLen(enc) == IF enc = "A256CBC-HS512" THEN 64 ELSE 32
IvLen(enc) == CASE enc = "A256CBC-HS512" -> 16 [] enc = "A256GCM" -> 12 [] enc = "XC20P" -> 24

(* A ciphertext is known by the content key and iv that made it; the tag   *)
(* covers those and the protected header.                                  *)
Tag(cek, iv, aad, ct) == [cek |-> cek, iv |-> iv, aad |-> aad, of |-> ct.of]

Seal(cek, iv, aad, text) ==
    LET ct == [of |-> <<cek, iv>>, text |-> text]
    IN [ct |-> ct, tag |-> Tag(cek, iv, aad, ct)]

NoText == [kind |-> "none"]
Unseal(enc, cek, iv, aad, ct, tag) ==
    IF /\ cek.len = KeyLen(enc) /\ iv.len = IvLen(enc)
       /\ tag = Tag(cek, iv, aad, ct)
    THEN ct.text
    ELSE NoText

(* The hash of the sorted ids: their order is lost, nothing else.          *)
Apv(kids) ==
    [k \in {kids[i] : i \in DOMAIN kids} |-> Cardinality({i \in DOMAIN kids : kids[i] = k})]

(* The key encryption key; z is one shared secret, or two for authcrypt,   *)
(* which also binds the content tag.                                       *)
ConcatKdf(z, alg, apu, apv, tag) ==
    [z |-> z, alg |-> alg, apu |-> apu, apv |-> apv, tag |-> tag]

NoTag == [cek |-> 0]
NoSender == [kid |-> NoKid, key |-> NoKey]
NoEnvelope == [kind |-> "none"]

KidsOf(recipients) == [i \in DOMAIN recipients |-> recipients[i].kid]

(* n makes the ephemeral key, the content key and the iv fresh.            *)
Encrypt(text, sender, recipients, enc, n) ==
    LET curve == recipients[1].key.curve
        alg == IF sender = NoSender THEN "ES" ELSE "1PU"
        ephemeral == Key(curve, 100 + n)
        header == [typ |-> "encrypted", alg |-> alg, enc |-> enc,
                   epk |-> ToJwk(ephemeral), skid |-> sender.kid,
                   apu |-> sender.kid, apv |-> Apv(KidsOf(recipients))]
        cek == [of |-> n, len |-> KeyLen(enc)]
        iv == [of |-> n, len |-> IvLen(enc)]
        sealed == Seal(cek, iv, header, text)
        kek(key) ==
          IF sender = NoSender
          THEN ConcatKdf(<<DiffieHellman(ephemeral, key)>>, alg, header.apu, header.apv, NoTag)
          ELSE ConcatKdf(<<DiffieHellman(ephemeral, key), DiffieHellman(sender.key, key)>>,
                         alg, header.apu, header.apv, sealed.tag)
    IN IF \/ recipients = <<>> \/ ~IsKeyAgreement(curve)
          \/ \E i \in DOMAIN recipients : recipients[i].key.curve # curve
          \/ sender # NoSender /\ sender.key.curve # curve
       THEN NoEnvelope
       ELSE [kind |-> "jwe", header |-> header,
             recipients |-> [i \in DOMAIN recipients |->
                               [kid |-> recipients[i].kid,
                                wrapped |-> [kek |-> kek(recipients[i].key), cek |-> cek]]],
             iv |-> iv, ct |-> sealed.ct, tag |-> sealed.tag]

Unwrap(jwe, kid, key, sender) ==
    LET header == jwe.header
        recipient == jwe.recipients[CHOOSE i \in DOMAIN jwe.recipients :
                        /\ jwe.recipients[i].kid = kid
                        /\ \A j \in 1 .. i - 1 : jwe.recipients[j].kid # kid]
        epk == FromJwk(header.epk)
        kek == IF header.alg = "ES"
               THEN ConcatKdf(<<DiffieHellman(key, epk)>>, "ES", header.apu, header.apv, NoTag)
               ELSE ConcatKdf(<<DiffieHellman(key, epk), DiffieHellman(key, sender)>>,
                              "1PU", header.apu, header.apv, jwe.tag)
    IN IF /\ epk.curve = key.curve /\ IsKeyAgreement(key.curve)
          /\ header.alg = "1PU" => header.enc = "A256CBC-HS512" /\ sender.curve = key.curve
          /\ recipient.wrapped.kek = kek
       THEN Unseal(header.enc, recipient.wrapped.cek, jwe.iv, header, jwe.ct, jwe.tag)
       ELSE NoText

(* Mutant: apv is not compared with the recipients.                        *)
DecryptWithoutApv(jwe, kid, key, sender) == Unwrap(jwe, kid, key, sender)

Decrypt(jwe, kid, key, sender) ==
    IF jwe.header.apv = Apv(KidsOf(jwe.recipients))
    THEN Unwrap(jwe, kid, key, sender)
    ELSE NoText

(***************************************************************************)
(* JWS and compact JWT                                                     *)
(***************************************************************************)
SignJws(payload, kid, key) ==
    LET protected == [typ |-> "signed", alg |-> SignatureAlg(key.curve), kid |-> kid]
    IN [kind |-> "jws", payload |-> payload,
        signatures |-> <<[protected |-> protected, header |-> kid,
                          signature |-> Sign(key, <<protected, payload>>)]>>]

(* The signer named by the two headers, which must agree; NoKid if they    *)
(* do not, or there is not exactly one signature.                          *)
SignerKid(jws) ==
    IF Len(jws.signatures) # 1 THEN NoKid
    ELSE LET a == jws.signatures[1].protected.kid
             b == jws.signatures[1].header
         IN IF a # NoKid /\ b # NoKid /\ a # b THEN NoKid
            ELSE IF a # NoKid THEN a ELSE b

VerifyJws(jws, key) ==
    LET s == jws.signatures[1]
    IN /\ s.protected.alg = SignatureAlg(key.curve)
       /\ Verifies(key, <<s.protected, jws.payload>>, s.signature)

SignCompact(claims, kid, key) ==
    LET header == [typ |-> "JWT", alg |-> SignatureAlg(key.curve), kid |-> kid]
    IN [header |-> header, claims |-> claims, signature |-> Sign(key, <<header, claims>>)]

VerifyCompact(token, key) ==
    /\ token.header.alg = SignatureAlg(key.curve)
    /\ Verifies(key, <<token.header, token.claims>>, token.signature)

(***************************************************************************)
(* Choosing keys                                                           *)
(***************************************************************************)
KeyAgreementKeys(doc, to) ==
    LET entry(kid) == [kid |-> kid, key |-> Method(doc, kid)]
        usable == SelectSeq(doc.keyAgreement,
                            LAMBDA kid : IsKeyAgreement(Method(doc, kid).curve))
    IN IF ~IsKeyId(to) THEN [i \in DOMAIN usable |-> entry(usable[i])]
       ELSE IF KeyAgreementKey(doc, to) = NoKey THEN <<>> ELSE <<entry(to)>>

OnCurve(keys, curve) == SelectSeq(keys, LAMBDA k : k.key.curve = curve)

(* The first usable candidate: of several places only one has none before. *)
First(candidates, Usable(_)) ==
    LET at == {i \in DOMAIN candidates : /\ Usable(candidates[i])
                                         /\ \A j \in 1 .. i - 1 : ~Usable(candidates[j])}
    IN IF at = {} THEN NoKid ELSE candidates[CHOOSE i \in at : TRUE]

(* Mutant: only the first key held is tried.                               *)
FindFirstHeldKey(p, doc, from, recipientKeys) ==
    LET kid == First(IF IsKeyId(from) THEN <<from>> ELSE doc.keyAgreement,
                     LAMBDA k : Secret(p, k) # NoKey)
        recipients == OnCurve(recipientKeys, Secret(p, kid).curve)
    IN [sender |-> IF recipients = <<>> THEN NoSender ELSE [kid |-> kid, key |-> Secret(p, kid)],
        recipients |-> recipients]

(* The first key held whose curve a recipient key shares, and those keys.  *)
FindAuthcryptKeys(p, doc, from, recipientKeys) ==
    LET candidates == IF ~IsKeyId(from) THEN doc.keyAgreement
                      ELSE IF KeyAgreementKey(doc, from) = NoKey THEN <<>> ELSE <<from>>
        kid == First(candidates, LAMBDA k : /\ Secret(p, k) # NoKey
                                            /\ OnCurve(recipientKeys, Secret(p, k).curve) # <<>>)
    IN [sender |-> IF kid = NoKid THEN NoSender ELSE [kid |-> kid, key |-> Secret(p, kid)],
        recipients |-> OnCurve(recipientKeys, Secret(p, kid).curve)]

SigningKeyIn(p, doc, signBy) ==
    LET candidates == IF ~IsKeyId(signBy) THEN doc.authentication
                      ELSE IF AuthenticationKey(doc, signBy) = NoKey THEN <<>> ELSE <<signBy>>
    IN First(candidates, LAMBDA k : SignatureAlg(Secret(p, k).curve) # NoAlg)

FindSigningKey(p, signBy) == SigningKeyIn(p, Resolve(p, signBy.did), signBy)

(* The token that proves a rotation from claims.iss to claims.sub.         *)
NoToken == [claims |-> [iss |-> NoDid, sub |-> NoDid]]
FromPriorPack(p, claims) ==
    LET kid == FindSigningKey(p, Whole(claims.iss))
    IN IF claims.iss = claims.sub \/ kid = NoKid THEN NoToken
       ELSE SignCompact(claims, kid, Secret(p, kid))

(***************************************************************************)
(* Packing.  A request has the message's from and to ({} if absent), its   *)
(* from_prior claims, and pack_encrypted's arguments.                      *)
(***************************************************************************)
PlainText(p, r) ==
    [kind |-> "plain", from |-> r.msgFrom, to |-> r.msgTo, body |-> 1,
     prior |-> IF r.claims = NoToken.claims THEN NoToken ELSE FromPriorPack(p, r.claims)]

PackSigned(p, r) ==
    LET kid == FindSigningKey(p, r.signBy)
    IN IF r.signBy.did # r.msgFrom \/ kid = NoKid THEN NoEnvelope
       ELSE SignJws(PlainText(p, r), kid, Secret(p, kid))

NotSent == [message |-> NoEnvelope, fromKid |-> NoKid, signKid |-> NoKid, toKids |-> {}]

(* The encrypted layers: with a sender authcrypt, and around it anoncrypt  *)
(* if the sender is to be protected; without one anoncrypt alone.          *)
Protected(r, inner, recipients) ==
    IF r.protect /\ inner # NoEnvelope THEN Encrypt(inner, NoSender, recipients, r.enc, 2)
    ELSE inner

EncryptLayers(r, payload, sender, recipients) ==
    IF sender = NoSender THEN Encrypt(payload, NoSender, recipients, r.enc, 1)
    ELSE Protected(r, Encrypt(payload, sender, recipients, "A256CBC-HS512", 1), recipients)

(* The keys for a request, given the recipient's.                          *)
KeysFor(p, r, keys) ==
    IF r.from # NoKid THEN FindAuthcryptKeys(p, Resolve(p, r.from.did), r.from, keys)
    ELSE [sender |-> NoSender,
          recipients |-> IF keys = <<>> THEN <<>> ELSE OnCurve(keys, keys[1].key.curve)]

PackedMessage(r, payload, chosen, outer) ==
    IF \/ r.from # NoKid /\ (r.msgFrom # r.from.did \/ chosen.sender = NoSender)
       \/ r.msgTo # {} /\ r.to.did \notin r.msgTo
       \/ payload = NoEnvelope \/ chosen.recipients = <<>> \/ outer = NoEnvelope
    THEN NotSent
    ELSE [message |-> outer, fromKid |-> chosen.sender.kid,
          signKid |-> IF r.signBy = NoKid THEN NoKid ELSE payload.signatures[1].header,
          toKids |-> {chosen.recipients[i].kid : i \in DOMAIN chosen.recipients}]

EncryptPayload(r, payload, chosen) ==
    PackedMessage(r, payload, chosen,
                  EncryptLayers(r, payload, chosen.sender, chosen.recipients))

PackEncrypted(p, r) ==
    LET payload == IF r.signBy = NoKid THEN PlainText(p, r)
                   ELSE IF r.msgTo = {} THEN NoEnvelope ELSE PackSigned(p, r)
    IN EncryptPayload(r, payload,
                      KeysFor(p, r, KeyAgreementKeys(Resolve(p, r.to.did), r.to)))

(***************************************************************************)
(* Unpacking                                                               *)
(***************************************************************************)
NoMeta == [authenticated |-> FALSE, encryptedFrom |-> NoKid, toKids |-> {},
           decryptedBy |-> NoKid, signFrom |-> NoKid,
           prior |-> NoToken.claims, priorKid |-> NoKid]

(* skid, or else apu; if both are there they must agree.                   *)
SenderKid(header) ==
    IF header.skid # NoKid /\ header.apu # NoKid /\ header.skid # header.apu THEN NoKid
    ELSE IF header.skid # NoKid THEN header.skid ELSE header.apu

(* Mutant: only the first recipient is tried.                              *)
FirstRecipientOnly(p, jwe) ==
    IF jwe.recipients # <<>> /\ Secret(p, jwe.recipients[1].kid) # NoKey
    THEN jwe.recipients[1].kid ELSE NoKid

FindDecryptionKey(p, jwe) ==
    First(KidsOf(jwe.recipients), LAMBDA kid : Secret(p, kid) # NoKey)

(* The metadata after a JWE layer of skid that kid opened.                 *)
JweMeta(meta, layer, skid, jwe, kid) ==
    [meta EXCEPT !.authenticated = IF layer = "authcrypt" THEN TRUE ELSE @,
                 !.encryptedFrom = IF layer = "authcrypt" THEN skid ELSE @,
                 !.toKids = {jwe.recipients[i].kid : i \in DOMAIN jwe.recipients},
                 !.decryptedBy = kid]

(* One JWE layer: what is in it comes next.                                *)
OpenJwe(p, u) ==
    LET jwe == u.current
        layer == IF jwe.header.alg = "ES" THEN "anoncrypt" ELSE "authcrypt"
        kid == FindDecryptionKey(p, jwe)
        skid == SenderKid(jwe.header)
        sender == IF layer = "authcrypt"
                  THEN KeyAgreementKey(Resolve(p, skid.did), skid) ELSE NoKey
        text == Decrypt(jwe, kid, Secret(p, kid), sender)
    IN IF \/ jwe.header.typ # "encrypted"
          \/ u.layers # <<>> /\ ~(layer = "authcrypt" /\ u.layers = <<"anoncrypt">>)
          \/ kid = NoKid
          \/ layer = "authcrypt" /\ sender = NoKey
          \/ text = NoText
       THEN [u EXCEPT !.status = "refused"]
       ELSE [u EXCEPT !.current = text, !.layers = Append(@, layer),
               !.recipients = @ \union {kid.did},
               !.meta = JweMeta(@, layer, skid, jwe, kid)]

OpenJws(p, u) ==
    LET kid == SignerKid(u.current)
        key == AuthenticationKey(Resolve(p, kid.did), kid)
    IN IF \/ In("signed", u.layers) \/ kid = NoKid \/ key = NoKey
          \/ u.current.signatures[1].protected.typ # "signed"
          \/ ~VerifyJws(u.current, key)
       THEN [u EXCEPT !.status = "refused"]
       ELSE [u EXCEPT !.current = @.payload, !.layers = Append(@, "signed"),
               !.meta.signFrom = kid]

CheckConsistency(message, meta, recipients) ==
    /\ meta.encryptedFrom # NoKid => message.from = meta.encryptedFrom.did
    /\ meta.signFrom # NoKid => message.from = meta.signFrom.did
    /\ message.to # {} => recipients \subseteq message.to

FromPriorValid(p, token) ==
    LET key == AuthenticationKey(Resolve(p, token.claims.iss), token.header.kid)
    IN /\ token.claims.iss # token.claims.sub
       /\ token.header.kid.did = token.claims.iss
       /\ key # NoKey /\ VerifyCompact(token, key)

(* Mutant: the subject of the rotation is not compared with from.          *)
RotatesAnyone(p, message) == message.prior = NoToken \/ FromPriorValid(p, message.prior)

RotationValid(p, message) ==
    message.prior # NoToken =>
      FromPriorValid(p, message.prior) /\ message.prior.claims.sub = message.from

(* The innermost text is a message.                                        *)
Accept(p, u) ==
    LET token == u.current.prior
    IN IF ~CheckConsistency(u.current, u.meta, u.recipients) \/ ~RotationValid(p, u.current)
       THEN [u EXCEPT !.status = "refused"]
       ELSE [u EXCEPT !.status = "accepted", !.meta.prior = token.claims,
               !.meta.priorKid = IF token = NoToken THEN NoKid ELSE token.header.kid]

(***************************************************************************)
(* The system                                                              *)
(***************************************************************************)
Kids(did) ==
    LET doc == DocumentOf[did][1] IN {doc.methods[i].id : i \in DOMAIN doc.methods}

KeyAgreementKids(did) == {kid \in Kids(did) : In(kid, DocumentOf[did][1].keyAgreement)}

(* One of the keys may be lost; alice keeps those of her prior DID.        *)
Init ==
    /\ own \in Identities
    /\ \E lost \in {NoKid} \union Kids(own.alice) \union Kids(own.bob) :
         held = [p \in Parties |-> (Kids(own[p]) \ {lost})
                                   \union IF p = "alice" THEN Kids(Prior) ELSE {}]
    /\ version = [p \in Parties |-> 1]
    /\ view = [p \in Parties |-> 1]
    /\ known \in {{}, {d \in {own.alice} : d.m = "peer4short"}}
    /\ sent = [how |-> "no"]
    /\ wire = NoEnvelope
    /\ altered = FALSE
    /\ unpack = [status |-> "waiting", current |-> NoEnvelope, layers |-> <<>>,
                 recipients |-> {}, meta |-> NoMeta]

(* What is asked of alice: whole DIDs as addresses with any layers and     *)
(* from_prior, or key ids.                                                 *)
Requests ==
    LET to == {Whole(own.bob)}
        from == {NoKid, Whole(own.alice)}
        all == [to : to \union KeyAgreementKids(own.bob),
                from : from \union KeyAgreementKids(own.alice),
                signBy : {NoKid, Whole(own.alice)}, protect : BOOLEAN, enc : Encs,
                msgFrom : {NoDid, own.alice}, msgTo : {{}, {own.bob}, {Prior}},
                claims : {NoToken.claims} \union [iss : {Prior}, sub : {own.alice, own.bob}]]
    IN {r \in all :
          /\ r.protect => r.from # NoKid
          /\ r.claims # NoToken.claims => r.msgFrom # NoDid /\ r.msgTo = {own.bob}
          /\ r.to \notin to \/ r.from \notin from => r.signBy = NoKid /\ ~r.protect
                                                   /\ r.claims = NoToken.claims}

Pack(how, r, packed) ==
    /\ sent' = [how |-> how, request |-> r, packed |-> [packed EXCEPT !.message = NoText],
                at |-> version.alice, viewed |-> view.alice]
    /\ wire' = packed.message
    /\ UNCHANGED <<own, held, version, view, known, altered, unpack>>

Encrypts ==
    /\ sent.how = "no"
    /\ \E r \in Requests : Pack("encrypted", r, PackEncrypted("alice", r))

(* pack_signed alone: nothing is encrypted, to nobody in particular.       *)
SignedMessage(jws) ==
    IF jws = NoEnvelope THEN NotSent
    ELSE [NotSent EXCEPT !.message = jws, !.signKid = jws.signatures[1].header]

Signs ==
    /\ sent.how = "no"
    /\ \E r \in {x \in Requests : x.signBy # NoKid /\ x.from = NoKid /\ x.to = Whole(own.bob)} :
          Pack("signed", r, SignedMessage(PackSigned("alice", r)))

(* What becomes of an envelope if one field of its outermost layer changes *)
(* on the wire: several at once, and what only a holder of the inner keys  *)
(* could change, are left out.                                             *)
OtherKid == Kid(Prior, <<1>>)
OneFieldChanged(e) ==
    IF e.kind = "jwe"
    THEN {[e EXCEPT !.header = h] :
            h \in {[e.header EXCEPT !.typ = "signed"], [e.header EXCEPT !.enc = "XC20P"],
                   [e.header EXCEPT !.alg = IF @ = "ES" THEN "1PU" ELSE "ES"],
                   [e.header EXCEPT !.epk.x = @ + 1], [e.header EXCEPT !.epk.kty = "RSA"],
                   [e.header EXCEPT !.skid = OtherKid], [e.header EXCEPT !.skid = NoKid],
                   [e.header EXCEPT !.apu = NoKid], [e.header EXCEPT !.apv = Apv(<<OtherKid>>)]}}
         \union {[e EXCEPT !.recipients = rs] :
            rs \in {Tail(e.recipients), Append(e.recipients, e.recipients[1]),
                    [e.recipients EXCEPT ![1].kid = OtherKid],
                    [e.recipients EXCEPT ![1].wrapped.cek.of = 0]}}
         \union {[e EXCEPT !.iv.of = 0], [e EXCEPT !.iv.len = 0], [e EXCEPT !.tag = NoTag],
                 [e EXCEPT !.ct = [of |-> <<>>, text |-> NoText]]}
    ELSE LET one == e.signatures[1]
         IN {[e EXCEPT !.payload.body = 2]}
            \union {[e EXCEPT !.signatures = ss] :
               ss \in {<<>>, <<one, one>>,
                       <<[one EXCEPT !.protected.kid = NoKid]>>, <<[one EXCEPT !.header = NoKid]>>,
                       <<[one EXCEPT !.protected.kid = OtherKid]>>,
                       <<[one EXCEPT !.header = OtherKid]>>,
                       <<[one EXCEPT !.protected.alg = "none"]>>,
                       <<[one EXCEPT !.signature.over = <<>>]>>}}

Alter ==
    /\ wire # NoEnvelope /\ unpack.status = "waiting" /\ ~altered
    /\ wire' \in OneFieldChanged(wire)
    /\ altered' = TRUE
    /\ UNCHANGED <<own, held, version, view, known, sent, unpack>>

Arrive ==
    /\ wire # NoEnvelope /\ unpack.status = "waiting"
    /\ unpack' = [unpack EXCEPT !.status = "open", !.current = wire]
    /\ wire' = NoEnvelope
    /\ UNCHANGED <<own, held, version, view, known, sent, altered>>

(* The DID a layer makes bob resolve.                                      *)
ResolvedFor(e) ==
    CASE e.kind = "jwe" /\ e.header.alg = "1PU" -> {SenderKid(e.header).did}
      [] e.kind = "jws"   -> {SignerKid(e).did}
      [] e.kind = "plain" -> {e.prior.claims.iss}
      [] OTHER            -> {}

Layer(kind, result) ==
    /\ unpack.status = "open" /\ unpack.current.kind = kind
    /\ unpack' = result
    /\ known' = Remembered(ResolvedFor(unpack.current))
    /\ UNCHANGED <<own, held, version, view, sent, wire, altered>>

UnpackJwe == Layer("jwe", OpenJwe("bob", unpack))
UnpackJws == Layer("jws", OpenJws("bob", unpack))
UnpackMessage == Layer("plain", Accept("bob", unpack))

(* A did:web party gets new keys under the same ids.  A process has one    *)
(* set of them from its start, so not while it unpacks.                    *)
Rotate(p) ==
    /\ own[p].m = "web" /\ version[p] < MaxVersion
    /\ p = "bob" => unpack.status # "open"
    /\ version' = [version EXCEPT ![p] = @ + 1]
    /\ UNCHANGED <<own, held, view, known, sent, wire, altered, unpack>>

(* A party's cached copy of the other's document ends, and another takes   *)
(* its place: of two fetches that overlap, the older answer may be cached  *)
(* last.  What alice sees no longer matters once she has packed.           *)
Refetch(p) ==
    /\ p = "alice" => sent.how = "no"
    /\ \E fetched \in 1 .. version[Other(p)] : view' = [view EXCEPT ![p] = fetched]
    /\ UNCHANGED <<own, held, version, known, sent, wire, altered, unpack>>

(* The remembered long forms reached their capacity and are dropped.       *)
Forget ==
    /\ known' = {}
    /\ UNCHANGED <<own, held, version, view, sent, wire, altered, unpack>>

Next ==
    \/ Encrypts \/ Signs \/ Alter \/ Arrive
    \/ UnpackJwe \/ UnpackJws \/ UnpackMessage
    \/ \E p \in Parties : Rotate(p) \/ Refetch(p)
    \/ Forget

Spec == Init /\ [][Next]_vars

(***************************************************************************)
(* Properties                                                              *)
(***************************************************************************)
(* What could keep an envelope from being read: it was changed on the way, *)
(* bob lost all keys it is for, a document was rotated and one end used    *)
(* the other version, a short form is not remembered, or from_prior is     *)
(* about someone else.                                                     *)
Unreadable ==
    \/ altered
    \/ sent.packed.toKids # {} /\ sent.packed.toKids \cap held.bob = {}
    \/ sent.packed.toKids # {} /\ own.bob.m = "web" /\ sent.viewed # version.bob
    \/ own.alice.m = "web" /\ view.bob # sent.at
    \/ own.alice.m = "peer4short" /\ own.alice \notin known
    \/ sent.request.claims # NoToken.claims /\ sent.request.claims.sub # sent.request.msgFrom

(* Whatever pack_encrypted or pack_signed returns, unpack takes: with any  *)
(* DID methods, curves, layers and lost keys, bob refuses an envelope only *)
(* for a reason that lies outside of the two.                              *)
WhatIsPackedOpens ==
    [][unpack'.status = "refused" /\ unpack.status = "open" => Unreadable]_vars

(* An envelope that is accepted, changed on the way or not, gives the very *)
(* message that was packed, and the metadata name the keys it was packed   *)
(* with: the authcrypt sender, the signer and the recipients.              *)
NothingAlteredOpens ==
    unpack.status = "accepted" =>
      /\ unpack.current.body = 1
      /\ unpack.current.from = sent.request.msgFrom
      /\ unpack.current.to = sent.request.msgTo
      /\ unpack.meta.encryptedFrom = sent.packed.fromKid
      /\ unpack.meta.authenticated = (sent.packed.fromKid # NoKid)
      /\ unpack.meta.signFrom = sent.packed.signKid
      /\ unpack.meta.toKids = sent.packed.toKids
      /\ sent.packed.toKids # {} => unpack.meta.decryptedBy \in sent.packed.toKids \cap held.bob

(* A rotation is reported only if the prior DID itself said that it is now *)
(* the sender of this message.                                             *)
RotationProved ==
    unpack.status = "accepted" /\ unpack.meta.prior # NoToken.claims =>
      /\ unpack.meta.prior = sent.request.claims
      /\ unpack.meta.prior.sub = unpack.current.from
      /\ In(unpack.meta.priorKid, ResolveKey(Prior).authentication)

(* pack_encrypted refuses only what cannot be packed: addresses that       *)
(* disagree, a signature nobody can make, or no key of the sender that     *)
(* shares a curve with one of the recipient's.                             *)
SenderKeys(r) ==
    {Secret("alice", k) : k \in {x \in held.alice \cap KeyAgreementKids(own.alice) :
                                   IsKeyId(r.from) => x = r.from}}
RecipientKeys(r) ==
    LET keys == KeyAgreementKeys(Resolve("alice", r.to.did), r.to)
    IN {keys[i].key : i \in DOMAIN keys}
CannotPack(r) ==
    \/ r.from # NoKid /\ r.msgFrom # r.from.did
    \/ r.msgTo # {} /\ r.to.did \notin r.msgTo
    \/ r.signBy # NoKid /\
         \/ r.msgTo = {} \/ r.msgFrom # r.signBy.did
         \/ \A k \in held.alice : ~In(k, Resolve("alice", own.alice).authentication)
    \/ RecipientKeys(r) = {}
    \/ r.from # NoKid /\ \A a \in SenderKeys(r), b \in RecipientKeys(r) : a.curve # b.curve
CompatibleKeysSuffice ==
    [][/\ sent.how = "no" /\ sent'.how = "encrypted" /\ wire' = NoEnvelope
       => CannotPack(sent'.request)]_vars
=============================================================================
