--------------------------- MODULE Envelope_proofs ---------------------------
(***************************************************************************)
(* Proofs about Envelope: what unpack accepts is what was packed, and a    *)
(* rotation that it reports was stated by the prior DID.                   *)
(*                                                                         *)
(* The argument follows the layers.  The tag of a JWE determines its       *)
(* header and iv, and the header the set of its recipients (apv), so a     *)
(* JWE that opens has the header, the text and the recipients it was made  *)
(* with, whatever else of it was changed; the signature of a JWS           *)
(* determines its protected header and its payload.  The invariant says    *)
(* which layer is on top and that the metadata so far agree with what was  *)
(* sent.  At the end, what keys and did:key DIDs decode to.                *)
(***************************************************************************)
EXTENDS Envelope, SequenceTheorems, TLAPS

(***************************************************************************)
(* What packing produces                                                   *)
(***************************************************************************)
KidSet(recipients) == {recipients[i].kid : i \in DOMAIN recipients}

IsJwe(e) ==
    e = [kind |-> "jwe", header |-> e.header, recipients |-> e.recipients,
         iv |-> e.iv, ct |-> e.ct, tag |-> e.tag]

(* A JWE as Encrypt makes it: from is the sender's key id, NoKid for       *)
(* anoncrypt, and to the set of the recipients' key ids.                   *)
Sealed(e, from, to) ==
    /\ IsJwe(e)
    /\ \E cek : e.tag = Tag(cek, e.iv, e.header, e.ct)
    /\ e.header.skid = from
    /\ e.header.apu = from
    /\ e.header.alg = IF from = NoKid THEN "ES" ELSE "1PU"
    /\ e.header.apv = Apv(KidsOf(e.recipients))
    /\ KidSet(e.recipients) = to

(* The message of a request, with a token that states its claims or none.  *)
PlainOf(m, r) ==
    /\ m = [kind |-> "plain", from |-> r.msgFrom, to |-> r.msgTo, body |-> 1, prior |-> m.prior]
    /\ m.prior = NoToken \/ m.prior.claims = r.claims

(* The message of a request, signed with the key kid.                      *)
SignedOf(j, r, kid) ==
    /\ kid # NoKid
    /\ PlainOf(j.payload, r)
    /\ \E alg, key :
         LET protected == [typ |-> "signed", alg |-> alg, kid |-> kid]
         IN j = [kind |-> "jws", payload |-> j.payload,
                 signatures |-> <<[protected |-> protected, header |-> kid,
                                   signature |-> Sign(key, <<protected, j.payload>>)]>>]

ContentOf(c, r, kid) == IF kid = NoKid THEN PlainOf(c, r) ELSE SignedOf(c, r, kid)

(* The envelope of a request r packed as p says.                           *)
EnvelopeOf(e, r, p) ==
    \/ /\ p.fromKid = NoKid /\ p.toKids = {}
       /\ SignedOf(e, r, p.signKid)
    \/ /\ Sealed(e, p.fromKid, p.toKids)
       /\ ContentOf(e.ct.text, r, p.signKid)
    \/ /\ p.fromKid # NoKid
       /\ Sealed(e, NoKid, p.toKids)
       /\ Sealed(e.ct.text, p.fromKid, p.toKids)
       /\ ContentOf(e.ct.text.ct.text, r, p.signKid)

(***************************************************************************)
(* JWE                                                                     *)
(***************************************************************************)
LEMMA TagIsSome ==
    ASSUME NEW cek, NEW iv, NEW aad, NEW ct
    PROVE  Tag(cek, iv, aad, ct) # NoTag
BY DEF Tag, NoTag

(* apv determines the set of the recipients' key ids.                      *)
LEMMA ApvBinds ==
    ASSUME NEW rs, NEW ss, Apv(KidsOf(rs)) = Apv(KidsOf(ss))
    PROVE  KidSet(rs) = KidSet(ss)
<1>1. ASSUME NEW xs PROVE DOMAIN Apv(KidsOf(xs)) = KidSet(xs)
  <2>1. DOMAIN KidsOf(xs) = DOMAIN xs /\ \A i \in DOMAIN xs : KidsOf(xs)[i] = xs[i].kid
    BY DEF KidsOf
  <2>2. DOMAIN Apv(KidsOf(xs)) = {KidsOf(xs)[i] : i \in DOMAIN KidsOf(xs)}
    BY DEF Apv
  <2> QED BY <2>1, <2>2 DEF KidSet
<1> QED BY <1>1

(* What decrypt returns is the text under a tag that fits, and apv fits    *)
(* the recipients (crypto/jwe.rs).                                         *)
LEMMA DecryptChecks ==
    ASSUME NEW jwe, NEW kid, NEW key, NEW sender,
           Decrypt(jwe, kid, key, sender) # NoText
    PROVE  /\ \E cek : jwe.tag = Tag(cek, jwe.iv, jwe.header, jwe.ct)
           /\ Decrypt(jwe, kid, key, sender) = jwe.ct.text
           /\ jwe.header.apv = Apv(KidsOf(jwe.recipients))
BY DEF Decrypt, Unwrap, Unseal

(* A change of one field leaves the tag or removes it, and leaves the text *)
(* or makes it unreadable.                                                 *)
LEMMA ChangedJwe ==
    ASSUME NEW g, IsJwe(g), NEW e \in OneFieldChanged(g)
    PROVE  /\ e.kind = "jwe"
           /\ e.tag \in {g.tag, NoTag}
           /\ e.ct = g.ct \/ e.ct.text = NoText
<1>1. g.kind = "jwe"
  BY DEF IsJwe
<1>2. CASE \E h : e = [g EXCEPT !.header = h]
  BY <1>2 DEF IsJwe
<1>3. CASE \E rs : e = [g EXCEPT !.recipients = rs]
  BY <1>3 DEF IsJwe
<1>4. CASE e \in {[g EXCEPT !.iv.of = 0], [g EXCEPT !.iv.len = 0], [g EXCEPT !.tag = NoTag],
                  [g EXCEPT !.ct = [of |-> <<>>, text |-> NoText]]}
  BY <1>4 DEF IsJwe
<1> QED BY <1>1, <1>2, <1>3, <1>4 DEF OneFieldChanged

(* A JWE that opens has the header, the text and the recipients that it    *)
(* was made with.                                                          *)
LEMMA OpensAsSealed ==
    ASSUME NEW g, NEW from, NEW to, Sealed(g, from, to),
           NEW e, e = g \/ e \in OneFieldChanged(g),
           NEW kid, NEW key, NEW sender, Decrypt(e, kid, key, sender) # NoText
    PROVE  /\ Decrypt(e, kid, key, sender) = g.ct.text
           /\ e.header = g.header
           /\ KidSet(e.recipients) = to
<1>1. PICK cek : e.tag = Tag(cek, e.iv, e.header, e.ct)
  BY DecryptChecks
<1>2. PICK cek2 : g.tag = Tag(cek2, g.iv, g.header, g.ct)
  BY DEF Sealed
<1>3. /\ e.tag \in {g.tag, NoTag}
      /\ e.ct = g.ct \/ e.ct.text = NoText
  BY ChangedJwe DEF Sealed
<1>4. e.tag = g.tag
  BY <1>1, <1>3, TagIsSome
<1>5. e.header = g.header
  BY <1>1, <1>2, <1>4 DEF Tag
<1>6. Decrypt(e, kid, key, sender) = g.ct.text
  BY <1>3, DecryptChecks
<1>7. Apv(KidsOf(e.recipients)) = Apv(KidsOf(g.recipients))
  BY <1>5, DecryptChecks DEF Sealed
<1> QED BY <1>5, <1>6, <1>7, ApvBinds DEF Sealed

(* Encrypt seals, if it returns an envelope.                               *)
LEMMA EncryptSeals ==
    ASSUME NEW text, NEW sender, NEW recipients, NEW enc, NEW n,
           sender = NoSender \/ sender.kid # NoKid,
           Encrypt(text, sender, recipients, enc, n) # NoEnvelope
    PROVE  /\ Sealed(Encrypt(text, sender, recipients, enc, n), sender.kid, KidSet(recipients))
           /\ Encrypt(text, sender, recipients, enc, n).ct.text = text
<1> DEFINE e == Encrypt(text, sender, recipients, enc, n)
           alg == IF sender = NoSender THEN "ES" ELSE "1PU"
           header == [typ |-> "encrypted", alg |-> alg, enc |-> enc,
                      epk |-> ToJwk(Key(recipients[1].key.curve, 100 + n)), skid |-> sender.kid,
                      apu |-> sender.kid, apv |-> Apv(KidsOf(recipients))]
           cek == [of |-> n, len |-> KeyLen(enc)]
           iv == [of |-> n, len |-> IvLen(enc)]
<1>1. PICK x : x = cek
  OBVIOUS
<1>2. PICK y : y = iv
  OBVIOUS
<1>3. PICK h : h = header
  OBVIOUS
<1>4. /\ IsJwe(e)
      /\ e.header = h /\ e.iv = y
      /\ e.ct = [of |-> <<x, y>>, text |-> text]
      /\ e.tag = Tag(x, y, h, [of |-> <<x, y>>, text |-> text])
      /\ DOMAIN e.recipients = DOMAIN recipients
      /\ \A i \in DOMAIN recipients : e.recipients[i].kid = recipients[i].kid
  BY <1>1, <1>2, <1>3 DEF Encrypt, Seal, IsJwe
<1>5. /\ h.skid = sender.kid /\ h.apu = sender.kid /\ h.alg = alg
      /\ h.apv = Apv(KidsOf(recipients))
  BY <1>3
<1> HIDE DEF e
<1>6. KidsOf(e.recipients) = KidsOf(recipients) /\ KidSet(e.recipients) = KidSet(recipients)
  BY <1>4 DEF KidsOf, KidSet
<1>7. sender = NoSender <=> sender.kid = NoKid
  BY DEF NoSender
<1>8. Sealed(e, sender.kid, KidSet(recipients))
  BY <1>4, <1>5, <1>6, <1>7 DEF Sealed
<1> QED BY <1>4, <1>8 DEF e

(***************************************************************************)
(* JWS                                                                     *)
(***************************************************************************)
(* A JWS that verifies, changed in one field or not, has the payload that  *)
(* was signed and names the key that signed it.                            *)
LEMMA VerifiesAsSigned ==
    ASSUME NEW g, NEW r, NEW signer, SignedOf(g, r, signer),
           NEW e, e = g \/ e \in OneFieldChanged(g),
           NEW key, SignerKid(e) # NoKid, VerifyJws(e, key)
    PROVE  SignerKid(e) = signer /\ e.payload = g.payload
<1>1. PICK alg, by :
        LET protected == [typ |-> "signed", alg |-> alg, kid |-> signer]
        IN g = [kind |-> "jws", payload |-> g.payload,
                signatures |-> <<[protected |-> protected, header |-> signer,
                                  signature |-> Sign(by, <<protected, g.payload>>)]>>]
  BY DEF SignedOf
<1> DEFINE protected == [typ |-> "signed", alg |-> alg, kid |-> signer]
           one == g.signatures[1]
<1>2. /\ g.kind = "jws"
      /\ g.signatures = <<one>>
      /\ one = [protected |-> protected, header |-> signer,
                signature |-> Sign(by, <<protected, g.payload>>)]
  BY <1>1
<1>3. Len(e.signatures) = 1
  BY DEF SignerKid
<1>4. e.signatures[1].signature = one.signature \/ e.signatures[1].signature.over = <<>>
  <2>1. CASE e = g
    BY <2>1
  <2>2. CASE e = [g EXCEPT !.payload.body = 2]
    BY <2>2, <1>1
  <2>3. CASE \E ss : /\ e = [g EXCEPT !.signatures = ss]
                     /\ ss \in {<<>>, <<one, one>>,
                       <<[one EXCEPT !.protected.kid = NoKid]>>, <<[one EXCEPT !.header = NoKid]>>,
                       <<[one EXCEPT !.protected.kid = OtherKid]>>,
                       <<[one EXCEPT !.header = OtherKid]>>,
                       <<[one EXCEPT !.protected.alg = "none"]>>,
                       <<[one EXCEPT !.signature.over = <<>>]>>}
    <3>1. PICK ss : e = [g EXCEPT !.signatures = ss] /\ Len(ss) = 1 /\
                    ss \in {<<>>, <<one, one>>,
                       <<[one EXCEPT !.protected.kid = NoKid]>>, <<[one EXCEPT !.header = NoKid]>>,
                       <<[one EXCEPT !.protected.kid = OtherKid]>>,
                       <<[one EXCEPT !.header = OtherKid]>>,
                       <<[one EXCEPT !.protected.alg = "none"]>>,
                       <<[one EXCEPT !.signature.over = <<>>]>>}
      BY <2>3, <1>1, <1>3
    <3>2. e.signatures[1] = ss[1]
      BY <3>1, <1>1
    <3>3. ss[1].signature = one.signature \/ ss[1].signature.over = <<>>
      BY <3>1, <1>2 DEF Sign
    <3> QED BY <3>2, <3>3
  <2> QED BY <1>2, <2>1, <2>2, <2>3 DEF OneFieldChanged
<1>5. e.signatures[1].signature = Sign(key, <<e.signatures[1].protected, e.payload>>)
  BY DEF VerifyJws, Verifies
<1>6. e.signatures[1].signature = Sign(by, <<protected, g.payload>>)
  BY <1>2, <1>4, <1>5 DEF Sign
<1>7. e.signatures[1].protected = protected /\ e.payload = g.payload
  BY <1>5, <1>6 DEF Sign
<1>8. SignerKid(e) \in {NoKid, signer}
  BY <1>7 DEF SignerKid, SignedOf
<1> QED BY <1>7, <1>8

(***************************************************************************)
(* Packing                                                                 *)
(***************************************************************************)
LEMMA PlainTextIsPlain ==
    ASSUME NEW p, NEW r
    PROVE  PlainOf(PlainText(p, r), r)
<1>1. FromPriorPack(p, r.claims) = NoToken \/ FromPriorPack(p, r.claims).claims = r.claims
  BY DEF FromPriorPack, SignCompact
<1> QED BY <1>1 DEF PlainOf, PlainText

LEMMA PackSignedSigns ==
    ASSUME NEW p, NEW r, PackSigned(p, r) # NoEnvelope
    PROVE  SignedOf(PackSigned(p, r), r, PackSigned(p, r).signatures[1].header)
<1>1. PICK kid : kid = FindSigningKey(p, r.signBy)
  OBVIOUS
<1>2. PICK text : text = PlainText(p, r)
  OBVIOUS
<1>3. kid # NoKid /\ PackSigned(p, r) = SignJws(text, kid, Secret(p, kid))
  BY <1>1, <1>2 DEF PackSigned
<1>4. PlainOf(text, r)
  BY <1>2, PlainTextIsPlain
<1>5. PICK key : key = Secret(p, kid)
  OBVIOUS
<1>6. PICK j : j = SignJws(text, kid, key)
  OBVIOUS
<1>7. j.payload = text /\ j.signatures[1].header = kid
  BY <1>6 DEF SignJws
<1>8. SignedOf(j, r, kid)
  BY <1>3, <1>4, <1>6, <1>7 DEF SignedOf, SignJws
<1> QED BY <1>3, <1>5, <1>6, <1>7, <1>8

(* The sender among the chosen keys is known by its key id.                *)
LEMMA SenderIsNamed ==
    ASSUME NEW p, NEW r, NEW keys
    PROVE  LET sender == KeysFor(p, r, keys).sender
           IN sender = NoSender \/ sender.kid # NoKid
<1>1. ASSUME NEW doc
      PROVE  LET sender == FindAuthcryptKeys(p, doc, r.from, keys).sender
             IN sender = NoSender \/ sender.kid # NoKid
  BY DEF FindAuthcryptKeys
<1> QED BY <1>1 DEF KeysFor

LEMMA LayersSeal ==
    ASSUME NEW r, NEW payload, NEW sender, NEW recipients,
           sender = NoSender \/ sender.kid # NoKid,
           EncryptLayers(r, payload, sender, recipients) # NoEnvelope
    PROVE  LET e == EncryptLayers(r, payload, sender, recipients)
               to == KidSet(recipients)
           IN \/ Sealed(e, sender.kid, to) /\ e.ct.text = payload
              \/ /\ sender.kid # NoKid
                 /\ Sealed(e, NoKid, to) /\ Sealed(e.ct.text, sender.kid, to)
                 /\ e.ct.text.ct.text = payload
<1>0. NoSender.kid = NoKid
  BY DEF NoSender
<1>1. CASE sender = NoSender
  BY <1>0, <1>1, EncryptSeals DEF EncryptLayers
<1>2. CASE sender # NoSender
  <2>1. PICK inner : inner = Encrypt(payload, sender, recipients, "A256CBC-HS512", 1)
    OBVIOUS
  <2>2. EncryptLayers(r, payload, sender, recipients) = Protected(r, inner, recipients)
    BY <1>2, <2>1 DEF EncryptLayers
  <2>3. inner # NoEnvelope
    BY <2>2 DEF Protected
  <2>4. Sealed(inner, sender.kid, KidSet(recipients)) /\ inner.ct.text = payload
    BY <2>1, <2>3, EncryptSeals
  <2>5. CASE ~r.protect
    BY <2>2, <2>4, <2>5 DEF Protected
  <2>6. CASE r.protect
    <3>1. PICK outer : outer = Encrypt(inner, NoSender, recipients, r.enc, 2)
      OBVIOUS
    <3>2. EncryptLayers(r, payload, sender, recipients) = outer
      BY <2>2, <2>3, <2>6, <3>1 DEF Protected
    <3>3. Sealed(outer, NoKid, KidSet(recipients)) /\ outer.ct.text = inner
      BY <1>0, <3>1, <3>2, EncryptSeals
    <3> QED BY <1>2, <2>4, <3>2, <3>3
  <2> QED BY <2>5, <2>6
<1> QED BY <1>1, <1>2

IsPacked(p) ==
    p = [message |-> p.message, fromKid |-> p.fromKid, signKid |-> p.signKid, toKids |-> p.toKids]

(* What pack_encrypted returns is an envelope of the request, or nothing.  *)
LEMMA PackEncryptedPacks ==
    ASSUME NEW p, NEW r
    PROVE  LET packed == PackEncrypted(p, r)
           IN /\ IsPacked(packed)
              /\ packed.message # NoEnvelope => EnvelopeOf(packed.message, r, packed)
<1>1. PICK payload : payload = IF r.signBy = NoKid THEN PlainText(p, r)
                               ELSE IF r.msgTo = {} THEN NoEnvelope ELSE PackSigned(p, r)
  OBVIOUS
<1>2. PICK chosen : chosen = KeysFor(p, r, KeyAgreementKeys(Resolve(p, r.to.did), r.to))
  OBVIOUS
<1>3. PICK outer : outer = EncryptLayers(r, payload, chosen.sender, chosen.recipients)
  OBVIOUS
<1>4. PackEncrypted(p, r) = PackedMessage(r, payload, chosen, outer)
  BY <1>1, <1>2, <1>3 DEF PackEncrypted, EncryptPayload
<1>5. CASE PackedMessage(r, payload, chosen, outer) = NotSent
  BY <1>4, <1>5 DEF NotSent, IsPacked
<1>6. CASE PackedMessage(r, payload, chosen, outer) # NotSent
  <2> DEFINE packed == PackedMessage(r, payload, chosen, outer)
             signKid == IF r.signBy = NoKid THEN NoKid ELSE payload.signatures[1].header
  <2>1. /\ payload # NoEnvelope /\ outer # NoEnvelope
        /\ packed = [message |-> outer, fromKid |-> chosen.sender.kid, signKid |-> signKid,
                     toKids |-> KidSet(chosen.recipients)]
    BY <1>6 DEF PackedMessage, KidSet
  <2>2. ContentOf(payload, r, signKid)
    <3>1. CASE r.signBy = NoKid
      BY <1>1, <3>1, PlainTextIsPlain DEF ContentOf
    <3>2. CASE r.signBy # NoKid
      <4>1. payload = PackSigned(p, r)
        BY <1>1, <2>1, <3>2
      <4>2. SignedOf(payload, r, signKid)
        BY <2>1, <3>2, <4>1, PackSignedSigns
      <4> QED BY <4>2 DEF ContentOf, SignedOf
    <3> QED BY <3>1, <3>2
  <2>3. chosen.sender = NoSender \/ chosen.sender.kid # NoKid
    BY <1>2, SenderIsNamed
  <2> DEFINE from == chosen.sender.kid
             to == KidSet(chosen.recipients)
  <2>4. \/ Sealed(outer, from, to) /\ outer.ct.text = payload
        \/ /\ from # NoKid
           /\ Sealed(outer, NoKid, to) /\ Sealed(outer.ct.text, from, to)
           /\ outer.ct.text.ct.text = payload
    BY <1>3, <2>1, <2>3, LayersSeal
  <2> HIDE DEF from, to, packed, signKid
  <2>5. packed = [message |-> outer, fromKid |-> from, signKid |-> signKid, toKids |-> to]
    BY <2>1 DEF from, to
  <2>6. EnvelopeOf(outer, r, packed) /\ IsPacked(packed) /\ packed.message = outer
    BY <2>2, <2>4, <2>5 DEF EnvelopeOf, IsPacked
  <2> QED BY <1>4, <2>6 DEF packed
<1> QED BY <1>5, <1>6

(* The same for pack_signed alone.                                         *)
LEMMA SignedMessagePacks ==
    ASSUME NEW p, NEW r
    PROVE  LET packed == SignedMessage(PackSigned(p, r))
           IN /\ IsPacked(packed)
              /\ packed.message # NoEnvelope => EnvelopeOf(packed.message, r, packed)
<1>1. PICK jws : jws = PackSigned(p, r)
  OBVIOUS
<1>2. CASE jws = NoEnvelope
  BY <1>1, <1>2 DEF SignedMessage, NotSent, IsPacked
<1>3. CASE jws # NoEnvelope
  <2>1. SignedOf(jws, r, jws.signatures[1].header)
    BY <1>1, <1>3, PackSignedSigns
  <2>2. SignedMessage(jws) = [message |-> jws, fromKid |-> NoKid,
                              signKid |-> jws.signatures[1].header, toKids |-> {}]
    BY <1>3 DEF SignedMessage, NotSent
  <2> QED BY <1>1, <2>1, <2>2 DEF EnvelopeOf, IsPacked
<1> QED BY <1>2, <1>3

(***************************************************************************)
(* The inductive invariant                                                 *)
(***************************************************************************)
IsUnpack(u) ==
    u = [status |-> u.status, current |-> u.current, layers |-> u.layers,
         recipients |-> u.recipients, meta |-> u.meta]

IsMeta(m) ==
    m = [authenticated |-> m.authenticated, encryptedFrom |-> m.encryptedFrom,
         toKids |-> m.toKids, decryptedBy |-> m.decryptedBy, signFrom |-> m.signFrom,
         prior |-> m.prior, priorKid |-> m.priorKid]

(* e is the envelope of what was sent, perhaps with one field changed.     *)
OnTheWay(e) ==
    \E g : /\ EnvelopeOf(g, sent.request, sent.packed)
           /\ e = g \/ e \in OneFieldChanged(g)

(* The metadata of the encrypted layers are those of what was sent.        *)
DecryptedAsSent(meta) ==
    /\ meta.encryptedFrom = sent.packed.fromKid
    /\ meta.authenticated = (sent.packed.fromKid # NoKid)
    /\ meta.toKids = sent.packed.toKids
    /\ sent.packed.toKids # {} => meta.decryptedBy \in sent.packed.toKids \cap held.bob

(* The layer on top: the envelope as it came, the authcrypt layer that was *)
(* in an anoncrypt one, the signed message, the message.                   *)
AsItCame(u) == u.meta = NoMeta /\ OnTheWay(u.current)

InnerAuthcrypt(u) ==
    /\ u.meta.encryptedFrom = NoKid /\ u.meta.authenticated = FALSE /\ u.meta.signFrom = NoKid
    /\ sent.packed.fromKid # NoKid
    /\ Sealed(u.current, sent.packed.fromKid, sent.packed.toKids)
    /\ ContentOf(u.current.ct.text, sent.request, sent.packed.signKid)

InnerSigned(u) ==
    /\ DecryptedAsSent(u.meta) /\ u.meta.signFrom = NoKid
    /\ SignedOf(u.current, sent.request, sent.packed.signKid)

InnerMessage(u) ==
    /\ DecryptedAsSent(u.meta) /\ u.meta.signFrom = sent.packed.signKid
    /\ PlainOf(u.current, sent.request)

RotationStated(u) ==
    u.meta.prior # NoToken.claims =>
      /\ u.meta.prior = sent.request.claims
      /\ u.meta.prior.sub = u.current.from
      /\ In(u.meta.priorKid, ResolveKey(Prior).authentication)

Shape == IsUnpack(unpack) /\ IsMeta(unpack.meta)
Versions ==
    /\ version \in [Parties -> 1 .. MaxVersion]
    /\ view \in [Parties -> 1 .. MaxVersion]
NothingYet == sent.how = "no" => wire = NoEnvelope /\ unpack.status = "waiting"
WhatIsSent ==
    sent.how # "no" => sent.request.claims = NoToken.claims \/ sent.request.claims.iss = Prior
WireInv ==
    wire # NoEnvelope => /\ OnTheWay(wire)
                         /\ ~altered => EnvelopeOf(wire, sent.request, sent.packed)
UnpackInv ==
    /\ unpack.status = "waiting" => unpack.meta = NoMeta
    /\ unpack.status = "open" => \/ AsItCame(unpack) \/ InnerAuthcrypt(unpack)
                                 \/ InnerSigned(unpack) \/ InnerMessage(unpack)
    /\ unpack.status = "accepted" => InnerMessage(unpack) /\ RotationStated(unpack)

IInv == Shape /\ Versions /\ NothingYet /\ WhatIsSent /\ WireInv /\ UnpackInv

(***************************************************************************)
(* Unpacking                                                               *)
(***************************************************************************)
(* The key that decrypts is one of the recipients and is held.             *)
LEMMA DecryptionKeyIsHeld ==
    ASSUME NEW p, NEW jwe, FindDecryptionKey(p, jwe) # NoKid
    PROVE  FindDecryptionKey(p, jwe) \in KidSet(jwe.recipients) \cap held[p]
<1>1. PICK kid : kid = FindDecryptionKey(p, jwe)
  OBVIOUS
<1>2. PICK i \in DOMAIN KidsOf(jwe.recipients) :
        kid = KidsOf(jwe.recipients)[i] /\ Secret(p, KidsOf(jwe.recipients)[i]) # NoKey
  BY <1>1 DEF FindDecryptionKey, First
<1>3. i \in DOMAIN jwe.recipients /\ kid = jwe.recipients[i].kid
  BY <1>2 DEF KidsOf
<1>4. kid \in held[p]
  BY <1>2 DEF Secret
<1> QED BY <1>1, <1>3, <1>4 DEF KidSet

(* A JWE layer is refused, or its text comes on top and the metadata get   *)
(* its sender, if it has one, its recipients and the key that decrypted.   *)
JweOpened(u, v, g, from, to) ==
    /\ IsUnpack(v) /\ IsMeta(v.meta)
    /\ \/ v.status = "refused"
       \/ /\ v.status = u.status
          /\ v.current = g.ct.text
          /\ v.meta.authenticated = IF from = NoKid THEN u.meta.authenticated ELSE TRUE
          /\ v.meta.encryptedFrom = IF from = NoKid THEN u.meta.encryptedFrom ELSE from
          /\ v.meta.toKids = to
          /\ v.meta.decryptedBy \in to \cap held.bob
          /\ v.meta.signFrom = u.meta.signFrom

LEMMA OpenJweOpens ==
    ASSUME NEW u, IsUnpack(u), IsMeta(u.meta),
           NEW g, NEW from, NEW to, Sealed(g, from, to),
           u.current = g \/ u.current \in OneFieldChanged(g),
           NEW v, v = OpenJwe("bob", u)
    PROVE  JweOpened(u, v, g, from, to)
<1>1. PICK kid : kid = FindDecryptionKey("bob", u.current)
  OBVIOUS
<1>2. PICK skid : skid = SenderKid(u.current.header)
  OBVIOUS
<1>3. PICK layer : layer = IF u.current.header.alg = "ES" THEN "anoncrypt" ELSE "authcrypt"
  OBVIOUS
<1>4. PICK sender : sender = IF layer = "authcrypt"
                             THEN KeyAgreementKey(Resolve("bob", skid.did), skid) ELSE NoKey
  OBVIOUS
<1>5. PICK text : text = Decrypt(u.current, kid, Secret("bob", kid), sender)
  OBVIOUS
<1>m. PICK m : m = u.meta /\ IsMeta(m)
  OBVIOUS
<1>n. PICK meta : meta = JweMeta(m, layer, skid, u.current, kid)
  OBVIOUS
<1>6. \/ v = [u EXCEPT !.status = "refused"]
      \/ /\ kid # NoKid /\ text # NoText
         /\ v = [u EXCEPT !.current = text, !.layers = Append(@, layer),
                  !.recipients = @ \union {kid.did}, !.meta = meta]
  BY <1>1, <1>2, <1>3, <1>4, <1>5, <1>m, <1>n DEF OpenJwe
<1>7. CASE v = [u EXCEPT !.status = "refused"]
  BY <1>7 DEF IsUnpack, JweOpened
<1>8. CASE v # [u EXCEPT !.status = "refused"]
  <2>1. text = g.ct.text /\ u.current.header = g.header /\ KidSet(u.current.recipients) = to
    BY <1>5, <1>6, <1>8, OpensAsSealed
  <2>2. layer = "authcrypt" <=> from # NoKid
    BY <1>3, <2>1 DEF Sealed
  <2>3. from # NoKid => skid = from
    BY <1>2, <2>1 DEF Sealed, SenderKid
  <2>4. kid \in to \cap held.bob
    BY <1>1, <1>6, <1>8, <2>1, DecryptionKeyIsHeld
  <2>5. v.meta = meta
    BY <1>6, <1>8 DEF IsUnpack
  <2>6. IsUnpack(v) /\ v.status = u.status /\ v.current = text
    BY <1>6, <1>8 DEF IsUnpack
  <2>7. /\ IsMeta(meta)
        /\ meta.authenticated = IF layer = "authcrypt" THEN TRUE ELSE m.authenticated
        /\ meta.encryptedFrom = IF layer = "authcrypt" THEN skid ELSE m.encryptedFrom
        /\ meta.toKids = KidSet(u.current.recipients)
        /\ meta.decryptedBy = kid
        /\ meta.signFrom = m.signFrom
    BY <1>m, <1>n DEF IsMeta, JweMeta, KidSet
  <2> QED BY <1>m, <2>1, <2>2, <2>3, <2>4, <2>5, <2>6, <2>7 DEF JweOpened
<1> QED BY <1>7, <1>8

(* A JWS layer is refused, or its payload comes on top and the metadata    *)
(* get the signer.                                                         *)
JwsOpened(u, v, r, signer) ==
    /\ IsUnpack(v) /\ IsMeta(v.meta)
    /\ \/ v.status = "refused"
       \/ /\ v.status = u.status
          /\ PlainOf(v.current, r)
          /\ v.meta = [u.meta EXCEPT !.signFrom = signer]

LEMMA OpenJwsOpens ==
    ASSUME NEW u, IsUnpack(u), IsMeta(u.meta),
           NEW g, NEW r, NEW signer, SignedOf(g, r, signer),
           u.current = g \/ u.current \in OneFieldChanged(g),
           NEW v, v = OpenJws("bob", u)
    PROVE  JwsOpened(u, v, r, signer)
<1>1. PICK kid : kid = SignerKid(u.current)
  OBVIOUS
<1>2. PICK key : key = AuthenticationKey(Resolve("bob", kid.did), kid)
  OBVIOUS
<1>3. \/ v = [u EXCEPT !.status = "refused"]
      \/ /\ kid # NoKid /\ VerifyJws(u.current, key)
         /\ v = [u EXCEPT !.current = @.payload, !.layers = Append(@, "signed"),
                  !.meta.signFrom = kid]
  BY <1>1, <1>2 DEF OpenJws
<1>4. CASE v = [u EXCEPT !.status = "refused"]
  BY <1>4 DEF IsUnpack, JwsOpened
<1>5. CASE v # [u EXCEPT !.status = "refused"]
  <2>1. kid = signer /\ u.current.payload = g.payload
    BY <1>1, <1>3, <1>5, VerifiesAsSigned
  <2>2. v = [u EXCEPT !.current = @.payload, !.layers = Append(@, "signed"),
                      !.meta.signFrom = kid]
    BY <1>3, <1>5
  <2>3. IsUnpack(v) /\ v.status = u.status /\ v.current = u.current.payload
    BY <2>2 DEF IsUnpack
  <2>4. v.meta = [u.meta EXCEPT !.signFrom = kid]
    BY <2>2 DEF IsUnpack
  <2>5. IsMeta(v.meta)
    BY <2>4 DEF IsMeta
  <2> QED BY <2>1, <2>3, <2>4, <2>5 DEF SignedOf, JwsOpened
<1> QED BY <1>4, <1>5

(* bob resolves the prior DID to the one document of a did:key, or to      *)
(* nothing.                                                                *)
LEMMA PriorResolves ==
    ASSUME Versions
    PROVE  Resolve("bob", Prior) = ResolveKey(Prior)
<1>1. "bob" \in Parties
  BY DEF Parties
<1>2. Prior \in Dids /\ Prior.m = "key"
  <2>1. Prior \in Dids
    BY DEF Dids
  <2>2. Prior.m = "key"
    BY EnvelopeAssumption
  <2> QED BY <2>1, <2>2
<1>3. PICK n \in 1 .. MaxVersion : Resolve("bob", Prior) = DocumentOf[Prior][n]
  BY <1>1, <1>2 DEF Resolve, Versions
<1>4. DocumentOf[Prior][n] = ResolveKey(Prior)
  BY <1>2, <1>3 DEF DocumentOf
<1> QED BY <1>3, <1>4

(* A message is refused, or accepted as it is; a rotation is reported only *)
(* if a key of the prior DID states it.                                    *)
LEMMA AcceptAccepts ==
    ASSUME Versions, NEW u, IsUnpack(u), IsMeta(u.meta), InnerMessage(u), sent.how # "no",
           WhatIsSent, NEW v, v = Accept("bob", u)
    PROVE  /\ IsUnpack(v) /\ IsMeta(v.meta)
           /\ \/ v.status = "refused"
              \/ v.status = "accepted" /\ InnerMessage(v) /\ RotationStated(v)
<1>1. PICK token : token = u.current.prior
  OBVIOUS
<1>2. \/ v = [u EXCEPT !.status = "refused"]
      \/ /\ RotationValid("bob", u.current)
         /\ v = [u EXCEPT !.status = "accepted", !.meta.prior = token.claims,
                  !.meta.priorKid = IF token = NoToken THEN NoKid ELSE token.header.kid]
  BY <1>1 DEF Accept
<1>3. CASE v = [u EXCEPT !.status = "refused"]
  BY <1>3 DEF IsUnpack
<1>4. CASE v # [u EXCEPT !.status = "refused"]
  <2>1. v.meta = [u.meta EXCEPT !.prior = token.claims,
                     !.priorKid = IF token = NoToken THEN NoKid ELSE token.header.kid]
    BY <1>2, <1>4 DEF IsUnpack
  <2>2. IsUnpack(v) /\ v.status = "accepted" /\ v.current = u.current
    BY <1>2, <1>4 DEF IsUnpack
  <2>3. /\ IsMeta(v.meta) /\ v.meta.prior = token.claims
        /\ v.meta.priorKid = IF token = NoToken THEN NoKid ELSE token.header.kid
        /\ v.meta.authenticated = u.meta.authenticated
        /\ v.meta.encryptedFrom = u.meta.encryptedFrom
        /\ v.meta.toKids = u.meta.toKids
        /\ v.meta.decryptedBy = u.meta.decryptedBy
        /\ v.meta.signFrom = u.meta.signFrom
    BY <2>1 DEF IsMeta
  <2>4. InnerMessage(v)
    BY <2>2, <2>3 DEF InnerMessage, DecryptedAsSent
  <2>5. ASSUME token.claims # NoToken.claims
        PROVE  /\ token.claims = sent.request.claims
               /\ token.claims.sub = u.current.from
               /\ In(token.header.kid, ResolveKey(Prior).authentication)
    <3>1. token # NoToken /\ token.claims = sent.request.claims
      BY <1>1, <2>5 DEF InnerMessage, PlainOf
    <3>2. token.claims.iss = Prior
      BY <2>5, <3>1 DEF WhatIsSent
    <3>3. FromPriorValid("bob", token) /\ token.claims.sub = u.current.from
      BY <1>1, <1>2, <1>4, <3>1 DEF RotationValid
    <3>4. AuthenticationKey(ResolveKey(Prior), token.header.kid) # NoKey
      BY <3>2, <3>3, PriorResolves DEF FromPriorValid
    <3> QED BY <3>1, <3>3, <3>4 DEF AuthenticationKey
  <2>6. RotationStated(v)
    BY <2>2, <2>3, <2>5 DEF RotationStated
  <2> QED BY <2>2, <2>3, <2>4, <2>6
<1> QED BY <1>3, <1>4

(***************************************************************************)
(* The invariant holds                                                     *)
(***************************************************************************)
LEMMA InitIInv == ASSUME Init PROVE IInv
<1>1. IsUnpack(unpack) /\ unpack.meta = NoMeta /\ unpack.status = "waiting"
  BY DEF Init, IsUnpack
<1>2. Shape
  BY <1>1 DEF Shape, IsMeta, NoMeta
<1>3. Versions
  BY EnvelopeAssumption DEF Init, Versions
<1>4. NothingYet /\ WhatIsSent /\ WireInv
  BY <1>1 DEF Init, NothingYet, WhatIsSent, WireInv
<1> QED BY <1>1, <1>2, <1>3, <1>4 DEF IInv, UnpackInv

(* Packing: the envelope on the wire is one of the request.                *)
LEMMA PackStep ==
    ASSUME IInv, sent.how = "no", NEW how, how # "no", NEW r \in Requests, NEW packed,
           IsPacked(packed),
           packed.message # NoEnvelope => EnvelopeOf(packed.message, r, packed),
           Pack(how, r, packed)
    PROVE  IInv'
<1>1. unpack.status = "waiting"
  BY DEF IInv, NothingYet
<1>2. sent'.how = how /\ sent'.request = r /\ sent'.packed = [packed EXCEPT !.message = NoText]
  BY DEF Pack
<1>3. /\ sent'.packed.fromKid = packed.fromKid /\ sent'.packed.signKid = packed.signKid
      /\ sent'.packed.toKids = packed.toKids
  BY <1>2 DEF IsPacked
<1>4. WireInv'
  BY <1>2, <1>3 DEF WireInv, OnTheWay, EnvelopeOf, Pack
<1>5. WhatIsSent'
  <2>1. r.claims = NoToken.claims \/ r.claims.iss = Prior
    BY DEF Requests
  <2> QED BY <1>2, <2>1 DEF WhatIsSent
<1>6. Shape' /\ Versions' /\ NothingYet'
  BY <1>2 DEF IInv, Pack, Shape, Versions, NothingYet
<1>7. UnpackInv'
  BY <1>1 DEF IInv, UnpackInv, Pack
<1> QED BY <1>4, <1>5, <1>6, <1>7 DEF IInv

(* The wire changes an envelope once, so the one that was packed.          *)
LEMMA AlterStep == ASSUME IInv, Alter PROVE IInv'
<1>1. EnvelopeOf(wire, sent.request, sent.packed) /\ wire' \in OneFieldChanged(wire)
  BY DEF IInv, WireInv, Alter
<1>2. WireInv'
  BY <1>1 DEF WireInv, OnTheWay, Alter
<1>3. unpack' = unpack /\ unpack.status = "waiting"
  BY DEF Alter
<1>4. sent' = sent /\ sent.how # "no" /\ version' = version /\ view' = view
  BY DEF IInv, Alter, NothingYet
<1>5. Shape' /\ Versions' /\ NothingYet' /\ WhatIsSent'
  BY <1>3, <1>4 DEF IInv, Shape, Versions, NothingYet, WhatIsSent
<1>6. UnpackInv'
  BY <1>3 DEF IInv, UnpackInv
<1> QED BY <1>2, <1>5, <1>6 DEF IInv

LEMMA ArriveStep == ASSUME IInv, Arrive PROVE IInv'
<1>1. unpack' = [unpack EXCEPT !.status = "open", !.current = wire]
  BY DEF Arrive
<1>2. IsUnpack(unpack)
  BY DEF IInv, Shape
<1>3. /\ IsUnpack(unpack') /\ unpack'.status = "open" /\ unpack'.current = wire
      /\ unpack'.meta = unpack.meta
  BY <1>1, <1>2 DEF IsUnpack
<1>4. unpack.meta = NoMeta
  BY DEF IInv, UnpackInv, Arrive
<1>5. sent' = sent /\ sent.how # "no" /\ version' = version /\ view' = view /\ wire' = NoEnvelope
  BY DEF IInv, Arrive, NothingYet
<1>6. Shape'
  BY <1>3 DEF IInv, Shape
<1>7. Versions' /\ NothingYet' /\ WhatIsSent' /\ WireInv'
  BY <1>5 DEF IInv, Versions, NothingYet, WhatIsSent, WireInv
<1>8. AsItCame(unpack')
  BY <1>3, <1>4 DEF IInv, WireInv, OnTheWay, AsItCame, Arrive
<1>9. AsItCame(unpack)'
  BY <1>5, <1>8 DEF AsItCame, OnTheWay
<1> QED BY <1>3, <1>6, <1>7, <1>9 DEF IInv, UnpackInv

(* Which kind of envelope each layer is.                                   *)
LEMMA SignedIsJws ==
    ASSUME NEW g, NEW r, NEW signer, SignedOf(g, r, signer)
    PROVE  g.kind = "jws"
BY DEF SignedOf

LEMMA ChangedJws ==
    ASSUME NEW g, NEW r, NEW signer, SignedOf(g, r, signer), NEW e \in OneFieldChanged(g)
    PROVE  e.kind = "jws"
<1>1. g = [kind |-> "jws", payload |-> g.payload, signatures |-> g.signatures]
  BY DEF SignedOf
<1>2. CASE e = [g EXCEPT !.payload.body = 2]
  BY <1>1, <1>2
<1>3. CASE \E ss : e = [g EXCEPT !.signatures = ss]
  BY <1>1, <1>3
<1> QED BY <1>1, <1>2, <1>3 DEF OneFieldChanged

Outermost(u, g) ==
    /\ EnvelopeOf(g, sent.request, sent.packed)
    /\ u.current = g \/ u.current \in OneFieldChanged(g)
    /\ \/ /\ u.current.kind = "jws"
          /\ sent.packed.fromKid = NoKid /\ sent.packed.toKids = {}
          /\ SignedOf(g, sent.request, sent.packed.signKid)
       \/ u.current.kind = "jwe" /\ IsJwe(g)

LEMMA LayerKinds ==
    ASSUME NEW u
    PROVE  /\ InnerAuthcrypt(u) => u.current.kind = "jwe"
           /\ InnerSigned(u) => u.current.kind = "jws"
           /\ InnerMessage(u) => u.current.kind = "plain"
           /\ AsItCame(u) => \E g : Outermost(u, g)
<1>1. InnerAuthcrypt(u) => u.current.kind = "jwe"
  BY DEF InnerAuthcrypt, Sealed, IsJwe
<1>2. InnerSigned(u) => u.current.kind = "jws"
  BY DEF InnerSigned, SignedOf
<1>3. InnerMessage(u) => u.current.kind = "plain"
  BY DEF InnerMessage, PlainOf
<1>4. ASSUME AsItCame(u)
      PROVE  \E g : Outermost(u, g)
  <2>1. PICK g : /\ EnvelopeOf(g, sent.request, sent.packed)
                 /\ u.current = g \/ u.current \in OneFieldChanged(g)
    BY <1>4 DEF AsItCame, OnTheWay
  <2>2. CASE IsJwe(g)
    <3>1. u.current.kind = "jwe"
      BY <2>1, <2>2, ChangedJwe DEF IsJwe
    <3> QED BY <2>1, <2>2, <3>1 DEF Outermost
  <2>3. CASE ~IsJwe(g)
    <3>1. /\ sent.packed.fromKid = NoKid /\ sent.packed.toKids = {}
          /\ SignedOf(g, sent.request, sent.packed.signKid)
      BY <2>1, <2>3 DEF EnvelopeOf, Sealed
    <3>2. u.current.kind = "jws"
      <4>1. g.kind = "jws"
        BY <3>1 DEF SignedOf
      <4> QED BY <2>1, <3>1, <4>1, ChangedJws
    <3> QED BY <2>1, <3>1, <3>2 DEF Outermost
  <2> QED BY <2>2, <2>3
<1> QED BY <1>1, <1>2, <1>3, <1>4

(* A layer is opened into the next, from the outside to the message.       *)
InnerLayer(v) == InnerAuthcrypt(v) \/ InnerSigned(v) \/ InnerMessage(v)

LEMMA ContentOpens ==
    ASSUME NEW u, NEW v, NEW g, IsUnpack(u), u.status = "open",
           u.meta.encryptedFrom = NoKid, u.meta.authenticated = FALSE, u.meta.signFrom = NoKid,
           ContentOf(g.ct.text, sent.request, sent.packed.signKid),
           JweOpened(u, v, g, sent.packed.fromKid, sent.packed.toKids)
    PROVE  /\ IsUnpack(v) /\ IsMeta(v.meta)
           /\ v.status = "refused" \/ (v.status = "open" /\ InnerLayer(v))
<1>1. IsUnpack(v) /\ IsMeta(v.meta)
  BY DEF JweOpened
<1>2. CASE v.status # "refused"
  <2>1. v.current = g.ct.text /\ v.status = "open" /\ v.meta.signFrom = NoKid
    BY <1>2 DEF JweOpened
  <2>2. DecryptedAsSent(v.meta)
    BY <1>2 DEF JweOpened, DecryptedAsSent
  <2>3. InnerSigned(v) \/ InnerMessage(v)
    BY <2>1, <2>2 DEF ContentOf, InnerSigned, InnerMessage
  <2> QED BY <1>1, <2>1, <2>3 DEF InnerLayer
<1> QED BY <1>1, <1>2

LEMMA JweLayer ==
    ASSUME IInv, unpack.status = "open", unpack.current.kind = "jwe",
           NEW v, v = OpenJwe("bob", unpack)
    PROVE  /\ IsUnpack(v) /\ IsMeta(v.meta)
           /\ v.status = "refused" \/ (v.status = "open" /\ InnerLayer(v))
<1> DEFINE from == sent.packed.fromKid
           to == sent.packed.toKids
           signer == sent.packed.signKid
<1>0. PICK u : u = unpack
  OBVIOUS
<1>1. /\ IsUnpack(u) /\ IsMeta(u.meta) /\ u.status = "open" /\ u.current.kind = "jwe"
      /\ v = OpenJwe("bob", u)
  BY <1>0 DEF IInv, Shape
<1>2. AsItCame(u) \/ InnerAuthcrypt(u)
  <2>1. AsItCame(u) \/ InnerAuthcrypt(u) \/ InnerSigned(u) \/ InnerMessage(u)
    BY <1>0 DEF IInv, UnpackInv
  <2> QED BY <1>1, <2>1, LayerKinds
<1>4. CASE InnerAuthcrypt(u)
  <2>1. Sealed(u.current, from, to)
    BY <1>4 DEF InnerAuthcrypt
  <2>2. JweOpened(u, v, u.current, from, to)
    BY <1>1, <2>1, OpenJweOpens
  <2> QED BY <1>1, <1>4, <2>2, ContentOpens DEF InnerAuthcrypt
<1>5. CASE AsItCame(u)
  <2>1. PICK g : /\ EnvelopeOf(g, sent.request, sent.packed)
                 /\ u.current = g \/ u.current \in OneFieldChanged(g)
                 /\ IsJwe(g)
    BY <1>1, <1>5, LayerKinds DEF Outermost
  <2>2. u.meta.encryptedFrom = NoKid /\ u.meta.authenticated = FALSE /\ u.meta.signFrom = NoKid
    BY <1>5 DEF AsItCame, NoMeta
  <2>3. ~SignedOf(g, sent.request, signer)
    <3>1. g.kind = "jwe"
      BY <2>1 DEF IsJwe
    <3> QED BY <3>1, SignedIsJws
  <2>4. CASE Sealed(g, from, to) /\ ContentOf(g.ct.text, sent.request, signer)
    <3>1. JweOpened(u, v, g, from, to)
      BY <1>1, <2>1, <2>4, OpenJweOpens
    <3> QED BY <1>1, <2>2, <2>4, <3>1, ContentOpens
  <2>5. CASE /\ from # NoKid
             /\ Sealed(g, NoKid, to) /\ Sealed(g.ct.text, from, to)
             /\ ContentOf(g.ct.text.ct.text, sent.request, signer)
    <3>1. JweOpened(u, v, g, NoKid, to)
      BY <1>1, <2>1, <2>5, OpenJweOpens
    <3>2. CASE v.status # "refused"
      <4>1. /\ v.status = "open" /\ v.current = g.ct.text
            /\ v.meta.authenticated = FALSE /\ v.meta.encryptedFrom = NoKid
            /\ v.meta.signFrom = NoKid
        BY <1>1, <2>2, <3>1, <3>2 DEF JweOpened
      <4>2. InnerAuthcrypt(v)
        BY <2>5, <4>1 DEF InnerAuthcrypt
      <4> QED BY <3>1, <4>1, <4>2 DEF JweOpened, InnerLayer
    <3> QED BY <3>1, <3>2 DEF JweOpened
  <2> QED BY <2>1, <2>3, <2>4, <2>5 DEF EnvelopeOf
<1> QED BY <1>2, <1>4, <1>5

LEMMA JwsLayer ==
    ASSUME IInv, unpack.status = "open", unpack.current.kind = "jws",
           NEW v, v = OpenJws("bob", unpack)
    PROVE  /\ IsUnpack(v) /\ IsMeta(v.meta)
           /\ v.status = "refused" \/ (v.status = "open" /\ InnerLayer(v))
<1> DEFINE signer == sent.packed.signKid
<1>0. PICK u : u = unpack
  OBVIOUS
<1>1. /\ IsUnpack(u) /\ IsMeta(u.meta) /\ u.status = "open" /\ u.current.kind = "jws"
      /\ v = OpenJws("bob", u)
  BY <1>0 DEF IInv, Shape
<1>2. AsItCame(u) \/ InnerSigned(u)
  <2>1. AsItCame(u) \/ InnerAuthcrypt(u) \/ InnerSigned(u) \/ InnerMessage(u)
    BY <1>0 DEF IInv, UnpackInv
  <2> QED BY <1>1, <2>1, LayerKinds
<1>3. PICK g : /\ SignedOf(g, sent.request, signer)
               /\ u.current = g \/ u.current \in OneFieldChanged(g)
               /\ DecryptedAsSent(u.meta)
  <2>1. CASE InnerSigned(u)
    BY <2>1 DEF InnerSigned
  <2>2. CASE AsItCame(u)
    <3>1. PICK g : /\ SignedOf(g, sent.request, signer)
                   /\ u.current = g \/ u.current \in OneFieldChanged(g)
                   /\ sent.packed.fromKid = NoKid /\ sent.packed.toKids = {}
      BY <1>1, <2>2, LayerKinds DEF Outermost
    <3>2. u.meta.encryptedFrom = NoKid /\ u.meta.authenticated = FALSE /\ u.meta.toKids = {}
      BY <2>2 DEF AsItCame, NoMeta
    <3>3. DecryptedAsSent(u.meta)
      BY <3>1, <3>2 DEF DecryptedAsSent
    <3> QED BY <3>1, <3>3
  <2> QED BY <1>2, <2>1, <2>2
<1>5. JwsOpened(u, v, sent.request, signer)
  BY <1>1, <1>3, OpenJwsOpens
<1>6. CASE v.status # "refused"
  <2>0. v.status = "open" /\ PlainOf(v.current, sent.request)
    BY <1>1, <1>5, <1>6 DEF JwsOpened
  <2>1. PICK m : m = u.meta /\ IsMeta(m) /\ v.meta = [m EXCEPT !.signFrom = signer]
    BY <1>1, <1>5, <1>6 DEF JwsOpened
  <2>2. /\ v.meta.encryptedFrom = m.encryptedFrom /\ v.meta.authenticated = m.authenticated
        /\ v.meta.toKids = m.toKids /\ v.meta.decryptedBy = m.decryptedBy
        /\ v.meta.signFrom = signer
    BY <2>1 DEF IsMeta
  <2>3. DecryptedAsSent(v.meta)
    BY <1>3, <2>1, <2>2 DEF DecryptedAsSent
  <2>4. InnerMessage(v)
    BY <2>0, <2>2, <2>3 DEF InnerMessage
  <2> QED BY <1>5, <2>0, <2>4 DEF JwsOpened, InnerLayer
<1> QED BY <1>5, <1>6 DEF JwsOpened

LEMMA LayerStep ==
    ASSUME IInv, UnpackJwe \/ UnpackJws \/ UnpackMessage PROVE IInv'
<1>1. /\ unpack.status = "open"
      /\ sent' = sent /\ held' = held /\ version' = version /\ view' = view
      /\ wire' = wire /\ altered' = altered
  BY DEF UnpackJwe, UnpackJws, UnpackMessage, Layer
<1>2. sent.how # "no"
  BY <1>1 DEF IInv, NothingYet
<1>3. Versions' /\ NothingYet' /\ WhatIsSent' /\ WireInv'
  BY <1>1, <1>2 DEF IInv, Versions, NothingYet, WhatIsSent, WireInv, OnTheWay
<1>4. PICK v : v = unpack'
  OBVIOUS
<1>5. /\ IsUnpack(v) /\ IsMeta(v.meta)
      /\ \/ v.status = "refused"
         \/ v.status = "open" /\ InnerLayer(v)
         \/ v.status = "accepted" /\ InnerMessage(v) /\ RotationStated(v)
  <2>1. CASE UnpackJwe
    <3>1. v = OpenJwe("bob", unpack) /\ unpack.current.kind = "jwe"
      BY <2>1, <1>4 DEF UnpackJwe, Layer
    <3> QED BY <1>1, <3>1, JweLayer
  <2>2. CASE UnpackJws
    <3>1. v = OpenJws("bob", unpack) /\ unpack.current.kind = "jws"
      BY <2>2, <1>4 DEF UnpackJws, Layer
    <3> QED BY <1>1, <3>1, JwsLayer
  <2>3. CASE UnpackMessage
    <3>1. v = Accept("bob", unpack) /\ unpack.current.kind = "plain"
      BY <2>3, <1>4 DEF UnpackMessage, Layer
    <3>2. AsItCame(unpack) \/ InnerAuthcrypt(unpack) \/ InnerSigned(unpack) \/ InnerMessage(unpack)
      BY <1>1 DEF IInv, UnpackInv
    <3>3. InnerMessage(unpack)
      BY <3>1, <3>2, LayerKinds DEF Outermost
    <3>4. Versions /\ IsUnpack(unpack) /\ IsMeta(unpack.meta) /\ WhatIsSent
      BY DEF IInv, Shape
    <3> QED BY <1>2, <3>1, <3>3, <3>4, AcceptAccepts
  <2> QED BY <2>1, <2>2, <2>3
<1>6. Shape'
  BY <1>4, <1>5 DEF Shape
<1>7. /\ InnerAuthcrypt(v) => InnerAuthcrypt(unpack)'
      /\ InnerSigned(v) => InnerSigned(unpack)'
      /\ InnerMessage(v) => InnerMessage(unpack)'
      /\ RotationStated(v) => RotationStated(unpack)'
  BY <1>1, <1>4 DEF InnerAuthcrypt, InnerSigned, InnerMessage, RotationStated, DecryptedAsSent
<1>8. UnpackInv'
  BY <1>4, <1>5, <1>7 DEF UnpackInv, InnerLayer
<1> QED BY <1>3, <1>6, <1>8 DEF IInv

(* Rotations, fetches and forgotten long forms leave the message alone.    *)
LEMMA DocumentStep ==
    ASSUME IInv, (\E p \in Parties : Rotate(p) \/ Refetch(p)) \/ Forget PROVE IInv'
<1>1. sent' = sent /\ held' = held /\ wire' = wire /\ altered' = altered /\ unpack' = unpack
  BY DEF Rotate, Refetch, Forget
<1>2. Versions'
  <2>0. Versions /\ MaxVersion \in Nat
    BY EnvelopeAssumption DEF IInv
  <2>1. ASSUME NEW p \in Parties, Rotate(p) PROVE Versions'
    BY <2>0, <2>1 DEF Rotate, Versions
  <2>2. ASSUME NEW p \in Parties, Refetch(p) PROVE Versions'
    <3>1. Other(p) \in Parties
      BY DEF Other, Parties
    <3> QED BY <2>0, <2>2, <3>1 DEF Refetch, Versions
  <2>3. ASSUME Forget PROVE Versions'
    BY <2>0, <2>3 DEF Forget, Versions
  <2> QED BY <2>1, <2>2, <2>3
<1>3. Shape' /\ NothingYet' /\ WhatIsSent'
  BY <1>1 DEF IInv, Shape, NothingYet, WhatIsSent
<1>4. WireInv'
  BY <1>1 DEF IInv, WireInv, OnTheWay
<1>5. UnpackInv'
  BY <1>1 DEF IInv, UnpackInv, AsItCame, OnTheWay, InnerAuthcrypt, InnerSigned, InnerMessage,
              RotationStated, DecryptedAsSent
<1> QED BY <1>2, <1>3, <1>4, <1>5 DEF IInv

LEMMA StutterStep == ASSUME IInv, UNCHANGED vars PROVE IInv'
BY DEF vars, IInv, Shape, Versions, NothingYet, WhatIsSent, WireInv, UnpackInv, AsItCame, OnTheWay,
       InnerAuthcrypt, InnerSigned, InnerMessage, RotationStated, DecryptedAsSent

LEMMA NextIInv == ASSUME IInv, [Next]_vars PROVE IInv'
<1>1. CASE Encrypts
  <2>1. PICK r \in Requests : sent.how = "no" /\ Pack("encrypted", r, PackEncrypted("alice", r))
    BY <1>1 DEF Encrypts
  <2>2. PICK packed : packed = PackEncrypted("alice", r)
    OBVIOUS
  <2>3. IsPacked(packed) /\ (packed.message # NoEnvelope => EnvelopeOf(packed.message, r, packed))
    BY <2>2, PackEncryptedPacks
  <2>4. Pack("encrypted", r, packed)
    BY <2>1, <2>2
  <2> QED BY <2>1, <2>3, <2>4, PackStep
<1>2. CASE Signs
  <2>1. PICK r \in Requests :
          sent.how = "no" /\ Pack("signed", r, SignedMessage(PackSigned("alice", r)))
    BY <1>2 DEF Signs
  <2>2. PICK packed : packed = SignedMessage(PackSigned("alice", r))
    OBVIOUS
  <2>3. IsPacked(packed) /\ (packed.message # NoEnvelope => EnvelopeOf(packed.message, r, packed))
    BY <2>2, SignedMessagePacks
  <2>4. Pack("signed", r, packed)
    BY <2>1, <2>2
  <2> QED BY <2>1, <2>3, <2>4, PackStep
<1>3. CASE Alter \/ Arrive
  BY <1>3, AlterStep, ArriveStep
<1>4. CASE UnpackJwe \/ UnpackJws \/ UnpackMessage
  BY <1>4, LayerStep
<1>5. CASE (\E p \in Parties : Rotate(p) \/ Refetch(p)) \/ Forget
  BY <1>5, DocumentStep
<1>6. CASE UNCHANGED vars
  BY <1>6, StutterStep
<1> QED BY <1>1, <1>2, <1>3, <1>4, <1>5, <1>6 DEF Next

(* The invariant of pack.rs and unpack.rs together: what is on the way was *)
(* sent, changed in one field at most, and what is open so far agrees      *)
(* with the request, layer by layer, in every reachable state.             *)
THEOREM Invariance == Spec => []IInv
<1>1. Init => IInv
  BY InitIInv
<1>2. IInv /\ [Next]_vars => IInv'
  BY NextIInv
<1> QED BY <1>1, <1>2, PTL DEF Spec

(* What unpack.rs accepts is the message that pack.rs was given, and the   *)
(* metadata name the keys it was packed with, whichever one field of the   *)
(* envelope was changed on the way and however the documents of the two    *)
(* parties were rotated and fetched meanwhile.                             *)
THEOREM AcceptedAsPacked == Spec => []NothingAlteredOpens
<1>1. IInv => NothingAlteredOpens
  BY DEF IInv, UnpackInv, InnerMessage, DecryptedAsSent, PlainOf, NothingAlteredOpens
<1> QED BY <1>1, Invariance, PTL

(* A rotation that unpack reports (from_prior.rs) is the one the sender    *)
(* asked for, to the sender of this message, and signed with an            *)
(* authentication key of the prior DID.                                    *)
THEOREM PriorStatesRotation == Spec => []RotationProved
<1>1. IInv => RotationProved
  BY DEF IInv, UnpackInv, RotationStated, RotationProved
<1> QED BY <1>1, Invariance, PTL

(***************************************************************************)
(* Keys and did:key                                                        *)
(*                                                                         *)
(* A varint has at most three bytes here, so the function that encodes one *)
(* exists: its closed form unfolds the recursion three times.              *)
(***************************************************************************)
(* Reading a JWK gives back the key it was made from (crypto/keys.rs).     *)
THEOREM JwkRoundTrip ==
    \A key \in [curve : Curves, of : Int] : FromJwk(ToJwk(key)) = key
BY DEF FromJwk, ToJwk, Key, Curves, Kty

VarintValues == 0 .. MaxVarint
LastByte(v) == v < 128
Shifted(v) == v \div 128
MoreByte(v) == 128 + (v % 128)
Varint(v, rest) == IF LastByte(v) THEN <<v>> ELSE <<MoreByte(v)>> \o rest
VarintFunction(f) == f = [v \in VarintValues |-> Varint(v, f[Shifted(v)])]

LEMMA LastVarint == ASSUME NEW v, LastByte(v), NEW x, NEW y PROVE Varint(v, x) = Varint(v, y)
BY DEF Varint
LEMMA ValuesAre ==
    /\ \A v : v \in VarintValues <=> (v \in Int /\ 0 <= v /\ v <= MaxVarint)
    /\ MaxVarint \in Int /\ 4610 <= MaxVarint /\ MaxVarint < 128 * (128 * 128)
<1>1. MaxVarint \in Int /\ 4610 <= MaxVarint /\ MaxVarint < 128 * (128 * 128)
  BY SMT DEF MaxVarint
<1>2. MaxVarint \in Int
  BY <1>1
<1> QED BY <1>1, <1>2, SMT DEF VarintValues

LEMMA ShiftedTwice ==
    ASSUME NEW v \in VarintValues
    PROVE  Shifted(v) \in VarintValues /\ LastByte(Shifted(Shifted(v)))
<1>1. v \in Int /\ 0 <= v /\ v <= MaxVarint /\ v < 128 * (128 * 128)
  BY ValuesAre, SMT
<1>2. PICK d : d = v \div 128
  OBVIOUS
<1>3. d \in Int /\ 0 <= d /\ d <= v /\ d < 128 * 128
  BY <1>1, <1>2, SMT
<1>4. d \div 128 < 128
  BY <1>3, SMT
<1>5. d \in VarintValues
  BY <1>1, <1>3, ValuesAre, SMT
<1> QED BY <1>2, <1>4, <1>5 DEF Shifted, LastByte

LEMMA VarintFunctionExists == \E f : VarintFunction(f)
<1> DEFINE F(v) == Varint(v, Varint(Shifted(v), Varint(Shifted(Shifted(v)), <<>>)))
<1>1. ASSUME NEW v \in VarintValues PROVE F(v) = Varint(v, F(Shifted(v)))
  <2>1. Varint(Shifted(Shifted(v)), <<>>)
          = Varint(Shifted(Shifted(v)), Varint(Shifted(Shifted(Shifted(v))), <<>>))
    BY ShiftedTwice, LastVarint
  <2> QED BY <2>1
<1>2. \A v \in VarintValues : Shifted(v) \in VarintValues
  BY ShiftedTwice
<1> HIDE DEF F
<1>3. PICK f : f = [v \in VarintValues |-> F(v)]
  OBVIOUS
<1>4. \A v \in VarintValues : f[v] = F(v)
  BY <1>3
<1>5. \A v \in VarintValues : F(v) = Varint(v, f[Shifted(v)])
  BY <1>1, <1>2, <1>4
<1>6. f = [v \in VarintValues |-> Varint(v, f[Shifted(v)])]
  BY <1>3, <1>5
<1> QED BY <1>6 DEF VarintFunction

LEMMA VarintUnfolded ==
    ASSUME NEW v \in VarintValues
    PROVE  EncodeVarint[v] = Varint(v, EncodeVarint[Shifted(v)])
<1>1. EncodeVarint = CHOOSE f : VarintFunction(f)
  BY DEF EncodeVarint, VarintFunction, VarintValues, Varint, LastByte, MoreByte, Shifted
<1>2. VarintFunction(EncodeVarint)
  BY <1>1, VarintFunctionExists
<1> QED BY <1>2 DEF VarintFunction

LEMMA Pair ==
    ASSUME NEW a \in Int, NEW b \in Int PROVE <<a>> \o <<b>> = <<a, b>>
<1>1. <<a>> \in Seq(Int) /\ <<b>> \in Seq(Int) /\ <<a, b>> \in Seq(Int)
  OBVIOUS
<1>2. PICK s : s = <<a>> \o <<b>>
  OBVIOUS
<1>3. s \in Seq(Int) /\ Len(s) = 2 /\ s[1] = a /\ s[2] = b
  BY <1>1, <1>2, ConcatProperties
<1>4. \A i \in 1 .. Len(s) : s[i] = <<a, b>>[i]
  BY <1>3
<1> QED BY <1>1, <1>2, <1>3, <1>4, SeqEqual

LEMMA Triple ==
    ASSUME NEW a \in Int, NEW b \in Int, NEW c \in Int PROVE <<a, b>> \o <<c>> = <<a, b, c>>
<1>1. <<a, b>> \in Seq(Int) /\ <<c>> \in Seq(Int) /\ <<a, b, c>> \in Seq(Int)
  OBVIOUS
<1>2. PICK s : s = <<a, b>> \o <<c>>
  OBVIOUS
<1>3. s \in Seq(Int) /\ Len(s) = 3 /\ s[1] = a /\ s[2] = b /\ s[3] = c
  BY <1>1, <1>2, ConcatProperties
<1>4. \A i \in 1 .. Len(s) : s[i] = <<a, b, c>>[i]
  BY <1>3
<1> QED BY <1>1, <1>2, <1>3, <1>4, SeqEqual

LEMMA TwoBytes ==
    ASSUME NEW v \in VarintValues, ~LastByte(v), LastByte(Shifted(v))
    PROVE  EncodeVarint[v] = <<MoreByte(v), Shifted(v)>>
<1>1. Shifted(v) \in VarintValues
  BY ShiftedTwice
<1>2. EncodeVarint[Shifted(v)] = <<Shifted(v)>>
  BY <1>1, VarintUnfolded DEF Varint
<1>3. EncodeVarint[v] = <<MoreByte(v)>> \o <<Shifted(v)>>
  BY <1>2, VarintUnfolded DEF Varint
<1>4. MoreByte(v) \in Int /\ Shifted(v) \in Int
  BY DEF VarintValues, MoreByte, Shifted
<1> QED BY <1>3, <1>4, Pair

LEMMA TwoByteLength ==
    ASSUME NEW a \in Int, a >= 128, NEW b \in 0 .. 127, NEW k
    PROVE  VarintLength(<<a, b, k>>) = 2
<1>0. PICK bytes : bytes = <<a, b, k>>
  OBVIOUS
<1>1. Len(bytes) = 3 /\ bytes[1] = a /\ bytes[2] = b
  BY <1>0
<1>2. PICK e : e = {i \in 1 .. Len(bytes) : i <= 9 /\ bytes[i] < 128}
  OBVIOUS
<1>3. VarintLength(bytes) = IF e = {} THEN 0 ELSE CHOOSE i \in e : \A j \in e : i <= j
  BY <1>2 DEF VarintLength
<1>4. 2 \in e /\ 1 \notin e /\ e \subseteq 1 .. 3
  BY <1>1, <1>2
<1>a. \A j \in e : 2 <= j
  BY <1>4
<1>b. \A i \in e : (\A j \in e : i <= j) => i = 2
  BY <1>4
<1>5. (CHOOSE i \in e : \A j \in e : i <= j) = 2
  BY <1>4, <1>a, <1>b
<1>6. e # {}
  BY <1>4
<1> QED BY <1>0, <1>3, <1>5, <1>6

PlaceValue(i) == 128^(i - 1)
WithByte(x, byte, i) == x + ((byte % 128) * PlaceValue(i))
ByteSums(f, bytes) == f = [i \in 0 .. 2 |-> IF i = 0 THEN 0 ELSE WithByte(f[i - 1], bytes[i], i)]

LEMMA TwoByteValue ==
    ASSUME NEW a \in 128 .. 255, NEW b \in 0 .. 127, NEW k
    PROVE  DecodeVarint(<<a, b, k>>) = (a - 128) + (128 * b)
<1>0. PICK bytes : bytes = <<a, b, k>>
  OBVIOUS
<1>1. VarintLength(bytes) = 2 /\ bytes[1] = a /\ bytes[2] = b
  <2>1. a \in Int /\ a >= 128
    OBVIOUS
  <2> QED BY <1>0, <2>1, TwoByteLength
<1>2. DecodeVarint(bytes) = (CHOOSE f : ByteSums(f, bytes))[2]
  BY <1>1 DEF DecodeVarint, ByteSums, WithByte, PlaceValue
<1>3. \E f : ByteSums(f, bytes)
  <2>1. PICK x : x = WithByte(0, bytes[1], 1)
    OBVIOUS
  <2>2. PICK y : y = WithByte(x, bytes[2], 2)
    OBVIOUS
  <2>3. PICK f : f = [i \in 0 .. 2 |-> IF i = 0 THEN 0 ELSE IF i = 1 THEN x ELSE y]
    OBVIOUS
  <2>4. \A i \in 0 .. 2 : f[i] = IF i = 0 THEN 0 ELSE WithByte(f[i - 1], bytes[i], i)
    BY <2>1, <2>2, <2>3
  <2>5. f = [i \in 0 .. 2 |-> IF i = 0 THEN 0 ELSE WithByte(f[i - 1], bytes[i], i)]
    BY <2>3, <2>4
  <2> QED BY <2>5 DEF ByteSums
<1>4. PICK f : f = (CHOOSE g : ByteSums(g, bytes)) /\ ByteSums(f, bytes)
  BY <1>3
<1>5. f[0] = 0 /\ f[1] = WithByte(f[0], a, 1) /\ f[2] = WithByte(f[1], b, 2)
  BY <1>1, <1>4 DEF ByteSums
<1>6. a % 128 = a - 128 /\ b % 128 = b
  OBVIOUS
<1>7. PlaceValue(1) = 1 /\ PlaceValue(2) = 128
  BY DEF PlaceValue
<1>8. f[1] = a - 128
  <2>1. f[1] = 0 + ((a - 128) * 1)
    BY <1>5, <1>6, <1>7, Zenon DEF WithByte
  <2> QED BY <2>1
<1>9. f[2] = (a - 128) + (128 * b)
  <2>1. f[2] = (a - 128) + (b * 128)
    BY <1>5, <1>6, <1>7, <1>8, Zenon DEF WithByte
  <2> QED BY <2>1
<1> QED BY <1>0, <1>2, <1>4, <1>9

LEMMA CodecValues ==
    /\ Codec["Ed25519"] = 237 /\ Codec["X25519"] = 236 /\ Codec["P256"] = 4608
    /\ Codec["P384"] = 4609 /\ Codec["P521"] = 4610 /\ Codec["Secp256k1"] = 231
BY DEF Codec, Curves

(* Decoding a multikey gives back the key it was made from: the multicodec *)
(* prefixes of the curves differ and are two bytes as varints.             *)
THEOREM MultikeyRoundTrip ==
    ASSUME NEW curve \in Curves, NEW n \in Int
    PROVE  DecodeKey(EncodeKey(Key(curve, n))) = Key(curve, n)
<1>1. PICK v : v = Codec[curve]
  OBVIOUS
<1>2. v \in Int /\ 231 <= v /\ v <= 4610
  BY <1>1, CodecValues, SMT DEF Curves
<1>2a. \A c \in Curves : Codec[c] = v => c = curve
  BY <1>1, CodecValues, SMT DEF Curves
<1>3. PICK a, b : a = MoreByte(v) /\ b = Shifted(v)
  OBVIOUS
<1>4. /\ v \in VarintValues /\ a \in 128 .. 255 /\ b \in 1 .. 36
      /\ v = (a - 128) + (128 * b)
  <2>1. v \in VarintValues
    BY <1>2, ValuesAre
  <2>2. v % 128 \in 0 .. 127 /\ v = (v % 128) + (128 * (v \div 128))
    BY <1>2
  <2>3. v \div 128 \in 1 .. 36
    BY <1>2
  <2>4. PICK x, y : x = v % 128 /\ y = v \div 128
    OBVIOUS
  <2>5. a = 128 + x /\ b = y
    BY <1>3, <2>4 DEF MoreByte, Shifted
  <2>6. x \in 0 .. 127 /\ y \in 1 .. 36 /\ v = x + (128 * y)
    BY <2>2, <2>3, <2>4
  <2>7. v = (a - 128) + (128 * b) /\ a \in 128 .. 255
    BY <2>5, <2>6
  <2> QED BY <2>1, <2>5, <2>6, <2>7
<1>5. ~LastByte(v) /\ LastByte(Shifted(v))
  BY <1>2, <1>3, <1>4 DEF LastByte
<1>6. EncodeVarint[v] = <<a, b>>
  BY <1>3, <1>4, <1>5, TwoBytes
<1>7. EncodeKey(Key(curve, n)) = <<a, b, n>>
  <2>1. Key(curve, n).curve = curve /\ Key(curve, n).of = n
    BY DEF Key
  <2>2. EncodeKey(Key(curve, n)) = <<a, b>> \o <<n>>
    BY <1>1, <1>6, <2>1 DEF EncodeKey
  <2>3. a \in Int /\ b \in Int
    BY <1>4
  <2> QED BY <2>2, <2>3, Triple
<1>8. PICK bytes : bytes = <<a, b, n>>
  OBVIOUS
<1>9. VarintLength(bytes) = 2 /\ DecodeVarint(bytes) = v
  <2>1. a \in Int /\ a >= 128 /\ b \in 0 .. 127
    BY <1>4
  <2>2. VarintLength(bytes) = 2
    BY <1>8, <2>1, TwoByteLength
  <2>3. DecodeVarint(bytes) = (a - 128) + (128 * b)
    BY <1>4, <1>8, <2>1, TwoByteValue
  <2> QED BY <1>4, <2>2, <2>3
<1>10. PICK rest : rest = SubSeq(bytes, 3, Len(bytes))
  OBVIOUS
<1>11. Len(rest) = 1 /\ rest[1] = n
  BY <1>8, <1>10, SubSeqProperties
<1>12. {c \in Curves : Codec[c] = v} = {curve}
  BY <1>1, <1>2a
<1>13. DecodeKey(bytes) = Key(curve, n)
  BY <1>9, <1>10, <1>11, <1>12 DEF DecodeKey
<1> QED BY <1>7, <1>8, <1>13

(* The document of a did:key lists the key in the DID under its own id,    *)
(* for what its curve can do, and for Ed25519 also the X25519 key made     *)
(* from it, under another id (did/key.rs).                                 *)
THEOREM DidKeyResolves ==
    ASSUME NEW curve \in Curves, NEW n \in Int
    PROVE  LET key == Key(curve, n)
               did == DidKey(key)
               doc == ResolveKey(did)
               main == Kid(did, EncodeKey(key))
               derived == Key("X25519", n)
               extra == Kid(did, EncodeKey(derived))
           IN /\ doc.id = did
              /\ SignatureAlg(curve) # NoAlg => AuthenticationKey(doc, main) = key
              /\ IsKeyAgreement(curve) => KeyAgreementKey(doc, main) = key
              /\ curve = "Ed25519" => KeyAgreementKey(doc, extra) = derived
<1>1. PICK key : key = Key(curve, n)
  OBVIOUS
<1>2. PICK did : did = DidKey(key)
  OBVIOUS
<1>3. PICK derived : derived = Key("X25519", n)
  OBVIOUS
<1>4. PICK main : main = Kid(did, EncodeKey(key))
  OBVIOUS
<1>5. PICK extra : extra = Kid(did, EncodeKey(derived))
  OBVIOUS
<1>6. PICK doc : doc = ResolveKey(did)
  OBVIOUS
<1>7. DecodeKey(EncodeKey(key)) = key /\ DecodeKey(EncodeKey(derived)) = derived
  BY <1>1, <1>3, MultikeyRoundTrip DEF Curves
<1>8. key # NoKey /\ key.curve = curve /\ key.of = n
  BY <1>1 DEF Key, NoKey, Curves
<1>9. did.bytes = EncodeKey(key)
  BY <1>2 DEF DidKey
<1>10. doc = KeyDocument(did, key)
  BY <1>6, <1>7, <1>9 DEF ResolveKey
<1>11. CASE curve = "Ed25519"
  <2>1. main # extra
    <3>1. key # derived
      BY <1>1, <1>3, <1>11 DEF Key
    <3>2. EncodeKey(key) # EncodeKey(derived)
      BY <1>7, <3>1
    <3> QED BY <1>4, <1>5, <3>2 DEF Kid
  <2>2. doc = Document(did, <<[id |-> main, key |-> key], [id |-> extra, key |-> derived]>>,
                       <<main>>, <<extra>>)
    BY <1>3, <1>4, <1>5, <1>8, <1>9, <1>10, <1>11 DEF KeyDocument
  <2>3. /\ doc.id = did /\ doc.authentication = <<main>> /\ doc.keyAgreement = <<extra>>
        /\ doc.methods = <<[id |-> main, key |-> key], [id |-> extra, key |-> derived]>>
    BY <2>2 DEF Document
  <2>4. {i \in DOMAIN doc.methods : doc.methods[i].id = main} = {1}
    BY <2>1, <2>3
  <2>5. {i \in DOMAIN doc.methods : doc.methods[i].id = extra} = {2}
    BY <2>1, <2>3
  <2>6. Method(doc, main) = key
    BY <2>3, <2>4 DEF Method
  <2>7. Method(doc, extra) = derived
    BY <2>3, <2>5 DEF Method
  <2>8. In(main, doc.authentication) /\ In(extra, doc.keyAgreement)
    BY <2>3 DEF In
  <2>9. ~IsKeyAgreement(curve)
    BY <1>11 DEF IsKeyAgreement
  <2> QED BY <1>1, <1>2, <1>3, <1>4, <1>5, <1>6, <2>3, <2>6, <2>7, <2>8, <2>9
          DEF AuthenticationKey, KeyAgreementKey
<1>12. CASE curve # "Ed25519"
  <2>1. doc = Document(did, <<[id |-> main, key |-> key]>>,
                       IF SignatureAlg(curve) # NoAlg THEN <<main>> ELSE <<>>,
                       IF IsKeyAgreement(curve) THEN <<main>> ELSE <<>>)
    BY <1>4, <1>8, <1>9, <1>10, <1>12 DEF KeyDocument
  <2>2. /\ doc.id = did /\ doc.methods = <<[id |-> main, key |-> key]>>
        /\ SignatureAlg(curve) # NoAlg => doc.authentication = <<main>>
        /\ IsKeyAgreement(curve) => doc.keyAgreement = <<main>>
    BY <2>1 DEF Document
  <2>3. {i \in DOMAIN doc.methods : doc.methods[i].id = main} = {1}
    BY <2>2
  <2>4. Method(doc, main) = key
    BY <2>2, <2>3 DEF Method
  <2>5. In(main, <<main>>)
    BY DEF In
  <2> QED BY <1>1, <1>2, <1>4, <1>6, <1>12, <2>2, <2>4, <2>5
          DEF AuthenticationKey, KeyAgreementKey
<1> QED BY <1>11, <1>12
=============================================================================
