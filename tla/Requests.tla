------------------------------- MODULE Requests -------------------------------
(***************************************************************************)
(* Certificate requests: what a zone suggests for them and what it allows, *)
(* on both platforms, the keys and the signing requests that are made of   *)
(* them, and the certificates that come back.                              *)
(*                                                                         *)
(* A text is a sequence of characters, a host name a sequence of labels;   *)
(* "*" is the wildcard label.  A subject is a function from the fields to  *)
(* lists of texts.                                                         *)
(***************************************************************************)
EXTENDS Integers, Sequences, SequencesExt

Fields == {"org", "ou", "country", "locality", "state"}

Empty == <<>>
Failed == [failed |-> TRUE]
Anything == [form |-> "any"]
Exactly(text) == [form |-> "literal", of |-> text]
Below(domain, wild, strict) ==
  [form |-> "domain", of |-> domain, wild |-> wild, strict |-> strict]

(* An expression that is anchored at both ends.                            *)
Matches(r, s) ==
  CASE r.form = "any" -> TRUE
    [] r.form = "literal" -> s = r.of
    [] OTHER ->
         /\ IsSuffix(r.of, s)
         /\ r.strict => Len(s) > Len(r.of)
         /\ ~r.wild => "*" \notin ToSet(SubSeq(s, 1, Len(s) - Len(r.of)))

(* One that is not.                                                        *)
Occurs(r, s) ==
  \/ \E i \in 1 .. Len(s) + 1, j \in 0 .. Len(s) : Matches(r, SubSeq(s, i, j))

checkStringByRegexp(s, regexs) == \E i \in DOMAIN regexs : Matches(regexs[i], s)

isComponentValid(ss, regexs, optional) ==
  IF ss = Empty THEN optional \/ checkStringByRegexp(Empty, regexs)
  ELSE \A i \in DOMAIN ss : checkStringByRegexp(ss[i], regexs)

-----------------------------------------------------------------------------
(* The data: what a request, a folder and a template say.                  *)
Characters == Seq(STRING)
KeyTypes == {"RSA", "ECDSA", "ED25519"}
Contents ==
  [cn : Characters, dns : Seq(Characters), sans : [{"email", "ip", "uri"} -> Seq(Characters)],
   subject : [Fields -> Seq(Characters)], type : KeyTypes, size : Int, curve : STRING]
NoCsr == [type |-> "none"]
Request ==
  [cn : Characters, dns : Seq(Characters), sans : [{"email", "ip", "uri"} -> Seq(Characters)],
   subject : [Fields -> Seq(Characters)], type : KeyTypes, size : Int, curve : STRING,
   csr : Contents \cup {NoCsr}]

Lockable(values) == [v : values, locked : BOOLEAN]
Folder ==
  [subject : [Fields -> Lockable(Seq(Characters))], algorithm : Lockable(STRING),
   size : Lockable(Int), curve : Lockable(STRING), wildcards : BOOLEAN,
   domains : Seq([name : Characters, dotted : BOOLEAN]),
   sans : [{"dns", "email", "ip", "uri"} -> BOOLEAN]]

(* The service recommends what it allows, and no key of no size.           *)
Recommends(ct) ==
  /\ \A f \in Fields : ct.recommended.subject[f] = Empty
       \/ isComponentValid(ct.recommended.subject[f], ct.subject[f], FALSE)
  /\ \A i \in DOMAIN ct.keys : 0 \notin ToSet(ct.keys[i].sizes)

-----------------------------------------------------------------------------
(* Keys *)
AllSupportedKeySizes == <<1024, 2048, 3072, 4096, 8192>>
AllSupportedCurves == <<"P521", "P256", "P384", "ED25519">>
DefaultCurve == "P256"
NotSet == ""

(* A curve that is not known is the default one.                           *)
CurveOf(name) == IF name \in ToSet(AllSupportedCurves) THEN name ELSE DefaultCurve

KeyTypeOf(algorithm, curve) ==
  CASE algorithm = "RSA" -> "RSA"
    [] algorithm \in {"ECDSA", "EC", "ECC"} ->
         IF CurveOf(curve) = "ED25519" THEN "ED25519" ELSE "ECDSA"
    [] OTHER -> "error"

(* The first configuration that is about the type of the key decides.      *)
checkKey(type, size, curve, allowed) ==
  LET About(k) ==
        \/ k.type = type /\ (type = "ED25519" => curve \in {NotSet, "ED25519"})
        \/ type = "ED25519" /\ k.type = "ECDSA"
      Has(k) == CASE type = "RSA" -> size \in k.sizes
                  [] type = "ECDSA" -> CurveOf(curve) \in k.curves
                  [] OTHER -> k.type = "ED25519" \/ "ED25519" \in k.curves
  IN  \E i \in DOMAIN allowed :
        About(allowed[i]) /\ Has(allowed[i]) /\ \A j \in 1 .. i - 1 : ~About(allowed[j])

-----------------------------------------------------------------------------
(* A request with a signing request is checked by what is in that.         *)
Content(r) == [f \in {"cn", "dns", "sans", "subject", "type", "size", "curve"} |-> r[f]]
Checked(r) == IF r.csr = NoCsr THEN r ELSE r.csr

(* The common name and the DNS names.                                      *)
SimpleValidateCertificateRequest(p, r) ==
  checkStringByRegexp(Checked(r).cn, p.cn) /\ isComponentValid(Checked(r).dns, p.dns, TRUE)

(* An Ed25519 key is never recognised in a signing request.                *)
KeyValid(p, r) ==
  LET key == Checked(r)
  IN  IF r.csr = NoCsr THEN checkKey(r.type, r.size, r.curve, p.keys)
      ELSE key.type # "ED25519" /\ checkKey(key.type, key.size, CurveOf(key.curve), p.keys)

ValidateCertificateRequest(p, r) ==
  LET c == Checked(r)
  IN  /\ SimpleValidateCertificateRequest(p, r)
      /\ r.csr # NoCsr => \A s \in {"email", "ip", "uri"} : isComponentValid(c.sans[s], p.sans[s], TRUE)
      /\ \A f \in Fields : isComponentValid(c.subject[f], p.subject[f], FALSE)
      /\ p.keys # Empty => KeyValid(p, r)

(* Mutant of UpdateCertificateRequest: a size that was asked for is lost.  *)
UpdateCertificateRequestNoSize(z, r) ==
  [r EXCEPT !.subject = [f \in Fields |-> IF @[f] = Empty THEN z.subject[f] ELSE @[f]]]

(* Mutant of UpdateCertificateRequest: the size of the zone replaces the   *)
(* one that was asked for.                                                 *)
UpdateCertificateRequestReplaced(z, r) ==
  [r EXCEPT !.size = IF z.key # Empty /\ z.key.sizes # Empty THEN z.key.sizes[1] ELSE @]

(* What a request leaves open it gets from the zone.  The type of the key  *)
(* is never open: the one that was not given is RSA.                       *)
UpdateCertificateRequest(z, r) ==
  LET First(list, given) == IF list # Empty THEN list[1] ELSE given
      size == CASE r.type # "RSA" \/ r.size # 0 -> r.size
                [] r.type = "RSA" /\ r.size = 0 /\ z.key = Empty -> 2048
                [] OTHER -> First(z.key.sizes, 0)
      curve == IF r.type = "ECDSA" /\ r.curve = NotSet /\ z.key # Empty
               THEN First(z.key.curves, NotSet) ELSE r.curve
  IN  [r EXCEPT !.subject = [f \in Fields |-> IF @[f] = Empty THEN z.subject[f] ELSE @[f]],
                !.size = size, !.curve = curve]

(* Request.GeneratePrivateKey: Failed, or the request.                     *)
GeneratePrivateKey(r) ==
  CASE r.type = "RSA" ->
         LET size == IF r.size = 0 THEN 2048 ELSE r.size
         IN  IF size < AllSupportedKeySizes[1] THEN Failed ELSE [r EXCEPT !.size = size]
    [] r.type = "ECDSA" ->
         IF r.curve = "ED25519" THEN Failed
         ELSE [r EXCEPT !.curve = IF @ = NotSet THEN DefaultCurve ELSE @]
    [] OTHER -> r

-----------------------------------------------------------------------------
(* Trust Protection Platform: what the server says of a folder.  A value   *)
(* is a record of the value and whether it is locked.                      *)
TppZoneConfig(sp) ==
  LET type == KeyTypeOf(sp.algorithm.v, sp.curve.v)
  IN  [custom |-> [management |-> "", manualCsr |-> ""],
       subject |-> [f \in Fields |-> sp.subject[f].v],
       key |-> IF type = "error" THEN Empty
               ELSE [type |-> type, sizes |-> IF sp.size.v = 0 THEN Empty ELSE <<sp.size.v>>,
                     curves |-> IF sp.curve.v = NotSet THEN Empty ELSE <<CurveOf(sp.curve.v)>>]]

domainRegexes(sp, allowAll) ==
  IF sp.domains = Empty THEN (IF allowAll THEN <<Anything>> ELSE Empty)
  ELSE [i \in DOMAIN sp.domains |->
          Below(sp.domains[i].name, sp.wildcards, sp.domains[i].dotted)]

(* The units are a list; another field that is locked and empty has to     *)
(* stay empty.                                                             *)
TppSubjectPolicy(sp) ==
  LET Escaped(f) == IF sp.subject[f].v = Empty /\ f # "ou" THEN <<Exactly(Empty)>>
                    ELSE [i \in DOMAIN sp.subject[f].v |-> Exactly(sp.subject[f].v[i])]
  IN  [f \in Fields |-> IF sp.subject[f].locked THEN Escaped(f) ELSE <<Anything>>]

TppKeyPolicy(sp) ==
  LET sizes == {s \in ToSet(AllSupportedKeySizes) : sp.size.locked => s >= sp.size.v}
      curves == IF sp.curve.locked THEN {CurveOf(sp.curve.v)} ELSE ToSet(AllSupportedCurves)
      type == KeyTypeOf(sp.algorithm.v, sp.curve.v)
      Rsa == [type |-> "RSA", sizes |-> sizes, curves |-> {}]
      Elliptic(t) == [type |-> t, sizes |-> {}, curves |-> curves]
  IN  CASE ~sp.algorithm.locked -> <<Rsa, Elliptic("ECDSA")>>
        [] sp.algorithm.locked /\ type = "RSA" -> <<Rsa>>
        [] OTHER -> <<Elliptic(type)>>

(* An algorithm that is locked to a name that is not known ends the        *)
(* program.                                                                *)
TppPolicyPanics(sp) == sp.algorithm.locked /\ KeyTypeOf(sp.algorithm.v, sp.curve.v) = "error"

TppPolicyOf(sp) ==
  [cn |-> domainRegexes(sp, TRUE), dns |-> domainRegexes(sp, sp.sans["dns"]),
   subject |-> TppSubjectPolicy(sp), keys |-> TppKeyPolicy(sp),
   sans |-> [s \in {"email", "ip", "uri"} |-> IF sp.sans[s] THEN <<Anything>> ELSE Empty]]

(* GenerateRequest of the connector for TPP; origin is where the signing   *)
(* request comes from.  The custom values of a zone are only there when    *)
(* the caller put them there.                                              *)
TppGenerateRequest(zone, r, origin) ==
  LET updated == UpdateCertificateRequest(zone, r)
      withKey == GeneratePrivateKey(updated)
      refused == \/ r.type = "ED25519" \/ zone.custom.management \in {"Monitoring", "Unassigned"}
                 \/ origin # "service" /\ zone.custom.manualCsr = "0"
      made == CASE origin = "local" ->
                     IF withKey = Failed THEN Failed ELSE [withKey EXCEPT !.csr = Content(withKey)]
                [] origin = "file" -> IF r.csr # NoCsr THEN updated ELSE Failed
                [] OTHER -> updated
  IN  IF refused THEN Failed ELSE made

-----------------------------------------------------------------------------
(* The cloud: an issuing template.  Its expressions are anchored for the   *)
(* local checks.                                                           *)
CloudPolicyOf(ct) ==
  [cn |-> ct.cn, dns |-> ct.dns, subject |-> ct.subject, sans |-> ct.sans,
   keys |-> [i \in DOMAIN ct.keys |->
               [type |-> KeyTypeOf(ct.keys[i].type, NotSet), sizes |-> ToSet(ct.keys[i].sizes),
                curves |-> {CurveOf(c) : c \in ToSet(ct.keys[i].curves)}]]]

(* So does a type of key of a template that is not known.                  *)
CloudPolicyPanics(ct) == \E i \in DOMAIN ct.keys : KeyTypeOf(ct.keys[i].type, NotSet) = "error"

(* A recommended key without a size, which is every elliptic one, is       *)
(* dropped.                                                                *)
CloudZoneConfig(ct) ==
  LET key == ct.recommended.key
      type == KeyTypeOf(key.type, key.curve)
  IN  [subject |-> ct.recommended.subject,
       key |-> IF type = "error" \/ key.size = 0 THEN Empty
               ELSE [type |-> type, sizes |-> <<key.size>>, curves |-> Empty]]

CloudGenerateRequest(zone, r, origin) ==
  LET withKey == GeneratePrivateKey(UpdateCertificateRequest(zone, r))
  IN  CASE origin = "local" -> IF withKey = Failed THEN Failed ELSE [withKey EXCEPT !.csr = Content(withKey)]
        [] origin = "file" -> IF r.csr # NoCsr THEN r ELSE Failed
        [] OTHER -> IF r.type = "ED25519" THEN Failed ELSE r

(* Mutant of isValueMatch: every expression has to match.                  *)
isValueMatchAll(ss, regexs) ==
  \A i \in DOMAIN ss, j \in DOMAIN regexs : Occurs(regexs[j], ss[i])

(* The attributes of a key that the service generates are checked against  *)
(* the template itself, whose expressions are not anchored; a list that is *)
(* not there forbids nothing.                                              *)
isValueMatch(ss, regexs) ==
  regexs = Empty \/ \A i \in DOMAIN ss : \E j \in DOMAIN regexs : Occurs(regexs[j], ss[i])

getCsrAttributes(ct, r) ==
  LET valid == /\ r.cn # Empty => isValueMatch(<<r.cn>>, ct.cn)
               /\ \A f \in Fields : isValueMatch(r.subject[f], ct.subject[f])
      key == CASE r.type = "RSA" -> <<"RSA", IF r.size > 0 THEN r.size ELSE 2048>>
               [] r.type = "ECDSA" -> <<"EC", IF r.curve = NotSet THEN DefaultCurve ELSE r.curve>>
               [] OTHER -> Empty
  IN  IF ~valid THEN Failed
      ELSE [cn |-> r.cn, dns |-> r.dns, sans |-> r.sans, key |-> key,
            subject |-> [f \in Fields |-> IF r.subject[f] = Empty THEN ct.recommended.subject[f]
                                          ELSE r.subject[f]]]
=============================================================================
