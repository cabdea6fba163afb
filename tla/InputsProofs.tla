----------------------------- MODULE InputsProofs -----------------------------
(***************************************************************************)
(* Zones, requests, keys, specifications, collections, names and users for *)
(* all data of any number, with texts and lists of any length.             *)
(*                                                                         *)
(* A call is a state, so its invariants need one fact of the states: what  *)
(* stands in a call comes from the platform's and the caller's data.       *)
(***************************************************************************)
EXTENDS Inputs, FiniteSetTheorems, SequenceTheorems, WellFoundedInduction, TLAPS

-----------------------------------------------------------------------------
(* What stands in a call *)

KeyCall(c) ==
  c[1] = "key" => c[2].request \in Request /\ DOMAIN c[2].allowed = 1 .. Len(c[2].allowed)

(* A signing request is read from a file, no other origin brings one.      *)
TppCall(c) ==
  c[1] = "tpp request" =>
    /\ c[2].server \in Folder /\ c[2].request \in Request
    /\ c[2].request.csr # NoCsr => c[2].origin = "file"

CloudCall(c) ==
  c[1] = "cloud request" =>
    /\ Recommends(c[2].template) /\ c[2].request \in Request
    /\ c[2].request.csr # NoCsr => c[2].origin = "file"

(* The environment sets some flags only, and what is typed is a password.  *)
Parts == {"name", "flags", "env", "words", "password", "keyPassword", "jksPassword", "typed", "loaded",
          "generated"}
Command(a) ==
  /\ DOMAIN a = Parts /\ a.name \in DOMAIN FlagsOf /\ a.env \subseteq envVarList
  /\ a.password \in Passwords /\ a.keyPassword \in Passwords
  /\ a.typed \in Passwords /\ a.typed.how = "text"
  /\ a.loaded.type \in {"tpp", "cloud", "firefly", "fake"}
CommandCall(c) == c[1] = "command" => Command(c[2])

(* The sections of a specification as they are read.                       *)
InObjects(s) ==
  /\ (\E f \in Names \cup {"ou"} : f \in DOMAIN s) => "subject" \in DOMAIN s
  /\ (\E f \in {"keyType", "rsa", "curve", "service", "reuse", "pkix"} : f \in DOMAIN s) => "keyPair" \in DOMAIN s

IsSpecification(ps) ==
  /\ DOMAIN ps = {"policy", "default"}
  /\ Written(ps.policy, PolicyLists) /\ Written(ps.default, DefaultLists)
  /\ InObjects(ps.policy) /\ InObjects(ps.default)

LEMMA ReadSection ==
  ASSUME NEW g, NEW lists, Written(g, lists), Objects \subseteq lists
  PROVE  Written(Section(g), lists) /\ InObjects(Section(g))
<1> DEFINE given == {f \in DOMAIN g : g[f] # No}
           objects == (IF given \cap (Names \cup {"ou"}) # {} THEN {"subject"} ELSE {})
             \cup (IF given \cap {"keyType", "rsa", "curve", "service", "reuse", "pkix"} # {}
                   THEN {"keyPair"} ELSE {})
           s == [f \in given \cup objects |-> IF f \in given THEN g[f] ELSE <<>>]
<1>1. Section(g) = s
  BY Zenon DEF Section
<1>2. DOMAIN s = given \cup objects
  OBVIOUS
<1>3. \A f \in given : s[f] = g[f]
  OBVIOUS
<1>4. \A f \in objects \ given : s[f] = <<>> /\ f \in Objects
  BY DEF Objects
<1>5. \A f \in given : g[f] \in Seq(STRING) /\ (f \notin lists => Len(g[f]) = 1)
  BY DEF Written
<1>6. (given \cap (Names \cup {"ou"}) # {} => "subject" \in objects)
      /\ (given \cap {"keyType", "rsa", "curve", "service", "reuse", "pkix"} # {} => "keyPair" \in objects)
  OBVIOUS
<1>7. objects \subseteq {"subject", "keyPair"}
  OBVIOUS
<1> HIDE DEF given, objects, s
<1>8. ASSUME NEW f \in DOMAIN s
      PROVE  s[f] \in Seq(STRING) /\ (f \notin lists => Len(s[f]) = 1)
  <2>1. CASE f \in given
    BY <2>1, <1>3, <1>5, Zenon
  <2>2. CASE f \notin given
    <3>1. f \in objects \ given
      BY <2>2, <1>2
    <3>2. s[f] = <<>> /\ f \in Objects
      BY <3>1, <1>4
    <3>3. <<>> \in Seq(STRING)
      OBVIOUS
    <3> QED BY <3>2, <3>3
  <2> QED BY <2>1, <2>2
<1>9. InObjects(s)
  <2>1. ("subject" \in objects => "subject" \in DOMAIN s) /\ ("keyPair" \in objects => "keyPair" \in DOMAIN s)
    BY <1>2
  <2>2. ASSUME NEW f \in Names \cup {"ou"}, f \in DOMAIN s
        PROVE  "subject" \in DOMAIN s
    BY <1>2, <1>6, <1>7, <2>1, <2>2 DEF Names
  <2>3. ASSUME NEW f \in {"keyType", "rsa", "curve", "service", "reuse", "pkix"}, f \in DOMAIN s
        PROVE  "keyPair" \in DOMAIN s
    BY <1>2, <1>6, <1>7, <2>1, <2>3
  <2> QED BY <2>2, <2>3 DEF InObjects
<1>10. Written(s, lists)
  BY <1>8, Zenon DEF Written
<1> QED
  BY <1>1, <1>9, <1>10

LEMMA ReadSpecification ==
  ASSUME NEW p, NEW d, Written(p, PolicyLists), Written(d, DefaultLists)
  PROVE  IsSpecification(Specification(p, d))
<1>1. Objects \subseteq PolicyLists /\ Objects \subseteq DefaultLists
  BY DEF PolicyLists, DefaultLists
<1>2. /\ DOMAIN Specification(p, d) = {"policy", "default"}
      /\ Specification(p, d).policy = Section(p) /\ Specification(p, d).default = Section(d)
  BY DEF Specification
<1> QED
  BY <1>1, <1>2, ReadSection, Zenon DEF IsSpecification

PolicyCall(c) == c[1] \in {"tpp policy", "cloud policy"} => IsSpecification(c[2])

UserCall(c) == c[1] = "user" => c[2].directory \in Seq(Seq(Nat)) /\ c[2].name \in Seq(Nat) \ {<<>>}

BundleCall(c) ==
  c[1] = "bundle" =>
    c[2].bundle.certs \in Seq(Nat) \ {<<>>} /\ c[2].bundle.keyAfter \in 0 .. Len(c[2].bundle.certs)

SignCall(c) ==
  c[1] = "sign" =>
    /\ c[2].names \in [ToSet(NameTypes) -> Seq(Nat)]
    /\ "san" \in DOMAIN c[2].extra => c[2].extra.san.list \in Seq(ToSet(NameTypes) \X Nat)

SearchCall(c) == c[1] = "search" => c[2].found \in Seq([zone : Nat, dns : Seq(Nat), validTo : Nat])

Sound(c) ==
  /\ CommandCall(c) /\ KeyCall(c) /\ TppCall(c) /\ CloudCall(c)
  /\ PolicyCall(c) /\ UserCall(c) /\ BundleCall(c) /\ SignCall(c) /\ SearchCall(c)

(* A call of an algorithm that none of them is about.                      *)
LEMMA Others ==
  ASSUME NEW algorithm, NEW input,
         algorithm \notin {"command", "key", "tpp request", "cloud request", "tpp policy", "cloud policy",
                          "user", "bundle", "sign", "search"}
  PROVE  Sound(<<algorithm, input>>)
  BY DEF Sound, CommandCall, KeyCall, TppCall, CloudCall, PolicyCall, UserCall, BundleCall, SignCall,
     SearchCall

LEMMA SoundStep ==
  ASSUME Sound(call), Next
  PROVE  Sound(call')
<1> USE DEF Answer
<1>1. CASE TppSetPolicy
  <2>1. PICK g \in DOMAIN TppPolicies : \E p \in TppPolicies[g], d \in TppDefaults[g] :
          call' = <<"tpp policy", Specification(p, d)>>
    BY <1>1 DEF TppSetPolicy
  <2>2. PICK p \in TppPolicies[g], d \in TppDefaults[g] : call' = <<"tpp policy", Specification(p, d)>>
    BY <2>1
  <2>3. Written(p, PolicyLists) /\ Written(d, DefaultLists)
    BY InputsAssumption
  <2>4. IsSpecification(Specification(p, d))
    BY <2>3, ReadSpecification
  <2> QED
    BY <2>2, <2>4 DEF Sound, CommandCall, KeyCall, TppCall, CloudCall, PolicyCall, UserCall, BundleCall, SignCall,
     SearchCall
<1>2. CASE CloudSetPolicy
  <2>1. PICK g \in DOMAIN CloudPolicies : \E p \in CloudPolicies[g], d \in CloudDefaults[g] :
          call' = <<"cloud policy", Specification(p, d)>>
    BY <1>2 DEF CloudSetPolicy
  <2>2. PICK p \in CloudPolicies[g], d \in CloudDefaults[g] : call' = <<"cloud policy", Specification(p, d)>>
    BY <2>1
  <2>3. Written(p, PolicyLists) /\ Written(d, DefaultLists)
    BY InputsAssumption
  <2>4. IsSpecification(Specification(p, d))
    BY <2>3, ReadSpecification
  <2> QED
    BY <2>2, <2>4 DEF Sound, CommandCall, KeyCall, TppCall, CloudCall, PolicyCall, UserCall, BundleCall, SignCall,
     SearchCall
<1>3. CASE FindUser
  <2>1. PICK d \in Directories, u \in Users : call' = <<"user", [directory |-> d, name |-> u]>>
    BY <1>3 DEF FindUser
  <2>2. d \in Seq(Seq(Nat)) /\ u \in Seq(Nat) \ {<<>>}
    BY InputsAssumption
  <2> QED
    BY <2>1, <2>2 DEF Sound, CommandCall, KeyCall, TppCall, CloudCall, PolicyCall, UserCall, BundleCall, SignCall,
     SearchCall
<1>4. CASE TppRequest
  <2>1. PICK g \in DOMAIN TppServers : \E sp \in TppServers[g], r \in Asked[g], o \in Origins :
          (r.csr # NoCsr => o = "file")
            /\ call' = <<"tpp request", [server |-> sp, request |-> r, origin |-> o]>>
    BY <1>4 DEF TppRequest
  <2>2. PICK sp \in TppServers[g], r \in Asked[g], o \in Origins :
          (r.csr # NoCsr => o = "file")
            /\ call' = <<"tpp request", [server |-> sp, request |-> r, origin |-> o]>>
    BY <2>1
  <2>3. sp \in Folder /\ r \in Request
    BY InputsAssumption
  <2> QED
    BY <2>2, <2>3 DEF Sound, CommandCall, KeyCall, TppCall, CloudCall, PolicyCall, UserCall, BundleCall, SignCall,
     SearchCall
<1>5. CASE CloudRequest
  <2>1. PICK g \in DOMAIN Templates : \E ct \in Templates[g], r \in Asked[g], o \in Origins :
          (r.csr # NoCsr => o = "file")
            /\ call' = <<"cloud request", [template |-> ct, request |-> r, origin |-> o]>>
    BY <1>5 DEF CloudRequest
  <2>2. PICK ct \in Templates[g], r \in Asked[g], o \in Origins :
          (r.csr # NoCsr => o = "file")
            /\ call' = <<"cloud request", [template |-> ct, request |-> r, origin |-> o]>>
    BY <2>1
  <2>3. Recommends(ct) /\ r \in Request
    BY InputsAssumption
  <2> QED
    BY <2>2, <2>3 DEF Sound, CommandCall, KeyCall, TppCall, CloudCall, PolicyCall, UserCall, BundleCall, SignCall,
     SearchCall
<1>6. CASE CheckKey
  <2>1. PICK r \in Asked["keys"], allowed \in KeyLists :
          call' = <<"key", [request |-> r, allowed |-> allowed]>>
    BY <1>6 DEF CheckKey
  <2>2. r \in Request /\ DOMAIN allowed = 1 .. Len(allowed)
    BY InputsAssumption
  <2> QED
    BY <2>1, <2>2 DEF Sound, CommandCall, KeyCall, TppCall, CloudCall, PolicyCall, UserCall, BundleCall, SignCall,
     SearchCall
<1>7. CASE CheckCert
  BY <1>7, Others DEF CheckCert
<1>8. CASE OpenBundle
  <2>1. PICK b \in Bundles, order \in {"root-first", "root-last", "ignore"} :
          call' = <<"bundle", [bundle |-> b, order |-> order]>>
    BY <1>8 DEF OpenBundle
  <2>2. b.certs \in Seq(Nat) \ {<<>>} /\ b.keyAfter \in 0 .. Len(b.certs)
    BY InputsAssumption
  <2> QED
    BY <2>1, <2>2 DEF Sound, CommandCall, KeyCall, TppCall, CloudCall, PolicyCall, UserCall, BundleCall, SignCall,
     SearchCall
<1>9. CASE Sign
  <2>1. PICK r \in Signing : call' = <<"sign", r>>
    BY <1>9 DEF Sign
  <2>2. /\ r.names \in [ToSet(NameTypes) -> Seq(Nat)]
        /\ "san" \in DOMAIN r.extra => r.extra.san.list \in Seq(ToSet(NameTypes) \X Nat)
    BY InputsAssumption
  <2> QED
    BY <2>1, <2>2 DEF Sound, CommandCall, KeyCall, TppCall, CloudCall, PolicyCall, UserCall, BundleCall, SignCall,
     SearchCall
<1>10. CASE Search
  <2>1. PICK found \in Candidates, names \in NameLists :
          call' = <<"search", [found |-> found, names |-> names]>>
    BY <1>10 DEF Search
  <2>2. found \in Seq([zone : Nat, dns : Seq(Nat), validTo : Nat])
    BY InputsAssumption
  <2> QED
    BY <2>1, <2>2 DEF Sound, CommandCall, KeyCall, TppCall, CloudCall, PolicyCall, UserCall, BundleCall, SignCall,
     SearchCall
<1>11. CASE RunCommand
  <2>1. PICK g \in Commands :
          \E given \in SUBSET g.flags, env \in SUBSET g.env, w \in g.words,
             password, key \in g.passwords, store \in g.stores, typed \in g.typed,
             loaded \in g.loaded, generated \in g.generated :
            call' = <<"command",
              [name |-> g.name, flags |-> g.always \cup given, env |-> env, words |-> w,
               password |-> IF "password" \in g.always \cup given \cup env THEN password ELSE Nothing,
               keyPassword |-> key, jksPassword |-> store, typed |-> typed, loaded |-> loaded,
               generated |-> generated]>>
    BY <1>11 DEF RunCommand
  <2>2. PICK given \in SUBSET g.flags, env \in SUBSET g.env, w \in g.words,
             password, key \in g.passwords, store \in g.stores, typed \in g.typed,
             loaded \in g.loaded, generated \in g.generated :
            call' = <<"command",
              [name |-> g.name, flags |-> g.always \cup given, env |-> env, words |-> w,
               password |-> IF "password" \in g.always \cup given \cup env THEN password ELSE Nothing,
               keyPassword |-> key, jksPassword |-> store, typed |-> typed, loaded |-> loaded,
               generated |-> generated]>>
    BY <2>1
  <2> DEFINE given_ == IF "password" \in g.always \cup given \cup env THEN password ELSE Nothing
             a == [name |-> g.name, flags |-> g.always \cup given, env |-> env, words |-> w,
                   password |-> given_, keyPassword |-> key, jksPassword |-> store, typed |-> typed,
                   loaded |-> loaded, generated |-> generated]
  <2>3. g.name \in DOMAIN FlagsOf /\ env \subseteq envVarList /\ loaded.type \in {"tpp", "cloud", "firefly", "fake"}
    BY InputsAssumption
  <2>4. password \in Passwords /\ key \in Passwords /\ typed \in Passwords /\ typed.how = "text"
    BY InputsAssumption
  <2>5. given_ \in Passwords
    BY <2>4 DEF Nothing, Plain, Passwords
  <2> HIDE DEF given_
  <2>6. Command(a)
    BY <2>3, <2>4, <2>5 DEF Command, Parts
  <2>7. call' = <<"command", a>>
    BY <2>2 DEF given_
  <2> HIDE DEF a
  <2> QED
    BY <2>6, <2>7 DEF Sound, CommandCall, KeyCall, TppCall, CloudCall, PolicyCall, UserCall, BundleCall, SignCall,
     SearchCall
<1>12. CASE LoadSection
  BY <1>12, Others DEF LoadSection
<1>13. CASE Return
  BY <1>13, Others DEF Return, Blank
<1> QED
  BY <1>1, <1>2, <1>3, <1>4, <1>5, <1>6, <1>7, <1>8, <1>9, <1>10, <1>11, <1>12, <1>13 DEF Next

LEMMA CallsAreSound == Spec => []Sound(call)
<1>1. Init => Sound(call)
  BY Others DEF Init, Blank
<1>2. Sound(call) /\ [Next]_call => Sound(call)'
  BY SoundStep
<1> QED
  BY <1>1, <1>2, PTL DEF Spec

-----------------------------------------------------------------------------
(* Keys and certificates *)

(* Configurations of different types: at most one is about a key, so that  *)
(* the first one that is about it is the one that has it.                  *)
LEMMA KeyIsMember ==
  ASSUME Sound(call)
  PROVE  KeyCheckIsMembership
<1> SUFFICES ASSUME Called("key")
             PROVE  KeyCheckIsMembership
  BY DEF KeyCheckIsMembership
<1> DEFINE r == Arg.request
           ks == Arg.allowed
           About(k) == \/ k.type = r.type /\ (r.type = "ED25519" => r.curve \in {NotSet, "ED25519"})
                       \/ r.type = "ED25519" /\ k.type = "ECDSA"
           Allows(k) == CASE r.type = "RSA" -> r.size \in k.sizes
                          [] r.type = "ECDSA" -> CurveOf(r.curve) \in k.curves
                          [] OTHER -> k.type = "ED25519" \/ "ED25519" \in k.curves
           Covers(k) == \/ k.type = r.type /\ r.type = "RSA" /\ r.size \in k.sizes
                        \/ k.type = r.type /\ r.type = "ECDSA" /\ CurveOf(r.curve) \in k.curves
                        \/ r.type = "ED25519" /\ k.type = "ED25519" /\ r.curve \in {NotSet, "ED25519"}
                        \/ r.type = "ED25519" /\ k.type = "ECDSA" /\ "ED25519" \in k.curves
           Group(k) == IF k.type = "RSA" THEN 1 ELSE 2
           Alone == \A i, j \in DOMAIN ks : Group(ks[i]) = Group(ks[j]) => i = j
<1>1. r.type \in KeyTypes /\ DOMAIN ks = 1 .. Len(ks)
  BY DEF Sound, KeyCall, Called, Arg, Request
<1>2. \A k : About(k) /\ Allows(k) <=> Covers(k)
  BY <1>1 DEF KeyTypes
<1>3. \A k, l : About(k) /\ About(l) => Group(k) = Group(l)
  BY <1>1 DEF KeyTypes
<1>4. checkKey(r.type, r.size, r.curve, ks)
        <=> \E i \in DOMAIN ks : About(ks[i]) /\ Allows(ks[i]) /\ \A j \in 1 .. i - 1 : ~About(ks[j])
  BY DEF checkKey
<1>5. ASSUME Alone, NEW i \in DOMAIN ks, Covers(ks[i])
      PROVE  \A j \in 1 .. i - 1 : ~About(ks[j])
  <2> SUFFICES ASSUME NEW j \in 1 .. i - 1, About(ks[j])
               PROVE  FALSE
    OBVIOUS
  <2> HIDE DEF About, Allows, Covers, Group, ks
  <2>1. i \in 1 .. Len(ks)
    BY <1>1
  <2>2. j # i
    BY <2>1
  <2>3. j \in DOMAIN ks
    BY <1>1, <2>1 DEF ks, Arg
  <2>4. Group(ks[i]) = Group(ks[j])
    BY <1>2, <1>3, <1>5
  <2>5. \A m, n \in DOMAIN ks : Group(ks[m]) = Group(ks[n]) => m = n
    BY <1>5
  <2> QED BY <2>2, <2>3, <2>4, <2>5
<1>6. Alone => (checkKey(r.type, r.size, r.curve, ks) <=> \E i \in DOMAIN ks : Covers(ks[i]))
  <2> HIDE DEF About, Allows, Covers, Group, ks, r
  <2> QED BY <1>2, <1>4, <1>5
<1> QED
  BY <1>6 DEF KeyCheckIsMembership

(* A text that an expression describes as a whole it also contains.        *)
LEMMA MatchOccurs ==
  ASSUME NEW s \in Characters, NEW e, Matches(e, s)
  PROVE  Occurs(e, s)
<1>1. SubSeq(s, 1, Len(s)) = s
  BY DEF Characters
<1>2. 1 \in 1 .. Len(s) + 1 /\ Len(s) \in 0 .. Len(s)
  BY DEF Characters
<1> QED
  BY <1>1, <1>2 DEF Occurs

LEMMA ValidListMatches ==
  ASSUME NEW ss \in Seq(Characters), NEW regexs, NEW o, isComponentValid(ss, regexs, o)
  PROVE  isValueMatch(ss, regexs)
<1>1. CASE ss = Empty
  BY <1>1 DEF Empty, isValueMatch
<1>2. CASE ss # Empty
  <2> SUFFICES ASSUME NEW i \in DOMAIN ss
               PROVE  \E j \in DOMAIN regexs : Occurs(regexs[j], ss[i])
    BY DEF isValueMatch
  <2>1. PICK j \in DOMAIN regexs : Matches(regexs[j], ss[i])
    BY <1>2 DEF isComponentValid, checkStringByRegexp
  <2>2. ss[i] \in Characters
    OBVIOUS
  <2> QED BY <2>1, <2>2, MatchOccurs
<1> QED
  BY <1>1, <1>2

LEMMA ValidTextMatches ==
  ASSUME NEW s \in Characters, NEW regexs, checkStringByRegexp(s, regexs)
  PROVE  isValueMatch(<<s>>, regexs)
<1>1. PICK j \in DOMAIN regexs : Matches(regexs[j], s)
  BY DEF checkStringByRegexp
<1>2. Occurs(regexs[j], s)
  BY <1>1, MatchOccurs
<1>3. DOMAIN <<s>> = {1} /\ <<s>>[1] = s
  OBVIOUS
<1> QED
  BY <1>2, <1>3 DEF isValueMatch

LEMMA LocalImplies ==
  ASSUME Sound(call)
  PROVE  LocalImpliesService
<1> SUFFICES ASSUME Called("cloud request"), Arg.origin = "service",
                    ValidateCertificateRequest(Policy, Arg.request)
             PROVE  getCsrAttributes(Arg.template, Arg.request) # Failed
  BY DEF LocalImpliesService
<1> DEFINE ct == Arg.template
           r == Arg.request
<1>1. r \in Request /\ r.csr = NoCsr
  BY DEF Sound, CloudCall, Called, Arg
<1>2. Checked(r) = r
  BY <1>1 DEF Checked
<1>3. Policy.cn = ct.cn /\ Policy.subject = ct.subject
  BY DEF Policy, Called, CloudPolicyOf
<1>4. isValueMatch(<<r.cn>>, ct.cn)
  <2>1. r.cn \in Characters
    BY <1>1 DEF Request
  <2>2. checkStringByRegexp(r.cn, ct.cn)
    BY <1>2, <1>3 DEF ValidateCertificateRequest, SimpleValidateCertificateRequest
  <2> QED BY <2>1, <2>2, ValidTextMatches
<1>5. \A f \in Fields : isValueMatch(r.subject[f], ct.subject[f])
  <2> SUFFICES ASSUME NEW f \in Fields
               PROVE  isValueMatch(r.subject[f], ct.subject[f])
    OBVIOUS
  <2>1. isComponentValid(r.subject[f], ct.subject[f], FALSE)
    BY <1>2, <1>3 DEF ValidateCertificateRequest
  <2>2. r.subject[f] \in Seq(Characters)
    BY <1>1 DEF Request
  <2> QED BY <2>1, <2>2, ValidListMatches
<1> DEFINE key == CASE r.type = "RSA" -> <<"RSA", IF r.size > 0 THEN r.size ELSE 2048>>
                    [] r.type = "ECDSA" -> <<"EC", IF r.curve = NotSet THEN DefaultCurve ELSE r.curve>>
                    [] OTHER -> Empty
           subject == [f \in Fields |-> IF r.subject[f] = Empty THEN ct.recommended.subject[f]
                                        ELSE r.subject[f]]
           attributes == [cn |-> r.cn, dns |-> r.dns, sans |-> r.sans, key |-> key, subject |-> subject]
<1>6. getCsrAttributes(ct, r) = attributes
  <2> HIDE DEF ct, r
  <2> QED BY <1>4, <1>5 DEF getCsrAttributes
<1> HIDE DEF key, subject, ct, r
<1>7. attributes # Failed
  BY DEF Failed
<1> QED
  BY <1>6, <1>7 DEF ct, r

(* What the check of a request allows, the check for a key of the service  *)
(* does not refuse, whatever the expressions of a template and the texts   *)
(* of the request; and the check of a key is membership in the configured  *)
(* keys (endpoint.go:372 and 401, cloudUtil.go:44).                        *)
THEOREM PoliciesAgree == Spec => []EvaluatedAlike
<1>1. Sound(call) => EvaluatedAlike
  BY KeyIsMember, LocalImplies DEF EvaluatedAlike
<1> QED
  BY <1>1, CallsAreSound, PTL

-----------------------------------------------------------------------------
(* Sizes and curves *)

LEMMA SupportedCurves == ToSet(AllSupportedCurves) = {"P521", "P256", "P384", "ED25519"}
<1>1. DOMAIN AllSupportedCurves = {1, 2, 3, 4}
  BY DEF AllSupportedCurves
<1> QED
  BY <1>1 DEF ToSet, AllSupportedCurves

LEMMA SupportedSizes == ToSet(AllSupportedKeySizes) = {1024, 2048, 3072, 4096, 8192}
<1>1. DOMAIN AllSupportedKeySizes = {1, 2, 3, 4, 5}
  BY DEF AllSupportedKeySizes
<1> QED
  BY <1>1 DEF ToSet, AllSupportedKeySizes

LEMMA CurveOfCurve ==
  ASSUME NEW c
  PROVE  /\ CurveOf(c) \in ToSet(AllSupportedCurves) /\ CurveOf(CurveOf(c)) = CurveOf(c)
         /\ CurveOf(NotSet) = "P256" /\ CurveOf("P256") = "P256"
  BY SupportedCurves DEF CurveOf, DefaultCurve, NotSet

(* A key that is allowed stays so when a size or a curve that was not      *)
(* given is filled in with one that is allowed wherever the default is.    *)
LEMMA KeyKept ==
  ASSUME NEW ks, NEW type \in {"RSA", "ECDSA"}, NEW s, NEW c, NEW size, NEW curve,
         checkKey(type, s, c, ks),
         type = "RSA" => \A i \in DOMAIN ks : s \in ks[i].sizes => size \in ks[i].sizes,
         type = "ECDSA" => \A i \in DOMAIN ks :
                             CurveOf(c) \in ks[i].curves => CurveOf(curve) \in ks[i].curves
  PROVE  checkKey(type, size, curve, ks)
<1> DEFINE About(x, k) == \/ k.type = type /\ (type = "ED25519" => x \in {NotSet, "ED25519"})
                          \/ type = "ED25519" /\ k.type = "ECDSA"
           Allows(n, x, k) == CASE type = "RSA" -> n \in k.sizes
                                [] type = "ECDSA" -> CurveOf(x) \in k.curves
                                [] OTHER -> k.type = "ED25519" \/ "ED25519" \in k.curves
<1>1. PICK i \in DOMAIN ks : About(c, ks[i]) /\ Allows(s, c, ks[i]) /\ \A j \in 1 .. i - 1 : ~About(c, ks[j])
  BY DEF checkKey
<1>2. \A k : About(c, k) <=> About(curve, k)
  OBVIOUS
<1>3. Allows(size, curve, ks[i])
  BY <1>1
<1> QED
  BY <1>1, <1>2, <1>3 DEF checkKey

-----------------------------------------------------------------------------
(* What a zone fills in *)

(* The values of a zone fit a policy: one that completes a subject is      *)
(* allowed where an empty one is, so is its curve where the default curve  *)
(* is, and no key has no size.                                             *)
ZoneFits(p, z) ==
  /\ \A f \in Fields : isComponentValid(Empty, p.subject[f], FALSE)
                         => isComponentValid(z.subject[f], p.subject[f], FALSE)
  /\ \A i \in DOMAIN p.keys : 0 \notin p.keys[i].sizes
  /\ z.key = Empty \/ z.key.curves = Empty \/
       \A i \in DOMAIN p.keys : "P256" \in p.keys[i].curves
                                  => CurveOf(z.key.curves[1]) \in p.keys[i].curves

LEMMA UpdateKeeps ==
  ASSUME NEW z, NEW r \in Request
  PROVE  LET u == UpdateCertificateRequest(z, r)
         IN  /\ DOMAIN u = DOMAIN r
             /\ u.cn = r.cn /\ u.dns = r.dns /\ u.sans = r.sans /\ u.type = r.type /\ u.csr = r.csr
             /\ \A f \in Fields :
                  u.subject[f] = IF r.subject[f] = Empty THEN z.subject[f] ELSE r.subject[f]
             /\ r.type # "RSA" \/ r.size # 0 => u.size = r.size
             /\ r.type = "RSA" /\ r.size = 0 =>
                  u.size = IF z.key = Empty THEN 2048 ELSE IF z.key.sizes # Empty THEN z.key.sizes[1] ELSE 0
             /\ r.type # "ECDSA" \/ r.curve # NotSet => u.curve = r.curve
             /\ r.type = "ECDSA" /\ r.curve = NotSet =>
                  u.curve = IF z.key # Empty /\ z.key.curves # Empty THEN z.key.curves[1] ELSE NotSet
<1> DEFINE First(list, given) == IF list # Empty THEN list[1] ELSE given
           subject == [f \in Fields |-> IF r.subject[f] = Empty THEN z.subject[f] ELSE r.subject[f]]
           size == CASE r.type # "RSA" \/ r.size # 0 -> r.size
                     [] r.type = "RSA" /\ r.size = 0 /\ z.key = Empty -> 2048
                     [] OTHER -> First(z.key.sizes, 0)
           curve == IF r.type = "ECDSA" /\ r.curve = NotSet /\ z.key # Empty
                    THEN First(z.key.curves, NotSet) ELSE r.curve
           u == UpdateCertificateRequest(z, r)
<1>1. u = [r EXCEPT !.subject = subject, !.size = size, !.curve = curve]
  BY DEF UpdateCertificateRequest
<1>2. DOMAIN r = {"cn", "dns", "sans", "subject", "type", "size", "curve", "csr"}
  BY DEF Request
<1>3. /\ r.type # "RSA" \/ r.size # 0 => size = r.size
      /\ r.type = "RSA" /\ r.size = 0 =>
           size = IF z.key = Empty THEN 2048 ELSE IF z.key.sizes # Empty THEN z.key.sizes[1] ELSE 0
  OBVIOUS
<1>4. /\ r.type # "ECDSA" \/ r.curve # NotSet => curve = r.curve
      /\ r.type = "ECDSA" /\ r.curve = NotSet =>
           curve = IF z.key # Empty /\ z.key.curves # Empty THEN z.key.curves[1] ELSE NotSet
  OBVIOUS
<1>5. \A f \in Fields : subject[f] = IF r.subject[f] = Empty THEN z.subject[f] ELSE r.subject[f]
  OBVIOUS
<1> HIDE DEF subject, size, curve, u
<1>6. /\ DOMAIN u = DOMAIN r
      /\ u.cn = r.cn /\ u.dns = r.dns /\ u.sans = r.sans /\ u.type = r.type /\ u.csr = r.csr
      /\ u.subject = subject /\ u.size = size /\ u.curve = curve
  BY <1>1, <1>2
<1> QED
  BY <1>3, <1>4, <1>5, <1>6 DEF u

LEMMA ZoneSubject ==
  ASSUME NEW p, NEW z, NEW r \in Request, NEW f \in Fields, ZoneFits(p, z),
         isComponentValid(r.subject[f], p.subject[f], FALSE)
  PROVE  isComponentValid(UpdateCertificateRequest(z, r).subject[f], p.subject[f], FALSE)
<1>1. CASE r.subject[f] = Empty
  BY <1>1, UpdateKeeps DEF ZoneFits
<1>2. CASE r.subject[f] # Empty
  BY <1>2, UpdateKeeps
<1> QED
  BY <1>1, <1>2

LEMMA ZoneCurve ==
  ASSUME NEW p, NEW z, NEW r \in Request, r.type = "ECDSA", ZoneFits(p, z), NEW i \in DOMAIN p.keys,
         CurveOf(r.curve) \in p.keys[i].curves
  PROVE  CurveOf(UpdateCertificateRequest(z, r).curve) \in p.keys[i].curves
<1>1. CASE r.curve # NotSet
  BY <1>1, UpdateKeeps
<1>2. CASE r.curve = NotSet
  <2>1. "P256" \in p.keys[i].curves
    BY <1>2, CurveOfCurve
  <2>2. CASE z.key # Empty /\ z.key.curves # Empty
    BY <1>2, <2>1, <2>2, UpdateKeeps DEF ZoneFits
  <2>3. CASE ~(z.key # Empty /\ z.key.curves # Empty)
    BY <1>2, <2>1, <2>3, UpdateKeeps, CurveOfCurve
  <2> QED BY <2>2, <2>3
<1> QED
  BY <1>1, <1>2

LEMMA ZoneSize ==
  ASSUME NEW p, NEW z, NEW r \in Request, r.type = "RSA", ZoneFits(p, z), NEW i \in DOMAIN p.keys,
         r.size \in p.keys[i].sizes
  PROVE  r.size # 0 /\ UpdateCertificateRequest(z, r).size = r.size
  BY UpdateKeeps DEF ZoneFits

-----------------------------------------------------------------------------
(* A request that is completed *)

LEMMA NoSigningRequest ==
  ASSUME NEW r, r.type # "none"
  PROVE  Content(r) # NoCsr
<1>1. Content(r)["type"] = r.type
  BY DEF Content
<1> QED
  BY <1>1 DEF NoCsr

LEMMA CheckedSelf ==
  ASSUME NEW r, r.csr = NoCsr
  PROVE  Checked(r) = r
  BY DEF Checked

(* The key of a request that is sent without a signing request.            *)
LEMMA CompletedKey ==
  ASSUME NEW p, NEW z, NEW r \in Request, ZoneFits(p, z), r.csr = NoCsr, r.type # "ED25519",
         checkKey(r.type, r.size, r.curve, p.keys)
  PROVE  LET u == UpdateCertificateRequest(z, r) IN checkKey(u.type, u.size, u.curve, p.keys)
<1> DEFINE u == UpdateCertificateRequest(z, r)
<1>1. r.type \in {"RSA", "ECDSA"}
  BY DEF Request, KeyTypes
<1>2. u.type = r.type
  BY UpdateKeeps
<1>3. r.type = "RSA" => \A i \in DOMAIN p.keys : r.size \in p.keys[i].sizes => u.size \in p.keys[i].sizes
  BY ZoneSize
<1>4. r.type = "ECDSA" => \A i \in DOMAIN p.keys :
                            CurveOf(r.curve) \in p.keys[i].curves => CurveOf(u.curve) \in p.keys[i].curves
  BY ZoneCurve
<1> HIDE DEF u
<1>5. checkKey(r.type, u.size, u.curve, p.keys)
  BY <1>1, <1>3, <1>4, KeyKept
<1> QED
  BY <1>2, <1>5 DEF u

(* The zone's values do not make a request invalid.                        *)
LEMMA CompletedValid ==
  ASSUME NEW p, NEW z, NEW r \in Request, ZoneFits(p, z), r.csr = NoCsr, r.type # "ED25519",
         ValidateCertificateRequest(p, r)
  PROVE  ValidateCertificateRequest(p, UpdateCertificateRequest(z, r))
<1> DEFINE u == UpdateCertificateRequest(z, r)
<1>1. /\ u.cn = r.cn /\ u.dns = r.dns /\ u.type = r.type /\ u.csr = NoCsr
  BY UpdateKeeps
<1> HIDE DEF u
<1>2. Checked(r) = r /\ Checked(u) = u
  BY <1>1, CheckedSelf
<1>3. SimpleValidateCertificateRequest(p, u)
  BY <1>1, <1>2 DEF ValidateCertificateRequest, SimpleValidateCertificateRequest
<1>4. ASSUME NEW f \in Fields
      PROVE  isComponentValid(u.subject[f], p.subject[f], FALSE)
  <2>1. isComponentValid(r.subject[f], p.subject[f], FALSE)
    BY <1>2 DEF ValidateCertificateRequest
  <2> QED BY <2>1, ZoneSubject DEF u
<1>5. p.keys # Empty => KeyValid(p, u)
  <2>1. SUFFICES ASSUME p.keys # Empty
                 PROVE  KeyValid(p, u)
    OBVIOUS
  <2>2. checkKey(r.type, r.size, r.curve, p.keys)
    BY <2>1 DEF ValidateCertificateRequest, KeyValid
  <2>3. checkKey(u.type, u.size, u.curve, p.keys)
    BY <2>2, CompletedKey DEF u
  <2> QED BY <1>1, <2>3 DEF KeyValid
<1>6. ValidateCertificateRequest(p, u)
  BY <1>1, <1>2, <1>3, <1>4, <1>5 DEF ValidateCertificateRequest
<1> QED
  BY <1>6 DEF u

(* The key that is generated is the one that was allowed, and so are the   *)
(* contents of the signing request that is made with it.                   *)
LEMMA GeneratedKeeps ==
  ASSUME NEW u, DOMAIN u = {"cn", "dns", "sans", "subject", "type", "size", "curve", "csr"},
         GeneratePrivateKey(u) # Failed
  PROVE  LET k == GeneratePrivateKey(u)
         IN  /\ DOMAIN k = DOMAIN u
             /\ k.cn = u.cn /\ k.dns = u.dns /\ k.sans = u.sans /\ k.subject = u.subject
             /\ k.type = u.type /\ k.csr = u.csr
             /\ u.type = "RSA" => k.size = IF u.size = 0 THEN 2048 ELSE u.size
             /\ u.type = "ECDSA" => k.curve = IF u.curve = NotSet THEN DefaultCurve ELSE u.curve
<1> DEFINE k == GeneratePrivateKey(u)
<1>1. CASE u.type = "RSA"
  <2> DEFINE size == IF u.size = 0 THEN 2048 ELSE u.size
  <2>1. k = [u EXCEPT !.size = size]
    BY <1>1 DEF GeneratePrivateKey
  <2> HIDE DEF k, size
  <2>2. /\ DOMAIN k = DOMAIN u
        /\ k.cn = u.cn /\ k.dns = u.dns /\ k.sans = u.sans /\ k.subject = u.subject
        /\ k.type = u.type /\ k.csr = u.csr /\ k.size = size
    BY <2>1
  <2> QED BY <1>1, <2>2 DEF k, size
<1>2. CASE u.type = "ECDSA"
  <2> DEFINE curve == IF u.curve = NotSet THEN DefaultCurve ELSE u.curve
  <2>1. k = [u EXCEPT !.curve = curve]
    BY <1>2 DEF GeneratePrivateKey
  <2> HIDE DEF k, curve
  <2>2. /\ DOMAIN k = DOMAIN u
        /\ k.cn = u.cn /\ k.dns = u.dns /\ k.sans = u.sans /\ k.subject = u.subject
        /\ k.type = u.type /\ k.csr = u.csr /\ k.curve = curve
    BY <2>1
  <2> QED BY <1>2, <2>2 DEF k, curve
<1>3. CASE u.type \notin {"RSA", "ECDSA"}
  BY <1>3 DEF GeneratePrivateKey
<1> QED
  BY <1>1, <1>2, <1>3

LEMMA GeneratedKey ==
  ASSUME NEW p, NEW z, NEW r \in Request, ZoneFits(p, z), r.csr = NoCsr, r.type # "ED25519",
         checkKey(r.type, r.size, r.curve, p.keys),
         GeneratePrivateKey(UpdateCertificateRequest(z, r)) # Failed
  PROVE  LET k == GeneratePrivateKey(UpdateCertificateRequest(z, r))
         IN  checkKey(k.type, k.size, CurveOf(k.curve), p.keys)
<1> DEFINE u == UpdateCertificateRequest(z, r)
           k == GeneratePrivateKey(u)
<1>1. r.type \in {"RSA", "ECDSA"}
  BY DEF Request, KeyTypes
<1>2. /\ DOMAIN u = {"cn", "dns", "sans", "subject", "type", "size", "curve", "csr"}
      /\ u.type = r.type
  BY UpdateKeeps DEF Request
<1>3. ASSUME r.type = "RSA", NEW i \in DOMAIN p.keys, r.size \in p.keys[i].sizes
      PROVE  u.size = r.size /\ r.size # 0
  BY <1>3, ZoneSize
<1>4. ASSUME r.type = "ECDSA", NEW i \in DOMAIN p.keys, CurveOf(r.curve) \in p.keys[i].curves
      PROVE  CurveOf(u.curve) \in p.keys[i].curves
  BY <1>4, ZoneCurve
<1> HIDE DEF u
<1>5. /\ k.type = u.type
      /\ u.type = "RSA" => k.size = IF u.size = 0 THEN 2048 ELSE u.size
      /\ u.type = "ECDSA" => k.curve = IF u.curve = NotSet THEN DefaultCurve ELSE u.curve
  BY <1>2, GeneratedKeeps DEF u
<1> HIDE DEF k
<1>6. r.type = "RSA" => \A i \in DOMAIN p.keys : r.size \in p.keys[i].sizes => k.size \in p.keys[i].sizes
  BY <1>2, <1>3, <1>5
<1>7. u.type = "ECDSA" => CurveOf(CurveOf(k.curve)) = CurveOf(u.curve)
  BY <1>5, CurveOfCurve DEF DefaultCurve
<1>8. r.type = "ECDSA" => \A i \in DOMAIN p.keys :
        CurveOf(r.curve) \in p.keys[i].curves => CurveOf(CurveOf(k.curve)) \in p.keys[i].curves
  BY <1>2, <1>4, <1>7
<1>9. checkKey(r.type, k.size, CurveOf(k.curve), p.keys)
  BY <1>1, <1>6, <1>8, KeyKept
<1> QED
  BY <1>2, <1>5, <1>9 DEF u, k

(* A request that is signed locally: its signing request is checked, and   *)
(* the names that nobody looked at before.                                 *)
LEMMA SignedValid ==
  ASSUME NEW p, NEW z, NEW r \in Request, ZoneFits(p, z), r.csr = NoCsr, r.type # "ED25519",
         ValidateCertificateRequest(p, r), ~OtherNames(r),
         GeneratePrivateKey(UpdateCertificateRequest(z, r)) # Failed
  PROVE  LET k == GeneratePrivateKey(UpdateCertificateRequest(z, r))
         IN  ValidateCertificateRequest(p, [k EXCEPT !.csr = Content(k)])
<1> DEFINE u == UpdateCertificateRequest(z, r)
           k == GeneratePrivateKey(u)
           g == [k EXCEPT !.csr = Content(k)]
           c == Content(k)
<1>1. /\ DOMAIN u = {"cn", "dns", "sans", "subject", "type", "size", "curve", "csr"}
      /\ u.cn = r.cn /\ u.dns = r.dns /\ u.sans = r.sans /\ u.type = r.type
  BY UpdateKeeps DEF Request
<1>2. r.type \in {"RSA", "ECDSA"}
  BY DEF Request, KeyTypes
<1>3. ASSUME NEW f \in Fields
      PROVE  isComponentValid(u.subject[f], p.subject[f], FALSE)
  BY CheckedSelf, ZoneSubject DEF ValidateCertificateRequest
<1>4. p.keys # Empty => checkKey(k.type, k.size, CurveOf(k.curve), p.keys)
  BY GeneratedKey DEF ValidateCertificateRequest, KeyValid
<1> HIDE DEF u
<1>5. /\ DOMAIN k = DOMAIN u /\ k.cn = u.cn /\ k.dns = u.dns /\ k.sans = u.sans
      /\ k.subject = u.subject /\ k.type = u.type
  BY <1>1, GeneratedKeeps DEF u
<1> HIDE DEF k
<1>6. c # NoCsr
  BY <1>1, <1>2, <1>5, NoSigningRequest
<1>7. /\ c.cn = k.cn /\ c.dns = k.dns /\ c.sans = k.sans /\ c.subject = k.subject
      /\ c.type = k.type /\ c.size = k.size /\ c.curve = k.curve
  BY DEF Content
<1> HIDE DEF c
<1>8. g.csr = c
  BY <1>1, <1>5 DEF c
<1> HIDE DEF g
<1>9. Checked(g) = c
  BY <1>6, <1>8 DEF Checked
<1>10. SimpleValidateCertificateRequest(p, g)
  BY <1>1, <1>5, <1>7, <1>9, CheckedSelf DEF ValidateCertificateRequest, SimpleValidateCertificateRequest
<1>11. ASSUME NEW s \in {"email", "ip", "uri"}
       PROVE  isComponentValid(c.sans[s], p.sans[s], TRUE)
  <2>1. r.sans[s] = Empty
    BY DEF OtherNames, Request
  <2> QED BY <2>1, <1>1, <1>5, <1>7 DEF isComponentValid
<1>12. ASSUME NEW f \in Fields
       PROVE  isComponentValid(c.subject[f], p.subject[f], FALSE)
  BY <1>3, <1>5, <1>7
<1>13. p.keys # Empty => KeyValid(p, g)
  BY <1>1, <1>4, <1>5, <1>6, <1>7, <1>8, <1>9 DEF KeyValid
<1>14. ValidateCertificateRequest(p, g)
  BY <1>9, <1>10, <1>11, <1>12, <1>13 DEF ValidateCertificateRequest
<1> QED
  BY <1>14 DEF g, k, u, c

-----------------------------------------------------------------------------
(* The zones of both platforms *)

LEMMA CloudZoneFits ==
  ASSUME NEW ct, Recommends(ct)
  PROVE  ZoneFits(CloudPolicyOf(ct), CloudZoneConfig(ct))
<1> DEFINE p == CloudPolicyOf(ct)
           z == CloudZoneConfig(ct)
<1>1. /\ p.subject = ct.subject /\ DOMAIN p.keys = DOMAIN ct.keys
      /\ \A i \in DOMAIN ct.keys : p.keys[i].sizes = ToSet(ct.keys[i].sizes)
  BY DEF CloudPolicyOf
<1>2. z.subject = ct.recommended.subject
  BY DEF CloudZoneConfig
<1>3. z.key = Empty \/ z.key.curves = Empty
  BY DEF CloudZoneConfig
<1> HIDE DEF p, z
<1>4. \A f \in Fields : isComponentValid(Empty, p.subject[f], FALSE)
                          => isComponentValid(z.subject[f], p.subject[f], FALSE)
  BY <1>1, <1>2 DEF Recommends
<1>5. \A i \in DOMAIN p.keys : 0 \notin p.keys[i].sizes
  BY <1>1 DEF Recommends
<1>6. ZoneFits(p, z)
  BY <1>3, <1>4, <1>5 DEF ZoneFits
<1> QED
  BY <1>6 DEF p, z

LEMMA AnythingMatches ==
  ASSUME NEW s
  PROVE  checkStringByRegexp(s, <<Anything>>)
<1>1. Matches(Anything, s)
  BY DEF Matches, Anything
<1>2. DOMAIN <<Anything>> = {1} /\ <<Anything>>[1] = Anything
  OBVIOUS
<1> QED
  BY <1>1, <1>2 DEF checkStringByRegexp

LEMMA ExactlyMatches ==
  ASSUME NEW s, NEW t
  PROVE  Matches(Exactly(t), s) <=> s = t
  BY DEF Matches, Exactly

(* What a folder has for a field of the subject is allowed, unless it      *)
(* locks a list of no units.                                               *)
LEMMA FolderSubject ==
  ASSUME NEW sp \in Folder, NEW f \in Fields,
         ~(f = "ou" /\ sp.subject[f].locked /\ sp.subject[f].v = Empty)
  PROVE  isComponentValid(sp.subject[f].v, TppSubjectPolicy(sp)[f], FALSE)
<1> DEFINE v == sp.subject[f].v
<1>0. v \in Seq(Characters) /\ sp.subject[f].locked \in BOOLEAN
  BY DEF Folder, Lockable
<1>1. CASE ~sp.subject[f].locked
  <2>1. TppSubjectPolicy(sp)[f] = <<Anything>>
    BY <1>1 DEF TppSubjectPolicy
  <2> QED BY <2>1, AnythingMatches DEF isComponentValid
<1>2. CASE sp.subject[f].locked /\ v = Empty
  <2>1. TppSubjectPolicy(sp)[f] = <<Exactly(Empty)>>
    BY <1>2 DEF TppSubjectPolicy
  <2>2. DOMAIN <<Exactly(Empty)>> = {1} /\ <<Exactly(Empty)>>[1] = Exactly(Empty)
    OBVIOUS
  <2>3. checkStringByRegexp(Empty, <<Exactly(Empty)>>)
    BY <2>2, ExactlyMatches DEF checkStringByRegexp
  <2> QED BY <1>2, <2>1, <2>3 DEF isComponentValid
<1>3. CASE sp.subject[f].locked /\ v # Empty
  <2>1. TppSubjectPolicy(sp)[f] = [i \in DOMAIN v |-> Exactly(v[i])]
    BY <1>3 DEF TppSubjectPolicy
  <2>2. \A i \in DOMAIN v : checkStringByRegexp(v[i], [j \in DOMAIN v |-> Exactly(v[j])])
    BY ExactlyMatches DEF checkStringByRegexp
  <2> QED BY <1>3, <2>1, <2>2 DEF isComponentValid
<1> QED
  BY <1>0, <1>1, <1>2, <1>3

(* Nothing is allowed where no unit is.                                    *)
LEMMA NoUnits ==
  ASSUME NEW sp, sp.subject["ou"].locked, sp.subject["ou"].v = Empty
  PROVE  ~isComponentValid(Empty, TppSubjectPolicy(sp)["ou"], FALSE)
<1>1. TppSubjectPolicy(sp)["ou"] = [i \in DOMAIN Empty |-> Exactly(Empty[i])]
  BY DEF TppSubjectPolicy, Fields
<1>2. DOMAIN Empty = {}
  BY DEF Empty
<1> QED
  BY <1>1, <1>2 DEF isComponentValid, checkStringByRegexp

FolderSizes(sp) == {s \in ToSet(AllSupportedKeySizes) : sp.size.locked => s >= sp.size.v}
FolderCurves(sp) ==
  IF sp.curve.locked THEN {CurveOf(sp.curve.v)} ELSE ToSet(AllSupportedCurves)

LEMMA FolderKeys ==
  ASSUME NEW sp, NEW i \in DOMAIN TppKeyPolicy(sp)
  PROVE  LET k == TppKeyPolicy(sp)[i]
         IN  k.sizes \in {FolderSizes(sp), {}} /\ k.curves \in {FolderCurves(sp), {}}
<1> DEFINE Rsa == [type |-> "RSA", sizes |-> FolderSizes(sp), curves |-> {}]
           Elliptic(t) == [type |-> t, sizes |-> {}, curves |-> FolderCurves(sp)]
           type == KeyTypeOf(sp.algorithm.v, sp.curve.v)
<1>1. TppKeyPolicy(sp) \in {<<Rsa, Elliptic("ECDSA")>>, <<Rsa>>, <<Elliptic(type)>>}
  BY DEF TppKeyPolicy, FolderSizes, FolderCurves
<1>2. /\ Rsa.sizes = FolderSizes(sp) /\ Rsa.curves = {}
      /\ \A t : Elliptic(t).sizes = {} /\ Elliptic(t).curves = FolderCurves(sp)
  OBVIOUS
<1>3. TppKeyPolicy(sp)[i] = Rsa \/ \E t : TppKeyPolicy(sp)[i] = Elliptic(t)
  <2> HIDE DEF Rsa, Elliptic, type
  <2> QED BY <1>1
<1> QED
  BY <1>2, <1>3

LEMMA TppZoneFits ==
  ASSUME NEW sp \in Folder
  PROVE  ZoneFits(TppPolicyOf(sp), TppZoneConfig(sp))
<1> DEFINE p == TppPolicyOf(sp)
           z == TppZoneConfig(sp)
<1>1. p.subject = TppSubjectPolicy(sp) /\ p.keys = TppKeyPolicy(sp)
  BY DEF TppPolicyOf
<1>2. \A f \in Fields : z.subject[f] = sp.subject[f].v
  BY DEF TppZoneConfig
<1>3. z.key = Empty \/ z.key.curves = Empty \/ z.key.curves = <<CurveOf(sp.curve.v)>>
  BY DEF TppZoneConfig
<1> HIDE DEF p, z
<1>4. ASSUME NEW f \in Fields, isComponentValid(Empty, p.subject[f], FALSE)
      PROVE  isComponentValid(z.subject[f], p.subject[f], FALSE)
  BY <1>1, <1>2, <1>4, NoUnits, FolderSubject
<1>5. \A i \in DOMAIN p.keys : 0 \notin p.keys[i].sizes
  BY <1>1, FolderKeys, SupportedSizes DEF FolderSizes
<1>6. CurveOf(CurveOf(sp.curve.v)) \in FolderCurves(sp)
  BY CurveOfCurve DEF FolderCurves
<1>7. ASSUME NEW i \in DOMAIN p.keys, "P256" \in p.keys[i].curves, NEW c, z.key.curves = <<c>>
      PROVE  z.key.curves[1] = c /\ p.keys[i].curves = FolderCurves(sp)
  BY <1>1, <1>7, FolderKeys
<1>8. ZoneFits(p, z)
  BY <1>3, <1>4, <1>5, <1>6, <1>7 DEF ZoneFits
<1> QED
  BY <1>8 DEF p, z

-----------------------------------------------------------------------------
(* What GenerateRequest makes of a valid request *)

(* A request that has a signing request is judged by that alone.           *)
LEMMA SignedIsJudgedByIt ==
  ASSUME NEW p, NEW z, NEW r \in Request, r.csr # NoCsr, ValidateCertificateRequest(p, r)
  PROVE  ValidateCertificateRequest(p, UpdateCertificateRequest(z, r))
<1> DEFINE u == UpdateCertificateRequest(z, r)
<1>1. u.csr = r.csr
  BY UpdateKeeps
<1> HIDE DEF u
<1>2. Checked(u) = Checked(r)
  BY <1>1 DEF Checked
<1>3. SimpleValidateCertificateRequest(p, u)
  BY <1>2 DEF ValidateCertificateRequest, SimpleValidateCertificateRequest
<1>4. p.keys # Empty => KeyValid(p, u)
  BY <1>1, <1>2 DEF ValidateCertificateRequest, KeyValid
<1>5. ValidateCertificateRequest(p, u)
  BY <1>1, <1>2, <1>3, <1>4 DEF ValidateCertificateRequest
<1> QED
  BY <1>5 DEF u

LEMMA TppStaysAllowed ==
  ASSUME NEW sp \in Folder, NEW r \in Request, NEW o, r.csr # NoCsr => o = "file",
         ValidateCertificateRequest(TppPolicyOf(sp), r), ~OtherNames(r)
  PROVE  LET g == TppGenerateRequest(TppZoneConfig(sp), r, o)
         IN  g = Failed \/ ValidateCertificateRequest(TppPolicyOf(sp), g)
<1> DEFINE p == TppPolicyOf(sp)
           z == TppZoneConfig(sp)
           u == UpdateCertificateRequest(z, r)
           k == GeneratePrivateKey(u)
           g == TppGenerateRequest(z, r, o)
<1>1. ZoneFits(p, z)
  BY TppZoneFits
<1> HIDE DEF p, z
<1>2. SUFFICES ASSUME g # Failed
               PROVE  ValidateCertificateRequest(p, g)
  BY DEF p, z
<1>3. r.type # "ED25519"
  BY <1>2 DEF TppGenerateRequest
<1>4. CASE o = "local"
  <2>1. k # Failed /\ g = [k EXCEPT !.csr = Content(k)]
    BY <1>2, <1>4 DEF TppGenerateRequest
  <2>2. r.csr = NoCsr
    BY <1>4
  <2> QED BY <1>1, <1>3, <2>1, <2>2, SignedValid DEF p
<1>5. CASE o = "file"
  <2>1. r.csr # NoCsr /\ g = u
    BY <1>2, <1>5 DEF TppGenerateRequest
  <2> QED BY <2>1, SignedIsJudgedByIt DEF p
<1>6. CASE o \notin {"local", "file"}
  <2>1. r.csr = NoCsr /\ g = u
    BY <1>2, <1>6 DEF TppGenerateRequest
  <2> QED BY <1>1, <1>3, <2>1, CompletedValid DEF p
<1> QED
  BY <1>4, <1>5, <1>6

LEMMA CloudStaysAllowed ==
  ASSUME NEW ct, Recommends(ct), NEW r \in Request, NEW o, r.csr # NoCsr => o = "file",
         ValidateCertificateRequest(CloudPolicyOf(ct), r), ~OtherNames(r)
  PROVE  LET g == CloudGenerateRequest(CloudZoneConfig(ct), r, o)
         IN  g = Failed \/ ValidateCertificateRequest(CloudPolicyOf(ct), g) \/ g.type = "ED25519"
<1> DEFINE p == CloudPolicyOf(ct)
           z == CloudZoneConfig(ct)
           u == UpdateCertificateRequest(z, r)
           k == GeneratePrivateKey(u)
           g == CloudGenerateRequest(z, r, o)
<1>1. ZoneFits(p, z)
  BY CloudZoneFits
<1> HIDE DEF p, z
<1>2. SUFFICES ASSUME g # Failed
               PROVE  ValidateCertificateRequest(p, g) \/ g.type = "ED25519"
  BY DEF p, z
<1>3. CASE o = "local"
  <2>1. k # Failed /\ g = [k EXCEPT !.csr = Content(k)]
    BY <1>2, <1>3 DEF CloudGenerateRequest
  <2>2. r.csr = NoCsr
    BY <1>3
  <2>3. CASE r.type # "ED25519"
    BY <1>1, <2>1, <2>2, <2>3, SignedValid DEF p
  <2>4. CASE r.type = "ED25519"
    <3>1. u.type = "ED25519"
      BY <2>4, UpdateKeeps
    <3>2. /\ DOMAIN u = {"cn", "dns", "sans", "subject", "type", "size", "curve", "csr"}
      BY UpdateKeeps DEF Request
    <3> HIDE DEF u
    <3>3. k.type = "ED25519"
      BY <3>1, <3>2, <2>1, GeneratedKeeps
    <3>4. DOMAIN k = DOMAIN u
      BY <3>2, <2>1, GeneratedKeeps
    <3> HIDE DEF k, g
    <3> QED BY <2>1, <3>2, <3>3, <3>4
  <2> QED BY <2>3, <2>4
<1>4. CASE o # "local"
  <2>1. g = r
    BY <1>2, <1>4 DEF CloudGenerateRequest
  <2> QED BY <2>1 DEF p
<1> QED
  BY <1>3, <1>4

LEMMA StaysAllowed ==
  ASSUME Sound(call)
  PROVE  CheckedStaysAllowed
<1> SUFFICES ASSUME Requested, ValidateCertificateRequest(Policy, Arg.request), ~OtherNames(Arg.request)
             PROVE  \/ Generated = Failed
                    \/ ValidateCertificateRequest(Policy, Generated)
                    \/ Generated.type = "ED25519"
  BY DEF CheckedStaysAllowed
<1>1. CASE Called("tpp request")
  <2>1. /\ Arg.server \in Folder /\ Arg.request \in Request
        /\ Arg.request.csr # NoCsr => Arg.origin = "file"
    BY <1>1 DEF Sound, TppCall, Called, Arg
  <2>2. /\ Policy = TppPolicyOf(Arg.server)
        /\ Generated = TppGenerateRequest(TppZoneConfig(Arg.server), Arg.request, Arg.origin)
    BY <1>1 DEF Policy, Generated, Zone
  <2> QED BY <2>1, <2>2, TppStaysAllowed
<1>2. CASE ~Called("tpp request")
  <2>1. /\ Recommends(Arg.template) /\ Arg.request \in Request
        /\ Arg.request.csr # NoCsr => Arg.origin = "file"
    BY <1>2 DEF Requested, Sound, CloudCall, Called, Arg
  <2>2. /\ Policy = CloudPolicyOf(Arg.template)
        /\ Generated = CloudGenerateRequest(CloudZoneConfig(Arg.template), Arg.request, Arg.origin)
    BY <1>2 DEF Policy, Generated, Zone
  <2> QED BY <2>1, <2>2, CloudStaysAllowed
<1> QED
  BY <1>1, <1>2

(* On both platforms, for every folder and template that can be read, a    *)
(* request that the policy allows stays allowed when the zone has          *)
(* completed it and its key and signing request are made, but for Ed25519  *)
(* keys and the names that are checked in a signing request only           *)
(* (endpoint.go:487, tpp.go and connector.go: GenerateRequest).            *)
THEOREM AllowedStaysAllowed == Spec => []CheckedStaysAllowed
  BY StaysAllowed, CallsAreSound, PTL

-----------------------------------------------------------------------------
(* What a folder suggests *)

(* The size a folder suggests for an RSA key, or the one that is taken when*)
(* it suggests none.                                                       *)
SuggestedSize(sp) ==
  IF KeyTypeOf(sp.algorithm.v, sp.curve.v) # "error" /\ sp.size.v # 0 THEN sp.size.v ELSE 2048

LEMMA SilentKey ==
  ASSUME NEW sp \in Folder, NEW r \in Request, r.type = "RSA", r.size = 0,
         sp.size.v \in ToSet(AllSupportedKeySizes) \cup {0}
  PROVE  LET k == GeneratePrivateKey(UpdateCertificateRequest(TppZoneConfig(sp), r))
         IN  /\ k # Failed /\ k.size = SuggestedSize(sp)
             /\ DOMAIN k = {"cn", "dns", "sans", "subject", "type", "size", "curve", "csr"}
             /\ k.cn = r.cn /\ k.dns = r.dns /\ k.sans = r.sans /\ k.type = "RSA"
             /\ k.subject = UpdateCertificateRequest(TppZoneConfig(sp), r).subject
<1> DEFINE z == TppZoneConfig(sp)
           u == UpdateCertificateRequest(z, r)
           k == GeneratePrivateKey(u)
           type == KeyTypeOf(sp.algorithm.v, sp.curve.v)
           sizes == IF sp.size.v = 0 THEN Empty ELSE <<sp.size.v>>
           size == IF u.size = 0 THEN 2048 ELSE u.size
<1>1. /\ type = "error" => z.key = Empty
      /\ type # "error" => z.key # Empty /\ z.key.sizes = sizes
  BY DEF TppZoneConfig, Empty
<1>2. /\ u.size = IF z.key = Empty THEN 2048 ELSE IF z.key.sizes # Empty THEN z.key.sizes[1] ELSE 0
      /\ DOMAIN u = {"cn", "dns", "sans", "subject", "type", "size", "curve", "csr"}
      /\ u.cn = r.cn /\ u.dns = r.dns /\ u.sans = r.sans /\ u.type = "RSA"
  BY UpdateKeeps DEF Request
<1>3. /\ sp.size.v = 0 => sizes = Empty
      /\ sp.size.v # 0 => sizes # Empty /\ sizes[1] = sp.size.v
  BY DEF Empty
<1> HIDE DEF z, u, type, sizes
<1>4. size = SuggestedSize(sp)
  BY <1>1, <1>2, <1>3 DEF SuggestedSize, type
<1>5. size \in {1024, 2048, 3072, 4096, 8192}
  BY <1>4, SupportedSizes DEF SuggestedSize
<1>6. AllSupportedKeySizes[1] = 1024
  BY DEF AllSupportedKeySizes
<1>7. k = IF size < 1024 THEN Failed ELSE [u EXCEPT !.size = size]
  BY <1>2, <1>6 DEF GeneratePrivateKey
<1>8. k = [u EXCEPT !.size = size]
  BY <1>5, <1>7
<1> HIDE DEF size, k
<1>9. DOMAIN k = DOMAIN u /\ k.size = size /\ k.cn = u.cn /\ k.dns = u.dns /\ k.sans = u.sans
        /\ k.type = u.type /\ k.subject = u.subject
  BY <1>2, <1>8
<1>10. k # Failed
  BY <1>2, <1>9 DEF Failed
<1> QED
  BY <1>2, <1>4, <1>9, <1>10 DEF k, u, z

(* An RSA key of the suggested size is one of the folder's.                *)
LEMMA SuggestedKey ==
  ASSUME NEW sp \in Folder, NEW c,
         sp.size.v \in ToSet(AllSupportedKeySizes) \cup {0},
         ~(sp.algorithm.locked /\ sp.algorithm.v # "RSA"),
         ~(KeyTypeOf(sp.algorithm.v, sp.curve.v) = "error" /\ sp.size.locked)
  PROVE  checkKey("RSA", SuggestedSize(sp), c, TppKeyPolicy(sp))
<1> DEFINE Rsa == [type |-> "RSA", sizes |-> FolderSizes(sp), curves |-> {}]
           Elliptic(t) == [type |-> t, sizes |-> {}, curves |-> FolderCurves(sp)]
           type == KeyTypeOf(sp.algorithm.v, sp.curve.v)
           ks == TppKeyPolicy(sp)
<1>1. sp.algorithm.locked \in BOOLEAN /\ sp.size.locked \in BOOLEAN
  BY DEF Folder, Lockable
<1>2. sp.algorithm.locked => type = "RSA"
  BY DEF KeyTypeOf
<1>3. ks \in {<<Rsa, Elliptic("ECDSA")>>, <<Rsa>>}
  BY <1>1, <1>2 DEF TppKeyPolicy, FolderSizes, FolderCurves
<1>4. SuggestedSize(sp) \in FolderSizes(sp)
  BY <1>1, SupportedSizes DEF SuggestedSize, FolderSizes
<1>5. Rsa.type = "RSA" /\ Rsa.sizes = FolderSizes(sp)
  OBVIOUS
<1> HIDE DEF Rsa, Elliptic, type, ks
<1>6. 1 \in DOMAIN ks /\ ks[1] = Rsa
  BY <1>3
<1>7. checkKey("RSA", SuggestedSize(sp), c, ks)
  BY <1>4, <1>5, <1>6 DEF checkKey
<1> QED
  BY <1>7 DEF ks

LEMMA SuggestedValid ==
  ASSUME NEW sp \in Folder, NEW r \in Request,
         \A f \in Fields : r.subject[f] = Empty,
         r.type = "RSA", r.size = 0, r.csr = NoCsr,
         SimpleValidateCertificateRequest(TppPolicyOf(sp), r), ~OtherNames(r),
         ~(sp.subject["ou"].locked /\ sp.subject["ou"].v = Empty),
         ~(sp.algorithm.locked /\ sp.algorithm.v # "RSA"),
         ~(KeyTypeOf(sp.algorithm.v, sp.curve.v) = "error" /\ sp.size.locked),
         sp.size.v \in ToSet(AllSupportedKeySizes) \cup {0}
  PROVE  LET g == TppGenerateRequest(TppZoneConfig(sp), r, "local")
         IN  g # Failed /\ ValidateCertificateRequest(TppPolicyOf(sp), g)
<1> DEFINE p == TppPolicyOf(sp)
           z == TppZoneConfig(sp)
           u == UpdateCertificateRequest(z, r)
           k == GeneratePrivateKey(u)
           c == Content(k)
           g == TppGenerateRequest(z, r, "local")
<1>1. /\ p.subject = TppSubjectPolicy(sp) /\ p.keys = TppKeyPolicy(sp)
  BY DEF TppPolicyOf
<1>2. /\ z.custom.management = "" /\ z.custom.manualCsr = ""
      /\ \A f \in Fields : z.subject[f] = sp.subject[f].v
  BY DEF TppZoneConfig
<1>3. \A f \in Fields : u.subject[f] = sp.subject[f].v
  <2>1. \A f \in Fields : u.subject[f] = IF r.subject[f] = Empty THEN z.subject[f] ELSE r.subject[f]
    <3> HIDE DEF z
    <3> QED BY UpdateKeeps
  <2> HIDE DEF u, z
  <2> QED BY <1>2, <2>1
<1>4. /\ k # Failed /\ k.size = SuggestedSize(sp)
      /\ DOMAIN k = {"cn", "dns", "sans", "subject", "type", "size", "curve", "csr"}
      /\ k.cn = r.cn /\ k.dns = r.dns /\ k.sans = r.sans /\ k.type = "RSA" /\ k.subject = u.subject
  BY SilentKey
<1>5. g = [k EXCEPT !.csr = c]
  <2> HIDE DEF z
  <2> QED BY <1>2, <1>4 DEF TppGenerateRequest
<1>6. ASSUME NEW f \in Fields
      PROVE  isComponentValid(u.subject[f], p.subject[f], FALSE)
  <2> HIDE DEF u, p
  <2> QED BY <1>1, <1>3, FolderSubject
<1>7. checkKey("RSA", k.size, CurveOf(k.curve), p.keys)
  <2> HIDE DEF k, p
  <2> QED BY <1>1, <1>4, SuggestedKey
<1> HIDE DEF p, z, u, k, g
<1>8. c # NoCsr
  BY <1>4, NoSigningRequest
<1>9. /\ c.cn = k.cn /\ c.dns = k.dns /\ c.sans = k.sans /\ c.subject = k.subject
      /\ c.type = k.type /\ c.size = k.size /\ c.curve = k.curve
  BY DEF Content
<1> HIDE DEF c
<1>10. g.csr = c /\ g # Failed
  BY <1>4, <1>5 DEF Failed
<1>11. Checked(g) = c
  BY <1>8, <1>10 DEF Checked
<1>12. SimpleValidateCertificateRequest(p, g)
  BY <1>4, <1>9, <1>11, CheckedSelf DEF SimpleValidateCertificateRequest, p
<1>13. ASSUME NEW s \in {"email", "ip", "uri"}
       PROVE  isComponentValid(c.sans[s], p.sans[s], TRUE)
  <2>1. r.sans[s] = Empty
    BY DEF OtherNames, Request
  <2> QED BY <2>1, <1>4, <1>9 DEF isComponentValid
<1>14. KeyValid(p, g)
  BY <1>4, <1>7, <1>8, <1>9, <1>10, <1>11 DEF KeyValid
<1>15. ValidateCertificateRequest(p, g)
  BY <1>4, <1>6, <1>9, <1>11, <1>12, <1>13, <1>14 DEF ValidateCertificateRequest
<1> QED
  BY <1>10, <1>15 DEF p, z, g

LEMMA Suggested ==
  ASSUME Sound(call)
  PROVE  SuggestedIsAllowed
<1> DEFINE sp == Arg.server
           r == Arg.request
<1> SUFFICES ASSUME Called("tpp request"), Arg.origin = "local",
                    \A f \in Fields : r.subject[f] = Empty,
                    r.type = "RSA", r.size = 0, r.csr = NoCsr,
                    SimpleValidateCertificateRequest(Policy, r), ~OtherNames(r),
                    ~(sp.subject["ou"].locked /\ sp.subject["ou"].v = Empty),
                    ~(sp.algorithm.locked /\ sp.algorithm.v # "RSA"),
                    ~(KeyTypeOf(sp.algorithm.v, sp.curve.v) = "error" /\ sp.size.locked),
                    sp.size.v \in ToSet(AllSupportedKeySizes) \cup {0}
             PROVE  Generated # Failed /\ ValidateCertificateRequest(Policy, Generated)
  BY Zenon DEF SuggestedIsAllowed
<1>1. sp \in Folder /\ r \in Request
  BY DEF Sound, TppCall, Called, Arg
<1>2. /\ Policy = TppPolicyOf(sp)
      /\ Generated = TppGenerateRequest(TppZoneConfig(sp), r, "local")
  BY DEF Policy, Generated, Zone
<1> HIDE DEF sp, r
<1> QED
  BY <1>1, <1>2, SuggestedValid

(* What any folder suggests, for a request that says nothing of its subject*)
(* and its key, the folder allows, but for the exceptions that the         *)
(* property names (endpoint.go:487, tpp.go:857 and 881).                   *)
THEOREM SuggestedPasses == Spec => []SuggestedIsAllowed
  BY Suggested, CallsAreSound, PTL

-----------------------------------------------------------------------------
(* Commands: what the steps before the checks leave of one *)

Same(a, b) ==
  /\ DOMAIN b = DOMAIN a
  /\ b.name = a.name /\ b.env = a.env /\ b.typed = a.typed /\ b.loaded = a.loaded
  /\ b.generated = a.generated

LEMMA BegunKeeps ==
  ASSUME NEW a, DOMAIN a = Parts
  PROVE  LET b == runBeforeCommand(a)
         IN  /\ Same(a, b) /\ b.flags = a.flags /\ b.password = a.password
             /\ b.keyPassword = a.keyPassword
             /\ \A w : w # "csr" => Word(b, w) = Word(a, w)
<1> DEFINE words == [w \in DOMAIN a.words \cup {"csr"} |->
                       IF w \in DOMAIN a.words THEN a.words[w] ELSE "service"]
           b == [a EXCEPT !.words = words]
<1>1. runBeforeCommand(a) = a \/ runBeforeCommand(a) = b
  BY DEF runBeforeCommand
<1>2. \A w : w # "csr" => (w \in DOMAIN words <=> w \in DOMAIN a.words)
               /\ (w \in DOMAIN a.words => words[w] = a.words[w])
  OBVIOUS
<1> HIDE DEF words
<1>3. /\ Same(a, b) /\ b.flags = a.flags /\ b.password = a.password
      /\ b.keyPassword = a.keyPassword /\ b.words = words
  BY DEF Same, Parts
<1> HIDE DEF b
<1>4. \A w : w # "csr" => Word(b, w) = Word(a, w)
  BY <1>2, <1>3 DEF Word
<1>5. Same(a, a)
  BY DEF Same
<1> QED
  BY <1>1, <1>3, <1>4, <1>5

(* A pickup knows the flags of the environment from the beginning.         *)
LEMMA PreparedKeeps ==
  ASSUME NEW a, DOMAIN a = Parts
  PROVE  LET r == Prepared(a)
         IN  /\ Same(a, r) /\ r.password = a.password
             /\ r.flags \in {a.flags, a.flags \cup a.env}
             /\ r.keyPassword \in {a.keyPassword, Temporary}
             /\ \A w : w # "csr" => Word(r, w) = Word(a, w)
<1> DEFINE b == runBeforeCommand(a)
           given == [b EXCEPT !.flags = b.flags \cup b.env]
           r == Prepared(a)
<1>1. /\ Same(a, b) /\ b.flags = a.flags /\ b.password = a.password
      /\ b.keyPassword = a.keyPassword
      /\ \A w : w # "csr" => Word(b, w) = Word(a, w)
  BY BegunKeeps
<1>2. r \in {b, given, [b EXCEPT !.keyPassword = Temporary], [given EXCEPT !.keyPassword = Temporary]}
  <2> HIDE DEF b
  <2> QED BY DEF Prepared, doCommandPickup1, assignEnvVarsToFlags, b
<1> HIDE DEF b
<1>3. DOMAIN b = Parts
  BY <1>1 DEF Same
<1>4. /\ Same(b, given) /\ given.flags = b.flags \cup b.env /\ given.password = b.password
      /\ given.keyPassword = b.keyPassword /\ given.words = b.words
  BY <1>3 DEF Same, Parts
<1> HIDE DEF given
<1>5. DOMAIN given = Parts
  BY <1>3, <1>4 DEF Same
<1>6. \A c : DOMAIN c = Parts =>
        LET t == [c EXCEPT !.keyPassword = Temporary]
        IN  /\ Same(c, t) /\ t.flags = c.flags /\ t.password = c.password
            /\ t.keyPassword = Temporary /\ t.words = c.words
  BY DEF Same, Parts
<1> HIDE DEF r
<1>7. /\ Same(a, r) /\ r.password = a.password
      /\ r.flags \in {a.flags, a.flags \cup a.env}
      /\ r.keyPassword \in {a.keyPassword, Temporary}
      /\ r.words = b.words
  <2>1. CASE r = b
    BY <1>1, <2>1
  <2>2. CASE r = given
    BY <1>1, <1>4, <2>2 DEF Same
  <2>3. CASE r = [b EXCEPT !.keyPassword = Temporary]
    BY <1>1, <1>3, <1>6, <2>3 DEF Same
  <2>4. CASE r = [given EXCEPT !.keyPassword = Temporary]
    BY <1>1, <1>4, <1>5, <1>6, <2>4 DEF Same
  <2> QED BY <1>2, <2>1, <2>2, <2>3, <2>4
<1> QED
  BY <1>1, <1>7 DEF Word, r

(* The password of the connection is all that is read into the flags.      *)
LEMMA ConnectionPasswordKeeps ==
  ASSUME NEW c, DOMAIN c = Parts
  PROVE  LET d == ConnectionPassword(c)
         IN  /\ Same(c, d) /\ d.words = c.words
             /\ d.flags \in {c.flags, c.flags \cup {"p12PW"}, c.flags \cup {"password"}}
<1> DEFINE d == ConnectionPassword(c)
           FromFlag == [c EXCEPT !.password = readPasswordsFromInputFlag(c.password, 1)]
           Protected == [c EXCEPT !.flags = c.flags \cup {"p12PW"}]
           Typed == [c EXCEPT !.flags = c.flags \cup {"password"}, !.password = c.typed]
<1>1. d \in {c, FromFlag, Protected, Typed}
  BY DEF ConnectionPassword
<1>2. Same(c, FromFlag) /\ FromFlag.words = c.words /\ FromFlag.flags = c.flags
  <2> DEFINE x == readPasswordsFromInputFlag(c.password, 1)
  <2> HIDE DEF x
  <2> QED BY DEF Same, Parts
<1>3. Same(c, Protected) /\ Protected.words = c.words /\ Protected.flags = c.flags \cup {"p12PW"}
  BY DEF Same, Parts
<1>4. Same(c, Typed) /\ Typed.words = c.words /\ Typed.flags = c.flags \cup {"password"}
  BY DEF Same, Parts
<1>5. Same(c, c)
  BY DEF Same
<1> HIDE DEF d, FromFlag, Protected, Typed
<1> QED
  BY <1>1, <1>2, <1>3, <1>4, <1>5 DEF d

LEMMA CarriedKeeps ==
  ASSUME NEW a, DOMAIN a = Parts
  PROVE  LET r == Prepared(a)
             k == Carried(a)
         IN  /\ Same(a, k) /\ \A w : w # "csr" => Word(k, w) = Word(a, w)
             /\ k.flags \in {r.flags, r.flags \cup {"p12PW"}, r.flags \cup {"password"}}
<1> DEFINE r == Prepared(a)
           k == Carried(a)
           kp == IF r.keyPassword.how = "file" THEN Plain(r.keyPassword.lines) ELSE r.keyPassword
           c == [r EXCEPT !.keyPassword = kp]
           d == ConnectionPassword(c)
           read == [d EXCEPT !.keyPassword = KeyPassword(c)]
<1>1. Same(a, r) /\ \A w : w # "csr" => Word(r, w) = Word(a, w)
  BY PreparedKeeps
<1>2. k = r \/ k = read
  <2> HIDE DEF r
  <2> QED BY DEF Carried, readData, readPasswordsFromInputFlags, r
<1> HIDE DEF r, kp
<1>3. DOMAIN r = Parts
  BY <1>1 DEF Same
<1>4. Same(r, c) /\ c.words = r.words /\ c.flags = r.flags /\ DOMAIN c = Parts
  BY <1>3 DEF Same, Parts
<1> HIDE DEF c
<1>5. /\ Same(c, d) /\ d.words = c.words
      /\ d.flags \in {c.flags, c.flags \cup {"p12PW"}, c.flags \cup {"password"}}
  BY <1>4, ConnectionPasswordKeeps
<1> HIDE DEF d
<1>6. DOMAIN d = Parts
  BY <1>4, <1>5 DEF Same
<1>7. Same(d, read) /\ read.words = d.words /\ read.flags = d.flags
  BY <1>6 DEF Same, Parts
<1> HIDE DEF read, k
<1>8. Same(a, k) /\ k.words = r.words
        /\ k.flags \in {r.flags, r.flags \cup {"p12PW"}, r.flags \cup {"password"}}
  <2>1. CASE k = r
    BY <1>1, <2>1
  <2>2. CASE k = read
    BY <1>1, <1>4, <1>5, <1>7, <2>2 DEF Same
  <2> QED BY <1>2, <2>1, <2>2
<1> QED
  BY <1>1, <1>8 DEF Word, r, k

-----------------------------------------------------------------------------
(* The platform that is checked *)

LEMMA PlatformWords ==
  ASSUME NEW word
  PROVE  GetPlatformType(word) \in {"firefly", "tpp", "cloud", "fake", "undefined"}
  BY DEF GetPlatformType

(* What the environment cannot set is set by a flag.                       *)
LEMMA NotInEnvironment ==
  ASSUME NEW a, Command(a)
  PROVE  LET r == Prepared(a)
         IN  \A x \in {"config", "testMode", "p12", "email", "noPrompt", "pickupID", "pickupIDFile"} :
               (x \in r.flags <=> x \in a.flags) /\ x \notin a.env
  BY PreparedKeeps DEF Command, envVarList

(* A command without a configuration file: its platform is a fake one, or  *)
(* one whose checks it passed.                                             *)
LEMMA PlatformCases ==
  ASSUME NEW a, Command(a), Passes(a), a.name \notin Offline, Platform(Prepared(a)) # "config"
  PROVE  LET r == Prepared(a)
             p == CheckedPlatform(r)
         IN  /\ ~ Set(r, "config")
             /\ \/ Set(r, "testMode") /\ Platform(r) = "fake" /\ a.name # "getcred"
                \/ /\ ~ Set(r, "testMode") /\ Platform(r) = p
                   /\ \/ p = "tpp" /\ validateConnectionFlagsTPP(r)
                      \/ p = "cloud" /\ validateConnectionFlagsCloud(r)
                      \/ p = "firefly" /\ validateConnectionFlagsFirefly(r)
<1> DEFINE r == Prepared(a)
           p == CheckedPlatform(r)
<1>1. r.name = a.name
  BY PreparedKeeps DEF Same, Command
<1>2. Platform(r) # Denied /\ a.flags \subseteq FlagsOf[a.name]
  BY DEF Passes, Allowed
<1>3. p \in {"tpp", "cloud", "firefly"}
  <2> HIDE DEF r
  <2> QED BY DEF CheckedPlatform
<1>4. CASE a.name = "provision"
  <2>1. FlagsOf["provision"] = credentialsFlags
                \cup {"platform", "keystoreARN", "certificateID", "certificateIDFile",
                      "keystoreCertName", "outputFile", "format", "keystoreID", "keystoreName",
                      "pickupID", "pickupIDFile", "providerName"}
    BY DEF FlagsOf
  <2>2. "config" \notin a.flags /\ "testMode" \notin a.flags
    BY <1>2, <1>4, <2>1 DEF credentialsFlags
  <2>3. ~ Set(r, "config") /\ ~ Set(r, "testMode")
    BY <2>2, NotInEnvironment DEF Set
  <2> HIDE DEF r
  <2> QED
    BY <1>1, <1>2, <1>4, <2>3 DEF Platform, validateProvisionConnectionFlags, r
<1>5. CASE a.name # "provision"
  <2> HIDE DEF r
  <2>1. Platform(r) = validateConnectionFlags(r)
    BY <1>1, <1>5 DEF Platform
  <2>2. commonConnectionFlagsValidations(r) /\ ~ Set(r, "config")
    BY <1>2, <2>1 DEF validateConnectionFlags, r
  <2>3. CASE Set(r, "testMode")
    <3>1. Platform(r) = "fake"
      BY <2>1, <2>2, <2>3 DEF validateConnectionFlags
    <3> QED BY <1>1, <2>2, <2>3, <3>1 DEF commonConnectionFlagsValidations, r
  <2>4. CASE ~ Set(r, "testMode")
    <3> DEFINE passed == CASE p = "tpp" -> validateConnectionFlagsTPP(r)
                           [] p = "cloud" -> validateConnectionFlagsCloud(r)
                           [] OTHER -> validateConnectionFlagsFirefly(r)
    <3>1. Platform(r) = IF passed THEN p ELSE Denied
      BY <2>1, <2>2, <2>4 DEF validateConnectionFlags
    <3>2. passed /\ Platform(r) = p
      BY <1>2, <3>1 DEF r
    <3> HIDE DEF p
    <3> QED BY <1>3, <2>2, <2>4, <3>2 DEF r, p
  <2> QED BY <2>3, <2>4
<1> QED
  BY <1>4, <1>5

(* The flags the connector is made from: those of the environment count.   *)
Joined(a) == assignEnvVarsToFlags(Carried(a))

LEMMA JoinedFlags ==
  ASSUME NEW a, Command(a)
  PROVE  LET r == Prepared(a)
             e == Joined(a)
         IN  /\ e.name = a.name
             /\ \A w : w # "csr" => Word(e, w) = Word(a, w) /\ Word(r, w) = Word(a, w)
             /\ e.flags = Carried(a).flags \cup r.env
             /\ \A x : x \notin {"p12PW", "password"} =>
                  (x \in e.flags <=> Given(r, x)) /\ (x \in Carried(a).flags <=> Set(r, x))
             /\ Set(Carried(a), "config") <=> Set(r, "config")
<1> DEFINE r == Prepared(a)
           k == Carried(a)
           e == Joined(a)
<1>1. DOMAIN a = Parts
  BY DEF Command
<1>2. Same(a, r) /\ \A w : w # "csr" => Word(r, w) = Word(a, w)
  BY <1>1, PreparedKeeps
<1>3. /\ Same(a, k) /\ \A w : w # "csr" => Word(k, w) = Word(a, w)
      /\ k.flags \in {r.flags, r.flags \cup {"p12PW"}, r.flags \cup {"password"}}
  BY <1>1, CarriedKeeps
<1> HIDE DEF r
<1>4. e = [k EXCEPT !.flags = k.flags \cup k.env]
  BY DEF Joined, assignEnvVarsToFlags
<1> HIDE DEF k, e
<1>5. DOMAIN k = Parts
  BY <1>1, <1>3 DEF Same
<1>6. e.name = k.name /\ e.words = k.words /\ e.flags = k.flags \cup k.env
  BY <1>4, <1>5 DEF Parts
<1>7. \A w : Word(e, w) = Word(k, w)
  BY <1>6 DEF Word
<1>8. k.env = a.env /\ r.env = a.env /\ k.name = a.name
  BY <1>2, <1>3 DEF Same
<1>9. \A x : x \notin {"p12PW", "password"} => (x \in k.flags <=> x \in r.flags)
  BY <1>3
<1>10. \A x : x \notin {"p12PW", "password"} => (x \in e.flags <=> Given(r, x))
  BY <1>6, <1>8, <1>9 DEF Given
<1> QED
  BY <1>2, <1>3, <1>6, <1>7, <1>8, <1>9, <1>10 DEF Set, k, e, r

LEMMA ConnectionType ==
  ASSUME NEW a, Command(a), ~ Set(Prepared(a), "config")
  PROVE  LET r == Prepared(a)
             named == GetPlatformType(Word(a, "platform"))
         IN  /\ buildConfig(Carried(a)) = buildConfigFromFlags(Joined(a))
             /\ buildConfig(Carried(a)).type =
                  IF Set(r, "testMode") THEN "fake"
                  ELSE IF named \in {"tpp", "cloud", "firefly"} THEN named
                  ELSE IF Given(r, "user") \/ Given(r, "token") THEN "tpp" ELSE "cloud"
<1> DEFINE r == Prepared(a)
           e == Joined(a)
           named == GetPlatformType(Word(a, "platform"))
           guess == IF Set(e, "user") \/ Set(e, "token") THEN "tpp" ELSE "cloud"
           p == IF named \in {"tpp", "cloud", "firefly"} THEN named ELSE guess
<1>1. buildConfig(Carried(a)) = buildConfigFromFlags(e)
  BY JoinedFlags DEF buildConfig, Joined
<1>2. Word(e, "platform") = Word(a, "platform")
  BY JoinedFlags
<1>3. /\ Set(e, "user") <=> Given(r, "user")
      /\ Set(e, "token") <=> Given(r, "token")
      /\ Set(e, "testMode") <=> Given(r, "testMode")
  BY JoinedFlags DEF Set
<1>4. Given(r, "testMode") <=> Set(r, "testMode")
  BY NotInEnvironment, PreparedKeeps DEF Given, Set, Same, Command
<1> HIDE DEF e, r
<1>5. p \in {"tpp", "cloud", "firefly"}
  OBVIOUS
<1>6. buildConfigFromFlags(e) =
        IF Set(e, "testMode") THEN buildConfigFake
        ELSE CASE p = "tpp" -> buildConfigTPP(e)
               [] p = "cloud" -> buildConfigVaaS(e)
               [] OTHER -> buildConfigFirefly(e)
  BY <1>2 DEF buildConfigFromFlags
<1>7. /\ buildConfigFake.type = "fake" /\ buildConfigTPP(e).type = "tpp"
      /\ buildConfigVaaS(e).type = "cloud" /\ buildConfigFirefly(e).type = "firefly"
  BY DEF buildConfigFake, buildConfigTPP, buildConfigVaaS, buildConfigFirefly
<1>8. buildConfigFromFlags(e).type = IF Set(e, "testMode") THEN "fake" ELSE p
  <2> HIDE DEF p
  <2> QED BY <1>5, <1>6, <1>7
<1> QED
  BY <1>1, <1>3, <1>4, <1>8 DEF r, e

LEMMA PlatformIsUsed ==
  ASSUME Sound(call)
  PROVE  CheckedPlatformIsUsed
<1> SUFFICES ASSUME Connecting, Platform(Ready) # "config"
             PROVE  CheckedPlatformIsUsed
  BY DEF CheckedPlatformIsUsed
<1> DEFINE a == Arg
           r == Ready
           named == GetPlatformType(Word(a, "platform"))
           guessed == named \in {"undefined", "fake"}
           certificate == Set(r, "p12") /\ ~ Given(r, "user")
           user == Given(r, "user") /\ ~ Used(r, {"user", "p12"})
<1>1. Command(a) /\ Passes(a) /\ a.name \notin Offline /\ r = Prepared(a)
  BY DEF Sound, CommandCall, Connecting, Called, Arg, Ready
<1> HIDE DEF a, r
<1>2. /\ ~ Set(r, "config")
      /\ \/ Set(r, "testMode") /\ Platform(r) = "fake"
         \/ ~ Set(r, "testMode") /\ Platform(r) = CheckedPlatform(r)
  BY <1>1, PlatformCases DEF r
<1>3. buildConfig(Carried(a)).type =
        IF Set(r, "testMode") THEN "fake"
        ELSE IF named \in {"tpp", "cloud", "firefly"} THEN named
        ELSE IF Given(r, "user") \/ Given(r, "token") THEN "tpp" ELSE "cloud"
  BY <1>1, <1>2, ConnectionType
<1>4. CheckedPlatform(r) = IF named \in {"tpp", "cloud", "firefly"} THEN named
                           ELSE IF Set(r, "user") \/ Given(r, "token") \/ Set(r, "p12")
                                THEN "tpp" ELSE "cloud"
  <2>1. Word(r, "platform") = Word(a, "platform")
    BY <1>1, JoinedFlags
  <2> QED BY <2>1 DEF CheckedPlatform
<1>5. named \in {"firefly", "tpp", "cloud", "fake", "undefined"}
  BY PlatformWords
<1>6. Set(r, "user") => Given(r, "user")
  BY DEF Set, Given
<1>7. Used(r, {"user", "p12"}) <=> Set(r, "user") \/ Set(r, "p12")
  BY DEF Used, Set
<1> HIDE DEF named
<1>8. buildConfig(Carried(a)).type = Platform(r)
        <=> ~ (guessed /\ ~ Given(r, "token") /\ ~ Set(r, "testMode") /\ (certificate \/ user))
  BY <1>2, <1>3, <1>4, <1>5, <1>6, <1>7
<1> QED
  BY <1>8 DEF CheckedPlatformIsUsed, Connection, a, r, named

-----------------------------------------------------------------------------
(* Sections of a configuration file *)

SectionType(s) ==
  IF "tpp_user" \in s.keys \/ "access_token" \in s.keys THEN "tpp"
  ELSE IF "cloud_apikey" \in s.keys THEN "cloud"
  ELSE IF "oauth_client_id" \in s.keys \/ "oauth_access_token" \in s.keys THEN "firefly"
  ELSE IF "test_mode" \in s.keys /\ s.test = "true" THEN "fake" ELSE Denied
SectionKeysOf(type) ==
  CASE type = "tpp" -> tppKeys [] type = "cloud" -> cloudKeys
    [] type = "firefly" -> fireflyKeys [] OTHER -> {}

LEMMA Loaded ==
  ASSUME NEW s
  PROVE  LET cfg == LoadConfigFromFile(s)
             type == SectionType(s)
         IN  /\ cfg.type = type
             /\ cfg.zone = IF "cloud_zone" \in s.keys /\ type \in {"tpp", "cloud"} THEN {"cloud_zone"}
                           ELSE CASE type = "tpp" -> s.keys \cap {"tpp_zone"}
                                  [] type = "firefly" -> s.keys \cap {"firefly_zone"}
                                  [] OTHER -> {}
             /\ \A key \in ((s.keys \ s.empty) \cap SectionKeysOf(type)) \cap DOMAIN CredentialOf :
                  CredentialOf[key] \in cfg.has
<1> DEFINE type == SectionType(s)
           read == SectionKeysOf(type)
           zone == IF "cloud_zone" \in s.keys /\ type \in {"tpp", "cloud"} THEN {"cloud_zone"}
                   ELSE CASE type = "tpp" -> s.keys \cap {"tpp_zone"}
                          [] type = "firefly" -> s.keys \cap {"firefly_zone"}
                          [] OTHER -> {}
           has == {CredentialOf[k] : k \in ((s.keys \ s.empty) \cap read) \cap DOMAIN CredentialOf}
<1>1. LoadConfigFromFile(s) = [type |-> type, zone |-> zone, has |-> has]
  BY Zenon DEF LoadConfigFromFile, SectionType, SectionKeysOf
<1> HIDE DEF zone, type
<1> QED
  BY <1>1 DEF zone, type

(* Sections that pass the checks, by what they are for.                    *)
LEMMA TppSection ==
  ASSUME NEW s, validateSection(s), SectionType(s) = "tpp"
  PROVE  /\ s.keys \subseteq tppKeys \cup commonKeys
         /\ "access_token" \in s.keys \/ {"tpp_user", "tpp_password"} \subseteq s.keys
  BY DEF validateSection, SectionType, Denied

LEMMA CloudSection ==
  ASSUME NEW s, validateSection(s), SectionType(s) = "cloud"
  PROVE  s.keys \subseteq cloudKeys \cup commonKeys /\ "cloud_apikey" \in s.keys
  BY DEF validateSection, SectionType, Denied, tppKeys, commonKeys

LEMMA FireflySection ==
  ASSUME NEW s, validateSection(s), SectionType(s) = "firefly"
  PROVE  /\ s.keys \subseteq fireflyKeys \cup commonKeys
         /\ \/ "oauth_access_token" \in s.keys
            \/ {"oauth_user", "oauth_password"} \subseteq s.keys
            \/ "oauth_client_secret" \in s.keys \/ "oauth_device_url" \in s.keys
  BY DEF validateSection, SectionType, Denied, tppKeys, commonKeys

LEMMA OtherSection ==
  ASSUME NEW s, validateSection(s), SectionType(s) \notin {"tpp", "cloud", "firefly"}
  PROVE  /\ "test_mode" \in s.keys
         /\ SectionType(s) = IF s.test = "true" THEN "fake" ELSE Denied
<1> DEFINE tpp == "tpp_user" \in s.keys \/ "access_token" \in s.keys
           cloud == "cloud_apikey" \in s.keys
           firefly == "oauth_client_id" \in s.keys \/ "oauth_access_token" \in s.keys
           fake == "test_mode" \in s.keys /\ s.test = "true"
<1>1. SectionType(s) = IF tpp THEN "tpp" ELSE IF cloud THEN "cloud" ELSE IF firefly THEN "firefly"
                       ELSE IF fake THEN "fake" ELSE Denied
  BY DEF SectionType
<1>2. ~ tpp /\ ~ cloud /\ ~ firefly
  <2> HIDE DEF tpp, cloud, firefly, fake
  <2> QED BY <1>1
<1>3. "test_mode" \in s.keys
  BY <1>2 DEF validateSection
<1>4. SectionType(s) = IF s.test = "true" THEN "fake" ELSE Denied
  <2>1. fake <=> s.test = "true"
    BY <1>3
  <2> HIDE DEF tpp, cloud, firefly, fake
  <2> QED BY <1>1, <1>2, <2>1
<1> QED
  BY <1>3, <1>4

LEMMA SectionOfOne ==
  ASSUME Sound(call)
  PROVE  SectionIsComplete
<1> DEFINE s == Arg
           cfg == LoadConfigFromFile(s)
           type == SectionType(s)
           zones == {k \in s.keys : k \in {"tpp_zone", "cloud_zone", "firefly_zone"}}
           keys == [tpp |-> tppKeys, cloud |-> cloudKeys, firefly |-> fireflyKeys]
           Complete == \/ cfg.type = "fake" /\ "test_mode" \in s.keys
                       \/ /\ s.keys \subseteq keys[cfg.type] \cup commonKeys
                          /\ cfg.zone = zones
                          /\ s.empty = {} => Authenticate(cfg) \notin {"none", "anonymous"}
<1> SUFFICES ASSUME validateFile(s)
             PROVE  IF cfg.type = Denied THEN s.test # "true" \/ s.keys = {} ELSE Complete
  BY DEF SectionIsComplete
<1>1. /\ cfg.type = type
      /\ cfg.zone = IF "cloud_zone" \in s.keys /\ type \in {"tpp", "cloud"} THEN {"cloud_zone"}
                    ELSE CASE type = "tpp" -> s.keys \cap {"tpp_zone"}
                           [] type = "firefly" -> s.keys \cap {"firefly_zone"}
                           [] OTHER -> {}
      /\ \A key \in ((s.keys \ s.empty) \cap SectionKeysOf(type)) \cap DOMAIN CredentialOf :
           CredentialOf[key] \in cfg.has
  BY Loaded
<1> HIDE DEF cfg, s
<1>2. CASE s.keys = {}
  BY <1>1, <1>2 DEF SectionType
<1>3. CASE validateSection(s) /\ type = "tpp"
  <2>1. /\ s.keys \subseteq tppKeys \cup commonKeys
        /\ "access_token" \in s.keys \/ {"tpp_user", "tpp_password"} \subseteq s.keys
    BY <1>3, TppSection
  <2>2. cfg.zone = zones
    BY <1>1, <1>3, <2>1 DEF tppKeys, commonKeys
  <2>3. ASSUME s.empty = {}
        PROVE  Authenticate(cfg) \notin {"none", "anonymous"}
    <3>1. \A key \in s.keys \cap {"access_token", "tpp_user", "tpp_password"} : CredentialOf[key] \in cfg.has
      BY <1>1, <1>3, <2>3 DEF SectionKeysOf, tppKeys, CredentialOf
    <3>2. "accessToken" \in cfg.has \/ {"user", "password"} \subseteq cfg.has
      BY <2>1, <3>1 DEF CredentialOf
    <3> QED BY <1>1, <1>3, <3>2 DEF Authenticate, TppAuthenticate
  <2> QED BY <1>1, <1>3, <2>1, <2>2, <2>3 DEF Denied
<1>4. CASE validateSection(s) /\ type = "cloud"
  <2>1. s.keys \subseteq cloudKeys \cup commonKeys /\ "cloud_apikey" \in s.keys
    BY <1>4, CloudSection
  <2>2. cfg.zone = zones
    BY <1>1, <1>4, <2>1 DEF cloudKeys, commonKeys
  <2>3. ASSUME s.empty = {}
        PROVE  Authenticate(cfg) \notin {"none", "anonymous"}
    <3>1. CredentialOf["cloud_apikey"] \in cfg.has
      BY <1>1, <1>4, <2>1, <2>3 DEF SectionKeysOf, cloudKeys, CredentialOf
    <3>2. "apiKey" \in cfg.has
      BY <3>1 DEF CredentialOf
    <3> QED BY <1>1, <1>4, <3>2 DEF Authenticate, CloudAuthenticate
  <2> QED BY <1>1, <1>4, <2>1, <2>2, <2>3 DEF Denied
<1>5. CASE validateSection(s) /\ type = "firefly"
  <2>1. /\ s.keys \subseteq fireflyKeys \cup commonKeys
        /\ \/ "oauth_access_token" \in s.keys
           \/ {"oauth_user", "oauth_password"} \subseteq s.keys
           \/ "oauth_client_secret" \in s.keys \/ "oauth_device_url" \in s.keys
    BY <1>5, FireflySection
  <2>2. cfg.zone = zones
    BY <1>1, <1>5, <2>1 DEF fireflyKeys, commonKeys
  <2>3. ASSUME s.empty = {}
        PROVE  Authenticate(cfg) \notin {"none", "anonymous"}
    <3>1. \A key \in s.keys \cap {"oauth_access_token", "oauth_user", "oauth_password",
                                  "oauth_client_secret", "oauth_device_url"} :
            CredentialOf[key] \in cfg.has
      BY <1>1, <1>5, <2>3 DEF SectionKeysOf, fireflyKeys, CredentialOf
    <3>2. \/ "accessToken" \in cfg.has \/ {"user", "password"} \subseteq cfg.has
          \/ "clientSecret" \in cfg.has \/ "deviceURL" \in cfg.has
      BY <2>1, <3>1 DEF CredentialOf
    <3> QED BY <1>1, <1>5, <3>2 DEF Authenticate, FireflyAuthenticate, Authorize
  <2> QED BY <1>1, <1>5, <2>1, <2>2, <2>3 DEF Denied
<1>6. CASE validateSection(s) /\ type \notin {"tpp", "cloud", "firefly"}
  BY <1>1, <1>6, OtherSection DEF Denied
<1> QED
  BY <1>2, <1>3, <1>4, <1>5, <1>6 DEF validateFile

(* The platform that was checked is the one that is connected, for every   *)
(* command, whatever of its flags it is given, but for two guesses: that   *)
(* of a client certificate without a user, and that of a user whom only    *)
(* the environment names.  And every section of a configuration file that  *)
(* passes stands for one platform (validators.go:147, config.go:74).       *)
THEOREM OnePlatform == Spec => []PlatformIsOne
<1>1. Sound(call) => PlatformIsOne
  BY PlatformIsUsed, SectionOfOne DEF PlatformIsOne
<1> QED
  BY <1>1, CallsAreSound, PTL

-----------------------------------------------------------------------------
(* The passwords and flags a command is carried out with, exactly *)

Asks(c) == c.name \in {"enroll", "pickup", "getcred"} /\ Set(c, "url")
Protects(c) == Set(c, "p12") /\ ~ Set(c, "p12PW")
Types(c) == Set(c, "user") /\ ~ Used(c, {"password", "noPrompt", "token"})

LEMMA ConnectionPasswordIs ==
  ASSUME NEW c, DOMAIN c = Parts
  PROVE  LET d == ConnectionPassword(c)
         IN  /\ d.flags = IF ~ Asks(c) THEN c.flags
                          ELSE IF Protects(c) THEN c.flags \cup {"p12PW"}
                          ELSE IF Types(c) THEN c.flags \cup {"password"} ELSE c.flags
             /\ (Asks(c) /\ ~ Protects(c) /\ ~ Types(c)) =>
                  d.password = readPasswordsFromInputFlag(c.password, 1)
<1> DEFINE d == ConnectionPassword(c)
           x == readPasswordsFromInputFlag(c.password, 1)
           FromFlag == [c EXCEPT !.password = x]
           Protected == [c EXCEPT !.flags = c.flags \cup {"p12PW"}]
           Typed == [c EXCEPT !.flags = c.flags \cup {"password"}, !.password = c.typed]
<1>1. d = IF ~ Asks(c) THEN c ELSE IF Protects(c) THEN Protected
          ELSE IF Types(c) THEN Typed ELSE FromFlag
  BY DEF ConnectionPassword, Asks, Protects, Types
<1> HIDE DEF x
<1>2. FromFlag.flags = c.flags /\ FromFlag.password = x
  BY DEF Parts
<1>3. Protected.flags = c.flags \cup {"p12PW"} /\ Typed.flags = c.flags \cup {"password"}
  BY DEF Parts
<1> HIDE DEF d, FromFlag, Protected, Typed
<1>4. CASE ~ Asks(c)
  BY <1>1, <1>4 DEF d
<1>5. CASE Asks(c) /\ Protects(c)
  BY <1>1, <1>3, <1>5 DEF d
<1>6. CASE Asks(c) /\ ~ Protects(c) /\ Types(c)
  BY <1>1, <1>3, <1>6 DEF d
<1>7. CASE Asks(c) /\ ~ Protects(c) /\ ~ Types(c)
  BY <1>1, <1>2, <1>7 DEF d, x
<1> QED
  BY <1>4, <1>5, <1>6, <1>7

(* What is read: the password file of the key is, as a whole, already.     *)
Opened(r) ==
  [r EXCEPT !.keyPassword =
     IF r.keyPassword.how = "file" THEN Plain(r.keyPassword.lines) ELSE r.keyPassword]

LEMMA CarriedIs ==
  ASSUME NEW a, Command(a), a.name \notin {"setpolicy", "getpolicy", "sshgetconfig"}
  PROVE  LET r == Prepared(a)
             c == Opened(r)
             k == Carried(a)
         IN  /\ DOMAIN c = Parts /\ Same(r, c) /\ c.flags = r.flags /\ c.words = r.words
             /\ c.password = r.password
             /\ c.keyPassword = IF r.keyPassword.how = "file" THEN Plain(r.keyPassword.lines)
                                ELSE r.keyPassword
             /\ k.flags = ConnectionPassword(c).flags /\ k.words = c.words
             /\ k.password = ConnectionPassword(c).password /\ k.keyPassword = KeyPassword(c)
<1> DEFINE r == Prepared(a)
           kp == IF r.keyPassword.how = "file" THEN Plain(r.keyPassword.lines) ELSE r.keyPassword
           c == Opened(r)
           k == Carried(a)
           d == ConnectionPassword(c)
<1>1. DOMAIN a = Parts
  BY DEF Command
<1>2. DOMAIN r = Parts
  BY <1>1, PreparedKeeps DEF Same
<1> HIDE DEF r
<1>3. c = [r EXCEPT !.keyPassword = kp]
  BY DEF Opened
<1>4. k = [d EXCEPT !.keyPassword = KeyPassword(c)]
  BY DEF Carried, readData, readPasswordsFromInputFlags, Opened, r
<1> HIDE DEF c, kp
<1>5. /\ DOMAIN c = Parts /\ Same(r, c) /\ c.flags = r.flags /\ c.words = r.words
      /\ c.password = r.password /\ c.keyPassword = kp
  BY <1>2, <1>3 DEF Same, Parts
<1>6. DOMAIN d = Parts /\ d.words = c.words
  BY <1>5, ConnectionPasswordKeeps DEF Same
<1> HIDE DEF d, k
<1>7. /\ k.flags = d.flags /\ k.words = d.words /\ k.password = d.password
      /\ k.keyPassword = KeyPassword(c)
  BY <1>4, <1>6 DEF Parts
<1> QED
  BY <1>5, <1>6, <1>7 DEF r, kp, c, d, k

-----------------------------------------------------------------------------
(* The credentials *)

(* The user is asked for the password of the connection.                   *)
Prompted(r) ==
  /\ r.name \in {"enroll", "pickup", "getcred"} /\ {"url", "user"} \subseteq r.flags
  /\ ~ Set(r, "token") /\ (Set(r, "p12") => Set(r, "p12PW"))

LEMMA PasswordOfUser ==
  ASSUME NEW a, Command(a), a.name \notin {"setpolicy", "getpolicy", "sshgetconfig"},
         Given(Prepared(a), "user") =>
           Given(Prepared(a), "password") \/ ~ Set(Prepared(a), "noPrompt")
  PROVE  LET r == Prepared(a)
         IN  Given(r, "user") =>
               ("password" \in Joined(a).flags <=> Given(r, "password") \/ Prompted(r))
<1> DEFINE r == Prepared(a)
           c == Opened(r)
           e == Joined(a)
<1>1. /\ DOMAIN c = Parts /\ Same(r, c) /\ c.flags = r.flags
      /\ Carried(a).flags = ConnectionPassword(c).flags
  BY CarriedIs
<1>2. e.flags = Carried(a).flags \cup r.env
  BY JoinedFlags
<1> HIDE DEF r, c, e
<1>3. ConnectionPassword(c).flags =
        IF ~ Asks(c) THEN c.flags
        ELSE IF Protects(c) THEN c.flags \cup {"p12PW"}
        ELSE IF Types(c) THEN c.flags \cup {"password"} ELSE c.flags
  BY <1>1, ConnectionPasswordIs
<1>4. /\ Asks(c) <=> r.name \in {"enroll", "pickup", "getcred"} /\ "url" \in r.flags
      /\ Protects(c) <=> "p12" \in r.flags /\ "p12PW" \notin r.flags
      /\ Types(c) <=> "user" \in r.flags /\ "password" \notin r.flags
                        /\ "noPrompt" \notin r.flags /\ "token" \notin r.flags
  BY <1>1 DEF Asks, Protects, Types, Same, Set, Used
<1>5. "password" \in e.flags
        <=> \/ "password" \in r.flags \/ "password" \in r.env
            \/ Asks(c) /\ ~ Protects(c) /\ Types(c)
  BY <1>1, <1>2, <1>3
<1>6. Given(r, "user") => Given(r, "password") \/ "noPrompt" \notin r.flags
  BY DEF Set, r
<1> QED
  BY <1>4, <1>5, <1>6 DEF Given, Set, Prompted, r, e

(* The commands without a platform of their own, a user or a certificate.  *)
LEMMA TokenCommands ==
  ASSUME NEW a, Command(a), Passes(a), a.name \in {"checkcred", "voidcred"}
  PROVE  LET r == Prepared(a)
         IN  CheckedPlatform(r) = IF Given(r, "token") THEN "tpp" ELSE "cloud"
<1> DEFINE r == Prepared(a)
           own == commonCredFlags \cup commonFlags \cup {"credFormat"}
<1>1. FlagsOf[a.name] \subseteq own
  BY DEF FlagsOf
<1>2. "platform" \notin own /\ "user" \notin own /\ "p12" \notin own
  BY DEF commonCredFlags, commonFlags
<1>3. a.flags \cup DOMAIN a.words \subseteq own
  BY <1>1 DEF Passes, Allowed
<1>4. Word(a, "platform") = ""
  BY <1>2, <1>3 DEF Word
<1>5. r.flags = a.flags
  <2>1. runBeforeCommand(a).flags = a.flags
    BY BegunKeeps DEF Command
  <2>2. runBeforeCommand(a).name = a.name
    BY BegunKeeps DEF Command, Same
  <2> QED BY <2>1, <2>2 DEF Prepared
<1>6. Word(r, "platform") = ""
  BY <1>4, PreparedKeeps DEF Command
<1>7. GetPlatformType("") = "undefined"
  BY DEF GetPlatformType
<1>8. ~ Set(r, "user") /\ ~ Set(r, "p12")
  BY <1>2, <1>3, <1>5 DEF Set
<1> HIDE DEF r
<1> QED
  BY <1>6, <1>7, <1>8 DEF CheckedPlatform, r

(* A command that connects to the platform that was checked, with all that *)
(* its checks ask for.                                                     *)
LEMMA Connected ==
  ASSUME NEW a, Command(a), Passes(a), a.name \notin Offline,
         buildConfig(Carried(a)).type = Platform(Prepared(a)), Platform(Prepared(a)) # "fake"
  PROVE  LET r == Prepared(a)
             e == Joined(a)
             config == buildConfig(Carried(a))
         IN  /\ config.type = CheckedPlatform(r)
             /\ \/ config = buildConfigTPP(e) /\ config.type = "tpp" /\ validateConnectionFlagsTPP(r)
                \/ config = buildConfigVaaS(e) /\ config.type = "cloud" /\ validateConnectionFlagsCloud(r)
                \/ config = buildConfigFirefly(e) /\ config.type = "firefly"
                     /\ validateConnectionFlagsFirefly(r)
<1> DEFINE r == Prepared(a)
           e == Joined(a)
           config == buildConfig(Carried(a))
           p == CheckedPlatform(r)
<1>1. config = a.loaded \/ config = buildConfigFromFlags(e)
  BY CarriedKeeps DEF buildConfig, Joined, Command, Same
<1>2. buildConfigFromFlags(e) \in
        {buildConfigFake, buildConfigTPP(e), buildConfigVaaS(e), buildConfigFirefly(e)}
  <2> HIDE DEF e
  <2> QED BY DEF buildConfigFromFlags
<1>3. /\ buildConfigFake.type = "fake" /\ buildConfigTPP(e).type = "tpp"
      /\ buildConfigVaaS(e).type = "cloud" /\ buildConfigFirefly(e).type = "firefly"
  <2> HIDE DEF e
  <2> QED
    BY DEF buildConfigFake, buildConfigTPP, buildConfigVaaS, buildConfigFirefly
<1>4. config.type \in {"tpp", "cloud", "firefly", "fake"}
  <2> HIDE DEF config, e
  <2> QED BY <1>1, <1>2, <1>3 DEF Command
<1>5. /\ ~ Set(r, "config") /\ Platform(r) = p
      /\ \/ p = "tpp" /\ validateConnectionFlagsTPP(r)
         \/ p = "cloud" /\ validateConnectionFlagsCloud(r)
         \/ p = "firefly" /\ validateConnectionFlagsFirefly(r)
  BY <1>4, PlatformCases
<1>6. config = buildConfigFromFlags(e)
  BY <1>5, ConnectionType
<1>7. config.type = p
  BY <1>5
<1> HIDE DEF r, e, config, p
<1>8. \/ config = buildConfigFake /\ config.type = "fake"
      \/ config = buildConfigTPP(e) /\ config.type = "tpp"
      \/ config = buildConfigVaaS(e) /\ config.type = "cloud"
      \/ config = buildConfigFirefly(e) /\ config.type = "firefly"
  BY <1>2, <1>3, <1>6
<1> QED
  BY <1>5, <1>7, <1>8 DEF r, e, config, p

CredentialOutcome(a) ==
  IF a.name \in {"getcred", "checkcred", "voidcred"}
  THEN doCommandCredMgmt1(Carried(a), buildConfig(Carried(a)))
  ELSE Authenticate(buildConfig(Carried(a)))
Useless == {"none", "anonymous", "panic"}

LEMMA CredentialsOnTpp ==
  ASSUME NEW a, Command(a), Passes(a), a.name \notin Offline \cup {"sshgetconfig"},
         validateConnectionFlagsTPP(Prepared(a)), CheckedPlatform(Prepared(a)) = "tpp",
         buildConfig(Carried(a)) = buildConfigTPP(Joined(a))
  PROVE  LET r == Prepared(a)
             user == Given(r, "user") /\ (Given(r, "password") \/ Prompted(r))
         IN  CredentialOutcome(a) \in Useless
               <=> ~ (Given(r, "token") \/ user \/ (a.name = "getcred" /\ Set(r, "p12")))
<1> DEFINE r == Prepared(a)
           e == Joined(a)
           k == Carried(a)
           has == buildConfigTPP(e).has
           user == Given(r, "user") /\ (Given(r, "password") \/ Prompted(r))
<1>1. Given(r, "user") => Given(r, "password") \/ ~ Set(r, "noPrompt")
  BY DEF validateConnectionFlagsTPP
<1>2. a.name \notin {"setpolicy", "getpolicy", "sshgetconfig"}
  BY DEF Offline
<1>3. Given(r, "user") => ("password" \in e.flags <=> Given(r, "password") \/ Prompted(r))
  BY <1>1, <1>2, PasswordOfUser
<1>4. /\ "user" \in e.flags <=> Given(r, "user")
      /\ "token" \in e.flags <=> Given(r, "token")
      /\ "p12" \in k.flags <=> Set(r, "p12")
      /\ e.name = a.name /\ k.name = a.name
  BY JoinedFlags, CarriedKeeps DEF Command, Same
<1> HIDE DEF r, e, k
<1>5. /\ "user" \in has <=> "user" \in e.flags
      /\ "password" \in has <=> "password" \in e.flags
      /\ "refreshToken" \in has <=> "token" \in e.flags /\ a.name = "getcred"
      /\ "accessToken" \in has <=> "token" \in e.flags /\ a.name # "getcred"
  BY <1>4 DEF buildConfigTPP, Set
<1>6. {"user", "password"} \subseteq has <=> user
  BY <1>3, <1>4, <1>5
<1>7. buildConfigTPP(e).type = "tpp"
  BY DEF buildConfigTPP
<1> DEFINE config == buildConfigTPP(e)
<1> HIDE DEF user
<1>8. CASE a.name = "getcred"
  <2>1. CredentialOutcome(a) = getTppCredentials(k, has)
    <3> HIDE DEF config
    <3> QED
      BY <1>4, <1>7, <1>8 DEF CredentialOutcome, doCommandCredMgmt1, e, k, config
  <2> HIDE DEF has
  <2>2. getTppCredentials(k, has) = "none"
          <=> ~ ("refreshToken" \in has) /\ ~ ({"user", "password"} \subseteq has) /\ ~ Set(k, "p12")
    BY DEF getTppCredentials
  <2>3. getTppCredentials(k, has) \in {"refresh", "user", "certificate", "none"}
    BY DEF getTppCredentials
  <2> QED BY <1>4, <1>5, <1>6, <1>8, <2>1, <2>2, <2>3 DEF Useless, Set, r, user
<1>9. CASE a.name \in {"checkcred", "voidcred"}
  <2>1. CredentialOutcome(a) = IF "accessToken" \notin has THEN "none" ELSE "access"
    <3> HIDE DEF config
    <3> QED
      BY <1>4, <1>7, <1>9 DEF CredentialOutcome, doCommandCredMgmt1, e, k, config
  <2>2. Given(r, "token")
    BY <1>9, TokenCommands DEF r
  <2> QED BY <1>4, <1>5, <1>9, <2>1, <2>2 DEF Useless, r, user
<1>10. CASE a.name \notin {"getcred", "checkcred", "voidcred"}
  <2>1. CredentialOutcome(a) = TppAuthenticate(has)
    <3> HIDE DEF config
    <3> QED BY <1>7, <1>10 DEF CredentialOutcome, Authenticate, e, config
  <2> HIDE DEF has
  <2>2. /\ TppAuthenticate(has) \in {"user", "refresh", "access", "none"}
        /\ TppAuthenticate(has) = "none"
             <=> ~ ({"user", "password"} \subseteq has) /\ "refreshToken" \notin has
                   /\ "accessToken" \notin has
    BY DEF TppAuthenticate
  <2> QED BY <1>4, <1>5, <1>6, <1>10, <2>1, <2>2 DEF Useless, r, user
<1> QED
  BY <1>8, <1>9, <1>10

LEMMA CredentialsOnCloud ==
  ASSUME NEW a, Command(a), Passes(a), a.name \notin Offline \cup {"sshgetconfig"},
         validateConnectionFlagsCloud(Prepared(a)),
         buildConfig(Carried(a)) = buildConfigVaaS(Joined(a))
  PROVE  CredentialOutcome(a) \in Useless <=> a.name \in {"checkcred", "voidcred"}
<1> DEFINE r == Prepared(a)
           e == Joined(a)
           k == Carried(a)
           has == buildConfigVaaS(e).has
           config == buildConfigVaaS(e)
<1>1. /\ \A x \in {"email", "token", "apiKey", "jwt", "tokenURL"} : x \in e.flags <=> Given(r, x)
      /\ e.name = a.name /\ k.name = a.name /\ r.name = a.name
  BY JoinedFlags, CarriedKeeps, PreparedKeeps DEF Command, Same
<1> HIDE DEF r, e, k
<1>2. /\ "user" \in has <=> Given(r, "email")
      /\ "accessToken" \in has <=> Given(r, "token")
      /\ "apiKey" \in has <=> Given(r, "apiKey")
      /\ {"tokenURL", "jwt"} \subseteq has <=> Given(r, "tokenURL") /\ Given(r, "jwt")
  BY <1>1 DEF buildConfigVaaS, Set
<1>3. config.type = "cloud"
  BY DEF buildConfigVaaS
<1>4. CASE a.name = "getcred"
  <2>1. CredentialOutcome(a) = getVaaSCredentials(has)
    <3> HIDE DEF config
    <3> QED
      BY <1>1, <1>3, <1>4 DEF CredentialOutcome, doCommandCredMgmt1, e, k, config
  <2>2. (Given(r, "tokenURL") => Given(r, "jwt")) /\ (Given(r, "tokenURL") \/ Set(r, "email"))
    BY <1>1, <1>4 DEF validateConnectionFlagsCloud, r
  <2>3. "user" \in has \/ {"tokenURL", "jwt"} \subseteq has
    BY <1>2, <2>2 DEF Given, Set
  <2> HIDE DEF has
  <2>4. getVaaSCredentials(has) \in {"register", "service account"}
    BY <2>3 DEF getVaaSCredentials
  <2> QED BY <1>4, <2>1, <2>4 DEF Useless
<1>5. CASE a.name \in {"checkcred", "voidcred"}
  <2>1. CredentialOutcome(a) \in {"none", "panic"}
    <3> HIDE DEF config
    <3> QED
      BY <1>1, <1>3, <1>5 DEF CredentialOutcome, doCommandCredMgmt1, e, k, config
  <2> QED BY <1>5, <2>1 DEF Useless
<1>6. CASE a.name \notin {"getcred", "checkcred", "voidcred"}
  <2>1. CredentialOutcome(a) = CloudAuthenticate(has)
    <3> HIDE DEF config
    <3> QED BY <1>3, <1>6 DEF CredentialOutcome, Authenticate, e, config
  <2>2. Given(r, "apiKey") \/ Given(r, "token")
    BY <1>1, <1>6 DEF validateConnectionFlagsCloud, r
  <2>3. "apiKey" \in has \/ "accessToken" \in has
    BY <1>2, <2>2
  <2> HIDE DEF has
  <2>4. CloudAuthenticate(has) \in {"access", "service account", "key"}
    BY <2>3 DEF CloudAuthenticate
  <2> QED BY <1>6, <2>1, <2>4 DEF Useless
<1> QED
  BY <1>4, <1>5, <1>6

LEMMA CredentialsOnFirefly ==
  ASSUME NEW a, Command(a), Passes(a), a.name \notin Offline \cup {"sshgetconfig"},
         validateConnectionFlagsFirefly(Prepared(a)), CheckedPlatform(Prepared(a)) = "firefly",
         buildConfig(Carried(a)) = buildConfigFirefly(Joined(a))
  PROVE  LET r == Prepared(a)
             user == Given(r, "user") /\ (Given(r, "password") \/ Prompted(r))
         IN  CredentialOutcome(a) \in Useless
               <=> /\ a.name = "getcred"
                   /\ ~ (user \/ Given(r, "clientSecret") \/ Given(r, "deviceURL"))
<1> DEFINE r == Prepared(a)
           e == Joined(a)
           k == Carried(a)
           has == buildConfigFirefly(e).has
           config == buildConfigFirefly(e)
           user == Given(r, "user") /\ (Given(r, "password") \/ Prompted(r))
<1>1. /\ \A x \in {"user", "token", "clientSecret", "deviceURL"} : x \in e.flags <=> Given(r, x)
      /\ e.name = a.name /\ k.name = a.name /\ r.name = a.name
  BY JoinedFlags, CarriedKeeps, PreparedKeeps DEF Command, Same
<1>2. a.name \notin {"setpolicy", "getpolicy", "sshgetconfig", "checkcred", "voidcred"}
  BY TokenCommands DEF Offline
<1>3. config.type = "firefly"
  BY DEF buildConfigFirefly
<1>4. CASE a.name = "getcred"
  <2>1. Given(r, "user") => Given(r, "password") \/ ~ Set(r, "noPrompt")
    <3> HIDE DEF r
    <3> QED BY <1>1, <1>4 DEF validateConnectionFlagsFirefly, r
  <2>2. Given(r, "user") => ("password" \in e.flags <=> Given(r, "password") \/ Prompted(r))
    BY <1>2, <2>1, PasswordOfUser
  <2>3. CredentialOutcome(a) = Authorize(has)
    <3> HIDE DEF config
    <3> QED
      BY <1>1, <1>3, <1>4 DEF CredentialOutcome, doCommandCredMgmt1, config
  <2> HIDE DEF r, e, k
  <2>4. /\ {"user", "password"} \subseteq has <=> "user" \in e.flags /\ "password" \in e.flags
        /\ "clientSecret" \in has <=> "clientSecret" \in e.flags
        /\ "deviceURL" \in has <=> "deviceURL" \in e.flags
    BY DEF buildConfigFirefly, Set
  <2>5. {"user", "password"} \subseteq has <=> user
    BY <1>1, <2>2, <2>4
  <2> HIDE DEF has, user
  <2>6. /\ Authorize(has) \in {"client", "user", "device", "none"}
        /\ Authorize(has) = "none"
             <=> "clientSecret" \notin has /\ "deviceURL" \notin has
                   /\ ~ ({"user", "password"} \subseteq has)
    BY DEF Authorize
  <2> QED BY <1>1, <1>4, <2>3, <2>4, <2>5, <2>6 DEF Useless, r, user
<1>5. CASE a.name # "getcred"
  <2>1. CredentialOutcome(a) = FireflyAuthenticate(has)
    <3> HIDE DEF config
    <3> QED BY <1>2, <1>3, <1>5 DEF CredentialOutcome, Authenticate, config
  <2> HIDE DEF r, e, k
  <2>2. Given(r, "token")
    BY <1>1, <1>2, <1>5 DEF validateConnectionFlagsFirefly, r
  <2>3. "accessToken" \in has
    BY <1>1, <2>2 DEF buildConfigFirefly, Set
  <2> QED BY <1>5, <2>1, <2>3 DEF FireflyAuthenticate, Useless
<1> QED
  BY <1>4, <1>5

LEMMA Suffices ==
  ASSUME Sound(call)
  PROVE  CredentialsSuffice
<1> DEFINE a == Arg
           r == Ready
           user == Given(r, "user") /\ (Given(r, "password") \/ Prompted(r))
           missing ==
             CASE Connection.type = "tpp" ->
                    ~ (Given(r, "token") \/ user \/ (a.name = "getcred" /\ Set(r, "p12")))
               [] Connection.type = "firefly" ->
                    /\ a.name = "getcred"
                    /\ ~ (user \/ Given(r, "clientSecret") \/ Given(r, "deviceURL"))
               [] OTHER -> a.name \in {"checkcred", "voidcred"}
           unasked == Given(r, "user") /\ ~ Given(r, "password") /\ ~ Prompted(r)
           certificate == Set(r, "p12") /\ a.name # "getcred"
           excused == CASE Connection.type = "tpp" -> unasked \/ certificate
                        [] Connection.type = "firefly" -> unasked /\ a.name = "getcred"
                        [] OTHER -> a.name \in {"checkcred", "voidcred"}
<1> SUFFICES ASSUME Connecting, Connection.type = Platform(r), Platform(r) # "fake",
                    a.name # "sshgetconfig"
             PROVE  Outcome \notin Useless \/ excused
  <2>1. ASSUME Connecting
        PROVE  r.name = a.name
    <3>1. DOMAIN a = Parts
      BY <2>1 DEF Sound, CommandCall, Connecting, Called, Arg, Command
    <3> QED BY <3>1, PreparedKeeps DEF Ready, Same
  <2> QED BY <2>1 DEF CredentialsSuffice, Useless, Prompted
<1>1. Command(a) /\ Passes(a) /\ a.name \notin Offline \cup {"sshgetconfig"} /\ r = Prepared(a)
  BY DEF Sound, CommandCall, Connecting, Called, Arg, Ready
<1>2. Outcome = CredentialOutcome(a) /\ Connection = buildConfig(Carried(a))
  BY DEF Outcome, CredentialOutcome, Connection
<1> HIDE DEF a, r
<1>3. /\ Connection.type = CheckedPlatform(r)
      /\ \/ Connection = buildConfigTPP(Joined(a)) /\ Connection.type = "tpp"
              /\ validateConnectionFlagsTPP(r)
         \/ Connection = buildConfigVaaS(Joined(a)) /\ Connection.type = "cloud"
              /\ validateConnectionFlagsCloud(r)
         \/ Connection = buildConfigFirefly(Joined(a)) /\ Connection.type = "firefly"
              /\ validateConnectionFlagsFirefly(r)
  BY <1>1, <1>2, Connected
<1>4. Outcome \in Useless <=> missing
  <2>1. CASE Connection.type = "tpp"
    BY <1>1, <1>2, <1>3, <2>1, CredentialsOnTpp
  <2>2. CASE Connection.type = "cloud"
    BY <1>1, <1>2, <1>3, <2>2, CredentialsOnCloud
  <2>3. CASE Connection.type = "firefly"
    BY <1>1, <1>2, <1>3, <2>3, CredentialsOnFirefly
  <2> QED BY <1>3, <2>1, <2>2, <2>3
<1>8. r.name = a.name
  BY <1>1, PreparedKeeps DEF Same, Command
<1> HIDE DEF missing, excused
<1>7. missing => excused
  <2>1. CASE Connection.type = "tpp"
    BY <1>3, <2>1 DEF validateConnectionFlagsTPP, missing, excused
  <2>2. CASE Connection.type = "firefly"
    BY <1>3, <1>8, <2>2 DEF validateConnectionFlagsFirefly, missing, excused
  <2>3. CASE Connection.type = "cloud"
    BY <2>3 DEF missing, excused
  <2> QED BY <1>3, <2>1, <2>2, <2>3
<1> QED
  BY <1>4, <1>7

(* Whatever flags, words, environment and configuration file a command has *)
(* been given, its checks leave it without credentials in the cases that   *)
(* are named only (validators.go:131, config.go:87).                       *)
THEOREM CredentialsAreThere == Spec => []CredentialsSuffice
  BY Suffices, CallsAreSound, PTL

-----------------------------------------------------------------------------
(* Passwords *)

LEMMA FormatCommands ==
  ASSUME NEW name \in DOMAIN FlagsOf, "format" \in FlagsOf[name]
  PROVE  name \in {"enroll", "pickup", "renew", "provision", "sshenroll"}
  BY DEF FlagsOf, subjectFlags, sansFlags, keyFlags, connectionFlags, credentialsFlags,
         sortableCredentialsFlags, commonFlags, identifyFlags, commonCredFlags, sshConnectionFlags

(* A password that was read is the password itself.                        *)
LEMMA ReadPassword ==
  ASSUME NEW p, p.how \in {"text", "file", "File", "pass"}, NEW line
  PROVE  LET q == readPasswordsFromInputFlag(p, line)
         IN  /\ p.how \in {"file", "File"} /\ line \in DOMAIN p.lines => q = Plain(<<p.lines[line]>>)
             /\ p.how = "text" => q = p
             /\ q = Unread \/ q = p \/ q = Plain(p.lines) \/ \E l \in DOMAIN p.lines : q = Plain(<<p.lines[l]>>)
<1>1. CASE p.how \in {"file", "File"} /\ line \in DOMAIN p.lines
  BY <1>1 DEF readPasswordsFromInputFlag, readPasswordFromFile, Plain
<1>2. CASE p.how \in {"file", "File"} /\ line \notin DOMAIN p.lines
  BY <1>2 DEF readPasswordsFromInputFlag, readPasswordFromFile
<1>3. CASE p.how = "pass"
  BY <1>3 DEF readPasswordsFromInputFlag, Plain
<1>4. CASE p.how = "text"
  BY <1>4 DEF readPasswordsFromInputFlag
<1> QED
  BY <1>1, <1>2, <1>3, <1>4

LEMMA ReadIsText ==
  ASSUME NEW p, p.how \in {"text", "file", "File", "pass"}, NEW line
  PROVE  \/ readPasswordsFromInputFlag(p, line) = Unread
         \/ readPasswordsFromInputFlag(p, line).how = "text"
<1> DEFINE q == readPasswordsFromInputFlag(p, line)
<1>1. \A lines : Plain(lines).how = "text"
  BY DEF Plain
<1>2. CASE p.how = "text"
  BY <1>2 DEF readPasswordsFromInputFlag
<1>3. CASE p.how # "text"
  <2>1. q = Unread \/ q = Plain(p.lines) \/ \E l \in DOMAIN p.lines : q = Plain(<<p.lines[l]>>)
    BY <1>3 DEF readPasswordsFromInputFlag, readPasswordFromFile
  <2> QED BY <1>1, <2>1
<1> QED
  BY <1>2, <1>3

LEMMA OpenedPassword ==
  ASSUME NEW p, p.how \in {"text", "file", "File", "pass"}
  PROVE  LET q == IF p.how = "file" THEN Plain(p.lines) ELSE p
         IN  q.how \in {"text", "File", "pass"} /\ q.lines = p.lines
<1>1. Plain(p.lines).how = "text" /\ Plain(p.lines).lines = p.lines
  BY DEF Plain
<1> QED
  BY <1>1

LEMMA StorePassword ==
  ASSUME NEW a, Command(a), Passes(a), Word(a, "format") = "jks", a.name # "sshenroll",
         ~ Set(a, "noPickup")
  PROVE  Carried(a).keyPassword.how = "text" /\ Long(Carried(a).keyPassword)
<1> DEFINE r == Prepared(a)
           c == Opened(r)
           k == Carried(a)
           p == r.keyPassword
           kp == IF p.how = "file" THEN Plain(p.lines) ELSE p
<1>1. "format" \in DOMAIN a.words /\ DOMAIN a.words \subseteq FlagsOf[a.name]
  BY DEF Word, Passes, Allowed
<1>2. a.name \in {"enroll", "pickup", "renew", "provision"}
  BY <1>1, FormatCommands DEF Command
<1>3. /\ DOMAIN c = Parts /\ Same(r, c) /\ c.flags = r.flags /\ c.words = r.words
      /\ c.keyPassword = kp
      /\ k.words = c.words /\ k.keyPassword = KeyPassword(c)
  BY <1>2, CarriedIs
<1>4. /\ Same(a, r) /\ p \in {a.keyPassword, Temporary}
      /\ r.flags \in {a.flags, a.flags \cup a.env}
  BY PreparedKeeps DEF Command
<1>5. k.name = a.name /\ Word(k, "format") = "jks"
  BY CarriedKeeps DEF Command, Same
<1>6. k = readData(r)
  BY <1>2 DEF Carried
<1>7. k.keyPassword # Unread /\ Checks(k)
  BY <1>2, <1>6 DEF Passes, WasRead
<1> HIDE DEF r, c, k, kp
<1>8. a.name # "provision" /\ validateJKSFlags(k)
  <2>1. CASE a.name = "provision"
    <3>1. Checks(k) <=> validateProvisionFlags(k)
      BY <1>5, <2>1 DEF Checks
    <3> QED BY <1>5, <1>7, <3>1 DEF validateProvisionFlags
  <2>2. CASE a.name = "enroll"
    <3>1. Checks(k) <=> validateEnrollFlags(k)
      BY <1>5, <2>2 DEF Checks
    <3> QED BY <1>7, <2>2, <3>1 DEF validateEnrollFlags, validateStore
  <2>3. CASE a.name = "pickup"
    <3>1. Checks(k) <=> validatePickupFlags1(k)
      BY <1>5, <2>3 DEF Checks
    <3> QED BY <1>7, <2>3, <3>1 DEF validatePickupFlags1, validateStore
  <2>4. CASE a.name = "renew"
    <3>1. Checks(k) <=> validateRenewFlags1(k)
      BY <1>5, <2>4 DEF Checks
    <3> QED BY <1>7, <2>4, <3>1 DEF validateRenewFlags1, validateStore
  <2> QED BY <1>2, <2>1, <2>2, <2>3, <2>4
<1>9. OneFile(k) /\ Long(k.keyPassword)
  BY <1>5, <1>8 DEF validateJKSFlags
<1>10. NeedsKeyPassword(c)
  <2>1. Word(c, "csr") # "file" /\ Word(c, "format") = "jks"
    BY <1>3, <1>5, <1>9 DEF OneFile, Word
  <2>2. ~ Set(c, "noPickup")
    BY <1>3, <1>4 DEF Set, Command, envVarList
  <2>3. c.name \in {"enroll", "pickup", "renew"}
    BY <1>2, <1>3, <1>4, <1>8 DEF Same
  <2>4. CASE c.name = "pickup"
    BY <2>1, <2>4 DEF NeedsKeyPassword, Stores
  <2>5. CASE c.name \in {"enroll", "renew"}
    BY <2>1, <2>2, <2>5 DEF NeedsKeyPassword
  <2> QED BY <2>3, <2>4, <2>5
<1>11. p.how \in {"text", "file", "File", "pass"}
  <2>1. a.keyPassword.how \in {"text", "file", "File", "pass"}
    BY DEF Command, Passwords
  <2>2. Temporary.how = "text"
    BY DEF Temporary, Plain
  <2> QED BY <1>4, <2>1, <2>2
<1>12. kp.how \in {"text", "File", "pass"}
  BY <1>11, OpenedPassword DEF kp
<1>13. k.keyPassword.how = "text"
  <2>1. CASE k.keyPassword = c.typed
    BY <1>3, <1>4, <2>1 DEF Same, Command
  <2>2. CASE k.keyPassword = Unread
    BY <1>7, <2>2
  <2>3. CASE k.keyPassword = readPasswordsFromInputFlag(c.keyPassword, LineOfKeyPassword(c))
    <3>1. c.keyPassword.how \in {"text", "file", "File", "pass"}
      BY <1>3, <1>12
    <3> DEFINE q == readPasswordsFromInputFlag(c.keyPassword, LineOfKeyPassword(c))
    <3>2. q = Unread \/ q.how = "text"
      BY <3>1, ReadIsText
    <3> HIDE DEF q
    <3> QED BY <1>7, <2>3, <3>2 DEF q
  <2> QED BY <1>3, <1>10, <2>1, <2>2, <2>3 DEF KeyPassword
<1> QED
  BY <1>9, <1>13 DEF k

(* A connection depends on no more of a command than this.                 *)
LEMMA SameConnection ==
  ASSUME NEW c, NEW d, DOMAIN c = Parts, DOMAIN d = Parts, Same(c, d), d.flags = c.flags,
         d.words = c.words
  PROVE  buildConfig(d) = buildConfig(c)
<1> DEFINE x == assignEnvVarsToFlags(c)
           y == assignEnvVarsToFlags(d)
<1>1. /\ x.name = c.name /\ x.flags = c.flags \cup c.env /\ x.words = c.words
      /\ y.name = d.name /\ y.flags = d.flags \cup d.env /\ y.words = d.words
  BY DEF assignEnvVarsToFlags, Parts
<1> HIDE DEF x, y
<1>2. x.name = y.name /\ x.flags = y.flags /\ x.words = y.words
  BY <1>1 DEF Same
<1>3. Word(x, "platform") = Word(y, "platform")
  BY <1>2 DEF Word
<1>4. /\ buildConfigTPP(x) = buildConfigTPP(y)
      /\ buildConfigVaaS(x) = buildConfigVaaS(y)
      /\ buildConfigFirefly(x) = buildConfigFirefly(y)
  BY <1>2 DEF buildConfigTPP, buildConfigVaaS, buildConfigFirefly, Set
<1>5. buildConfigFromFlags(x) = buildConfigFromFlags(y)
  BY <1>2, <1>3, <1>4 DEF buildConfigFromFlags, Set
<1> QED
  BY <1>5 DEF buildConfig, Set, Same, x, y

LEMMA LinesOfPasswords ==
  ASSUME NEW a, Command(a), a.name \in {"enroll", "pickup"},
         NeedsKeyPassword(Prepared(a)), {"url", "password"} \subseteq Prepared(a).flags,
         ~ Set(Prepared(a), "p12"), a.password.how \in {"file", "File"},
         a.keyPassword.how \in {"file", "File"}, a.keyPassword.lines = a.password.lines,
         Len(a.keyPassword.lines) = 2
  PROVE  LET key == a.keyPassword
         IN  /\ Carried(a).password.lines = <<key.lines[1]>>
             /\ Carried(a).keyPassword.lines =
                  CASE key.how = "file" -> key.lines
                    [] key.how # "file" /\ a.password.how = "File" -> <<key.lines[2]>>
                    [] OTHER -> <<key.lines[1]>>
<1> DEFINE key == a.keyPassword
           r == Prepared(a)
           c == Opened(r)
           k == Carried(a)
<1>1. key \in Passwords /\ a.password \in Passwords
  BY DEF Command
<1>2. key.lines \in Seq(STRING) /\ a.password.lines \in Seq(STRING)
  BY <1>1 DEF Passwords
<1>3. 1 \in DOMAIN key.lines /\ 2 \in DOMAIN key.lines /\ key.lines # <<>>
  BY <1>2
<1>4. key # Nothing
  BY DEF Nothing, Plain
<1>5. /\ Same(a, r) /\ DOMAIN r = Parts /\ r.password = a.password
  BY PreparedKeeps DEF Command, Same
<1>6. r.keyPassword = key
  <2>1. DOMAIN runBeforeCommand(a) = Parts /\ runBeforeCommand(a).keyPassword = key
    BY BegunKeeps DEF Command, Same
  <2> DEFINE b == runBeforeCommand(a)
  <2> HIDE DEF b
  <2>2. doCommandPickup1(b) \in {b, assignEnvVarsToFlags(b)}
    BY <1>4, <2>1 DEF doCommandPickup1, b
  <2>3. assignEnvVarsToFlags(b).keyPassword = b.keyPassword
    BY <2>1 DEF assignEnvVarsToFlags, Parts, b
  <2>4. r \in {b, assignEnvVarsToFlags(b)}
    BY <2>2 DEF Prepared, b
  <2> QED BY <2>1, <2>3, <2>4 DEF b
<1>7. /\ DOMAIN c = Parts /\ Same(r, c) /\ c.flags = r.flags /\ c.words = r.words
      /\ c.password = r.password
      /\ c.keyPassword = IF key.how = "file" THEN Plain(key.lines) ELSE key
      /\ k.password = ConnectionPassword(c).password /\ k.keyPassword = KeyPassword(c)
  BY <1>6, CarriedIs
<1> HIDE DEF r, c, k
<1>8. Asks(c) /\ ~ Protects(c) /\ ~ Types(c)
  BY <1>5, <1>7 DEF Asks, Protects, Types, Same, Set, Used, r
<1>9. k.password = readPasswordsFromInputFlag(a.password, 1) /\ ConnectionPassword(c).flags = c.flags
  BY <1>5, <1>7, <1>8, ConnectionPasswordIs
<1>10. k.password = Plain(<<key.lines[1]>>)
  BY <1>3, <1>9, ReadPassword
<1>11. NeedsKeyPassword(c)
  <2>1. buildConfig(c) = buildConfig(r)
    BY <1>5, <1>7, SameConnection
  <2>2. IsCSRServiceVaaSGenerated(c) <=> IsCSRServiceVaaSGenerated(r)
    BY <1>7, <2>1 DEF IsCSRServiceVaaSGenerated, Same, Set
  <2>3. /\ \A w : Word(c, w) = Word(r, w)
        /\ \A x : Set(c, x) <=> Set(r, x)
        /\ c.name = r.name
    BY <1>7 DEF Word, Same, Set
  <2>4. r.name \in {"enroll", "pickup"}
    BY <1>5 DEF Same
  <2>5. CASE r.name = "pickup"
    BY <2>2, <2>3, <2>5 DEF NeedsKeyPassword, r
  <2>6. CASE r.name = "enroll"
    BY <2>3, <2>6 DEF NeedsKeyPassword, r
  <2> QED BY <2>4, <2>5, <2>6
<1>12. Plain(key.lines).how = "text" /\ Plain(key.lines).lines = key.lines
  BY DEF Plain
<1>13. c.keyPassword # Nothing
  <2>1. c.keyPassword.lines = key.lines
    BY <1>7, <1>12
  <2> QED BY <1>3, <2>1 DEF Nothing, Plain
<1>14. k.keyPassword = readPasswordsFromInputFlag(c.keyPassword, LineOfKeyPassword(c))
  BY <1>7, <1>11, <1>13 DEF KeyPassword
<1>15. CASE key.how = "file"
  <2>1. c.keyPassword = Plain(key.lines)
    BY <1>7, <1>15
  <2>2. k.keyPassword = Plain(key.lines)
    <3>1. \A line : readPasswordsFromInputFlag(Plain(key.lines), line) = Plain(key.lines)
      BY <1>12 DEF readPasswordsFromInputFlag
    <3> QED BY <1>14, <2>1, <3>1
  <2> QED BY <1>10, <1>12, <1>15, <2>2 DEF Plain, k
<1>16. CASE key.how = "File"
  <2>1. c.keyPassword = key
    BY <1>7, <1>16
  <2>2. c.password = c.keyPassword <=> a.password.how = "File"
    <3>1. c.password = a.password
      BY <1>5, <1>7
    <3>2. a.password.how = "File" => a.password = key
      BY <1>1, <1>16 DEF Passwords
    <3> QED BY <1>16, <2>1, <3>1, <3>2
  <2>3. LineOfKeyPassword(c) = IF a.password.how = "File" THEN 2 ELSE 1
    BY <1>8, <1>9, <2>2 DEF LineOfKeyPassword, Asks
  <2>4. k.keyPassword = Plain(<<key.lines[IF a.password.how = "File" THEN 2 ELSE 1]>>)
    BY <1>3, <1>14, <1>16, <2>1, <2>3, ReadPassword
  <2> QED BY <1>10, <1>16, <2>4 DEF Plain, k
<1> QED
  BY <1>15, <1>16

(* The flags a pickup is carried out with, and the password of its key.    *)
LEMMA PickupIs ==
  ASSUME NEW a, Command(a), a.name = "pickup"
  PROVE  LET b == runBeforeCommand(a)
             r == Prepared(a)
             made == IsCSRServiceVaaSGenerated(b) \/ isTppConnector(b)
         IN  /\ r.flags = IF Set(a, "config") THEN a.flags ELSE a.flags \cup a.env
             /\ r.words = b.words
             /\ r.keyPassword =
                  IF /\ Set(a, "noPrompt") /\ a.keyPassword = Nothing
                     /\ Word(a, "format") \notin Stores /\ made
                  THEN Temporary ELSE a.keyPassword
<1> DEFINE b == runBeforeCommand(a)
           r == Prepared(a)
           given == IF Set(b, "config") THEN b ELSE assignEnvVarsToFlags(b)
           made == IsCSRServiceVaaSGenerated(b) \/ isTppConnector(b)
           fetch == /\ Set(a, "noPrompt") /\ a.keyPassword = Nothing
                    /\ Word(a, "format") \notin Stores /\ made
<1>1. /\ Same(a, b) /\ b.flags = a.flags /\ b.keyPassword = a.keyPassword
      /\ Word(b, "format") = Word(a, "format")
  BY BegunKeeps DEF Command
<1> HIDE DEF b
<1>2. DOMAIN b = Parts
  BY <1>1 DEF Same, Command
<1>3. r = IF fetch THEN [given EXCEPT !.keyPassword = Temporary] ELSE given
  BY <1>1 DEF Prepared, doCommandPickup1, Same, Set, b
<1>4. /\ DOMAIN given = Parts
      /\ given.flags = IF Set(a, "config") THEN a.flags ELSE a.flags \cup a.env
      /\ given.words = b.words /\ given.keyPassword = a.keyPassword
  <2>1. CASE Set(a, "config")
    BY <1>1, <1>2, <2>1 DEF Set
  <2>2. CASE ~ Set(a, "config")
    <3>1. given = [b EXCEPT !.flags = b.flags \cup b.env]
      BY <1>1, <2>2 DEF Set, assignEnvVarsToFlags
    <3> HIDE DEF given
    <3> QED BY <1>1, <1>2, <2>2, <3>1 DEF Parts, Same
  <2> QED BY <2>1, <2>2
<1> HIDE DEF given, fetch, r
<1>5. CASE fetch
  BY <1>3, <1>4, <1>5 DEF Parts, fetch, b, r
<1>6. CASE ~ fetch
  BY <1>3, <1>4, <1>6 DEF fetch, b, r
<1> QED
  BY <1>5, <1>6

(* What is typed for the connection does not change its platform, nor how  *)
(* it is authenticated to on the cloud.                                    *)
LEMMA TypedPassword ==
  ASSUME NEW x, NEW y, x.name = y.name, x.words = y.words,
         y.flags \in {x.flags, x.flags \cup {"p12PW"}, x.flags \cup {"password"}}
  PROVE  LET f == buildConfigFromFlags(x)
             g == buildConfigFromFlags(y)
         IN  /\ g.type = f.type
             /\ f.type = "cloud" => Authenticate(g) = Authenticate(f)
             /\ y.flags \in {x.flags, x.flags \cup {"p12PW"}} => g = f
<1> DEFINE named == GetPlatformType(Word(x, "platform"))
           p == IF named \in {"tpp", "cloud", "firefly"} THEN named
                ELSE IF Set(x, "user") \/ Set(x, "token") THEN "tpp" ELSE "cloud"
           f == buildConfigFromFlags(x)
           g == buildConfigFromFlags(y)
<1>1. \A flag : flag \notin {"p12PW", "password"} => (Set(x, flag) <=> Set(y, flag))
  BY DEF Set
<1>2. Word(x, "platform") = Word(y, "platform")
  BY DEF Word
<1>3. /\ f = IF Set(x, "testMode") THEN buildConfigFake
             ELSE CASE p = "tpp" -> buildConfigTPP(x)
                    [] p = "cloud" -> buildConfigVaaS(x)
                    [] OTHER -> buildConfigFirefly(x)
      /\ g = IF Set(x, "testMode") THEN buildConfigFake
             ELSE CASE p = "tpp" -> buildConfigTPP(y)
                    [] p = "cloud" -> buildConfigVaaS(y)
                    [] OTHER -> buildConfigFirefly(y)
  BY <1>1, <1>2 DEF buildConfigFromFlags
<1>4. \A z : /\ buildConfigTPP(z).type = "tpp" /\ buildConfigVaaS(z).type = "cloud"
             /\ buildConfigFirefly(z).type = "firefly"
  BY DEF buildConfigTPP, buildConfigVaaS, buildConfigFirefly
<1>5. buildConfigFake.type = "fake"
  BY DEF buildConfigFake
<1>6. p \in {"tpp", "cloud", "firefly"}
  OBVIOUS
<1> HIDE DEF p, f, g
<1>7. g.type = f.type
  BY <1>3, <1>4, <1>6
<1>8. ASSUME f.type = "cloud"
      PROVE  Authenticate(g) = Authenticate(f)
  <2>1. f = buildConfigVaaS(x) /\ g = buildConfigVaaS(y)
    BY <1>3, <1>4, <1>5, <1>6, <1>8
  <2> DEFINE h == buildConfigVaaS(x).has
             i == buildConfigVaaS(y).has
  <2>2. \A flag \in {"accessToken", "tokenURL", "jwt", "apiKey"} : flag \in h <=> flag \in i
    BY <1>1 DEF buildConfigVaaS, Set
  <2> HIDE DEF h, i
  <2>3. CloudAuthenticate(h) = CloudAuthenticate(i)
    BY <2>2 DEF CloudAuthenticate
  <2>4. Authenticate(f) = CloudAuthenticate(h) /\ Authenticate(g) = CloudAuthenticate(i)
    BY <1>7, <1>8, <2>1 DEF Authenticate, h, i
  <2> QED BY <2>3, <2>4
<1>9. ASSUME y.flags \in {x.flags, x.flags \cup {"p12PW"}}
      PROVE  g = f
  <2>1. \A flag : flag # "p12PW" => (Set(x, flag) <=> Set(y, flag))
    BY <1>9 DEF Set
  <2>2. buildConfigTPP(y) = buildConfigTPP(x)
    <3>1. y.flags \cap {"user", "password"} = x.flags \cap {"user", "password"}
      BY <1>9
    <3> QED BY <2>1, <3>1 DEF buildConfigTPP
  <2>3. buildConfigVaaS(y) = buildConfigVaaS(x)
    <3>1. y.flags \cap {"password", "apiKey", "jwt", "tokenURL"}
            = x.flags \cap {"password", "apiKey", "jwt", "tokenURL"}
      BY <1>9
    <3> QED BY <2>1, <3>1 DEF buildConfigVaaS
  <2>4. buildConfigFirefly(y) = buildConfigFirefly(x)
    <3>1. y.flags \cap {"user", "password", "clientId", "clientSecret", "deviceURL"}
            = x.flags \cap {"user", "password", "clientId", "clientSecret", "deviceURL"}
      BY <1>9
    <3> QED BY <2>1, <3>1 DEF buildConfigFirefly
  <2> QED BY <1>3, <2>2, <2>3, <2>4
<1> QED
  BY <1>7, <1>8, <1>9 DEF f, g

(* The platform a pickup looks at before its checks, and again when it     *)
(* reads the passwords, is the one it connects to.                         *)
LEMMA PickupConnections ==
  ASSUME NEW a, Command(a), a.name = "pickup"
  PROVE  LET b == runBeforeCommand(a)
             c == Opened(Prepared(a))
             first == buildConfig(b)
             last == buildConfig(Carried(a))
         IN  /\ buildConfig(c) = first
             /\ last.type = first.type
             /\ first.type = "cloud" => Authenticate(last) = Authenticate(first)
             /\ Set(a, "noPrompt") => last = first
<1> DEFINE b == runBeforeCommand(a)
           r == Prepared(a)
           c == Opened(r)
           k == Carried(a)
           x == assignEnvVarsToFlags(b)
           y == assignEnvVarsToFlags(c)
           e == Joined(a)
           first == buildConfig(b)
           last == buildConfig(k)
<1>1. /\ Same(a, b) /\ b.flags = a.flags
  BY BegunKeeps DEF Command
<1>2. /\ r.flags = IF Set(a, "config") THEN a.flags ELSE a.flags \cup a.env
      /\ r.words = b.words
  BY PickupIs
<1>3. /\ DOMAIN c = Parts /\ Same(r, c) /\ c.flags = r.flags /\ c.words = r.words
      /\ k.flags = ConnectionPassword(c).flags /\ k.words = c.words
  BY CarriedIs
<1>4. Same(a, r) /\ Same(a, k)
  BY PreparedKeeps, CarriedKeeps DEF Command
<1>5. "config" \notin a.env
  BY DEF Command, envVarList
<1>6. ConnectionPassword(c).flags =
        IF ~ Asks(c) THEN c.flags
        ELSE IF Protects(c) THEN c.flags \cup {"p12PW"}
        ELSE IF Types(c) THEN c.flags \cup {"password"} ELSE c.flags
  BY <1>3, ConnectionPasswordIs
<1>7. e = assignEnvVarsToFlags(k)
  BY DEF Joined
<1>8. DOMAIN b = Parts /\ DOMAIN k = Parts
  BY <1>1, <1>4 DEF Same, Command
<1> HIDE DEF b, r, c, k, e
<1>9. Set(b, "config") <=> Set(a, "config")
  BY <1>1 DEF Set
<1>10. (Set(c, "config") <=> Set(a, "config")) /\ (Set(k, "config") <=> Set(a, "config"))
  BY <1>2, <1>3, <1>5, <1>6 DEF Set
<1>11. b.loaded = a.loaded /\ c.loaded = a.loaded /\ k.loaded = a.loaded
  BY <1>1, <1>3, <1>4 DEF Same
<1>12. CASE Set(a, "config")
  BY <1>9, <1>10, <1>11, <1>12 DEF buildConfig, b, r, c, k
<1>13. CASE ~ Set(a, "config")
  <2>1. x.name = b.name /\ x.flags = b.flags \cup b.env /\ x.words = b.words
    BY <1>8 DEF assignEnvVarsToFlags, Parts
  <2>2. y.name = c.name /\ y.flags = c.flags \cup c.env /\ y.words = c.words
    BY <1>3 DEF assignEnvVarsToFlags, Parts
  <2>3. e.name = k.name /\ e.flags = k.flags \cup k.env /\ e.words = k.words
    BY <1>7, <1>8 DEF assignEnvVarsToFlags, Parts
  <2> HIDE DEF x, y
  <2>4. /\ b.name = a.name /\ c.name = a.name /\ k.name = a.name
        /\ b.env = a.env /\ c.env = a.env /\ k.env = a.env
    BY <1>1, <1>3, <1>4 DEF Same
  <2>5. x.name = y.name /\ x.words = y.words /\ y.flags = x.flags
    BY <1>1, <1>2, <1>3, <1>13, <2>1, <2>2, <2>4
  <2>6. x.name = e.name /\ x.words = e.words
    BY <1>2, <1>3, <2>1, <2>3, <2>4
  <2>7. e.flags \in {x.flags, x.flags \cup {"p12PW"}, x.flags \cup {"password"}}
    <3>1. e.flags = IF ~ Asks(c) THEN x.flags ELSE IF Protects(c) THEN x.flags \cup {"p12PW"}
                    ELSE IF Types(c) THEN x.flags \cup {"password"} ELSE x.flags
      BY <1>1, <1>2, <1>3, <1>6, <1>13, <2>1, <2>3, <2>4
    <3> QED BY <3>1
  <2>8. Set(a, "noPrompt") => e.flags \in {x.flags, x.flags \cup {"p12PW"}}
    <3>1. Set(a, "noPrompt") => ~ Types(c)
      BY <1>2, <1>3, <1>13 DEF Set, Types, Used
    <3> QED BY <1>1, <1>2, <1>3, <1>6, <1>13, <2>1, <2>3, <2>4, <3>1
  <2>9. /\ first = buildConfigFromFlags(x) /\ buildConfig(c) = buildConfigFromFlags(y)
        /\ last = buildConfigFromFlags(e)
    BY <1>7, <1>9, <1>10, <1>13 DEF buildConfig, x, y
  <2>10. buildConfigFromFlags(y) = buildConfigFromFlags(x)
    BY <2>5, TypedPassword
  <2>11. /\ buildConfigFromFlags(e).type = buildConfigFromFlags(x).type
         /\ buildConfigFromFlags(x).type = "cloud" =>
              Authenticate(buildConfigFromFlags(e)) = Authenticate(buildConfigFromFlags(x))
         /\ Set(a, "noPrompt") => buildConfigFromFlags(e) = buildConfigFromFlags(x)
    BY <2>6, <2>7, <2>8, TypedPassword
  <2> QED BY <2>9, <2>10, <2>11 DEF b, r, c, k
<1> QED
  BY <1>12, <1>13

LEMMA PickupPassword ==
  ASSUME NEW a, Command(a), Passes(a), a.name = "pickup", Word(a, "format") \notin Stores,
         a.keyPassword = Nothing \/ a.keyPassword.lines # <<>>
  PROVE  LET config == buildConfig(Carried(a))
             made == /\ Authenticate(config) \notin {"none", "anonymous"}
                     /\ \/ config.type = "cloud" /\ a.generated /\ Set(a, "pickupID")
                        \/ config.type = "tpp" /\ Set(a, "noPrompt")
             typed == ~ Set(a, "noPrompt") /\ a.typed = Nothing
         IN  Carried(a).keyPassword # Nothing <=> a.keyPassword # Nothing \/ (made /\ ~ typed)
<1> DEFINE b == runBeforeCommand(a)
           r == Prepared(a)
           c == Opened(r)
           k == Carried(a)
           first == buildConfig(b)
           last == buildConfig(k)
           ours == /\ Set(a, "pickupID") /\ a.generated /\ first.type = "cloud"
                   /\ Authenticate(first) # "anonymous"
           theirs == first.type = "tpp" /\ Authenticate(first) # "none"
           made == /\ Authenticate(last) \notin {"none", "anonymous"}
                   /\ \/ last.type = "cloud" /\ a.generated /\ Set(a, "pickupID")
                      \/ last.type = "tpp" /\ Set(a, "noPrompt")
           kp == IF r.keyPassword.how = "file" THEN Plain(r.keyPassword.lines) ELSE r.keyPassword
<1>1. /\ Same(a, b) /\ b.flags = a.flags
  BY BegunKeeps DEF Command
<1>2. r.keyPassword = IF /\ Set(a, "noPrompt") /\ a.keyPassword = Nothing
                         /\ IsCSRServiceVaaSGenerated(b) \/ isTppConnector(b)
                      THEN Temporary ELSE a.keyPassword
  BY PickupIs
<1>3. /\ DOMAIN c = Parts /\ Same(r, c) /\ c.flags = r.flags /\ c.words = r.words
      /\ c.keyPassword = kp /\ k.keyPassword = KeyPassword(c)
  BY CarriedIs
<1>4. /\ buildConfig(c) = first /\ last.type = first.type
      /\ first.type = "cloud" => Authenticate(last) = Authenticate(first)
      /\ Set(a, "noPrompt") => last = first
  BY PickupConnections
<1>5. /\ Same(a, r) /\ r.flags \in {a.flags, a.flags \cup a.env}
      /\ Word(r, "format") = Word(a, "format")
  BY PreparedKeeps DEF Command
<1>6. \A z \in {"noPrompt", "pickupID", "pickupIDFile"} :
        (Set(k, z) <=> Set(a, z)) /\ (Set(r, z) <=> Set(a, z))
  BY NotInEnvironment, JoinedFlags DEF Set
<1>7. k.keyPassword # Unread /\ Set(k, "pickupID") # Set(k, "pickupIDFile")
  <2>1. k = readData(r) /\ k.name = "pickup"
    BY CarriedKeeps DEF Carried, Command, Same
  <2>2. WasRead(k) /\ Checks(k)
    BY <2>1 DEF Passes
  <2> HIDE DEF k, r
  <2>3. Checks(k) <=> validatePickupFlags1(k)
    BY <2>1 DEF Checks
  <2> QED BY <2>2, <2>3 DEF WasRead, validatePickupFlags1
<1> HIDE DEF b, r, c, k, kp
<1>8. IsCSRServiceVaaSGenerated(b) <=> ours
  BY <1>1 DEF IsCSRServiceVaaSGenerated, Same, Set
<1>9. isTppConnector(b) <=> theirs
  <2>1. ~ NoZone(b)
    BY <1>1, <1>6, <1>7 DEF NoZone, Used, Set
  <2> QED BY <1>1, <2>1 DEF isTppConnector, Same
<1>10. NeedsKeyPassword(c) <=> ours
  <2>1. /\ c.name = "pickup" /\ c.generated = a.generated
        /\ Word(c, "format") \notin Stores
        /\ Set(c, "pickupID") <=> Set(a, "pickupID")
    BY <1>3, <1>5, <1>6 DEF Same, Word, Set
  <2>2. IsCSRServiceVaaSGenerated(c) <=> ours
    BY <1>4, <2>1 DEF IsCSRServiceVaaSGenerated
  <2> QED BY <2>1, <2>2 DEF NeedsKeyPassword
<1>11. made <=> ours \/ (theirs /\ Set(a, "noPrompt"))
  <2>1. first.type = "cloud" => Authenticate(first) \in {"access", "service account", "key", "anonymous"}
    BY DEF Authenticate, CloudAuthenticate
  <2>2. first.type = "tpp" => Authenticate(first) \in {"user", "refresh", "access", "none"}
    BY DEF Authenticate, TppAuthenticate
  <2> HIDE DEF first, last
  <2> QED BY <1>4, <2>1, <2>2
<1> HIDE DEF first, last, ours, theirs, made
<1>12. Set(c, "noPrompt") <=> Set(a, "noPrompt")
  BY <1>3, <1>6 DEF Set
<1>13. c.typed = a.typed /\ c.name = "pickup"
  BY <1>3, <1>5 DEF Same
<1>14. k.keyPassword =
         IF ~ ours THEN kp
         ELSE IF kp = Nothing /\ ~ Set(a, "noPrompt") THEN a.typed
         ELSE IF kp = Nothing THEN Unread
         ELSE readPasswordsFromInputFlag(kp, LineOfKeyPassword(c))
  BY <1>3, <1>10, <1>12, <1>13 DEF KeyPassword
<1>15. Nothing.how = "text" /\ Nothing.lines = <<>>
  BY DEF Nothing, Plain
<1>16. CASE r.keyPassword = Nothing
  <2>1. kp = Nothing /\ a.keyPassword = Nothing
    <3>1. Temporary # Nothing
      BY DEF Temporary, Nothing, Plain
    <3> QED BY <1>2, <1>15, <1>16, <3>1 DEF kp
  <2>2. ~ (Set(a, "noPrompt") /\ (ours \/ theirs))
    <3>1. Temporary # Nothing
      BY DEF Temporary, Nothing, Plain
    <3> QED BY <1>2, <1>8, <1>9, <1>16, <2>1, <3>1
  <2> QED BY <1>11, <1>14, <2>1, <2>2 DEF made, last, k
<1>17. CASE r.keyPassword # Nothing
  <2>1. r.keyPassword.how \in {"text", "file", "File", "pass"} /\ r.keyPassword.lines # <<>>
    <3>1. CASE r.keyPassword = Temporary
      BY <3>1 DEF Temporary, Plain
    <3>2. CASE r.keyPassword = a.keyPassword
      BY <1>17, <3>2 DEF Command, Passwords
    <3> QED BY <1>2, <3>1, <3>2
  <2>2. kp.how \in {"text", "file", "File", "pass"} /\ kp.lines # <<>>
    BY <2>1, OpenedPassword DEF kp
  <2>3. kp # Nothing
    BY <1>15, <2>2
  <2>4. k.keyPassword # Nothing
    <3>1. CASE ~ ours
      BY <1>14, <2>3, <3>1
    <3>2. CASE ours
      <4> DEFINE q == readPasswordsFromInputFlag(kp, LineOfKeyPassword(c))
      <4>1. k.keyPassword = q
        BY <1>14, <2>3, <3>2
      <4>2. q = Unread \/ q = kp \/ q = Plain(kp.lines) \/ \E l \in DOMAIN kp.lines : q = Plain(<<kp.lines[l]>>)
        BY <2>2, ReadPassword
      <4>3. \A l : Plain(<<kp.lines[l]>>) # Nothing
        BY DEF Plain, Nothing
      <4>4. Plain(kp.lines) # Nothing
        BY <2>2 DEF Plain, Nothing
      <4> HIDE DEF q
      <4> QED BY <1>7, <2>3, <4>1, <4>2, <4>3, <4>4
    <3> QED BY <3>1, <3>2
  <2>5. a.keyPassword # Nothing \/ (Set(a, "noPrompt") /\ (ours \/ theirs))
    BY <1>2, <1>8, <1>9, <1>17
  <2> QED BY <1>11, <2>4, <2>5 DEF made, last, k
<1> QED
  BY <1>16, <1>17

LEMMA PasswordsAreThere ==
  ASSUME Sound(call)
  PROVE  PasswordsSuffice
<1> DEFINE a == Arg
<1>1. Called("command") => Command(a)
  BY DEF Sound, CommandCall, Called, Arg
<1>2. StoreHasPassword
  BY <1>1, StorePassword DEF StoreHasPassword
<1>3. KeyIsFetched
  <2>1. SUFFICES ASSUME Connecting, a.name = "pickup", Word(a, "format") \notin Stores,
                        a.keyPassword = Nothing \/ a.keyPassword.lines # <<>>
                 PROVE  KeyIsFetched
    BY DEF KeyIsFetched
  <2>2. Command(a) /\ Passes(a)
    BY <1>1, <2>1 DEF Connecting
  <2>3. Connection = buildConfig(Carried(a)) /\ Outcome = Authenticate(Connection)
    BY <2>1 DEF Connection, Outcome
  <2> HIDE DEF a
  <2>4. LET config == buildConfig(Carried(a))
            made == /\ Authenticate(config) \notin {"none", "anonymous"}
                    /\ \/ config.type = "cloud" /\ a.generated /\ Set(a, "pickupID")
                       \/ config.type = "tpp" /\ Set(a, "noPrompt")
            typed == ~ Set(a, "noPrompt") /\ a.typed = Nothing
        IN  Carried(a).keyPassword # Nothing <=> a.keyPassword # Nothing \/ (made /\ ~ typed)
    BY <2>1, <2>2, PickupPassword
  <2> QED BY <2>3, <2>4, Zenon DEF KeyIsFetched, a
<1>4. PasswordsAreLines
  <2> DEFINE key == a.keyPassword
             file == {"file", "File"}
  <2>1. SUFFICES ASSUME Called("command"), a.name \in {"enroll", "pickup"},
                        NeedsKeyPassword(Ready), {"url", "password"} \subseteq Ready.flags,
                        ~ Set(Ready, "p12"), a.password.how \in file, key.how \in file,
                        key.lines = a.password.lines, Len(key.lines) = 2
                 PROVE  /\ Carried(a).password.lines = <<key.lines[1]>>
                        /\ a.password.how = "File" /\ key.how = "File" =>
                             Carried(a).keyPassword.lines = <<key.lines[2]>>
    BY Zenon DEF PasswordsAreLines, OneFileForBoth
  <2>2. Command(a) /\ Ready = Prepared(a)
    BY <1>1, <2>1 DEF Ready
  <2> HIDE DEF a
  <2> QED BY <2>1, <2>2, LinesOfPasswords
<1> QED
  BY <1>2, <1>3, <1>4 DEF PasswordsSuffice

(* Whatever a command has been given: a key store has a password, the key  *)
(* that a platform made is asked for, and a password is its line of a      *)
(* file, with the exceptions the properties name (passwords.go,            *)
(* validators.go, cmdCertificates.go:283).                                 *)
THEOREM PasswordsAreFound == Spec => []PasswordsSuffice
  BY PasswordsAreThere, CallsAreSound, PTL

-----------------------------------------------------------------------------
(* Lists and sets of numbers *)

(* A set of numbers has a least one.                                       *)
LEMMA LeastNumber ==
  ASSUME NEW S \in SUBSET Nat, S # {}
  PROVE  \E m \in S : \A k \in S : m <= k
<1> DEFINE Less == {ss \in Nat \X Nat : ss[1] < ss[2]}
<1>1. IsWellFoundedOn(Less, Nat)
  BY NatLessThanWellFounded, Zenon DEF OpToRel
<1> HIDE DEF Less
<1>2. PICK m \in S : \A k \in S : ~ (<<k, m>> \in Less)
  BY <1>1, WFMin
<1>3. ASSUME NEW k \in S
      PROVE  m <= k
  <2>1. ~ (<<k, m>> \in Less) /\ k \in Nat /\ m \in Nat
    BY <1>2
  <2> QED BY <2>1 DEF Less
<1> QED
  BY <1>3

(* A set with 0 and the successor of each of its numbers has all of them.  *)
LEMMA SetInduction ==
  ASSUME NEW S, 0 \in S, \A n \in Nat : n \in S => n + 1 \in S
  PROVE  Nat \subseteq S
<1> SUFFICES ASSUME NEW x \in Nat, x \notin S
             PROVE  FALSE
  OBVIOUS
<1>1. PICK m \in Nat \ S : \A k \in Nat \ S : m <= k
  BY LeastNumber
<1>2. m # 0 /\ m - 1 \in Nat
  BY <1>1
<1>3. m - 1 \in S
  BY <1>1, <1>2
<1> QED
  BY <1>1, <1>2, <1>3

(* A list of the members of a set of numbers in their order says how many  *)
(* there are, and which is the n-th.                                       *)
LEMMA Enumerated ==
  ASSUME NEW S \in SUBSET Nat, NEW m \in Nat, NEW r \in [1 .. m -> S],
         \A i, j \in 1 .. m : i < j => r[i] < r[j],
         \A k \in S : \E i \in 1 .. m : k = r[i]
  PROVE  Cardinality(S) = m /\ \A i \in 1 .. m : Nth(S, i) = r[i]
<1> DEFINE UpTo(k) == {j \in S : j <= k}
<1>0. \A i \in 1 .. m : r[i] \in S /\ r[i] \in Nat
  OBVIOUS
<1>1. ASSUME NEW n \in Nat, n <= m, NEW T, T = {r[i] : i \in 1 .. n}
      PROVE  Cardinality(T) = n
  <2> DEFINE q == [i \in 1 .. n |-> r[i]]
  <2>1. q \in [1 .. n -> T]
    BY <1>1
  <2>2. ASSUME NEW i \in 1 .. n, NEW j \in 1 .. n, q[i] = q[j]
        PROVE  i = j
    <3>1. i \in 1 .. m /\ j \in 1 .. m /\ r[i] = r[j]
      BY <1>1, <2>2
    <3>2. ~ (i < j) /\ ~ (j < i)
      BY <1>0, <3>1
    <3> QED BY <3>1, <3>2
  <2>3. \A t \in T : \E i \in 1 .. n : q[i] = t
    BY <1>1
  <2>4. q \in Bijection(1 .. n, T)
    BY <2>1, <2>2, <2>3 DEF Bijection, Injection, Surjection, IsInjective
  <2>5. IsFiniteSet(1 .. n) /\ Cardinality(1 .. n) = n
    <3>1. Cardinality(1 .. n) = IF 1 > n THEN 0 ELSE n - 1 + 1
      BY FS_Interval
    <3> QED BY <3>1, FS_Interval
  <2> QED BY <2>4, <2>5, FS_Bijection DEF ExistsBijection
<1>2. Cardinality(S) = m
  <2>1. S = {r[i] : i \in 1 .. m}
    OBVIOUS
  <2> QED BY <1>1, <2>1
<1>3. ASSUME NEW i \in 1 .. m
      PROVE  Cardinality(UpTo(r[i])) = i
  <2>1. \A k \in 1 .. m : r[k] <= r[i] <=> k <= i
    BY <1>0
  <2>2. ASSUME NEW j \in S, j <= r[i]
        PROVE  \E k \in 1 .. i : j = r[k]
    BY <2>1, <2>2
  <2>3. \A k \in 1 .. i : r[k] \in S /\ r[k] <= r[i]
    BY <1>0, <2>1
  <2>4. UpTo(r[i]) = {r[k] : k \in 1 .. i}
    BY <2>2, <2>3
  <2> QED BY <1>1, <2>4
<1>4. ASSUME NEW i \in 1 .. m
      PROVE  Nth(S, i) = r[i]
  <2>1. r[i] \in S /\ Cardinality(UpTo(r[i])) = i
    BY <1>0, <1>3
  <2>2. \A k \in S : Cardinality(UpTo(k)) = i => k = r[i]
    BY <1>3
  <2> HIDE DEF UpTo
  <2>3. (CHOOSE k \in S : Cardinality(UpTo(k)) = i) = r[i]
    BY <2>1, <2>2
  <2> QED BY <2>3 DEF Nth, UpTo
<1> QED
  BY <1>2, <1>4

-----------------------------------------------------------------------------
(* Certificates and keys *)

(* A block in the middle of a list.                                        *)
PutIn(s, d, at) == SubSeq(s, 1, at) \o <<d>> \o SubSeq(s, at + 1, Len(s))

LEMMA PutAfter ==
  ASSUME NEW S, NEW s \in Seq(S), NEW d \in S, NEW at \in 0 .. Len(s)
  PROVE  /\ PutIn(s, d, at) \in Seq(S) /\ Len(PutIn(s, d, at)) = Len(s) + 1
         /\ \A i \in 1 .. Len(s) + 1 :
              PutIn(s, d, at)[i] = IF i <= at THEN s[i] ELSE IF i = at + 1 THEN d ELSE s[i - 1]
<1> DEFINE n == Len(s)
           a == SubSeq(s, 1, at)
           z == SubSeq(s, at + 1, n)
           ad == a \o <<d>>
           t == ad \o z
<1>1. n \in Nat /\ at \in Nat /\ at <= n /\ \A i \in 1 .. n : s[i] \in S
  OBVIOUS
<1>n. s \in Seq(S) /\ Len(s) = n
  OBVIOUS
<1> HIDE DEF n
<1>2. a \in Seq(S) /\ Len(a) = at /\ \A i \in 1 .. at : a[i] = s[i]
  <2>1. \A i \in 1 .. at : s[i] \in S
    BY <1>1
  <2>2. /\ a \in Seq(S) /\ Len(a) = IF 1 <= at THEN at - 1 + 1 ELSE 0
        /\ \A i \in 1 .. at - 1 + 1 : a[i] = s[1 + i - 1]
    BY <1>1, <2>1, SubSeqProperties
  <2> HIDE DEF a
  <2> QED BY <1>1, <2>2
<1>3. z \in Seq(S) /\ Len(z) = n - at /\ \A i \in 1 .. n - at : z[i] = s[at + i]
  <2>1. \A i \in at + 1 .. n : s[i] \in S
    BY <1>1
  <2>2. /\ z \in Seq(S) /\ Len(z) = IF at + 1 <= n THEN n - (at + 1) + 1 ELSE 0
        /\ \A i \in 1 .. n - (at + 1) + 1 : z[i] = s[at + 1 + i - 1]
    BY <1>1, <2>1, SubSeqProperties
  <2> HIDE DEF z
  <2>3. ASSUME NEW i \in 1 .. n - at
        PROVE  z[i] = s[at + i]
    <3>1. i \in 1 .. n - (at + 1) + 1 /\ at + 1 + i - 1 = at + i
      BY <1>1
    <3> QED BY <2>2, <3>1
  <2> QED BY <1>1, <2>2, <2>3
<1> HIDE DEF a, z
<1>4. ad \in Seq(S) /\ Len(ad) = at + 1 /\ (\A i \in 1 .. at : ad[i] = s[i]) /\ ad[at + 1] = d
  BY <1>1, <1>2
<1> HIDE DEF ad
<1>5. t \in Seq(S) /\ Len(t) = n + 1
  BY <1>1, <1>3, <1>4
<1>6. ASSUME NEW i \in 1 .. n + 1
      PROVE  t[i] = IF i <= at THEN s[i] ELSE IF i = at + 1 THEN d ELSE s[i - 1]
  <2>1. i <= at + 1 => t[i] = ad[i]
    BY <1>1, <1>3, <1>4
  <2>2. i > at + 1 => t[i] = z[i - (at + 1)]
    BY <1>1, <1>3, <1>4
  <2>3. i > at + 1 => i - (at + 1) \in 1 .. n - at /\ at + (i - (at + 1)) = i - 1
    BY <1>1
  <2> HIDE DEF t
  <2> QED BY <1>1, <1>3, <1>4, <2>1, <2>2, <2>3
<1> QED
  BY <1>5, <1>6 DEF a, z, ad, PutIn, n

(* The certificates of a file with one other block.                        *)
LEMMA CertificatesBeside ==
  ASSUME NEW S, NEW list \in Seq(S), NEW key \in S,
         NEW at \in 0 .. Len(list),
         \A i \in 1 .. Len(list) : IsCertificate(list[i]) /\ ~ IsKeyBlock(list[i]),
         IsKeyBlock(key) /\ ~ IsCertificate(key)
  PROVE  LET blocks == PutIn(list, key, at)
             n == Len(list)
         IN  /\ CertificatesOf(blocks) = list
             /\ LastKey(blocks)[1] = key /\ Len(LastKey(blocks)) = n - at + 1
<1> DEFINE blocks == PutIn(list, key, at)
           n == Len(list)
<1>0. /\ blocks \in Seq(S) /\ Len(blocks) = n + 1
      /\ \A i \in 1 .. n + 1 :
           blocks[i] = IF i <= at THEN list[i] ELSE IF i = at + 1 THEN key ELSE list[i - 1]
  BY PutAfter
<1>n. n \in Nat /\ at \in 0 .. n /\ Len(list) = n
  OBVIOUS
<1> HIDE DEF blocks, n
<1> DEFINE P == {i \in DOMAIN blocks : IsCertificate(blocks[i])}
           r == [i \in 1 .. n |-> IF i <= at THEN i ELSE i + 1]
<1>1. n \in Nat /\ at \in Nat /\ at <= n /\ DOMAIN blocks = 1 .. n + 1 /\ DOMAIN list = 1 .. n
  BY <1>n, <1>0, <1>n
<1>2. ASSUME NEW i \in 1 .. n + 1
      PROVE  /\ IsCertificate(blocks[i]) <=> i # at + 1
             /\ IsKeyBlock(blocks[i]) <=> i = at + 1
  <2>1. CASE i <= at
    BY <1>n, <1>0, <1>1, <2>1
  <2>2. CASE i = at + 1
    BY <1>n, <1>0, <1>1, <2>2
  <2>3. CASE i > at + 1
    <3>1. blocks[i] = list[i - 1] /\ i - 1 \in 1 .. n
      BY <1>n, <1>0, <1>1, <2>3
    <3> QED BY <1>n, <1>0, <1>1, <2>3, <3>1
  <2>4. i <= at \/ i = at + 1 \/ i > at + 1
    BY <1>1
  <2> QED BY <2>1, <2>2, <2>3, <2>4, Zenon
<1>3. P = (1 .. n + 1) \ {at + 1}
  BY <1>1, <1>2
<1>4. P \in SUBSET Nat /\ r \in [1 .. n -> P]
  BY <1>1, <1>3
<1>5. \A i, j \in 1 .. n : i < j => r[i] < r[j]
  BY <1>1
<1>6. \A k \in P : \E i \in 1 .. n : k = r[i]
  <2> SUFFICES ASSUME NEW k \in P
               PROVE  \E i \in 1 .. n : k = r[i]
    OBVIOUS
  <2>1. k \in 1 .. n + 1 /\ k # at + 1
    BY <1>3
  <2>2. CASE k <= at
    BY <1>1, <2>1, <2>2
  <2>3. CASE k > at + 1
    <3>1. k - 1 \in 1 .. n /\ r[k - 1] = k
      BY <1>1, <2>1, <2>3
    <3> QED BY <3>1
  <2> QED BY <1>1, <2>1, <2>2, <2>3
<1> HIDE DEF P
<1>7. Cardinality(P) = n /\ \A i \in 1 .. n : Nth(P, i) = r[i]
  <2>1. P \in SUBSET Nat
    BY <1>4
  <2>2. r \in [1 .. n -> P]
    BY <1>4
  <2> HIDE DEF r
  <2>3. \A i, j \in 1 .. n : i < j => r[i] < r[j]
    BY <1>5
  <2> QED BY <1>n, <2>1, <2>2, <2>3, <1>6, Enumerated
<1>8. ASSUME NEW i \in 1 .. n
      PROVE  blocks[r[i]] = list[i]
  <2>1. CASE i <= at
    BY <1>n, <1>0, <1>1, <2>1
  <2>2. CASE i > at
    <3>1. r[i] = i + 1 /\ i + 1 \in 1 .. n + 1 /\ ~ (i + 1 <= at) /\ i + 1 # at + 1 /\ (i + 1) - 1 = i
      BY <1>1, <2>2
    <3> QED BY <1>n, <1>0, <3>1
  <2> QED BY <1>1, <2>1, <2>2
<1>9. CertificatesOf(blocks) = [i \in 1 .. n |-> list[i]]
  BY <1>7, <1>8 DEF CertificatesOf, Selected, P
<1>10. CertificatesOf(blocks) = list
  BY <1>1, <1>9
<1>11. {i \in DOMAIN blocks : IsKeyBlock(blocks[i])} = {at + 1}
  BY <1>1, <1>2
<1>12. LastKey(blocks) = SubSeq(blocks, at + 1, n + 1)
  <2>1. Max({at + 1}) = at + 1
    BY <1>1 DEF Max
  <2> QED BY <1>n, <1>0, <1>11, <2>1 DEF LastKey
<1>13. LastKey(blocks)[1] = key /\ Len(LastKey(blocks)) = n - at + 1
  <2>1. \A i \in at + 1 .. n + 1 : blocks[i] \in S
    BY <1>n, <1>0, <1>1
  <2>2. /\ Len(SubSeq(blocks, at + 1, n + 1)) = IF at + 1 <= n + 1 THEN n + 1 - (at + 1) + 1 ELSE 0
        /\ \A i \in 1 .. n + 1 - (at + 1) + 1 : SubSeq(blocks, at + 1, n + 1)[i] = blocks[at + 1 + i - 1]
    BY <1>1, <2>1, SubSeqProperties
  <2>3. 1 \in 1 .. n + 1 - (at + 1) + 1 /\ at + 1 + 1 - 1 = at + 1 /\ at + 1 \in 1 .. n + 1 /\ ~ (at + 1 <= at)
    BY <1>1
  <2> QED BY <1>n, <1>0, <1>1, <1>12, <2>2, <2>3
<1> QED
  BY <1>10, <1>13 DEF blocks, n

(* The order that is asked for, and the same of what remains when the last *)
(* one is taken away.                                                      *)
LEMMA OrderedList ==
  ASSUME NEW S, NEW certs \in Seq(S), certs # <<>>
  PROVE  LET n == Len(certs)  r == Reverse(certs)
         IN  /\ n \in Nat \ {0} /\ r \in Seq(S) /\ Len(r) = n /\ r[1] = certs[n]
             /\ SubSeq(certs, n, n) = <<certs[n]>>
             /\ SubSeq(r, 2, n) = Reverse(SubSeq(certs, 1, n - 1))
             /\ Len(SubSeq(certs, 1, n - 1)) = n - 1
             /\ Len(SubSeq(r, 2, n)) = n - 1
<1> DEFINE n == Len(certs)
           r == Reverse(certs)
           c == SubSeq(certs, 1, n - 1)
           d == SubSeq(r, 2, n)
<1>1. n \in Nat /\ n >= 1 /\ DOMAIN certs = 1 .. n /\ \A i \in 1 .. n : certs[i] \in S
  OBVIOUS
<1> HIDE DEF n
<1>2. r = [i \in 1 .. n |-> certs[n - i + 1]]
  BY DEF Reverse, n
<1>3. \A i \in 1 .. n : n - i + 1 \in 1 .. n
  BY <1>1
<1>4. r \in Seq(S) /\ Len(r) = n /\ r[1] = certs[n] /\ \A i \in 1 .. n : r[i] = certs[n - i + 1] /\ r[i] \in S
  BY <1>1, <1>2, <1>3
<1> HIDE DEF r
<1>5. c \in Seq(S) /\ Len(c) = n - 1 /\ \A i \in 1 .. n - 1 : c[i] = certs[i]
  <2>1. \A i \in 1 .. n - 1 : certs[i] \in S
    BY <1>1
  <2>2. /\ c \in Seq(S) /\ Len(c) = IF 1 <= n - 1 THEN n - 1 - 1 + 1 ELSE 0
        /\ \A i \in 1 .. n - 1 - 1 + 1 : c[i] = certs[1 + i - 1]
    BY <1>1, <2>1, SubSeqProperties
  <2> HIDE DEF c
  <2> QED BY <1>1, <2>2
<1>6. d \in Seq(S) /\ Len(d) = n - 1 /\ \A i \in 1 .. n - 1 : d[i] = r[i + 1]
  <2>1. \A i \in 2 .. n : r[i] \in S
    BY <1>1, <1>4
  <2>2. /\ d \in Seq(S) /\ Len(d) = IF 2 <= n THEN n - 2 + 1 ELSE 0
        /\ \A i \in 1 .. n - 2 + 1 : d[i] = r[2 + i - 1]
    BY <1>1, <2>1, SubSeqProperties
  <2> HIDE DEF d
  <2>3. ASSUME NEW i \in 1 .. n - 1
        PROVE  d[i] = r[i + 1]
    <3>1. i \in 1 .. n - 2 + 1 /\ 2 + i - 1 = i + 1
      BY <1>1
    <3> QED BY <2>2, <3>1
  <2> QED BY <1>1, <2>2, <2>3
<1> HIDE DEF c, d
<1>7. Reverse(c) = [i \in 1 .. n - 1 |-> c[n - 1 - i + 1]]
  BY <1>5 DEF Reverse
<1>8. d = Reverse(c)
  <2>1. ASSUME NEW i \in 1 .. n - 1
        PROVE  d[i] = c[n - 1 - i + 1]
    <3> DEFINE j == n - i
    <3>1. i + 1 \in 1 .. n /\ n - (i + 1) + 1 = j /\ n - 1 - i + 1 = j /\ j \in 1 .. n - 1
      BY <1>1
    <3> HIDE DEF j
    <3>2. d[i] = r[i + 1] /\ r[i + 1] = certs[j]
      BY <1>4, <1>6, <3>1
    <3> QED BY <1>5, <3>1, <3>2
  <2>2. d = [i \in 1 .. n - 1 |-> d[i]]
    BY <1>1, <1>6
  <2> QED BY <1>7, <2>1, <2>2
<1>9. SubSeq(certs, n, n) = <<certs[n]>>
  <2>1. /\ SubSeq(certs, n, n) \in Seq(S) /\ Len(SubSeq(certs, n, n)) = IF n <= n THEN n - n + 1 ELSE 0
        /\ \A i \in 1 .. n - n + 1 : SubSeq(certs, n, n)[i] = certs[n + i - 1]
    <3>1. \A i \in n .. n : certs[i] \in S
      BY <1>1
    <3> QED BY <1>1, <3>1, SubSeqProperties
  <2> DEFINE t == SubSeq(certs, n, n)
  <2>2. t \in Seq(S) /\ Len(t) = 1 /\ t[1] = certs[n]
    BY <1>1, <2>1
  <2> HIDE DEF t
  <2>3. t = <<certs[n]>>
    BY <2>2
  <2> QED BY <2>3 DEF t
<1> QED
  BY <1>1, <1>4, <1>5, <1>6, <1>8, <1>9 DEF n, r, c, d

(* The blocks of a file, and what a reader finds in them.                  *)
CertificatesFrom(s) == [i \in DOMAIN s |-> Block("CERTIFICATE", "der", s[i], "")]
BundleKey == GetPrivateKeyPEMBock([type |-> "RSA", n |-> 1, rest |-> 1], FALSE, "")
BundleBlocks(s, at, order) ==
  LET list == InOrder(CertificatesFrom(s), order)
  IN  SubSeq(list, 1, at) \o <<BundleKey>> \o SubSeq(list, at + 1, Len(list))

LEMMA BundleIsList ==
  ASSUME NEW s \in Seq(Nat), s # <<>>, NEW at \in 0 .. Len(s), NEW order
  PROVE  LET certs == CertificatesFrom(s)
             n == Len(certs)
             list == InOrder(certs, order)
             blocks == BundleBlocks(s, at, order)
         IN  /\ n \in Nat \ {0} /\ n = Len(s) /\ Len(list) = n
             /\ \A i \in 1 .. n : certs[i] = Block("CERTIFICATE", "der", s[i], "")
             /\ Reverse(certs)[1] = certs[n] /\ Reverse(certs)[n] = certs[1]
             /\ SubSeq(certs, n, n) = <<certs[n]>>
             /\ SubSeq(Reverse(certs), 2, n) = Reverse(SubSeq(certs, 1, n - 1))
             /\ Len(SubSeq(certs, 1, n - 1)) = n - 1 /\ Len(SubSeq(Reverse(certs), 2, n)) = n - 1
             /\ list = IF order = "root-first" THEN certs ELSE Reverse(certs)
             /\ CertificatesOf(blocks) = list
             /\ LastKey(blocks)[1] = BundleKey /\ Len(LastKey(blocks)) = n - at + 1
<1> DEFINE certs == [i \in DOMAIN s |-> Block("CERTIFICATE", "der", s[i], "")]
           n == Len(certs)
           list == InOrder(certs, order)
           key == GetPrivateKeyPEMBock([type |-> "RSA", n |-> 1, rest |-> 1], FALSE, "")
           S == {key} \cup {Block("CERTIFICATE", "der", c, "") : c \in Nat}
           blocks == SubSeq(list, 1, at) \o <<key>> \o SubSeq(list, at + 1, n)
<1>1. key \in S /\ key.label = "PRIVATE KEY"
  BY DEF GetPrivateKeyPEMBock, Block
<1>0. s \in Seq(Nat) /\ s # <<>> /\ at \in 0 .. Len(s)
  OBVIOUS
<1> HIDE DEF key
<1>2. certs \in Seq(S) /\ certs # <<>> /\ n = Len(s)
  <2>1. DOMAIN s = 1 .. Len(s) /\ Len(s) \in Nat \ {0} /\ \A i \in 1 .. Len(s) : s[i] \in Nat
    BY <1>0
  <2>2. \A c \in Nat : Block("CERTIFICATE", "der", c, "") \in S
    OBVIOUS
  <2>3. \A i \in DOMAIN s : Block("CERTIFICATE", "der", s[i], "") \in S
    BY <2>1, <2>2, Zenon
  <2> HIDE DEF S
  <2>4. certs \in [DOMAIN s -> S]
    BY <2>3, Zenon
  <2> HIDE DEF certs
  <2>5. certs \in [1 .. Len(s) -> S]
    BY <2>1, <2>4
  <2>6. certs \in Seq(S) /\ Len(certs) = Len(s) /\ Len(s) # 0
    BY <2>1, <2>5
  <2>7. certs # <<>>
    BY <2>6
  <2> QED BY <2>6, <2>7
<1>3. \A c \in Nat : Block("CERTIFICATE", "der", c, "").label = "CERTIFICATE"
  BY DEF Block
<1>4. \A i \in 1 .. n : certs[i].label = "CERTIFICATE"
  <2>1. DOMAIN s = 1 .. Len(s) /\ \A i \in 1 .. Len(s) : s[i] \in Nat
    BY <1>0
  <2>2. \A i \in DOMAIN s : certs[i] = Block("CERTIFICATE", "der", s[i], "")
    BY Zenon
  <2> HIDE DEF certs
  <2> QED BY <1>2, <1>3, <2>1, <2>2, Zenon
<1> HIDE DEF certs, S
<1>9. \A i \in 1 .. n : certs[i] = Block("CERTIFICATE", "der", s[i], "")
  <2>1. DOMAIN s = 1 .. Len(s)
    BY <1>0
  <2> QED BY <1>2, <2>1, Zenon DEF certs
<1>5. /\ n \in Nat \ {0} /\ Reverse(certs) \in Seq(S) /\ Len(Reverse(certs)) = n
      /\ Reverse(certs)[1] = certs[n] /\ SubSeq(certs, n, n) = <<certs[n]>>
      /\ SubSeq(Reverse(certs), 2, n) = Reverse(SubSeq(certs, 1, n - 1))
      /\ Len(SubSeq(certs, 1, n - 1)) = n - 1 /\ Len(SubSeq(Reverse(certs), 2, n)) = n - 1
  BY <1>2, OrderedList
<1>6. \A i \in 1 .. n : Reverse(certs)[i].label = "CERTIFICATE"
  BY <1>4, <1>5 DEF Reverse
<1>7. list \in Seq(S) /\ Len(list) = n /\ \A i \in 1 .. n : list[i].label = "CERTIFICATE"
  BY <1>2, <1>4, <1>5, <1>6 DEF InOrder
<1>8. at \in 0 .. n
  BY <1>0, <1>2
<1> HIDE DEF list, n
<1>10. /\ \A i \in 1 .. n : IsCertificate(list[i]) /\ ~ IsKeyBlock(list[i])
       /\ IsKeyBlock(key) /\ ~ IsCertificate(key)
  BY <1>1, <1>7 DEF IsCertificate, IsKeyBlock
<1>11. list \in Seq(S) /\ key \in S /\ n \in Nat /\ Len(list) = n
  BY <1>1, <1>5, <1>7
<1>b. blocks = PutIn(list, key, at)
  BY <1>11 DEF PutIn
<1>12. CertificatesOf(blocks) = list
  <2>1. CertificatesOf(PutIn(list, key, at)) = list
    BY <1>8, <1>10, <1>11, CertificatesBeside
  <2> QED BY <1>b, <2>1
<1>13. LastKey(blocks)[1] = key /\ Len(LastKey(blocks)) = n - at + 1
  <2> DEFINE l == LastKey(PutIn(list, key, at))
  <2>1. l[1] = key /\ Len(l) = n - at + 1
    BY <1>8, <1>10, <1>11, CertificatesBeside
  <2> QED BY <1>b, <2>1
<1>14. list = IF order = "root-first" THEN certs ELSE Reverse(certs)
  BY DEF list, InOrder
<1>15. Reverse(certs)[n] = certs[1]
  BY <1>2, <1>5 DEF Reverse, n
<1>16. blocks = BundleBlocks(s, at, order) /\ certs = CertificatesFrom(s) /\ key = BundleKey
  BY <1>11, Zenon DEF BundleBlocks, CertificatesFrom, BundleKey, blocks, list, certs, key, n
<1> QED
  BY <1>2, <1>5, <1>7, <1>9, <1>12, <1>13, <1>14, <1>15, <1>16 DEF n, list

(* The certificate that is taken from the blocks in either order.          *)
LEMMA TakenCertificate ==
  ASSUME NEW s \in Seq(Nat), s # <<>>, NEW at \in 0 .. Len(s), NEW order, NEW read
  PROVE  LET taken == PEMCollectionFromBytes(BundleBlocks(s, at, order), read).certificate[1].of
         IN  taken \in {s[1], s[Len(s)]}
<1> DEFINE certs == CertificatesFrom(s)
           n == Len(certs)
           list == InOrder(certs, order)
           blocks == BundleBlocks(s, at, order)
           col == PEMCollectionFromBytes(blocks, read)
<1>1. /\ n \in Nat \ {0} /\ n = Len(s) /\ Len(list) = n
      /\ Reverse(certs)[1] = certs[n] /\ Reverse(certs)[n] = certs[1]
      /\ list = IF order = "root-first" THEN certs ELSE Reverse(certs)
      /\ CertificatesOf(blocks) = list
  BY BundleIsList
<1>6. \A i \in 1 .. n : certs[i] = Block("CERTIFICATE", "der", s[i], "")
  BY BundleIsList, Zenon
<1> HIDE DEF blocks, certs, list, n
<1>2. col.certificate = IF read = "root-first" THEN <<list[n]>> ELSE <<list[1]>>
  <2>1. n > 0 /\ n # 0 /\ Len(list) = n
    BY <1>1
  <2> QED BY <1>1, <2>1 DEF PEMCollectionFromBytes
<1>5. /\ list[1] \in {certs[1], certs[n]} /\ list[n] \in {certs[1], certs[n]}
  BY <1>1
<1> HIDE DEF col
<1>3. col.certificate[1] \in {certs[1], certs[n]}
  BY <1>2, <1>5
<1>4. certs[1].of = s[1] /\ certs[n].of = s[n]
  <2>1. 1 \in 1 .. n /\ n \in 1 .. n
    BY <1>1
  <2>2. certs[1] = Block("CERTIFICATE", "der", s[1], "") /\ certs[n] = Block("CERTIFICATE", "der", s[n], "")
    BY <1>6, <2>1, Zenon
  <2>3. \A c : Block("CERTIFICATE", "der", c, "").of = c
    BY Zenon DEF Block
  <2> QED BY <2>2, <2>3, Zenon
<1> QED
  BY <1>1, <1>3, <1>4 DEF col, blocks

(* What CollectionIsWhole says of a chain and a key after so many blocks.  *)
WholeBundle(s, at, order) ==
  LET certs == CertificatesFrom(s)
      n == Len(certs)
      col == PEMCollectionFromBytes(BundleBlocks(s, at, order), order)
      zip == ConvertZipBytesToPem(certs, BundleKey, order = "root-first")
  IN  /\ col.certificate = <<certs[n]>>
      /\ order # "ignore" =>
           /\ col.certificate = zip.certificate /\ col.chain = zip.chain
           /\ Len(col.chain) = n - 1
      /\ order = "ignore" => col.chain = <<>>
      /\ col.key[1] = BundleKey /\ (Len(col.key) = 1 <=> at = n)

LEMMA WholeCollection ==
  ASSUME NEW s \in Seq(Nat), s # <<>>, NEW at \in 0 .. Len(s), NEW order
  PROVE  WholeBundle(s, at, order)
<1> DEFINE certs == CertificatesFrom(s)
           n == Len(certs)
           list == InOrder(certs, order)
           key == BundleKey
           blocks == BundleBlocks(s, at, order)
           col == PEMCollectionFromBytes(blocks, order)
           zip == ConvertZipBytesToPem(certs, key, order = "root-first")
<1>5. /\ n \in Nat \ {0} /\ n = Len(s) /\ Len(list) = n
      /\ Reverse(certs)[1] = certs[n] /\ SubSeq(certs, n, n) = <<certs[n]>>
      /\ SubSeq(Reverse(certs), 2, n) = Reverse(SubSeq(certs, 1, n - 1))
      /\ Len(SubSeq(certs, 1, n - 1)) = n - 1 /\ Len(SubSeq(Reverse(certs), 2, n)) = n - 1
  BY BundleIsList
<1>16. list = IF order = "root-first" THEN certs ELSE Reverse(certs)
  BY BundleIsList
<1>12. CertificatesOf(blocks) = list
  BY BundleIsList
<1>13. LastKey(blocks)[1] = key /\ Len(LastKey(blocks)) = n - at + 1
  BY BundleIsList
<1>8. at \in 0 .. n
  BY <1>5
<1> HIDE DEF certs, n, list, key
<1> HIDE DEF blocks
<1>14. col = [certificate |-> IF order = "root-first" THEN <<list[n]>> ELSE <<list[1]>>,
              chain |-> IF order = "ignore" THEN <<>> ELSE IF order = "root-first" THEN SubSeq(list, 1, n - 1)
                        ELSE SubSeq(list, 2, n),
              key |-> LastKey(blocks)]
  <2>1. n > 0 /\ n # 0
    BY <1>5
  <2> QED BY <1>5, <1>12, <2>1 DEF PEMCollectionFromBytes
<1>15. zip = [certificate |-> SubSeq(certs, n, n),
              chain |-> IF order = "root-first" THEN SubSeq(certs, 1, n - 1) ELSE Reverse(SubSeq(certs, 1, n - 1)),
              key |-> <<key>>]
  BY DEF ConvertZipBytesToPem, n
<1> HIDE DEF col, zip
<1>17. Len(LastKey(blocks)) = 1 <=> at = n
  BY <1>5, <1>8, <1>13
<1>18. col.certificate = <<certs[n]>> /\ zip.certificate = <<certs[n]>>
  BY <1>5, <1>14, <1>15, <1>16
<1>19. order # "ignore" => col.chain = zip.chain /\ Len(col.chain) = n - 1
  BY <1>5, <1>14, <1>15, <1>16
<1>20. col.key = LastKey(blocks) /\ (order = "ignore" => col.chain = <<>>)
  BY <1>14
<1> QED
  BY <1>13, <1>17, <1>18, <1>19, <1>20 DEF WholeBundle, certs, n, list, key, blocks, col, zip

(* The only label that the contents do not have to fit is the one of RSA.  *)
LEMMA ListenersKey ==
  ASSUME NEW key
  PROVE  LET block == DecryptPkcs8PrivateKey(GetPrivateKeyPEMBock(key, FALSE, ""), "")
         IN  tlsKey(block) = IF key.type = "RSA" THEN key ELSE NoKey
<1> DEFINE written == GetPrivateKeyPEMBock(key, FALSE, "")
           block == DecryptPkcs8PrivateKey(written, "")
           label == IF key.type = "ED25519" THEN "PRIVATE KEY" ELSE LegacyLabel(key.type)
<1>1. written.form = "pkcs8" /\ written.of = key /\ written.password = ""
  BY DEF GetPrivateKeyPEMBock, Block
<1> HIDE DEF written
<1>2. block = Block(label, "pkcs8", key, "")
  BY <1>1 DEF DecryptPkcs8PrivateKey
<1> HIDE DEF block
<1>3. /\ block.password = "" /\ block.form = "pkcs8" /\ block.of = key
      /\ block.label = label
  BY <1>2 DEF Block
<1>4. tlsKey(block) = IF key.type = "RSA" THEN key ELSE NoKey
  <2>1. CASE key.type = "RSA"
    BY <1>3, <2>1 DEF LegacyLabel, tlsKey
  <2>2. CASE key.type # "RSA"
    BY <1>3, <2>2 DEF LegacyLabel, tlsKey
  <2> QED BY <2>1, <2>2
<1> QED
  BY <1>4 DEF block, written

-----------------------------------------------------------------------------
(* Names *)

(* The members of a list at consecutive places.                            *)
LEMMA SelectedInterval ==
  ASSUME NEW list, NEW lo \in Nat, NEW n \in Nat
  PROVE  LET s == Selected(list, lo + 1 .. lo + n)
         IN  DOMAIN s = 1 .. n /\ \A i \in 1 .. n : s[i] = list[lo + i]
<1> DEFINE P == lo + 1 .. lo + n
           r == [i \in 1 .. n |-> lo + i]
<1>1. P \in SUBSET Nat
  OBVIOUS
<1>2. r \in [1 .. n -> P]
  OBVIOUS
<1>3. \A i, j \in 1 .. n : i < j => r[i] < r[j]
  OBVIOUS
<1>4. \A k \in P : \E i \in 1 .. n : k = r[i]
  <2> SUFFICES ASSUME NEW k \in P
               PROVE  \E i \in 1 .. n : k = r[i]
    OBVIOUS
  <2>1. k - lo \in 1 .. n /\ k = lo + (k - lo)
    OBVIOUS
  <2> QED BY <2>1
<1> HIDE DEF P
<1>5. \A i \in 1 .. n : r[i] = lo + i
  OBVIOUS
<1> HIDE DEF r
<1>6. Cardinality(P) = n /\ \A i \in 1 .. n : Nth(P, i) = r[i]
  BY <1>1, <1>2, <1>3, <1>4, Enumerated
<1> QED
  BY <1>5, <1>6 DEF Selected, P

Kinds == {"dns", "email", "ip", "uri", "upn"}
LEMMA FiveKinds == ToSet(NameTypes) = Kinds
  BY DEF ToSet, NameTypes, Kinds

(* One list after another.                                                 *)
LEMMA Appended ==
  ASSUME NEW S, NEW p \in Seq(S), NEW q \in Seq(S)
  PROVE  /\ p \o q \in Seq(S) /\ Len(p \o q) = Len(p) + Len(q)
         /\ \A i \in 1 .. Len(p) : (p \o q)[i] = p[i]
         /\ \A i \in 1 .. Len(q) : (p \o q)[Len(p) + i] = q[i]
  OBVIOUS

(* The names of a kind stand at consecutive places of a list, and nowhere  *)
(* else.                                                                   *)
Stand(l, t, s) ==
  \E lo \in Nat :
    /\ {i \in DOMAIN l : l[i][1] = t} = lo + 1 .. lo + Len(s)
    /\ \A i \in 1 .. Len(s) : l[lo + i] = <<t, s[i]>>

Pairs(t, s) == [j \in DOMAIN s |-> <<t, s[j]>>]

LEMMA PairsList ==
  ASSUME NEW V, NEW s \in Seq(V), NEW t \in Kinds
  PROVE  /\ Pairs(t, s) \in Seq(Kinds \X V) /\ Len(Pairs(t, s)) = Len(s)
         /\ \A i \in 1 .. Len(s) : Pairs(t, s)[i] = <<t, s[i]>>
<1> DEFINE p == [j \in DOMAIN s |-> <<t, s[j]>>]
           S == Kinds \X V
<1>1. DOMAIN s = 1 .. Len(s) /\ Len(s) \in Nat /\ \A i \in 1 .. Len(s) : s[i] \in V
  OBVIOUS
<1>2. \A i \in 1 .. Len(s) : p[i] = <<t, s[i]>> /\ p[i] \in S
  BY <1>1
<1>3. p = [i \in 1 .. Len(s) |-> p[i]]
  BY <1>1
<1> HIDE DEF p, S
<1>4. p \in [1 .. Len(s) -> S]
  BY <1>2, <1>3
<1>5. p \in Seq(S) /\ Len(p) = Len(s)
  BY <1>1, <1>4
<1> QED
  BY <1>2, <1>5 DEF p, S, Pairs

(* Another kind after some that are others.                                *)
LEMMA StandAfter ==
  ASSUME NEW V, NEW l \in Seq(Kinds \X V), NEW T \in SUBSET Kinds, NEW t \in Kinds \ T,
         \A i \in 1 .. Len(l) : l[i][1] \in T, NEW s \in Seq(V)
  PROVE  LET m == l \o Pairs(t, s)
         IN  /\ m \in Seq(Kinds \X V)
             /\ \A i \in 1 .. Len(m) : m[i][1] \in T \cup {t}
             /\ Stand(m, t, s)
             /\ \A u \in T : \A r : Stand(l, u, r) => Stand(m, u, r)
<1> DEFINE S == Kinds \X V
           q == Pairs(t, s)
           m == l \o q
           n == Len(l)
           k == Len(s)
<1>1. q \in Seq(S) /\ Len(q) = k /\ \A i \in 1 .. k : q[i] = <<t, s[i]>>
  BY PairsList
<1>2. n \in Nat /\ k \in Nat /\ l \in Seq(S) /\ Len(l) = n
  OBVIOUS
<1>3. \A i \in 1 .. n : l[i][1] \in T /\ l[i][1] # t
  OBVIOUS
<1> HIDE DEF q, S
<1>a. m \in Seq(S) /\ Len(m) = n + k
  <2>1. \A a, b \in Seq(S) : a \o b \in Seq(S) /\ Len(a \o b) = Len(a) + Len(b)
    OBVIOUS
  <2> QED BY <1>1, <1>2, <2>1, Zenon
<1> HIDE DEF n, k
<1>4. /\ m \in Seq(S) /\ Len(m) = n + k
      /\ \A i \in 1 .. n : m[i] = l[i]
      /\ \A i \in 1 .. k : m[n + i] = q[i]
  <2>2. ASSUME NEW i \in 1 .. n
        PROVE  m[i] = l[i]
    BY <1>1, <1>2, Appended
  <2>3. ASSUME NEW i \in 1 .. k
        PROVE  m[n + i] = q[i]
    BY <1>1, <1>2, Appended
  <2> QED BY <1>a, <2>2, <2>3
<1>5. DOMAIN m = 1 .. n + k /\ DOMAIN l = 1 .. n
  BY <1>2, <1>4
<1> HIDE DEF m
<1>6. \A i \in 1 .. k : m[n + i] = <<t, s[i]>>
  BY <1>1, <1>4
<1>7. ASSUME NEW i \in 1 .. n + k
      PROVE  /\ i \in n + 1 .. n + k => m[i][1] = t
             /\ i \notin n + 1 .. n + k => i \in 1 .. n /\ m[i] = l[i]
  <2>1. ASSUME i \in n + 1 .. n + k
        PROVE  m[i][1] = t
    <3>1. i - n \in 1 .. k /\ n + (i - n) = i
      BY <1>2, <2>1
    <3>2. m[i] = <<t, s[i - n]>>
      BY <1>6, <3>1
    <3> QED BY <3>2
  <2>2. ASSUME i \notin n + 1 .. n + k
        PROVE  i \in 1 .. n /\ m[i] = l[i]
    <3>1. i \in 1 .. n
      BY <1>2, <2>2
    <3> QED BY <1>4, <3>1
  <2> QED BY <2>1, <2>2, Zenon
<1>8. \A i \in 1 .. n + k : m[i][1] \in T \cup {t}
  BY <1>3, <1>7
<1>9. Stand(m, t, s)
  <2>1. {i \in DOMAIN m : m[i][1] = t} = n + 1 .. n + k
    <3>1. \A i \in n + 1 .. n + k : i \in 1 .. n + k
      BY <1>2
    <3> QED BY <1>3, <1>5, <1>7, <3>1
  <2>2. n \in Nat /\ k = Len(s)
    BY <1>2 DEF k
  <2> QED BY <1>6, <2>1, <2>2 DEF Stand
<1>10. ASSUME NEW u \in T, NEW r, Stand(l, u, r)
       PROVE  Stand(m, u, r)
  <2>1. {i \in DOMAIN m : m[i][1] = u} = {i \in DOMAIN l : l[i][1] = u}
    <3>1. \A i \in 1 .. n : i \in 1 .. n + k /\ i \notin n + 1 .. n + k
      BY <1>2
    <3>2. u # t
      OBVIOUS
    <3> QED BY <1>5, <1>7, <3>1, <3>2
  <2>2. PICK lo \in Nat : /\ {i \in DOMAIN l : l[i][1] = u} = lo + 1 .. lo + Len(r)
                          /\ \A i \in 1 .. Len(r) : l[lo + i] = <<u, r[i]>>
    BY <1>10 DEF Stand
  <2>3. ASSUME NEW i \in 1 .. Len(r)
        PROVE  m[lo + i] = <<u, r[i]>>
    <3> DEFINE j == lo + i
    <3>1. i \in Int /\ lo \in Nat
      OBVIOUS
    <3>2. CASE Len(r) \in Int
      <4>1. j \in lo + 1 .. lo + Len(r)
        BY <3>1, <3>2
      <4>2. j \in 1 .. n
        BY <1>5, <2>2, <4>1
      <4> QED BY <1>4, <2>2, <4>2
    <3> QED BY <3>2
  <2> QED BY <2>1, <2>2, <2>3 DEF Stand
<1> QED
  BY <1>4, <1>8, <1>9, <1>10 DEF m, q, S

(* What the names of a kind are that stand in an extension.                *)
LEMMA NamesThatStand ==
  ASSUME NEW V, NEW s \in Seq(V), NEW t, NEW x, "san" \in DOMAIN x, Stand(x.san.list, t, s)
  PROVE  NamesOf(x, t) = s
<1> DEFINE l == x.san.list
           n == Len(s)
           found == Selected(l, {i \in DOMAIN l : l[i][1] = t})
<1>1. n \in Nat /\ s = [i \in 1 .. n |-> s[i]]
  OBVIOUS
<1>2. PICK lo \in Nat : /\ {i \in DOMAIN l : l[i][1] = t} = lo + 1 .. lo + n
                        /\ \A i \in 1 .. n : l[lo + i] = <<t, s[i]>>
  BY DEF Stand
<1>3. NamesOf(x, t) = [i \in DOMAIN found |-> found[i][2]]
  BY DEF NamesOf
<1> HIDE DEF l, n
<1>4. DOMAIN found = 1 .. n /\ \A i \in 1 .. n : found[i] = l[lo + i]
  <2> DEFINE q == Selected(l, lo + 1 .. lo + n)
  <2>1. DOMAIN q = 1 .. n /\ \A i \in 1 .. n : q[i] = l[lo + i]
    BY <1>1, <1>2, SelectedInterval
  <2>2. found = q
    BY <1>2
  <2> QED BY <2>1, <2>2
<1> HIDE DEF found
<1>5. NamesOf(x, t) = [i \in 1 .. n |-> s[i]]
  BY <1>2, <1>3, <1>4
<1> QED
  BY <1>1, <1>5

(* The names of a kind in the extension that is made of all of them.       *)
LEMMA NamesMarshalled ==
  ASSUME NEW V, NEW names \in [Kinds -> Seq(V)], NEW critical, NEW usages, NEW k \in Kinds
  PROVE  NamesOf(Sans(marshalSANs(names), critical) ++ Usages(usages), k) = names[k]
<1> DEFINE P(t) == Pairs(t, names[t])
           S == Kinds \X V
           l1 == P("dns")
           l2 == l1 \o P("email")
           l3 == l2 \o P("ip")
           l4 == l3 \o P("uri")
           l5 == l4 \o P("upn")
           x == Sans(l5, critical) ++ Usages(usages)
           L(l, T) == /\ l \in Seq(S) /\ \A i \in 1 .. Len(l) : l[i][1] \in T
                      /\ \A t \in T : Stand(l, t, names[t])
<1>1. marshalSANs(names) = l5
  BY DEF marshalSANs, NameTypes, Pairs
<1>2. \A t \in Kinds : names[t] \in Seq(V)
  OBVIOUS
<1>3. "dns" \in Kinds /\ "email" \in Kinds /\ "ip" \in Kinds /\ "uri" \in Kinds /\ "upn" \in Kinds
  BY DEF Kinds
<1>4. ASSUME NEW l, NEW T \in SUBSET Kinds, L(l, T), NEW t \in Kinds \ T
      PROVE  L(l \o P(t), T \cup {t})
  <2> DEFINE m == l \o P(t)
  <2>1. /\ m \in Seq(S)
        /\ \A i \in 1 .. Len(m) : m[i][1] \in T \cup {t}
        /\ Stand(m, t, names[t])
        /\ \A u \in T : \A r : Stand(l, u, r) => Stand(m, u, r)
    BY <1>2, <1>4, StandAfter
  <2> QED BY <1>4, <2>1, Zenon
<1>5. L(l1, {"dns"})
  <2>1. L(<<>>, {})
    OBVIOUS
  <2>2. L(<<>> \o P("dns"), {} \cup {"dns"})
    BY <1>3, <1>4, <2>1, Zenon
  <2>3. l1 \in Seq(S)
    BY <1>2, <1>3, PairsList
  <2> HIDE DEF S, l1
  <2>4. <<>> \o l1 = l1
    BY <2>3
  <2> QED BY <2>2, <2>4 DEF l1
<1> HIDE DEF L, P
<1>6. L(l2, {"dns", "email"})
  <2>1. L(l2, {"dns"} \cup {"email"})
    BY <1>3, <1>4, <1>5
  <2> QED BY <2>1
<1>7. L(l3, {"dns", "email", "ip"})
  <2>1. L(l3, {"dns", "email"} \cup {"ip"})
    BY <1>3, <1>4, <1>6
  <2> QED BY <2>1
<1>8. L(l4, {"dns", "email", "ip", "uri"})
  <2>1. L(l4, {"dns", "email", "ip"} \cup {"uri"})
    BY <1>3, <1>4, <1>7
  <2> QED BY <2>1
<1>9. L(l5, Kinds)
  <2>1. L(l5, {"dns", "email", "ip", "uri"} \cup {"upn"})
    BY <1>3, <1>4, <1>8
  <2>2. {"dns", "email", "ip", "uri"} \cup {"upn"} = Kinds
    BY DEF Kinds
  <2> QED BY <2>1, <2>2
<1> HIDE DEF l5
<1>10. "san" \in DOMAIN x /\ x.san.list = l5
  BY DEF Sans, Usages, ++
<1>11. Stand(l5, k, names[k])
  BY <1>9 DEF L
<1> HIDE DEF x
<1>12. NamesOf(x, k) = names[k]
  BY <1>2, <1>10, <1>11, NamesThatStand
<1> QED
  BY <1>1, <1>12 DEF x

LEMMA NamesList ==
  ASSUME NEW x, NEW k, "san" \in DOMAIN x => DOMAIN x.san.list = 1 .. Len(x.san.list) /\ Len(x.san.list) \in Nat
  PROVE  \E n \in Nat : NamesOf(x, k) = [i \in 1 .. n |-> NamesOf(x, k)[i]]
<1>1. CASE "san" \notin DOMAIN x
  <2>1. NamesOf(x, k) = <<>>
    BY <1>1 DEF NamesOf
  <2>2. <<>> = [i \in 1 .. 0 |-> <<>>[i]]
    OBVIOUS
  <2> QED BY <2>1, <2>2
<1>2. CASE "san" \in DOMAIN x
  <2> DEFINE l == x.san.list
             P == {i \in DOMAIN l : l[i][1] = k}
             n == Cardinality(P)
             found == Selected(l, P)
  <2>1. n \in Nat
    <3> DEFINE m == Len(l)
    <3>0. m \in Nat /\ DOMAIN l = 1 .. m
      BY <1>2
    <3> HIDE DEF m, l
    <3>1. IsFiniteSet(1 .. m)
      BY <3>0, FS_Interval
    <3>2. P \in SUBSET (1 .. m)
      BY <3>0
    <3> QED BY <3>1, <3>2, FS_Subset, FS_CardinalityType
  <2>2. NamesOf(x, k) = [i \in DOMAIN found |-> found[i][2]]
    BY <1>2 DEF NamesOf
  <2>3. DOMAIN found = 1 .. n
    BY DEF Selected
  <2> HIDE DEF found, n
  <2> QED BY <2>1, <2>2, <2>3
<1> QED
  BY <1>1, <1>2

(* The renewal of a request asks for the names that the request asked for. *)
LEMMA RenewalNames ==
  ASSUME NEW r, r.names \in [ToSet(NameTypes) -> Seq(Nat)],
         "san" \in DOMAIN r.extra => r.extra.san.list \in Seq(ToSet(NameTypes) \X Nat),
         NEW k \in ToSet(NameTypes)
  PROVE  LET first == GenerateCSR(r)
             again == GenerateCSR(NewRequest(first))
         IN  /\ again.subject = first.subject /\ again.key = first.key
             /\ NamesOf(again.extensions, k) = NamesOf(first.extensions, k)
             /\ (~ r.omit /\ r.extra = <<>>) => NamesOf(first.extensions, k) = r.names[k]
             /\ r.extra # <<>> => first.extensions = r.extra
<1> DEFINE first == GenerateCSR(r)
           x == Extensions(r)
           next == NewRequest(first)
           again == GenerateCSR(NewRequest(first))
           Goal == /\ again.subject = first.subject /\ again.key = first.key
                   /\ NamesOf(again.extensions, k) = NamesOf(first.extensions, k)
                   /\ (~ r.omit /\ r.extra = <<>>) => NamesOf(first.extensions, k) = r.names[k]
                   /\ r.extra # <<>> => first.extensions = r.extra
           names == [t \in Kinds |-> NamesOf(x, t)]
           V == UNION {{names[t][i] : i \in DOMAIN names[t]} : t \in Kinds}
<1>1. first = [subject |-> r.subject, extensions |-> x, key |-> r.key]
  BY DEF GenerateCSR
<1>2. next = [subject |-> r.subject, key |-> r.key, omit |-> FALSE, usages |-> <<>>, extra |-> <<>>, names |-> names]
  BY <1>1, FiveKinds DEF NewRequest
<1>3. ~ r.omit /\ r.extra = <<>> => x = Sans(marshalSANs(r.names), r.subject = <<>>) ++ Usages(r.usages)
  BY DEF Extensions
<1>4. r.extra # <<>> => x = r.extra
  BY DEF Extensions
<1>5. r.omit /\ r.extra = <<>> => x = Usages(r.usages) /\ "san" \notin DOMAIN x
  <2>1. SUFFICES ASSUME r.omit, r.extra = <<>>
                 PROVE  x = Usages(r.usages) /\ "san" \notin DOMAIN x
    OBVIOUS
  <2>2. x = <<>> ++ Usages(r.usages)
    BY <2>1 DEF Extensions
  <2>3. CASE r.usages = <<>>
    BY <2>2, <2>3 DEF Usages, ++
  <2>4. CASE r.usages # <<>>
    BY <2>2, <2>4 DEF Usages, ++
  <2> QED BY <2>3, <2>4
<1> HIDE DEF x, first
<1>6. \A t \in Kinds : (~ r.omit /\ r.extra = <<>>) => NamesOf(x, t) = r.names[t]
  BY <1>3, FiveKinds, NamesMarshalled
<1>7. \A t \in Kinds : \E n \in Nat : NamesOf(x, t) = [i \in 1 .. n |-> NamesOf(x, t)[i]]
  <2> SUFFICES ASSUME NEW t \in Kinds
               PROVE  \E n \in Nat : NamesOf(x, t) = [i \in 1 .. n |-> NamesOf(x, t)[i]]
    OBVIOUS
  <2>1. CASE r.extra # <<>>
    <3>1. "san" \in DOMAIN x => DOMAIN x.san.list = 1 .. Len(x.san.list) /\ Len(x.san.list) \in Nat
      BY <1>4, <2>1
    <3> QED BY <3>1, NamesList
  <2>2. CASE r.extra = <<>> /\ r.omit
    BY <1>5, <2>2, NamesList
  <2>3. CASE r.extra = <<>> /\ ~ r.omit
    <3>1. NamesOf(x, t) = r.names[t] /\ r.names[t] \in Seq(Nat)
      BY <1>6, <2>3, FiveKinds
    <3> DEFINE s == r.names[t]
    <3>2. s \in Seq(Nat)
      BY <3>1
    <3> HIDE DEF s
    <3>3. Len(s) \in Nat /\ s = [i \in 1 .. Len(s) |-> s[i]]
      BY <3>2
    <3> QED BY <3>1, <3>3 DEF s
  <2> QED BY <2>1, <2>2, <2>3
<1>8. names \in [Kinds -> Seq(V)]
  <2> SUFFICES ASSUME NEW t \in Kinds
               PROVE  names[t] \in Seq(V)
    OBVIOUS
  <2>1. PICK n \in Nat : NamesOf(x, t) = [i \in 1 .. n |-> NamesOf(x, t)[i]]
    BY <1>7
  <2> DEFINE s == names[t]
  <2>2. s = [i \in 1 .. n |-> s[i]]
    BY <2>1
  <2>3. \A i \in DOMAIN s : s[i] \in V
    OBVIOUS
  <2> HIDE DEF s, V
  <2>4. s \in [1 .. n -> V]
    BY <2>2, <2>3
  <2>5. s \in Seq(V)
    BY <2>4
  <2> QED BY <2>5 DEF s
<1> HIDE DEF V, names
<1>9. again.subject = r.subject /\ again.key = r.key
      /\ again.extensions = Sans(marshalSANs(names), r.subject = <<>>) ++ Usages(<<>>)
  BY <1>2 DEF GenerateCSR, Extensions
<1>10. NamesOf(again.extensions, k) = names[k]
  <2>1. k \in Kinds
    BY FiveKinds
  <2> DEFINE y == Sans(marshalSANs(names), r.subject = <<>>) ++ Usages(<<>>)
  <2>2. NamesOf(y, k) = names[k]
    BY <1>8, <2>1, NamesMarshalled
  <2> HIDE DEF y, again
  <2>3. again.extensions = y
    BY <1>9 DEF y
  <2> QED BY <2>2, <2>3
<1>11. names[k] = NamesOf(x, k)
  BY FiveKinds DEF names
<1> HIDE DEF again, next
<1>12. Goal
  BY <1>1, <1>4, <1>6, <1>9, <1>10, <1>11, FiveKinds
<1> QED
  BY <1>12 DEF first, again, Goal

(* Of some numbers one is the greatest.                                    *)
LEMMA GreatestValue ==
  ASSUME NEW n \in Nat, NEW v \in [1 .. n -> Nat], NEW S \in SUBSET (1 .. n), S # {}
  PROVE  \E i \in S : \A j \in S : v[i] >= v[j]
<1> DEFINE Largest(U) == \E i \in U : \A j \in U : v[i] >= v[j]
           Q == {k \in Nat : k <= n => \A U \in SUBSET (1 .. k) : U # {} => Largest(U)}
<1>1. 0 \in Q
  <2>1. 1 .. 0 = {}
    OBVIOUS
  <2> QED BY <2>1
<1>2. ASSUME NEW k \in Nat, k \in Q
      PROVE  k + 1 \in Q
  <2>1. SUFFICES ASSUME k + 1 <= n, NEW U \in SUBSET (1 .. k + 1), U # {}
                 PROVE  Largest(U)
    OBVIOUS
  <2> DEFINE T == U \ {k + 1}
  <2>2. T \in SUBSET (1 .. k) /\ k <= n
    BY <2>1
  <2>3. \A j \in U : v[j] \in Nat
    BY <2>1
  <2>4. CASE k + 1 \notin U
    <3>1. U \in SUBSET (1 .. k)
      BY <2>2, <2>4
    <3>2. k <= n
      BY <2>2
    <3>3. \A W \in SUBSET (1 .. k) : W # {} => Largest(W)
      BY <1>2, <3>2
    <3>4. U # {} => Largest(U)
      BY <3>1, <3>3, Zenon
    <3> QED BY <2>1, <3>4, Zenon
  <2>5. CASE k + 1 \in U /\ T = {}
    <3>1. U = {k + 1} /\ v[k + 1] \in Nat
      BY <2>3, <2>5
    <3> QED BY <3>1
  <2>6. CASE k + 1 \in U /\ T # {}
    <3>1. Largest(T)
      <4> HIDE DEF Largest, T
      <4> QED BY <1>2, <2>2, <2>6
    <3>2. PICK i \in T : \A j \in T : v[i] >= v[j]
      BY <3>1
    <3>3. v[i] \in Nat /\ v[k + 1] \in Nat /\ i \in U /\ \A j \in U : j \in T \/ j = k + 1
      BY <2>3, <2>6
    <3>4. CASE v[i] >= v[k + 1]
      BY <2>3, <3>2, <3>3, <3>4
    <3>5. CASE v[k + 1] >= v[i]
      <4>1. \A j \in T : v[k + 1] >= v[j]
        BY <2>3, <3>2, <3>3, <3>5
      <4>2. \A j \in U : v[k + 1] >= v[j]
        BY <3>3, <4>1
      <4> QED BY <2>6, <4>2, Zenon
    <3> QED BY <3>3, <3>4, <3>5
  <2> QED BY <2>4, <2>5, <2>6
<1> HIDE DEF Q
<1>3. Nat \subseteq Q
  BY <1>1, <1>2, SetInduction
<1>4. n \in Q /\ n <= n
  BY <1>3
<1> QED
  BY <1>4 DEF Q

(* What is found is one of the fitting certificates, and none is newer.    *)
LEMMA NewestFound ==
  ASSUME NEW found \in Seq([zone : Nat, dns : Seq(Nat), validTo : Nat]), NEW zone, NEW names
  PROVE  LET result == SearchCertificate(found, zone, names)
             fitting == {i \in DOMAIN found : found[i].zone = zone /\ Sorted(found[i].dns) = Sorted(names)}
         IN  IF "error" \in DOMAIN result THEN fitting = {}
             ELSE /\ \E i \in fitting : found[i] = result
                  /\ \A i \in fitting : found[i].validTo <= result.validTo
<1> DEFINE result == SearchCertificate(found, zone, names)
           own == {i \in DOMAIN found : found[i].zone = zone}
           same == {i \in own : Sorted(found[i].dns) = Sorted(names)}
           newest == {i \in same : \A j \in same : found[i].validTo >= found[j].validTo}
           fitting == {i \in DOMAIN found : found[i].zone = zone /\ Sorted(found[i].dns) = Sorted(names)}
           n == Len(found)
<1>1. n \in Nat /\ DOMAIN found = 1 .. n /\ \A i \in 1 .. n : found[i].validTo \in Nat /\ "error" \notin DOMAIN found[i]
  <2> DEFINE C == [zone : Nat, dns : Seq(Nat), validTo : Nat]
  <2>1. \A x \in C : x.validTo \in Nat /\ "error" \notin DOMAIN x
    OBVIOUS
  <2>2. found \in Seq(C)
    OBVIOUS
  <2> HIDE DEF C
  <2> QED BY <2>1, <2>2
<1>2. fitting = same
  BY Zenon
<1>3. ASSUME same = {}
      PROVE  "error" \in DOMAIN result
  <2>1. FindNewestCertificateWithSans(found, own, names) = 0
    BY <1>3, Zenon DEF FindNewestCertificateWithSans
  <2> QED BY <2>1 DEF SearchCertificate
<1>4. ASSUME same # {}
      PROVE  /\ "error" \notin DOMAIN result /\ \E i \in same : found[i] = result
             /\ \A i \in same : found[i].validTo <= result.validTo
  <2>1. same \subseteq 1 .. n
    BY <1>1
  <2>2. own # {} /\ found # <<>>
    BY <1>1, <1>4
  <2>3. newest # {}
    <3> HIDE DEF own, n
    <3> DEFINE v == [i \in 1 .. n |-> found[i].validTo]
    <3>1. v \in [1 .. n -> Nat] /\ \A i \in 1 .. n : v[i] = found[i].validTo
      BY <1>1
    <3> HIDE DEF v, same
    <3>2. \E i \in same : \A j \in same : v[i] >= v[j]
      BY <1>1, <1>4, <2>1, <3>1, GreatestValue
    <3>3. PICK i \in same : \A j \in same : v[i] >= v[j]
      BY <3>2
    <3>4. \A j \in same : found[i].validTo >= found[j].validTo
      BY <2>1, <3>1, <3>3
    <3> QED BY <3>4
  <2> DEFINE m == Min(newest)
  <2>4. m \in newest
    <3>1. newest \in SUBSET Nat
      BY <1>1, <2>1
    <3>2. PICK a \in newest : \A b \in newest : a <= b
      BY <2>3, <3>1, LeastNumber
    <3> HIDE DEF newest
    <3>3. Min(newest) \in newest
      BY <3>2 DEF Min
    <3> QED BY <3>3
  <2>5. FindNewestCertificateWithSans(found, own, names) = m
    BY <1>4, Zenon DEF FindNewestCertificateWithSans
  <2>6. m \in same /\ m \in 1 .. n /\ \A j \in same : found[m].validTo >= found[j].validTo
    BY <2>1, <2>4
  <2> HIDE DEF m
  <2>7. result = found[m]
    <3> DEFINE at == FindNewestCertificateWithSans(found, own, names)
    <3>1. result = CASE found = <<>> -> [error |-> "no certificate"]
                     [] found # <<>> /\ own = {} -> [error |-> "no certificate of the zone"]
                     [] OTHER -> IF at = 0 THEN [error |-> "no certificate"] ELSE found[at]
      BY Zenon DEF SearchCertificate
    <3>2. at = m /\ m # 0
      BY <2>5, <2>6
    <3> HIDE DEF at, own, result
    <3> QED BY <2>2, <3>1, <3>2
  <2> HIDE DEF result, same, own
  <2>8. "error" \notin DOMAIN result
    BY <1>1, <2>6, <2>7
  <2>9. \A i \in same : found[i].validTo <= result.validTo
    BY <1>1, <2>1, <2>6, <2>7
  <2> QED BY <2>6, <2>7, <2>8, <2>9
<1> HIDE DEF same, result, fitting
<1>5. IF "error" \in DOMAIN result THEN fitting = {}
      ELSE /\ \E i \in fitting : found[i] = result
           /\ \A i \in fitting : found[i].validTo <= result.validTo
  BY <1>2, <1>3, <1>4, Zenon
<1> QED
  BY <1>5, Zenon DEF result, fitting

-----------------------------------------------------------------------------
(* The attributes of a policy *)

(* All the checks before the first that does not pass do.                  *)
LEMMA AllPass ==
  ASSUME NEW n \in Nat, NEW v, DOMAIN v = 1 .. n
  PROVE  FirstOf(v) = "ok" <=> \A i \in 1 .. n : v[i] = "ok"
<1> DEFINE bad == {i \in DOMAIN v : v[i] # "ok"}
<1>1. CASE bad = {}
  BY <1>1 DEF FirstOf
<1>2. CASE bad # {}
  <2>1. bad \in SUBSET Nat
    OBVIOUS
  <2>2. \A i \in bad : v[i] # "ok" /\ i \in 1 .. n
    OBVIOUS
  <2>3. FirstOf(v) = v[CHOOSE i \in bad : \A j \in bad : i <= j]
    BY <1>2, Zenon DEF FirstOf
  <2> HIDE DEF bad
  <2>4. \E i \in bad : \A j \in bad : i <= j
    BY <1>2, <2>1, LeastNumber
  <2>5. (CHOOSE i \in bad : \A j \in bad : i <= j) \in bad
    BY <2>4
  <2> QED BY <2>2, <2>3, <2>5
<1> QED
  BY <1>1, <1>2

-----------------------------------------------------------------------------
(* The attributes of a folder *)

(* What stands in a section where a value is locked or suggested.          *)
Sole(ps, f, at) ==
  IF Filled(ps.policy, f) THEN {[at |-> at, av |-> <<Value(ps.policy, f)>>, l |-> TRUE]}
  ELSE IF Filled(ps.default, f) THEN {[at |-> at, av |-> <<Value(ps.default, f)>>, l |-> FALSE]}
  ELSE {}

LEMMA SoleAttribute ==
  ASSUME NEW ps, NEW f, NEW at
  PROVE  TextAttribute(ps, f, at) = Sole(ps, f, at)
<1>1. ASSUME NEW s, Filled(s, f)
      PROVE  Value(s, f) = s[f][1]
  BY <1>1 DEF Filled, Value, List
<1>2. ASSUME NEW x, NEW l
      PROVE  {[a EXCEPT !.av = <<@[1]>>] : a \in Write(at, x, l)} = {[at |-> at, av |-> <<x[1]>>, l |-> l]}
  BY DEF Write
<1>3. CASE Filled(ps.policy, f)
  <2>1. TextAttribute(ps, f, at) = {[a EXCEPT !.av = <<@[1]>>] : a \in Write(at, ps.policy[f], TRUE)}
    BY <1>3, Zenon DEF TextAttribute, Either
  <2> QED BY <1>1, <1>2, <1>3, <2>1, Zenon DEF Sole
<1>4. CASE ~ Filled(ps.policy, f) /\ Filled(ps.default, f)
  <2>1. TextAttribute(ps, f, at) = {[a EXCEPT !.av = <<@[1]>>] : a \in Write(at, ps.default[f], FALSE)}
    BY <1>4, Zenon DEF TextAttribute, Either
  <2> QED BY <1>1, <1>2, <1>4, <2>1, Zenon DEF Sole
<1>5. CASE ~ Filled(ps.policy, f) /\ ~ Filled(ps.default, f)
  <2>1. TextAttribute(ps, f, at) = {[a EXCEPT !.av = <<@[1]>>] : a \in {}}
    BY <1>5, Zenon DEF TextAttribute, Either
  <2>2. {[a EXCEPT !.av = <<@[1]>>] : a \in {}} = {}
    OBVIOUS
  <2> QED BY <1>5, <2>1, <2>2, Zenon DEF Sole
<1> QED
  BY <1>3, <1>4, <1>5, Zenon

LEMMA OneOf ==
  ASSUME NEW attrs, NEW at, NEW w, Of(attrs, at) = {w}
  PROVE  Text(attrs, at) = w.av[1] /\ ValuesOf(attrs, at) = w.av
<1>1. Of(attrs, at) # {}
  OBVIOUS
<1>2. (CHOOSE v \in Of(attrs, at) : TRUE) = w
  OBVIOUS
<1> QED
  BY <1>1, <1>2, Zenon DEF Text, ValuesOf

LEMMA SoleText ==
  ASSUME NEW ps, NEW f, NEW at, NEW attrs, Of(attrs, at) = Sole(ps, f, at)
  PROVE  Text(attrs, at) = IF Filled(ps.policy, f) THEN Value(ps.policy, f)
                           ELSE IF Filled(ps.default, f) THEN Value(ps.default, f) ELSE ""
<1>1. CASE Filled(ps.policy, f)
  <2>1. Of(attrs, at) = {[at |-> at, av |-> <<Value(ps.policy, f)>>, l |-> TRUE]}
    BY <1>1, Zenon DEF Sole
  <2> QED
    <3> DEFINE w == [at |-> at, av |-> <<Value(ps.policy, f)>>, l |-> TRUE]
    <3>1. w.av[1] = Value(ps.policy, f)
      OBVIOUS
    <3> HIDE DEF w
    <3>2. Of(attrs, at) = {w}
      BY <2>1 DEF w
    <3>3. Text(attrs, at) = w.av[1]
      BY <3>2, OneOf
    <3> QED BY <1>1, <3>1, <3>3, Zenon
<1>2. CASE ~ Filled(ps.policy, f) /\ Filled(ps.default, f)
  <2>1. Of(attrs, at) = {[at |-> at, av |-> <<Value(ps.default, f)>>, l |-> FALSE]}
    BY <1>2, Zenon DEF Sole
  <2> QED
    <3> DEFINE w == [at |-> at, av |-> <<Value(ps.default, f)>>, l |-> FALSE]
    <3>1. w.av[1] = Value(ps.default, f)
      OBVIOUS
    <3> HIDE DEF w
    <3>2. Of(attrs, at) = {w}
      BY <2>1 DEF w
    <3>3. Text(attrs, at) = w.av[1]
      BY <3>2, OneOf
    <3> QED BY <1>2, <3>1, <3>3, Zenon
<1>3. CASE ~ Filled(ps.policy, f) /\ ~ Filled(ps.default, f)
  <2>1. Of(attrs, at) = {}
    BY <1>3, Zenon DEF Sole
  <2> QED BY <1>3, <2>1, Zenon DEF Text
<1> QED
  BY <1>1, <1>2, <1>3, Zenon

(* The attributes of a folder, one by one.                                 *)
Units(ps) == Either(ps, "ou", "OU", Filled(ps.policy, "ou"), Filled(ps.default, "ou"))
Pkix(ps) == IF List(ps.policy, "pkix") # <<>> THEN Write("PKIX", ps.policy.pkix, TRUE) ELSE {}
PkixDefault(ps) == IF Filled(ps.default, "pkix") THEN Write("PKIXDefault", ps.default.pkix, FALSE) ELSE {}
Prohibited(ps) ==
  IF getProhibitedSanTypes(ps) # <<>> THEN Write("SanTypes", getProhibitedSanTypes(ps), FALSE) ELSE {}
Authority(ps) == IF Has(ps.policy, "ca") THEN Write("CA", ps.policy.ca, FALSE) ELSE {}
DomainList(ps) == IF Has(ps.policy, "domains") THEN Write("Domains", ps.policy.domains, TRUE) ELSE {}
Contacts(ps) == IF Has(ps, "users") THEN Write("Contact", ps.users, TRUE) ELSE {}
Approvers(ps) == IF Has(ps, "approvers") THEN Write("Approver", ps.approvers, TRUE) ELSE {}

LEMMA AttributesOne ==
  ASSUME NEW ps
  PROVE  LET attrs == BuildTppPolicy(ps)
         IN  /\ Of(attrs, "Contact") = Contacts(ps)
             /\ Of(attrs, "Approver") = Approvers(ps)
             /\ Of(attrs, "Domains") = DomainList(ps)
             /\ Of(attrs, "CA") = Authority(ps)
             /\ Of(attrs, "ProhibitWildcard") = PolicyFlag(ps, "wildcard", "ProhibitWildcard", "0", "1", FALSE)
             /\ Of(attrs, "KeyReuse") = PolicyFlag(ps, "reuse", "KeyReuse", "1", "0", TRUE)
             /\ Of(attrs, "WantRenewal") = PolicyFlag(ps, "reuse", "WantRenewal", "1", "0", TRUE)
             /\ Of(attrs, "ManagementType") = FlagAttribute(ps, "auto", "ManagementType", "Provisioning", "Enrollment")
             /\ Of(attrs, "ManualCsr") = FlagAttribute(ps, "service", "ManualCsr", "0", "1")
             /\ Of(attrs, "Org") = Sole(ps, "org", "Org")
             /\ Of(attrs, "City") = Sole(ps, "locality", "City")
             /\ Of(attrs, "State") = Sole(ps, "state", "State")
             /\ Of(attrs, "Country") = Sole(ps, "country", "Country")
             /\ Of(attrs, "OU") = Units(ps)
             /\ Of(attrs, "KeyAlg") = Sole(ps, "keyType", "KeyAlg")
             /\ Of(attrs, "KeyBits") = Sole(ps, "rsa", "KeyBits")
             /\ Of(attrs, "Curve") = Sole(ps, "curve", "Curve")
             /\ Of(attrs, "PKIX") = Pkix(ps)
             /\ Of(attrs, "PKIXDefault") = PkixDefault(ps)
             /\ Of(attrs, "SanTypes") = Prohibited(ps)
             /\ \A w \in attrs : w.at \in
                  {"Contact", "Approver", "Domains", "CA", "ProhibitWildcard", "KeyReuse", "WantRenewal",
                   "ManagementType", "ManualCsr", "Org", "City", "State", "Country", "OU", "KeyAlg", "KeyBits",
                   "Curve", "PKIX", "PKIXDefault", "SanTypes"}
<1> DEFINE p1 == Contacts(ps)
           p2 == Approvers(ps)
           p3 == DomainList(ps)
           p4 == Authority(ps)
           p5 == PolicyFlag(ps, "wildcard", "ProhibitWildcard", "0", "1", FALSE)
           p6 == PolicyFlag(ps, "reuse", "KeyReuse", "1", "0", TRUE)
           p7 == PolicyFlag(ps, "reuse", "WantRenewal", "1", "0", TRUE)
           p8 == FlagAttribute(ps, "auto", "ManagementType", "Provisioning", "Enrollment")
           p9 == FlagAttribute(ps, "service", "ManualCsr", "0", "1")
           p10 == Sole(ps, "org", "Org")
           p11 == Sole(ps, "locality", "City")
           p12 == Sole(ps, "state", "State")
           p13 == Sole(ps, "country", "Country")
           p14 == Units(ps)
           p15 == Sole(ps, "keyType", "KeyAlg")
           p16 == Sole(ps, "rsa", "KeyBits")
           p17 == Sole(ps, "curve", "Curve")
           p18 == Pkix(ps)
           p19 == PkixDefault(ps)
           p20 == Prohibited(ps)
           attrs == BuildTppPolicy(ps)
<1>1. attrs = UNION {p1, p2, p3, p4, p5, p6, p7, p8, p9, p10, p11, p12, p13, p14, p15, p16, p17, p18, p19, p20}
  <2>1. /\ TextAttribute(ps, "org", "Org") = p10 /\ TextAttribute(ps, "locality", "City") = p11
        /\ TextAttribute(ps, "state", "State") = p12 /\ TextAttribute(ps, "country", "Country") = p13
        /\ TextAttribute(ps, "keyType", "KeyAlg") = p15 /\ TextAttribute(ps, "rsa", "KeyBits") = p16
        /\ TextAttribute(ps, "curve", "Curve") = p17
    BY SoleAttribute, Zenon
  <2>2. attrs = UNION {
          p1, p2, p3, p4, p5, p6, p7, p8, p9,
          TextAttribute(ps, "org", "Org"), TextAttribute(ps, "locality", "City"),
          TextAttribute(ps, "state", "State"), TextAttribute(ps, "country", "Country"), p14,
          TextAttribute(ps, "keyType", "KeyAlg"), TextAttribute(ps, "rsa", "KeyBits"),
          TextAttribute(ps, "curve", "Curve"), p18, p19, p20}
    BY Zenon DEF BuildTppPolicy, Contacts, Approvers, DomainList, Authority, Units, Pkix, PkixDefault, Prohibited
  <2> HIDE DEF p1, p2, p3, p4, p5, p6, p7, p8, p9, p10, p11, p12, p13, p14, p15, p16, p17, p18, p19, p20, attrs
  <2> QED BY <2>1, <2>2
<1>2. \A at, av, l : \A w \in Write(at, av, l) : w.at = at
  BY DEF Write
<1>3. (\A w \in p1 : w.at = "Contact") /\ (\A w \in p2 : w.at = "Approver")
      /\ (\A w \in p3 : w.at = "Domains") /\ (\A w \in p4 : w.at = "CA")
  BY <1>2, Zenon DEF Contacts, Approvers, DomainList, Authority
<1>4. \A f, at, yes, no, l : \A w \in PolicyFlag(ps, f, at, yes, no, l) : w.at = at
  BY <1>2, Zenon DEF PolicyFlag
<1>5. ASSUME NEW f, NEW at, NEW yes, NEW no, NEW w \in FlagAttribute(ps, f, at, yes, no)
      PROVE  w.at = at
  <2>1. PICK a \in Either(ps, f, at, Has(ps.policy, f), Has(ps.default, f)) :
          w = [a EXCEPT !.av = <<IF @[1] = "true" THEN yes ELSE no>>]
    BY Zenon DEF FlagAttribute
  <2>2. \E av, l : a = [at |-> at, av |-> av, l |-> l]
    BY <2>1 DEF Either, Write
  <2>3. PICK av, l : a = [at |-> at, av |-> av, l |-> l]
    BY <2>2
  <2> QED BY <2>1, <2>3
<1>6. \A f, at : \A w \in Sole(ps, f, at) : w.at = at
  BY DEF Sole
<1>7. \A w \in p14 : w.at = "OU"
  BY <1>2 DEF Units, Either
<1>8. (\A w \in p18 : w.at = "PKIX") /\ (\A w \in p19 : w.at = "PKIXDefault") /\ (\A w \in p20 : w.at = "SanTypes")
  BY <1>2, Zenon DEF Pkix, PkixDefault, Prohibited
<1>9. (\A w \in p5 : w.at = "ProhibitWildcard") /\ (\A w \in p6 : w.at = "KeyReuse")
      /\ (\A w \in p7 : w.at = "WantRenewal")
  BY <1>4, Zenon
<1>10. (\A w \in p8 : w.at = "ManagementType") /\ (\A w \in p9 : w.at = "ManualCsr")
  BY <1>5, Zenon
<1>11. (\A w \in p10 : w.at = "Org") /\ (\A w \in p11 : w.at = "City") /\ (\A w \in p12 : w.at = "State")
       /\ (\A w \in p13 : w.at = "Country") /\ (\A w \in p15 : w.at = "KeyAlg")
       /\ (\A w \in p16 : w.at = "KeyBits") /\ (\A w \in p17 : w.at = "Curve")
  BY <1>6, Zenon
<1> HIDE DEF p1, p2, p3, p4, p5, p6, p7, p8, p9, p10, p11, p12, p13, p14, p15, p16, p17, p18, p19, p20, attrs
<1>12. \A w : w \in attrs <=>
         \/ w \in p1 \/ w \in p2 \/ w \in p3 \/ w \in p4 \/ w \in p5 \/ w \in p6 \/ w \in p7
         \/ w \in p8 \/ w \in p9 \/ w \in p10 \/ w \in p11 \/ w \in p12 \/ w \in p13 \/ w \in p14
         \/ w \in p15 \/ w \in p16 \/ w \in p17 \/ w \in p18 \/ w \in p19 \/ w \in p20
  BY <1>1
<1>13. \A w \in attrs : w.at \in
                  {"Contact", "Approver", "Domains", "CA", "ProhibitWildcard", "KeyReuse", "WantRenewal",
                   "ManagementType", "ManualCsr", "Org", "City", "State", "Country", "OU", "KeyAlg", "KeyBits",
                   "Curve", "PKIX", "PKIXDefault", "SanTypes"}
  BY <1>3, <1>7, <1>8, <1>9, <1>10, <1>11, <1>12
<1>14. /\ Of(attrs, "Contact") = p1 /\ Of(attrs, "Approver") = p2 /\ Of(attrs, "Domains") = p3
       /\ Of(attrs, "CA") = p4
  BY <1>3, <1>7, <1>8, <1>9, <1>10, <1>11, <1>12 DEF Of
<1>15. /\ Of(attrs, "ProhibitWildcard") = p5 /\ Of(attrs, "KeyReuse") = p6 /\ Of(attrs, "WantRenewal") = p7
       /\ Of(attrs, "ManagementType") = p8 /\ Of(attrs, "ManualCsr") = p9
  BY <1>3, <1>7, <1>8, <1>9, <1>10, <1>11, <1>12 DEF Of
<1>16. /\ Of(attrs, "Org") = p10 /\ Of(attrs, "City") = p11 /\ Of(attrs, "State") = p12
       /\ Of(attrs, "Country") = p13 /\ Of(attrs, "OU") = p14
  BY <1>3, <1>7, <1>8, <1>9, <1>10, <1>11, <1>12 DEF Of
<1>17. /\ Of(attrs, "KeyAlg") = p15 /\ Of(attrs, "KeyBits") = p16 /\ Of(attrs, "Curve") = p17
  BY <1>3, <1>7, <1>8, <1>9, <1>10, <1>11, <1>12 DEF Of
<1>18. /\ Of(attrs, "PKIX") = p18 /\ Of(attrs, "PKIXDefault") = p19 /\ Of(attrs, "SanTypes") = p20
  BY <1>3, <1>7, <1>8, <1>9, <1>10, <1>11, <1>12 DEF Of
<1> QED
  BY <1>13, <1>14, <1>15, <1>16, <1>17, <1>18, Zenon DEF attrs, p1, p2, p3, p4, p5, p6, p7, p8, p9, p10, p11,
     p12, p13, p14, p15, p16, p17, p18, p19, p20

-----------------------------------------------------------------------------
(* What setpolicy checks *)

(* A default beside a policy's value is that value.                        *)
LEMMA SameValue ==
  ASSUME NEW ps, NEW f, SameDefault(ps, f) = "ok", Filled(ps.policy, f), Filled(ps.default, f)
  PROVE  Value(ps.policy, f) = Value(ps.default, f)
<1>1. SameDefault(ps, f) = Check(Value(ps.policy, f) = Value(ps.default, f))
  BY Zenon DEF SameDefault, Filled
<1> QED
  BY <1>1, Zenon DEF Check

LEMMA FilledIsGiven == \A s, f : Filled(s, f) => f \in DOMAIN s
  BY DEF Filled, List, Has

LEMMA TppChecks ==
  ASSUME NEW ps, ValidateTppPolicySpecification(ps) = "ok"
  PROVE  /\ validatePolicySubject(ps) = "ok" /\ validateKeyPair(ps) = "ok"
         /\ validateDefaultSubject(ps) = "ok" /\ validateDefaultKeyPairWithPolicySubject(ps) = "ok"
         /\ validateDefaultKeyPair(ps) = "ok"
         /\ (Has(ps.default, "auto") /\ Has(ps.policy, "auto")) => ps.default.auto = ps.policy.auto
<1> DEFINE last == Check((Has(ps.default, "auto") /\ Has(ps.policy, "auto")) => ps.default.auto = ps.policy.auto)
           v == <<validatePolicySubject(ps), validateKeyPair(ps), validateDefaultSubject(ps),
                  validateDefaultKeyPairWithPolicySubject(ps), validateDefaultKeyPair(ps), last>>
<1>1. FirstOf(v) = "ok"
  BY Zenon DEF ValidateTppPolicySpecification
<1>2. last = "ok" => ((Has(ps.default, "auto") /\ Has(ps.policy, "auto")) => ps.default.auto = ps.policy.auto)
  BY Zenon DEF Check
<1> HIDE DEF last
<1>3. DOMAIN v = 1 .. 6 /\ v[1] = validatePolicySubject(ps) /\ v[2] = validateKeyPair(ps)
      /\ v[3] = validateDefaultSubject(ps) /\ v[4] = validateDefaultKeyPairWithPolicySubject(ps)
      /\ v[5] = validateDefaultKeyPair(ps) /\ v[6] = last
  OBVIOUS
<1> HIDE DEF v
<1>4. \A i \in 1 .. 6 : v[i] = "ok"
  BY <1>1, <1>3, AllPass
<1>5. v[1] = "ok" /\ v[2] = "ok" /\ v[3] = "ok" /\ v[4] = "ok" /\ v[5] = "ok" /\ v[6] = "ok"
  BY <1>4
<1> QED
  BY <1>2, <1>3, <1>5, Zenon

LEMMA SubjectDefaults ==
  ASSUME NEW ps, validateDefaultSubject(ps) = "ok", "subject" \in DOMAIN ps.default, "subject" \in DOMAIN ps.policy
  PROVE  \A f \in Names : SameDefault(ps, f) = "ok"
<1> DEFINE ou == Check((List(ps.policy, "ou") # <<>> /\ List(ps.default, "ou") # <<>>)
                         => In(List(ps.default, "ou"), ToSet(List(ps.policy, "ou"))))
           two == Check(Filled(ps.default, "country") => Value(ps.default, "country") \in TwoLetters)
           v == <<SameDefault(ps, "org"), ou, SameDefault(ps, "locality"), SameDefault(ps, "state"),
                  SameDefault(ps, "country"), two>>
<1>1. FirstOf(v) = "ok"
  BY Zenon DEF validateDefaultSubject, Has
<1> HIDE DEF ou, two
<1>3. DOMAIN v = 1 .. 6 /\ v[1] = SameDefault(ps, "org") /\ v[3] = SameDefault(ps, "locality")
      /\ v[4] = SameDefault(ps, "state") /\ v[5] = SameDefault(ps, "country")
  OBVIOUS
<1> HIDE DEF v
<1>4. \A i \in 1 .. 6 : v[i] = "ok"
  BY <1>1, <1>3, AllPass
<1>5. v[1] = "ok" /\ v[3] = "ok" /\ v[4] = "ok" /\ v[5] = "ok"
  BY <1>4
<1> QED
  BY <1>3, <1>5, Zenon DEF Names

LEMMA KeyDefaults ==
  ASSUME NEW ps, validateDefaultKeyPairWithPolicySubject(ps) = "ok", "keyPair" \in DOMAIN ps.default,
         "keyPair" \in DOMAIN ps.policy
  PROVE  \A f \in {"keyType", "rsa", "curve", "service"} : SameDefault(ps, f) = "ok"
<1> DEFINE v == <<SameDefault(ps, "keyType"), SameDefault(ps, "rsa"), SameDefault(ps, "curve"),
                  SameDefault(ps, "service")>>
<1>1. FirstOf(v) = "ok"
  BY Zenon DEF validateDefaultKeyPairWithPolicySubject, Has
<1>3. DOMAIN v = 1 .. 4 /\ v[1] = SameDefault(ps, "keyType") /\ v[2] = SameDefault(ps, "rsa")
      /\ v[3] = SameDefault(ps, "curve") /\ v[4] = SameDefault(ps, "service")
  OBVIOUS
<1> HIDE DEF v
<1>4. \A i \in 1 .. 4 : v[i] = "ok"
  BY <1>1, <1>3, AllPass
<1>5. v[1] = "ok" /\ v[2] = "ok" /\ v[3] = "ok" /\ v[4] = "ok"
  BY <1>4
<1> QED
  BY <1>3, <1>5, Zenon

(* The default of a text that passes the checks is what stands there.      *)
LEMMA DefaultStands ==
  ASSUME NEW ps, NEW f \in Names \cup {"keyType", "rsa", "curve"}, IsSpecification(ps),
         ValidateTppPolicySpecification(ps) = "ok", Filled(ps.policy, f), Filled(ps.default, f)
  PROVE  Value(ps.policy, f) = Value(ps.default, f)
<1>1. f \in DOMAIN ps.policy /\ f \in DOMAIN ps.default
  BY FilledIsGiven, Zenon
<1>2. CASE f \in Names
  <2>1. "subject" \in DOMAIN ps.policy /\ "subject" \in DOMAIN ps.default
    BY <1>1, <1>2, Zenon DEF IsSpecification, InObjects
  <2>2. SameDefault(ps, f) = "ok"
    BY <1>2, <2>1, TppChecks, SubjectDefaults, Zenon
  <2> QED BY <2>2, SameValue, Zenon
<1>3. CASE f \in {"keyType", "rsa", "curve"}
  <2>1. "keyPair" \in DOMAIN ps.policy /\ "keyPair" \in DOMAIN ps.default
    BY <1>1, <1>3, Zenon DEF IsSpecification, InObjects
  <2>2. SameDefault(ps, f) = "ok"
    BY <1>3, <2>1, TppChecks, KeyDefaults, Zenon
  <2> QED BY <2>2, SameValue, Zenon
<1> QED
  BY <1>2, <1>3

(* The names of the attributes of the texts of a specification.            *)
AttributeOf == [org |-> "Org", locality |-> "City", state |-> "State", country |-> "Country",
                keyType |-> "KeyAlg", rsa |-> "KeyBits", curve |-> "Curve"]

LEMMA TextOf ==
  ASSUME NEW ps, NEW f \in Names \cup {"keyType", "rsa", "curve"}
  PROVE  Text(BuildTppPolicy(ps), AttributeOf[f]) =
           IF Filled(ps.policy, f) THEN Value(ps.policy, f)
           ELSE IF Filled(ps.default, f) THEN Value(ps.default, f) ELSE ""
<1> DEFINE attrs == BuildTppPolicy(ps)
<1>1. /\ Of(attrs, "Org") = Sole(ps, "org", "Org") /\ Of(attrs, "City") = Sole(ps, "locality", "City")
      /\ Of(attrs, "State") = Sole(ps, "state", "State") /\ Of(attrs, "Country") = Sole(ps, "country", "Country")
      /\ Of(attrs, "KeyAlg") = Sole(ps, "keyType", "KeyAlg") /\ Of(attrs, "KeyBits") = Sole(ps, "rsa", "KeyBits")
      /\ Of(attrs, "Curve") = Sole(ps, "curve", "Curve")
  BY AttributesOne, Zenon
<1> HIDE DEF attrs
<1>2. Of(attrs, AttributeOf[f]) = Sole(ps, f, AttributeOf[f])
  BY <1>1 DEF AttributeOf, Names
<1>3. Text(attrs, AttributeOf[f]) =
           IF Filled(ps.policy, f) THEN Value(ps.policy, f)
           ELSE IF Filled(ps.default, f) THEN Value(ps.default, f) ELSE ""
  BY <1>2, SoleText, Zenon
<1> QED
  BY <1>3, Zenon DEF attrs

(* A default that passes the checks of setpolicy is the value the folder   *)
(* gets.                                                                   *)
LEMMA DefaultApplied ==
  ASSUME IsSpecification(Arg), Called("tpp policy")
  PROVE  DefaultIsWithinPolicy
<1>1. ASSUME Accepted(Arg), NEW f \in Names \cup {"keyType", "rsa", "curve"}, Filled(Arg.default, f)
      PROVE  Text(BuildTppPolicy(Arg), AttributeOf[f]) = Value(Arg.default, f)
  <2>1. CASE Filled(Arg.policy, f)
    <3>1. Value(Arg.policy, f) = Value(Arg.default, f)
      BY <1>1, <2>1, DefaultStands, Zenon DEF Accepted
    <3> QED BY <2>1, <3>1, TextOf, Zenon
  <2>2. CASE ~ Filled(Arg.policy, f)
    BY <1>1, <2>2, TextOf, Zenon
  <2> QED BY <2>1, <2>2
<1>2. DOMAIN AttributeOf = Names \cup {"keyType", "rsa", "curve"}
  BY DEF AttributeOf, Names
<1>3. Accepted(Arg) => \A f \in DOMAIN AttributeOf : Filled(Arg.default, f)
           => Text(BuildTppPolicy(Arg), AttributeOf[f]) = Value(Arg.default, f)
  BY <1>1, <1>2, Zenon
<1> QED
  BY <1>3, Zenon DEF DefaultIsWithinPolicy, AttributeOf

(* A scalar that is given has one value.                                   *)
LEMMA ScalarWritten ==
  ASSUME NEW s, NEW lists, Written(s, lists), NEW f \in DOMAIN s, f \notin lists
  PROVE  \E x \in STRING : s[f] = <<x>>
<1>1. s[f] \in Seq(STRING) /\ Len(s[f]) = 1
  BY DEF Written
<1>2. s[f] = <<s[f][1]>> /\ s[f][1] \in STRING
  BY <1>1
<1> QED
  BY <1>2

(* A specification in which nothing stands gives no attribute a value.     *)
LEMMA NothingIsEmpty ==
  ASSUME NEW ps, IsSpecification(ps), IsPolicyEmpty(ps), IsDefaultEmpty(ps)
  PROVE  Named({w \in BuildTppPolicy(ps) : w.av \notin {<<>>, <<"">>}})
           \subseteq {"ManagementType", "PKIX", "PKIXDefault"}
<1>1. ~ Has(ps, "users") /\ ~ Has(ps, "approvers")
  BY DEF IsSpecification, Has
<1>2. \A f \in SanTypes \cup {"wildcard", "days", "reuse", "service"} : f \notin DOMAIN ps.policy
  BY DEF IsPolicyEmpty
<1>3. \A f \in Names \cup {"ou", "domains", "rsa", "keyType", "curve"} : List(ps.policy, f) = <<>>
  BY DEF IsPolicyEmpty
<1>4. \A f \in Names \cup {"ou", "domains", "rsa", "keyType", "curve"} : ~ Filled(ps.policy, f)
  BY <1>3 DEF Filled
<1>5. (\A f \in Names \cup {"keyType", "curve"} : ~ Filled(ps.default, f))
      /\ ~ Has(ps.default, "service") /\ ~ Has(ps.default, "rsa") /\ List(ps.default, "ou") = <<>>
  BY DEF IsDefaultEmpty
<1>6. ~ Filled(ps.default, "ou") /\ ~ Filled(ps.default, "rsa")
  BY <1>5 DEF Filled, List, Has
<1>7. Contacts(ps) = {} /\ Approvers(ps) = {}
  BY <1>1, Zenon DEF Contacts, Approvers
<1>8. \A f, at : (f \in Names \cup {"rsa", "keyType", "curve"} => Sole(ps, f, at) = {})
  BY <1>4, <1>5, <1>6 DEF Sole
<1>9. Units(ps) = {}
  BY <1>4, <1>6 DEF Units, Either
<1>10. ~ Has(ps.policy, "wildcard") /\ ~ Has(ps.policy, "reuse") /\ ~ Has(ps.policy, "service")
  BY <1>2 DEF Has
<1>11. \A f, at, yes, no, l : ~ Has(ps.policy, f) => PolicyFlag(ps, f, at, yes, no, l) = {}
  BY Zenon DEF PolicyFlag
<1>12. FlagAttribute(ps, "service", "ManualCsr", "0", "1") = {}
  BY <1>5, <1>10 DEF FlagAttribute, Either
<1>13. Prohibited(ps) = {}
  <2>1. \A t \in SanTypes : ~ Flag(ps.policy, t, "false")
    BY <1>2 DEF Flag, Has
  <2>2. \A t \in SanTypes : OnlyIf(Flag(ps.policy, t, "false"), t) = <<>>
    BY <2>1, Zenon DEF OnlyIf
  <2>3. getProhibitedSanTypes(ps) = <<>> \o <<>> \o <<>> \o <<>> \o <<>>
    BY <2>2, Zenon DEF getProhibitedSanTypes, SanTypes
  <2>4. getProhibitedSanTypes(ps) = <<>>
    BY <2>3
  <2> QED BY <2>4, Zenon DEF Prohibited
<1>14. \A w \in DomainList(ps) : w.av = <<>>
  <2>1. Has(ps.policy, "domains") => ps.policy.domains = <<>>
    BY <1>3 DEF List
  <2> QED BY <2>1 DEF DomainList, Write
<1>15. \A w \in Authority(ps) : w.av = <<"">>
  <2>1. CASE "ca" \in DOMAIN ps.policy
    <3>1. "ca" \notin PolicyLists
      BY DEF PolicyLists, Objects, Names
    <3>2. PICK x \in STRING : ps.policy["ca"] = <<x>>
      BY <2>1, <3>1, ScalarWritten, Zenon DEF IsSpecification
    <3>3. ~ Filled(ps.policy, "ca")
      BY <2>1, Zenon DEF IsPolicyEmpty, Has
    <3>4. List(ps.policy, "ca") = <<x>>
      BY <2>1, <3>2, Zenon DEF List, Has
    <3>5. x = ""
      <4>1. <<x>> # <<>> /\ <<x>>[1] = x
        OBVIOUS
      <4>2. Value(ps.policy, "ca") = x
        BY <3>4, <4>1, Zenon DEF Value
      <4> QED BY <3>3, <3>4, <4>1, <4>2, Zenon DEF Filled
    <3>6. ps.policy.ca = <<"">>
      BY <3>2, <3>5, Zenon
    <3>7. Authority(ps) = {[at |-> "CA", av |-> <<"">>, l |-> FALSE]}
      BY <2>1, <3>6, Zenon DEF Authority, Write, Has
    <3> DEFINE empty == <<"">>
    <3>8. Authority(ps) = {[at |-> "CA", av |-> empty, l |-> FALSE]}
      BY <3>7, Zenon
    <3> HIDE DEF empty
    <3>9. \A w \in {[at |-> "CA", av |-> empty, l |-> FALSE]} : w.av = empty
      OBVIOUS
    <3> QED BY <3>8, <3>9, Zenon DEF empty
  <2>2. CASE "ca" \notin DOMAIN ps.policy
    BY <2>2 DEF Authority, Has
  <2> QED BY <2>1, <2>2
<1> DEFINE attrs == BuildTppPolicy(ps)
<1>16. Of(attrs, "Contact") = {} /\ Of(attrs, "Approver") = {}
  BY <1>7, AttributesOne, Zenon
<1>17. Of(attrs, "Domains") = DomainList(ps) /\ Of(attrs, "CA") = Authority(ps)
  BY AttributesOne, Zenon
<1>18. Of(attrs, "ProhibitWildcard") = {} /\ Of(attrs, "KeyReuse") = {} /\ Of(attrs, "WantRenewal") = {}
       /\ Of(attrs, "ManualCsr") = {}
  BY <1>10, <1>11, <1>12, AttributesOne, Zenon
<1>19. Of(attrs, "Org") = {} /\ Of(attrs, "City") = {} /\ Of(attrs, "State") = {} /\ Of(attrs, "Country") = {}
       /\ Of(attrs, "KeyAlg") = {} /\ Of(attrs, "KeyBits") = {} /\ Of(attrs, "Curve") = {}
  BY <1>8, AttributesOne, Zenon DEF Names
<1>20. Of(attrs, "OU") = {} /\ Of(attrs, "SanTypes") = {}
  BY <1>9, <1>13, AttributesOne, Zenon
<1>21. \A w \in attrs : w.at \in
                  {"Contact", "Approver", "Domains", "CA", "ProhibitWildcard", "KeyReuse", "WantRenewal",
                   "ManagementType", "ManualCsr", "Org", "City", "State", "Country", "OU", "KeyAlg", "KeyBits",
                   "Curve", "PKIX", "PKIXDefault", "SanTypes"}
  BY AttributesOne, Zenon
<1> HIDE DEF attrs
<1>22. \A w \in attrs : \A at : w.at = at => w \in Of(attrs, at)
  BY DEF Of
<1>23. \A w \in attrs : w.at \in {"Domains", "CA", "ManagementType", "PKIX", "PKIXDefault"}
  BY <1>16, <1>18, <1>19, <1>20, <1>21, <1>22
<1>24. \A w \in attrs : w.at \in {"Domains", "CA"} => w.av \in {<<>>, <<"">>}
  BY <1>14, <1>15, <1>17, <1>22
<1>25. \A w \in attrs : w.av \notin {<<>>, <<"">>} => w.at \in {"ManagementType", "PKIX", "PKIXDefault"}
  BY <1>23, <1>24
<1>26. Named({w \in attrs : w.av \notin {<<>>, <<"">>}}) \subseteq {"ManagementType", "PKIX", "PKIXDefault"}
  BY <1>25 DEF Named
<1> QED
  BY <1>26 DEF attrs

-----------------------------------------------------------------------------
(* Users *)

Rank(S, k) == Cardinality({j \in S : j <= k})

(* The n-th of a set of numbers has n of them up to itself, and every      *)
(* member is the n-th for some n: as many numbers as there are have        *)
(* different ranks, so every rank is taken.                                *)
LEMMA RanksOf ==
  ASSUME NEW len \in Nat, NEW S \in SUBSET (1 .. len)
  PROVE  /\ Cardinality(S) \in Nat
         /\ \A k \in S : Rank(S, k) \in 1 .. Cardinality(S)
         /\ \A n \in 1 .. Cardinality(S) : Nth(S, n) \in S /\ Rank(S, Nth(S, n)) = n
         /\ \A k \in S : Nth(S, Rank(S, k)) = k
<1> DEFINE Under(k) == {j \in S : j <= k}
           rank == [k \in S |-> Cardinality(Under(k))]
           Ranks == 1 .. Cardinality(S)
<1>1. IsFiniteSet(S) /\ Cardinality(S) \in Nat
  <2>1. IsFiniteSet(1 .. len)
    BY FS_Interval
  <2> QED BY <2>1, FS_Subset, FS_CardinalityType
<1>2. IsFiniteSet(Ranks) /\ Cardinality(Ranks) = Cardinality(S)
  <2> DEFINE m == Cardinality(S)
  <2>1. m \in Nat
    BY <1>1
  <2> HIDE DEF m
  <2>2. IsFiniteSet(1 .. m) /\ Cardinality(1 .. m) = IF 1 > m THEN 0 ELSE m - 1 + 1
    BY <2>1, FS_Interval
  <2>3. IsFiniteSet(1 .. m) /\ Cardinality(1 .. m) = m
    BY <2>1, <2>2
  <2> QED BY <2>3 DEF m
<1>3. ASSUME NEW k \in S
      PROVE  IsFiniteSet(Under(k)) /\ Cardinality(Under(k)) \in Ranks
  <2>1. Under(k) \in SUBSET S /\ k \in Under(k)
    OBVIOUS
  <2>2. IsFiniteSet(Under(k)) /\ Cardinality(Under(k)) <= Cardinality(S)
    BY <1>1, <2>1, FS_Subset
  <2>3. Cardinality(Under(k)) \in Nat /\ Cardinality(Under(k)) # 0
    BY <2>1, <2>2, FS_CardinalityType, FS_EmptySet
  <2> QED BY <1>1, <2>2, <2>3
<1>4. ASSUME NEW i \in S, NEW k \in S, i < k
      PROVE  Cardinality(Under(i)) # Cardinality(Under(k))
  <2>1. i \in Nat /\ k \in Nat /\ S \subseteq Nat
    OBVIOUS
  <2>2. \A j \in S : j <= i => j <= k
    BY <1>4, <2>1
  <2>3. k <= k /\ ~(k <= i)
    BY <1>4, <2>1
  <2>4. Under(i) \in SUBSET Under(k) /\ k \in Under(k) /\ k \notin Under(i)
    BY <2>2, <2>3
  <2> QED BY <1>3, <2>4, FS_Subset
<1>5. ASSUME NEW i \in S, NEW k \in S, Cardinality(Under(i)) = Cardinality(Under(k))
      PROVE  i = k
  <2>1. ~(i < k) /\ ~(k < i)
    BY <1>5, <1>4
  <2> QED BY <2>1
<1>6. rank \in Injection(S, Ranks)
  <2>1. rank \in [S -> Ranks]
    BY <1>3
  <2>2. ASSUME NEW i \in S, NEW k \in S, rank[i] = rank[k] PROVE i = k
    <3>1. Cardinality(Under(i)) = Cardinality(Under(k))
      BY <2>2
    <3> QED BY <1>5, <3>1
  <2> QED BY <2>1, <2>2 DEF Injection, IsInjective
<1>7. rank \in Surjection(S, Ranks)
  BY <1>1, <1>2, <1>6, FS_Injection
<1>8. ASSUME NEW n \in Ranks
      PROVE  Nth(S, n) \in S /\ Cardinality(Under(Nth(S, n))) = n
  <2>1. \E k \in S : Cardinality(Under(k)) = n
    BY <1>7 DEF Surjection
  <2>2. Nth(S, n) = CHOOSE k \in S : Cardinality(Under(k)) = n
    BY Zenon DEF Nth
  <2> HIDE DEF Under
  <2> QED BY <2>1, <2>2
<1>9. ASSUME NEW k \in S
      PROVE  Nth(S, Cardinality(Under(k))) = k
  <2>1. Cardinality(Under(k)) \in Ranks
    BY <1>3
  <2>2. Nth(S, Cardinality(Under(k))) \in S
        /\ Cardinality(Under(Nth(S, Cardinality(Under(k))))) = Cardinality(Under(k))
    BY <1>8, <2>1
  <2> QED BY <1>5, <2>2
<1>10. \A k : Rank(S, k) = Cardinality(Under(k))
  BY Zenon DEF Rank
<1> HIDE DEF Under
<1> QED
  BY <1>1, <1>3, <1>8, <1>9, <1>10

(* The contact of a policy is the user of exactly that name.               *)
LEMMA UserFound ==
  ASSUME NEW directory \in Seq(Seq(Nat)), NEW name \in Seq(Nat), name # <<>>
  PROVE  LET found == getIdentity(directory, name, FALSE)
             Listed(i) == IsPrefix(name, directory[i])
         IN  /\ found \in {name, <<>>}
             /\ found = name <=>
                  \E i \in DOMAIN directory :
                    directory[i] = name /\ Cardinality({j \in 1 .. i : Listed(j)}) <= 2
<1> DEFINE S == {i \in DOMAIN directory : IsPrefix(name, directory[i])}
           all == Selected(directory, S)
           m == IF Len(all) < 2 THEN Len(all) ELSE 2
           first == SubSeq(all, 1, m)
<1>1. DOMAIN directory = 1 .. Len(directory) /\ Len(directory) \in Nat
  OBVIOUS
<1>2. S \in SUBSET (1 .. Len(directory))
  BY <1>1
<1>3. browseIdentities(directory, name) = first
  BY Zenon DEF browseIdentities, IdentityLimit
<1>4. \A i \in 1 .. Len(directory) : directory[i] = name => i \in S
  <2>1. IsPrefix(name, name)
    BY DEF IsPrefix
  <2> QED BY <1>1, <2>1
<1>5. \A i \in DOMAIN directory : {j \in 1 .. i : IsPrefix(name, directory[j])} = {j \in S : j <= i}
  BY <1>1
<1>6. \A i \in DOMAIN directory : Cardinality({j \in 1 .. i : IsPrefix(name, directory[j])}) = Rank(S, i)
  BY <1>5, Zenon DEF Rank
<1> HIDE DEF S
<1>7. Cardinality(S) \in Nat
      /\ (\A k \in S : Rank(S, k) \in 1 .. Cardinality(S) /\ Nth(S, Rank(S, k)) = k)
      /\ \A n \in 1 .. Cardinality(S) : Nth(S, n) \in S /\ Rank(S, Nth(S, n)) = n
  BY <1>1, <1>2, RanksOf
<1>8. DOMAIN all = 1 .. Cardinality(S) /\ Len(all) = Cardinality(S)
      /\ \A n \in 1 .. Cardinality(S) : all[n] = directory[Nth(S, n)]
  BY <1>7 DEF Selected
<1> HIDE DEF all
<1>9. m \in 0 .. Cardinality(S) /\ m <= 2 /\ (m = Cardinality(S) \/ m = 2)
  BY <1>7, <1>8
<1> HIDE DEF m
<1>10. Len(first) = m /\ \A n \in 1 .. m : first[n] = all[n]
  <2>1. DOMAIN first = 1 .. m /\ \A n \in 1 .. m : first[n] = all[n]
    BY <1>9
  <2> QED BY <1>9, <2>1
<1> HIDE DEF first
<1>11. Contains(first, name) <=> \E n \in 1 .. m : directory[Nth(S, n)] = name
  <2>1. \A n \in 1 .. m : first[n] = directory[Nth(S, n)]
    BY <1>7, <1>8, <1>9, <1>10
  <2> QED BY <1>10, <2>1, Zenon DEF Contains
<1>12. (\E n \in 1 .. m : directory[Nth(S, n)] = name)
         <=> \E i \in DOMAIN directory : directory[i] = name /\ Rank(S, i) <= 2
  <2>1. ASSUME NEW n \in 1 .. m, directory[Nth(S, n)] = name
        PROVE  \E i \in DOMAIN directory : directory[i] = name /\ Rank(S, i) <= 2
    BY <1>1, <1>2, <1>7, <1>9, <2>1
  <2>2. ASSUME NEW i \in DOMAIN directory, directory[i] = name, Rank(S, i) <= 2
        PROVE  \E n \in 1 .. m : directory[Nth(S, n)] = name
    <3>1. i \in S
      BY <1>1, <1>4, <2>2
    <3>2. Rank(S, i) \in 1 .. m /\ Nth(S, Rank(S, i)) = i
      BY <1>7, <1>9, <2>2, <3>1
    <3> QED BY <2>2, <3>2
  <2> QED BY <2>1, <2>2
<1>13. getIdentity(directory, name, FALSE) = IF Contains(first, name) THEN name ELSE <<>>
  BY <1>3, Zenon DEF getIdentity
<1>14. (\E i \in DOMAIN directory : directory[i] = name /\ Rank(S, i) <= 2)
         <=> \E i \in DOMAIN directory : directory[i] = name
               /\ Cardinality({j \in 1 .. i : IsPrefix(name, directory[j])}) <= 2
  BY <1>6
<1> QED
  BY <1>11, <1>12, <1>13, <1>14, Zenon

-----------------------------------------------------------------------------
(* What getpolicy reads back of a folder *)

LEMMA OverHas == \A g, h, f : Has(g ++ h, f) <=> Has(g, f) \/ Has(h, f)
  BY DEF Has, ++

LEMMA OverList == \A g, h, f : List(g ++ h, f) = IF Has(g, f) THEN List(g, f) ELSE List(h, f)
  BY DEF Has, List, ++

LEMMA NothingHas == \A f : ~ Has(<<>>, f) /\ List(<<>>, f) = <<>>
<1>1. DOMAIN <<>> = {}
  OBVIOUS
<1> QED
  BY <1>1 DEF Has, List

LEMMA ObjectHas ==
  ASSUME NEW keys, NEW n, NEW f
  PROVE  /\ Has(Object(keys, n), f) <=> Has(keys, f) \/ (f = n /\ DOMAIN keys # {})
         /\ List(Object(keys, n), f) = List(keys, f)
<1> DEFINE e == [x \in {n} |-> <<>>]
<1>1. (Has(e, f) <=> f = n) /\ List(e, f) = <<>>
  BY DEF Has, List
<1> HIDE DEF e
<1>2. CASE DOMAIN keys = {}
  <2>1. Object(keys, n) = keys ++ <<>>
    BY <1>2, Zenon DEF Object
  <2> QED BY <1>2, <2>1, OverHas, OverList, NothingHas DEF List
<1>3. CASE DOMAIN keys # {}
  <2>1. Object(keys, n) = keys ++ e
    BY <1>3, Zenon DEF Object, e
  <2> QED BY <1>1, <1>3, <2>1, OverHas, OverList DEF List
<1> QED
  BY <1>2, <1>3

(* What is read of an attribute that stands, locked or not.                *)
Stands(attrs, at, l) == Text(attrs, at) # "" /\ \E w \in Of(attrs, at) : w.l = l

LEMMA ReadHas ==
  ASSUME NEW attrs, NEW field, NEW l, NEW f
  PROVE  /\ Has(Read(attrs, field, l), f) <=> f \in DOMAIN field /\ Stands(attrs, field[f], l)
         /\ List(Read(attrs, field, l), f) =
              IF f \in DOMAIN field /\ Stands(attrs, field[f], l) THEN ValuesOf(attrs, field[f]) ELSE <<>>
<1> DEFINE given == {g \in DOMAIN field : /\ Text(attrs, field[g]) # ""
                                          /\ \E w \in Of(attrs, field[g]) : w.l = l}
<1>1. Read(attrs, field, l) = [g \in given |-> ValuesOf(attrs, field[g])]
  BY Zenon DEF Read
<1>2. f \in given <=> f \in DOMAIN field /\ Stands(attrs, field[f], l)
  BY DEF Stands
<1> HIDE DEF given
<1> QED
  BY <1>1, <1>2 DEF Has, List

LEMMA StandsNone ==
  ASSUME NEW attrs, NEW at, NEW l, Of(attrs, at) = {}
  PROVE  ~ Stands(attrs, at, l)
  BY DEF Stands

(* What a locked and what an open attribute hold of a text.                *)
Locked(ps, f)    == Filled(ps.policy, f)
IsSuggested(ps, f) == ~ Filled(ps.policy, f) /\ Filled(ps.default, f)

LEMMA StandsSole ==
  ASSUME NEW attrs, NEW ps, NEW f, NEW at, Of(attrs, at) = Sole(ps, f, at)
  PROVE  /\ Stands(attrs, at, TRUE) <=> Locked(ps, f)
         /\ Stands(attrs, at, FALSE) <=> IsSuggested(ps, f)
         /\ Locked(ps, f) => ValuesOf(attrs, at) = <<Value(ps.policy, f)>>
         /\ IsSuggested(ps, f) => ValuesOf(attrs, at) = <<Value(ps.default, f)>>
<1>1. ASSUME NEW x, NEW l \in BOOLEAN, x # "", Of(attrs, at) = {[at |-> at, av |-> <<x>>, l |-> l]}
      PROVE  /\ Stands(attrs, at, TRUE) <=> l = TRUE
             /\ Stands(attrs, at, FALSE) <=> l = FALSE
             /\ ValuesOf(attrs, at) = <<x>>
  <2> DEFINE w == [at |-> at, av |-> <<x>>, l |-> l]
  <2>1. w.av = <<x>> /\ w.av[1] = x /\ w.l = l
    OBVIOUS
  <2>2. Of(attrs, at) = {w}
    BY <1>1
  <2> HIDE DEF w
  <2>3. ASSUME NEW k
        PROVE  Stands(attrs, at, k) <=> w.av[1] # "" /\ w.l = k
    <3>1. Text(attrs, at) = w.av[1]
      BY <2>2, OneOf
    <3>2. (\E u \in Of(attrs, at) : u.l = k) <=> w.l = k
      BY <2>2
    <3> QED BY <3>1, <3>2, Zenon DEF Stands
  <2>4. ValuesOf(attrs, at) = w.av
    BY <2>2, OneOf
  <2> QED BY <1>1, <2>1, <2>3, <2>4
<1>2. CASE Filled(ps.policy, f)
  <2>1. Of(attrs, at) = {[at |-> at, av |-> <<Value(ps.policy, f)>>, l |-> TRUE]}
    BY <1>2, Zenon DEF Sole
  <2>2. Value(ps.policy, f) # ""
    BY <1>2, Zenon DEF Filled
  <2>3. /\ Stands(attrs, at, TRUE) <=> TRUE = TRUE
        /\ Stands(attrs, at, FALSE) <=> TRUE = FALSE
        /\ ValuesOf(attrs, at) = <<Value(ps.policy, f)>>
    BY <1>1, <2>1, <2>2
  <2> QED BY <1>2, <2>3 DEF Locked, IsSuggested
<1>3. CASE ~ Filled(ps.policy, f) /\ Filled(ps.default, f)
  <2>1. Of(attrs, at) = {[at |-> at, av |-> <<Value(ps.default, f)>>, l |-> FALSE]}
    BY <1>3, Zenon DEF Sole
  <2>2. Value(ps.default, f) # ""
    BY <1>3, Zenon DEF Filled
  <2>3. /\ Stands(attrs, at, TRUE) <=> FALSE = TRUE
        /\ Stands(attrs, at, FALSE) <=> FALSE = FALSE
        /\ ValuesOf(attrs, at) = <<Value(ps.default, f)>>
    BY <1>1, <2>1, <2>2
  <2> QED BY <1>3, <2>3 DEF Locked, IsSuggested
<1>4. CASE ~ Filled(ps.policy, f) /\ ~ Filled(ps.default, f)
  <2>1. Of(attrs, at) = {}
    BY <1>4, Zenon DEF Sole
  <2>2. ~ Stands(attrs, at, TRUE) /\ ~ Stands(attrs, at, FALSE)
    BY <2>1, StandsNone
  <2> QED BY <1>4, <2>2, Zenon DEF Locked, IsSuggested
<1> QED
  BY <1>2, <1>3, <1>4

(* The same of the two flags.                                              *)
LockedFlag(ps, f)    == Has(ps.policy, f)
SuggestedFlag(ps, f) == ~ Has(ps.policy, f) /\ Has(ps.default, f)

FlagSole(ps, f, at, yes, no) ==
  IF Has(ps.policy, f)
  THEN {[at |-> at, av |-> <<IF Value(ps.policy, f) = "true" THEN yes ELSE no>>, l |-> TRUE]}
  ELSE IF Has(ps.default, f)
  THEN {[at |-> at, av |-> <<IF Value(ps.default, f) = "true" THEN yes ELSE no>>, l |-> FALSE]}
  ELSE {}

LEMMA FlagOf ==
  ASSUME NEW ps, NEW f, NEW at, NEW yes, NEW no
  PROVE  FlagAttribute(ps, f, at, yes, no) = FlagSole(ps, f, at, yes, no)
<1>1. ASSUME NEW s, Has(s, f)
      PROVE  Value(s, f) = s[f][1]
  BY <1>1 DEF Value, List
<1>2. ASSUME NEW x, NEW l
      PROVE  {[a EXCEPT !.av = <<IF @[1] = "true" THEN yes ELSE no>>] : a \in Write(at, x, l)}
               = {[at |-> at, av |-> <<IF x[1] = "true" THEN yes ELSE no>>, l |-> l]}
  BY DEF Write
<1>3. CASE Has(ps.policy, f)
  <2>1. FlagAttribute(ps, f, at, yes, no) =
          {[a EXCEPT !.av = <<IF @[1] = "true" THEN yes ELSE no>>] : a \in Write(at, ps.policy[f], TRUE)}
    BY <1>3, Zenon DEF FlagAttribute, Either
  <2>2. FlagAttribute(ps, f, at, yes, no) =
          {[at |-> at, av |-> <<IF ps.policy[f][1] = "true" THEN yes ELSE no>>, l |-> TRUE]}
    BY <1>2, <2>1
  <2>3. FlagSole(ps, f, at, yes, no) =
          {[at |-> at, av |-> <<IF Value(ps.policy, f) = "true" THEN yes ELSE no>>, l |-> TRUE]}
    BY <1>3, Zenon DEF FlagSole
  <2>4. Value(ps.policy, f) = ps.policy[f][1]
    BY <1>1, <1>3
  <2> QED BY <2>2, <2>3, <2>4
<1>4. CASE ~ Has(ps.policy, f) /\ Has(ps.default, f)
  <2>1. FlagAttribute(ps, f, at, yes, no) =
          {[a EXCEPT !.av = <<IF @[1] = "true" THEN yes ELSE no>>] : a \in Write(at, ps.default[f], FALSE)}
    BY <1>4, Zenon DEF FlagAttribute, Either
  <2>2. FlagAttribute(ps, f, at, yes, no) =
          {[at |-> at, av |-> <<IF ps.default[f][1] = "true" THEN yes ELSE no>>, l |-> FALSE]}
    BY <1>2, <2>1
  <2>3. FlagSole(ps, f, at, yes, no) =
          {[at |-> at, av |-> <<IF Value(ps.default, f) = "true" THEN yes ELSE no>>, l |-> FALSE]}
    BY <1>4, Zenon DEF FlagSole
  <2>4. Value(ps.default, f) = ps.default[f][1]
    BY <1>1, <1>4
  <2> QED BY <2>2, <2>3, <2>4
<1>5. CASE ~ Has(ps.policy, f) /\ ~ Has(ps.default, f)
  <2>1. FlagAttribute(ps, f, at, yes, no) =
          {[a EXCEPT !.av = <<IF @[1] = "true" THEN yes ELSE no>>] : a \in {}}
    BY <1>5, Zenon DEF FlagAttribute, Either
  <2>2. {[a EXCEPT !.av = <<IF @[1] = "true" THEN yes ELSE no>>] : a \in {}} = {}
    OBVIOUS
  <2> QED BY <1>5, <2>1, <2>2, Zenon DEF FlagSole
<1> QED
  BY <1>3, <1>4, <1>5, Zenon

(* What is read of one attribute that has a value.                         *)
LEMMA StandsRecord ==
  ASSUME NEW attrs, NEW at, NEW x, NEW l \in BOOLEAN, x[1] # "",
         Of(attrs, at) = {[at |-> at, av |-> x, l |-> l]}
  PROVE  /\ Stands(attrs, at, TRUE) <=> l = TRUE
         /\ Stands(attrs, at, FALSE) <=> l = FALSE
         /\ ValuesOf(attrs, at) = x
<1> DEFINE w == [at |-> at, av |-> x, l |-> l]
<1>1. w.av = x /\ w.l = l
  OBVIOUS
<1>2. Of(attrs, at) = {w}
  OBVIOUS
<1> HIDE DEF w
<1>3. Text(attrs, at) = w.av[1] /\ ValuesOf(attrs, at) = w.av
  BY <1>2, OneOf
<1>4. (\E u \in Of(attrs, at) : u.l = TRUE) <=> w.l = TRUE
  BY <1>2
<1>5. (\E u \in Of(attrs, at) : u.l = FALSE) <=> w.l = FALSE
  BY <1>2
<1> QED
  BY <1>1, <1>3, <1>4, <1>5, Zenon DEF Stands

LEMMA StandsFlag ==
  ASSUME NEW attrs, NEW ps, NEW f, NEW at, NEW yes, NEW no, yes # "", no # "",
         Of(attrs, at) = FlagAttribute(ps, f, at, yes, no)
  PROVE  /\ Stands(attrs, at, TRUE) <=> LockedFlag(ps, f)
         /\ Stands(attrs, at, FALSE) <=> SuggestedFlag(ps, f)
         /\ LockedFlag(ps, f) => ValuesOf(attrs, at) = <<IF Value(ps.policy, f) = "true" THEN yes ELSE no>>
         /\ SuggestedFlag(ps, f) => ValuesOf(attrs, at) = <<IF Value(ps.default, f) = "true" THEN yes ELSE no>>
<1>1. Of(attrs, at) = FlagSole(ps, f, at, yes, no)
  BY FlagOf
<1>2. ASSUME NEW s
      PROVE  <<IF Value(s, f) = "true" THEN yes ELSE no>>[1] # ""
  OBVIOUS
<1>3. CASE Has(ps.policy, f)
  <2> DEFINE x == <<IF Value(ps.policy, f) = "true" THEN yes ELSE no>>
  <2>1. Of(attrs, at) = {[at |-> at, av |-> x, l |-> TRUE]}
    BY <1>1, <1>3, Zenon DEF FlagSole
  <2>2. x[1] # ""
    BY <1>2
  <2> HIDE DEF x
  <2>3. /\ Stands(attrs, at, TRUE) <=> TRUE = TRUE
        /\ Stands(attrs, at, FALSE) <=> TRUE = FALSE
        /\ ValuesOf(attrs, at) = x
    BY <2>1, <2>2, StandsRecord
  <2> QED BY <1>3, <2>3 DEF LockedFlag, SuggestedFlag, x
<1>4. CASE ~ Has(ps.policy, f) /\ Has(ps.default, f)
  <2> DEFINE x == <<IF Value(ps.default, f) = "true" THEN yes ELSE no>>
  <2>1. Of(attrs, at) = {[at |-> at, av |-> x, l |-> FALSE]}
    BY <1>1, <1>4, Zenon DEF FlagSole
  <2>2. x[1] # ""
    BY <1>2
  <2> HIDE DEF x
  <2>3. /\ Stands(attrs, at, TRUE) <=> FALSE = TRUE
        /\ Stands(attrs, at, FALSE) <=> FALSE = FALSE
        /\ ValuesOf(attrs, at) = x
    BY <2>1, <2>2, StandsRecord
  <2> QED BY <1>4, <2>3 DEF LockedFlag, SuggestedFlag, x
<1>5. CASE ~ Has(ps.policy, f) /\ ~ Has(ps.default, f)
  <2>1. Of(attrs, at) = {}
    BY <1>1, <1>5, Zenon DEF FlagSole
  <2>2. ~ Stands(attrs, at, TRUE) /\ ~ Stands(attrs, at, FALSE)
    BY <2>1, StandsNone
  <2> QED BY <1>5, <2>2, Zenon DEF LockedFlag, SuggestedFlag
<1> QED
  BY <1>3, <1>4, <1>5

(* And of the units.                                                       *)
LEMMA StandsUnits ==
  ASSUME NEW attrs, NEW ps, Of(attrs, "OU") = Units(ps)
  PROVE  /\ Stands(attrs, "OU", TRUE) <=> Locked(ps, "ou")
         /\ Stands(attrs, "OU", FALSE) <=> IsSuggested(ps, "ou")
         /\ Locked(ps, "ou") => ValuesOf(attrs, "OU") = List(ps.policy, "ou")
         /\ IsSuggested(ps, "ou") => ValuesOf(attrs, "OU") = List(ps.default, "ou")
<1>1. ASSUME NEW s, Filled(s, "ou")
      PROVE  s["ou"] = List(s, "ou") /\ List(s, "ou")[1] # ""
  BY <1>1 DEF Filled, Value, List
<1>3. CASE Filled(ps.policy, "ou")
  <2>1. Of(attrs, "OU") = {[at |-> "OU", av |-> List(ps.policy, "ou"), l |-> TRUE]}
    BY <1>1, <1>3, Zenon DEF Units, Either, Write
  <2>2. List(ps.policy, "ou")[1] # ""
    BY <1>1, <1>3
  <2>3. /\ Stands(attrs, "OU", TRUE) <=> TRUE = TRUE
        /\ Stands(attrs, "OU", FALSE) <=> TRUE = FALSE
        /\ ValuesOf(attrs, "OU") = List(ps.policy, "ou")
    BY <2>1, <2>2, StandsRecord
  <2> QED BY <1>3, <2>3 DEF Locked, IsSuggested
<1>4. CASE ~ Filled(ps.policy, "ou") /\ Filled(ps.default, "ou")
  <2>1. Of(attrs, "OU") = {[at |-> "OU", av |-> List(ps.default, "ou"), l |-> FALSE]}
    BY <1>1, <1>4, Zenon DEF Units, Either, Write
  <2>2. List(ps.default, "ou")[1] # ""
    BY <1>1, <1>4
  <2>3. /\ Stands(attrs, "OU", TRUE) <=> FALSE = TRUE
        /\ Stands(attrs, "OU", FALSE) <=> FALSE = FALSE
        /\ ValuesOf(attrs, "OU") = List(ps.default, "ou")
    BY <2>1, <2>2, StandsRecord
  <2> QED BY <1>4, <2>3 DEF Locked, IsSuggested
<1>5. CASE ~ Filled(ps.policy, "ou") /\ ~ Filled(ps.default, "ou")
  <2>1. Of(attrs, "OU") = {}
    BY <1>5, Zenon DEF Units, Either
  <2>2. ~ Stands(attrs, "OU", TRUE) /\ ~ Stands(attrs, "OU", FALSE)
    BY <2>1, StandsNone
  <2> QED BY <1>5, <2>2, Zenon DEF Locked, IsSuggested
<1> QED
  BY <1>3, <1>4, <1>5

(* The sections that getpolicy prints, part by part.  What l says is read  *)
(* of the locked attributes or of the others.                              *)
Kept(ps, f, l)     == IF l THEN Locked(ps, f) ELSE IsSuggested(ps, f)
KeptFlag(ps, f, l) == IF l THEN LockedFlag(ps, f) ELSE SuggestedFlag(ps, f)
SectionOf(ps, l)         == IF l THEN ps.policy ELSE ps.default
SubjectNames == [org |-> "Org", ou |-> "OU", locality |-> "City", state |-> "State", country |-> "Country"]

LEMMA KeptText ==
  ASSUME NEW attrs, NEW ps, NEW f, NEW at, NEW l \in BOOLEAN, Of(attrs, at) = Sole(ps, f, at)
  PROVE  /\ Stands(attrs, at, l) <=> Kept(ps, f, l)
         /\ Kept(ps, f, l) => ValuesOf(attrs, at) = <<Value(SectionOf(ps, l), f)>>
<1>1. CASE l = TRUE
  BY <1>1, StandsSole, Zenon DEF Kept, SectionOf
<1>2. CASE l = FALSE
  BY <1>2, StandsSole, Zenon DEF Kept, SectionOf
<1> QED
  BY <1>1, <1>2

YesNo(b, yes, no) == <<IF b = "true" THEN yes ELSE no>>

Worded(x) == x # ""

LEMMA KeptYesNo ==
  ASSUME NEW attrs, NEW ps, NEW f, NEW at, NEW yes, NEW no, NEW l \in BOOLEAN, Worded(yes), Worded(no),
         Of(attrs, at) = FlagAttribute(ps, f, at, yes, no)
  PROVE  /\ Stands(attrs, at, l) <=> KeptFlag(ps, f, l)
         /\ KeptFlag(ps, f, l) => ValuesOf(attrs, at) = YesNo(Value(SectionOf(ps, l), f), yes, no)
<1>1. /\ Stands(attrs, at, TRUE) <=> LockedFlag(ps, f)
      /\ Stands(attrs, at, FALSE) <=> SuggestedFlag(ps, f)
      /\ LockedFlag(ps, f) => ValuesOf(attrs, at) = <<IF Value(ps.policy, f) = "true" THEN yes ELSE no>>
      /\ SuggestedFlag(ps, f) => ValuesOf(attrs, at) = <<IF Value(ps.default, f) = "true" THEN yes ELSE no>>
  BY StandsFlag, Zenon DEF Worded
<1>2. CASE l = TRUE
  BY <1>1, <1>2, Zenon DEF KeptFlag, SectionOf, YesNo
<1>3. CASE l = FALSE
  BY <1>1, <1>3, Zenon DEF KeptFlag, SectionOf, YesNo
<1> QED
  BY <1>2, <1>3

LEMMA KeptService ==
  ASSUME NEW attrs, NEW ps, NEW l \in BOOLEAN, Of(attrs, "ManualCsr") = FlagAttribute(ps, "service", "ManualCsr", "0", "1")
  PROVE  /\ Stands(attrs, "ManualCsr", l) <=> KeptFlag(ps, "service", l)
         /\ KeptFlag(ps, "service", l) =>
              ValuesOf(attrs, "ManualCsr") = YesNo(Value(SectionOf(ps, l), "service"), "0", "1")
<1> DEFINE f == "service"
           at == "ManualCsr"
           yes == "0"
           no == "1"
<1>1. Worded(yes) /\ Worded(no)
  BY Zenon DEF Worded
<1>2. Of(attrs, at) = FlagAttribute(ps, f, at, yes, no)
  OBVIOUS
<1> HIDE DEF f, at, yes, no
<1>3. /\ Stands(attrs, at, l) <=> KeptFlag(ps, f, l)
      /\ KeptFlag(ps, f, l) => ValuesOf(attrs, at) = YesNo(Value(SectionOf(ps, l), f), yes, no)
  BY <1>1, <1>2, KeptYesNo
<1> QED
  BY <1>3, Zenon DEF f, at, yes, no

LEMMA KeptAuto ==
  ASSUME NEW attrs, NEW ps, NEW l \in BOOLEAN, Of(attrs, "ManagementType") = FlagAttribute(ps, "auto", "ManagementType", "Provisioning", "Enrollment")
  PROVE  /\ Stands(attrs, "ManagementType", l) <=> KeptFlag(ps, "auto", l)
         /\ KeptFlag(ps, "auto", l) =>
              ValuesOf(attrs, "ManagementType") = YesNo(Value(SectionOf(ps, l), "auto"), "Provisioning", "Enrollment")
<1> DEFINE f == "auto"
           at == "ManagementType"
           yes == "Provisioning"
           no == "Enrollment"
<1>1. Worded(yes) /\ Worded(no)
  BY Zenon DEF Worded
<1>2. Of(attrs, at) = FlagAttribute(ps, f, at, yes, no)
  OBVIOUS
<1> HIDE DEF f, at, yes, no
<1>3. /\ Stands(attrs, at, l) <=> KeptFlag(ps, f, l)
      /\ KeptFlag(ps, f, l) => ValuesOf(attrs, at) = YesNo(Value(SectionOf(ps, l), f), yes, no)
  BY <1>1, <1>2, KeptYesNo
<1> QED
  BY <1>3, Zenon DEF f, at, yes, no

LEMMA SubjectValueBack ==
  ASSUME NEW ps, NEW l \in BOOLEAN, NEW f
  PROVE  LET s == ReadSubject(BuildTppPolicy(ps), l)
         IN  /\ f \in Names => (Has(s, f) <=> Kept(ps, f, l))
             /\ f \in Names => List(s, f) = IF Kept(ps, f, l) THEN <<Value(SectionOf(ps, l), f)>> ELSE <<>>
             /\ Has(s, "ou") <=> Kept(ps, "ou", l)
             /\ List(s, "ou") = IF Kept(ps, "ou", l) THEN List(SectionOf(ps, l), "ou") ELSE <<>>
             /\ Has(s, "subject") => \E g \in Names \cup {"ou"} : Kept(ps, g, l)
             /\ f \notin Names \cup {"ou", "subject"} => ~ Has(s, f) /\ List(s, f) = <<>>
<1> DEFINE attrs == BuildTppPolicy(ps)
           keys == Read(attrs, SubjectNames, l)
           s == ReadSubject(attrs, l)
<1>1. s = Object(keys, "subject")
  BY Zenon DEF ReadSubject, SubjectNames
<1>2. /\ Of(attrs, "Org") = Sole(ps, "org", "Org") /\ Of(attrs, "City") = Sole(ps, "locality", "City")
      /\ Of(attrs, "State") = Sole(ps, "state", "State") /\ Of(attrs, "Country") = Sole(ps, "country", "Country")
      /\ Of(attrs, "OU") = Units(ps)
  BY AttributesOne, Zenon
<1> HIDE DEF attrs
<1>3. \A g : /\ Has(keys, g) <=> g \in DOMAIN SubjectNames /\ Stands(attrs, SubjectNames[g], l)
             /\ List(keys, g) = IF g \in DOMAIN SubjectNames /\ Stands(attrs, SubjectNames[g], l)
                                THEN ValuesOf(attrs, SubjectNames[g]) ELSE <<>>
  BY ReadHas
<1>4. /\ DOMAIN SubjectNames = Names \cup {"ou"} /\ SubjectNames["ou"] = "OU"
      /\ SubjectNames["org"] = "Org" /\ SubjectNames["locality"] = "City" /\ SubjectNames["state"] = "State"
      /\ SubjectNames["country"] = "Country"
  BY DEF SubjectNames, Names
<1>5. \A g \in Names : Of(attrs, SubjectNames[g]) = Sole(ps, g, SubjectNames[g])
  BY <1>2, <1>4 DEF Names
<1>6. ASSUME NEW g \in Names
      PROVE  /\ Stands(attrs, SubjectNames[g], l) <=> Kept(ps, g, l)
             /\ Kept(ps, g, l) => ValuesOf(attrs, SubjectNames[g]) = <<Value(SectionOf(ps, l), g)>>
  <2>1. Of(attrs, SubjectNames[g]) = Sole(ps, g, SubjectNames[g])
    BY <1>5
  <2> QED BY <2>1, KeptText, Zenon
<1>7. /\ Stands(attrs, "OU", l) <=> Kept(ps, "ou", l)
      /\ Kept(ps, "ou", l) => ValuesOf(attrs, "OU") = List(SectionOf(ps, l), "ou")
  BY <1>2, StandsUnits DEF Kept, SectionOf
<1> HIDE DEF keys
<1>8. \A g : (g # "subject" => (Has(s, g) <=> Has(keys, g))) /\ List(s, g) = List(keys, g)
  BY <1>1, ObjectHas
<1>9. Has(s, "subject") => \E g \in Names \cup {"ou"} : Kept(ps, g, l)
  <2>1. SUFFICES ASSUME Has(s, "subject")
                 PROVE  \E g \in Names \cup {"ou"} : Kept(ps, g, l)
    OBVIOUS
  <2>2. DOMAIN keys # {}
    BY <1>1, <2>1, ObjectHas DEF Has
  <2>3. PICK g : Has(keys, g)
    BY <2>2 DEF Has
  <2>4. g \in Names \cup {"ou"} /\ Stands(attrs, SubjectNames[g], l)
    BY <1>3, <1>4, <2>3
  <2> QED BY <1>4, <1>6, <1>7, <2>4
<1>10. "subject" \notin Names /\ "ou" \notin Names
  BY DEF Names
<1> HIDE DEF s
<1>11. f \in Names => (Has(s, f) <=> Kept(ps, f, l))
  BY <1>3, <1>4, <1>6, <1>8, <1>10
<1>12. f \in Names => List(s, f) = IF Kept(ps, f, l) THEN <<Value(SectionOf(ps, l), f)>> ELSE <<>>
  BY <1>3, <1>4, <1>6, <1>8
<1>13. Has(s, "ou") <=> Kept(ps, "ou", l)
  BY <1>3, <1>4, <1>7, <1>8
<1>14. List(s, "ou") = IF Kept(ps, "ou", l) THEN List(SectionOf(ps, l), "ou") ELSE <<>>
  BY <1>3, <1>4, <1>7, <1>8
<1>15. f \notin Names \cup {"ou", "subject"} => ~ Has(s, f) /\ List(s, f) = <<>>
  BY <1>3, <1>4, <1>8
<1> QED
  BY <1>9, <1>11, <1>12, <1>13, <1>14, <1>15, Zenon DEF s, attrs

(* The algorithm decides which of the two parameters is read.              *)
IsRsa(ps) == Text(BuildTppPolicy(ps), "KeyAlg") = "RSA"
Parameter(ps) == IF IsRsa(ps) THEN "rsa" ELSE "curve"
KeyTexts(ps) == {"keyType", Parameter(ps)}

LEMMA KeyPairValueBack ==
  ASSUME NEW ps, NEW l \in BOOLEAN, NEW f
  PROVE  LET s == ReadKeyPair(BuildTppPolicy(ps), l)
         IN  /\ f \in KeyTexts(ps) => (Has(s, f) <=> Kept(ps, f, l))
             /\ f \in KeyTexts(ps) => List(s, f) = IF Kept(ps, f, l) THEN <<Value(SectionOf(ps, l), f)>> ELSE <<>>
             /\ Has(s, "service") <=> KeptFlag(ps, "service", l)
             /\ List(s, "service") = IF KeptFlag(ps, "service", l)
                                     THEN Bool(Value(SectionOf(ps, l), "service") = "true") ELSE <<>>
             /\ f \notin KeyTexts(ps) \cup {"service"} => ~ Has(s, f) /\ List(s, f) = <<>>
<1> DEFINE attrs == BuildTppPolicy(ps)
           two == [keyType |-> "KeyAlg", service |-> "ManualCsr"]
           size == [rsa |-> "KeyBits"]
           curve == [curve |-> "Curve"]
           one == IF IsRsa(ps) THEN size ELSE curve
           keys == Read(attrs, two, l) ++ Read(attrs, one, l)
           s == ReadKeyPair(attrs, l)
<1>1. s = [g \in DOMAIN keys |-> IF g = "service" THEN Bool(keys[g] = <<"0">>) ELSE keys[g]]
  BY DEF ReadKeyPair, IsRsa
<1>2. /\ Of(attrs, "KeyAlg") = Sole(ps, "keyType", "KeyAlg") /\ Of(attrs, "KeyBits") = Sole(ps, "rsa", "KeyBits")
      /\ Of(attrs, "Curve") = Sole(ps, "curve", "Curve")
      /\ Of(attrs, "ManualCsr") = FlagAttribute(ps, "service", "ManualCsr", "0", "1")
  BY AttributesOne, Zenon
<1> HIDE DEF attrs
<1>3. /\ Stands(attrs, "KeyAlg", l) <=> Kept(ps, "keyType", l)
      /\ Kept(ps, "keyType", l) => ValuesOf(attrs, "KeyAlg") = <<Value(SectionOf(ps, l), "keyType")>>
  <2>1. Of(attrs, "KeyAlg") = Sole(ps, "keyType", "KeyAlg")
    BY <1>2
  <2> QED BY <2>1, KeptText
<1>4. /\ Stands(attrs, "KeyBits", l) <=> Kept(ps, "rsa", l)
      /\ Kept(ps, "rsa", l) => ValuesOf(attrs, "KeyBits") = <<Value(SectionOf(ps, l), "rsa")>>
  <2>1. Of(attrs, "KeyBits") = Sole(ps, "rsa", "KeyBits")
    BY <1>2
  <2> QED BY <2>1, KeptText
<1>5. /\ Stands(attrs, "Curve", l) <=> Kept(ps, "curve", l)
      /\ Kept(ps, "curve", l) => ValuesOf(attrs, "Curve") = <<Value(SectionOf(ps, l), "curve")>>
  <2>1. Of(attrs, "Curve") = Sole(ps, "curve", "Curve")
    BY <1>2
  <2> QED BY <2>1, KeptText
<1>6. /\ Stands(attrs, "ManualCsr", l) <=> KeptFlag(ps, "service", l)
      /\ KeptFlag(ps, "service", l) =>
           ValuesOf(attrs, "ManualCsr") = YesNo(Value(SectionOf(ps, l), "service"), "0", "1")
  <2>1. Of(attrs, "ManualCsr") = FlagAttribute(ps, "service", "ManualCsr", "0", "1")
    BY <1>2
  <2> QED BY <2>1, KeptService, Zenon
<1>7. DOMAIN two = {"keyType", "service"} /\ two["keyType"] = "KeyAlg" /\ two["service"] = "ManualCsr"
  OBVIOUS
<1>8. DOMAIN one = {Parameter(ps)} /\ one[Parameter(ps)] = IF IsRsa(ps) THEN "KeyBits" ELSE "Curve"
  BY DEF Parameter
<1> HIDE DEF two, one
<1>9. \A g : /\ Has(Read(attrs, two, l), g) <=> g \in DOMAIN two /\ Stands(attrs, two[g], l)
             /\ List(Read(attrs, two, l), g) = IF g \in DOMAIN two /\ Stands(attrs, two[g], l)
                                               THEN ValuesOf(attrs, two[g]) ELSE <<>>
  BY ReadHas
<1>10. \A g : /\ Has(Read(attrs, one, l), g) <=> g \in DOMAIN one /\ Stands(attrs, one[g], l)
              /\ List(Read(attrs, one, l), g) = IF g \in DOMAIN one /\ Stands(attrs, one[g], l)
                                                THEN ValuesOf(attrs, one[g]) ELSE <<>>
  BY ReadHas
<1>11. \A g : Has(keys, g) <=> Has(Read(attrs, two, l), g) \/ Has(Read(attrs, one, l), g)
  BY OverHas
<1>12. \A g : List(keys, g) = IF Has(Read(attrs, two, l), g) THEN List(Read(attrs, two, l), g)
                              ELSE List(Read(attrs, one, l), g)
  BY OverList
<1> HIDE DEF keys
<1>13. /\ \A g : Has(s, g) <=> Has(keys, g)
       /\ \A g : g # "service" => List(s, g) = List(keys, g)
       /\ List(s, "service") = IF Has(keys, "service") THEN Bool(List(keys, "service") = <<"0">>) ELSE <<>>
  BY <1>1 DEF Has, List
<1> HIDE DEF s
<1>14. Parameter(ps) \in {"rsa", "curve"} /\ (Parameter(ps) = "rsa" <=> IsRsa(ps))
  BY DEF Parameter
<1>15. (Has(keys, "keyType") <=> Kept(ps, "keyType", l))
       /\ List(keys, "keyType") = IF Kept(ps, "keyType", l) THEN <<Value(SectionOf(ps, l), "keyType")>> ELSE <<>>
  BY <1>3, <1>7, <1>8, <1>9, <1>10, <1>11, <1>12, <1>14
<1>16. (Has(keys, Parameter(ps)) <=> Kept(ps, Parameter(ps), l))
       /\ List(keys, Parameter(ps)) =
            IF Kept(ps, Parameter(ps), l) THEN <<Value(SectionOf(ps, l), Parameter(ps))>> ELSE <<>>
  <2>1. CASE IsRsa(ps)
    BY <1>4, <1>7, <1>8, <1>9, <1>10, <1>11, <1>12, <1>14, <2>1
  <2>2. CASE ~ IsRsa(ps)
    BY <1>5, <1>7, <1>8, <1>9, <1>10, <1>11, <1>12, <1>14, <2>2
  <2> QED BY <2>1, <2>2
<1>17. Has(keys, "service") <=> KeptFlag(ps, "service", l)
  BY <1>6, <1>7, <1>8, <1>9, <1>10, <1>11, <1>14
<1>18. KeptFlag(ps, "service", l) =>
         List(keys, "service") = YesNo(Value(SectionOf(ps, l), "service"), "0", "1")
  BY <1>6, <1>7, <1>8, <1>9, <1>12, <1>14
<1>19. KeptFlag(ps, "service", l) =>
         (List(keys, "service") = <<"0">> <=> Value(SectionOf(ps, l), "service") = "true")
  BY <1>18 DEF YesNo
<1>20. List(s, "service") = IF KeptFlag(ps, "service", l)
                            THEN Bool(Value(SectionOf(ps, l), "service") = "true") ELSE <<>>
  BY <1>13, <1>17, <1>19 DEF Bool
<1>21. f \notin KeyTexts(ps) \cup {"service"} => ~ Has(keys, f) /\ List(keys, f) = <<>>
  BY <1>7, <1>8, <1>9, <1>10, <1>11, <1>12, <1>14 DEF KeyTexts
<1>22. f \in KeyTexts(ps) => f \in {"keyType", Parameter(ps)} /\ f # "service"
  BY <1>14 DEF KeyTexts
<1>23. f \in KeyTexts(ps) => (Has(s, f) <=> Kept(ps, f, l))
  BY <1>13, <1>15, <1>16, <1>22
<1>24. f \in KeyTexts(ps) => List(s, f) = IF Kept(ps, f, l) THEN <<Value(SectionOf(ps, l), f)>> ELSE <<>>
  BY <1>13, <1>15, <1>16, <1>22
<1>25. f \notin KeyTexts(ps) \cup {"service"} => ~ Has(s, f) /\ List(s, f) = <<>>
  BY <1>13, <1>21
<1> QED
  BY <1>13, <1>17, <1>20, <1>23, <1>24, <1>25, Zenon DEF s, attrs

LEMMA ManagementBack ==
  ASSUME NEW ps, NEW l \in BOOLEAN, NEW f
  PROVE  LET s == ReadManagement(BuildTppPolicy(ps), l)
         IN  /\ Has(s, "auto") <=> KeptFlag(ps, "auto", l)
             /\ List(s, "auto") = IF KeptFlag(ps, "auto", l)
                                  THEN Bool(Value(SectionOf(ps, l), "auto") = "true") ELSE <<>>
             /\ f # "auto" => ~ Has(s, f) /\ List(s, f) = <<>>
<1> DEFINE attrs == BuildTppPolicy(ps)
           field == [auto |-> "ManagementType"]
           keys == Read(attrs, field, l)
           s == ReadManagement(attrs, l)
<1>1. s = [g \in DOMAIN keys |-> Bool(keys[g] = <<"Provisioning">>)]
  BY DEF ReadManagement
<1>2. Of(attrs, "ManagementType") = FlagAttribute(ps, "auto", "ManagementType", "Provisioning", "Enrollment")
  BY AttributesOne, Zenon
<1> HIDE DEF attrs
<1>3. /\ Stands(attrs, "ManagementType", l) <=> KeptFlag(ps, "auto", l)
      /\ KeptFlag(ps, "auto", l) =>
           ValuesOf(attrs, "ManagementType") =
             YesNo(Value(SectionOf(ps, l), "auto"), "Provisioning", "Enrollment")
  BY <1>2, KeptAuto, Zenon
<1>4. DOMAIN field = {"auto"} /\ field["auto"] = "ManagementType"
  OBVIOUS
<1> HIDE DEF field
<1>5. \A g : /\ Has(keys, g) <=> g \in DOMAIN field /\ Stands(attrs, field[g], l)
             /\ List(keys, g) = IF g \in DOMAIN field /\ Stands(attrs, field[g], l)
                                THEN ValuesOf(attrs, field[g]) ELSE <<>>
  BY ReadHas
<1> HIDE DEF keys
<1>6. /\ \A g : Has(s, g) <=> Has(keys, g)
      /\ \A g : List(s, g) = IF Has(keys, g) THEN Bool(List(keys, g) = <<"Provisioning">>) ELSE <<>>
  BY <1>1 DEF Has, List
<1> HIDE DEF s
<1>7. Has(keys, "auto") <=> KeptFlag(ps, "auto", l)
  BY <1>3, <1>4, <1>5
<1>8. KeptFlag(ps, "auto", l) =>
         List(keys, "auto") = YesNo(Value(SectionOf(ps, l), "auto"), "Provisioning", "Enrollment")
  BY <1>3, <1>4, <1>5
<1>9. KeptFlag(ps, "auto", l) =>
         (List(keys, "auto") = <<"Provisioning">> <=> Value(SectionOf(ps, l), "auto") = "true")
  BY <1>8 DEF YesNo
<1>10. List(s, "auto") = IF KeptFlag(ps, "auto", l) THEN Bool(Value(SectionOf(ps, l), "auto") = "true") ELSE <<>>
  BY <1>6, <1>7, <1>9 DEF Bool
<1>11. f # "auto" => ~ Has(s, f) /\ List(s, f) = <<>>
  BY <1>4, <1>5, <1>6
<1> QED
  BY <1>6, <1>7, <1>10, <1>11, Zenon DEF s, attrs

(* The specification that getpolicy prints of what setpolicy wrote.        *)
Back(ps) == BuildPolicySpecificationForTPP(BuildTppPolicy(ps))

(* The parts of a printed policy that name neither subject nor key.        *)
Fixed(attrs) ==
  [wildcard |-> Bool(Text(attrs, "ProhibitWildcard") # "1"),
   reuse |-> Bool(Text(attrs, "KeyReuse") = "1"), keyPair |-> <<>>]
BackDomains(attrs) == IF Of(attrs, "Domains") # {} THEN [domains |-> ValuesOf(attrs, "Domains")] ELSE <<>>
BackAuthority(attrs) == IF Text(attrs, "CA") # "" THEN [ca |-> ValuesOf(attrs, "CA")] ELSE <<>>

LEMMA BackParts ==
  ASSUME NEW ps
  PROVE  LET attrs == BuildTppPolicy(ps)
         IN  /\ DOMAIN Back(ps) = {"policy", "default"}
             /\ Back(ps).policy = ReadSubject(attrs, TRUE) ++ ReadKeyPair(attrs, TRUE) ++ ReadManagement(attrs, TRUE)
                  ++ resolveSubjectAltNames(attrs) ++ Fixed(attrs) ++ BackDomains(attrs) ++ BackAuthority(attrs)
             /\ Back(ps).default = ReadSubject(attrs, FALSE) ++ Object(ReadKeyPair(attrs, FALSE), "keyPair")
                  ++ ReadManagement(attrs, FALSE)
<1> DEFINE attrs == BuildTppPolicy(ps)
           p == ReadSubject(attrs, TRUE) ++ ReadKeyPair(attrs, TRUE) ++ ReadManagement(attrs, TRUE)
                  ++ resolveSubjectAltNames(attrs) ++ Fixed(attrs) ++ BackDomains(attrs) ++ BackAuthority(attrs)
           d == ReadSubject(attrs, FALSE) ++ Object(ReadKeyPair(attrs, FALSE), "keyPair")
                  ++ ReadManagement(attrs, FALSE)
<1>1. Back(ps) = [policy |-> p, default |-> d]
  BY Zenon DEF Back, BuildPolicySpecificationForTPP, Fixed, BackDomains, BackAuthority
<1> HIDE DEF p, d
<1>2. DOMAIN Back(ps) = {"policy", "default"} /\ Back(ps).policy = p /\ Back(ps).default = d
  BY <1>1
<1> QED
  BY <1>2, Zenon DEF p, d

LEMMA SmallParts ==
  ASSUME NEW attrs, NEW f
  PROVE  /\ Has(resolveSubjectAltNames(attrs), f) <=> f \in SanTypes
         /\ Has(Fixed(attrs), f) <=> f \in {"wildcard", "reuse", "keyPair"}
         /\ Has(BackDomains(attrs), f) <=> f = "domains" /\ Of(attrs, "Domains") # {}
         /\ Has(BackAuthority(attrs), f) <=> f = "ca" /\ Text(attrs, "CA") # ""
<1>1. Has(resolveSubjectAltNames(attrs), f) <=> f \in SanTypes
  BY DEF resolveSubjectAltNames, Has
<1>2. Has(Fixed(attrs), f) <=> f \in {"wildcard", "reuse", "keyPair"}
  <2> DEFINE a == Bool(Text(attrs, "ProhibitWildcard") # "1")
             b == Bool(Text(attrs, "KeyReuse") = "1")
  <2>1. Fixed(attrs) = [wildcard |-> a, reuse |-> b, keyPair |-> <<>>]
    BY Zenon DEF Fixed
  <2> HIDE DEF a, b
  <2> QED BY <2>1 DEF Has
<1>3. Has(BackDomains(attrs), f) <=> f = "domains" /\ Of(attrs, "Domains") # {}
  <2>1. CASE Of(attrs, "Domains") # {}
    BY <2>1 DEF BackDomains, Has
  <2>2. CASE Of(attrs, "Domains") = {}
    BY <2>2, NothingHas DEF BackDomains
  <2> QED BY <2>1, <2>2
<1>4. Has(BackAuthority(attrs), f) <=> f = "ca" /\ Text(attrs, "CA") # ""
  <2>1. CASE Text(attrs, "CA") # ""
    <3>1. BackAuthority(attrs) = [ca |-> ValuesOf(attrs, "CA")]
      BY <2>1, Zenon DEF BackAuthority
    <3>2. Has([ca |-> ValuesOf(attrs, "CA")], f) <=> f = "ca"
      BY DEF Has
    <3> QED BY <2>1, <3>1, <3>2, Zenon
  <2>2. CASE Text(attrs, "CA") = ""
    <3>1. BackAuthority(attrs) = <<>>
      BY <2>2, Zenon DEF BackAuthority
    <3> QED BY <2>2, <3>1, NothingHas, Zenon
  <2> QED BY <2>1, <2>2, Zenon
<1> QED
  BY <1>1, <1>2, <1>3, <1>4, Zenon

(* What one of four sections has, the union of them has.                   *)
LEMMA Fourfold ==
  ASSUME NEW a, NEW b, NEW c, NEW d, NEW f, NEW s, s = a ++ b ++ c ++ d
  PROVE  /\ Has(s, f) <=> Has(a, f) \/ Has(b, f) \/ Has(c, f) \/ Has(d, f)
         /\ List(s, f) = IF Has(a, f) THEN List(a, f) ELSE IF Has(b, f) THEN List(b, f)
                             ELSE IF Has(c, f) THEN List(c, f) ELSE List(d, f)
<1> DEFINE s2 == a ++ b
           s3 == s2 ++ c
<1>1. (Has(s2, f) <=> Has(a, f) \/ Has(b, f)) /\ List(s2, f) = IF Has(a, f) THEN List(a, f) ELSE List(b, f)
  BY OverHas, OverList, Zenon
<1>2. (Has(s3, f) <=> Has(s2, f) \/ Has(c, f)) /\ List(s3, f) = IF Has(s2, f) THEN List(s2, f) ELSE List(c, f)
  BY OverHas, OverList, Zenon
<1> HIDE DEF s2
<1>3. s = s3 ++ d
  BY Zenon DEF s2
<1> HIDE DEF s3
<1>4. (Has(s, f) <=> Has(s3, f) \/ Has(d, f)) /\ List(s, f) = IF Has(s3, f) THEN List(s3, f) ELSE List(d, f)
  BY <1>3, OverHas, OverList
<1> QED
  BY <1>1, <1>2, <1>4

(* What one of seven sections has, the union of them has.                  *)
LEMMA Sevenfold ==
  ASSUME NEW a, NEW b, NEW c, NEW d, NEW e, NEW g, NEW h, NEW f, NEW s,
         s = a ++ b ++ c ++ d ++ e ++ g ++ h
  PROVE  /\ Has(s, f) <=> Has(a, f) \/ Has(b, f) \/ Has(c, f) \/ Has(d, f) \/ Has(e, f) \/ Has(g, f) \/ Has(h, f)
         /\ List(s, f) = IF Has(a, f) THEN List(a, f) ELSE IF Has(b, f) THEN List(b, f)
                             ELSE IF Has(c, f) THEN List(c, f) ELSE IF Has(d, f) THEN List(d, f)
                             ELSE IF Has(e, f) THEN List(e, f) ELSE IF Has(g, f) THEN List(g, f) ELSE List(h, f)
<1> DEFINE t == a ++ b ++ c ++ d
<1>1. /\ Has(t, f) <=> Has(a, f) \/ Has(b, f) \/ Has(c, f) \/ Has(d, f)
      /\ List(t, f) = IF Has(a, f) THEN List(a, f) ELSE IF Has(b, f) THEN List(b, f)
                             ELSE IF Has(c, f) THEN List(c, f) ELSE List(d, f)
  BY Fourfold
<1>2. s = t ++ e ++ g ++ h
  BY Zenon
<1> HIDE DEF t
<1>3. /\ Has(s, f) <=> Has(t, f) \/ Has(e, f) \/ Has(g, f) \/ Has(h, f)
      /\ List(s, f) = IF Has(t, f) THEN List(t, f) ELSE IF Has(e, f) THEN List(e, f)
                             ELSE IF Has(g, f) THEN List(g, f) ELSE List(h, f)
  BY <1>2, Fourfold
<1> QED
  BY <1>1, <1>3

LEMMA ListOfNone == \A s, f : ~ Has(s, f) => List(s, f) = <<>>
  BY Zenon DEF List

(* The policy that is printed.                                             *)
LEMMA BackPolicy ==
  ASSUME NEW ps, NEW f
  PROVE  LET attrs == BuildTppPolicy(ps)
             s == Back(ps).policy
         IN  /\ f \in Names \cup {"ou", "subject"} =>
                  /\ Has(s, f) <=> Has(ReadSubject(attrs, TRUE), f)
                  /\ List(s, f) = List(ReadSubject(attrs, TRUE), f)
             /\ f \in {"keyType", "rsa", "curve", "service"} =>
                  /\ Has(s, f) <=> Has(ReadKeyPair(attrs, TRUE), f)
                  /\ List(s, f) = List(ReadKeyPair(attrs, TRUE), f)
             /\ f = "auto" =>
                  /\ Has(s, f) <=> Has(ReadManagement(attrs, TRUE), f)
                  /\ List(s, f) = List(ReadManagement(attrs, TRUE), f)
             /\ f \in SanTypes => Has(s, f) /\ List(s, f) = List(resolveSubjectAltNames(attrs), f)
             /\ f \in {"wildcard", "reuse", "keyPair"} => Has(s, f) /\ List(s, f) = List(Fixed(attrs), f)
             /\ f = "domains" =>
                  /\ Has(s, f) <=> Has(BackDomains(attrs), f)
                  /\ List(s, f) = List(BackDomains(attrs), f)
             /\ f = "ca" =>
                  /\ Has(s, f) <=> Has(BackAuthority(attrs), f)
                  /\ List(s, f) = List(BackAuthority(attrs), f)
<1> DEFINE attrs == BuildTppPolicy(ps)
           a == ReadSubject(attrs, TRUE)
           b == ReadKeyPair(attrs, TRUE)
           c == ReadManagement(attrs, TRUE)
           d == resolveSubjectAltNames(attrs)
           e == Fixed(attrs)
           g == BackDomains(attrs)
           h == BackAuthority(attrs)
           s == Back(ps).policy
<1>1. s = a ++ b ++ c ++ d ++ e ++ g ++ h
  BY BackParts, Zenon
<1>2. f \notin Names \cup {"ou", "subject"} => ~ Has(a, f)
  <2>1. TRUE \in BOOLEAN
    OBVIOUS
  <2> QED BY <2>1, SubjectValueBack, Zenon
<1>3. f \notin {"keyType", "rsa", "curve", "service"} => ~ Has(b, f)
  <2>1. f \notin KeyTexts(ps) \cup {"service"} => ~ Has(b, f)
    <3>1. TRUE \in BOOLEAN
      OBVIOUS
    <3> QED BY <3>1, KeyPairValueBack, Zenon
  <2>2. KeyTexts(ps) \subseteq {"keyType", "rsa", "curve"}
    BY DEF KeyTexts, Parameter
  <2> QED BY <2>1, <2>2
<1>4. f # "auto" => ~ Has(c, f)
  <2>1. TRUE \in BOOLEAN
    OBVIOUS
  <2> QED BY <2>1, ManagementBack, Zenon
<1>5. /\ Has(d, f) <=> f \in SanTypes
      /\ Has(e, f) <=> f \in {"wildcard", "reuse", "keyPair"}
      /\ Has(g, f) => f = "domains"
      /\ Has(h, f) => f = "ca"
  BY SmallParts, Zenon
<1>6. /\ Has(s, f) <=> Has(a, f) \/ Has(b, f) \/ Has(c, f) \/ Has(d, f) \/ Has(e, f) \/ Has(g, f) \/ Has(h, f)
      /\ List(s, f) = IF Has(a, f) THEN List(a, f) ELSE IF Has(b, f) THEN List(b, f)
                             ELSE IF Has(c, f) THEN List(c, f) ELSE IF Has(d, f) THEN List(d, f)
                             ELSE IF Has(e, f) THEN List(e, f) ELSE IF Has(g, f) THEN List(g, f) ELSE List(h, f)
  <2> HIDE DEF a, b, c, d, e, g, h, s
  <2>1. s = a ++ b ++ c ++ d ++ e ++ g ++ h
    BY <1>1
  <2> QED BY <2>1, Sevenfold
<1>7. /\ ~ Has(a, f) => List(a, f) = <<>>
      /\ ~ Has(b, f) => List(b, f) = <<>>
      /\ ~ Has(c, f) => List(c, f) = <<>>
      /\ ~ Has(g, f) => List(g, f) = <<>>
      /\ ~ Has(h, f) => List(h, f) = <<>>
  BY ListOfNone, Zenon
<1> HIDE DEF a, b, c, d, e, g, h, s
<1>8. f \in Names \cup {"ou", "subject"} => (Has(s, f) <=> Has(a, f)) /\ List(s, f) = List(a, f)
  BY <1>3, <1>4, <1>5, <1>6, <1>7 DEF Names, SanTypes
<1>9. f \in {"keyType", "rsa", "curve", "service"} => (Has(s, f) <=> Has(b, f)) /\ List(s, f) = List(b, f)
  BY <1>2, <1>4, <1>5, <1>6, <1>7 DEF Names, SanTypes
<1>10. f = "auto" => (Has(s, f) <=> Has(c, f)) /\ List(s, f) = List(c, f)
  BY <1>2, <1>3, <1>5, <1>6, <1>7 DEF Names, SanTypes
<1>11. f \in SanTypes => Has(s, f) /\ List(s, f) = List(d, f)
  BY <1>2, <1>3, <1>4, <1>5, <1>6 DEF Names, SanTypes
<1>12. f \in {"wildcard", "reuse", "keyPair"} => Has(s, f) /\ List(s, f) = List(e, f)
  BY <1>2, <1>3, <1>4, <1>5, <1>6 DEF Names, SanTypes
<1>13. f = "domains" => (Has(s, f) <=> Has(g, f)) /\ List(s, f) = List(g, f)
  BY <1>2, <1>3, <1>4, <1>5, <1>6, <1>7 DEF Names, SanTypes
<1>14. f = "ca" => (Has(s, f) <=> Has(h, f)) /\ List(s, f) = List(h, f)
  BY <1>2, <1>3, <1>4, <1>5, <1>6, <1>7 DEF Names, SanTypes
<1> QED
  BY <1>8, <1>9, <1>10, <1>11, <1>12, <1>13, <1>14, Zenon DEF a, b, c, d, e, g, h, s

(* And the defaults.                                                       *)
LEMMA BackDefault ==
  ASSUME NEW ps, NEW f
  PROVE  LET attrs == BuildTppPolicy(ps)
             s == Back(ps).default
         IN  /\ f \in Names \cup {"ou", "subject"} =>
                  /\ Has(s, f) <=> Has(ReadSubject(attrs, FALSE), f)
                  /\ List(s, f) = List(ReadSubject(attrs, FALSE), f)
             /\ f \in {"keyType", "rsa", "curve", "service"} =>
                  /\ Has(s, f) <=> Has(ReadKeyPair(attrs, FALSE), f)
                  /\ List(s, f) = List(ReadKeyPair(attrs, FALSE), f)
             /\ f = "auto" =>
                  /\ Has(s, f) <=> Has(ReadManagement(attrs, FALSE), f)
                  /\ List(s, f) = List(ReadManagement(attrs, FALSE), f)
             /\ f = "pkix" => ~ Has(s, f)
<1> DEFINE attrs == BuildTppPolicy(ps)
           a == ReadSubject(attrs, FALSE)
           b == ReadKeyPair(attrs, FALSE)
           o == Object(b, "keyPair")
           c == ReadManagement(attrs, FALSE)
           s == Back(ps).default
           t == a ++ o
<1>1. s = a ++ o ++ c
  BY BackParts, Zenon
<1>2. f \notin Names \cup {"ou", "subject"} => ~ Has(a, f)
  <2>1. FALSE \in BOOLEAN
    OBVIOUS
  <2> QED BY <2>1, SubjectValueBack, Zenon
<1>3. f \notin {"keyType", "rsa", "curve", "service"} => ~ Has(b, f)
  <2>1. f \notin KeyTexts(ps) \cup {"service"} => ~ Has(b, f)
    <3>1. FALSE \in BOOLEAN
      OBVIOUS
    <3> QED BY <3>1, KeyPairValueBack, Zenon
  <2>2. KeyTexts(ps) \subseteq {"keyType", "rsa", "curve"}
    BY DEF KeyTexts, Parameter
  <2> QED BY <2>1, <2>2
<1>4. f # "auto" => ~ Has(c, f)
  <2>1. FALSE \in BOOLEAN
    OBVIOUS
  <2> QED BY <2>1, ManagementBack, Zenon
<1>5. (f # "keyPair" => (Has(o, f) <=> Has(b, f))) /\ List(o, f) = List(b, f)
  <2> HIDE DEF b
  <2>1. o = Object(b, "keyPair")
    OBVIOUS
  <2> HIDE DEF o
  <2> QED BY <2>1, ObjectHas
<1>6. /\ ~ Has(a, f) => List(a, f) = <<>>
      /\ ~ Has(b, f) => List(b, f) = <<>>
      /\ ~ Has(c, f) => List(c, f) = <<>>
  BY ListOfNone, Zenon
<1>7. (Has(t, f) <=> Has(a, f) \/ Has(o, f)) /\ List(t, f) = IF Has(a, f) THEN List(a, f) ELSE List(o, f)
  BY OverHas, OverList, Zenon
<1>8. (Has(s, f) <=> Has(t, f) \/ Has(c, f)) /\ List(s, f) = IF Has(t, f) THEN List(t, f) ELSE List(c, f)
  <2>1. s = t ++ c
    BY <1>1
  <2> HIDE DEF a, b, c, o, s, t
  <2> QED BY <2>1, OverHas, OverList
<1> HIDE DEF a, b, c, o, s, t
<1>9. f \in Names \cup {"ou", "subject"} => (Has(s, f) <=> Has(a, f)) /\ List(s, f) = List(a, f)
  BY <1>3, <1>4, <1>5, <1>6, <1>7, <1>8 DEF Names
<1>10. f \in {"keyType", "rsa", "curve", "service"} => (Has(s, f) <=> Has(b, f)) /\ List(s, f) = List(b, f)
  BY <1>2, <1>4, <1>5, <1>6, <1>7, <1>8 DEF Names
<1>11. f = "auto" => (Has(s, f) <=> Has(c, f)) /\ List(s, f) = List(c, f)
  BY <1>2, <1>3, <1>5, <1>6, <1>7, <1>8 DEF Names
<1>12. f = "pkix" => ~ Has(s, f)
  BY <1>2, <1>3, <1>4, <1>5, <1>7, <1>8 DEF Names
<1> QED
  BY <1>9, <1>10, <1>11, <1>12, Zenon DEF a, b, c, s

(* Both sections, by what they are read of.                                *)
LEMMA BackTexts ==
  ASSUME NEW ps, NEW l \in BOOLEAN, NEW f \in Names \cup KeyTexts(ps)
  PROVE  LET s == SectionOf(Back(ps), l)
         IN  /\ Has(s, f) <=> Kept(ps, f, l)
             /\ List(s, f) = IF Kept(ps, f, l) THEN <<Value(SectionOf(ps, l), f)>> ELSE <<>>
<1> DEFINE attrs == BuildTppPolicy(ps)
           s == SectionOf(Back(ps), l)
           a == ReadSubject(attrs, l)
           b == ReadKeyPair(attrs, l)
<1>1. CASE f \in Names
  <2>1. (Has(s, f) <=> Has(a, f)) /\ List(s, f) = List(a, f)
    <3>1. CASE l = TRUE
      BY <1>1, <3>1, BackPolicy, Zenon DEF SectionOf
    <3>2. CASE l = FALSE
      BY <1>1, <3>2, BackDefault, Zenon DEF SectionOf
    <3> QED BY <3>1, <3>2
  <2>2. /\ Has(a, f) <=> Kept(ps, f, l)
        /\ List(a, f) = IF Kept(ps, f, l) THEN <<Value(SectionOf(ps, l), f)>> ELSE <<>>
    BY <1>1, SubjectValueBack, Zenon
  <2> HIDE DEF a, s
  <2>3. /\ Has(s, f) <=> Kept(ps, f, l)
        /\ List(s, f) = IF Kept(ps, f, l) THEN <<Value(SectionOf(ps, l), f)>> ELSE <<>>
    BY <2>1, <2>2
  <2> QED BY <2>3, Zenon DEF s
<1>2. CASE f \in KeyTexts(ps)
  <2>0. f \in {"keyType", "rsa", "curve", "service"}
    BY <1>2 DEF KeyTexts, Parameter
  <2>1. (Has(s, f) <=> Has(b, f)) /\ List(s, f) = List(b, f)
    <3>1. CASE l = TRUE
      BY <2>0, <3>1, BackPolicy, Zenon DEF SectionOf
    <3>2. CASE l = FALSE
      BY <2>0, <3>2, BackDefault, Zenon DEF SectionOf
    <3> QED BY <3>1, <3>2
  <2>2. /\ Has(b, f) <=> Kept(ps, f, l)
        /\ List(b, f) = IF Kept(ps, f, l) THEN <<Value(SectionOf(ps, l), f)>> ELSE <<>>
    BY <1>2, KeyPairValueBack, Zenon
  <2> HIDE DEF b, s
  <2>3. /\ Has(s, f) <=> Kept(ps, f, l)
        /\ List(s, f) = IF Kept(ps, f, l) THEN <<Value(SectionOf(ps, l), f)>> ELSE <<>>
    BY <2>1, <2>2
  <2> QED BY <2>3, Zenon DEF s
<1> QED
  BY <1>1, <1>2, Zenon

LEMMA BackUnits ==
  ASSUME NEW ps, NEW l \in BOOLEAN
  PROVE  LET s == SectionOf(Back(ps), l)
         IN  /\ Has(s, "ou") <=> Kept(ps, "ou", l)
             /\ List(s, "ou") = IF Kept(ps, "ou", l) THEN List(SectionOf(ps, l), "ou") ELSE <<>>
             /\ Has(s, "subject") => \E g \in Names \cup {"ou"} : Kept(ps, g, l)
<1> DEFINE attrs == BuildTppPolicy(ps)
           s == SectionOf(Back(ps), l)
           a == ReadSubject(attrs, l)
<1>0. "ou" \in Names \cup {"ou", "subject"} /\ "subject" \in Names \cup {"ou", "subject"}
  OBVIOUS
<1>1. (Has(s, "ou") <=> Has(a, "ou")) /\ List(s, "ou") = List(a, "ou")
  <2>1. CASE l = TRUE
    BY <1>0, <2>1, BackPolicy, Zenon DEF SectionOf
  <2>2. CASE l = FALSE
    BY <1>0, <2>2, BackDefault, Zenon DEF SectionOf
  <2> QED BY <2>1, <2>2
<1>2. Has(s, "subject") <=> Has(a, "subject")
  <2>1. CASE l = TRUE
    BY <1>0, <2>1, BackPolicy, Zenon DEF SectionOf
  <2>2. CASE l = FALSE
    BY <1>0, <2>2, BackDefault, Zenon DEF SectionOf
  <2> QED BY <2>1, <2>2
<1>3. /\ Has(a, "ou") <=> Kept(ps, "ou", l)
      /\ List(a, "ou") = IF Kept(ps, "ou", l) THEN List(SectionOf(ps, l), "ou") ELSE <<>>
      /\ Has(a, "subject") => \E g \in Names \cup {"ou"} : Kept(ps, g, l)
  BY SubjectValueBack, Zenon
<1> HIDE DEF a, s
<1>4. /\ Has(s, "ou") <=> Kept(ps, "ou", l)
      /\ List(s, "ou") = IF Kept(ps, "ou", l) THEN List(SectionOf(ps, l), "ou") ELSE <<>>
      /\ Has(s, "subject") => \E g \in Names \cup {"ou"} : Kept(ps, g, l)
  BY <1>1, <1>2, <1>3, Zenon
<1> QED
  BY <1>4, Zenon DEF s

(* The parameter that the algorithm has no use for is not read.            *)
LEMMA BackUnread ==
  ASSUME NEW ps, NEW l \in BOOLEAN, NEW f \in {"rsa", "curve"}, f # Parameter(ps)
  PROVE  ~ Has(SectionOf(Back(ps), l), f)
<1> DEFINE b == ReadKeyPair(BuildTppPolicy(ps), l)
<1>0. f \in {"keyType", "rsa", "curve", "service"} /\ f \notin KeyTexts(ps) \cup {"service"}
  BY DEF KeyTexts
<1>1. ~ Has(b, f)
  BY <1>0, KeyPairValueBack, Zenon
<1>2. CASE l = TRUE
  BY <1>0, <1>1, <1>2, BackPolicy, Zenon DEF SectionOf
<1>3. CASE l = FALSE
  BY <1>0, <1>1, <1>3, BackDefault, Zenon DEF SectionOf
<1> QED
  BY <1>2, <1>3

LEMMA BackFlags ==
  ASSUME NEW ps, NEW l \in BOOLEAN, NEW f \in {"service", "auto"}
  PROVE  LET s == SectionOf(Back(ps), l)
         IN  /\ Has(s, f) <=> KeptFlag(ps, f, l)
             /\ List(s, f) = IF KeptFlag(ps, f, l) THEN Bool(Value(SectionOf(ps, l), f) = "true") ELSE <<>>
<1> DEFINE attrs == BuildTppPolicy(ps)
           s == SectionOf(Back(ps), l)
           b == ReadKeyPair(attrs, l)
           c == ReadManagement(attrs, l)
<1>1. CASE f = "service"
  <2>1. (Has(s, "service") <=> Has(b, "service")) /\ List(s, "service") = List(b, "service")
    <3>0. "service" \in {"keyType", "rsa", "curve", "service"}
      OBVIOUS
    <3>1. CASE l = TRUE
      BY <3>0, <3>1, BackPolicy, Zenon DEF SectionOf
    <3>2. CASE l = FALSE
      BY <3>0, <3>2, BackDefault, Zenon DEF SectionOf
    <3> QED BY <3>1, <3>2
  <2>2. /\ Has(b, "service") <=> KeptFlag(ps, "service", l)
        /\ List(b, "service") = IF KeptFlag(ps, "service", l)
                                THEN Bool(Value(SectionOf(ps, l), "service") = "true") ELSE <<>>
    BY KeyPairValueBack, Zenon
  <2> HIDE DEF b, s
  <2>3. /\ Has(s, "service") <=> KeptFlag(ps, "service", l)
        /\ List(s, "service") = IF KeptFlag(ps, "service", l)
                                THEN Bool(Value(SectionOf(ps, l), "service") = "true") ELSE <<>>
    BY <2>1, <2>2
  <2> QED BY <1>1, <2>3, Zenon DEF s
<1>2. CASE f = "auto"
  <2>1. (Has(s, "auto") <=> Has(c, "auto")) /\ List(s, "auto") = List(c, "auto")
    <3>1. CASE l = TRUE
      BY <3>1, BackPolicy, Zenon DEF SectionOf
    <3>2. CASE l = FALSE
      BY <3>2, BackDefault, Zenon DEF SectionOf
    <3> QED BY <3>1, <3>2
  <2>2. /\ Has(c, "auto") <=> KeptFlag(ps, "auto", l)
        /\ List(c, "auto") = IF KeptFlag(ps, "auto", l)
                             THEN Bool(Value(SectionOf(ps, l), "auto") = "true") ELSE <<>>
    BY ManagementBack, Zenon
  <2> HIDE DEF c, s
  <2>3. /\ Has(s, "auto") <=> KeptFlag(ps, "auto", l)
        /\ List(s, "auto") = IF KeptFlag(ps, "auto", l)
                             THEN Bool(Value(SectionOf(ps, l), "auto") = "true") ELSE <<>>
    BY <2>1, <2>2
  <2> QED BY <1>2, <2>3, Zenon DEF s
<1> QED
  BY <1>1, <1>2, Zenon

(* What is printed is filled where something stood.                        *)
LEMMA BackFilled ==
  ASSUME NEW ps, NEW l \in BOOLEAN, NEW f \in Names \cup KeyTexts(ps)
  PROVE  LET s == SectionOf(Back(ps), l)
         IN  /\ Filled(s, f) <=> Kept(ps, f, l)
             /\ Kept(ps, f, l) => Value(s, f) = Value(SectionOf(ps, l), f)
<1> DEFINE s == SectionOf(Back(ps), l)
           x == Value(SectionOf(ps, l), f)
<1>1. List(s, f) = IF Kept(ps, f, l) THEN <<x>> ELSE <<>>
  BY BackTexts, Zenon
<1>2. Kept(ps, f, l) => x # ""
  <2>1. CASE l = TRUE
    BY <2>1, Zenon DEF Kept, Locked, Filled, SectionOf
  <2>2. CASE l = FALSE
    BY <2>2, Zenon DEF Kept, IsSuggested, Filled, SectionOf
  <2> QED BY <2>1, <2>2
<1> HIDE DEF s, x
<1>3. CASE Kept(ps, f, l)
  <2>1. <<x>> # <<>> /\ <<x>>[1] = x
    OBVIOUS
  <2>2. List(s, f) = <<x>>
    BY <1>1, <1>3, Zenon
  <2>3. Value(s, f) = x
    BY <2>1, <2>2, Zenon DEF Value
  <2>4. Filled(s, f)
    BY <1>2, <1>3, <2>1, <2>2, <2>3, Zenon DEF Filled
  <2> QED BY <1>3, <2>3, <2>4, Zenon DEF s, x
<1>4. CASE ~ Kept(ps, f, l)
  <2>1. ~ Filled(s, f)
    BY <1>1, <1>4, Zenon DEF Filled
  <2> QED BY <1>4, <2>1, Zenon DEF s, x
<1> QED
  BY <1>3, <1>4, Zenon

LEMMA NotBoth == \A ps, f : ~ (Kept(ps, f, TRUE) /\ Kept(ps, f, FALSE))
  BY Zenon DEF Kept, Locked, IsSuggested

LEMMA NotBothFlags == \A ps, f : ~ (KeptFlag(ps, f, TRUE) /\ KeptFlag(ps, f, FALSE))
  BY Zenon DEF KeptFlag, LockedFlag, SuggestedFlag

(* A text that stands in at most one of the sections passes.               *)
LEMMA OneSection ==
  ASSUME NEW ps, NEW f, Has(ps.policy, f) => List(ps.policy, f) # <<>>,
         ~ (Filled(ps.policy, f) /\ Filled(ps.default, f))
  PROVE  SameDefault(ps, f) = "ok"
  BY Zenon DEF SameDefault, Check

LEMMA BackSame ==
  ASSUME NEW ps, NEW f \in Names \cup {"keyType", "rsa", "curve", "service"}
  PROVE  SameDefault(Back(ps), f) = "ok"
<1>0. TRUE \in BOOLEAN /\ FALSE \in BOOLEAN
  OBVIOUS
<1>1. SectionOf(Back(ps), TRUE) = Back(ps).policy /\ SectionOf(Back(ps), FALSE) = Back(ps).default
  BY Zenon DEF SectionOf
<1>2. CASE f \in Names \cup KeyTexts(ps)
  <2>1. /\ Has(Back(ps).policy, f) <=> Kept(ps, f, TRUE)
        /\ List(Back(ps).policy, f) =
             IF Kept(ps, f, TRUE) THEN <<Value(SectionOf(ps, TRUE), f)>> ELSE <<>>
    BY <1>0, <1>1, <1>2, BackTexts, Zenon
  <2>2. Has(Back(ps).policy, f) => List(Back(ps).policy, f) # <<>>
    BY <2>1
  <2>3. ~ (Filled(Back(ps).policy, f) /\ Filled(Back(ps).default, f))
    BY <1>0, <1>1, <1>2, BackFilled, NotBoth, Zenon
  <2> QED BY <2>2, <2>3, OneSection, Zenon
<1>3. CASE f \in {"rsa", "curve"} /\ f # Parameter(ps)
  <2>1. ~ Has(Back(ps).policy, f)
    BY <1>0, <1>1, <1>3, BackUnread, Zenon
  <2>2. ~ Filled(Back(ps).policy, f)
    BY <2>1, ListOfNone, Zenon DEF Filled
  <2> QED BY <2>1, <2>2, OneSection, Zenon
<1>4. CASE f = "service"
  <2>1. /\ Has(Back(ps).policy, f) <=> KeptFlag(ps, f, TRUE)
        /\ List(Back(ps).policy, f) =
             IF KeptFlag(ps, f, TRUE) THEN Bool(Value(SectionOf(ps, TRUE), f) = "true") ELSE <<>>
        /\ Has(Back(ps).default, f) <=> KeptFlag(ps, f, FALSE)
    BY <1>0, <1>1, <1>4, BackFlags, Zenon
  <2>2. \A b \in BOOLEAN : Bool(b) # <<>>
    BY DEF Bool
  <2>3. Has(Back(ps).policy, f) => List(Back(ps).policy, f) # <<>>
    BY <2>1, <2>2
  <2>4. ~ (Has(Back(ps).policy, f) /\ Has(Back(ps).default, f))
    BY <2>1, NotBothFlags, Zenon
  <2>5. ~ (Filled(Back(ps).policy, f) /\ Filled(Back(ps).default, f))
    BY <2>4, ListOfNone, Zenon DEF Filled
  <2> QED BY <2>3, <2>5, OneSection, Zenon
<1>5. f \in Names \cup KeyTexts(ps) \/ (f \in {"rsa", "curve"} /\ f # Parameter(ps)) \/ f = "service"
  BY DEF KeyTexts, Parameter
<1> QED
  BY <1>2, <1>3, <1>4, <1>5

(* What setpolicy checked of a printed text.                               *)
LEMMA PolicyTextChecked ==
  ASSUME NEW ps, ValidateTppPolicySpecification(ps) = "ok"
  PROVE  /\ Filled(ps.policy, "country") => Value(ps.policy, "country") \in TwoLetters
         /\ \A f \in {"keyType", "rsa", "curve"} : Len(List(ps.policy, f)) <= 1
         /\ In(List(ps.policy, "keyType"), TppKeyType) /\ In(List(ps.policy, "rsa"), TppRsaKeySize)
         /\ In(List(ps.policy, "curve"), TppEllipticCurves)
         /\ Filled(ps.default, "keyType") => Value(ps.default, "keyType") \in TppKeyType
         /\ Filled(ps.default, "rsa") => Value(ps.default, "rsa") \in TppRsaKeySize
         /\ Filled(ps.default, "curve") => Value(ps.default, "curve") \in TppEllipticCurves
<1>1. validatePolicySubject(ps) = "ok" /\ validateKeyPair(ps) = "ok" /\ validateDefaultKeyPair(ps) = "ok"
  BY TppChecks, Zenon
<1>2. \A b : Check(b) = "ok" => b
  BY DEF Check
<1>3. List(ps.policy, "country") # <<>> => Value(ps.policy, "country") \in TwoLetters
  BY <1>1, <1>2, Zenon DEF validatePolicySubject
<1>4. Filled(ps.policy, "country") => Value(ps.policy, "country") \in TwoLetters
  BY <1>3, Zenon DEF Filled
<1>5. (Len(List(ps.policy, "keyType")) <= 1 /\ In(List(ps.policy, "keyType"), TppKeyType))
      /\ (Len(List(ps.policy, "rsa")) <= 1 /\ In(List(ps.policy, "rsa"), TppRsaKeySize))
      /\ (Len(List(ps.policy, "curve")) <= 1 /\ In(List(ps.policy, "curve"), TppEllipticCurves))
  BY <1>1, <1>2, Zenon DEF validateKeyPair
<1>6. /\ Filled(ps.default, "keyType") => Value(ps.default, "keyType") \in TppKeyType
      /\ Filled(ps.default, "rsa") => Value(ps.default, "rsa") \in TppRsaKeySize
      /\ Filled(ps.default, "curve") => Value(ps.default, "curve") \in TppEllipticCurves
  BY <1>1, <1>2, Zenon DEF validateDefaultKeyPair
<1> QED
  BY <1>4, <1>5, <1>6, Zenon

LEMMA CheckTrue == \A b : b => Check(b) = "ok"
  BY Zenon DEF Check

LEMMA SetOfOne == \A x : ToSet(<<x>>) = {x}
  BY DEF ToSet

LEMMA SetOfNone == ToSet(<<>>) = {}
  BY DEF ToSet

LEMMA FirstIsMember == ASSUME NEW s \in Seq(STRING), s # <<>> PROVE s[1] \in ToSet(s)
  BY DEF ToSet

LEMMA WrittenList ==
  ASSUME NEW s, NEW lists, Written(s, lists), NEW f
  PROVE  List(s, f) \in Seq(STRING)
<1>1. CASE f \in DOMAIN s
  BY <1>1, Zenon DEF Written, List, Has
<1>2. CASE f \notin DOMAIN s
  <2>1. List(s, f) = <<>>
    BY <1>2, Zenon DEF List, Has
  <2>2. <<>> \in Seq(STRING)
    OBVIOUS
  <2> QED BY <2>1, <2>2
<1> QED
  BY <1>1, <1>2

(* A list of the printed policy is of what the specification allowed.      *)
LEMMA BackWithin ==
  ASSUME NEW ps, IsSpecification(ps), NEW f \in {"keyType", "rsa", "curve"}, NEW supported,
         In(List(ps.policy, f), supported)
  PROVE  Len(List(Back(ps).policy, f)) <= 1 /\ In(List(Back(ps).policy, f), supported)
<1>0. SectionOf(Back(ps), TRUE) = Back(ps).policy /\ SectionOf(ps, TRUE) = ps.policy /\ TRUE \in BOOLEAN
  BY Zenon DEF SectionOf
<1>1. CASE f \in KeyTexts(ps) /\ Kept(ps, f, TRUE)
  <2> DEFINE x == Value(ps.policy, f)
  <2>1. List(Back(ps).policy, f) = <<x>>
    BY <1>0, <1>1, BackTexts, Zenon
  <2>2. List(ps.policy, f) # <<>>
    BY <1>1, Zenon DEF Kept, Locked, Filled
  <2>3. List(ps.policy, f) \in Seq(STRING)
    BY WrittenList, Zenon DEF IsSpecification
  <2>4. x \in ToSet(List(ps.policy, f))
    BY <2>2, <2>3, FirstIsMember, Zenon DEF Value
  <2>5. x \in supported
    BY <2>4 DEF In
  <2> HIDE DEF x
  <2>6. Len(<<x>>) = 1 /\ ToSet(<<x>>) \subseteq supported
    BY <2>5, SetOfOne
  <2> QED BY <2>1, <2>6 DEF In
<1>2. CASE ~ (f \in KeyTexts(ps) /\ Kept(ps, f, TRUE))
  <2>1. List(Back(ps).policy, f) = <<>>
    <3>1. CASE f \in KeyTexts(ps)
      BY <1>0, <1>2, <3>1, BackTexts, Zenon
    <3>2. CASE f \notin KeyTexts(ps)
      <4>1. f \in {"rsa", "curve"} /\ f # Parameter(ps)
        BY <3>2 DEF KeyTexts
      <4> QED BY <1>0, <4>1, BackUnread, ListOfNone, Zenon
    <3> QED BY <3>1, <3>2
  <2>2. Len(<<>>) = 0 /\ ToSet(<<>>) = {}
    BY SetOfNone
  <2> QED BY <2>1, <2>2 DEF In
<1> QED
  BY <1>1, <1>2

LEMMA BackPolicySubject ==
  ASSUME NEW ps, IsSpecification(ps), ValidateTppPolicySpecification(ps) = "ok"
  PROVE  validatePolicySubject(Back(ps)) = "ok"
<1>0. SectionOf(Back(ps), TRUE) = Back(ps).policy /\ SectionOf(ps, TRUE) = ps.policy /\ TRUE \in BOOLEAN
  BY Zenon DEF SectionOf
<1>1. ASSUME NEW f \in Names
      PROVE  Len(List(Back(ps).policy, f)) <= 1
  <2>1. List(Back(ps).policy, f) = IF Kept(ps, f, TRUE) THEN <<Value(SectionOf(ps, TRUE), f)>> ELSE <<>>
    BY <1>0, BackTexts, Zenon
  <2> QED BY <2>1
<1>2. List(Back(ps).policy, "country") # <<>> => Value(Back(ps).policy, "country") \in TwoLetters
  <2>0. "country" \in Names \cup KeyTexts(ps)
    BY DEF Names
  <2>1. List(Back(ps).policy, "country") # <<>> => Kept(ps, "country", TRUE)
    BY <1>0, <2>0, BackTexts, Zenon
  <2>2. Kept(ps, "country", TRUE) => Value(Back(ps).policy, "country") = Value(ps.policy, "country")
    BY <1>0, <2>0, BackFilled, Zenon
  <2>3. Kept(ps, "country", TRUE) => Filled(ps.policy, "country")
    BY Zenon DEF Kept, Locked
  <2>4. Filled(ps.policy, "country") => Value(ps.policy, "country") \in TwoLetters
    BY PolicyTextChecked, Zenon
  <2> QED BY <2>1, <2>2, <2>3, <2>4
<1> QED
  BY <1>1, <1>2, CheckTrue, Zenon DEF validatePolicySubject

LEMMA BackKeyPair ==
  ASSUME NEW ps, IsSpecification(ps), ValidateTppPolicySpecification(ps) = "ok"
  PROVE  validateKeyPair(Back(ps)) = "ok"
<1>1. Len(List(Back(ps).policy, "keyType")) <= 1 /\ In(List(Back(ps).policy, "keyType"), TppKeyType)
  BY PolicyTextChecked, BackWithin
<1>2. Len(List(Back(ps).policy, "rsa")) <= 1 /\ In(List(Back(ps).policy, "rsa"), TppRsaKeySize)
  BY PolicyTextChecked, BackWithin
<1>3. Len(List(Back(ps).policy, "curve")) <= 1 /\ In(List(Back(ps).policy, "curve"), TppEllipticCurves)
  BY PolicyTextChecked, BackWithin
<1> QED
  BY <1>1, <1>2, <1>3, CheckTrue, Zenon DEF validateKeyPair

LEMMA AllOk ==
  ASSUME NEW n \in Nat, NEW v, DOMAIN v = 1 .. n, \A i \in 1 .. n : v[i] = "ok"
  PROVE  FirstOf(v) = "ok"
  BY AllPass

LEMMA BackDefaultSubject ==
  ASSUME NEW ps, IsSpecification(ps), ValidateTppPolicySpecification(ps) = "ok"
  PROVE  validateDefaultSubject(Back(ps)) = "ok"
<1> DEFINE b == Back(ps)
           ou == Check((List(b.policy, "ou") # <<>> /\ List(b.default, "ou") # <<>>)
                         => In(List(b.default, "ou"), ToSet(List(b.policy, "ou"))))
           two == Check(Filled(b.default, "country") => Value(b.default, "country") \in TwoLetters)
           v == <<SameDefault(b, "org"), ou, SameDefault(b, "locality"), SameDefault(b, "state"),
                  SameDefault(b, "country"), two>>
<1>0. /\ SectionOf(b, TRUE) = b.policy /\ SectionOf(b, FALSE) = b.default /\ SectionOf(ps, FALSE) = ps.default
      /\ TRUE \in BOOLEAN /\ FALSE \in BOOLEAN
  BY Zenon DEF SectionOf
<1>1. ou = "ok"
  <2>1. (List(b.policy, "ou") # <<>> => Kept(ps, "ou", TRUE)) /\ (List(b.default, "ou") # <<>> => Kept(ps, "ou", FALSE))
    BY <1>0, BackUnits, Zenon
  <2>2. ~ (List(b.policy, "ou") # <<>> /\ List(b.default, "ou") # <<>>)
    BY <2>1, NotBoth, Zenon
  <2> QED BY <2>2, CheckTrue, Zenon
<1>2. ASSUME Has(b.policy, "subject"), Has(b.default, "subject")
      PROVE  two = "ok"
  <2>1. \A g \in Names \cup {"ou"} : \A l \in BOOLEAN : Kept(ps, g, l) => "subject" \in DOMAIN SectionOf(ps, l)
    <3>1. ASSUME NEW g \in Names \cup {"ou"}, Kept(ps, g, TRUE)
          PROVE  "subject" \in DOMAIN ps.policy
      <4>1. g \in DOMAIN ps.policy
        BY <3>1, FilledIsGiven, Zenon DEF Kept, Locked
      <4> QED BY <4>1, Zenon DEF IsSpecification, InObjects
    <3>2. ASSUME NEW g \in Names \cup {"ou"}, Kept(ps, g, FALSE)
          PROVE  "subject" \in DOMAIN ps.default
      <4>1. g \in DOMAIN ps.default
        BY <3>2, FilledIsGiven, Zenon DEF Kept, IsSuggested
      <4> QED BY <4>1, Zenon DEF IsSpecification, InObjects
    <3>3. \A l \in BOOLEAN : l = TRUE \/ l = FALSE
      OBVIOUS
    <3> QED BY <3>1, <3>2, <3>3, Zenon DEF SectionOf
  <2>2. (\E g \in Names \cup {"ou"} : Kept(ps, g, TRUE)) /\ (\E g \in Names \cup {"ou"} : Kept(ps, g, FALSE))
    BY <1>0, <1>2, BackUnits, Zenon
  <2>3. "subject" \in DOMAIN ps.policy /\ "subject" \in DOMAIN ps.default
    BY <1>0, <2>1, <2>2, Zenon DEF SectionOf
  <2>4. Filled(ps.default, "country") => Value(ps.default, "country") \in TwoLetters
    <3> DEFINE pou == Check((List(ps.policy, "ou") # <<>> /\ List(ps.default, "ou") # <<>>)
                              => In(List(ps.default, "ou"), ToSet(List(ps.policy, "ou"))))
               ptwo == Check(Filled(ps.default, "country") => Value(ps.default, "country") \in TwoLetters)
               w == <<SameDefault(ps, "org"), pou, SameDefault(ps, "locality"), SameDefault(ps, "state"),
                      SameDefault(ps, "country"), ptwo>>
    <3>1. validateDefaultSubject(ps) = "ok"
      BY TppChecks, Zenon
    <3>2. FirstOf(w) = "ok"
      BY <2>3, <3>1, Zenon DEF validateDefaultSubject, Has
    <3> HIDE DEF pou, ptwo
    <3>3. DOMAIN w = 1 .. 6 /\ w[6] = ptwo
      OBVIOUS
    <3> HIDE DEF w
    <3>4. \A i \in 1 .. 6 : w[i] = "ok"
      BY <3>2, <3>3, AllPass
    <3>5. ptwo = "ok"
      BY <3>3, <3>4
    <3> QED BY <3>5, Zenon DEF ptwo, Check
  <2>5. "country" \in Names \cup KeyTexts(ps)
    BY DEF Names
  <2>6. (Filled(b.default, "country") <=> Kept(ps, "country", FALSE))
        /\ (Kept(ps, "country", FALSE) => Value(b.default, "country") = Value(ps.default, "country"))
    BY <1>0, <2>5, BackFilled, Zenon
  <2>7. Kept(ps, "country", FALSE) => Filled(ps.default, "country")
    BY Zenon DEF Kept, IsSuggested
  <2>8. Filled(b.default, "country") => Value(b.default, "country") \in TwoLetters
    BY <2>4, <2>6, <2>7
  <2> QED BY <2>8, CheckTrue, Zenon
<1>3. SameDefault(b, "org") = "ok" /\ SameDefault(b, "locality") = "ok" /\ SameDefault(b, "state") = "ok"
      /\ SameDefault(b, "country") = "ok"
  BY BackSame DEF Names
<1>4. CASE ~ (Has(b.default, "subject") /\ Has(b.policy, "subject"))
  BY <1>4, Zenon DEF validateDefaultSubject
<1>5. CASE Has(b.default, "subject") /\ Has(b.policy, "subject")
  <2>1. validateDefaultSubject(b) = FirstOf(v)
    BY <1>5, Zenon DEF validateDefaultSubject
  <2>2. two = "ok"
    BY <1>2, <1>5
  <2> HIDE DEF ou, two, b
  <2>3. DOMAIN v = 1 .. 6 /\ v[1] = SameDefault(b, "org") /\ v[2] = ou /\ v[3] = SameDefault(b, "locality")
        /\ v[4] = SameDefault(b, "state") /\ v[5] = SameDefault(b, "country") /\ v[6] = two
    OBVIOUS
  <2> HIDE DEF v
  <2>4. \A i \in 1 .. 6 : v[i] = "ok"
    BY <1>1, <1>3, <2>2, <2>3
  <2>5. FirstOf(v) = "ok"
    BY <2>3, <2>4, AllOk
  <2> QED BY <2>1, <2>5 DEF b
<1> QED
  BY <1>4, <1>5

LEMMA BackDefaultKeys ==
  ASSUME NEW ps
  PROVE  validateDefaultKeyPairWithPolicySubject(Back(ps)) = "ok"
<1> DEFINE b == Back(ps)
           v == <<SameDefault(b, "keyType"), SameDefault(b, "rsa"), SameDefault(b, "curve"),
                  SameDefault(b, "service")>>
<1>1. SameDefault(b, "keyType") = "ok" /\ SameDefault(b, "rsa") = "ok" /\ SameDefault(b, "curve") = "ok"
      /\ SameDefault(b, "service") = "ok"
  BY BackSame
<1>2. CASE ~ (Has(b.default, "keyPair") /\ Has(b.policy, "keyPair"))
  BY <1>2, Zenon DEF validateDefaultKeyPairWithPolicySubject
<1>3. CASE Has(b.default, "keyPair") /\ Has(b.policy, "keyPair")
  <2>1. validateDefaultKeyPairWithPolicySubject(b) = FirstOf(v)
    BY <1>3, Zenon DEF validateDefaultKeyPairWithPolicySubject
  <2> HIDE DEF b
  <2>3. DOMAIN v = 1 .. 4 /\ v[1] = SameDefault(b, "keyType") /\ v[2] = SameDefault(b, "rsa")
        /\ v[3] = SameDefault(b, "curve") /\ v[4] = SameDefault(b, "service")
    OBVIOUS
  <2> HIDE DEF v
  <2>4. \A i \in 1 .. 4 : v[i] = "ok"
    BY <1>1, <2>3
  <2>5. FirstOf(v) = "ok"
    BY <2>3, <2>4, AllOk
  <2> QED BY <2>1, <2>5 DEF b
<1> QED
  BY <1>2, <1>3

LEMMA BackDefaultKeyPair ==
  ASSUME NEW ps, ValidateTppPolicySpecification(ps) = "ok"
  PROVE  validateDefaultKeyPair(Back(ps)) = "ok"
<1>0. SectionOf(Back(ps), FALSE) = Back(ps).default /\ SectionOf(ps, FALSE) = ps.default /\ FALSE \in BOOLEAN
  BY Zenon DEF SectionOf
<1>1. ASSUME NEW f \in {"keyType", "rsa", "curve"}, Filled(Back(ps).default, f)
      PROVE  Filled(ps.default, f) /\ Value(Back(ps).default, f) = Value(ps.default, f)
  <2>1. f \in KeyTexts(ps)
    <3>1. Has(Back(ps).default, f)
      BY <1>1, ListOfNone, Zenon DEF Filled
    <3>2. f \in {"rsa", "curve"} => f = Parameter(ps)
      BY <1>0, <3>1, BackUnread, Zenon
    <3> QED BY <3>2 DEF KeyTexts
  <2>2. (Filled(Back(ps).default, f) <=> Kept(ps, f, FALSE))
        /\ (Kept(ps, f, FALSE) => Value(Back(ps).default, f) = Value(ps.default, f))
    BY <1>0, <2>1, BackFilled, Zenon
  <2>3. Kept(ps, f, FALSE) => Filled(ps.default, f)
    BY Zenon DEF Kept, IsSuggested
  <2> QED BY <1>1, <2>2, <2>3
<1>2. /\ Filled(ps.default, "keyType") => Value(ps.default, "keyType") \in TppKeyType
      /\ Filled(ps.default, "rsa") => Value(ps.default, "rsa") \in TppRsaKeySize
      /\ Filled(ps.default, "curve") => Value(ps.default, "curve") \in TppEllipticCurves
  BY PolicyTextChecked, Zenon
<1>3. Filled(Back(ps).default, "keyType") => Value(Back(ps).default, "keyType") \in TppKeyType
  BY <1>1, <1>2
<1>4. Filled(Back(ps).default, "rsa") => Value(Back(ps).default, "rsa") \in TppRsaKeySize
  BY <1>1, <1>2
<1>5. Filled(Back(ps).default, "curve") => Value(Back(ps).default, "curve") \in TppEllipticCurves
  BY <1>1, <1>2
<1> QED
  BY <1>3, <1>4, <1>5, CheckTrue, Zenon DEF validateDefaultKeyPair

(* What getpolicy printed setpolicy accepts.                               *)
LEMMA BackAccepted ==
  ASSUME NEW ps, IsSpecification(ps), ValidateTppPolicySpecification(ps) = "ok"
  PROVE  ValidateTppPolicySpecification(Back(ps)) = "ok"
<1> DEFINE b == Back(ps)
           last == Check((Has(b.default, "auto") /\ Has(b.policy, "auto")) => b.default.auto = b.policy.auto)
           v == <<validatePolicySubject(b), validateKeyPair(b), validateDefaultSubject(b),
                  validateDefaultKeyPairWithPolicySubject(b), validateDefaultKeyPair(b), last>>
<1>1. last = "ok"
  <2>1. /\ SectionOf(b, TRUE) = b.policy /\ SectionOf(b, FALSE) = b.default /\ TRUE \in BOOLEAN /\ FALSE \in BOOLEAN
        /\ "auto" \in {"service", "auto"}
    BY Zenon DEF SectionOf
  <2>2. (Has(b.policy, "auto") => KeptFlag(ps, "auto", TRUE)) /\ (Has(b.default, "auto") => KeptFlag(ps, "auto", FALSE))
    BY <2>1, BackFlags, Zenon
  <2>3. ~ (Has(b.default, "auto") /\ Has(b.policy, "auto"))
    BY <2>2, NotBothFlags, Zenon
  <2> QED BY <2>3, CheckTrue, Zenon
<1>2. ValidateTppPolicySpecification(b) = FirstOf(v)
  BY Zenon DEF ValidateTppPolicySpecification
<1>3. validatePolicySubject(b) = "ok" /\ validateKeyPair(b) = "ok" /\ validateDefaultSubject(b) = "ok"
      /\ validateDefaultKeyPairWithPolicySubject(b) = "ok" /\ validateDefaultKeyPair(b) = "ok"
  BY BackPolicySubject, BackKeyPair, BackDefaultSubject, BackDefaultKeys, BackDefaultKeyPair, Zenon
<1> HIDE DEF last, b
<1>4. DOMAIN v = 1 .. 6 /\ v[1] = validatePolicySubject(b) /\ v[2] = validateKeyPair(b)
      /\ v[3] = validateDefaultSubject(b) /\ v[4] = validateDefaultKeyPairWithPolicySubject(b)
      /\ v[5] = validateDefaultKeyPair(b) /\ v[6] = last
  OBVIOUS
<1> HIDE DEF v
<1>5. \A i \in 1 .. 6 : v[i] = "ok"
  BY <1>1, <1>3, <1>4
<1>6. FirstOf(v) = "ok"
  BY <1>4, <1>5, AllOk
<1> QED
  BY <1>2, <1>6 DEF b

(* The attributes that are written again.                                  *)
LEMMA SoleAgain ==
  ASSUME NEW ps, NEW f \in Names \cup KeyTexts(ps), NEW at
  PROVE  Sole(Back(ps), f, at) = Sole(ps, f, at)
<1>0. /\ SectionOf(Back(ps), TRUE) = Back(ps).policy /\ SectionOf(Back(ps), FALSE) = Back(ps).default
      /\ SectionOf(ps, TRUE) = ps.policy /\ SectionOf(ps, FALSE) = ps.default /\ TRUE \in BOOLEAN /\ FALSE \in BOOLEAN
  BY Zenon DEF SectionOf
<1>1. /\ Filled(Back(ps).policy, f) <=> Kept(ps, f, TRUE)
      /\ Kept(ps, f, TRUE) => Value(Back(ps).policy, f) = Value(ps.policy, f)
  BY <1>0, BackFilled, Zenon
<1>2. /\ Filled(Back(ps).default, f) <=> Kept(ps, f, FALSE)
      /\ Kept(ps, f, FALSE) => Value(Back(ps).default, f) = Value(ps.default, f)
  BY <1>0, BackFilled, Zenon
<1>3. /\ Kept(ps, f, TRUE) <=> Filled(ps.policy, f)
      /\ Kept(ps, f, FALSE) <=> ~ Filled(ps.policy, f) /\ Filled(ps.default, f)
  BY Zenon DEF Kept, Locked, IsSuggested
<1> QED
  BY <1>1, <1>2, <1>3 DEF Sole

LEMMA UnitsAgain ==
  ASSUME NEW ps
  PROVE  Units(Back(ps)) = Units(ps)
<1>0. /\ SectionOf(Back(ps), TRUE) = Back(ps).policy /\ SectionOf(Back(ps), FALSE) = Back(ps).default
      /\ SectionOf(ps, TRUE) = ps.policy /\ SectionOf(ps, FALSE) = ps.default /\ TRUE \in BOOLEAN /\ FALSE \in BOOLEAN
  BY Zenon DEF SectionOf
<1>1. List(Back(ps).policy, "ou") = IF Kept(ps, "ou", TRUE) THEN List(ps.policy, "ou") ELSE <<>>
  BY <1>0, BackUnits, Zenon
<1>2. List(Back(ps).default, "ou") = IF Kept(ps, "ou", FALSE) THEN List(ps.default, "ou") ELSE <<>>
  BY <1>0, BackUnits, Zenon
<1>3. /\ Kept(ps, "ou", TRUE) <=> Filled(ps.policy, "ou")
      /\ Kept(ps, "ou", FALSE) <=> ~ Filled(ps.policy, "ou") /\ Filled(ps.default, "ou")
  BY Zenon DEF Kept, Locked, IsSuggested
<1>4. ASSUME NEW s, NEW t, List(s, "ou") = List(t, "ou"), Filled(t, "ou")
      PROVE  Filled(s, "ou") /\ s["ou"] = t["ou"]
  BY <1>4, Zenon DEF Filled, Value, List
<1>5. ASSUME NEW s, List(s, "ou") = <<>>
      PROVE  ~ Filled(s, "ou")
  BY <1>5, Zenon DEF Filled
<1>6. CASE Filled(ps.policy, "ou")
  <2>1. Filled(Back(ps).policy, "ou") /\ Back(ps).policy["ou"] = ps.policy["ou"]
    BY <1>1, <1>3, <1>4, <1>6, Zenon
  <2> QED BY <1>6, <2>1, Zenon DEF Units, Either
<1>7. CASE ~ Filled(ps.policy, "ou") /\ Filled(ps.default, "ou")
  <2>1. ~ Filled(Back(ps).policy, "ou")
    BY <1>1, <1>3, <1>5, <1>7, Zenon
  <2>2. Filled(Back(ps).default, "ou") /\ Back(ps).default["ou"] = ps.default["ou"]
    BY <1>2, <1>3, <1>4, <1>7, Zenon
  <2> QED BY <1>7, <2>1, <2>2, Zenon DEF Units, Either
<1>8. CASE ~ Filled(ps.policy, "ou") /\ ~ Filled(ps.default, "ou")
  <2>1. ~ Filled(Back(ps).policy, "ou") /\ ~ Filled(Back(ps).default, "ou")
    BY <1>1, <1>2, <1>3, <1>5, <1>8, Zenon
  <2> QED BY <1>8, <2>1, Zenon DEF Units, Either
<1> QED
  BY <1>6, <1>7, <1>8, Zenon

LEMMA BoolValue ==
  ASSUME NEW s, NEW f, NEW b \in BOOLEAN, List(s, f) = Bool(b)
  PROVE  Value(s, f) = IF b THEN "true" ELSE "false"
  BY DEF Value, Bool

LEMMA TrueIsNotFalse == "true" # "false" /\ "false" # "true" /\ "0" # "1" /\ "1" # "0"
  OBVIOUS

LEMMA FlagAgain ==
  ASSUME NEW ps, NEW f \in {"service", "auto"}, NEW at, NEW yes, NEW no
  PROVE  FlagAttribute(Back(ps), f, at, yes, no) = FlagAttribute(ps, f, at, yes, no)
<1>0. /\ SectionOf(Back(ps), TRUE) = Back(ps).policy /\ SectionOf(Back(ps), FALSE) = Back(ps).default
      /\ SectionOf(ps, TRUE) = ps.policy /\ SectionOf(ps, FALSE) = ps.default /\ TRUE \in BOOLEAN /\ FALSE \in BOOLEAN
  BY Zenon DEF SectionOf
<1>1. /\ Has(Back(ps).policy, f) <=> KeptFlag(ps, f, TRUE)
      /\ KeptFlag(ps, f, TRUE) => List(Back(ps).policy, f) = Bool(Value(ps.policy, f) = "true")
  BY <1>0, BackFlags, Zenon
<1>2. /\ Has(Back(ps).default, f) <=> KeptFlag(ps, f, FALSE)
      /\ KeptFlag(ps, f, FALSE) => List(Back(ps).default, f) = Bool(Value(ps.default, f) = "true")
  BY <1>0, BackFlags, Zenon
<1>3. /\ KeptFlag(ps, f, TRUE) <=> Has(ps.policy, f)
      /\ KeptFlag(ps, f, FALSE) <=> ~ Has(ps.policy, f) /\ Has(ps.default, f)
  BY Zenon DEF KeptFlag, LockedFlag, SuggestedFlag
<1>4. KeptFlag(ps, f, TRUE) => (Value(Back(ps).policy, f) = "true" <=> Value(ps.policy, f) = "true")
  BY <1>1, BoolValue, TrueIsNotFalse
<1>5. KeptFlag(ps, f, FALSE) => (Value(Back(ps).default, f) = "true" <=> Value(ps.default, f) = "true")
  BY <1>2, BoolValue, TrueIsNotFalse
<1>6. FlagSole(Back(ps), f, at, yes, no) = FlagSole(ps, f, at, yes, no)
  BY <1>1, <1>2, <1>3, <1>4, <1>5 DEF FlagSole
<1> QED
  BY <1>6, FlagOf

(* A flag of the policy, printed whether it was given or not.              *)
LEMMA PolicyFlagAgain ==
  ASSUME NEW ps, NEW f, Has(ps.policy, f), Has(Back(ps).policy, f),
         List(Back(ps).policy, f) = Bool(Flag(ps.policy, f, "true"))
  PROVE  Flag(Back(ps).policy, f, "true") <=> Flag(ps.policy, f, "true")
<1>1. Value(Back(ps).policy, f) = "true" <=> Flag(ps.policy, f, "true")
  <2> DEFINE b == Flag(ps.policy, f, "true")
  <2>1. b \in BOOLEAN
    BY DEF Flag
  <2>2. List(Back(ps).policy, f) = Bool(b)
    OBVIOUS
  <2> HIDE DEF b
  <2>3. Value(Back(ps).policy, f) = "true" <=> b
    BY <2>1, <2>2, BoolValue, TrueIsNotFalse
  <2> QED BY <2>3 DEF b
<1> QED
  BY <1>1, Zenon DEF Flag

LEMMA TextOfFlag ==
  ASSUME NEW ps, NEW attrs, NEW f, NEW at, NEW yes, NEW no, NEW l, yes # no, Has(ps.policy, f),
         Of(attrs, at) = PolicyFlag(ps, f, at, yes, no, l)
  PROVE  Text(attrs, at) = yes <=> Flag(ps.policy, f, "true")
<1> DEFINE x == <<IF Flag(ps.policy, f, "true") THEN yes ELSE no>>
           w == [at |-> at, av |-> x, l |-> l]
<1>1. Of(attrs, at) = {w}
  BY Zenon DEF PolicyFlag, Write
<1>2. w.av = x
  OBVIOUS
<1>3. x[1] = IF Flag(ps.policy, f, "true") THEN yes ELSE no
  OBVIOUS
<1> HIDE DEF w, x
<1>4. Text(attrs, at) = x[1]
  BY <1>1, <1>2, OneOf
<1> QED
  BY <1>3, <1>4

LEMMA WildcardAgain ==
  ASSUME NEW ps
  PROVE  PolicyFlag(ps, "wildcard", "ProhibitWildcard", "0", "1", FALSE)
           \subseteq PolicyFlag(Back(ps), "wildcard", "ProhibitWildcard", "0", "1", FALSE)
<1>1. CASE ~ Has(ps.policy, "wildcard")
  BY <1>1 DEF PolicyFlag
<1>2. CASE Has(ps.policy, "wildcard")
  <2> DEFINE attrs == BuildTppPolicy(ps)
             b == Text(attrs, "ProhibitWildcard") # "1"
  <2>1. Of(attrs, "ProhibitWildcard") = PolicyFlag(ps, "wildcard", "ProhibitWildcard", "0", "1", FALSE)
    BY AttributesOne, Zenon
  <2>2. Has(Back(ps).policy, "wildcard") /\ List(Back(ps).policy, "wildcard") = List(Fixed(attrs), "wildcard")
    <3>1. "wildcard" \in {"wildcard", "reuse", "keyPair"}
      OBVIOUS
    <3> QED BY <3>1, BackPolicy, Zenon
  <2>3. List(Fixed(attrs), "wildcard") = Bool(b)
    BY DEF Fixed, List, Has
  <2> HIDE DEF attrs
  <2>4. Text(attrs, "ProhibitWildcard") = "0" <=> Flag(ps.policy, "wildcard", "true")
    BY <1>2, <2>1, TextOfFlag, TrueIsNotFalse
  <2>5. Text(attrs, "ProhibitWildcard") \in {"0", "1"}
    <3> DEFINE x == <<IF Flag(ps.policy, "wildcard", "true") THEN "0" ELSE "1">>
               w == [at |-> "ProhibitWildcard", av |-> x, l |-> FALSE]
    <3>1. Of(attrs, "ProhibitWildcard") = {w}
      BY <1>2, <2>1, Zenon DEF PolicyFlag, Write
    <3>2. w.av[1] \in {"0", "1"}
      OBVIOUS
    <3> HIDE DEF w
    <3> QED BY <3>1, <3>2, OneOf
  <2>6. b <=> Flag(ps.policy, "wildcard", "true")
    BY <2>4, <2>5, TrueIsNotFalse
  <2>7. b \in BOOLEAN
    OBVIOUS
  <2> HIDE DEF b
  <2>8. List(Back(ps).policy, "wildcard") = Bool(Flag(ps.policy, "wildcard", "true"))
    BY <2>2, <2>3, <2>6 DEF Bool
  <2>9. Flag(Back(ps).policy, "wildcard", "true") <=> Flag(ps.policy, "wildcard", "true")
    BY <1>2, <2>2, <2>8, PolicyFlagAgain
  <2> QED BY <1>2, <2>2, <2>9 DEF PolicyFlag
<1> QED
  BY <1>1, <1>2

LEMMA ReuseAgain ==
  ASSUME NEW ps, NEW at
  PROVE  PolicyFlag(ps, "reuse", at, "1", "0", TRUE) \subseteq PolicyFlag(Back(ps), "reuse", at, "1", "0", TRUE)
<1>1. CASE ~ Has(ps.policy, "reuse")
  BY <1>1 DEF PolicyFlag
<1>2. CASE Has(ps.policy, "reuse")
  <2> DEFINE attrs == BuildTppPolicy(ps)
             b == Text(attrs, "KeyReuse") = "1"
  <2>1. Of(attrs, "KeyReuse") = PolicyFlag(ps, "reuse", "KeyReuse", "1", "0", TRUE)
    BY AttributesOne, Zenon
  <2>2. Has(Back(ps).policy, "reuse") /\ List(Back(ps).policy, "reuse") = List(Fixed(attrs), "reuse")
    <3>1. "reuse" \in {"wildcard", "reuse", "keyPair"}
      OBVIOUS
    <3> QED BY <3>1, BackPolicy, Zenon
  <2>3. List(Fixed(attrs), "reuse") = Bool(b)
    BY DEF Fixed, List, Has
  <2> HIDE DEF attrs
  <2>4. Text(attrs, "KeyReuse") = "1" <=> Flag(ps.policy, "reuse", "true")
    BY <1>2, <2>1, TextOfFlag, TrueIsNotFalse
  <2>7. b \in BOOLEAN /\ (b <=> Flag(ps.policy, "reuse", "true"))
    BY <2>4
  <2> HIDE DEF b
  <2>8. List(Back(ps).policy, "reuse") = Bool(Flag(ps.policy, "reuse", "true"))
    BY <2>2, <2>3, <2>7 DEF Bool
  <2>9. Flag(Back(ps).policy, "reuse", "true") <=> Flag(ps.policy, "reuse", "true")
    BY <1>2, <2>2, <2>8, PolicyFlagAgain
  <2> QED BY <1>2, <2>2, <2>9 DEF PolicyFlag
<1> QED
  BY <1>1, <1>2

LEMMA DomainsAgain ==
  ASSUME NEW ps
  PROVE  DomainList(ps) \subseteq DomainList(Back(ps))
<1>1. CASE ~ Has(ps.policy, "domains")
  BY <1>1 DEF DomainList
<1>2. CASE Has(ps.policy, "domains")
  <2> DEFINE attrs == BuildTppPolicy(ps)
             w == [at |-> "Domains", av |-> ps.policy.domains, l |-> TRUE]
  <2>1. Of(attrs, "Domains") = DomainList(ps)
    BY AttributesOne, Zenon
  <2>2. DomainList(ps) = {w}
    BY <1>2, Zenon DEF DomainList, Write
  <2>3. (Has(Back(ps).policy, "domains") <=> Has(BackDomains(attrs), "domains"))
        /\ List(Back(ps).policy, "domains") = List(BackDomains(attrs), "domains")
    BY BackPolicy, Zenon
  <2>4. w.av = ps.policy.domains
    OBVIOUS
  <2> HIDE DEF attrs, w
  <2>5. Of(attrs, "Domains") # {} /\ ValuesOf(attrs, "Domains") = ps.policy.domains
    BY <2>1, <2>2, <2>4, OneOf
  <2>6. Has(BackDomains(attrs), "domains") /\ List(BackDomains(attrs), "domains") = ps.policy.domains
    BY <2>5 DEF BackDomains, Has, List
  <2>7. Has(Back(ps).policy, "domains") /\ Back(ps).policy.domains = ps.policy.domains
    BY <2>3, <2>6, Zenon DEF List
  <2>8. DomainList(Back(ps)) = {w}
    BY <2>7, Zenon DEF DomainList, Write, w
  <2> QED BY <2>2, <2>8
<1> QED
  BY <1>1, <1>2

LEMMA AuthorityAgain ==
  ASSUME NEW ps, Text(BuildTppPolicy(ps), "CA") # ""
  PROVE  Authority(ps) \subseteq Authority(Back(ps))
<1>1. CASE ~ Has(ps.policy, "ca")
  BY <1>1 DEF Authority
<1>2. CASE Has(ps.policy, "ca")
  <2> DEFINE attrs == BuildTppPolicy(ps)
             w == [at |-> "CA", av |-> ps.policy.ca, l |-> FALSE]
  <2>1. Of(attrs, "CA") = Authority(ps)
    BY AttributesOne, Zenon
  <2>2. Authority(ps) = {w}
    BY <1>2, Zenon DEF Authority, Write
  <2>3. (Has(Back(ps).policy, "ca") <=> Has(BackAuthority(attrs), "ca"))
        /\ List(Back(ps).policy, "ca") = List(BackAuthority(attrs), "ca")
    BY BackPolicy, Zenon
  <2>4. w.av = ps.policy.ca
    OBVIOUS
  <2>5. BackAuthority(attrs) = [ca |-> ValuesOf(attrs, "CA")]
    BY Zenon DEF BackAuthority
  <2> HIDE DEF attrs, w
  <2>6. ValuesOf(attrs, "CA") = ps.policy.ca
    <3>1. Of(attrs, "CA") = {w}
      BY <2>1, <2>2
    <3>2. (CHOOSE v \in {w} : TRUE) = w
      OBVIOUS
    <3> QED BY <2>4, <3>1, <3>2, Zenon DEF ValuesOf
  <2>7. Has([ca |-> ValuesOf(attrs, "CA")], "ca")
        /\ List([ca |-> ValuesOf(attrs, "CA")], "ca") = ValuesOf(attrs, "CA")
    BY DEF Has, List
  <2>8. Has(Back(ps).policy, "ca") /\ Back(ps).policy.ca = ps.policy.ca
    BY <2>3, <2>5, <2>6, <2>7, Zenon DEF List
  <2>9. Authority(Back(ps)) = {w}
    BY <2>8, Zenon DEF Authority, Write, w
  <2> QED BY <2>2, <2>9, Zenon
<1> QED
  BY <1>1, <1>2, Zenon

LEMMA SetOfBoth ==
  ASSUME NEW T, NEW s \in Seq(T), NEW t \in Seq(T)
  PROVE  s \o t \in Seq(T) /\ ToSet(s \o t) = ToSet(s) \cup ToSet(t)
<1>1. s \o t \in Seq(T) /\ Len(s \o t) = Len(s) + Len(t)
  OBVIOUS
<1>2. \A i \in 1 .. Len(s) : (s \o t)[i] = s[i]
  OBVIOUS
<1>3. \A i \in 1 .. Len(t) : (s \o t)[Len(s) + i] = t[i]
  OBVIOUS
<1>4. \A i \in 1 .. Len(s) + Len(t) : i \in 1 .. Len(s) \/ (i - Len(s) \in 1 .. Len(t) /\ i = Len(s) + (i - Len(s)))
  OBVIOUS
<1>5. ToSet(s) = {s[i] : i \in 1 .. Len(s)} /\ ToSet(t) = {t[i] : i \in 1 .. Len(t)}
      /\ ToSet(s \o t) = {(s \o t)[i] : i \in 1 .. Len(s) + Len(t)}
  BY <1>1 DEF ToSet
<1>6. ASSUME NEW x \in ToSet(s \o t)
      PROVE  x \in ToSet(s) \cup ToSet(t)
  <2>1. PICK i \in 1 .. Len(s) + Len(t) : x = (s \o t)[i]
    BY <1>5
  <2>2. CASE i \in 1 .. Len(s)
    BY <1>2, <1>5, <2>1, <2>2
  <2>3. CASE i - Len(s) \in 1 .. Len(t) /\ i = Len(s) + (i - Len(s))
    BY <1>3, <1>5, <2>1, <2>3
  <2> QED BY <1>4, <2>1, <2>2, <2>3
<1>7. ASSUME NEW x \in ToSet(s)
      PROVE  x \in ToSet(s \o t)
  <2>1. PICK i \in 1 .. Len(s) : x = s[i]
    BY <1>5
  <2>2. i \in 1 .. Len(s) + Len(t) /\ x = (s \o t)[i]
    BY <1>2, <2>1
  <2> QED BY <1>5, <2>2
<1>8. ASSUME NEW x \in ToSet(t)
      PROVE  x \in ToSet(s \o t)
  <2>1. PICK i \in 1 .. Len(t) : x = t[i]
    BY <1>5
  <2>2. Len(s) + i \in 1 .. Len(s) + Len(t) /\ x = (s \o t)[Len(s) + i]
    BY <1>3, <2>1
  <2> QED BY <1>5, <2>2
<1> QED
  BY <1>1, <1>6, <1>7, <1>8

LEMMA SetOfOnlyIf ==
  ASSUME NEW T, NEW b \in BOOLEAN, NEW x \in T
  PROVE  OnlyIf(b, x) \in Seq(T) /\ \A y : y \in ToSet(OnlyIf(b, x)) <=> b /\ y = x
<1>1. CASE b
  <2>1. OnlyIf(b, x) = <<x>>
    BY <1>1 DEF OnlyIf
  <2>2. <<x>> \in Seq(T)
    OBVIOUS
  <2> QED BY <1>1, <2>1, <2>2, SetOfOne
<1>2. CASE ~ b
  <2>1. OnlyIf(b, x) = <<>>
    BY <1>2 DEF OnlyIf
  <2>2. <<>> \in Seq(T)
    OBVIOUS
  <2> QED BY <1>2, <2>1, <2>2, SetOfNone
<1> QED
  BY <1>1, <1>2

LEMMA ProhibitedSet ==
  ASSUME NEW ps
  PROVE  \A t : t \in ToSet(getProhibitedSanTypes(ps)) <=> t \in SanTypes /\ Flag(ps.policy, t, "false")
<1> DEFINE T == SanTypes
           p(t) == OnlyIf(Flag(ps.policy, t, "false"), t)
           a == p("dns")
           b == p("ip")
           c == p("email")
           d == p("uri")
           e == p("upn")
           ab == a \o b
           abc == ab \o c
           abcd == abc \o d
           all == abcd \o e
<1>1. getProhibitedSanTypes(ps) = all
  BY Zenon DEF getProhibitedSanTypes
<1>2. \A t : Flag(ps.policy, t, "false") \in BOOLEAN
  BY DEF Flag
<1>3. ASSUME NEW t \in T
      PROVE  p(t) \in Seq(T) /\ \A y : y \in ToSet(p(t)) <=> Flag(ps.policy, t, "false") /\ y = t
  <2> DEFINE g == Flag(ps.policy, t, "false")
  <2>1. g \in BOOLEAN
    BY <1>2
  <2> HIDE DEF g, T
  <2>2. OnlyIf(g, t) \in Seq(T) /\ \A y : y \in ToSet(OnlyIf(g, t)) <=> g /\ y = t
    BY <2>1, SetOfOnlyIf, Zenon
  <2> QED BY <2>2, Zenon DEF g
<1>4. "dns" \in T /\ "ip" \in T /\ "email" \in T /\ "uri" \in T /\ "upn" \in T
  BY Zenon DEF SanTypes
<1> HIDE DEF p, T
<1>5. a \in Seq(T) /\ b \in Seq(T) /\ c \in Seq(T) /\ d \in Seq(T) /\ e \in Seq(T)
  BY <1>3, <1>4, Zenon
<1>6. /\ \A y : y \in ToSet(a) <=> Flag(ps.policy, "dns", "false") /\ y = "dns"
      /\ \A y : y \in ToSet(b) <=> Flag(ps.policy, "ip", "false") /\ y = "ip"
      /\ \A y : y \in ToSet(c) <=> Flag(ps.policy, "email", "false") /\ y = "email"
      /\ \A y : y \in ToSet(d) <=> Flag(ps.policy, "uri", "false") /\ y = "uri"
      /\ \A y : y \in ToSet(e) <=> Flag(ps.policy, "upn", "false") /\ y = "upn"
  BY <1>3, <1>4, Zenon
<1> HIDE DEF a, b, c, d, e
<1>7. ab \in Seq(T) /\ ToSet(ab) = ToSet(a) \cup ToSet(b)
  BY <1>5, SetOfBoth
<1> HIDE DEF ab
<1>8. abc \in Seq(T) /\ ToSet(abc) = ToSet(ab) \cup ToSet(c)
  BY <1>5, <1>7, SetOfBoth
<1> HIDE DEF abc
<1>9. abcd \in Seq(T) /\ ToSet(abcd) = ToSet(abc) \cup ToSet(d)
  BY <1>5, <1>8, SetOfBoth
<1> HIDE DEF abcd
<1>10. ToSet(all) = ToSet(abcd) \cup ToSet(e)
  BY <1>5, <1>9, SetOfBoth
<1> HIDE DEF all
<1>11. \A t : t \in ToSet(all) <=> \/ t \in ToSet(a) \/ t \in ToSet(b) \/ t \in ToSet(c)
                                  \/ t \in ToSet(d) \/ t \in ToSet(e)
  BY <1>7, <1>8, <1>9, <1>10
<1>12. \A t : t \in ToSet(all) <=> t \in SanTypes /\ Flag(ps.policy, t, "false")
  BY <1>6, <1>11, Zenon DEF SanTypes
<1> QED
  BY <1>1, <1>12

LEMMA ProhibitedAgain ==
  ASSUME NEW ps
  PROVE  Prohibited(Back(ps)) = Prohibited(ps)
<1> DEFINE attrs == BuildTppPolicy(ps)
           list == getProhibitedSanTypes(ps)
           prohibited == UNION {ToSet(w.av) : w \in Of(attrs, "SanTypes")}
<1>1. Of(attrs, "SanTypes") = Prohibited(ps)
  BY AttributesOne, Zenon
<1>2. prohibited = ToSet(list)
  <2>1. CASE list = <<>>
    <3>1. Of(attrs, "SanTypes") = {}
      BY <1>1, <2>1, Zenon DEF Prohibited
    <3> HIDE DEF attrs, list
    <3> QED BY <2>1, <3>1, SetOfNone
  <2>2. CASE list # <<>>
    <3> DEFINE w == [at |-> "SanTypes", av |-> list, l |-> FALSE]
    <3>1. Of(attrs, "SanTypes") = {w}
      BY <1>1, <2>2, Zenon DEF Prohibited, Write
    <3> HIDE DEF attrs, list
    <3>2. w.av = list
      OBVIOUS
    <3> HIDE DEF w
    <3>3. {ToSet(v.av) : v \in Of(attrs, "SanTypes")} = {ToSet(list)}
      BY <3>1, <3>2
    <3> QED BY <3>3
  <2> QED BY <2>1, <2>2
<1>3. resolveSubjectAltNames(attrs) = [t \in SanTypes |-> Bool(t \notin prohibited)]
  BY Zenon DEF resolveSubjectAltNames
<1>4. ASSUME NEW t \in SanTypes
      PROVE  Flag(Back(ps).policy, t, "false") <=> Flag(ps.policy, t, "false")
  <2>1. Has(Back(ps).policy, t) /\ List(Back(ps).policy, t) = List(resolveSubjectAltNames(attrs), t)
    BY BackPolicy, Zenon
  <2>2. t \in prohibited <=> Flag(ps.policy, t, "false")
    BY <1>2, ProhibitedSet, Zenon
  <2> HIDE DEF attrs, list, prohibited
  <2>3. List(resolveSubjectAltNames(attrs), t) = Bool(t \notin prohibited)
    BY <1>3 DEF List, Has
  <2> DEFINE b == t \notin prohibited
  <2>4. b \in BOOLEAN /\ (b <=> ~ Flag(ps.policy, t, "false"))
    BY <2>2
  <2>5. List(Back(ps).policy, t) = Bool(b)
    BY <2>1, <2>3
  <2> HIDE DEF b
  <2>6. Value(Back(ps).policy, t) = "false" <=> ~ b
    BY <2>4, <2>5, BoolValue, TrueIsNotFalse
  <2> QED BY <2>1, <2>4, <2>6, Zenon DEF Flag
<1>5. getProhibitedSanTypes(Back(ps)) = getProhibitedSanTypes(ps)
  <2>1. \A t \in SanTypes : OnlyIf(Flag(Back(ps).policy, t, "false"), t) = OnlyIf(Flag(ps.policy, t, "false"), t)
    BY <1>4 DEF OnlyIf
  <2> QED BY <2>1, Zenon DEF getProhibitedSanTypes, SanTypes
<1> QED
  BY <1>5, Zenon DEF Prohibited

LEMMA WrittenAgain ==
  ASSUME NEW ps, NEW w \in BuildTppPolicy(ps),
         w.at \notin {"Contact", "Approver", "PKIX", "PKIXDefault"},
         w.at # (IF IsRsa(ps) THEN "Curve" ELSE "KeyBits"),
         w.at = "CA" => Text(BuildTppPolicy(ps), "CA") # ""
  PROVE  w \in BuildTppPolicy(Back(ps))
<1> DEFINE attrs == BuildTppPolicy(ps)
           again == BuildTppPolicy(Back(ps))
           Kind(at) == Of(attrs, at) \subseteq Of(again, at)
<1>1. attrs = BuildTppPolicy(ps) /\ again = BuildTppPolicy(Back(ps))
  OBVIOUS
<1> HIDE DEF attrs, again
<1>2. Kind("Domains")
  <2>1. Of(attrs, "Domains") = DomainList(ps)
    BY <1>1, AttributesOne, Zenon
  <2>2. Of(again, "Domains") = DomainList(Back(ps))
    BY <1>1, AttributesOne, Zenon
  <2>3. DomainList(ps)
               \subseteq DomainList(Back(ps))
    BY DomainsAgain, Zenon
  <2> QED BY <2>1, <2>2, <2>3, Zenon
<1>3. w.at = "CA" => Kind("CA")
  <2>1. Of(attrs, "CA") = Authority(ps)
    BY <1>1, AttributesOne, Zenon
  <2>2. Of(again, "CA") = Authority(Back(ps))
    BY <1>1, AttributesOne, Zenon
  <2>3. w.at = "CA" => Authority(ps)
               \subseteq Authority(Back(ps))
    BY <1>1, AuthorityAgain, Zenon
  <2> QED BY <2>1, <2>2, <2>3, Zenon
<1>4. Kind("ProhibitWildcard")
  <2>1. Of(attrs, "ProhibitWildcard") = PolicyFlag(ps, "wildcard", "ProhibitWildcard", "0", "1", FALSE)
    BY <1>1, AttributesOne, Zenon
  <2>2. Of(again, "ProhibitWildcard") = PolicyFlag(Back(ps), "wildcard", "ProhibitWildcard", "0", "1", FALSE)
    BY <1>1, AttributesOne, Zenon
  <2>3. PolicyFlag(ps, "wildcard", "ProhibitWildcard", "0", "1", FALSE)
               \subseteq PolicyFlag(Back(ps), "wildcard", "ProhibitWildcard", "0", "1", FALSE)
    BY WildcardAgain, Zenon
  <2> QED BY <2>1, <2>2, <2>3, Zenon
<1>5. Kind("KeyReuse")
  <2>1. Of(attrs, "KeyReuse") = PolicyFlag(ps, "reuse", "KeyReuse", "1", "0", TRUE)
    BY <1>1, AttributesOne, Zenon
  <2>2. Of(again, "KeyReuse") = PolicyFlag(Back(ps), "reuse", "KeyReuse", "1", "0", TRUE)
    BY <1>1, AttributesOne, Zenon
  <2>3. PolicyFlag(ps, "reuse", "KeyReuse", "1", "0", TRUE)
               \subseteq PolicyFlag(Back(ps), "reuse", "KeyReuse", "1", "0", TRUE)
    BY ReuseAgain, Zenon
  <2> QED BY <2>1, <2>2, <2>3, Zenon
<1>6. Kind("WantRenewal")
  <2>1. Of(attrs, "WantRenewal") = PolicyFlag(ps, "reuse", "WantRenewal", "1", "0", TRUE)
    BY <1>1, AttributesOne, Zenon
  <2>2. Of(again, "WantRenewal") = PolicyFlag(Back(ps), "reuse", "WantRenewal", "1", "0", TRUE)
    BY <1>1, AttributesOne, Zenon
  <2>3. PolicyFlag(ps, "reuse", "WantRenewal", "1", "0", TRUE)
               \subseteq PolicyFlag(Back(ps), "reuse", "WantRenewal", "1", "0", TRUE)
    BY ReuseAgain, Zenon
  <2> QED BY <2>1, <2>2, <2>3, Zenon
<1>7. Kind("ManagementType")
  <2>1. Of(attrs, "ManagementType") = FlagAttribute(ps, "auto", "ManagementType", "Provisioning", "Enrollment")
    BY <1>1, AttributesOne, Zenon
  <2>2. Of(again, "ManagementType") = FlagAttribute(Back(ps), "auto", "ManagementType", "Provisioning", "Enrollment")
    BY <1>1, AttributesOne, Zenon
  <2>3. "auto" \in {"service", "auto"}
    OBVIOUS
  <2>4. \A kind, yes, no : FlagAttribute(Back(ps), "auto", kind, yes, no)
                              = FlagAttribute(ps, "auto", kind, yes, no)
    BY <2>3, FlagAgain
  <2>5. FlagAttribute(ps, "auto", "ManagementType", "Provisioning", "Enrollment")
               = FlagAttribute(Back(ps), "auto", "ManagementType", "Provisioning", "Enrollment")
    BY <2>4, Zenon
  <2> QED BY <2>1, <2>2, <2>5, Zenon
<1>8. Kind("ManualCsr")
  <2>1. Of(attrs, "ManualCsr") = FlagAttribute(ps, "service", "ManualCsr", "0", "1")
    BY <1>1, AttributesOne, Zenon
  <2>2. Of(again, "ManualCsr") = FlagAttribute(Back(ps), "service", "ManualCsr", "0", "1")
    BY <1>1, AttributesOne, Zenon
  <2>3. "service" \in {"service", "auto"}
    OBVIOUS
  <2>4. \A kind, yes, no : FlagAttribute(Back(ps), "service", kind, yes, no)
                              = FlagAttribute(ps, "service", kind, yes, no)
    BY <2>3, FlagAgain
  <2>5. FlagAttribute(ps, "service", "ManualCsr", "0", "1")
               = FlagAttribute(Back(ps), "service", "ManualCsr", "0", "1")
    BY <2>4, Zenon
  <2> QED BY <2>1, <2>2, <2>5, Zenon
<1>9. Kind("Org")
  <2>1. Of(attrs, "Org") = Sole(ps, "org", "Org")
    BY <1>1, AttributesOne, Zenon
  <2>2. Of(again, "Org") = Sole(Back(ps), "org", "Org")
    BY <1>1, AttributesOne, Zenon
  <2>3. "org" \in Names \cup KeyTexts(ps)
    BY DEF Names
  <2>4. Sole(ps, "org", "Org")
               = Sole(Back(ps), "org", "Org")
    BY <2>3, SoleAgain, Zenon
  <2> QED BY <2>1, <2>2, <2>4, Zenon
<1>10. Kind("City")
  <2>1. Of(attrs, "City") = Sole(ps, "locality", "City")
    BY <1>1, AttributesOne, Zenon
  <2>2. Of(again, "City") = Sole(Back(ps), "locality", "City")
    BY <1>1, AttributesOne, Zenon
  <2>3. "locality" \in Names \cup KeyTexts(ps)
    BY DEF Names
  <2>4. Sole(ps, "locality", "City")
               = Sole(Back(ps), "locality", "City")
    BY <2>3, SoleAgain, Zenon
  <2> QED BY <2>1, <2>2, <2>4, Zenon
<1>11. Kind("State")
  <2>1. Of(attrs, "State") = Sole(ps, "state", "State")
    BY <1>1, AttributesOne, Zenon
  <2>2. Of(again, "State") = Sole(Back(ps), "state", "State")
    BY <1>1, AttributesOne, Zenon
  <2>3. "state" \in Names \cup KeyTexts(ps)
    BY DEF Names
  <2>4. Sole(ps, "state", "State")
               = Sole(Back(ps), "state", "State")
    BY <2>3, SoleAgain, Zenon
  <2> QED BY <2>1, <2>2, <2>4, Zenon
<1>12. Kind("Country")
  <2>1. Of(attrs, "Country") = Sole(ps, "country", "Country")
    BY <1>1, AttributesOne, Zenon
  <2>2. Of(again, "Country") = Sole(Back(ps), "country", "Country")
    BY <1>1, AttributesOne, Zenon
  <2>3. "country" \in Names \cup KeyTexts(ps)
    BY DEF Names
  <2>4. Sole(ps, "country", "Country")
               = Sole(Back(ps), "country", "Country")
    BY <2>3, SoleAgain, Zenon
  <2> QED BY <2>1, <2>2, <2>4, Zenon
<1>13. Kind("OU")
  <2>1. Of(attrs, "OU") = Units(ps)
    BY <1>1, AttributesOne, Zenon
  <2>2. Of(again, "OU") = Units(Back(ps))
    BY <1>1, AttributesOne, Zenon
  <2>3. Units(ps)
               = Units(Back(ps))
    BY UnitsAgain, Zenon
  <2> QED BY <2>1, <2>2, <2>3, Zenon
<1>14. Kind("KeyAlg")
  <2>1. Of(attrs, "KeyAlg") = Sole(ps, "keyType", "KeyAlg")
    BY <1>1, AttributesOne, Zenon
  <2>2. Of(again, "KeyAlg") = Sole(Back(ps), "keyType", "KeyAlg")
    BY <1>1, AttributesOne, Zenon
  <2>3. "keyType" \in Names \cup KeyTexts(ps)
    BY DEF KeyTexts
  <2>4. Sole(ps, "keyType", "KeyAlg")
               = Sole(Back(ps), "keyType", "KeyAlg")
    BY <2>3, SoleAgain, Zenon
  <2> QED BY <2>1, <2>2, <2>4, Zenon
<1>15. w.at = "KeyBits" => Kind("KeyBits")
  <2>1. Of(attrs, "KeyBits") = Sole(ps, "rsa", "KeyBits")
    BY <1>1, AttributesOne, Zenon
  <2>2. Of(again, "KeyBits") = Sole(Back(ps), "rsa", "KeyBits")
    BY <1>1, AttributesOne, Zenon
  <2>3. w.at = "KeyBits" => "rsa" \in Names \cup KeyTexts(ps)
    BY Zenon DEF KeyTexts, Parameter
  <2>4. w.at = "KeyBits" => Sole(ps, "rsa", "KeyBits")
               = Sole(Back(ps), "rsa", "KeyBits")
    BY <2>3, SoleAgain, Zenon
  <2> QED BY <2>1, <2>2, <2>4, Zenon
<1>16. w.at = "Curve" => Kind("Curve")
  <2>1. Of(attrs, "Curve") = Sole(ps, "curve", "Curve")
    BY <1>1, AttributesOne, Zenon
  <2>2. Of(again, "Curve") = Sole(Back(ps), "curve", "Curve")
    BY <1>1, AttributesOne, Zenon
  <2>3. w.at = "Curve" => "curve" \in Names \cup KeyTexts(ps)
    BY Zenon DEF KeyTexts, Parameter
  <2>4. w.at = "Curve" => Sole(ps, "curve", "Curve")
               = Sole(Back(ps), "curve", "Curve")
    BY <2>3, SoleAgain, Zenon
  <2> QED BY <2>1, <2>2, <2>4, Zenon
<1>17. Kind("SanTypes")
  <2>1. Of(attrs, "SanTypes") = Prohibited(ps)
    BY <1>1, AttributesOne, Zenon
  <2>2. Of(again, "SanTypes") = Prohibited(Back(ps))
    BY <1>1, AttributesOne, Zenon
  <2>3. Prohibited(ps)
               = Prohibited(Back(ps))
    BY ProhibitedAgain, Zenon
  <2> QED BY <2>1, <2>2, <2>3, Zenon
<1>18. w.at \in {"Contact", "Approver", "Domains", "CA", "ProhibitWildcard", "KeyReuse", "WantRenewal",
                 "ManagementType", "ManualCsr", "Org", "City", "State", "Country", "OU", "KeyAlg", "KeyBits",
                 "Curve", "PKIX", "PKIXDefault", "SanTypes"}
  BY AttributesOne, Zenon
<1>19. w \in attrs
  BY <1>1
<1> HIDE DEF Kind
<1>20. Kind(w.at)
  BY <1>2, <1>3, <1>4, <1>5, <1>6, <1>7, <1>8, <1>9, <1>10, <1>11, <1>12, <1>13, <1>14, <1>15, <1>16, <1>17, <1>18
<1>21. w \in Of(attrs, w.at)
  BY <1>19 DEF Of
<1>22. w \in Of(again, w.at)
  BY <1>20, <1>21, Zenon DEF Kind
<1> QED
  BY <1>1, <1>22, Zenon DEF Of

(* What getpolicy printed is accepted by setpolicy, and written again.     *)
LEMMA TppAgain ==
  ASSUME Called("tpp policy") => IsSpecification(Arg)
  PROVE  TppRoundTrip
<1> SUFFICES ASSUME Called("tpp policy"), ValidateTppPolicySpecification(Arg) = "ok", ~ BuildPanics(Arg),
                    NEW attrs, attrs = BuildTppPolicy(Arg),
                    NEW rsa, rsa = (Text(attrs, "KeyAlg") = "RSA"),
                    NEW unread, unread = {"Contact", "Approver", "PKIX", "PKIXDefault"}
                                           \cup {IF rsa THEN "Curve" ELSE "KeyBits"}
                                           \cup (IF Text(attrs, "CA") = "" THEN {"CA"} ELSE {})
             PROVE  /\ ValidateTppPolicySpecification(Back(Arg)) = "ok"
                    /\ {w \in attrs : w.at \notin unread} \subseteq BuildTppPolicy(Back(Arg))
  BY Zenon DEF TppRoundTrip, Back
<1>1. ValidateTppPolicySpecification(Back(Arg)) = "ok"
  BY BackAccepted, Zenon
<1>2. ASSUME NEW w \in attrs, w.at \notin unread
      PROVE  w \in BuildTppPolicy(Back(Arg))
  <2>1. w.at \notin {"Contact", "Approver", "PKIX", "PKIXDefault"}
    BY <1>2
  <2>2. w.at # (IF IsRsa(Arg) THEN "Curve" ELSE "KeyBits")
    <3>1. w.at # IF rsa THEN "Curve" ELSE "KeyBits"
      BY <1>2
    <3> QED BY <3>1, Zenon DEF IsRsa
  <2>3. w.at = "CA" => Text(BuildTppPolicy(Arg), "CA") # ""
    BY <1>2, Zenon
  <2> QED BY <1>2, <2>1, <2>2, <2>3, WrittenAgain, Zenon
<1> QED
  BY <1>1, <1>2, Zenon

-----------------------------------------------------------------------------
(* What getpolicy reads back of a template *)

(* The two translations, field by field.                                   *)
LEMMA TemplateFields ==
  ASSUME NEW ps
  PROVE  LET c == BuildCloudCitRequest(ps)
         IN  /\ c.names = CitNames(ps) /\ c.ip = CitAddresses(ps) /\ c.subject = CitSubject(ps)
             /\ c.keyTypes = CitKeyTypes(ps) /\ c.recommended = CitRecommended(ps)
             /\ c.product = CitProduct(ps) /\ c.reuse = Flag(ps.policy, "reuse", "true")
             /\ c.csrUpload = ~ Flag(ps.policy, "service", "true")
             /\ c.serviceKey = ~ Flag(ps.policy, "service", "false")
<1> DEFINE c1 == CitNames(ps)
           c2 == CitAddresses(ps)
           c3 == CitSubject(ps)
           c4 == CitKeyTypes(ps)
           c5 == CitRecommended(ps)
           c6 == CitProduct(ps)
           c7 == Flag(ps.policy, "reuse", "true")
           c8 == ~ Flag(ps.policy, "service", "true")
           c9 == ~ Flag(ps.policy, "service", "false")
<1>1. BuildCloudCitRequest(ps) =
        [names |-> c1, ip |-> c2, subject |-> c3, keyTypes |-> c4, recommended |-> c5, product |-> c6,
         reuse |-> c7, csrUpload |-> c8, serviceKey |-> c9]
  BY Zenon DEF BuildCloudCitRequest
<1> HIDE DEF c1, c2, c3, c4, c5, c6, c7, c8, c9
<1>2. LET c == BuildCloudCitRequest(ps)
      IN  /\ c.names = c1 /\ c.ip = c2 /\ c.subject = c3 /\ c.keyTypes = c4 /\ c.recommended = c5
          /\ c.product = c6 /\ c.reuse = c7 /\ c.csrUpload = c8 /\ c.serviceKey = c9
  BY <1>1
<1> QED
  BY <1>2, Zenon DEF c1, c2, c3, c4, c5, c6, c7, c8, c9

LEMMA TemplatesEqual ==
  ASSUME NEW ps, NEW q
  PROVE  BuildCloudCitRequest(q) = BuildCloudCitRequest(ps)
           <=> /\ CitNames(q) = CitNames(ps) /\ CitAddresses(q) = CitAddresses(ps)
               /\ CitSubject(q) = CitSubject(ps) /\ CitKeyTypes(q) = CitKeyTypes(ps)
               /\ CitRecommended(q) = CitRecommended(ps) /\ CitProduct(q) = CitProduct(ps)
               /\ Flag(q.policy, "reuse", "true") = Flag(ps.policy, "reuse", "true")
               /\ Flag(q.policy, "service", "true") = Flag(ps.policy, "service", "true")
               /\ Flag(q.policy, "service", "false") = Flag(ps.policy, "service", "false")
<1>1. BuildCloudCitRequest(q) = BuildCloudCitRequest(ps)
        => /\ CitNames(q) = CitNames(ps) /\ CitAddresses(q) = CitAddresses(ps)
           /\ CitSubject(q) = CitSubject(ps) /\ CitKeyTypes(q) = CitKeyTypes(ps)
           /\ CitRecommended(q) = CitRecommended(ps) /\ CitProduct(q) = CitProduct(ps)
           /\ Flag(q.policy, "reuse", "true") = Flag(ps.policy, "reuse", "true")
           /\ (~ Flag(q.policy, "service", "true")) = (~ Flag(ps.policy, "service", "true"))
           /\ (~ Flag(q.policy, "service", "false")) = (~ Flag(ps.policy, "service", "false"))
  BY TemplateFields, Zenon
<1>2. \A s, t, v : Flag(s, t, v) \in BOOLEAN
  BY DEF Flag
<1>3. BuildCloudCitRequest(q) = BuildCloudCitRequest(ps)
        => /\ Flag(q.policy, "service", "true") = Flag(ps.policy, "service", "true")
           /\ Flag(q.policy, "service", "false") = Flag(ps.policy, "service", "false")
  BY <1>1, <1>2
<1>4. (/\ CitNames(q) = CitNames(ps) /\ CitAddresses(q) = CitAddresses(ps)
       /\ CitSubject(q) = CitSubject(ps) /\ CitKeyTypes(q) = CitKeyTypes(ps)
       /\ CitRecommended(q) = CitRecommended(ps) /\ CitProduct(q) = CitProduct(ps)
       /\ Flag(q.policy, "reuse", "true") = Flag(ps.policy, "reuse", "true")
       /\ Flag(q.policy, "service", "true") = Flag(ps.policy, "service", "true")
       /\ Flag(q.policy, "service", "false") = Flag(ps.policy, "service", "false"))
      => BuildCloudCitRequest(q) = BuildCloudCitRequest(ps)
  BY Zenon DEF BuildCloudCitRequest
<1> QED
  BY <1>1, <1>3, <1>4, Zenon

(* What stands in the printed policy of the names that are allowed.        *)
LEMMA NamesBackHas ==
  ASSUME NEW c, NEW f
  PROVE  LET s == NamesBack(c)
         IN  /\ Has(s, f) <=> \/ f \in {"domains", "wildcard"}
                              \/ f \in {"dns", "email", "uri"} /\ f \in DOMAIN c.names
                              \/ f = "uriProtocols" /\ "uri" \in DOMAIN c.names
                              \/ f = "ip" /\ c.ip # <<>>
             /\ f = "domains" => List(s, f) = RemoveRegex(c.names.cn)
             /\ f = "wildcard" => List(s, f) = Bool(isWildCard(c.names.cn))
             /\ (f \in {"dns", "email", "uri"} /\ f \in DOMAIN c.names) => List(s, f) = Bool(TRUE)
             /\ (f = "uriProtocols" /\ "uri" \in DOMAIN c.names) => List(s, f) = Distinct(c.names.uri.protocols)
             /\ (f = "ip" /\ c.ip # <<>>) => List(s, f) = Bool(TRUE)
<1> DEFINE x == RemoveRegex(c.names.cn)
           y == Bool(isWildCard(c.names.cn))
           yes == Bool(TRUE)
           a == [domains |-> x, wildcard |-> y]
           b == [g \in DOMAIN c.names \cap {"dns", "email", "uri"} |-> yes]
           p == "uri" \in DOMAIN c.names
           v == Distinct(c.names.uri.protocols)
           d == IF p THEN [uriProtocols |-> v] ELSE <<>>
           q == c.ip # <<>>
           e == IF q THEN [ip |-> yes] ELSE <<>>
           s == NamesBack(c)
<1>1. s = a ++ b ++ d ++ e
  BY Zenon DEF NamesBack
<1>2. p \in BOOLEAN /\ q \in BOOLEAN
  OBVIOUS
<1> HIDE DEF x, y, yes, v, s
<1>3. (Has(a, f) <=> f \in {"domains", "wildcard"}) /\ (f = "domains" => List(a, f) = x) /\ (f = "wildcard" => List(a, f) = y)
  BY DEF Has, List
<1>4. /\ Has(b, f) <=> f \in {"dns", "email", "uri"} /\ f \in DOMAIN c.names
      /\ Has(b, f) => List(b, f) = yes
  BY DEF Has, List
<1> HIDE DEF a, b, p, q
<1>5. (Has(d, f) <=> p /\ f = "uriProtocols") /\ (Has(d, f) => List(d, f) = v)
  <2>1. CASE p
    BY <2>1 DEF Has, List
  <2>2. CASE ~ p
    BY <2>2, NothingHas
  <2> QED BY <1>2, <2>1, <2>2
<1>6. (Has(e, f) <=> q /\ f = "ip") /\ (Has(e, f) => List(e, f) = yes)
  <2>1. CASE q
    BY <2>1 DEF Has, List
  <2>2. CASE ~ q
    BY <2>2, NothingHas
  <2> QED BY <1>2, <2>1, <2>2
<1> HIDE DEF d, e
<1>7. /\ Has(s, f) <=> Has(a, f) \/ Has(b, f) \/ Has(d, f) \/ Has(e, f)
      /\ List(s, f) = IF Has(a, f) THEN List(a, f) ELSE IF Has(b, f) THEN List(b, f)
                             ELSE IF Has(d, f) THEN List(d, f) ELSE List(e, f)
  BY <1>1, Fourfold
<1>8. Has(s, f) <=> \/ f \in {"domains", "wildcard"}
                    \/ f \in {"dns", "email", "uri"} /\ f \in DOMAIN c.names
                    \/ f = "uriProtocols" /\ p
                    \/ f = "ip" /\ q
  BY <1>3, <1>4, <1>5, <1>6, <1>7
<1>9. /\ f = "domains" => List(s, f) = x
      /\ f = "wildcard" => List(s, f) = y
      /\ (f \in {"dns", "email", "uri"} /\ f \in DOMAIN c.names) => List(s, f) = yes
      /\ (f = "uriProtocols" /\ p) => List(s, f) = v
      /\ (f = "ip" /\ q) => List(s, f) = yes
  BY <1>3, <1>4, <1>5, <1>6, <1>7
<1> QED
  BY <1>8, <1>9, Zenon DEF x, y, yes, v, s, p, q

(* And of the keys that are allowed.                                       *)
TypeList(c) == OnlyIf("RSA" \in DOMAIN c.keyTypes, "RSA") \o OnlyIf("EC" \in DOMAIN c.keyTypes, "EC")

LEMMA KeysBackHas ==
  ASSUME NEW c, NEW f, DOMAIN c.keyTypes \subseteq {"RSA", "EC"}
  PROVE  LET s == KeyPairBack(c)
             types == DOMAIN c.keyTypes
             given == types # {} \/ c.csrUpload # c.serviceKey
         IN  /\ Has(s, f) <=> \/ f = "keyType" /\ types # {}
                              \/ f = "rsa" /\ "RSA" \in types
                              \/ f = "curve" /\ "EC" \in types
                              \/ f = "service" /\ c.csrUpload # c.serviceKey
                              \/ f \in {"keyPair", "reuse"} /\ given
             /\ (f = "keyType" /\ types # {}) => List(s, f) = TypeList(c)
             /\ (f = "rsa" /\ "RSA" \in types) => List(s, f) = c.keyTypes["RSA"]
             /\ (f = "curve" /\ "EC" \in types) => List(s, f) = c.keyTypes["EC"]
             /\ (f = "service" /\ c.csrUpload # c.serviceKey) => List(s, f) = Bool(c.serviceKey)
             /\ (f = "reuse" /\ given) => List(s, f) = Bool(c.reuse)
<1> DEFINE types == DOMAIN c.keyTypes
           l == TypeList(c)
           u == c.keyTypes["RSA"]
           v == c.keyTypes["EC"]
           y == Bool(c.serviceKey)
           z == Bool(c.reuse)
           q == c.csrUpload # c.serviceKey
           r == "RSA" \in types
           e == "EC" \in types
           none == types = {}
           k1 == [keyType |-> l]
           k2 == IF r THEN [rsa |-> u] ELSE <<>>
           k3 == IF e THEN [curve |-> v] ELSE <<>>
           keys == IF none THEN <<>> ELSE k1 ++ k2 ++ k3
           service == IF ~ q THEN <<>> ELSE [service |-> y]
           given == keys ++ service
           last == [keyPair |-> <<>>, reuse |-> z]
           s == KeyPairBack(c)
<1>1. s = IF DOMAIN given = {} THEN <<>> ELSE given ++ last
  BY Zenon DEF KeyPairBack, TypeList
<1>2. q \in BOOLEAN /\ r \in BOOLEAN /\ e \in BOOLEAN /\ none \in BOOLEAN /\ (none <=> ~ r /\ ~ e)
  OBVIOUS
<1> HIDE DEF types, l, u, v, y, z, q, r, e, none, s
<1>3. (Has(k1, f) <=> f = "keyType") /\ (f = "keyType" => List(k1, f) = l)
  BY DEF Has, List
<1>4. (Has(k2, f) <=> r /\ f = "rsa") /\ (Has(k2, f) => List(k2, f) = u)
  <2>1. CASE r
    BY <2>1 DEF Has, List
  <2>2. CASE ~ r
    BY <2>2, NothingHas
  <2> QED BY <1>2, <2>1, <2>2
<1>5. (Has(k3, f) <=> e /\ f = "curve") /\ (Has(k3, f) => List(k3, f) = v)
  <2>1. CASE e
    BY <2>1 DEF Has, List
  <2>2. CASE ~ e
    BY <2>2, NothingHas
  <2> QED BY <1>2, <2>1, <2>2
<1>6. /\ Has(service, f) <=> q /\ f = "service"
      /\ Has(service, f) => List(service, f) = y
  <2>1. CASE q
    BY <2>1 DEF Has, List
  <2>2. CASE ~ q
    BY <2>2, NothingHas
  <2> QED BY <1>2, <2>1, <2>2
<1>7. (Has(last, f) <=> f \in {"keyPair", "reuse"}) /\ (f = "reuse" => List(last, f) = z)
  BY DEF Has, List
<1>8. DOMAIN service = {} <=> ~ q
  <2>1. CASE q
    <3>1. "service" \in DOMAIN service
      BY <2>1
    <3> QED BY <2>1, <3>1
  <2>2. CASE ~ q
    BY <2>2
  <2> QED BY <1>2, <2>1, <2>2
<1>9. "keyType" \in DOMAIN k1
  OBVIOUS
<1> HIDE DEF k1, k2, k3, service, last
<1>10. DOMAIN keys = {} <=> none
  <2>1. CASE none
    <3>1. keys = <<>>
      BY <2>1
    <3> QED BY <2>1, <3>1
  <2>2. CASE ~ none
    <3>1. keys = k1 ++ k2 ++ k3
      BY <2>2
    <3>2. DOMAIN (k1 ++ k2 ++ k3) = DOMAIN (k1 ++ k2) \cup DOMAIN k3 /\ DOMAIN (k1 ++ k2) = DOMAIN k1 \cup DOMAIN k2
      BY DEF ++
    <3> QED BY <1>9, <2>2, <3>1, <3>2
  <2> QED BY <2>1, <2>2
<1>11. /\ Has(keys, f) <=> ~ none /\ (Has(k1, f) \/ Has(k2, f) \/ Has(k3, f))
       /\ ~ none => List(keys, f) = IF Has(k1, f) THEN List(k1, f) ELSE IF Has(k2, f) THEN List(k2, f) ELSE List(k3, f)
  <2> DEFINE k == k1 ++ k2
  <2>1. (Has(k, f) <=> Has(k1, f) \/ Has(k2, f)) /\ List(k, f) = IF Has(k1, f) THEN List(k1, f) ELSE List(k2, f)
    BY OverHas, OverList, Zenon
  <2>2. keys = IF none THEN <<>> ELSE k ++ k3
    BY Zenon
  <2> HIDE DEF k, keys
  <2>3. /\ Has(k ++ k3, f) <=> Has(k, f) \/ Has(k3, f)
        /\ List(k ++ k3, f) = IF Has(k, f) THEN List(k, f) ELSE List(k3, f)
    BY OverHas, OverList, Zenon
  <2>4. CASE none
    BY <2>2, <2>4, NothingHas
  <2>5. CASE ~ none
    BY <2>1, <2>2, <2>3, <2>5
  <2> QED BY <1>2, <2>4, <2>5
<1> HIDE DEF keys
<1>12. DOMAIN given = {} <=> none /\ ~ q
  <2>1. DOMAIN given = DOMAIN keys \cup DOMAIN service
    BY DEF ++
  <2> QED BY <1>8, <1>10, <2>1
<1>13. /\ Has(given, f) <=> Has(keys, f) \/ Has(service, f)
       /\ List(given, f) = IF Has(keys, f) THEN List(keys, f) ELSE List(service, f)
  BY OverHas, OverList, Zenon
<1> HIDE DEF given
<1>14. /\ Has(s, f) <=> ~ (none /\ ~ q) /\ (Has(given, f) \/ Has(last, f))
       /\ ~ (none /\ ~ q) => List(s, f) = IF Has(given, f) THEN List(given, f) ELSE List(last, f)
  <2>1. /\ Has(given ++ last, f) <=> Has(given, f) \/ Has(last, f)
        /\ List(given ++ last, f) = IF Has(given, f) THEN List(given, f) ELSE List(last, f)
    BY OverHas, OverList, Zenon
  <2>2. CASE none /\ ~ q
    BY <1>1, <1>12, <2>2, NothingHas
  <2>3. CASE ~ (none /\ ~ q)
    BY <1>1, <1>12, <2>1, <2>3
  <2> QED BY <2>2, <2>3
<1>15. Has(s, f) <=> \/ f = "keyType" /\ ~ none
                     \/ f = "rsa" /\ r
                     \/ f = "curve" /\ e
                     \/ f = "service" /\ q
                     \/ f \in {"keyPair", "reuse"} /\ (~ none \/ q)
  BY <1>2, <1>3, <1>4, <1>5, <1>6, <1>7, <1>11, <1>13, <1>14
<1>16. /\ (f = "keyType" /\ ~ none) => List(s, f) = l
       /\ (f = "rsa" /\ r) => List(s, f) = u
       /\ (f = "curve" /\ e) => List(s, f) = v
       /\ (f = "service" /\ q) => List(s, f) = y
       /\ (f = "reuse" /\ (~ none \/ q)) => List(s, f) = z
  BY <1>2, <1>3, <1>4, <1>5, <1>6, <1>7, <1>11, <1>13, <1>14
<1> QED
  BY <1>15, <1>16, Zenon DEF types, l, u, v, y, z, q, r, e, none, s

NoText == <<"">>

(* The policy that is printed.                                             *)
LEMMA PrintedPolicy ==
  ASSUME NEW c, NEW f, DOMAIN c.keyTypes \subseteq {"RSA", "EC"}
  PROVE  LET s == buildPolicySpecification(c).policy
         IN  /\ f \in {"domains", "wildcard", "dns", "email", "uri", "uriProtocols", "ip"} =>
                  /\ Has(s, f) <=> Has(NamesBack(c), f)
                  /\ List(s, f) = List(NamesBack(c), f)
             /\ f \in Names \cup {"ou"} =>
                  /\ Has(s, f)
                  /\ List(s, f) = IF f \in DOMAIN c.subject THEN c.subject[f] ELSE NoText
             /\ f \in {"keyType", "rsa", "curve", "service", "reuse"} =>
                  /\ Has(s, f) <=> Has(KeyPairBack(c), f)
                  /\ List(s, f) = List(KeyPairBack(c), f)
             /\ f = "ca" => Has(s, f) /\ List(s, f) = <<c.product.ca>>
             /\ f = "days" => Has(s, f) /\ List(s, f) = <<c.product.days>>
             /\ f \in {"upn", "ipConstraints"} => ~ Has(s, f) /\ List(s, f) = <<>>
<1> DEFINE a == NamesBack(c)
           b == SubjectBack(c)
           d == KeyPairBack(c)
           x == <<c.product.days>>
           y == <<c.product.ca>>
           e == [subject |-> <<>>, days |-> x, ca |-> y]
           t == a ++ b ++ d ++ e
           s == buildPolicySpecification(c).policy
           z(g) == IF g \in DOMAIN c.subject THEN c.subject[g] ELSE NoText
<1>1. s = t
  <2> DEFINE dd == DefaultsBack(c)
  <2>1. buildPolicySpecification(c) = [policy |-> t, default |-> dd]
    BY Zenon DEF buildPolicySpecification
  <2> HIDE DEF t, dd
  <2>2. buildPolicySpecification(c).policy = t
    BY <2>1
  <2> QED BY <2>2, Zenon
<1>2. /\ Has(a, f) => f \in {"domains", "wildcard", "dns", "email", "uri", "uriProtocols", "ip"}
  BY NamesBackHas
<1>3. (Has(b, f) <=> f \in Names \cup {"ou"}) /\ (Has(b, f) => List(b, f) = z(f))
  <2>1. b = [g \in Names \cup {"ou"} |-> z(g)]
    BY Zenon DEF SubjectBack, NoText
  <2> HIDE DEF z, b
  <2> QED BY <2>1 DEF Has, List
<1>4. Has(d, f) => f \in {"keyType", "rsa", "curve", "service", "keyPair", "reuse"}
  BY KeysBackHas
<1> HIDE DEF a, b, d, x, y, s, z
<1>5. /\ Has(e, f) <=> f \in {"subject", "days", "ca"}
      /\ f = "days" => List(e, f) = x
      /\ f = "ca" => List(e, f) = y
  BY DEF Has, List
<1> HIDE DEF e
<1>6. /\ Has(s, f) <=> Has(a, f) \/ Has(b, f) \/ Has(d, f) \/ Has(e, f)
      /\ List(s, f) = IF Has(a, f) THEN List(a, f) ELSE IF Has(b, f) THEN List(b, f)
                             ELSE IF Has(d, f) THEN List(d, f) ELSE List(e, f)
  BY <1>1, Fourfold
<1>7. /\ ~ Has(a, f) => List(a, f) = <<>>
      /\ ~ Has(d, f) => List(d, f) = <<>>
      /\ ~ Has(e, f) => List(e, f) = <<>>
  BY ListOfNone, Zenon
<1>8. f \in {"domains", "wildcard", "dns", "email", "uri", "uriProtocols", "ip"} =>
        (Has(s, f) <=> Has(a, f)) /\ List(s, f) = List(a, f)
  BY <1>3, <1>4, <1>5, <1>6, <1>7 DEF Names
<1>9. f \in Names \cup {"ou"} => Has(s, f) /\ List(s, f) = z(f)
  BY <1>2, <1>3, <1>6 DEF Names
<1>10. f \in {"keyType", "rsa", "curve", "service", "reuse"} =>
         (Has(s, f) <=> Has(d, f)) /\ List(s, f) = List(d, f)
  BY <1>2, <1>3, <1>5, <1>6, <1>7 DEF Names
<1>11. f = "ca" => Has(s, f) /\ List(s, f) = y
  BY <1>2, <1>3, <1>4, <1>5, <1>6 DEF Names
<1>12. f = "days" => Has(s, f) /\ List(s, f) = x
  BY <1>2, <1>3, <1>4, <1>5, <1>6 DEF Names
<1>13. f \in {"upn", "ipConstraints"} => ~ Has(s, f) /\ List(s, f) = <<>>
  BY <1>2, <1>3, <1>4, <1>5, <1>6, <1>7 DEF Names
<1> QED
  BY <1>8, <1>9, <1>10, <1>11, <1>12, <1>13, Zenon DEF a, d, x, y, s, z

(* The defaults that are printed, of what a template recommends.           *)
Recommended(c) == c.recommended.key # <<>> /\ Worded(c.recommended.key[1])
Sized(c)       == Recommended(c) /\ Worded(c.recommended.key[2])

LEMMA PrintedDefault ==
  ASSUME NEW c, NEW f, DOMAIN c.recommended.subject \subseteq Names \cup {"ou"}
  PROVE  LET s == buildPolicySpecification(c).default
             rec == c.recommended
         IN  /\ f \in Names \cup {"ou"} =>
                  /\ Has(s, f) <=> f \in DOMAIN rec.subject /\ rec.subject[f] # NoText
                  /\ Has(s, f) => List(s, f) = rec.subject[f]
             /\ Has(s, "keyType") <=> Recommended(c)
             /\ Recommended(c) => List(s, "keyType") = <<rec.key[1]>>
             /\ Has(s, "rsa") <=> Sized(c) /\ rec.key[1] = "RSA"
             /\ Has(s, "rsa") => List(s, "rsa") = <<rec.key[2]>>
             /\ Has(s, "curve") <=> Sized(c) /\ rec.key[1] # "RSA"
             /\ Has(s, "curve") => List(s, "curve") = <<rec.key[2]>>
<1> DEFINE rec == c.recommended
           names == {g \in DOMAIN rec.subject : rec.subject[g] # NoText}
           m == [g \in names |-> rec.subject[g]]
           a == Object(m, "subject")
           x == <<rec.key[1]>>
           y == <<rec.key[2]>>
           isRsa == rec.key[1] = "RSA"
           k == [keyType |-> x, keyPair |-> <<>>]
           r == Recommended(c)
           w == Worded(rec.key[2])
           k2 == IF ~ w THEN <<>> ELSE IF isRsa THEN [rsa |-> y] ELSE [curve |-> y]
           key == IF ~ r THEN <<>> ELSE k ++ k2
           t == a ++ key
           s == buildPolicySpecification(c).default
<1>1. s = t
  <2> DEFINE kk == IF rec.key = <<>> \/ rec.key[1] = "" THEN <<>>
                   ELSE [keyType |-> <<rec.key[1]>>, keyPair |-> <<>>]
                          ++ (CASE rec.key[2] = "" -> <<>>
                                [] rec.key[2] # "" /\ rec.key[1] = "RSA" -> [rsa |-> <<rec.key[2]>>]
                                [] OTHER -> [curve |-> <<rec.key[2]>>])
             pp == NamesBack(c) ++ SubjectBack(c) ++ KeyPairBack(c)
                     ++ [subject |-> <<>>, days |-> <<c.product.days>>, ca |-> <<c.product.ca>>]
  <2>1. DefaultsBack(c) = a ++ kk
    BY Zenon DEF DefaultsBack, NoText
  <2>2. kk = key
    <3>1. CASE rec.key = <<>> \/ rec.key[1] = ""
      BY <3>1, Zenon DEF Recommended, Worded
    <3>2. CASE ~ (rec.key = <<>> \/ rec.key[1] = "")
      <4>1. r
        BY <3>2, Zenon DEF Recommended, Worded
      <4> DEFINE o == CASE rec.key[2] = "" -> <<>>
                        [] rec.key[2] # "" /\ rec.key[1] = "RSA" -> [rsa |-> <<rec.key[2]>>]
                        [] OTHER -> [curve |-> <<rec.key[2]>>]
      <4>2. o = k2
        <5>1. CASE rec.key[2] = ""
          BY <5>1, Zenon DEF Worded
        <5>2. CASE rec.key[2] # "" /\ rec.key[1] = "RSA"
          BY <5>2, Zenon DEF Worded
        <5>3. CASE rec.key[2] # "" /\ rec.key[1] # "RSA"
          BY <5>3, Zenon DEF Worded
        <5> QED BY <5>1, <5>2, <5>3, Zenon
      <4>3. kk = k ++ o
        BY <3>2, Zenon
      <4> HIDE DEF o, k2, k, kk, r
      <4> QED BY <4>1, <4>2, <4>3
    <3> QED BY <3>1, <3>2, Zenon
  <2>3. buildPolicySpecification(c) = [policy |-> pp, default |-> DefaultsBack(c)]
    BY Zenon DEF buildPolicySpecification
  <2> HIDE DEF pp, kk, key, a
  <2>4. buildPolicySpecification(c).default = DefaultsBack(c)
    BY <2>3
  <2> QED BY <2>1, <2>2, <2>4, Zenon
<1> HIDE DEF s, r, w, isRsa, x, y
<1>2. ASSUME NEW g
      PROVE  /\ Has(m, g) <=> g \in DOMAIN rec.subject /\ rec.subject[g] # NoText
             /\ Has(m, g) => List(m, g) = rec.subject[g]
  BY DEF Has, List
<1> HIDE DEF m
<1>3. ASSUME NEW g
      PROVE  (Has(a, g) => Has(m, g) \/ g = "subject") /\ (Has(m, g) => Has(a, g)) /\ List(a, g) = List(m, g)
  BY ObjectHas
<1>4. ASSUME NEW g
      PROVE  (Has(k, g) <=> g \in {"keyType", "keyPair"}) /\ (g = "keyType" => List(k, g) = x)
  BY DEF Has, List
<1>5. ASSUME NEW g
      PROVE  (Has(k2, g) <=> w /\ g = IF isRsa THEN "rsa" ELSE "curve") /\ (Has(k2, g) => List(k2, g) = y)
  <2>1. CASE ~ w
    BY <2>1, NothingHas
  <2>2. CASE w /\ isRsa
    BY <2>2 DEF Has, List
  <2>3. CASE w /\ ~ isRsa
    BY <2>3 DEF Has, List
  <2> QED BY <2>1, <2>2, <2>3
<1> HIDE DEF k, k2, a
<1>6. ASSUME NEW g
      PROVE  /\ Has(key, g) <=> r /\ (Has(k, g) \/ Has(k2, g))
             /\ r => List(key, g) = IF Has(k, g) THEN List(k, g) ELSE List(k2, g)
  <2>1. (Has(k ++ k2, g) <=> Has(k, g) \/ Has(k2, g))
        /\ List(k ++ k2, g) = IF Has(k, g) THEN List(k, g) ELSE List(k2, g)
    BY OverHas, OverList, Zenon
  <2>2. CASE r
    BY <2>1, <2>2
  <2>3. CASE ~ r
    BY <2>3, NothingHas
  <2> QED BY <2>2, <2>3
<1> HIDE DEF key
<1>7. ASSUME NEW g
      PROVE  (Has(s, g) <=> Has(a, g) \/ Has(key, g)) /\ List(s, g) = IF Has(a, g) THEN List(a, g) ELSE List(key, g)
  <2>1. (Has(a ++ key, g) <=> Has(a, g) \/ Has(key, g))
        /\ List(a ++ key, g) = IF Has(a, g) THEN List(a, g) ELSE List(key, g)
    BY OverHas, OverList, Zenon
  <2> QED BY <1>1, <2>1, Zenon
<1> HIDE DEF t
<1>8. Sized(c) <=> r /\ w
  BY Zenon DEF Sized, r, w
<1>9. f \in Names \cup {"ou"} =>
        /\ Has(s, f) <=> f \in DOMAIN rec.subject /\ rec.subject[f] # NoText
        /\ Has(s, f) => List(s, f) = rec.subject[f]
  BY <1>2, <1>3, <1>4, <1>5, <1>6, <1>7 DEF Names
<1>10. ASSUME NEW g \in {"keyType", "rsa", "curve"}
       PROVE  ~ Has(a, g)
  BY <1>2, <1>3 DEF Names
<1>11. (Has(s, "keyType") <=> r) /\ (r => List(s, "keyType") = x)
  BY <1>4, <1>5, <1>6, <1>7, <1>10
<1>12. (Has(s, "rsa") <=> r /\ w /\ isRsa) /\ (Has(s, "rsa") => List(s, "rsa") = y)
  BY <1>4, <1>5, <1>6, <1>7, <1>10
<1>13. (Has(s, "curve") <=> r /\ w /\ ~ isRsa) /\ (Has(s, "curve") => List(s, "curve") = y)
  BY <1>4, <1>5, <1>6, <1>7, <1>10
<1> QED
  BY <1>8, <1>9, <1>11, <1>12, <1>13, Zenon DEF s, r, isRsa, x, y

-----------------------------------------------------------------------------
(* The lists of names *)

LEMMA RegexOfDomains ==
  ASSUME NEW T, NEW list \in Seq(T), NEW wild \in BOOLEAN
  PROVE  LET regex == ConvertToRegex(list, wild)
         IN  /\ RemoveRegex(regex) = list
             /\ regex # <<AnyText>>
             /\ list # <<>> => (isWildCard(regex) <=> wild)
<1> DEFINE regex == ConvertToRegex(list, wild)
           x(i) == Suffix(list[i], wild)
<1>1. regex = [i \in DOMAIN list |-> x(i)]
  BY Zenon DEF ConvertToRegex
<1>2. \A i : x(i).of = list[i] /\ x(i).form = IF wild THEN "wildcard" ELSE "suffix"
  BY DEF Suffix
<1>3. AnyText.form = "literal"
  BY Zenon DEF AnyText
<1>4. DOMAIN list = 1 .. Len(list) /\ Len(list) \in Nat /\ list = [i \in 1 .. Len(list) |-> list[i]]
  OBVIOUS
<1> HIDE DEF regex, x
<1>5. DOMAIN regex = 1 .. Len(list) /\ \A i \in 1 .. Len(list) : regex[i] = x(i)
  BY <1>1, <1>4
<1>6. RemoveRegex(regex) = list
  <2>1. RemoveRegex(regex) = [i \in 1 .. Len(list) |-> regex[i].of]
    BY <1>5, Zenon DEF RemoveRegex
  <2> QED BY <1>2, <1>4, <1>5, <2>1
<1>7. regex # <<AnyText>>
  <2> SUFFICES ASSUME regex = <<AnyText>>
               PROVE  FALSE
    OBVIOUS
  <2>1. 1 \in DOMAIN regex /\ regex[1] = AnyText
    <3> DEFINE a == AnyText
    <3> HIDE DEF a
    <3>1. 1 \in DOMAIN <<a>> /\ <<a>>[1] = a
      OBVIOUS
    <3> QED BY <3>1 DEF a
  <2>2. AnyText.form = x(1).form
    BY <1>5, <2>1
  <2> QED BY <1>2, <1>3, <2>2
<1>8. list # <<>> => (isWildCard(regex) <=> wild)
  <2> SUFFICES ASSUME list # <<>>
               PROVE  isWildCard(regex) <=> wild
    OBVIOUS
  <2>1. 1 \in 1 .. Len(list)
    BY <1>4
  <2>2. regex # <<>>
    BY <1>5, <2>1
  <2>3. isWildCard(regex) <=> \A i \in 1 .. Len(list) : x(i).form = "wildcard"
    BY <1>5, <2>2 DEF isWildCard
  <2> QED BY <1>2, <2>1, <2>3
<1> QED
  BY <1>6, <1>7, <1>8, Zenon DEF regex

(* The parts of the lists of names of a template.                          *)
NamesRegex(ps) ==
  IF Domains(ps) = <<>> THEN <<AnyText>> ELSE ConvertToRegex(Domains(ps), IsWildcardAllowed(ps))
Mail(ps) == IF Domains(ps) = <<>> THEN <<AllowAll>> ELSE Domains(ps)
Protocols(ps) == List(ps.policy, "uriProtocols")
NameKinds(ps) ==
  {"cn"} \cup (IF Domains(ps) = <<>> \/ ~ Flag(ps.policy, "dns", "false") THEN {"dns"} ELSE {})
    \cup (IF Flag(ps.policy, "email", "true") THEN {"email"} ELSE {})
    \cup (IF Protocols(ps) # <<>> THEN {"uri"} ELSE {})

LEMMA NamesParts ==
  ASSUME NEW ps
  PROVE  LET names == CitNames(ps)
         IN  /\ DOMAIN names = NameKinds(ps)
             /\ names.cn = NamesRegex(ps)
             /\ "uri" \in NameKinds(ps) => names.uri.protocols = Protocols(ps)
<1> DEFINE cn == NamesRegex(ps)
           mail == Mail(ps)
           uri == [protocols |-> Protocols(ps), domains |-> mail]
           lists == NameKinds(ps)
           v(f) == CASE f \in {"cn", "dns"} -> cn [] f = "email" -> mail [] OTHER -> uri
           names == CitNames(ps)
<1>1. names = [f \in lists |-> v(f)]
  BY Zenon DEF CitNames, NamesRegex, Mail, Protocols, NameKinds
<1>2. "cn" \in lists
  BY Zenon DEF NameKinds
<1> HIDE DEF cn, mail, lists, names
<1>3. v("cn") = cn /\ v("uri") = uri
  <2>1. "cn" \in {"cn", "dns"} /\ "uri" \notin {"cn", "dns"} /\ "uri" # "email" /\ "cn" # "email"
    OBVIOUS
  <2> HIDE DEF uri
  <2> QED BY <2>1
<1>4. uri.protocols = Protocols(ps)
  OBVIOUS
<1> HIDE DEF v, uri
<1>5. DOMAIN names = lists /\ \A f \in lists : names[f] = v(f)
  BY <1>1
<1> QED
  BY <1>2, <1>3, <1>4, <1>5, Zenon DEF cn, names, lists

(* Equal domains, wildcards, protocols and kinds of name make equal lists. *)
LEMMA SameNames ==
  ASSUME NEW ps, NEW q, Domains(ps) # <<>>, Domains(q) = Domains(ps), IsWildcardAllowed(q) = IsWildcardAllowed(ps),
         Protocols(q) = Protocols(ps), NameKinds(q) = NameKinds(ps)
  PROVE  CitNames(q) = CitNames(ps)
<1> DEFINE v(p, f) == CASE f \in {"cn", "dns"} -> NamesRegex(p)
                        [] f = "email" -> Mail(p)
                        [] OTHER -> [protocols |-> Protocols(p), domains |-> Mail(p)]
<1>1. ASSUME NEW p
      PROVE  CitNames(p) = [f \in NameKinds(p) |-> v(p, f)]
  BY Zenon DEF CitNames, NamesRegex, Mail, Protocols, NameKinds
<1>2. NamesRegex(q) = NamesRegex(ps) /\ Mail(q) = Mail(ps)
  BY Zenon DEF NamesRegex, Mail
<1>3. \A f : v(q, f) = v(ps, f)
  BY <1>2, Zenon
<1> HIDE DEF v
<1> QED
  BY <1>1, <1>3

(* The specification that getpolicy prints of the template of one.         *)
Printed(ps) == buildPolicySpecification(BuildCloudCitRequest(ps))

LEMMA TemplateKinds ==
  ASSUME NEW ps
  PROVE  /\ DOMAIN CitKeyTypes(ps) \subseteq {"RSA", "EC"}
         /\ DOMAIN CitRecommended(ps).subject = DOMAIN ps.default \cap (Names \cup {"ou"})
         /\ \A f \in DOMAIN CitRecommended(ps).subject : CitRecommended(ps).subject[f] = <<Value(ps.default, f)>>
<1> DEFINE types == IF List(ps.policy, "keyType") = <<>> THEN {"RSA"} ELSE ToSet(ps.policy.keyType)
           x(t) == IF t = "RSA" THEN KeyParameter(ps, "rsa", "2048") ELSE KeyParameter(ps, "curve", "P256")
           d == DOMAIN ps.default \cap (Names \cup {"ou"})
           y(f) == <<Value(ps.default, f)>>
           key == IF ~Has(ps.default, "keyType") THEN <<>>
                  ELSE CASE Value(ps.default, "keyType") = "RSA" ->
                              <<"RSA", IF Has(ps.default, "rsa") THEN Value(ps.default, "rsa") ELSE "2048">>
                         [] Value(ps.default, "keyType") = "EC" ->
                              <<"EC", IF Filled(ps.default, "curve") THEN Value(ps.default, "curve") ELSE "P256">>
                         [] OTHER -> <<Value(ps.default, "keyType"), "">>
<1>1. CitKeyTypes(ps) = [t \in types \cap {"RSA", "EC"} |-> x(t)]
  BY Zenon DEF CitKeyTypes
<1>2. CitRecommended(ps) = [subject |-> [f \in d |-> y(f)], key |-> key]
  BY Zenon DEF CitRecommended
<1> HIDE DEF types, x, d, y, key
<1>3. DOMAIN CitKeyTypes(ps) \subseteq {"RSA", "EC"}
  BY <1>1
<1>4. CitRecommended(ps).subject = [f \in d |-> y(f)]
  BY <1>2
<1>5. DOMAIN CitRecommended(ps).subject = d /\ \A f \in d : CitRecommended(ps).subject[f] = y(f)
  BY <1>4
<1> QED
  BY <1>3, <1>5, Zenon DEF d, y

LEMMA FlagOfList ==
  ASSUME NEW s, NEW f, NEW b \in BOOLEAN, Has(s, f), List(s, f) = Bool(b)
  PROVE  (Flag(s, f, "true") <=> b) /\ (Flag(s, f, "false") <=> ~ b)
<1>1. Value(s, f) = IF b THEN "true" ELSE "false"
  BY BoolValue
<1> QED
  BY <1>1, TrueIsNotFalse DEF Flag

(* A list is left as it is if it has no member twice.                      *)
LEMMA DistinctMembers ==
  ASSUME NEW S, NEW s \in Seq(S)
  PROVE  /\ Distinct(s) = s <=> IsInjective(s)
         /\ Distinct(s) # <<>> <=> s # <<>>
<1> DEFINE n == Len(s)
           P == {i \in DOMAIN s : \A j \in DOMAIN s : j < i => s[j] # s[i]}
           m == Cardinality(P)
<1>1. n \in Nat /\ DOMAIN s = 1 .. n
  OBVIOUS
<1>2. P \in SUBSET (1 .. n)
  BY <1>1
<1>3. Distinct(s) = [i \in 1 .. m |-> s[Nth(P, i)]]
  BY Zenon DEF Distinct, Selected
<1>4. n # 0 => 1 \in P
  BY <1>1
<1>5. IsInjective(s) <=> P = 1 .. n
  <2>1. ASSUME IsInjective(s), NEW i \in 1 .. n
        PROVE  i \in P
    BY <1>1, <2>1 DEF IsInjective
  <2>2. ASSUME P = 1 .. n, NEW i \in 1 .. n, NEW j \in 1 .. n, s[i] = s[j]
        PROVE  i = j
    <3>1. i \in P /\ j \in P
      BY <2>2
    <3>2. ~ (i < j) /\ ~ (j < i)
      BY <1>1, <2>2, <3>1
    <3> QED BY <3>2
  <2>3. ASSUME IsInjective(s)
        PROVE  P = 1 .. n
    <3>1. \A i \in 1 .. n : i \in P
      BY <2>1, <2>3
    <3> HIDE DEF P
    <3> QED BY <1>2, <3>1
  <2>4. ASSUME P = 1 .. n
        PROVE  IsInjective(s)
    <3>1. \A i, j \in 1 .. n : s[i] = s[j] => i = j
      BY <2>2, <2>4, Zenon
    <3> QED BY <1>1, <3>1, Zenon DEF IsInjective
  <2> QED BY <2>3, <2>4
<1> HIDE DEF P, m
<1>6. m \in Nat /\ (P # {} => m # 0) /\ (P # 1 .. n => m # n)
  <2>1. IsFiniteSet(1 .. n) /\ Cardinality(1 .. n) = n
    BY <1>1, FS_Interval
  <2>2. IsFiniteSet(P) /\ m \in Nat
    BY <1>2, <2>1, FS_Subset, FS_CardinalityType DEF m
  <2>3. P # {} => m # 0
    BY <2>2, FS_EmptySet DEF m
  <2>4. P # 1 .. n => m < n
    <3>1. Cardinality(P) <= Cardinality(1 .. n) /\ (Cardinality(P) = Cardinality(1 .. n) => P = 1 .. n)
      BY <1>2, <2>1, FS_Subset, Zenon
    <3> QED BY <1>1, <2>1, <2>2, <3>1 DEF m
  <2>5. m < n => m # n
    <3>1. \A a, b \in Nat : a < b => a # b
      OBVIOUS
    <3> QED BY <1>1, <2>2, <3>1, Zenon
  <2> QED BY <2>2, <2>3, <2>4, <2>5, Zenon
<1>7. Len(Distinct(s)) = m /\ (Distinct(s) = <<>> <=> m = 0)
  BY <1>3, <1>6
<1>8. s = <<>> <=> n = 0
  OBVIOUS
<1>9. n = 0 => m = 0
  <2>1. n = 0 => P = {}
    BY <1>2
  <2> QED BY <2>1, FS_EmptySet DEF m
<1>10. P = 1 .. n => Distinct(s) = s
  <2> SUFFICES ASSUME P = 1 .. n
               PROVE  Distinct(s) = s
    OBVIOUS
  <2>1. P = 0 + 1 .. 0 + n
    BY <1>1
  <2>2. Distinct(s) = Selected(s, 0 + 1 .. 0 + n)
    BY <2>1, Zenon DEF Distinct, P
  <2>3. 0 \in Nat
    OBVIOUS
  <2> DEFINE q == Selected(s, 0 + 1 .. 0 + n)
  <2>4. DOMAIN q = 1 .. n /\ \A i \in 1 .. n : q[i] = s[0 + i]
    BY <1>1, <2>3, SelectedInterval
  <2>5. \A i \in 1 .. n : Distinct(s)[i] = s[i]
    BY <1>1, <2>2, <2>4
  <2>6. Distinct(s) = [i \in DOMAIN Distinct(s) |-> Distinct(s)[i]] /\ s = [i \in DOMAIN s |-> s[i]]
    BY <1>3
  <2> QED BY <1>1, <2>2, <2>4, <2>5, <2>6
<1> QED
  BY <1>4, <1>5, <1>6, <1>7, <1>8, <1>9, <1>10

LEMMA PrintedNames ==
  ASSUME NEW ps, IsSpecification(ps)
  PROVE  /\ Domains(Printed(ps)) = RemoveRegex(NamesRegex(ps))
         /\ IsWildcardAllowed(Printed(ps)) <=> isWildCard(NamesRegex(ps))
         /\ \A f \in {"dns", "email", "uri"} :
              /\ ~ Flag(Printed(ps).policy, f, "false")
              /\ Flag(Printed(ps).policy, f, "true") <=> f \in NameKinds(ps)
         /\ Protocols(Printed(ps)) = Distinct(Protocols(ps))
         /\ Flag(Printed(ps).policy, "ip", "true") <=> CitAddresses(ps) # <<>>
<1> DEFINE c == BuildCloudCitRequest(ps)
           s == Printed(ps).policy
           n == NamesBack(c)
<1>1. c.names = CitNames(ps) /\ c.ip = CitAddresses(ps) /\ DOMAIN c.keyTypes \subseteq {"RSA", "EC"}
  BY TemplateFields, TemplateKinds, Zenon
<1>2. DOMAIN c.names = NameKinds(ps) /\ c.names.cn = NamesRegex(ps)
      /\ ("uri" \in NameKinds(ps) => c.names.uri.protocols = Protocols(ps))
  BY <1>1, NamesParts, Zenon
<1>3. ASSUME NEW f \in {"domains", "wildcard", "dns", "email", "uri", "uriProtocols", "ip"}
      PROVE  (Has(s, f) <=> Has(n, f)) /\ List(s, f) = List(n, f)
  BY <1>1, PrintedPolicy, Zenon DEF Printed
<1> HIDE DEF c, s, n
<1>p. Protocols(ps) \in Seq(STRING)
  BY WrittenList, Zenon DEF Protocols, IsSpecification
<1>4. Domains(Printed(ps)) = RemoveRegex(NamesRegex(ps))
  <2>1. List(n, "domains") = RemoveRegex(c.names.cn)
    BY NamesBackHas, Zenon DEF n
  <2>2. "domains" \in {"domains", "wildcard", "dns", "email", "uri", "uriProtocols", "ip"}
    OBVIOUS
  <2> QED BY <1>2, <1>3, <2>1, <2>2, Zenon DEF Domains, s
<1>5. IsWildcardAllowed(Printed(ps)) <=> isWildCard(NamesRegex(ps))
  <2>1. Has(n, "wildcard") /\ List(n, "wildcard") = Bool(isWildCard(c.names.cn))
    <3>1. "wildcard" \in {"domains", "wildcard"}
      OBVIOUS
    <3> QED BY <3>1, NamesBackHas, Zenon DEF n
  <2>2. "wildcard" \in {"domains", "wildcard", "dns", "email", "uri", "uriProtocols", "ip"}
    OBVIOUS
  <2> DEFINE b == isWildCard(NamesRegex(ps))
  <2>3. b \in BOOLEAN
    BY DEF isWildCard
  <2>4. Has(s, "wildcard") /\ List(s, "wildcard") = Bool(b)
    BY <1>2, <1>3, <2>1, <2>2, Zenon
  <2> HIDE DEF b
  <2>5. Flag(s, "wildcard", "true") <=> b
    BY <2>3, <2>4, FlagOfList
  <2> QED BY <2>5, Zenon DEF b, IsWildcardAllowed, s
<1>6. ASSUME NEW f \in {"dns", "email", "uri"}
      PROVE  ~ Flag(s, f, "false") /\ (Flag(s, f, "true") <=> f \in NameKinds(ps))
  <2>1. f \in {"domains", "wildcard", "dns", "email", "uri", "uriProtocols", "ip"} /\ f \notin {"domains", "wildcard"}
        /\ f # "uriProtocols" /\ f # "ip"
    OBVIOUS
  <2>2. Has(n, f) <=> f \in NameKinds(ps)
    BY <1>2, <2>1, NamesBackHas, Zenon DEF n
  <2>3. f \in NameKinds(ps) => List(n, f) = Bool(TRUE)
    BY <1>2, <2>1, NamesBackHas, Zenon DEF n
  <2>4. CASE f \in NameKinds(ps)
    <3>1. Has(s, f) /\ List(s, f) = Bool(TRUE)
      BY <1>3, <2>1, <2>2, <2>3, <2>4, Zenon
    <3>2. Value(s, f) = "true"
      BY <3>1 DEF Value, Bool
    <3> QED BY <2>4, <3>1, <3>2, TrueIsNotFalse DEF Flag
  <2>5. CASE f \notin NameKinds(ps)
    <3>1. ~ Has(s, f)
      BY <1>3, <2>1, <2>2, <2>5, Zenon
    <3> QED BY <2>5, <3>1 DEF Flag
  <2> QED BY <2>4, <2>5
<1>7. Protocols(Printed(ps)) = Distinct(Protocols(ps))
  <2>1. "uriProtocols" \in {"domains", "wildcard", "dns", "email", "uri", "uriProtocols", "ip"}
        /\ "uriProtocols" \notin {"domains", "wildcard"} /\ "uriProtocols" \notin {"dns", "email", "uri"}
        /\ "uriProtocols" # "ip"
    OBVIOUS
  <2>2. "uri" \in NameKinds(ps) <=> Protocols(ps) # <<>>
    BY DEF NameKinds
  <2>3. CASE "uri" \in NameKinds(ps)
    <3>1. List(n, "uriProtocols") = Distinct(Protocols(ps))
      BY <1>2, <2>3, NamesBackHas, Zenon DEF n
    <3> QED BY <1>3, <2>1, <3>1, Zenon DEF Protocols, s
  <2>4. CASE "uri" \notin NameKinds(ps)
    <3>1. ~ Has(n, "uriProtocols")
      BY <1>2, <2>1, <2>4, NamesBackHas, Zenon DEF n
    <3>2. List(n, "uriProtocols") = <<>>
      BY <3>1, ListOfNone, Zenon
    <3>3. Distinct(Protocols(ps)) = <<>>
      BY <2>2, <2>4, <1>p, DistinctMembers
    <3> QED BY <1>3, <2>1, <3>2, <3>3, Zenon DEF Protocols, s
  <2> QED BY <2>3, <2>4
<1>8. Flag(s, "ip", "true") <=> CitAddresses(ps) # <<>>
  <2>1. "ip" \in {"domains", "wildcard", "dns", "email", "uri", "uriProtocols", "ip"}
        /\ "ip" \notin {"domains", "wildcard"} /\ "ip" \notin {"dns", "email", "uri"} /\ "ip" # "uriProtocols"
    OBVIOUS
  <2>2. CASE CitAddresses(ps) # <<>>
    <3>1. Has(n, "ip") /\ List(n, "ip") = Bool(TRUE)
      BY <1>1, <2>2, NamesBackHas, Zenon DEF n, c
    <3>2. Has(s, "ip") /\ List(s, "ip") = Bool(TRUE)
      BY <1>3, <2>1, <3>1, Zenon
    <3>3. Value(s, "ip") = "true"
      BY <3>2 DEF Value, Bool
    <3> QED BY <2>2, <3>2, <3>3 DEF Flag
  <2>3. CASE CitAddresses(ps) = <<>>
    <3>1. ~ Has(n, "ip")
      BY <1>1, <2>1, <2>3, NamesBackHas, Zenon DEF n, c
    <3>2. ~ Has(s, "ip")
      BY <1>3, <2>1, <3>1, Zenon
    <3> QED BY <2>3, <3>2 DEF Flag
  <2> QED BY <2>2, <2>3
<1> QED
  BY <1>4, <1>5, <1>6, <1>7, <1>8, Zenon DEF s

(* The names of a template are printed as they are, unless domains are not *)
(* restricted or host names are forbidden.                                 *)
LEMMA NamesWrittenAgain ==
  ASSUME NEW ps, IsSpecification(ps)
  PROVE  CitNames(Printed(ps)) = CitNames(ps)
           <=> /\ NamesRegex(ps) # <<AnyText>> /\ "dns" \in NameKinds(ps)
               /\ "uri" \in NameKinds(ps) => IsInjective(Protocols(ps))
<1> DEFINE q == Printed(ps)
<1>0. /\ Distinct(Protocols(ps)) = Protocols(ps) <=> IsInjective(Protocols(ps))
      /\ Distinct(Protocols(ps)) # <<>> <=> Protocols(ps) # <<>>
  <2>1. Protocols(ps) \in Seq(STRING)
    BY WrittenList, Zenon DEF Protocols, IsSpecification
  <2> QED BY <2>1, DistinctMembers
<1>1. Domains(ps) \in Seq(STRING)
  BY WrittenList, Zenon DEF Domains, IsSpecification
<1>2. IsWildcardAllowed(ps) \in BOOLEAN /\ IsWildcardAllowed(q) \in BOOLEAN
  BY DEF IsWildcardAllowed, Flag
<1>3. "dns" \in NameKinds(q)
  <2>1. ~ Flag(q.policy, "dns", "false")
    <3>1. "dns" \in {"dns", "email", "uri"}
      OBVIOUS
    <3> QED BY <3>1, PrintedNames, Zenon
  <2> QED BY <2>1, Zenon DEF NameKinds
<1>4. CASE Domains(ps) = <<>>
  <2>1. NamesRegex(ps) = <<AnyText>>
    BY <1>4, Zenon DEF NamesRegex
  <2>2. Domains(q) = RemoveRegex(<<AnyText>>)
    BY <2>1, PrintedNames, Zenon
  <2>3. RemoveRegex(<<AnyText>>) = <<AnyText.of>>
    <3> DEFINE a == AnyText
    <3> HIDE DEF a
    <3>1. RemoveRegex(<<a>>) = <<a.of>>
      BY DEF RemoveRegex
    <3> QED BY <3>1 DEF a
  <2>4. NamesRegex(q) # <<AnyText>>
    <3> DEFINE x == AnyText.of
               T == {x}
               w == IsWildcardAllowed(q)
    <3>1. Domains(q) = <<x>>
      BY <2>2, <2>3
    <3> HIDE DEF x, w
    <3>2. <<x>> \in Seq(T) /\ <<x>> # <<>>
      OBVIOUS
    <3> HIDE DEF T
    <3>3. w \in BOOLEAN
      BY <1>2 DEF w
    <3>4. ConvertToRegex(<<x>>, w) # <<AnyText>>
      BY <3>2, <3>3, RegexOfDomains, Zenon
    <3> QED BY <3>1, <3>2, <3>4, Zenon DEF NamesRegex, w
  <2>5. CitNames(q) # CitNames(ps)
    BY <2>1, <2>4, NamesParts, Zenon
  <2> QED BY <2>1, <2>5
<1>5. CASE Domains(ps) # <<>>
  <2>1. NamesRegex(ps) = ConvertToRegex(Domains(ps), IsWildcardAllowed(ps))
    BY <1>5, Zenon DEF NamesRegex
  <2>2. /\ RemoveRegex(NamesRegex(ps)) = Domains(ps)
        /\ NamesRegex(ps) # <<AnyText>>
        /\ isWildCard(NamesRegex(ps)) <=> IsWildcardAllowed(ps)
    BY <1>1, <1>2, <1>5, <2>1, RegexOfDomains, Zenon
  <2>3. Domains(q) = Domains(ps) /\ Protocols(q) = Distinct(Protocols(ps))
    BY <2>2, PrintedNames, Zenon
  <2>4. IsWildcardAllowed(q) = IsWildcardAllowed(ps)
    <3>1. IsWildcardAllowed(q) <=> IsWildcardAllowed(ps)
      BY <2>2, PrintedNames, Zenon
    <3> QED BY <1>2, <3>1
  <2>5. NameKinds(q) = NameKinds(ps) \cup {"dns"}
    <3>1. Flag(q.policy, "email", "true") <=> "email" \in NameKinds(ps)
      <4>1. "email" \in {"dns", "email", "uri"}
        OBVIOUS
      <4> QED BY <4>1, PrintedNames, Zenon
    <3>2. "email" \in NameKinds(ps) <=> Flag(ps.policy, "email", "true")
      BY DEF NameKinds
    <3> QED BY <1>0, <1>3, <2>3, <3>1, <3>2 DEF NameKinds
  <2>6. CASE "dns" \in NameKinds(ps)
    <3>1. NameKinds(q) = NameKinds(ps)
      BY <2>5, <2>6
    <3>2. CASE Protocols(q) = Protocols(ps)
      <4>1. CitNames(q) = CitNames(ps)
        BY <1>5, <2>3, <2>4, <3>1, <3>2, SameNames, Zenon
      <4> QED BY <1>0, <2>2, <2>3, <2>6, <3>2, <4>1
    <3>3. CASE Protocols(q) # Protocols(ps)
      <4>1. "uri" \in NameKinds(ps)
        <5>1. Protocols(ps) # <<>>
          BY <1>0, <2>3, <3>3
        <5> QED BY <5>1 DEF NameKinds
      <4>2. CitNames(q) # CitNames(ps)
        BY <3>1, <3>3, <4>1, NamesParts, Zenon
      <4> QED BY <1>0, <2>3, <3>3, <4>1, <4>2
    <3> QED BY <3>2, <3>3
  <2>7. CASE "dns" \notin NameKinds(ps)
    <3>1. CitNames(q) # CitNames(ps)
      BY <1>3, <2>7, NamesParts, Zenon
    <3> QED BY <2>7, <3>1
  <2> QED BY <2>6, <2>7
<1> QED
  BY <1>4, <1>5

(* So are the addresses, if they are none or those of both versions.       *)
BothVersions == <<"v4", "v6">>

LEMMA AddressesWrittenAgain ==
  ASSUME NEW ps, IsSpecification(ps)
  PROVE  CitAddresses(Printed(ps)) = CitAddresses(ps) <=> CitAddresses(ps) \in {<<>>, BothVersions}
<1> DEFINE q == Printed(ps)
<1>1. List(q.policy, "ipConstraints") = <<>>
  <2>1. "ipConstraints" \in {"upn", "ipConstraints"}
    OBVIOUS
  <2>2. DOMAIN BuildCloudCitRequest(ps).keyTypes \subseteq {"RSA", "EC"}
    BY TemplateFields, TemplateKinds, Zenon
  <2> QED BY <2>1, <2>2, PrintedPolicy, Zenon DEF Printed
<1>2. Flag(q.policy, "ip", "true") <=> CitAddresses(ps) # <<>>
  BY PrintedNames, Zenon
<1>3. CitAddresses(q) = IF CitAddresses(ps) = <<>> THEN <<>> ELSE BothVersions
  BY <1>1, <1>2, Zenon DEF CitAddresses, BothVersions
<1>4. BothVersions # <<>>
  BY DEF BothVersions
<1> DEFINE a == CitAddresses(ps)
           b == CitAddresses(q)
<1> HIDE DEF a, b
<1>5. b = a <=> a \in {<<>>, BothVersions}
  BY <1>3, <1>4 DEF a, b
<1> QED
  BY <1>5, Zenon DEF a, b

(* The subject is always printed as it is.                                 *)
AnyName == <<AllowAll>>
Forbidden(ps) == {f \in Names \cup {"ou"} : List(ps.policy, f) = NoText}

LEMMA SubjectParts ==
  ASSUME NEW ps
  PROVE  CitSubject(ps) = [f \in (Names \cup {"ou"}) \ Forbidden(ps) |->
                             IF List(ps.policy, f) = <<>> THEN AnyName ELSE List(ps.policy, f)]
<1> DEFINE x(f) == IF List(ps.policy, f) = <<>> THEN <<AllowAll>> ELSE ps.policy[f]
           y(f) == IF List(ps.policy, f) = <<>> THEN AnyName ELSE List(ps.policy, f)
           a == (Names \cup {"ou"}) \ Forbidden(ps)
<1>1. CitSubject(ps) = [f \in a |-> x(f)]
  BY Zenon DEF CitSubject, Forbidden, NoText
<1>2. ASSUME NEW f
      PROVE  x(f) = y(f)
  <2>1. CASE List(ps.policy, f) = <<>>
    BY <2>1, Zenon DEF AnyName
  <2>2. CASE List(ps.policy, f) # <<>>
    <3>1. List(ps.policy, f) = ps.policy[f]
      BY <2>2, Zenon DEF List
    <3> QED BY <2>2, <3>1, Zenon
  <2> QED BY <2>1, <2>2
<1> HIDE DEF x, y, a
<1>3. [f \in a |-> x(f)] = [f \in a |-> y(f)]
  BY <1>2
<1> QED
  BY <1>1, <1>3, Zenon DEF y, a

LEMMA TextsDiffer == NoText # <<>> /\ AnyName # <<>> /\ AnyName # NoText
<1>1. ASSUME NEW x, NEW y, x # y
      PROVE  <<x>> # <<>> /\ <<y>> # <<>> /\ <<x>> # <<y>>
  <2>1. <<x>>[1] = x /\ <<y>>[1] = y /\ Len(<<x>>) = 1 /\ Len(<<y>>) = 1 /\ Len(<<>>) = 0
    OBVIOUS
  <2> QED BY <1>1, <2>1
<1>2. AllowAll # ""
  BY Zenon DEF AllowAll
<1> QED
  BY <1>1, <1>2, Zenon DEF NoText, AnyName

LEMMA PrintedSubject ==
  ASSUME NEW ps, NEW f \in Names \cup {"ou"}
  PROVE  /\ Has(Printed(ps).policy, f)
         /\ List(Printed(ps).policy, f) =
              IF f \in Forbidden(ps) THEN NoText
              ELSE IF List(ps.policy, f) = <<>> THEN AnyName ELSE List(ps.policy, f)
<1> DEFINE c == BuildCloudCitRequest(ps)
           a == (Names \cup {"ou"}) \ Forbidden(ps)
           y(g) == IF List(ps.policy, g) = <<>> THEN AnyName ELSE List(ps.policy, g)
<1>1. c.subject = CitSubject(ps) /\ DOMAIN c.keyTypes \subseteq {"RSA", "EC"}
  BY TemplateFields, TemplateKinds, Zenon
<1>2. CitSubject(ps) = [g \in a |-> y(g)]
  BY SubjectParts, Zenon
<1>3. Has(Printed(ps).policy, f)
      /\ List(Printed(ps).policy, f) = IF f \in DOMAIN c.subject THEN c.subject[f] ELSE NoText
  BY <1>1, PrintedPolicy, Zenon DEF Printed
<1>4. f \in a <=> f \notin Forbidden(ps)
  OBVIOUS
<1> HIDE DEF c, a, y
<1>5. List(Printed(ps).policy, f) = IF f \in Forbidden(ps) THEN NoText ELSE y(f)
  BY <1>1, <1>2, <1>3, <1>4
<1> QED
  BY <1>3, <1>5, Zenon DEF y

LEMMA SubjectWrittenAgain ==
  ASSUME NEW ps
  PROVE  CitSubject(Printed(ps)) = CitSubject(ps)
<1> DEFINE q == Printed(ps)
           y(p, g) == IF List(p.policy, g) = <<>> THEN AnyName ELSE List(p.policy, g)
<1>1. ASSUME NEW p
      PROVE  CitSubject(p) = [g \in (Names \cup {"ou"}) \ Forbidden(p) |-> y(p, g)]
  BY SubjectParts, Zenon
<1>2. ASSUME NEW f \in Names \cup {"ou"}
      PROVE  List(q.policy, f) = IF f \in Forbidden(ps) THEN NoText ELSE y(ps, f)
  BY PrintedSubject, Zenon
<1>3. ASSUME NEW f \in Names \cup {"ou"}
      PROVE  f \in Forbidden(ps) <=> List(ps.policy, f) = NoText
  BY DEF Forbidden
<1>4. ASSUME NEW f \in Names \cup {"ou"}
      PROVE  f \in Forbidden(q) <=> List(q.policy, f) = NoText
  BY DEF Forbidden
<1> HIDE DEF q
<1>5. ASSUME NEW f \in Names \cup {"ou"}
      PROVE  /\ f \in Forbidden(q) <=> f \in Forbidden(ps)
             /\ f \notin Forbidden(ps) => y(q, f) = y(ps, f)
  BY <1>2, <1>3, <1>4, TextsDiffer
<1> HIDE DEF y
<1>6. Forbidden(q) \subseteq Names \cup {"ou"} /\ Forbidden(ps) \subseteq Names \cup {"ou"}
  BY DEF Forbidden
<1>7. (Names \cup {"ou"}) \ Forbidden(q) = (Names \cup {"ou"}) \ Forbidden(ps)
  BY <1>5, <1>6
<1>8. CitSubject(q) = CitSubject(ps)
  BY <1>1, <1>5, <1>7
<1> QED
  BY <1>8 DEF q

-----------------------------------------------------------------------------
(* The keys *)

LEMMA TypesListed ==
  ASSUME NEW c, DOMAIN c.keyTypes \subseteq {"RSA", "EC"}
  PROVE  ToSet(TypeList(c)) = DOMAIN c.keyTypes
<1> DEFINE T == {"RSA", "EC"}
           r == "RSA" \in DOMAIN c.keyTypes
           e == "EC" \in DOMAIN c.keyTypes
           a == OnlyIf(r, "RSA")
           b == OnlyIf(e, "EC")
           types == DOMAIN c.keyTypes
<1>1. TypeList(c) = a \o b
  BY Zenon DEF TypeList
<1>2. r \in BOOLEAN /\ e \in BOOLEAN /\ "RSA" \in T /\ "EC" \in T
  OBVIOUS
<1>3. \A y : y \in types <=> (r /\ y = "RSA") \/ (e /\ y = "EC")
  OBVIOUS
<1> HIDE DEF T, r, e, types
<1>4. a \in Seq(T) /\ (\A y : y \in ToSet(a) <=> r /\ y = "RSA")
  BY <1>2, SetOfOnlyIf, Zenon
<1>5. b \in Seq(T) /\ (\A y : y \in ToSet(b) <=> e /\ y = "EC")
  BY <1>2, SetOfOnlyIf, Zenon
<1> HIDE DEF a, b
<1>6. ToSet(a \o b) = ToSet(a) \cup ToSet(b)
  BY <1>4, <1>5, SetOfBoth
<1>7. ToSet(TypeList(c)) = types
  BY <1>1, <1>3, <1>4, <1>5, <1>6
<1> QED
  BY <1>7 DEF types

LEMMA ParameterGiven ==
  ASSUME NEW ps, NEW f, NEW builtin
  PROVE  /\ KeyParameter(ps, f, builtin) # <<>>
         /\ List(ps.policy, f) # <<>> => KeyParameter(ps, f, builtin) = List(ps.policy, f)
         /\ (List(ps.policy, f) = <<>> /\ Has(ps.default, f)) =>
              KeyParameter(ps, f, builtin) = <<Value(ps.default, f)>>
         /\ (List(ps.policy, f) = <<>> /\ ~ Has(ps.default, f)) => KeyParameter(ps, f, builtin) = <<builtin>>
<1>1. ASSUME NEW x
      PROVE  <<x>> # <<>>
  OBVIOUS
<1>2. CASE List(ps.policy, f) # <<>>
  <2>1. KeyParameter(ps, f, builtin) = ps.policy[f]
    BY <1>2, Zenon DEF KeyParameter
  <2>2. ps.policy[f] = List(ps.policy, f)
    BY <1>2, Zenon DEF List
  <2> QED BY <1>2, <2>1, <2>2, Zenon
<1>3. CASE List(ps.policy, f) = <<>> /\ Has(ps.default, f)
  <2>1. KeyParameter(ps, f, builtin) = <<Value(ps.default, f)>>
    BY <1>3, Zenon DEF KeyParameter
  <2> QED BY <1>1, <1>3, <2>1, Zenon
<1>4. CASE List(ps.policy, f) = <<>> /\ ~ Has(ps.default, f)
  <2>1. KeyParameter(ps, f, builtin) = <<builtin>>
    BY <1>4, Zenon DEF KeyParameter
  <2> QED BY <1>1, <1>4, <2>1, Zenon
<1> QED
  BY <1>2, <1>3, <1>4, Zenon

LEMMA KeyTypesParts ==
  ASSUME NEW ps
  PROVE  LET types == IF List(ps.policy, "keyType") = <<>> THEN {"RSA"} ELSE ToSet(List(ps.policy, "keyType"))
         IN  /\ CitKeyTypes(ps) = [t \in types \cap {"RSA", "EC"} |->
                                     IF t = "RSA" THEN KeyParameter(ps, "rsa", "2048")
                                     ELSE KeyParameter(ps, "curve", "P256")]
             /\ DOMAIN CitKeyTypes(ps) = types \cap {"RSA", "EC"}
             /\ "RSA" \in DOMAIN CitKeyTypes(ps) => CitKeyTypes(ps)["RSA"] = KeyParameter(ps, "rsa", "2048")
             /\ "EC" \in DOMAIN CitKeyTypes(ps) => CitKeyTypes(ps)["EC"] = KeyParameter(ps, "curve", "P256")
<1> DEFINE types == IF List(ps.policy, "keyType") = <<>> THEN {"RSA"} ELSE ToSet(List(ps.policy, "keyType"))
           a == KeyParameter(ps, "rsa", "2048")
           b == KeyParameter(ps, "curve", "P256")
           u == types \cap {"RSA", "EC"}
<1>1. types = IF List(ps.policy, "keyType") = <<>> THEN {"RSA"} ELSE ToSet(ps.policy.keyType)
  <2>1. List(ps.policy, "keyType") # <<>> => ps.policy.keyType = List(ps.policy, "keyType")
    BY Zenon DEF List
  <2> QED BY <2>1, Zenon
<1>2. CitKeyTypes(ps) = [t \in u |-> IF t = "RSA" THEN a ELSE b]
  BY <1>1, Zenon DEF CitKeyTypes
<1> HIDE DEF types, a, b, u
<1>3. /\ DOMAIN CitKeyTypes(ps) = u
      /\ "RSA" \in u => CitKeyTypes(ps)["RSA"] = a
      /\ "EC" \in u => CitKeyTypes(ps)["EC"] = b
  BY <1>2
<1> QED
  BY <1>2, <1>3, Zenon DEF types, a, b, u

LEMMA PrintedKeys ==
  ASSUME NEW ps
  PROVE  LET types == DOMAIN CitKeyTypes(ps)
             s == Printed(ps).policy
         IN  /\ List(s, "keyType") = <<>> <=> types = {}
             /\ ToSet(List(s, "keyType")) = types
             /\ List(s, "rsa") = IF "RSA" \in types THEN KeyParameter(ps, "rsa", "2048") ELSE <<>>
             /\ List(s, "curve") = IF "EC" \in types THEN KeyParameter(ps, "curve", "P256") ELSE <<>>
<1> DEFINE c == BuildCloudCitRequest(ps)
           s == Printed(ps).policy
           k == KeyPairBack(c)
           types == DOMAIN c.keyTypes
<1>1. c.keyTypes = CitKeyTypes(ps) /\ types \subseteq {"RSA", "EC"}
  BY TemplateFields, TemplateKinds, Zenon
<1>2. ASSUME NEW f \in {"keyType", "rsa", "curve", "service", "reuse"}
      PROVE  (Has(s, f) <=> Has(k, f)) /\ List(s, f) = List(k, f)
  BY <1>1, PrintedPolicy, Zenon DEF Printed
<1>3. {"keyType", "rsa", "curve"} \subseteq {"keyType", "rsa", "curve", "service", "reuse"}
      /\ "keyType" # "rsa" /\ "keyType" # "curve" /\ "keyType" # "service" /\ "keyType" \notin {"keyPair", "reuse"}
      /\ "rsa" # "keyType" /\ "rsa" # "curve" /\ "rsa" # "service" /\ "rsa" \notin {"keyPair", "reuse"}
      /\ "curve" # "rsa" /\ "curve" # "keyType" /\ "curve" # "service" /\ "curve" \notin {"keyPair", "reuse"}
      /\ "keyType" \in {"keyType", "rsa", "curve"} /\ "rsa" \in {"keyType", "rsa", "curve"}
      /\ "curve" \in {"keyType", "rsa", "curve"}
  OBVIOUS
<1>4. types # {} => List(k, "keyType") = TypeList(c)
  BY <1>1, KeysBackHas, Zenon
<1>5. types = {} => List(k, "keyType") = <<>>
  <2>1. types = {} => ~ Has(k, "keyType")
    BY <1>1, <1>3, KeysBackHas, Zenon
  <2> QED BY <2>1, ListOfNone, Zenon
<1>6. List(k, "rsa") = IF "RSA" \in types THEN c.keyTypes["RSA"] ELSE <<>>
  <2>1. "RSA" \in types => List(k, "rsa") = c.keyTypes["RSA"]
    BY <1>1, KeysBackHas, Zenon
  <2>2. "RSA" \notin types => ~ Has(k, "rsa")
    BY <1>1, <1>3, KeysBackHas, Zenon
  <2> QED BY <2>1, <2>2, ListOfNone, Zenon
<1>7. List(k, "curve") = IF "EC" \in types THEN c.keyTypes["EC"] ELSE <<>>
  <2>1. "EC" \in types => List(k, "curve") = c.keyTypes["EC"]
    BY <1>1, KeysBackHas, Zenon
  <2>2. "EC" \notin types => ~ Has(k, "curve")
    BY <1>1, <1>3, KeysBackHas, Zenon
  <2> QED BY <2>1, <2>2, ListOfNone, Zenon
<1>8. ToSet(TypeList(c)) = types
  BY <1>1, TypesListed, Zenon
<1>9. "RSA" \in types => c.keyTypes["RSA"] = KeyParameter(ps, "rsa", "2048")
  BY <1>1, KeyTypesParts, Zenon
<1>10. "EC" \in types => c.keyTypes["EC"] = KeyParameter(ps, "curve", "P256")
  BY <1>1, KeyTypesParts, Zenon
<1>11. /\ List(s, "keyType") = List(k, "keyType") /\ List(s, "rsa") = List(k, "rsa")
       /\ List(s, "curve") = List(k, "curve")
  <2>1. "keyType" \in {"keyType", "rsa", "curve", "service", "reuse"} /\ "rsa" \in {"keyType", "rsa", "curve", "service", "reuse"}
        /\ "curve" \in {"keyType", "rsa", "curve", "service", "reuse"}
    OBVIOUS
  <2> QED BY <1>2, <2>1, Zenon
<1> HIDE DEF s, k, types
<1>12. ToSet(List(s, "keyType")) = types /\ (List(s, "keyType") = <<>> <=> types = {})
  <2>1. CASE types = {}
    BY <1>5, <1>11, <2>1, SetOfNone
  <2>2. CASE types # {}
    BY <1>4, <1>8, <1>11, <2>2, SetOfNone
  <2> QED BY <2>1, <2>2
<1>13. List(s, "rsa") = IF "RSA" \in types THEN KeyParameter(ps, "rsa", "2048") ELSE <<>>
  BY <1>6, <1>9, <1>11, Zenon
<1>14. List(s, "curve") = IF "EC" \in types THEN KeyParameter(ps, "curve", "P256") ELSE <<>>
  BY <1>7, <1>10, <1>11, Zenon
<1> QED
  BY <1>1, <1>12, <1>13, <1>14, Zenon DEF s, types

(* The keys are printed as they are, if any type is allowed.               *)
LEMMA KeysWrittenAgain ==
  ASSUME NEW ps
  PROVE  CitKeyTypes(Printed(ps)) = CitKeyTypes(ps) <=> DOMAIN CitKeyTypes(ps) # {}
<1> DEFINE q == Printed(ps)
           types == DOMAIN CitKeyTypes(ps)
           a == KeyParameter(ps, "rsa", "2048")
           b == KeyParameter(ps, "curve", "P256")
           c == KeyParameter(q, "rsa", "2048")
           d == KeyParameter(q, "curve", "P256")
<1>1. List(q.policy, "keyType") = <<>> <=> types = {}
  BY PrintedKeys, Zenon
<1>2. ToSet(List(q.policy, "keyType")) = types
  BY PrintedKeys, Zenon
<1>3. List(q.policy, "rsa") = IF "RSA" \in types THEN a ELSE <<>>
  BY PrintedKeys, Zenon
<1>4. List(q.policy, "curve") = IF "EC" \in types THEN b ELSE <<>>
  BY PrintedKeys, Zenon
<1>5. types \subseteq {"RSA", "EC"}
  BY TemplateKinds, Zenon
<1>6. "RSA" \in types => c = a
  BY <1>3, ParameterGiven, Zenon
<1>7. "EC" \in types => d = b
  BY <1>4, ParameterGiven, Zenon
<1> DEFINE uq == IF List(q.policy, "keyType") = <<>> THEN {"RSA"} ELSE ToSet(List(q.policy, "keyType"))
           up == IF List(ps.policy, "keyType") = <<>> THEN {"RSA"} ELSE ToSet(List(ps.policy, "keyType"))
<1>8. CitKeyTypes(q) = [t \in uq \cap {"RSA", "EC"} |-> IF t = "RSA" THEN c ELSE d]
      /\ DOMAIN CitKeyTypes(q) = uq \cap {"RSA", "EC"}
  BY KeyTypesParts, Zenon
<1>9. CitKeyTypes(ps) = [t \in up \cap {"RSA", "EC"} |-> IF t = "RSA" THEN a ELSE b]
      /\ types = up \cap {"RSA", "EC"}
  BY KeyTypesParts, Zenon
<1>10. types = {} => DOMAIN CitKeyTypes(q) # {}
  <2> SUFFICES ASSUME types = {}
               PROVE  "RSA" \in DOMAIN CitKeyTypes(q)
    OBVIOUS
  <2>1. uq = {"RSA"}
    BY <1>1
  <2> QED BY <1>8, <2>1
<1> HIDE DEF a, b, c, d
<1>11. types # {} => CitKeyTypes(q) = CitKeyTypes(ps)
  <2> SUFFICES ASSUME types # {}
               PROVE  CitKeyTypes(q) = CitKeyTypes(ps)
    OBVIOUS
  <2>1. uq \cap {"RSA", "EC"} = types
    BY <1>1, <1>2, <1>5
  <2> HIDE DEF uq, up, types
  <2>2. up \cap {"RSA", "EC"} = types
    BY <1>9
  <2>3. CitKeyTypes(q) = [t \in types |-> IF t = "RSA" THEN c ELSE d]
    BY <1>8, <2>1, Zenon
  <2>4. CitKeyTypes(ps) = [t \in types |-> IF t = "RSA" THEN a ELSE b]
    BY <1>9, <2>2, Zenon
  <2>5. \A t \in types : (IF t = "RSA" THEN c ELSE d) = (IF t = "RSA" THEN a ELSE b)
    BY <1>5, <1>6, <1>7
  <2> QED BY <2>3, <2>4, <2>5
<1>12. types = {} => CitKeyTypes(q) # CitKeyTypes(ps)
  BY <1>10, Zenon
<1> QED
  BY <1>11, <1>12, Zenon

(* So is whether a key is reused, then, and where it comes from.           *)
LEMMA ReuseWrittenAgain ==
  ASSUME NEW ps, DOMAIN CitKeyTypes(ps) # {}
  PROVE  Flag(Printed(ps).policy, "reuse", "true") = Flag(ps.policy, "reuse", "true")
<1> DEFINE c == BuildCloudCitRequest(ps)
           s == Printed(ps).policy
           k == KeyPairBack(c)
           b == Flag(ps.policy, "reuse", "true")
<1>1. c.keyTypes = CitKeyTypes(ps) /\ DOMAIN c.keyTypes \subseteq {"RSA", "EC"} /\ c.reuse = b
  BY TemplateFields, TemplateKinds, Zenon
<1>2. "reuse" \in {"keyType", "rsa", "curve", "service", "reuse"} /\ "reuse" \in {"keyPair", "reuse"}
  OBVIOUS
<1>3. (Has(s, "reuse") <=> Has(k, "reuse")) /\ List(s, "reuse") = List(k, "reuse")
  BY <1>1, <1>2, PrintedPolicy, Zenon DEF Printed
<1>4. Has(k, "reuse") /\ List(k, "reuse") = Bool(c.reuse)
  BY <1>1, <1>2, KeysBackHas, Zenon
<1>5. b \in BOOLEAN /\ Flag(s, "reuse", "true") \in BOOLEAN
  BY DEF Flag
<1> HIDE DEF b, c, s, k
<1>6. Flag(s, "reuse", "true") <=> b
  BY <1>1, <1>3, <1>4, <1>5, FlagOfList
<1> QED
  BY <1>5, <1>6 DEF b, s

LEMMA ServiceWrittenAgain ==
  ASSUME NEW ps
  PROVE  /\ Flag(Printed(ps).policy, "service", "true") = Flag(ps.policy, "service", "true")
         /\ Flag(Printed(ps).policy, "service", "false") = Flag(ps.policy, "service", "false")
<1> DEFINE c == BuildCloudCitRequest(ps)
           s == Printed(ps).policy
           k == KeyPairBack(c)
           yes == Flag(ps.policy, "service", "true")
           no == Flag(ps.policy, "service", "false")
<1>1. /\ DOMAIN c.keyTypes \subseteq {"RSA", "EC"}
      /\ c.csrUpload = ~ yes /\ c.serviceKey = ~ no
  BY TemplateFields, TemplateKinds, Zenon
<1>2. "service" \in {"keyType", "rsa", "curve", "service", "reuse"} /\ "service" \notin {"keyPair", "reuse"}
      /\ "service" # "keyType" /\ "service" # "rsa" /\ "service" # "curve"
  OBVIOUS
<1>3. (Has(s, "service") <=> Has(k, "service")) /\ List(s, "service") = List(k, "service")
  BY <1>1, <1>2, PrintedPolicy, Zenon DEF Printed
<1>4. Has(k, "service") <=> c.csrUpload # c.serviceKey
  BY <1>1, <1>2, KeysBackHas, Zenon
<1>5. c.csrUpload # c.serviceKey => List(k, "service") = Bool(c.serviceKey)
  BY <1>1, KeysBackHas, Zenon
<1>6. yes \in BOOLEAN /\ no \in BOOLEAN /\ ~ (yes /\ no)
  BY TrueIsNotFalse DEF Flag
<1>7. Flag(s, "service", "true") \in BOOLEAN /\ Flag(s, "service", "false") \in BOOLEAN
  BY DEF Flag
<1>8. CASE yes = no
  <2>1. ~ Has(s, "service") /\ ~ yes /\ ~ no
    BY <1>1, <1>3, <1>4, <1>6, <1>8
  <2> QED BY <2>1, <1>6 DEF Flag
<1>9. CASE yes # no
  <2> DEFINE b == ~ no
  <2>1. Has(s, "service") /\ List(s, "service") = Bool(b) /\ b \in BOOLEAN
    BY <1>1, <1>3, <1>4, <1>5, <1>6, <1>9
  <2>2. yes <=> b
    BY <1>6, <1>9
  <2> HIDE DEF b, s
  <2>3. (Flag(s, "service", "true") <=> b) /\ (Flag(s, "service", "false") <=> ~ b)
    BY <2>1, FlagOfList
  <2>4. Flag(s, "service", "true") = yes /\ Flag(s, "service", "false") = no
    <3>1. no <=> ~ b
      BY <1>6 DEF b
    <3> HIDE DEF yes, no
    <3> QED BY <1>6, <1>7, <2>2, <2>3, <3>1 DEF s
  <2> QED BY <2>4, Zenon DEF s
<1> QED
  BY <1>8, <1>9

LEMMA ProductWrittenAgain ==
  ASSUME NEW ps
  PROVE  CitProduct(Printed(ps)) = CitProduct(ps)
<1> DEFINE c == BuildCloudCitRequest(ps)
           s == Printed(ps).policy
           x == IF Filled(ps.policy, "ca") THEN Value(ps.policy, "ca") ELSE "builtin"
           y == IF Filled(ps.policy, "days") THEN Value(ps.policy, "days") ELSE "365"
           p == CitProduct(ps)
<1>1. p = [ca |-> x, days |-> y]
  BY Zenon DEF CitProduct
<1>2. x # "" /\ y # ""
  <2>1. "builtin" # "" /\ "365" # ""
    BY Zenon
  <2> QED BY <2>1, Zenon DEF Filled
<1>3. DOMAIN c.keyTypes \subseteq {"RSA", "EC"} /\ c.product = p
  BY TemplateFields, TemplateKinds, Zenon
<1>4. List(s, "ca") = <<c.product.ca>> /\ List(s, "days") = <<c.product.days>>
  BY <1>3, PrintedPolicy, Zenon DEF Printed
<1> HIDE DEF x, y, p
<1>5. p.ca = x /\ p.days = y
  BY <1>1
<1>6. ASSUME NEW t, NEW f, NEW v, List(t, f) = <<v>>
      PROVE  List(t, f) # <<>> /\ Value(t, f) = v
  BY <1>6 DEF Value
<1>7. Filled(s, "ca") /\ Value(s, "ca") = x
  BY <1>2, <1>3, <1>4, <1>5, <1>6, Zenon DEF Filled
<1>8. Filled(s, "days") /\ Value(s, "days") = y
  BY <1>2, <1>3, <1>4, <1>5, <1>6, Zenon DEF Filled
<1>9. CitProduct(Printed(ps)) = [ca |-> x, days |-> y]
  BY <1>7, <1>8, Zenon DEF CitProduct
<1> QED
  BY <1>1, <1>9, Zenon DEF p

-----------------------------------------------------------------------------
(* What is recommended *)

SizeDefault(ps)  == IF Has(ps.default, "rsa") THEN Value(ps.default, "rsa") ELSE "2048"
CurveDefault(ps) == IF Filled(ps.default, "curve") THEN Value(ps.default, "curve") ELSE "P256"
TypeDefault(ps)  == Value(ps.default, "keyType")
NoWord           == ""

LEMMA RecommendedParts ==
  ASSUME NEW ps
  PROVE  LET rec == CitRecommended(ps)
         IN  /\ rec = [subject |-> rec.subject, key |-> rec.key]
             /\ rec.subject = [f \in DOMAIN ps.default \cap (Names \cup {"ou"}) |-> <<Value(ps.default, f)>>]
             /\ ~ Has(ps.default, "keyType") => rec.key = <<>>
             /\ (Has(ps.default, "keyType") /\ TypeDefault(ps) = "RSA") => rec.key = <<"RSA", SizeDefault(ps)>>
             /\ (Has(ps.default, "keyType") /\ TypeDefault(ps) = "EC") => rec.key = <<"EC", CurveDefault(ps)>>
             /\ (Has(ps.default, "keyType") /\ ~ Worded(TypeDefault(ps))) => rec.key = <<NoWord, NoWord>>
<1> DEFINE d == DOMAIN ps.default \cap (Names \cup {"ou"})
           y(f) == <<Value(ps.default, f)>>
           key == IF ~Has(ps.default, "keyType") THEN <<>>
                  ELSE CASE TypeDefault(ps) = "RSA" -> <<"RSA", SizeDefault(ps)>>
                         [] TypeDefault(ps) = "EC" -> <<"EC", CurveDefault(ps)>>
                         [] OTHER -> <<TypeDefault(ps), "">>
<1>1. CitRecommended(ps) = [subject |-> [f \in d |-> y(f)], key |-> key]
  BY Zenon DEF CitRecommended, SizeDefault, CurveDefault, TypeDefault
<1>2. ~ Has(ps.default, "keyType") => key = <<>>
  BY Zenon
<1>3. (Has(ps.default, "keyType") /\ TypeDefault(ps) = "RSA") => key = <<"RSA", SizeDefault(ps)>>
  BY Zenon
<1>4. (Has(ps.default, "keyType") /\ TypeDefault(ps) = "EC") => key = <<"EC", CurveDefault(ps)>>
  <2>1. "EC" # "RSA"
    OBVIOUS
  <2> QED BY <2>1, Zenon
<1>5. (Has(ps.default, "keyType") /\ ~ Worded(TypeDefault(ps))) => key = <<NoWord, NoWord>>
  <2> SUFFICES ASSUME Has(ps.default, "keyType"), ~ Worded(TypeDefault(ps))
               PROVE  key = <<NoWord, NoWord>>
    BY Zenon
  <2>1. TypeDefault(ps) = "" /\ "" # "RSA" /\ "" # "EC"
    BY Zenon DEF Worded
  <2>2. key = <<TypeDefault(ps), "">>
    BY <2>1, Zenon
  <2> QED BY <2>1, <2>2, Zenon DEF NoWord
<1> HIDE DEF d, y, key
<1>6. CitRecommended(ps).subject = [f \in d |-> y(f)] /\ CitRecommended(ps).key = key
  BY <1>1
<1>7. CitRecommended(ps) = [subject |-> CitRecommended(ps).subject, key |-> CitRecommended(ps).key]
  BY <1>1, <1>6, Zenon
<1>8. CitRecommended(ps).subject = [f \in DOMAIN ps.default \cap (Names \cup {"ou"}) |-> <<Value(ps.default, f)>>]
  BY <1>6, Zenon DEF d, y
<1> QED
  BY <1>2, <1>3, <1>4, <1>5, <1>6, <1>7, <1>8, Zenon

LEMMA PairOf == \A x, y : ToSet(<<x, y>>) = {x, y}
<1> SUFFICES ASSUME NEW x, NEW y
             PROVE  ToSet(<<x, y>>) = {x, y}
  OBVIOUS
<1>1. DOMAIN <<x, y>> = {1, 2} /\ <<x, y>>[1] = x /\ <<x, y>>[2] = y
  OBVIOUS
<1> QED
  BY <1>1 DEF ToSet

LEMMA PairsEqual == \A x, y, u, v : <<x, y>> = <<u, v>> => x = u /\ y = v
  OBVIOUS

LEMMA PairIsGiven == \A x, y : <<x, y>> # <<>> /\ <<x, y>>[1] = x /\ <<x, y>>[2] = y
<1> SUFFICES ASSUME NEW x, NEW y
             PROVE  <<x, y>> # <<>> /\ <<x, y>>[1] = x /\ <<x, y>>[2] = y
  OBVIOUS
<1>1. Len(<<x, y>>) = 2 /\ Len(<<>>) = 0
  OBVIOUS
<1> QED
  BY <1>1

LEMMA PairFacts ==
  ASSUME NEW k, NEW x, NEW y, k = <<x, y>>
  PROVE  k # <<>> /\ k[1] = x /\ k[2] = y /\ ToSet(k) = {x, y}
  BY PairIsGiven, PairOf

LEMMA SoleValue ==
  ASSUME NEW s, NEW f, NEW v, List(s, f) = <<v>>
  PROVE  List(s, f) # <<>> /\ Value(s, f) = v
  BY DEF Value

(* A recommended type of key is one of the two, or no text.                *)
KnownDefault(ps) == Filled(ps.default, "keyType") => Value(ps.default, "keyType") \in {"RSA", "EC"}

LEMMA DefaultKinds ==
  ASSUME NEW ps, IsSpecification(ps), KnownDefault(ps)
  PROVE  \/ ~ Has(ps.default, "keyType")
         \/ Has(ps.default, "keyType") /\ ~ Worded(TypeDefault(ps))
         \/ Has(ps.default, "keyType") /\ TypeDefault(ps) = "RSA"
         \/ Has(ps.default, "keyType") /\ TypeDefault(ps) = "EC"
<1>1. Has(ps.default, "keyType") => List(ps.default, "keyType") # <<>>
  <2> SUFFICES ASSUME Has(ps.default, "keyType")
               PROVE  List(ps.default, "keyType") # <<>>
    OBVIOUS
  <2>1. "keyType" \notin DefaultLists
    BY DEF DefaultLists, Objects
  <2>2. Written(ps.default, DefaultLists)
    BY Zenon DEF IsSpecification
  <2>3. Len(ps.default.keyType) = 1
    BY <2>1, <2>2, Zenon DEF Written, Has
  <2>4. ps.default.keyType # <<>>
    BY <2>3
  <2> QED BY <2>4, Zenon DEF List
<1>2. Has(ps.default, "keyType") /\ Worded(TypeDefault(ps)) => TypeDefault(ps) \in {"RSA", "EC"}
  BY <1>1, Zenon DEF KnownDefault, Filled, TypeDefault, Worded
<1> QED
  BY <1>2

LEMMA WordsStand == Worded("RSA") /\ Worded("EC") /\ Worded("2048") /\ Worded("P256") /\ ~ Worded(NoWord)
  BY Zenon DEF Worded, NoWord

LEMMA PrintedKey ==
  ASSUME NEW ps
  PROVE  LET s == Printed(ps).default
             key == CitRecommended(ps).key
             r == key # <<>> /\ Worded(key[1])
             z == r /\ Worded(key[2])
         IN  /\ (Has(s, "keyType") <=> r) /\ (r => List(s, "keyType") = <<key[1]>>)
             /\ (Has(s, "rsa") <=> z /\ key[1] = "RSA") /\ (Has(s, "rsa") => List(s, "rsa") = <<key[2]>>)
             /\ (Has(s, "curve") <=> z /\ key[1] # "RSA") /\ (Has(s, "curve") => List(s, "curve") = <<key[2]>>)
<1> DEFINE c == BuildCloudCitRequest(ps)
<1>1. c.recommended = CitRecommended(ps) /\ DOMAIN c.recommended.subject \subseteq Names \cup {"ou"}
  <2>1. c.recommended = CitRecommended(ps)
    BY TemplateFields, Zenon
  <2>2. DOMAIN CitRecommended(ps).subject \subseteq Names \cup {"ou"}
    <3>1. DOMAIN CitRecommended(ps).subject = DOMAIN ps.default \cap (Names \cup {"ou"})
      BY TemplateKinds, Zenon
    <3> QED BY <3>1
  <2> QED BY <2>1, <2>2, Zenon
<1> QED
  BY <1>1, PrintedDefault, Zenon DEF Printed, Recommended, Sized

(* The key that is recommended is printed, and recommended again, if it    *)
(* has no empty text.                                                      *)
LEMMA KeyRecommendedAgain ==
  ASSUME NEW ps, IsSpecification(ps), KnownDefault(ps)
  PROVE  CitRecommended(Printed(ps)).key = CitRecommended(ps).key
           <=> "" \notin ToSet(CitRecommended(ps).key)
<1> DEFINE q == Printed(ps)
           s == Printed(ps).default
           key == CitRecommended(ps).key
           again == CitRecommended(q).key
<1> SUFFICES again = key <=> NoWord \notin ToSet(key)
  BY Zenon DEF NoWord
<1>0. \A x : Worded(x) <=> x # NoWord
  BY Zenon DEF Worded, NoWord
<1>1. CASE ~ Has(ps.default, "keyType")
  <2>1. key = <<>>
    BY <1>1, RecommendedParts, Zenon
  <2>2. ~ Has(s, "keyType")
    BY <2>1, PrintedKey, Zenon
  <2>3. again = <<>>
    BY <2>2, RecommendedParts, Zenon
  <2> HIDE DEF key, again
  <2> QED BY <2>1, <2>3, SetOfNone
<1>2. CASE Has(ps.default, "keyType") /\ ~ Worded(TypeDefault(ps))
  <2>1. key = <<NoWord, NoWord>>
    BY <1>2, RecommendedParts, Zenon
  <2>2. key # <<>> /\ key[1] = NoWord /\ ToSet(key) = {NoWord, NoWord}
    BY <2>1, PairIsGiven, PairOf, Zenon
  <2>3. ~ Has(s, "keyType")
    BY <2>2, PrintedKey, WordsStand, Zenon
  <2>4. again = <<>>
    BY <2>3, RecommendedParts, Zenon
  <2> HIDE DEF key, again
  <2> QED BY <2>2, <2>4
<1>3. CASE Has(ps.default, "keyType") /\ TypeDefault(ps) = "RSA"
  <2> DEFINE x == SizeDefault(ps)
  <2>1. key = <<"RSA", x>>
    BY <1>3, RecommendedParts, Zenon
  <2>2. key # <<>> /\ key[1] = "RSA" /\ key[2] = x /\ ToSet(key) = {"RSA", x}
    <3> HIDE DEF key, x
    <3> QED BY <2>1, PairFacts
  <2>3. Has(s, "keyType") /\ List(s, "keyType") = <<"RSA">>
    BY <2>2, PrintedKey, WordsStand, Zenon
  <2>4. TypeDefault(q) = "RSA"
    BY <2>3, SoleValue, Zenon DEF TypeDefault
  <2>5. again = <<"RSA", SizeDefault(q)>>
    BY <2>3, <2>4, RecommendedParts, Zenon
  <2>6. NoWord \in ToSet(key) <=> ~ Worded(x)
    BY <1>0, <2>2, WordsStand
  <2>7. CASE Worded(x)
    <3>1. Has(s, "rsa") /\ List(s, "rsa") = <<x>>
      BY <2>2, <2>7, PrintedKey, WordsStand, Zenon
    <3>2. SizeDefault(q) = x
      <4> HIDE DEF x
      <4> QED BY <3>1, SoleValue, Zenon DEF SizeDefault
    <3> QED BY <2>1, <2>5, <2>6, <2>7, <3>2, Zenon
  <2>8. CASE ~ Worded(x)
    <3>1. ~ Has(s, "rsa")
      BY <2>2, <2>8, PrintedKey, Zenon
    <3>2. SizeDefault(q) = "2048"
      BY <3>1, Zenon DEF SizeDefault
    <3>3. "2048" # x
      BY <2>8, WordsStand, Zenon
    <3>4. again # key
      BY <2>1, <2>5, <3>2, <3>3, PairsEqual, Zenon
    <3> QED BY <2>6, <2>8, <3>4, Zenon
  <2> QED BY <2>7, <2>8, Zenon
<1>4. CASE Has(ps.default, "keyType") /\ TypeDefault(ps) = "EC"
  <2> DEFINE x == CurveDefault(ps)
  <2>1. key = <<"EC", x>>
    BY <1>4, RecommendedParts, Zenon
  <2>2. key # <<>> /\ key[1] = "EC" /\ key[2] = x /\ ToSet(key) = {"EC", x}
    <3> HIDE DEF key, x
    <3> QED BY <2>1, PairFacts
  <2>3. Has(s, "keyType") /\ List(s, "keyType") = <<"EC">>
    BY <2>2, PrintedKey, WordsStand, Zenon
  <2>4. TypeDefault(q) = "EC"
    BY <2>3, SoleValue, Zenon DEF TypeDefault
  <2>5. again = <<"EC", CurveDefault(q)>>
    BY <2>3, <2>4, RecommendedParts, Zenon
  <2>6. Worded(x)
    BY WordsStand, Zenon DEF CurveDefault, Filled, Worded
  <2>7. "EC" # "RSA"
    OBVIOUS
  <2>8. Has(s, "curve") /\ List(s, "curve") = <<x>>
    BY <2>2, <2>6, <2>7, PrintedKey, WordsStand, Zenon
  <2>9. Filled(s, "curve") /\ Value(s, "curve") = x
    BY <2>6, <2>8, SoleValue, Zenon DEF Filled, Worded
  <2>10. CurveDefault(q) = x
    BY <2>9, Zenon DEF CurveDefault
  <2>11. NoWord \notin ToSet(key)
    BY <1>0, <2>2, <2>6, WordsStand
  <2> QED BY <2>1, <2>5, <2>10, <2>11, Zenon
<1> QED
  BY <1>1, <1>2, <1>3, <1>4, DefaultKinds, Zenon

(* The subject that is recommended is printed, without its empty texts.    *)
LEMMA PrintedDefaultSubject ==
  ASSUME NEW ps, NEW f \in Names \cup {"ou"}
  PROVE  /\ Has(Printed(ps).default, f) <=> Has(ps.default, f) /\ Worded(Value(ps.default, f))
         /\ Has(Printed(ps).default, f) => List(Printed(ps).default, f) = <<Value(ps.default, f)>>
<1> DEFINE c == BuildCloudCitRequest(ps)
           s == Printed(ps).default
           rec == CitRecommended(ps)
<1>1. c.recommended = rec
  BY TemplateFields, Zenon
<1>2. DOMAIN rec.subject = DOMAIN ps.default \cap (Names \cup {"ou"})
      /\ \A g \in DOMAIN rec.subject : rec.subject[g] = <<Value(ps.default, g)>>
  BY TemplateKinds, Zenon
<1>3. DOMAIN c.recommended.subject \subseteq Names \cup {"ou"}
  <2> HIDE DEF c, rec
  <2> QED BY <1>1, <1>2
<1>4. /\ Has(s, f) <=> f \in DOMAIN rec.subject /\ rec.subject[f] # NoText
      /\ Has(s, f) => List(s, f) = rec.subject[f]
  BY <1>1, <1>3, PrintedDefault, Zenon DEF Printed
<1>5. \A x : <<x>> = NoText <=> ~ Worded(x)
  <2>1. \A x, y : <<x>> = <<y>> => x = y
    OBVIOUS
  <2> QED BY <2>1, Zenon DEF NoText, Worded
<1>6. f \in DOMAIN rec.subject <=> Has(ps.default, f)
  <2> HIDE DEF rec
  <2> QED BY <1>2 DEF Has
<1> QED
  BY <1>2, <1>4, <1>5, <1>6, Zenon

LEMMA RecommendedAgain ==
  ASSUME NEW ps, IsSpecification(ps), KnownDefault(ps)
  PROVE  CitRecommended(Printed(ps)) = CitRecommended(ps)
           <=> /\ \A f \in DOMAIN CitRecommended(ps).subject : CitRecommended(ps).subject[f] # NoText
               /\ "" \notin ToSet(CitRecommended(ps).key)
<1> DEFINE q == Printed(ps)
           a == CitRecommended(ps).subject
           b == CitRecommended(q).subject
           F == Names \cup {"ou"}
           x(f) == <<Value(ps.default, f)>>
           y(f) == <<Value(q.default, f)>>
<1>1. a = [f \in DOMAIN ps.default \cap F |-> x(f)]
  BY RecommendedParts, Zenon
<1>2. b = [f \in DOMAIN q.default \cap F |-> y(f)]
  BY RecommendedParts, Zenon
<1>3. ASSUME NEW f \in F
      PROVE  /\ f \in DOMAIN q.default <=> f \in DOMAIN ps.default /\ x(f) # NoText
             /\ f \in DOMAIN q.default => y(f) = x(f)
  <2>1. /\ Has(q.default, f) <=> Has(ps.default, f) /\ Worded(Value(ps.default, f))
        /\ Has(q.default, f) => List(q.default, f) = <<Value(ps.default, f)>>
    BY PrintedDefaultSubject, Zenon
  <2>2. \A z : <<z>> = NoText <=> ~ Worded(z)
    <3>1. \A z, w : <<z>> = <<w>> => z = w
      OBVIOUS
    <3> QED BY <3>1, Zenon DEF NoText, Worded
  <2>3. Has(q.default, f) => Value(q.default, f) = Value(ps.default, f)
    BY <2>1, SoleValue, Zenon
  <2> QED BY <2>1, <2>2, <2>3, Zenon DEF Has
<1> DEFINE all == \A f \in DOMAIN a : a[f] # NoText
<1>4. b = a <=> all
  <2> HIDE DEF x, y, F, q
  <2>1. \A f \in DOMAIN a : a[f] = x(f)
    BY <1>1
  <2>2. DOMAIN a = DOMAIN ps.default \cap F /\ DOMAIN b = DOMAIN q.default \cap F
    BY <1>1, <1>2
  <2>3. CASE all
    <3>1. DOMAIN b = DOMAIN a
      BY <1>3, <2>1, <2>2, <2>3
    <3>2. \A f \in DOMAIN a : y(f) = x(f)
      BY <1>3, <2>2, <3>1
    <3> QED BY <1>1, <1>2, <2>2, <2>3, <3>1, <3>2
  <2>4. CASE ~ all
    <3>1. PICK f \in DOMAIN a : a[f] = NoText
      BY <2>4
    <3>2. f \in F /\ f \in DOMAIN ps.default /\ x(f) = NoText
      BY <2>1, <2>2, <3>1
    <3>3. f \notin DOMAIN b
      BY <1>3, <2>2, <3>2
    <3> QED BY <2>4, <3>1, <3>3
  <2> QED BY <2>3, <2>4
<1>5. CitRecommended(q).key = CitRecommended(ps).key <=> "" \notin ToSet(CitRecommended(ps).key)
  BY KeyRecommendedAgain, Zenon
<1>6. CitRecommended(q) = CitRecommended(ps) <=> b = a /\ CitRecommended(q).key = CitRecommended(ps).key
  <2>1. CitRecommended(ps) = [subject |-> a, key |-> CitRecommended(ps).key]
    BY RecommendedParts, Zenon
  <2>2. CitRecommended(q) = [subject |-> b, key |-> CitRecommended(q).key]
    BY RecommendedParts, Zenon
  <2> QED BY <2>1, <2>2, Zenon
<1> QED
  BY <1>4, <1>5, <1>6, Zenon

-----------------------------------------------------------------------------
(* The checks of a specification for the cloud *)

SizesKnown(ps)      == In(List(ps.policy, "rsa"), CloudRsaKeySize)
NoUserName(ps)      == ~ Flag(ps.policy, "upn", "true")
ProtocolsGiven(ps)  == Flag(ps.policy, "uri", "true") => Protocols(ps) # <<>>
WithinOrOpen(ps, f) == (Has(ps.default, f) /\ List(ps.policy, f) # <<>>)
                         => AllowsAll(ps.policy[f]) \/ existValueInArray(ps.policy[f], Value(ps.default, f))
WithinList(ps, f)   == (Has(ps.default, f) /\ List(ps.policy, f) # <<>>)
                         => existValueInArray(ps.policy[f], Value(ps.default, f))
UnitsWithin(ps)     == \/ List(ps.default, "ou") = <<>> \/ List(ps.policy, "ou") = <<>>
                       \/ AllowsAll(ps.policy.ou) \/ In(ps.default.ou, ToSet(ps.policy.ou))
KnownSize(ps)       == Filled(ps.default, "rsa") => Value(ps.default, "rsa") \in CloudRsaKeySize

LEMMA CloudChecks ==
  ASSUME NEW ps
  PROVE  ValidateCloudPolicySpecification(ps) = "ok"
           <=> /\ SizesKnown(ps) /\ NoUserName(ps) /\ ProtocolsGiven(ps)
               /\ \A f \in Names : WithinOrOpen(ps, f)
               /\ UnitsWithin(ps) /\ WithinList(ps, "keyType") /\ WithinList(ps, "rsa")
               /\ KnownDefault(ps) /\ KnownSize(ps)
<1> DEFINE c1 == Check(In(List(ps.policy, "rsa"), CloudRsaKeySize))
           c2 == Check(~ Flag(ps.policy, "upn", "true"))
           c3 == Check(Flag(ps.policy, "uri", "true") => List(ps.policy, "uriProtocols") # <<>>)
           c4 == CloudDefault(ps, "org")
           c5 == CloudDefaultUnits(ps)
           c6 == CloudDefault(ps, "locality")
           c7 == CloudDefault(ps, "state")
           c8 == CloudDefault(ps, "country")
           c9 == WithinGiven(ps, "keyType")
           c10 == WithinGiven(ps, "rsa")
           c11 == Check(Filled(ps.default, "keyType") => Value(ps.default, "keyType") \in {"RSA", "EC"})
           c12 == Check(Filled(ps.default, "rsa") => Value(ps.default, "rsa") \in CloudRsaKeySize)
           v == <<c1, c2, c3, c4, c5, c6, c7, c8, c9, c10, c11, c12>>
<1>1. ValidateCloudPolicySpecification(ps) = FirstOf(v)
  BY Zenon DEF ValidateCloudPolicySpecification
<1>2. "error" # "ok" /\ "panic" # "ok"
  OBVIOUS
<1>3. c1 = "ok" <=> SizesKnown(ps)
  BY <1>2, Zenon DEF Check, SizesKnown
<1>4. c2 = "ok" <=> NoUserName(ps)
  BY <1>2, Zenon DEF Check, NoUserName
<1>5. c3 = "ok" <=> ProtocolsGiven(ps)
  BY <1>2, Zenon DEF Check, ProtocolsGiven, Protocols
<1>6. ASSUME NEW f
      PROVE  CloudDefault(ps, f) = "ok" <=> WithinOrOpen(ps, f)
  BY <1>2, Zenon DEF Check, CloudDefault, WithinOrOpen
<1>7. c5 = "ok" <=> UnitsWithin(ps)
  BY <1>2, Zenon DEF CloudDefaultUnits, UnitsWithin
<1>8. ASSUME NEW f
      PROVE  WithinGiven(ps, f) = "ok" <=> WithinList(ps, f)
  BY <1>2, Zenon DEF Check, WithinGiven, WithinList
<1>9. c11 = "ok" <=> KnownDefault(ps)
  BY <1>2, Zenon DEF Check, KnownDefault
<1>10. c12 = "ok" <=> KnownSize(ps)
  BY <1>2, Zenon DEF Check, KnownSize
<1>11. (\A f \in Names : WithinOrOpen(ps, f)) <=> c4 = "ok" /\ c6 = "ok" /\ c7 = "ok" /\ c8 = "ok"
  BY <1>6, Zenon DEF Names
<1>12. (c9 = "ok" <=> WithinList(ps, "keyType")) /\ (c10 = "ok" <=> WithinList(ps, "rsa"))
  BY <1>8, Zenon
<1> HIDE DEF c1, c2, c3, c4, c5, c6, c7, c8, c9, c10, c11, c12
<1>13. DOMAIN v = 1 .. 12 /\ v[1] = c1 /\ v[2] = c2 /\ v[3] = c3 /\ v[4] = c4 /\ v[5] = c5 /\ v[6] = c6
       /\ v[7] = c7 /\ v[8] = c8 /\ v[9] = c9 /\ v[10] = c10 /\ v[11] = c11 /\ v[12] = c12
  OBVIOUS
<1> HIDE DEF v
<1>14. FirstOf(v) = "ok" <=> \A i \in 1 .. 12 : v[i] = "ok"
  BY <1>13, AllPass
<1>15. (\A i \in 1 .. 12 : v[i] = "ok")
         <=> /\ v[1] = "ok" /\ v[2] = "ok" /\ v[3] = "ok" /\ v[4] = "ok" /\ v[5] = "ok" /\ v[6] = "ok"
             /\ v[7] = "ok" /\ v[8] = "ok" /\ v[9] = "ok" /\ v[10] = "ok" /\ v[11] = "ok" /\ v[12] = "ok"
  OBVIOUS
<1> QED
  BY <1>1, <1>3, <1>4, <1>5, <1>7, <1>9, <1>10, <1>11, <1>12, <1>13, <1>14, <1>15

(* What getpolicy printed of a template becomes that template again.       *)
LEMMA TemplateAgain ==
  ASSUME Called("cloud policy") => IsSpecification(Arg)
  PROVE  CloudRoundTrip
<1> SUFFICES ASSUME Called("cloud policy"), ValidateCloudPolicySpecification(Arg) = "ok",
                    ~ CloudBuildPanics(Arg)
             PROVE  BuildCloudCitRequest(Printed(Arg)) = BuildCloudCitRequest(Arg)
                      <=> ~ Inexpressible(BuildCloudCitRequest(Arg))
  BY Zenon DEF CloudRoundTrip, Printed
<1> DEFINE ps == Arg
           q == Printed(Arg)
           n == /\ NamesRegex(ps) # <<AnyText>> /\ "dns" \in NameKinds(ps)
                /\ "uri" \in NameKinds(ps) => IsInjective(Protocols(ps))
           i == CitAddresses(ps) \in {<<>>, BothVersions}
           k == DOMAIN CitKeyTypes(ps) # {}
           s == \A f \in DOMAIN CitRecommended(ps).subject : CitRecommended(ps).subject[f] # NoText
           r == "" \notin ToSet(CitRecommended(ps).key)
<1>1. IsSpecification(ps) /\ KnownDefault(ps)
  BY CloudChecks, Zenon
<1>2. CitNames(q) = CitNames(ps) <=> n
  BY <1>1, NamesWrittenAgain, Zenon
<1>3. CitAddresses(q) = CitAddresses(ps) <=> i
  BY <1>1, AddressesWrittenAgain, Zenon
<1>4. CitKeyTypes(q) = CitKeyTypes(ps) <=> k
  BY KeysWrittenAgain, Zenon
<1>5. CitRecommended(q) = CitRecommended(ps) <=> s /\ r
  BY <1>1, RecommendedAgain, Zenon
<1>6. k => Flag(q.policy, "reuse", "true") = Flag(ps.policy, "reuse", "true")
  BY ReuseWrittenAgain, Zenon
<1>7. BuildCloudCitRequest(q) = BuildCloudCitRequest(ps) <=> n /\ i /\ k /\ s /\ r
  <2>1. CitSubject(q) = CitSubject(ps) /\ CitProduct(q) = CitProduct(ps)
    BY SubjectWrittenAgain, ProductWrittenAgain, Zenon
  <2>2. /\ Flag(q.policy, "service", "true") = Flag(ps.policy, "service", "true")
        /\ Flag(q.policy, "service", "false") = Flag(ps.policy, "service", "false")
    BY ServiceWrittenAgain, Zenon
  <2> HIDE DEF n, i, k, s, r, q, ps
  <2> QED BY <1>2, <1>3, <1>4, <1>5, <1>6, <2>1, <2>2, TemplatesEqual, Zenon
<1> DEFINE c == BuildCloudCitRequest(ps)
<1>8. c.names = CitNames(ps) /\ c.ip = CitAddresses(ps) /\ c.keyTypes = CitKeyTypes(ps)
      /\ c.recommended = CitRecommended(ps)
  BY TemplateFields, Zenon
<1>9. DOMAIN c.names = NameKinds(ps) /\ c.names.cn = NamesRegex(ps)
      /\ ("uri" \in NameKinds(ps) => c.names.uri.protocols = Protocols(ps))
  BY <1>8, NamesParts, Zenon
<1>10. Inexpressible(c) <=> \/ c.names.cn = <<AnyText>> \/ "dns" \notin DOMAIN c.names
                            \/ "uri" \in DOMAIN c.names /\ ~ IsInjective(c.names.uri.protocols)
                            \/ c.ip \notin {<<>>, BothVersions} \/ DOMAIN c.keyTypes = {}
                            \/ (\E f \in DOMAIN c.recommended.subject : c.recommended.subject[f] = NoText)
                            \/ "" \in ToSet(c.recommended.key)
  BY Zenon DEF Inexpressible, BothVersions, NoText
<1>11. ~ Inexpressible(c) <=> n /\ i /\ k /\ s /\ r
  <2> HIDE DEF c, ps
  <2> QED BY <1>8, <1>9, <1>10, Zenon DEF n, i, k, s, r
<1> QED
  BY <1>7, <1>11, Zenon

(* A list in which a default was found is printed, unless it is empty.     *)
LEMMA PrintedWithin ==
  ASSUME NEW ps, NEW f \in Names, WithinOrOpen(ps, f)
  PROVE  WithinOrOpen(Printed(ps), f)
<1> DEFINE s == Printed(ps).policy
           d == Printed(ps).default
<1> SUFFICES ASSUME Has(d, f), List(s, f) # <<>>
             PROVE  AllowsAll(s[f]) \/ existValueInArray(s[f], Value(d, f))
  BY Zenon DEF WithinOrOpen
<1>1. f \in Names \cup {"ou"}
  OBVIOUS
<1>2. Has(ps.default, f) /\ Worded(Value(ps.default, f)) /\ List(d, f) = <<Value(ps.default, f)>>
  BY <1>1, PrintedDefaultSubject, Zenon
<1>3. Value(d, f) = Value(ps.default, f)
  BY <1>2, SoleValue, Zenon
<1>4. s[f] = List(s, f)
  BY Zenon DEF List
<1>5. List(s, f) = IF f \in Forbidden(ps) THEN NoText
                   ELSE IF List(ps.policy, f) = <<>> THEN AnyName ELSE List(ps.policy, f)
  BY <1>1, PrintedSubject, Zenon
<1>6. CASE f \notin Forbidden(ps) /\ List(ps.policy, f) = <<>>
  <2>1. s[f] = AnyName
    BY <1>4, <1>5, <1>6, Zenon
  <2> QED BY <2>1, Zenon DEF AllowsAll, AnyName
<1>7. CASE List(ps.policy, f) # <<>>
  <2>1. ps.policy[f] = List(ps.policy, f)
    BY <1>7, Zenon DEF List
  <2>2. AllowsAll(List(ps.policy, f)) \/ Value(ps.default, f) \in ToSet(List(ps.policy, f))
    BY <1>2, <1>7, <2>1, Zenon DEF WithinOrOpen, existValueInArray
  <2>3. f \notin Forbidden(ps)
    <3> SUFFICES ASSUME f \in Forbidden(ps)
                 PROVE  FALSE
      OBVIOUS
    <3>1. List(ps.policy, f) = NoText
      BY DEF Forbidden
    <3>2. ~ AllowsAll(NoText)
      BY TextsDiffer, Zenon DEF AllowsAll, AnyName
    <3>3. ToSet(NoText) = {NoWord}
      BY SetOfOne, Zenon DEF NoText, NoWord
    <3>4. Value(ps.default, f) = NoWord
      BY <2>2, <3>1, <3>2, <3>3
    <3> QED BY <1>2, <3>4, WordsStand, Zenon
  <2>4. s[f] = List(ps.policy, f)
    BY <1>4, <1>5, <1>7, <2>3, Zenon
  <2> QED BY <1>3, <2>2, <2>4, Zenon DEF existValueInArray
<1>8. CASE f \in Forbidden(ps) /\ List(ps.policy, f) = <<>>
  <2>1. List(ps.policy, f) = NoText
    BY <1>8 DEF Forbidden
  <2> QED BY <1>8, <2>1, TextsDiffer
<1> QED
  BY <1>6, <1>7, <1>8

LEMMA PrintedUnits ==
  ASSUME NEW ps, IsSpecification(ps), UnitsWithin(ps), ~ CloudBuildPanics(ps)
  PROVE  UnitsWithin(Printed(ps))
<1> DEFINE s == Printed(ps).policy
           d == Printed(ps).default
<1> SUFFICES ASSUME List(d, "ou") # <<>>
             PROVE  AllowsAll(s.ou) \/ In(d.ou, ToSet(s.ou))
  BY Zenon DEF UnitsWithin
<1>1. "ou" \in Names \cup {"ou"}
  OBVIOUS
<1>2. Has(d, "ou")
  BY Zenon DEF List
<1>3. Has(ps.default, "ou") /\ Worded(Value(ps.default, "ou")) /\ List(d, "ou") = <<Value(ps.default, "ou")>>
  BY <1>1, <1>2, PrintedDefaultSubject, Zenon
<1>4. List(ps.default, "ou") # <<>>
  BY <1>3, Zenon DEF CloudBuildPanics
<1>5. ToSet(d.ou) = {Value(ps.default, "ou")}
  BY <1>2, <1>3, SetOfOne, Zenon DEF List
<1>6. Has(s, "ou") /\ List(s, "ou") = IF "ou" \in Forbidden(ps) THEN NoText
                                      ELSE IF List(ps.policy, "ou") = <<>> THEN AnyName ELSE List(ps.policy, "ou")
  BY <1>1, PrintedSubject, Zenon
<1>7. s.ou = List(s, "ou")
  BY <1>6, Zenon DEF List
<1>8. CASE "ou" \notin Forbidden(ps) /\ List(ps.policy, "ou") = <<>>
  <2>1. s.ou = AnyName
    BY <1>6, <1>7, <1>8, Zenon
  <2> QED BY <2>1, Zenon DEF AllowsAll, AnyName
<1>9. CASE List(ps.policy, "ou") # <<>>
  <2>1. ps.policy.ou = List(ps.policy, "ou")
    BY <1>9, Zenon DEF List
  <2>2. AllowsAll(List(ps.policy, "ou")) \/ In(ps.default.ou, ToSet(List(ps.policy, "ou")))
    BY <1>4, <1>9, <2>1, Zenon DEF UnitsWithin
  <2>3. Value(ps.default, "ou") \in ToSet(ps.default.ou)
    <3>1. List(ps.default, "ou") \in Seq(STRING)
      BY WrittenList, Zenon DEF IsSpecification
    <3>2. Value(ps.default, "ou") \in ToSet(List(ps.default, "ou"))
      BY <1>4, <3>1, FirstIsMember, Zenon DEF Value
    <3> QED BY <1>4, <3>2, Zenon DEF List
  <2>4. AllowsAll(List(ps.policy, "ou")) \/ Value(ps.default, "ou") \in ToSet(List(ps.policy, "ou"))
    BY <2>2, <2>3 DEF In
  <2>5. "ou" \notin Forbidden(ps)
    <3> SUFFICES ASSUME "ou" \in Forbidden(ps)
                 PROVE  FALSE
      OBVIOUS
    <3>1. List(ps.policy, "ou") = NoText
      BY DEF Forbidden
    <3>2. ~ AllowsAll(NoText)
      BY TextsDiffer, Zenon DEF AllowsAll, AnyName
    <3>3. ToSet(NoText) = {NoWord}
      BY SetOfOne, Zenon DEF NoText, NoWord
    <3>4. Value(ps.default, "ou") = NoWord
      BY <2>4, <3>1, <3>2, <3>3
    <3> QED BY <1>3, <3>4, WordsStand, Zenon
  <2>6. s.ou = List(ps.policy, "ou")
    BY <1>6, <1>7, <1>9, <2>5, Zenon
  <2>7. In(d.ou, ToSet(s.ou)) <=> Value(ps.default, "ou") \in ToSet(s.ou)
    BY <1>5 DEF In
  <2> QED BY <2>4, <2>6, <2>7, Zenon
<1>10. CASE "ou" \in Forbidden(ps) /\ List(ps.policy, "ou") = <<>>
  <2>1. List(ps.policy, "ou") = NoText
    BY <1>10 DEF Forbidden
  <2> QED BY <1>10, <2>1, TextsDiffer
<1> QED
  BY <1>8, <1>9, <1>10

LEMMA DefaultStandsAlone ==
  ASSUME NEW ps, IsSpecification(ps), Has(ps.default, "rsa")
  PROVE  List(ps.default, "rsa") # <<>>
<1>1. "rsa" \notin DefaultLists
  BY DEF DefaultLists, Objects
<1>2. Written(ps.default, DefaultLists)
  BY Zenon DEF IsSpecification
<1>3. Len(ps.default.rsa) = 1
  BY <1>1, <1>2, Zenon DEF Written, Has
<1>4. ps.default.rsa # <<>>
  BY <1>3
<1> QED
  BY <1>4, Zenon DEF List

LEMMA SizesStand == "2048" \in CloudRsaKeySize /\ NoWord \notin CloudRsaKeySize
  BY Zenon DEF CloudRsaKeySize, NoWord

LEMMA DefaultSizeKnown ==
  ASSUME NEW ps, IsSpecification(ps), KnownSize(ps)
  PROVE  Worded(SizeDefault(ps)) => SizeDefault(ps) \in CloudRsaKeySize
<1>1. CASE Has(ps.default, "rsa")
  <2>1. List(ps.default, "rsa") # <<>>
    BY <1>1, DefaultStandsAlone, Zenon
  <2>2. SizeDefault(ps) = Value(ps.default, "rsa")
    BY <1>1, Zenon DEF SizeDefault
  <2>3. Worded(Value(ps.default, "rsa")) => Value(ps.default, "rsa") \in CloudRsaKeySize
    BY <2>1, Zenon DEF Worded, KnownSize, Filled
  <2> QED BY <2>2, <2>3, Zenon
<1>2. CASE ~ Has(ps.default, "rsa")
  BY <1>2, SizesStand, Zenon DEF SizeDefault
<1> QED
  BY <1>1, <1>2, Zenon

(* The sizes of a template are supported ones, and at most no size else.   *)
LEMMA SizesAllowed ==
  ASSUME NEW ps, IsSpecification(ps), SizesKnown(ps), KnownSize(ps)
  PROVE  In(KeyParameter(ps, "rsa", "2048"), CloudRsaKeySize)
           <=> NoWord \notin ToSet(KeyParameter(ps, "rsa", "2048"))
<1> DEFINE l == KeyParameter(ps, "rsa", "2048")
<1>1. CASE List(ps.policy, "rsa") # <<>>
  <2>1. l = List(ps.policy, "rsa")
    BY <1>1, ParameterGiven, Zenon
  <2>2. In(l, CloudRsaKeySize)
    BY <2>1, Zenon DEF SizesKnown
  <2> HIDE DEF l
  <2>3. NoWord \notin ToSet(l)
    BY <2>2, SizesStand DEF In
  <2> QED BY <2>2, <2>3 DEF l
<1>2. CASE List(ps.policy, "rsa") = <<>>
  <2>1. l = <<SizeDefault(ps)>>
    BY <1>2, ParameterGiven, Zenon DEF SizeDefault
  <2> DEFINE x == SizeDefault(ps)
  <2>2. Worded(x) => x \in CloudRsaKeySize
    BY DefaultSizeKnown, Zenon
  <2>3. Worded(x) <=> x # NoWord
    BY Zenon DEF Worded, NoWord
  <2> HIDE DEF l, x
  <2>4. ToSet(l) = {x}
    BY <2>1, SetOfOne DEF x
  <2>5. In(l, CloudRsaKeySize) <=> NoWord \notin ToSet(l)
    BY <2>2, <2>3, <2>4, SizesStand DEF In
  <2> QED BY <2>5, Zenon DEF l
<1> QED
  BY <1>1, <1>2, Zenon

(* The type and the size that are printed as a default are known.          *)
LEMMA PrintedDefaultsKnown ==
  ASSUME NEW ps, IsSpecification(ps), KnownDefault(ps), KnownSize(ps)
  PROVE  KnownDefault(Printed(ps)) /\ KnownSize(Printed(ps))
<1> DEFINE d == Printed(ps).default
           key == CitRecommended(ps).key
           r == key # <<>> /\ Worded(key[1])
           z == r /\ Worded(key[2])
<1>1. (Has(d, "keyType") <=> r) /\ (r => List(d, "keyType") = <<key[1]>>)
  BY PrintedKey, Zenon
<1>2. (Has(d, "rsa") <=> z /\ key[1] = "RSA") /\ (Has(d, "rsa") => List(d, "rsa") = <<key[2]>>)
  BY PrintedKey, Zenon
<1>3. r => \/ key[1] = "RSA" /\ key[2] = SizeDefault(ps)
           \/ key[1] = "EC"
  <2>1. CASE ~ Has(ps.default, "keyType")
    BY <2>1, RecommendedParts, Zenon
  <2>2. CASE Has(ps.default, "keyType") /\ ~ Worded(TypeDefault(ps))
    <3>1. key = <<NoWord, NoWord>>
      BY <2>2, RecommendedParts, Zenon
    <3>2. key[1] = NoWord
      <4> HIDE DEF key
      <4> QED BY <3>1, PairFacts
    <3> QED BY <3>2, WordsStand, Zenon
  <2>3. CASE Has(ps.default, "keyType") /\ TypeDefault(ps) = "RSA"
    <3> DEFINE x == SizeDefault(ps)
    <3>1. key = <<"RSA", x>>
      BY <2>3, RecommendedParts, Zenon
    <3> HIDE DEF key, x
    <3>2. key[1] = "RSA" /\ key[2] = x
      BY <3>1, PairFacts
    <3> QED BY <3>2 DEF x
  <2>4. CASE Has(ps.default, "keyType") /\ TypeDefault(ps) = "EC"
    <3> DEFINE x == CurveDefault(ps)
    <3>1. key = <<"EC", x>>
      BY <2>4, RecommendedParts, Zenon
    <3> HIDE DEF key, x
    <3>2. key[1] = "EC"
      BY <3>1, PairFacts
    <3> QED BY <3>2
  <2> QED BY <2>1, <2>2, <2>3, <2>4, DefaultKinds, Zenon
<1> HIDE DEF d, key
<1>4. KnownDefault(Printed(ps))
  <2> SUFFICES ASSUME Filled(d, "keyType")
               PROVE  Value(d, "keyType") \in {"RSA", "EC"}
    BY Zenon DEF KnownDefault, d
  <2>1. Has(d, "keyType")
    BY Zenon DEF Filled, List
  <2>2. Value(d, "keyType") = key[1]
    BY <1>1, <2>1, SoleValue, Zenon
  <2> QED BY <1>1, <1>3, <2>1, <2>2
<1>5. KnownSize(Printed(ps))
  <2> SUFFICES ASSUME Filled(d, "rsa")
               PROVE  Value(d, "rsa") \in CloudRsaKeySize
    BY Zenon DEF KnownSize, d
  <2>1. Has(d, "rsa")
    BY Zenon DEF Filled, List
  <2>2. Value(d, "rsa") = key[2] /\ z /\ key[1] = "RSA"
    BY <1>2, <2>1, SoleValue, Zenon
  <2>3. "EC" # "RSA"
    OBVIOUS
  <2>4. key[2] = SizeDefault(ps) /\ Worded(key[2])
    BY <1>3, <2>2, <2>3, Zenon
  <2> QED BY <2>2, <2>4, DefaultSizeKnown, Zenon
<1> QED
  BY <1>4, <1>5

LEMMA OwnAccepted ==
  ASSUME Called("cloud policy") => IsSpecification(Arg)
  PROVE  CloudAcceptsItsOwn
<1> SUFFICES ASSUME Called("cloud policy"), ValidateCloudPolicySpecification(Arg) = "ok",
                    ~ CloudBuildPanics(Arg),
                    NEW key, key = CitRecommended(Arg).key,
                    NEW types, types = CitKeyTypes(Arg)
             PROVE  ValidateCloudPolicySpecification(Printed(Arg)) = "ok"
                      <=> /\ "RSA" \in DOMAIN types => "" \notin ToSet(types["RSA"])
                          /\ (DOMAIN types # {} /\ key # <<>> /\ key[1] # "") =>
                               /\ key[1] \in DOMAIN types
                               /\ (key[1] = "RSA" /\ key[2] # "") => key[2] \in ToSet(types["RSA"])
  <2>1. BuildCloudCitRequest(Arg).recommended = CitRecommended(Arg)
        /\ BuildCloudCitRequest(Arg).keyTypes = CitKeyTypes(Arg)
    BY TemplateFields, Zenon
  <2> QED BY <2>1, Zenon DEF CloudAcceptsItsOwn, Printed
<1> DEFINE ps == Arg
           q == Printed(Arg)
           s == q.policy
           d == q.default
           T == DOMAIN types
           l == KeyParameter(ps, "rsa", "2048")
           r == key # <<>> /\ Worded(key[1])
           z == r /\ Worded(key[2])
<1>1. IsSpecification(ps)
  BY Zenon
<1>2. SizesKnown(ps) /\ KnownDefault(ps) /\ KnownSize(ps) /\ UnitsWithin(ps)
      /\ \A f \in Names : WithinOrOpen(ps, f)
  BY CloudChecks, Zenon
<1>3. NoUserName(q)
  <2>1. "upn" \in {"upn", "ipConstraints"}
    OBVIOUS
  <2>2. DOMAIN BuildCloudCitRequest(ps).keyTypes \subseteq {"RSA", "EC"}
    BY TemplateFields, TemplateKinds, Zenon
  <2>3. ~ Has(s, "upn")
    BY <2>1, <2>2, PrintedPolicy, Zenon DEF Printed
  <2> QED BY <2>3, Zenon DEF NoUserName, Flag
<1>4. ProtocolsGiven(q)
  <2>1. "uri" \in {"dns", "email", "uri"}
    OBVIOUS
  <2>2. (Flag(s, "uri", "true") <=> "uri" \in NameKinds(ps)) /\ Protocols(q) = Distinct(Protocols(ps))
    BY <1>1, <2>1, PrintedNames, Zenon
  <2>3. "uri" \in NameKinds(ps) => Distinct(Protocols(ps)) # <<>>
    <3>1. Protocols(ps) \in Seq(STRING)
      BY <1>1, WrittenList, Zenon DEF Protocols, IsSpecification
    <3> QED BY <3>1, DistinctMembers DEF NameKinds
  <2> QED BY <2>2, <2>3, Zenon DEF ProtocolsGiven
<1>5. (\A f \in Names : WithinOrOpen(q, f)) /\ UnitsWithin(q)
  <2>1. UnitsWithin(q)
    BY <1>1, <1>2, PrintedUnits, Zenon
  <2>2. \A f \in Names : WithinOrOpen(q, f)
    BY <1>2, PrintedWithin, Zenon
  <2> QED BY <2>1, <2>2, Zenon
<1>6. KnownDefault(q) /\ KnownSize(q)
  BY <1>1, <1>2, PrintedDefaultsKnown, Zenon
<1>7. /\ List(s, "keyType") = <<>> <=> T = {}
      /\ ToSet(List(s, "keyType")) = T
      /\ List(s, "rsa") = IF "RSA" \in T THEN l ELSE <<>>
  BY PrintedKeys, Zenon
<1>8. /\ (Has(d, "keyType") <=> r) /\ (r => List(d, "keyType") = <<key[1]>>)
      /\ (Has(d, "rsa") <=> z /\ key[1] = "RSA") /\ (Has(d, "rsa") => List(d, "rsa") = <<key[2]>>)
  BY PrintedKey, Zenon
<1>9. ("RSA" \in T => types["RSA"] = l) /\ l # <<>>
  <2>1. l # <<>>
    BY ParameterGiven, Zenon
  <2>2. "RSA" \in DOMAIN CitKeyTypes(ps) => CitKeyTypes(ps)["RSA"] = KeyParameter(ps, "rsa", "2048")
    BY KeyTypesParts, Zenon
  <2>3. "RSA" \in T => types["RSA"] = l
    BY <2>2, Zenon
  <2> QED BY <2>1, <2>3, Zenon
<1> HIDE DEF l, T
<1>10. SizesKnown(q) <=> ("RSA" \in T => NoWord \notin ToSet(l))
  <2>1. In(l, CloudRsaKeySize) <=> NoWord \notin ToSet(l)
    BY <1>1, <1>2, SizesAllowed, Zenon DEF l
  <2>2. In(<<>>, CloudRsaKeySize)
    BY SetOfNone DEF In
  <2> QED BY <1>7, <2>1, <2>2, Zenon DEF SizesKnown
<1>11. WithinList(q, "keyType") <=> (T # {} /\ r => key[1] \in T)
  <2>1. List(s, "keyType") # <<>> => s.keyType = List(s, "keyType")
    BY Zenon DEF List
  <2>2. r => Value(d, "keyType") = key[1]
    BY <1>8, SoleValue, Zenon
  <2>3. WithinList(q, "keyType") <=>
          ((Has(d, "keyType") /\ List(s, "keyType") # <<>>) => Value(d, "keyType") \in ToSet(s.keyType))
    BY Zenon DEF WithinList, existValueInArray
  <2> HIDE DEF r, s, d, q, ps
  <2> QED BY <1>7, <1>8, <2>1, <2>2, <2>3, Zenon
<1>12. WithinList(q, "rsa") <=> ((z /\ key[1] = "RSA" /\ "RSA" \in T) => key[2] \in ToSet(l))
  <2>1. List(s, "rsa") # <<>> => s.rsa = List(s, "rsa")
    BY Zenon DEF List
  <2>2. Has(d, "rsa") => Value(d, "rsa") = key[2]
    BY <1>8, SoleValue, Zenon
  <2>3. WithinList(q, "rsa") <=>
          ((Has(d, "rsa") /\ List(s, "rsa") # <<>>) => Value(d, "rsa") \in ToSet(s.rsa))
    BY Zenon DEF WithinList, existValueInArray
  <2> HIDE DEF z, s, d, q, ps
  <2> QED BY <1>7, <1>8, <1>9, <2>1, <2>2, <2>3, Zenon
<1>13. ValidateCloudPolicySpecification(q) = "ok"
         <=> SizesKnown(q) /\ WithinList(q, "keyType") /\ WithinList(q, "rsa")
  BY <1>3, <1>4, <1>5, <1>6, CloudChecks, Zenon
<1>14. \A x : Worded(x) <=> x # ""
  BY Zenon DEF Worded
<1>15. NoWord = ""
  BY Zenon DEF NoWord
<1> DEFINE good == /\ "RSA" \in T => NoWord \notin ToSet(types["RSA"])
                   /\ (T # {} /\ r) =>
                        /\ key[1] \in T
                        /\ (key[1] = "RSA" /\ Worded(key[2])) => key[2] \in ToSet(types["RSA"])
<1>16. ValidateCloudPolicySpecification(q) = "ok" <=> good
  <2> DEFINE k1 == key[1]
             k2 == key[2]
             u == types["RSA"]
             w1 == Worded(k1)
             w2 == Worded(k2)
             g == key # <<>>
             m(v) == NoWord \notin ToSet(v)
             i(v) == k2 \in ToSet(v)
             a == SizesKnown(q)
             b == WithinList(q, "keyType")
             e == WithinList(q, "rsa")
  <2>1. a <=> ("RSA" \in T => m(l))
    BY <1>10, Zenon
  <2>2. b <=> (T # {} /\ g /\ w1 => k1 \in T)
    BY <1>11, Zenon
  <2>3. e <=> ((g /\ w1 /\ w2 /\ k1 = "RSA" /\ "RSA" \in T) => i(l))
    BY <1>12, Zenon
  <2>4. "RSA" \in T => u = l
    BY <1>9, Zenon
  <2>5. good <=> /\ "RSA" \in T => m(u)
                 /\ (T # {} /\ g /\ w1) => k1 \in T /\ ((k1 = "RSA" /\ w2) => i(u))
    BY Zenon
  <2> HIDE DEF k1, k2, u, w1, w2, g, m, i, a, b, e, good, r, z, q, ps
  <2>6. a /\ b /\ e <=> good
    <3>1. CASE "RSA" \in T
      <4>1. T # {} /\ u = l
        BY <2>4, <3>1
      <4> QED BY <2>1, <2>2, <2>3, <2>5, <3>1, <4>1, Zenon
    <3>2. CASE "RSA" \notin T
      BY <2>1, <2>2, <2>3, <2>5, <3>2, Zenon
    <3> QED BY <3>1, <3>2, Zenon
  <2> QED BY <1>13, <2>6, Zenon DEF a, b, e
<1>17. good <=> /\ "RSA" \in DOMAIN types => "" \notin ToSet(types["RSA"])
                /\ (DOMAIN types # {} /\ key # <<>> /\ key[1] # "") =>
                     /\ key[1] \in DOMAIN types
                     /\ (key[1] = "RSA" /\ key[2] # "") => key[2] \in ToSet(types["RSA"])
  BY Zenon DEF T, Worded, NoWord
<1> QED
  BY <1>16, <1>17, Zenon

-----------------------------------------------------------------------------
(* What the calls compute *)

LEMMA LeafOfCall ==
  ASSUME Sound(call)
  PROVE  CheckedIsOwn
<1>1. IssuedIsAccepted
  BY DEF IssuedIsAccepted, Own, CheckCertificate, NoKey
<1>2. OnlyTheLeafPasses
  <2> SUFFICES ASSUME Called("bundle")
               PROVE  OnlyTheLeafPasses
    BY Zenon DEF OnlyTheLeafPasses
  <2> DEFINE s == Arg.bundle.certs
             at == Arg.bundle.keyAfter
             leaf == s[Len(s)]
             Taken(order) == PEMCollectionFromBytes(Blocks, order).certificate[1].of
             KeyOf(c, type, chain) == [type |-> IF c = leaf THEN type ELSE chain, n |-> c, rest |-> 1]
  <2>1. s \in Seq(Nat) /\ s # <<>> /\ at \in 0 .. Len(s)
    BY Zenon DEF Sound, BundleCall, Called, Arg
  <2>2. Blocks = BundleBlocks(s, at, Arg.order)
    BY Zenon DEF Blocks, BundleBlocks, BundleKey, CertificatesFrom
  <2>3. ASSUME NEW order PROVE Taken(order) \in {s[1], s[Len(s)]}
    BY <2>1, <2>2, TakenCertificate
  <2>4. Len(s) \in Nat \ {0} /\ s[1] \in Nat /\ leaf \in Nat
    BY <2>1
  <2> HIDE DEF s, at, leaf, Taken
  <2>5. ASSUME NEW order \in {"root-first", "root-last"}, NEW type \in {"RSA", "ECDSA", "ED25519"},
               NEW chain \in {"RSA", "ECDSA", "ED25519"}, NEW held \in BOOLEAN,
               held \/ {type, chain} # {"ED25519"}
        PROVE  CheckCertificate(type, IF held THEN KeyOf(leaf, type, chain) ELSE NoKey,
                                KeyOf(leaf, type, chain), KeyOf(Taken(order), type, chain))
                 <=> Taken(order) = leaf
    <3>1. Taken(order) \in Nat /\ leaf \in Nat
      BY <2>3, <2>4 DEF leaf
    <3>2. CASE held
      BY <3>1, <3>2 DEF CheckCertificate, NoKey
    <3>3. CASE ~ held
      <4>1. type # "ED25519" \/ chain # "ED25519"
        BY <2>5, <3>3
      <4> QED BY <3>1, <3>3, <4>1 DEF CheckCertificate, NoKey
    <3> QED BY <3>2, <3>3
  <2> QED BY <2>5, Zenon DEF OnlyTheLeafPasses, s, leaf, Taken
<1> QED
  BY <1>1, <1>2, Zenon DEF CheckedIsOwn

(* A request takes its own certificate, and no other one of a file of any  *)
(* number of certificates, in whatever order they stand and are read       *)
(* (request.go: CheckCertificate, certificateCollection.go:                *)
(* PEMCollectionFromBytes).                                                *)
THEOREM CheckedBelongs == Spec => []CheckedIsOwn
  BY LeafOfCall, CallsAreSound, PTL

LEMMA MaterialOfCall ==
  ASSUME Sound(call)
  PROVE  MaterialIsWhole
<1>1. ListenerKeepsKey
  BY ListenersKey, Zenon DEF ListenerKeepsKey
<1>2. CollectionIsWhole
  <2> SUFFICES ASSUME Called("bundle")
               PROVE  CollectionIsWhole
    BY Zenon DEF CollectionIsWhole
  <2>1. Arg.bundle.certs \in Seq(Nat) /\ Arg.bundle.certs # <<>>
    BY Zenon DEF Sound, BundleCall, Called, Arg
  <2>2. Arg.bundle.keyAfter \in 0 .. Len(Arg.bundle.certs)
    BY Zenon DEF Sound, BundleCall, Called, Arg
  <2>3. WholeBundle(Arg.bundle.certs, Arg.bundle.keyAfter, Arg.order)
    BY <2>1, <2>2, WholeCollection
  <2> QED
    BY <2>3, Zenon DEF CollectionIsWhole, WholeBundle, CertificatesFrom, BundleBlocks, BundleKey, Blocks
<1> QED
  BY <1>1, <1>2, Zenon DEF MaterialIsWhole

(* Keys, certificates and chains reach their places whole: the listener    *)
(* has the key it is given if that is an RSA key, and a collection of any  *)
(* length is the same however its blocks are ordered and wherever its key  *)
(* stands (certificate.go, certificateCollection.go, listener.go,          *)
(* connector.go of the cloud).                                             *)
THEOREM MaterialStaysWhole == Spec => []MaterialIsWhole
  BY MaterialOfCall, CallsAreSound, PTL

LEMMA NamesOfCall ==
  ASSUME Sound(call)
  PROVE  NamesAreKept
<1>1. RenewalAsksAgain
  <2> DEFINE first == GenerateCSR(Arg)
             again == GenerateCSR(NewRequest(first))
             named == ~ Arg.omit /\ Arg.extra = <<>>
  <2> SUFFICES ASSUME Called("sign")
               PROVE  /\ again.subject = first.subject /\ again.key = first.key
                      /\ \A k \in ToSet(NameTypes) :
                           /\ NamesOf(again.extensions, k) = NamesOf(first.extensions, k)
                           /\ named => NamesOf(first.extensions, k) = Arg.names[k]
                      /\ Arg.extra # <<>> => first.extensions = Arg.extra
    BY Zenon DEF RenewalAsksAgain
  <2>1. /\ Arg.names \in [ToSet(NameTypes) -> Seq(Nat)]
        /\ "san" \in DOMAIN Arg.extra => Arg.extra.san.list \in Seq(ToSet(NameTypes) \X Nat)
    BY Zenon DEF Sound, SignCall, Called, Arg
  <2>2. \A k \in ToSet(NameTypes) :
          /\ again.subject = first.subject /\ again.key = first.key
          /\ NamesOf(again.extensions, k) = NamesOf(first.extensions, k)
          /\ named => NamesOf(first.extensions, k) = Arg.names[k]
    BY <2>1, RenewalNames, Zenon
  <2>3. "dns" \in ToSet(NameTypes)
    BY DEF ToSet, NameTypes
  <2>4. Arg.extra # <<>> => first.extensions = Arg.extra
    BY DEF GenerateCSR, Extensions
  <2> QED BY <2>2, <2>3, <2>4, Zenon
<1>2. FoundIsUsable
  <2> SUFFICES ASSUME Called("search")
               PROVE  FoundIsUsable
    BY Zenon DEF FoundIsUsable
  <2>1. Arg.found \in Seq([zone : Nat, dns : Seq(Nat), validTo : Nat])
    BY Zenon DEF Sound, SearchCall, Called, Arg
  <2> QED BY <2>1, NewestFound, Zenon DEF FoundIsUsable
<1> QED
  BY <1>1, <1>2, Zenon DEF NamesAreKept

(* A renewal asks for the names of the certificate it renews, in any       *)
(* number and of every type, and a search finds the newest certificate of  *)
(* the zone that has exactly the names it was given, if there is one       *)
(* (certificate.go: GenerateCSR, NewRequest, FindNewestCertificateWithSans;*)
(* connector.go: SearchCertificate).                                       *)
THEOREM NamesStay == Spec => []NamesAreKept
  BY NamesOfCall, CallsAreSound, PTL

LEMMA ReadForPolicy ==
  ASSUME Sound(call)
  PROVE  Called("tpp policy") \/ Called("cloud policy") => IsSpecification(Arg)
  BY DEF Sound, PolicyCall, Called, Arg

LEMMA PolicyOfCall ==
  ASSUME Sound(call)
  PROVE  SpecificationIsApplied
<1>1. Called("tpp policy") => IsSpecification(Arg)
  BY ReadForPolicy
<1>2. DefaultIsWithinPolicy
  BY <1>1, DefaultApplied, Zenon DEF DefaultIsWithinPolicy
<1>3. EmptyEnforcesNothing
  BY <1>1, NothingIsEmpty, Zenon DEF EmptyEnforcesNothing
<1>4. UserIsExact
  <2> SUFFICES ASSUME Called("user")
               PROVE  UserIsExact
    BY Zenon DEF UserIsExact
  <2>1. Arg.directory \in Seq(Seq(Nat)) /\ Arg.name \in Seq(Nat) /\ Arg.name # <<>>
    BY DEF Sound, UserCall, Called, Arg
  <2> QED BY <2>1, UserFound, Zenon DEF UserIsExact
<1> QED
  BY <1>2, <1>3, <1>4, Zenon DEF SpecificationIsApplied

(* What setpolicy applies of a specification of any size: the defaults it  *)
(* suggests are within the policy it sets, an empty specification sets     *)
(* nothing but the attributes the test of emptiness does not know, and the *)
(* contact is the user of exactly the name that was given, or nobody       *)
(* (policyUtils.go, tpp/connector.go: getIdentity).                        *)
THEOREM SpecificationApplies == Spec => []SpecificationIsApplied
  BY PolicyOfCall, CallsAreSound, PTL

LEMMA ReadAgain ==
  ASSUME Sound(call)
  PROVE  RoundTrip
<1>1. (Called("tpp policy") => IsSpecification(Arg)) /\ (Called("cloud policy") => IsSpecification(Arg))
  BY ReadForPolicy
<1>2. TppRoundTrip
  BY <1>1, TppAgain, Zenon
<1>3. CloudRoundTrip
  BY <1>1, TemplateAgain, Zenon
<1>4. CloudAcceptsItsOwn
  BY <1>1, OwnAccepted, Zenon
<1> QED
  BY <1>2, <1>3, <1>4, Zenon DEF RoundTrip

(* What getpolicy prints setpolicy takes again and makes the same folder   *)
(* or template of it, for a specification with lists of any length; what   *)
(* the format cannot express is named in the property, and a folder whose  *)
(* printed policy makes setpolicy panic is left out (policyUtils.go and    *)
(* cloud.go: the translations to the platforms and back).                  *)
THEOREM PrintedIsApplied == Spec => []RoundTrip
  BY ReadAgain, CallsAreSound, PTL
===============================================================================
