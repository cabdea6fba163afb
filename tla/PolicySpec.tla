----------------------------- MODULE PolicySpec ------------------------------
(***************************************************************************)
(* Policy specifications: what `vcert setpolicy' reads, what it checks,    *)
(* and the translations to and from the two platforms.                     *)
(*                                                                         *)
(* The two sections of a specification, `policy' and `default', are        *)
(* functions whose domain is the set of keys the document gives; a value   *)
(* is the list that stands there, of length one for a scalar.  The names   *)
(* "subject" and "keyPair" are in the domain when the object is given,     *)
(* whatever it holds.  "" is the empty string and the number 0.            *)
(***************************************************************************)
EXTENDS Lists, SequencesExt

Names == {"org", "locality", "state", "country"}    \* single valued on TPP
SanTypes == {"dns", "ip", "email", "uri", "upn"}
TppKeyType == {"RSA", "ECDSA", "ECC"}
TppRsaKeySize == {"512", "1024", "2048", "3072", "4096"}
CloudRsaKeySize == {"1024", "2048", "3072", "4096"}
TppEllipticCurves == {"P256", "P384", "P521"}
TwoLetters == {"US", "DE"}

Has(s, f)   == f \in DOMAIN s
List(s, f)  == IF Has(s, f) THEN s[f] ELSE <<>>
Value(s, f) == List(s, f)[1]
Filled(s, f) == List(s, f) # <<>> /\ Value(s, f) # ""
Flag(s, f, b) == Has(s, f) /\ Value(s, f) = b
In(list, supported) == ToSet(list) \subseteq supported
Only(s, names) == [f \in DOMAIN s \cap names |-> s[f]]

(* The first check that does not pass.                                     *)
FirstOf(verdicts) ==
  LET bad == {i \in DOMAIN verdicts : verdicts[i] # "ok"}
  IN  IF bad = {} THEN "ok" ELSE verdicts[CHOOSE i \in bad : \A j \in bad : i <= j]

Check(good) == IF good THEN "ok" ELSE "error"

-----------------------------------------------------------------------------
(* Trust Protection Platform *)

validatePolicySubject(ps) ==
  Check(/\ \A f \in Names : Len(List(ps.policy, f)) <= 1
        /\ List(ps.policy, "country") # <<>> => Value(ps.policy, "country") \in TwoLetters)

validateKeyPair(ps) ==
  LET One(f, supported) == Len(List(ps.policy, f)) <= 1 /\ In(List(ps.policy, f), supported)
  IN  Check(/\ One("keyType", TppKeyType)
            /\ One("rsa", TppRsaKeySize)
            /\ One("curve", TppEllipticCurves))

(* A list that is given and empty is indexed before its length is looked   *)
(* at.                                                                     *)
SameDefault(ps, f) ==
  IF Has(ps.policy, f) /\ List(ps.policy, f) = <<>> THEN "panic"
  ELSE Check((Filled(ps.policy, f) /\ Filled(ps.default, f))
               => Value(ps.policy, f) = Value(ps.default, f))

(* Mutant of validateDefaultSubject: states and units are forgotten.       *)
validateDefaultSubjectNoState(ps) ==
  IF ~ (Has(ps.default, "subject") /\ Has(ps.policy, "subject")) THEN "ok"
  ELSE FirstOf(<<SameDefault(ps, "org"), SameDefault(ps, "locality"), SameDefault(ps, "country")>>)

validateDefaultSubject(ps) ==
  IF ~ (Has(ps.default, "subject") /\ Has(ps.policy, "subject")) THEN "ok"
  ELSE FirstOf(<<SameDefault(ps, "org"),
                 Check((List(ps.policy, "ou") # <<>> /\ List(ps.default, "ou") # <<>>)
                         => In(List(ps.default, "ou"), ToSet(List(ps.policy, "ou")))),
                 SameDefault(ps, "locality"), SameDefault(ps, "state"),
                 SameDefault(ps, "country"),
                 Check(Filled(ps.default, "country")
                         => Value(ps.default, "country") \in TwoLetters)>>)

validateDefaultKeyPairWithPolicySubject(ps) ==
  IF ~ (Has(ps.default, "keyPair") /\ Has(ps.policy, "keyPair")) THEN "ok"
  ELSE FirstOf(<<SameDefault(ps, "keyType"), SameDefault(ps, "rsa"),
                 SameDefault(ps, "curve"), SameDefault(ps, "service")>>)

validateDefaultKeyPair(ps) ==
  LET Known(f, supported) == Filled(ps.default, f) => Value(ps.default, f) \in supported
  IN  Check(/\ Known("keyType", TppKeyType)
            /\ Known("rsa", TppRsaKeySize)
            /\ Known("curve", TppEllipticCurves))

ValidateTppPolicySpecification(ps) ==
  FirstOf(<<validatePolicySubject(ps), validateKeyPair(ps),
            validateDefaultSubject(ps), validateDefaultKeyPairWithPolicySubject(ps),
            validateDefaultKeyPair(ps),
            Check((Has(ps.default, "auto") /\ Has(ps.policy, "auto"))
                    => ps.default.auto = ps.policy.auto)>>)

(* The attributes of a folder: a set of records of an attribute's name,    *)
(* its values and whether they are locked (enforced) or a suggestion.      *)
Write(at, av, l) == {[at |-> at, av |-> av, l |-> l]}

(* The policy's value, locked, or else the default's, not locked.          *)
Either(ps, f, at, policyGiven, defaultGiven) ==
  CASE policyGiven  -> Write(at, ps.policy[f], TRUE)
    [] ~policyGiven /\ defaultGiven -> Write(at, ps.default[f], FALSE)
    [] OTHER -> {}

TextAttribute(ps, f, at) ==
  {[a EXCEPT !.av = <<@[1]>>] :
     a \in Either(ps, f, at, Filled(ps.policy, f), Filled(ps.default, f))}

FlagAttribute(ps, f, at, yes, no) ==
  {[a EXCEPT !.av = <<IF @[1] = "true" THEN yes ELSE no>>] :
     a \in Either(ps, f, at, Has(ps.policy, f), Has(ps.default, f))}

OnlyIf(b, x) == IF b THEN <<x>> ELSE <<>>

getProhibitedSanTypes(ps) ==
  LET Prohibited(t) == OnlyIf(Flag(ps.policy, t, "false"), t)
  IN  Prohibited("dns") \o Prohibited("ip") \o Prohibited("email") \o Prohibited("uri")
        \o Prohibited("upn")

(* Mutant of PolicyFlag: the flag is inverted.                             *)
PolicyFlagInverted(ps, f, at, yes, no, l) ==
  IF Has(ps.policy, f)
  THEN Write(at, <<IF Flag(ps.policy, f, "true") THEN no ELSE yes>>, l) ELSE {}

PolicyFlag(ps, f, at, yes, no, l) ==
  IF Has(ps.policy, f)
  THEN Write(at, <<IF Flag(ps.policy, f, "true") THEN yes ELSE no>>, l) ELSE {}

BuildTppPolicy(ps) ==
  UNION {
    IF Has(ps, "users") THEN Write("Contact", ps.users, TRUE) ELSE {},
    IF Has(ps, "approvers") THEN Write("Approver", ps.approvers, TRUE) ELSE {},
    IF Has(ps.policy, "domains") THEN Write("Domains", ps.policy.domains, TRUE) ELSE {},
    IF Has(ps.policy, "ca") THEN Write("CA", ps.policy.ca, FALSE) ELSE {},
    PolicyFlag(ps, "wildcard", "ProhibitWildcard", "0", "1", FALSE),
    PolicyFlag(ps, "reuse", "KeyReuse", "1", "0", TRUE),
    PolicyFlag(ps, "reuse", "WantRenewal", "1", "0", TRUE),
    FlagAttribute(ps, "auto", "ManagementType", "Provisioning", "Enrollment"),
    FlagAttribute(ps, "service", "ManualCsr", "0", "1"),
    TextAttribute(ps, "org", "Org"), TextAttribute(ps, "locality", "City"),
    TextAttribute(ps, "state", "State"), TextAttribute(ps, "country", "Country"),
    Either(ps, "ou", "OU", Filled(ps.policy, "ou"), Filled(ps.default, "ou")),
    TextAttribute(ps, "keyType", "KeyAlg"), TextAttribute(ps, "rsa", "KeyBits"),
    TextAttribute(ps, "curve", "Curve"),
    IF List(ps.policy, "pkix") # <<>> THEN Write("PKIX", ps.policy.pkix, TRUE) ELSE {},
    IF Filled(ps.default, "pkix") THEN Write("PKIXDefault", ps.default.pkix, FALSE) ELSE {},
    IF getProhibitedSanTypes(ps) # <<>>
    THEN Write("SanTypes", getProhibitedSanTypes(ps), FALSE) ELSE {} }

(* BuildTppPolicy reads the default organisation of every specification    *)
(* that has a default subject and no organisation in its policy.           *)
BuildPanics(ps) ==
  /\ ~ Filled(ps.policy, "org")
  /\ Has(ps.default, "subject") /\ ~ Has(ps.default, "org")

Of(attrs, at) == {w \in attrs : w.at = at}
Text(attrs, at) == IF Of(attrs, at) = {} THEN "" ELSE (CHOOSE w \in Of(attrs, at) : TRUE).av[1]
Named(attrs) == {w.at : w \in attrs}

(* GetPolicy: what the platform's check of the folder answers becomes a    *)
(* specification again, what is locked in its policy and the rest in its   *)
(* defaults.  A size is read for RSA keys only, a curve for the others;    *)
(* wildcards, reuse and the SAN types are always given.                    *)
Bool(b) == <<IF b THEN "true" ELSE "false">>
ValuesOf(attrs, at) == (CHOOSE w \in Of(attrs, at) : TRUE).av

Read(attrs, field, l) ==
  LET given == {f \in DOMAIN field : /\ Text(attrs, field[f]) # ""
                                     /\ \E w \in Of(attrs, field[f]) : w.l = l}
  IN  [f \in given |-> ValuesOf(attrs, field[f])]

Object(keys, name) == keys ++ (IF DOMAIN keys = {} THEN <<>> ELSE [n \in {name} |-> <<>>])

ReadSubject(attrs, l) ==
  Object(Read(attrs, [org |-> "Org", ou |-> "OU", locality |-> "City", state |-> "State",
                      country |-> "Country"], l), "subject")

ReadKeyPair(attrs, l) ==
  LET rsa == Text(attrs, "KeyAlg") = "RSA"
      keys == Read(attrs, [keyType |-> "KeyAlg", service |-> "ManualCsr"], l)
                ++ (IF rsa THEN Read(attrs, [rsa |-> "KeyBits"], l)
                    ELSE Read(attrs, [curve |-> "Curve"], l))
  IN  [f \in DOMAIN keys |-> IF f = "service" THEN Bool(keys[f] = <<"0">>) ELSE keys[f]]

ReadManagement(attrs, l) ==
  LET read == Read(attrs, [auto |-> "ManagementType"], l)
  IN  [f \in DOMAIN read |-> Bool(read[f] = <<"Provisioning">>)]

resolveSubjectAltNames(attrs) ==
  LET prohibited == UNION {ToSet(w.av) : w \in Of(attrs, "SanTypes")}
  IN  [t \in SanTypes |-> Bool(t \notin prohibited)]

BuildPolicySpecificationForTPP(attrs) ==
  [policy |->
     ReadSubject(attrs, TRUE) ++ ReadKeyPair(attrs, TRUE) ++ ReadManagement(attrs, TRUE)
       ++ resolveSubjectAltNames(attrs)
       ++ [wildcard |-> Bool(Text(attrs, "ProhibitWildcard") # "1"),
           reuse |-> Bool(Text(attrs, "KeyReuse") = "1"), keyPair |-> <<>>]
       ++ (IF Of(attrs, "Domains") # {} THEN [domains |-> ValuesOf(attrs, "Domains")] ELSE <<>>)
       ++ (IF Text(attrs, "CA") # "" THEN [ca |-> ValuesOf(attrs, "CA")] ELSE <<>>),
   default |->
     ReadSubject(attrs, FALSE) ++ Object(ReadKeyPair(attrs, FALSE), "keyPair")
       ++ ReadManagement(attrs, FALSE)]

(* On the platform from 25 on the key is described by the PKIX parameter   *)
(* sets; when the specification names none they are derived from algorithm,*)
(* size and curve, for the pairs of the table.                             *)
KeyAlgorithmsToPKIX ==
  ({"RSA"} \X {"1024", "2048", "3072", "4096"}) \cup ({"ECC"} \X {"P256", "P384", "P521"})

PkixOid(attrs) ==
  LET alg == Text(attrs, "KeyAlg")
      param == IF Of(attrs, "Curve") # {} /\ alg # "RSA" THEN Text(attrs, "Curve")
               ELSE Text(attrs, "KeyBits")
  IN  IF <<alg, param>> \in KeyAlgorithmsToPKIX THEN <<alg, param>> ELSE <<>>

KeyNames(pkix) == IF pkix THEN {"PKIX", "PKIXDefault"} ELSE {"KeyAlg", "KeyBits", "Curve"}

Derived(attrs, at) ==
  IF Of(attrs, "PKIX") # {} \/ PkixOid(attrs) = <<>> \/ Of(attrs, at) # {} THEN {}
  ELSE {[at |-> at, av |-> PkixOid(attrs), l |-> w.l] : w \in Of(attrs, "KeyAlg")}

(* What SetPolicy writes to a platform with or without PKIX parameter sets.*)
(* A derived default is overwritten at once by the specification's own.    *)
AttributesFor(attrs, pkix) ==
  {w \in attrs : w.at \notin KeyNames(~pkix)}
    \cup (IF pkix THEN Derived(attrs, "PKIX") \cup Derived(attrs, "PKIXDefault") ELSE {})

TppResetOrder ==
  <<"Contact", "Domains", "ProhibitWildcard", "CA", "Org", "OU", "City", "State", "Country",
    "KeyAlg", "KeyBits", "Curve", "PKIXDefault", "PKIX", "ManualCsr", "SanTypes", "KeyReuse",
    "WantRenewal", "ManagementType">>

TppSubjectOrder ==
  <<"Contact", "ManagementType", "Domains", "ProhibitWildcard", "CA", "Org", "OU", "City",
    "State", "Country">>

TppKeyOrder == <<"PKIX", "PKIXDefault", "KeyAlg", "KeyBits", "Curve">>

TppWriteOrder ==
  TppSubjectOrder \o TppKeyOrder
    \o <<"ManualCsr", "SanTypes", "KeyReuse", "WantRenewal">>

-----------------------------------------------------------------------------
(* The cloud.  A template holds lists of regular expressions; Suffix(d, w) *)
(* is the one that ConvertToRegex makes of a domain, AnyText is ".*".      *)

AllowAll == ".*"
AnyText == [form |-> "literal", of |-> AllowAll]
Suffix(d, wild) == [form |-> IF wild THEN "wildcard" ELSE "suffix", of |-> d]

ConvertToRegex(list, wild) == [i \in DOMAIN list |-> Suffix(list[i], wild)]
RemoveRegex(list) == [i \in DOMAIN list |-> list[i].of]

existValueInArray(list, v) == v \in ToSet(list)
AllowsAll(list) == list = <<AllowAll>>

(* A default outside the policy's list is an error whose text for the      *)
(* organisational units reads the default organisation.                    *)
CloudDefault(ps, f) ==
  Check((Has(ps.default, f) /\ List(ps.policy, f) # <<>>)
          => AllowsAll(ps.policy[f]) \/ existValueInArray(ps.policy[f], Value(ps.default, f)))

CloudDefaultUnits(ps) ==
  IF \/ List(ps.default, "ou") = <<>> \/ List(ps.policy, "ou") = <<>>
     \/ AllowsAll(ps.policy.ou) \/ In(ps.default.ou, ToSet(ps.policy.ou))
  THEN "ok" ELSE IF Has(ps.default, "org") THEN "error" ELSE "panic"

WithinGiven(ps, f) ==
  Check((Has(ps.default, f) /\ List(ps.policy, f) # <<>>)
          => existValueInArray(ps.policy[f], Value(ps.default, f)))

ValidateCloudPolicySpecification(ps) ==
  FirstOf(<<Check(In(List(ps.policy, "rsa"), CloudRsaKeySize)),
            Check(~ Flag(ps.policy, "upn", "true")),
            Check(Flag(ps.policy, "uri", "true") => List(ps.policy, "uriProtocols") # <<>>),
            CloudDefault(ps, "org"), CloudDefaultUnits(ps), CloudDefault(ps, "locality"),
            CloudDefault(ps, "state"), CloudDefault(ps, "country"),
            WithinGiven(ps, "keyType"), WithinGiven(ps, "rsa"),
            Check(Filled(ps.default, "keyType") => Value(ps.default, "keyType") \in {"RSA", "EC"}),
            Check(Filled(ps.default, "rsa") => Value(ps.default, "rsa") \in CloudRsaKeySize)>>)

IsWildcardAllowed(ps) == Flag(ps.policy, "wildcard", "true")
Domains(ps) == List(ps.policy, "domains")

(* A key that is not in the domain of a template is a list that is null.   *)
CitNames(ps) ==
  LET cn == IF Domains(ps) = <<>> THEN <<AnyText>>
            ELSE ConvertToRegex(Domains(ps), IsWildcardAllowed(ps))
      dns == Domains(ps) = <<>> \/ ~ Flag(ps.policy, "dns", "false")
      mail == IF Domains(ps) = <<>> THEN <<AllowAll>> ELSE Domains(ps)
      uri == [protocols |-> List(ps.policy, "uriProtocols"), domains |-> mail]
      lists == {"cn"} \cup (IF dns THEN {"dns"} ELSE {})
                 \cup (IF Flag(ps.policy, "email", "true") THEN {"email"} ELSE {})
                 \cup (IF uri.protocols # <<>> THEN {"uri"} ELSE {})
  IN  [f \in lists |-> CASE f \in {"cn", "dns"} -> cn
                         [] f = "email" -> mail
                         [] OTHER -> uri]

(* The kinds of address in ipConstraints, and both versions by default.    *)
getIpRegexes(list) ==
  SelectSeq(list, LAMBDA v : v \in {"v4", "v6", "v4private", "v6private"})

CitAddresses(ps) ==
  IF ~ Flag(ps.policy, "ip", "true") THEN <<>>
  ELSE IF List(ps.policy, "ipConstraints") # <<>>
       THEN getIpRegexes(ps.policy.ipConstraints) ELSE <<"v4", "v6">>

(* Subject lists: one empty value forbids the field, no value leaves it    *)
(* open.                                                                   *)
CitSubject(ps) ==
  LET fields == Names \cup {"ou"}
      forbidden == {f \in fields : List(ps.policy, f) = <<"">>}
  IN  [f \in fields \ forbidden |->
         IF List(ps.policy, f) = <<>> THEN <<AllowAll>> ELSE ps.policy[f]]

(* The sizes and the curves: of the policy, or else of the default, or     *)
(* else the built in one.                                                  *)
KeyParameter(ps, f, builtin) ==
  CASE List(ps.policy, f) # <<>> -> ps.policy[f]
    [] List(ps.policy, f) = <<>> /\ Has(ps.default, f) -> <<Value(ps.default, f)>>
    [] OTHER -> <<builtin>>

CitKeyTypes(ps) ==
  LET types == IF List(ps.policy, "keyType") = <<>> THEN {"RSA"} ELSE ToSet(ps.policy.keyType)
  IN  [t \in types \cap {"RSA", "EC"} |->
         IF t = "RSA" THEN KeyParameter(ps, "rsa", "2048") ELSE KeyParameter(ps, "curve", "P256")]

CitRecommended(ps) ==
  LET d == ps.default
      key == IF ~Has(d, "keyType") THEN <<>>
             ELSE CASE Value(d, "keyType") = "RSA" ->
                         <<"RSA", IF Has(d, "rsa") THEN Value(d, "rsa") ELSE "2048">>
                    [] Value(d, "keyType") = "EC" ->
                         <<"EC", IF Filled(d, "curve") THEN Value(d, "curve") ELSE "P256">>
                    [] OTHER -> <<Value(d, "keyType"), "">>
  IN  [subject |-> [f \in DOMAIN d \cap (Names \cup {"ou"}) |-> <<Value(d, f)>>], key |-> key]

(* The product of the certificate authority: type\account\product.         *)
CitProduct(ps) ==
  [ca   |-> IF Filled(ps.policy, "ca") THEN Value(ps.policy, "ca") ELSE "builtin",
   days |-> IF Filled(ps.policy, "days") THEN Value(ps.policy, "days") ELSE "365"]

BuildCloudCitRequest(ps) ==
  [names |-> CitNames(ps), ip |-> CitAddresses(ps), subject |-> CitSubject(ps),
   keyTypes |-> CitKeyTypes(ps), recommended |-> CitRecommended(ps), product |-> CitProduct(ps),
   reuse |-> Flag(ps.policy, "reuse", "true"),
   csrUpload |-> ~ Flag(ps.policy, "service", "true"),
   serviceKey |-> ~ Flag(ps.policy, "service", "false")]

(* OrgUnits[0] of a default whose list is given and empty.                 *)
CloudBuildPanics(ps) == Has(ps.default, "ou") /\ List(ps.default, "ou") = <<>>

(* GetPolicy: a template becomes a specification again.                    *)
isWildCard(list) == list # <<>> /\ \A i \in DOMAIN list : list[i].form = "wildcard"

(* The CN list without its expressions, and what the SAN lists allow.      *)
NamesBack(cit) ==
  [domains |-> RemoveRegex(cit.names.cn), wildcard |-> Bool(isWildCard(cit.names.cn))]
    ++ [f \in DOMAIN cit.names \cap {"dns", "email", "uri"} |-> Bool(TRUE)]
    ++ (IF "uri" \in DOMAIN cit.names THEN [uriProtocols |-> Distinct(cit.names.uri.protocols)] ELSE <<>>)
    ++ (IF cit.ip # <<>> THEN [ip |-> Bool(TRUE)] ELSE <<>>)

SubjectBack(cit) ==
  [f \in Names \cup {"ou"} |-> IF f \in DOMAIN cit.subject THEN cit.subject[f] ELSE <<"">>]

KeyPairBack(cit) ==
  LET keys == IF DOMAIN cit.keyTypes = {} THEN <<>>
              ELSE [keyType |-> OnlyIf("RSA" \in DOMAIN cit.keyTypes, "RSA")
                                  \o OnlyIf("EC" \in DOMAIN cit.keyTypes, "EC")]
                     ++ (IF "RSA" \in DOMAIN cit.keyTypes THEN [rsa |-> cit.keyTypes["RSA"]] ELSE <<>>)
                     ++ (IF "EC" \in DOMAIN cit.keyTypes THEN [curve |-> cit.keyTypes["EC"]] ELSE <<>>)
      service == IF cit.csrUpload = cit.serviceKey THEN <<>>
                 ELSE [service |-> Bool(cit.serviceKey)]
      given == keys ++ service
  IN  IF DOMAIN given = {} THEN <<>> ELSE given ++ [keyPair |-> <<>>, reuse |-> Bool(cit.reuse)]

DefaultsBack(cit) ==
  LET rec == cit.recommended
      names == {f \in DOMAIN rec.subject : rec.subject[f] # <<"">>}
      key == IF rec.key = <<>> \/ rec.key[1] = "" THEN <<>>
             ELSE [keyType |-> <<rec.key[1]>>, keyPair |-> <<>>]
                    ++ (CASE rec.key[2] = "" -> <<>>
                          [] rec.key[2] # "" /\ rec.key[1] = "RSA" -> [rsa |-> <<rec.key[2]>>]
                          [] OTHER -> [curve |-> <<rec.key[2]>>])
  IN  Object([f \in names |-> rec.subject[f]], "subject") ++ key

buildPolicySpecification(cit) ==
  [policy |-> NamesBack(cit) ++ SubjectBack(cit) ++ KeyPairBack(cit)
                ++ [subject |-> <<>>, days |-> <<cit.product.days>>, ca |-> <<cit.product.ca>>],
   default |-> DefaultsBack(cit)]

-----------------------------------------------------------------------------
(* The users of a specification.  The platform lists every identity that   *)
(* has the name as a prefix, two of them at most; an address is matched    *)
(* whole.                                                                  *)
IdentityLimit == 2

browseIdentities(directory, filter) ==
  LET found == Selected(directory, {i \in DOMAIN directory : IsPrefix(filter, directory[i])})
  IN  SubSeq(found, 1, IF Len(found) < IdentityLimit THEN Len(found) ELSE IdentityLimit)

getIdentity(directory, filter, isEmail) ==
  LET found == browseIdentities(directory, filter)
  IN  CASE found # <<>> /\ isEmail -> found[1]
        [] ~isEmail /\ Contains(found, filter) -> filter
        [] OTHER -> <<>>

(* Is there anything in a section?                                         *)
IsPolicyEmpty(ps) ==
  /\ \A f \in DOMAIN ps.policy \cap (SanTypes \cup {"wildcard", "days", "reuse", "service"}) : FALSE
  /\ Has(ps.policy, "ca") => ~ Filled(ps.policy, "ca")
  /\ \A f \in Names \cup {"ou", "domains", "ipConstraints", "uriProtocols", "rsa", "keyType", "curve"} :
       List(ps.policy, f) = <<>>

IsDefaultEmpty(ps) ==
  /\ ~ Has(ps.default, "service") /\ ~ Has(ps.default, "rsa")
  /\ \A f \in Names \cup {"keyType", "curve"} : ~ Filled(ps.default, f)
  /\ List(ps.default, "ou") = <<>>
=============================================================================
