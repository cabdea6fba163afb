-------------------------------- MODULE Inputs --------------------------------
(***************************************************************************)
(* The pure algorithms of vcert, one call at a time: each call is a state, *)
(* and the invariants compare what the call computes with what it is for.  *)
(***************************************************************************)
EXTENDS PolicySpec, Requests, Certificates, Options

CONSTANTS
  TppPolicies, TppDefaults,        \* sections of specifications for TPP
  CloudPolicies, CloudDefaults,    \* and for the cloud, in groups
  Directories, Users,              \* the users a platform has, and those asked for
  TppServers, Templates, Asked,    \* folders, templates and requests, in groups
  Origins,                         \* where the signing request comes from
  Keys, KeyLists, Bundles,         \* private keys, allowed keys and files of PEM blocks
  Signing, Candidates, NameLists,  \* signing requests; certificates and names to look for
  Commands, Sections               \* groups of commands; sections of configuration files

(* A key of a section has a list of texts, of length one where it is a     *)
(* scalar in the document.                                                 *)
Objects == {"subject", "keyPair"}
PolicyLists == Objects \cup Names \cup {"ou", "domains", "ipConstraints", "uriProtocols", "keyType",
                                        "rsa", "curve", "pkix"}
DefaultLists == Objects \cup {"ou"}
Written(s, lists) == \A f \in DOMAIN s : s[f] \in Seq(STRING) /\ (f \notin lists => Len(s[f]) = 1)

(* What the platforms and the callers give is of its type.                 *)
ASSUME InputsAssumption ==
  /\ \A g \in DOMAIN TppPolicies : \A s \in TppPolicies[g] : Written(s, PolicyLists)
  /\ \A g \in DOMAIN TppPolicies : \A s \in TppDefaults[g] : Written(s, DefaultLists)
  /\ \A g \in DOMAIN CloudPolicies : \A s \in CloudPolicies[g] : Written(s, PolicyLists)
  /\ \A g \in DOMAIN CloudPolicies : \A s \in CloudDefaults[g] : Written(s, DefaultLists)
  /\ Directories \subseteq Seq(Seq(Nat)) /\ Users \subseteq Seq(Nat) \ {<<>>}
  /\ \A g \in DOMAIN TppServers \cup DOMAIN Templates \cup {"keys"} : Asked[g] \subseteq Request
  /\ \A g \in DOMAIN TppServers : TppServers[g] \subseteq Folder
  /\ \A g \in DOMAIN Templates : \A ct \in Templates[g] : Recommends(ct)
  /\ \A ks \in KeyLists : DOMAIN ks = 1 .. Len(ks)
  /\ \A b \in Bundles : b.certs \in Seq(Nat) \ {<<>>} /\ b.keyAfter \in 0 .. Len(b.certs)
  /\ \A r \in Signing :
       /\ r.names \in [ToSet(NameTypes) -> Seq(Nat)]
       /\ "san" \in DOMAIN r.extra => r.extra.san.list \in Seq(ToSet(NameTypes) \X Nat)
  /\ Candidates \subseteq Seq([zone : Nat, dns : Seq(Nat), validTo : Nat])
  /\ \A g \in Commands :
       /\ g.name \in DOMAIN FlagsOf /\ g.env \subseteq envVarList
       /\ g.passwords \cup g.stores \cup g.typed \subseteq Passwords
       /\ \A p \in g.typed : p.how = "text"
       /\ \A cfg \in g.loaded : cfg.type \in {"tpp", "cloud", "firefly", "fake"}

VARIABLE call   \* <<the algorithm, its input>>

Blank == <<"none", "none">>
Init == call = Blank
Answer(algorithm, input) == call' = <<algorithm, input>>

(* A key that is not given, in the sections the constants list.            *)
No == <<"not given">>

(* A section as it is read: the keys that are given, and the objects they  *)
(* stand in.                                                               *)
Section(g) ==
  LET given == {f \in DOMAIN g : g[f] # No}
      objects == (IF given \cap (Names \cup {"ou"}) # {} THEN {"subject"} ELSE {})
        \cup (IF given \cap {"keyType", "rsa", "curve", "service", "reuse", "pkix"} # {}
              THEN {"keyPair"} ELSE {})
  IN  [f \in given \cup objects |-> IF f \in given THEN g[f] ELSE <<>>]

Specification(p, d) == [policy |-> Section(p), default |-> Section(d)]

TppSetPolicy ==
  /\ call = Blank
  /\ \E g \in DOMAIN TppPolicies : \E p \in TppPolicies[g], d \in TppDefaults[g] :
       Answer("tpp policy", Specification(p, d))

CloudSetPolicy ==
  /\ call = Blank
  /\ \E g \in DOMAIN CloudPolicies : \E p \in CloudPolicies[g], d \in CloudDefaults[g] :
       Answer("cloud policy", Specification(p, d))

FindUser ==
  /\ call = Blank
  /\ \E d \in Directories, u \in Users : Answer("user", [directory |-> d, name |-> u])

TppRequest ==
  /\ call = Blank
  /\ \E g \in DOMAIN TppServers : \E sp \in TppServers[g], r \in Asked[g], o \in Origins :
       (r.csr # NoCsr => o = "file") /\ Answer("tpp request", [server |-> sp, request |-> r, origin |-> o])

CloudRequest ==
  /\ call = Blank
  /\ \E g \in DOMAIN Templates : \E ct \in Templates[g], r \in Asked[g], o \in Origins :
       (r.csr # NoCsr => o = "file") /\ Answer("cloud request", [template |-> ct, request |-> r, origin |-> o])

CheckKey ==
  /\ call = Blank
  /\ \E r \in Asked["keys"], allowed \in KeyLists :
       Answer("key", [request |-> r, allowed |-> allowed])

CheckCert ==
  /\ call = Blank
  /\ \E type \in {"RSA", "ECDSA", "ED25519"}, key, csr \in Keys \cup {NoKey}, cert \in Keys :
       Answer("certificate", [type |-> type, key |-> key, csr |-> csr, cert |-> cert])

OpenBundle ==
  /\ call = Blank
  /\ \E b \in Bundles, order \in {"root-first", "root-last", "ignore"} :
       Answer("bundle", [bundle |-> b, order |-> order])

Sign == call = Blank /\ \E r \in Signing : Answer("sign", r)

Search ==
  /\ call = Blank
  /\ \E found \in Candidates, names \in NameLists :
       Answer("search", [found |-> found, names |-> names])

(* A command of a group: some of its flags, beside those it always has.    *)
RunCommand ==
  /\ call = Blank
  /\ \E g \in Commands :
       \E given \in SUBSET g.flags, env \in SUBSET g.env, w \in g.words,
          password, key \in g.passwords, store \in g.stores, typed \in g.typed,
          loaded \in g.loaded, generated \in g.generated :
         Answer("command",
           [name |-> g.name, flags |-> g.always \cup given, env |-> env, words |-> w,
            password |-> IF "password" \in g.always \cup given \cup env THEN password ELSE Nothing,
            keyPassword |-> key, jksPassword |-> store, typed |-> typed, loaded |-> loaded,
            generated |-> generated])

LoadSection == call = Blank /\ \E s \in Sections : Answer("section", s)

Return == call # Blank /\ call' = Blank

Next ==
  \/ TppSetPolicy \/ CloudSetPolicy \/ FindUser \/ TppRequest \/ CloudRequest
  \/ CheckKey \/ CheckCert \/ OpenBundle \/ Sign \/ Search
  \/ RunCommand \/ LoadSection \/ Return

Spec == Init /\ [][Next]_call

Called(algorithm) == call[1] = algorithm
Arg == call[2]

-----------------------------------------------------------------------------
Accepted(ps) == ValidateTppPolicySpecification(ps) = "ok" /\ ~ BuildPanics(ps)

(* A default that passes the checks of setpolicy is the value the folder   *)
(* gets: the policy does not override it with another one.                 *)
DefaultIsWithinPolicy ==
  LET At == [org |-> "Org", locality |-> "City", state |-> "State", country |-> "Country",
             keyType |-> "KeyAlg", rsa |-> "KeyBits", curve |-> "Curve"]
  IN  (Called("tpp policy") /\ Accepted(Arg)) =>
        \A f \in DOMAIN At : Filled(Arg.default, f)
           => Text(BuildTppPolicy(Arg), At[f]) = Value(Arg.default, f)

(* getpolicy, then setpolicy of what it printed, changes nothing that TPP  *)
(* enforces or suggests: the folder gets the attributes it has.  The       *)
(* contacts, the approvers and the PKIX parameter sets are not in what     *)
(* getpolicy prints, nor is a size or a curve that the algorithm has no    *)
(* use for, or a certificate authority without a name.  A folder whose     *)
(* printed policy ends setpolicy with a panic is left out.                 *)
TppRoundTrip ==
  (Called("tpp policy") /\ ValidateTppPolicySpecification(Arg) = "ok" /\ ~ BuildPanics(Arg)) =>
    LET attrs == BuildTppPolicy(Arg)
        back == BuildPolicySpecificationForTPP(attrs)
        rsa == Text(attrs, "KeyAlg") = "RSA"
        unread == {"Contact", "Approver", "PKIX", "PKIXDefault"}
                    \cup {IF rsa THEN "Curve" ELSE "KeyBits"}
                    \cup (IF Text(attrs, "CA") = "" THEN {"CA"} ELSE {})
    IN  /\ ValidateTppPolicySpecification(back) = "ok"
        /\ ~ BuildPanics(back) =>
             {w \in attrs : w.at \notin unread} \subseteq BuildTppPolicy(back)

(* What getpolicy cannot express: a template that does not restrict the    *)
(* domains, forbids alternative names, names a protocol twice, allows only *)
(* some of the addresses or no type of key, or recommends an empty text or *)
(* a size of zero.                                                         *)
Inexpressible(cit) ==
  \/ cit.names.cn = <<AnyText>>
  \/ "dns" \notin DOMAIN cit.names
  \/ "uri" \in DOMAIN cit.names /\ ~ IsInjective(cit.names.uri.protocols)
  \/ cit.ip \notin {<<>>, <<"v4", "v6">>}
  \/ DOMAIN cit.keyTypes = {}
  \/ \E f \in DOMAIN cit.recommended.subject : cit.recommended.subject[f] = <<"">>
  \/ "" \in ToSet(cit.recommended.key)

(* The same for the cloud: the template that setpolicy makes of a template *)
(* that getpolicy printed is that template, unless it is one of the        *)
(* inexpressible ones.                                                     *)
CloudRoundTrip ==
  (/\ Called("cloud policy") /\ ValidateCloudPolicySpecification(Arg) = "ok"
   /\ ~ CloudBuildPanics(Arg)) =>
     LET cit == BuildCloudCitRequest(Arg)
         back == buildPolicySpecification(cit)
     IN  BuildCloudCitRequest(back) = cit <=> ~ Inexpressible(cit)

(* What setpolicy accepted and built it accepts again when getpolicy       *)
(* prints it, unless the key that is recommended was not one of those that *)
(* are allowed, or a recommended size of zero became the one allowed size. *)
CloudAcceptsItsOwn ==
  (/\ Called("cloud policy") /\ ValidateCloudPolicySpecification(Arg) = "ok"
   /\ ~ CloudBuildPanics(Arg)) =>
     LET cit == BuildCloudCitRequest(Arg)
         key == cit.recommended.key
         types == cit.keyTypes
         allowed ==
           /\ "RSA" \in DOMAIN types => "" \notin ToSet(types["RSA"])
           /\ (DOMAIN types # {} /\ key # <<>> /\ key[1] # "") =>
                /\ key[1] \in DOMAIN types
                /\ (key[1] = "RSA" /\ key[2] # "") => key[2] \in ToSet(types["RSA"])
     IN  ValidateCloudPolicySpecification(buildPolicySpecification(cit)) = "ok" <=> allowed

(* A specification in which nothing stands gives no attribute of a folder  *)
(* a value, except for the two keys the test of emptiness does not know.   *)
EmptyEnforcesNothing ==
  (Called("tpp policy") /\ IsPolicyEmpty(Arg) /\ IsDefaultEmpty(Arg) /\ ~ BuildPanics(Arg)) =>
    Named({w \in BuildTppPolicy(Arg) : w.av \notin {<<>>, <<"">>}})
      \subseteq {"ManagementType", "PKIX", "PKIXDefault"}

(* Every parameter of a specification is optional: one that passes the     *)
(* checks is applied.                                                      *)
ValidatedBuilds ==
  (Called("tpp policy") /\ ValidateTppPolicySpecification(Arg) = "ok") => ~ BuildPanics(Arg)

(* The contact of a policy is the user of exactly that name, never one     *)
(* whose name only begins so; and the user is found who is one of the      *)
(* first two that the platform lists.                                      *)
UserIsExact ==
  Called("user") =>
    LET found == getIdentity(Arg.directory, Arg.name, FALSE)
        Listed(i) == IsPrefix(Arg.name, Arg.directory[i])
    IN  /\ found \in {Arg.name, <<>>}
        /\ found = Arg.name <=>
             \E i \in DOMAIN Arg.directory :
               Arg.directory[i] = Arg.name /\ Cardinality({j \in 1 .. i : Listed(j)}) <= 2

-----------------------------------------------------------------------------
(* Requests *)

Zone == IF Called("tpp request") THEN TppZoneConfig(Arg.server) ELSE CloudZoneConfig(Arg.template)
Policy == IF Called("tpp request") THEN TppPolicyOf(Arg.server) ELSE CloudPolicyOf(Arg.template)
Panics == IF Called("tpp request") THEN TppPolicyPanics(Arg.server) ELSE CloudPolicyPanics(Arg.template)
Generated ==
  IF Called("tpp request") THEN TppGenerateRequest(Zone, Arg.request, Arg.origin)
  ELSE CloudGenerateRequest(Zone, Arg.request, Arg.origin)
Requested == (Called("tpp request") \/ Called("cloud request")) /\ ~ Panics

(* The names that are checked in a signing request only.                   *)
OtherNames(r) == \E s \in DOMAIN r.sans : r.sans[s] # Empty

(* A request that the policy of its zone allows is still allowed when the  *)
(* zone has completed it and its key and signing request are made; the     *)
(* exceptions are Ed25519 keys, names that are not looked at before, and   *)
(* zones whose policy cannot be read.                                      *)
CheckedStaysAllowed ==
  (Requested /\ ValidateCertificateRequest(Policy, Arg.request)) =>
    \/ Generated = Failed
    \/ ValidateCertificateRequest(Policy, Generated)
    \/ Generated.type = "ED25519" \/ OtherNames(Arg.request)

(* What a folder suggests it allows: a request that says nothing of its    *)
(* subject and its key passes once GenerateRequest has completed it,       *)
(* unless the folder locks an empty list of units, an algorithm other than *)
(* RSA (the type of the key is never completed), a size without a known    *)
(* algorithm, or suggests a size that is none of the supported ones.       *)
SuggestedIsAllowed ==
  LET sp == Arg.server  r == Arg.request
      silent == /\ \A f \in Fields : r.subject[f] = Empty
                /\ r.type = "RSA" /\ r.size = 0 /\ r.curve = NotSet /\ r.csr = NoCsr
  IN  (/\ Called("tpp request") /\ silent /\ Arg.origin = "local"
       /\ SimpleValidateCertificateRequest(Policy, r) /\ ~OtherNames(r)) =>
        \/ Generated # Failed /\ ValidateCertificateRequest(Policy, Generated)
        \/ sp.subject["ou"].locked /\ sp.subject["ou"].v = Empty
        \/ sp.algorithm.locked /\ sp.algorithm.v # "RSA"
        \/ KeyTypeOf(sp.algorithm.v, sp.curve.v) = "error" /\ sp.size.locked
        \/ sp.size.v \notin ToSet(AllSupportedKeySizes) \cup {0}

(* What the local check of a request allows, the check of the attributes   *)
(* that are sent for a key of the service does not refuse.  The other      *)
(* direction fails: a list that is not there forbids all, or nothing.      *)
LocalImpliesService ==
  (/\ Called("cloud request") /\ ~ Panics /\ Arg.origin = "service"
   /\ ValidateCertificateRequest(Policy, Arg.request)) =>
     getCsrAttributes(Arg.template, Arg.request) # Failed

(* A key passes when at least one of the allowed configurations has it, as *)
(* long as no type is configured twice.                                    *)
KeyCheckIsMembership ==
  Called("key") =>
    LET r == Arg.request  ks == Arg.allowed
        Covers(k) == \/ k.type = r.type /\ r.type = "RSA" /\ r.size \in k.sizes
                     \/ k.type = r.type /\ r.type = "ECDSA" /\ CurveOf(r.curve) \in k.curves
                     \/ r.type = "ED25519" /\ k.type = "ED25519" /\ r.curve \in {NotSet, "ED25519"}
                     \/ r.type = "ED25519" /\ k.type = "ECDSA" /\ "ED25519" \in k.curves
        Group(k) == IF k.type = "RSA" THEN 1 ELSE 2
    IN  (\A i, j \in DOMAIN ks : Group(ks[i]) = Group(ks[j]) => i = j) =>
          (checkKey(r.type, r.size, r.curve, ks) <=> \E i \in DOMAIN ks : Covers(ks[i]))

-----------------------------------------------------------------------------
(* Certificates *)

(* The key a certificate has to be for, by what is known of the request.   *)
Own == IF Arg.key # NoKey THEN Arg.key ELSE Arg.csr

(* The certificate that was issued for the key of a request, or for its    *)
(* signing request, is accepted, whatever the type of the key.             *)
IssuedIsAccepted ==
  (/\ Called("certificate") /\ Own \in {NoKey, Arg.cert}
   /\ Arg.key # NoKey => Arg.type = Arg.key.type) =>
     CheckCertificate(Arg.type, Arg.key, Arg.csr, Arg.cert)

(* And no other one is: that the certificate matches the request, as the   *)
(* comment of CheckCertificate has it.                                     *)
AcceptedIsOwn ==
  (Called("certificate") /\ CheckCertificate(Arg.type, Arg.key, Arg.csr, Arg.cert)) =>
    Own \in {NoKey, Arg.cert}

(* The listener takes its key through PKCS #8 into a TLS certificate; that *)
(* keeps an RSA key, the only type it asks for, and loses all others.      *)
ListenerKeepsKey ==
  (Called("certificate") /\ Arg.key # NoKey) =>
    LET block == DecryptPkcs8PrivateKey(GetPrivateKeyPEMBock(Arg.key, FALSE, ""), "")
    IN  tlsKey(block) = IF Arg.key.type = "RSA" THEN Arg.key ELSE NoKey

(* The order that is asked for: the certificate first or last.             *)
InOrder(certs, order) == IF order = "root-first" THEN certs ELSE Reverse(certs)

(* The blocks of a file: the certificates, and a key after some of them.   *)
Blocks ==
  LET certs == [i \in DOMAIN Arg.bundle.certs |->      \* from the root on
                  Block("CERTIFICATE", "der", Arg.bundle.certs[i], "")]
      list == InOrder(certs, Arg.order)
      at == Arg.bundle.keyAfter
      key == GetPrivateKeyPEMBock([type |-> "RSA", n |-> 1, rest |-> 1], FALSE, "")
  IN  SubSeq(list, 1, at) \o <<key>> \o SubSeq(list, at + 1, Len(list))

(* A file that is read in the wrong order, so that a certificate of the    *)
(* chain stands for the one that was issued, does not pass the check of a  *)
(* request, and one that is read in the right order does, whatever types   *)
(* the keys have.  An Ed25519 key of the request and of the chain is left  *)
(* out where only the signing request is known: there nothing is compared. *)
OnlyTheLeafPasses ==
  Called("bundle") =>
    \A order \in {"root-first", "root-last"}, type, chain \in {"RSA", "ECDSA", "ED25519"},
       held \in BOOLEAN :
      LET leaf == Arg.bundle.certs[Len(Arg.bundle.certs)]
          KeyOf(c) == [type |-> IF c = leaf THEN type ELSE chain, n |-> c, rest |-> 1]
          taken == PEMCollectionFromBytes(Blocks, order).certificate[1].of
      IN  (held \/ {type, chain} # {"ED25519"}) =>
            (CheckCertificate(type, IF held THEN KeyOf(leaf) ELSE NoKey, KeyOf(leaf), KeyOf(taken))
               <=> taken = leaf)

(* Whatever the order, the collection's certificate is the one that was    *)
(* issued, its chain is the rest in the order asked for, and its key comes *)
(* first in its text, alone if it is the last block; the key store of the  *)
(* cloud gives the same collection.                                        *)
CollectionIsWhole ==
  Called("bundle") =>
    LET certs == [i \in DOMAIN Arg.bundle.certs |->      \* from the root on
                    Block("CERTIFICATE", "der", Arg.bundle.certs[i], "")]
        n == Len(certs)
        key == GetPrivateKeyPEMBock([type |-> "RSA", n |-> 1, rest |-> 1], FALSE, "")
        col == PEMCollectionFromBytes(Blocks, Arg.order)
        zip == ConvertZipBytesToPem(certs, key, Arg.order = "root-first")
    IN  /\ col.certificate = <<certs[n]>>
        /\ Arg.order # "ignore" =>
             /\ col.certificate = zip.certificate /\ col.chain = zip.chain
             /\ Len(col.chain) = n - 1
        /\ Arg.order = "ignore" => col.chain = <<>>
        /\ col.key[1] = key /\ (Len(col.key) = 1 <=> Arg.bundle.keyAfter = n)

(* What a certificate is for is asked again by the request that is made of *)
(* it: the subject, the key and every name that the first request asked    *)
(* for, user principal names included.                                     *)
RenewalAsksAgain ==
  Called("sign") =>
    LET first == GenerateCSR(Arg)
        again == GenerateCSR(NewRequest(first))
        named == ~Arg.omit /\ Arg.extra = <<>>
    IN  /\ again.subject = first.subject /\ again.key = first.key
        /\ \A k \in ToSet(NameTypes) :
             /\ NamesOf(again.extensions, k) = NamesOf(first.extensions, k)
             /\ named => NamesOf(first.extensions, k) = Arg.names[k]
        /\ Arg.extra # <<>> => first.extensions = Arg.extra

(* The search gives a certificate of the zone with exactly these names,    *)
(* in any order, and none of those is newer; it gives one whenever there   *)
(* is one.                                                                 *)
FoundIsUsable ==
  Called("search") =>
    LET zone == 1
        result == SearchCertificate(Arg.found, zone, Arg.names)
        Fits(c) == c.zone = zone /\ Sorted(c.dns) = Sorted(Arg.names)
        fitting == {i \in DOMAIN Arg.found : Fits(Arg.found[i])}
    IN  IF "error" \in DOMAIN result THEN fitting = {}
        ELSE /\ \E i \in fitting : Arg.found[i] = result
             /\ \A i \in fitting : Arg.found[i].validTo <= result.validTo

-----------------------------------------------------------------------------
(* Commands *)

Ready == Prepared(Arg)
Connection == buildConfig(Carried(Arg))
Outcome == IF Arg.name \in {"getcred", "checkcred", "voidcred"}
           THEN doCommandCredMgmt1(Carried(Arg), Connection) ELSE Authenticate(Connection)
Connecting == Called("command") /\ Arg.name \notin Offline /\ Passes(Arg)

(* The platform whose checks a command passes is the one it connects to.   *)
(* Two guesses may be wrong and are left out: that of a client certificate *)
(* without a user, and that of a user whom only the environment names.     *)
CheckedPlatformIsUsed ==
  (Connecting /\ Platform(Ready) # "config") =>
    LET guessed == GetPlatformType(Word(Arg, "platform")) \in {"undefined", "fake"}
        certificate == Set(Ready, "p12") /\ ~ Given(Ready, "user")
        user == Given(Ready, "user") /\ ~ Used(Ready, {"user", "p12"})
    IN  \/ Connection.type = Platform(Ready)
        \/ guessed /\ ~ Given(Ready, "token") /\ ~ Set(Ready, "testMode") /\ (certificate \/ user)

(* A command that passes finds credentials its connector can use, unless   *)
(* the checks count on what is not there: the password of a user whom      *)
(* nobody asks for it, or a client certificate, which no connector takes   *)
(* but for getcred (CertificateSuffices); or it is checkcred or voidcred,  *)
(* which are of no use on the cloud.                                       *)
CredentialsSuffice ==
  (/\ Connecting /\ Connection.type = Platform(Ready) /\ Platform(Ready) # "fake"
   /\ Arg.name # "sshgetconfig") =>    \* the endpoint that needs none
    LET asked == /\ Arg.name \in {"enroll", "pickup", "getcred"} /\ {"url", "user"} \subseteq Ready.flags
                 /\ ~ Set(Ready, "token") /\ (Set(Ready, "p12") => Set(Ready, "p12PW"))
        unasked == Given(Ready, "user") /\ ~ Given(Ready, "password") /\ ~ asked
        certificate == Set(Ready, "p12") /\ Arg.name # "getcred"
        excused == CASE Connection.type = "tpp" -> unasked \/ certificate
                     [] Connection.type = "firefly" -> unasked /\ Arg.name = "getcred"
                     [] OTHER -> Arg.name \in {"checkcred", "voidcred"}
    IN  Outcome \notin {"none", "anonymous", "panic"} \/ excused

(* A key store in Java's format gets a password it can be opened with,     *)
(* wherever that password was read.                                        *)
StoreHasPassword ==
  (Called("command") /\ Passes(Arg) /\ Word(Arg, "format") = "jks" /\ Arg.name # "sshenroll"
    /\ ~ Set(Arg, "noPickup")) =>
    Carried(Arg).keyPassword.how = "text" /\ Long(Carried(Arg).keyPassword)

(* pickup fetches the key, too, when the platform made it: it has, asks    *)
(* for or makes up a password for that, in any format, if the password     *)
(* file it is given is not empty.  Left out are an id that is still in a   *)
(* file, on the cloud, and a command that may ask for a password on TPP:   *)
(* there the key is not fetched.                                           *)
KeyIsFetched ==
  (/\ Connecting /\ Arg.name = "pickup" /\ Word(Arg, "format") \notin Stores
   /\ Arg.keyPassword = Nothing \/ Arg.keyPassword.lines # <<>>) =>
    LET made == /\ Outcome \notin {"none", "anonymous"}
                /\ \/ Connection.type = "cloud" /\ Arg.generated /\ Set(Arg, "pickupID")
                   \/ Connection.type = "tpp" /\ Set(Arg, "noPrompt")
        typed == ~ Set(Arg, "noPrompt") /\ Arg.typed = Nothing
    IN  Arg.keyPassword # Nothing \/ (made /\ ~ typed) => Carried(Arg).keyPassword # Nothing

(* The password of the connection and that of the key stand in one file,   *)
(* in this order, for the two commands that read both.                     *)
OneFileForBoth ==
  LET file == {"file", "File"}  key == Arg.keyPassword
  IN  /\ Called("command") /\ Passes(Arg) /\ Arg.name \in {"enroll", "pickup"}
      /\ NeedsKeyPassword(Ready) /\ {"url", "password"} \subseteq Ready.flags /\ ~ Set(Ready, "p12")
      /\ Arg.password.how \in file /\ key.how \in file /\ key.lines = Arg.password.lines
      /\ Len(key.lines) = 2

(* The connection then gets the first line.  The key gets the second one   *)
(* when both flags spell the prefix alike and not in lower case; nothing   *)
(* is said here of the other spellings.                                    *)
PasswordsAreLines ==
  OneFileForBoth =>
    /\ Carried(Arg).password.lines = <<Arg.keyPassword.lines[1]>>
    /\ Arg.password.how = "File" /\ Arg.keyPassword.how = "File" =>
         Carried(Arg).keyPassword.lines = <<Arg.keyPassword.lines[2]>>

(* However the prefix is spelled, the key gets the second line.            *)
KeyPasswordIsSecondLine ==
  OneFileForBoth => Carried(Arg).keyPassword.lines = <<Arg.keyPassword.lines[2]>>

(* A section of a configuration file that passes the checks stands for one *)
(* platform, that of all its keys, with its zone and credentials that the  *)
(* connector can use; the exceptions are a test mode that is switched off  *)
(* and a section without keys.                                             *)
SectionIsComplete ==
  (Called("section") /\ validateFile(Arg)) =>
    LET cfg == LoadConfigFromFile(Arg)
        keys == [tpp |-> tppKeys, cloud |-> cloudKeys, firefly |-> fireflyKeys]
    IN  IF cfg.type = Denied THEN Arg.test # "true" \/ Arg.keys = {}
        ELSE \/ cfg.type = "fake" /\ "test_mode" \in Arg.keys
             \/ /\ Arg.keys \subseteq keys[cfg.type] \cup commonKeys
                /\ cfg.zone = {k \in Arg.keys : k \in {"tpp_zone", "cloud_zone", "firefly_zone"}}
                /\ Arg.empty = {} => Authenticate(cfg) \notin {"none", "anonymous"}

(* A client certificate is enough for the commands that use the connection *)
(* to TPP: they find credentials.                                          *)
CertificateSuffices ==
  (/\ Connecting /\ Platform(Ready) = "tpp" /\ {"url", "p12", "p12PW"} \subseteq Ready.flags
   /\ Arg.name \in {"enroll", "pickup", "renew", "revoke", "retire"}) =>
     Outcome \notin {"none", "anonymous"}

(* getcred asks for a token with the client certificate it is given.       *)
CertificateGetsToken ==
  (Connecting /\ Arg.name = "getcred" /\ Ready.flags = {"url", "p12", "p12PW"}) =>
    Outcome = "certificate"

(* The commands of the cloud take the platform, with an access token.      *)
TokenReachesCloud ==
  (Called("command") /\ Word(Arg, "platform") = "VCP" /\ Set(Arg, "token") /\ Checks(Arg)) =>
    Passes(Arg)

-----------------------------------------------------------------------------
(* The properties above, by what they are about.                           *)

(* What getpolicy printed can be given to setpolicy, on either platform,   *)
(* and leaves the policy as it is (policyUtils.go:490, cloud.go:680).      *)
RoundTrip == TppRoundTrip /\ CloudRoundTrip /\ CloudAcceptsItsOwn

(* A specification has the effect its text has: a default that is accepted *)
(* is the value, what is empty enforces nothing, a contact is the user who *)
(* is named (policyUtils.go:191 and 1370, tpp/connector.go:1314).          *)
SpecificationIsApplied == DefaultIsWithinPolicy /\ EmptyEnforcesNothing /\ UserIsExact

(* What the check of a request allows, neither the check of the attributes *)
(* for a key of the service refuses; and the check of a key is membership  *)
(* (endpoint.go:372 and 401, cloudUtil.go:44).                             *)
EvaluatedAlike == LocalImpliesService /\ KeyCheckIsMembership

(* A request takes the certificate that was issued for it, and no other    *)
(* one of the file that a platform answers with, whatever the order in     *)
(* which that is read (request.go:191, certificateCollection.go:64).       *)
CheckedIsOwn == IssuedIsAccepted /\ OnlyTheLeafPasses

(* Certificates and keys keep what belongs to them when they are read from *)
(* a platform's answer, in any order, and when a listener encodes them     *)
(* (certificateCollection.go:64, listener.go:74).                          *)
MaterialIsWhole == CollectionIsWhole /\ ListenerKeepsKey

(* The names of a certificate are those of its renewal, and those it is    *)
(* found by (certificate.go:462 and 492).                                  *)
NamesAreKept == RenewalAsksAgain /\ FoundIsUsable

(* A store has a password it can be opened with, the key that a platform   *)
(* made is asked for, and a password is its line of a file, each with the  *)
(* exceptions its part names (passwords.go, validators.go,                 *)
(* cmdCertificates.go:283).                                                *)
PasswordsSuffice == StoreHasPassword /\ KeyIsFetched /\ PasswordsAreLines

(* Flags, environment and configuration file stand for one platform, the   *)
(* one that was checked, but for two guesses (validators.go:147,           *)
(* config.go:74).                                                          *)
PlatformIsOne == CheckedPlatformIsUsed /\ SectionIsComplete
=============================================================================
