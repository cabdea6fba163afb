------------------------------- MODULE MCInputs -------------------------------
(* Bounded inputs of the algorithms of Inputs.                             *)
EXTENDS Inputs

Bools == {No, <<"true">>, <<"false">>}

MCTppPolicies ==
  [subjects |-> [org : {No, <<>>, <<"">>, <<"A">>, <<"A", "B">>}, ou : {No, <<"x", "y">>},
                 country : {No, <<"US">>, <<"USA">>}, subject : {No, <<>>}],
   places |-> [locality : {No, <<"L">>}, state : {No, <<"S">>}],
   keys |-> [keyType : {No, <<"RSA">>, <<"ECC">>, <<"ECDSA">>, <<"ED25519">>},
             rsa : {No, <<"2048">>, <<"4096">>}, curve : {No, <<"P256">>},
             service : {No, <<"true">>}, pkix : {No, <<"oid">>}],
   rest |-> [domains : {No, <<>>, <<"d">>}, ca : {No, <<"">>, <<"CA">>}, wildcard : Bools, reuse : Bools,
             auto : Bools, dns : Bools, ip : Bools]]

MCTppDefaults ==
  [subjects |-> [org : {No, <<"A">>, <<"B">>}, ou : {No, <<"x">>, <<"z">>},
                 country : {No, <<"US">>, <<"DE">>}, subject : {No, <<>>}],
   places |-> [locality : {No, <<"L">>, <<"M">>}, state : {No, <<"S">>, <<"T">>},
               org : {No, <<"A">>}],
   keys |-> [keyType : {No, <<"RSA">>, <<"ECC">>}, rsa : {No, <<"2048">>},
             curve : {No, <<"P256">>, <<"P384">>}, service : {No, <<"false">>},
             pkix : {No, <<"oid">>}],
   rest |-> [auto : Bools]]

MCCloudPolicies ==
  [subjects |-> [org : {No, <<"">>, <<".*">>, <<"A">>, <<"A", "B">>}, ou : {No, <<"x", "y">>},
                 country : {No, <<"US">>}, subject : {No, <<>>}],
   keys |-> [keyType : {No, <<"RSA">>, <<"EC">>, <<"RSA", "EC">>, <<"DSA">>},
             rsa : {No, <<"2048">>, <<"2048", "4096">>, <<"512">>},
             curve : {No, <<"P256", "P384">>}, service : Bools, reuse : Bools],
   names |-> [domains : {No, <<"d">>, <<"d", "e">>}, wildcard : Bools, dns : Bools, email : Bools,
              ip : Bools, ipConstraints : {No, <<"v4">>, <<"v4", "v6">>}, uri : {No, <<"true">>},
              uriProtocols : {No, <<"https">>, <<"https", "https">>}, upn : {No, <<"true">>}, days : {No, <<"90">>}]]

MCCloudDefaults ==
  [subjects |-> [org : {No, <<"">>, <<"A">>, <<"C">>}, ou : {No, <<>>, <<"">>, <<"x">>, <<"z">>},
                 country : {No, <<"US">>, <<"DE">>}],
   keys |-> [keyType : {No, <<"">>, <<"RSA">>, <<"EC">>},
             rsa : {No, <<"">>, <<"2048">>, <<"4096">>}, curve : {No, <<"">>, <<"P384">>}],
   names |-> {<<>>}]
(* A name is a sequence of characters; three of them begin alike.          *)
MCUsers == {<<1>>, <<1, 2>>, <<1, 2, 1>>, <<2>>}
MCDirectories == {d \in UNION {[1 .. n -> MCUsers] : n \in 0 .. 4} :
                    \A j, k \in DOMAIN d : d[j] = d[k] => j = k}

-----------------------------------------------------------------------------
(* Requests: a part of a folder, of a template and of a request varies in  *)
(* each group.  Texts are sequences of characters, hosts of labels.        *)
Locks(values) == [v : values, locked : BOOLEAN]
Fixed(x) == [v : {x}, locked : {FALSE}]
Free == Fixed(Empty)
A == <<"A">>
B == <<"B">>
BA == <<"B", "A">>
AllSans == [dns : {TRUE}, email : {TRUE}, ip : {TRUE}, uri : {TRUE}]
NoSubject == [org : Free, ou : Free, country : Free, locality : Free, state : Free]

MCTppServers ==
  [subjects |-> [subject : [org : Locks({Empty, <<A>>}), ou : Locks({Empty, <<A, B>>}),
                            country : Free, locality : Free, state : Locks({<<A>>})],
                 algorithm : Fixed("RSA"), size : Fixed(2048), curve : Fixed(NotSet),
                 domains : {Empty}, wildcards : {TRUE}, sans : AllSans],
   keys |-> [subject : NoSubject, algorithm : Locks({"RSA", "ECC", "DSA"}) \cup Fixed(""),
             size : Locks({0, 2048, 4096, 512}),
             curve : Locks({"P384", "ED25519"}) \cup Fixed(NotSet),
             domains : {Empty}, wildcards : {TRUE}, sans : AllSans],
   names |-> [subject : NoSubject, algorithm : Fixed("RSA"), size : Fixed(2048),
              curve : Fixed(NotSet), wildcards : BOOLEAN,
              domains : {Empty} \cup {<<[name |-> <<"d">>, dotted |-> b]>> : b \in BOOLEAN},
              sans : [dns : BOOLEAN, email : BOOLEAN, ip : {TRUE}, uri : {TRUE}]]]

(* Lists of expressions of a template; no list forbids the field locally.  *)
AnyList == {<<Anything>>}
Lists == {Empty, <<Anything>>, <<Exactly(A)>>, <<Exactly(Empty), Exactly(A), Exactly(BA)>>}
CloudSans == [email : {Empty, <<Anything>>}, ip : AnyList, uri : AnyList]
Recommended(orgs, keys) ==
  [subject : [org : orgs, ou : {Empty}, country : {Empty}, locality : {Empty}, state : {Empty}],
   key : keys]
SomeKeys ==
  {<<[type |-> "RSA", sizes |-> <<2048, 4096>>, curves |-> Empty]>>,
   <<[type |-> "EC", sizes |-> Empty, curves |-> <<"P384", "ED25519">>]>>,
   <<[type |-> "RSA", sizes |-> <<4096>>, curves |-> Empty],
     [type |-> "EC", sizes |-> Empty, curves |-> <<"P256">>]>>,
   <<[type |-> "DSA", sizes |-> <<2048>>, curves |-> Empty]>>}
SomeKey == {[type |-> "RSA", size |-> 4096, curve |-> NotSet],
            [type |-> "EC", size |-> 0, curve |-> "P384"], [type |-> "", size |-> 0, curve |-> ""]}

MCTemplates ==
  [subjects |-> [cn : AnyList, dns : AnyList, sans : [email : AnyList, ip : AnyList, uri : AnyList],
                 subject : [org : Lists, ou : Lists, country : AnyList, locality : AnyList,
                            state : AnyList],
                 keys : {Empty}, recommended : Recommended({Empty}, SomeKey)],
   keys |-> [cn : AnyList, dns : AnyList, sans : [email : AnyList, ip : AnyList, uri : AnyList],
             subject : [org : AnyList, ou : AnyList, country : AnyList, locality : AnyList,
                        state : AnyList],
             keys : SomeKeys, recommended : Recommended({Empty, <<A>>}, SomeKey)],
   names |-> [cn : {Empty, <<Below(<<"d">>, TRUE, TRUE)>>, <<Below(<<"d">>, FALSE, TRUE)>>},
              dns : {Empty, <<Below(<<"d">>, TRUE, TRUE)>>}, sans : CloudSans,
              subject : [org : AnyList, ou : AnyList, country : AnyList, locality : AnyList,
                         state : AnyList],
              keys : {Empty}, recommended : Recommended({Empty}, SomeKey)]]

NoNames == [email : {Empty}, ip : {Empty}, uri : {Empty}]
OpenSubject == [org : {Empty}, ou : {Empty}, country : {Empty}, locality : {Empty}, state : {Empty}]

MCAsked ==
  [subjects |-> [cn : {Empty}, dns : {Empty}, sans : NoNames,
                 subject : [org : {Empty, <<A>>, <<BA>>}, ou : {Empty, <<A>>, <<A, BA>>},
                            country : {Empty}, locality : {Empty}, state : {Empty, <<A>>}],
                 type : {"RSA"}, size : {0}, curve : {NotSet}, csr : {NoCsr}],
   keys |-> [cn : {Empty}, dns : {Empty}, sans : NoNames, subject : OpenSubject,
             type : {"RSA", "ECDSA", "ED25519"}, size : {0, 512, 2048, 4096},
             curve : {NotSet, "P256", "P384", "ED25519"}, csr : {NoCsr}]
     \cup [cn : {Empty}, dns : {Empty}, sans : NoNames, subject : OpenSubject, type : {"RSA"},
           size : {0}, curve : {NotSet},
           csr : [cn : {Empty}, dns : {Empty}, sans : [email : {Empty, <<A>>}, ip : {Empty}, uri : {Empty}],
                  subject : OpenSubject, type : {"RSA"}, size : {512, 2048, 4096}, curve : {NotSet}]
             \cup [cn : {Empty}, dns : {Empty}, sans : NoNames, subject : OpenSubject,
                   type : {"ECDSA", "ED25519"}, size : {0}, curve : {"P256", "P384"}]],
   names |-> [cn : {Empty, <<"d">>, <<"a", "d">>, <<"*", "d">>, <<"d", "a">>},
              dns : {Empty, <<<<"a", "d">>>>, <<<<"a", "d">>, <<"b">>>>},
              sans : [email : {Empty, <<A>>}, ip : {Empty}, uri : {Empty}],
              subject : OpenSubject, type : {"RSA"}, size : {2048}, curve : {NotSet},
              csr : {NoCsr}]]

MCOrigins == {"local", "file", "service"}

(* Allowed keys: up to two configurations.                                 *)
KeyConfigurations ==
  {[type |-> "RSA", sizes |-> s, curves |-> {}] : s \in {{}, {2048}, {2048, 4096}}}
    \cup {[type |-> t, sizes |-> {}, curves |-> c] :
             t \in {"ECDSA", "ED25519"}, c \in {{}, {"P384"}, {"P256", "ED25519"}}}
MCKeyLists == UNION {[1 .. n -> KeyConfigurations] : n \in 0 .. 2}

(* Keys of three types, of which two have the same number.                 *)
MCKeys == [type : {"RSA", "ECDSA", "ED25519"}, n : 1 .. 2, rest : 1 .. 2]

(* Bundles of up to four certificates, the key after any of them.          *)
MCBundles == {b \in [certs : {SubSeq(<<4, 3, 2, 1>>, 1, n) : n \in 1 .. 4}, keyAfter : 0 .. 4] :
                b.keyAfter <= Len(b.certs)}

Lists2 == {Empty, <<1>>, <<2, 1>>}
MCSigning ==
  [subject : {Empty, <<A>>}, key : {1}, omit : BOOLEAN, usages : {Empty, <<"server">>},
   names : [dns : Lists2, email : Lists2, ip : {Empty, <<1>>}, uri : {Empty, <<1>>}, upn : Lists2],
   extra : {Empty, Usages(<<"client">>), Sans(<<<<"dns", 3>>, <<"upn", 4>>>>, FALSE)}]

(* Up to three certificates that the service finds.                        *)
MCNameLists == {Nil, Empty, <<1>>, <<1, 2>>, <<2, 1>>}
MCCandidates == UNION {[1 .. n -> [zone : 1 .. 2, dns : MCNameLists, validTo : 1 .. 2]] : n \in 0 .. 3}

-----------------------------------------------------------------------------
(* Commands: groups of flags that are given or not, with the words.        *)
NoWords == {<<>>}
Words(flag, words) == NoWords \cup {flag :> w : w \in words}
Group(name, always, flags, env, words) ==
  [name |-> name, always |-> always, flags |-> flags, env |-> env, words |-> words,
   passwords |-> {Nothing}, stores |-> {Nothing}, typed |-> {Plain(<<"typed">>)},
   loaded |-> {buildConfigFake}, generated |-> {FALSE}]

Login == {"token", "apiKey", "user", "url", "p12", "noPrompt"}
Environment == {"token", "apiKey", "user", "url"}
TwoPasswords ==
  {Nothing} \cup [how : {"text", "file", "File", "pass"}, lines : {<<"short">>, <<"first", "second">>}]
Loaded ==
  {buildConfigFake} \cup [type : {"tpp", "firefly"}, has : {{"accessToken"}, {"user", "password"}}]
    \cup {[type |-> "cloud", has |-> {"apiKey"}]}

MCCommands ==
  {Group("enroll", {"cn", "zone"}, Login \cup {"p12PW", "password", "testMode"}, Environment,
         Words("platform", {"TPP", "VCP", "FIREFLY", "FAKE"})),
   Group("renew", {"id"}, Login \cup {"password", "p12PW"}, Environment, Words("platform", {"VCP"})),
   Group("retire", {"id"}, {"token", "apiKey", "url"}, Environment, Words("platform", {"VCP"})),
   Group("revoke", {"thumbprint"}, Login \cup {"profile"}, Environment, Words("reason", {"superseded", "why"})),
   Group("getcred", {}, {"token", "user", "password", "url", "p12", "p12PW", "email", "tokenURL", "jwt",
                         "noPrompt"}, {"user", "url"}, Words("platform", {"TPP", "VCP"})),
   Group("getcred", {}, {"user", "password", "url", "clientId", "clientSecret", "deviceURL", "noPrompt"},
         {"clientSecret", "user"}, Words("platform", {"OIDC"})),
   Group("provision", {"certificateID"}, {"token", "apiKey", "url", "keystoreID", "keystoreName",
                                          "providerName", "pickupIDFile"}, Environment,
         Words("platform", {"TPP", "VCP"})),
   [Group("pickup", {}, Login \cup {"pickupID", "pickupIDFile"}, {"user", "token", "zone"}, Words("format", {"pkcs12"}))
      EXCEPT !.passwords = {Nothing, Plain(<<"key">>)}, !.generated = BOOLEAN],
   [Group("enroll", {"cn", "zone", "url", "user", "password"},
          {"file", "certFile", "keyFile", "noPickup", "noPrompt", "jksAlias"}, {},
          {("csr" :> x @@ "format" :> f) : x \in {"", "local", "service"},
                                           f \in {"pem", "pkcs12", "jks", "legacy-pem"}})
      EXCEPT !.stores = {Nothing, Plain(<<"short">>), Plain(<<"password">>)},
             !.passwords = TwoPasswords],
   [Group("enroll", {"zone", "apiKey"}, {"file", "keyFile", "cn", "keySize", "tlsAddress", "instance"},
          {}, {("csr" :> x @@ "format" :> f) : x \in {"file", "local"}, f \in {"pem", "jks"}})
      EXCEPT !.passwords = {Nothing, Plain(<<"password">>)}],
   [Group("pickup", {"file", "jksAlias", "pickupID"}, {"noPrompt", "apiKey", "certFile"}, {"apiKey"},
          Words("format", {"jks", "pkcs12"}))
      EXCEPT !.passwords = TwoPasswords, !.typed = {Nothing, Plain(<<"short">>), Plain(<<"typed">>)},
             !.generated = BOOLEAN],
   Group("renew", {"token", "url"}, {"id", "thumbprint", "noPrompt", "noPickup", "cn", "keySize", "locality",
                                     "file"}, {},
         {("csr" :> x @@ "format" :> f) : x \in {"", "service", "file"}, f \in {"pem", "pkcs12"}}),
   Group("gencsr", {}, {"cn", "dnsSans", "keySize"}, {}, Words("keyType", {"rsa", "dsa"})),
   Group("setpolicy", {}, {"apiKey", "token", "url", "policyName", "policyFile", "verify"}, {},
         Words("platform", {"VCP"})),
   Group("getpolicy", {}, {"apiKey", "token", "url", "policyName", "starter"}, {}, Words("platform", {"VCP"})),
   Group("sshenroll", {}, {"token", "url", "template", "noPrompt"}, {"token"},
         Words("publicKey", {"local", "service", "file", "none"})),
   Group("sshpickup", {}, {"token", "url", "sshPickupID", "passphrase", "noPrompt"}, {"token"}, NoWords),
   Group("sshgetconfig", {}, {"token", "url", "template", "guid"}, {"token"}, NoWords)}
    \cup {[Group(n, {}, {"config", "token", "url", "noPrompt"}, {"token", "url", "apiKey"}, NoWords)
            EXCEPT !.loaded = Loaded] : n \in {"checkcred", "voidcred"}}

SectionKeys == {"url", "access_token", "tpp_url", "tpp_user", "tpp_password", "tpp_zone", "cloud_apikey",
              "cloud_zone", "oauth_client_id", "oauth_access_token", "oauth_client_secret",
              "oauth_user", "oauth_password", "oauth_device_url", "test_mode"}
MCSections ==
  {[keys |-> ks, empty |-> e, test |-> t, alone |-> a] :
     ks \in UNION {kSubset(n, SectionKeys) : n \in 0 .. 4},
     e \in {{}, {"access_token"}}, t \in {"true", "no"}, a \in BOOLEAN}
=============================================================================
