-------------------------------- MODULE Options -------------------------------
(***************************************************************************)
(* The options of a vcert command: which flags it takes, what the checks   *)
(* of its connection accept, which connector is made of them, with which   *)
(* credentials that authenticates, and what becomes of the passwords.      *)
(*                                                                         *)
(* A command c is a record: its name; flags, the set of the flags that are *)
(* given; env, the set of the flags that have a value in the environment;  *)
(* words, what the flags say that stand for one of several words; its      *)
(* password, keyPassword and jksPassword; typed, what is typed when a      *)
(* password is asked for; loaded, the connection of its configuration      *)
(* file; generated, whether the cloud made the key of the certificate.  A  *)
(* flag that several spellings set has one name here.                      *)
(***************************************************************************)
EXTENDS Naturals, Sequences, FiniteSets, TLC

commonFlags == {"insecure", "verbose", "noPrompt"}
keyFlags == {"keyType", "keySize", "keyCurve", "keyFile", "keyPassword"}
sansFlags == {"dnsSans", "emailSans", "ipSans", "uriSans", "upnSans"}
subjectFlags == {"cn", "country", "state", "locality", "org", "orgUnits"}
sortableCredentialsFlags ==
  {"testMode", "testModeDelay", "config", "profile", "url", "user", "password", "p12", "p12PW",
   "trustBundle"}
credentialsFlags == {"apiKey", "token", "url"}
commonCredFlags == {"config", "profile", "url", "token", "trustBundle"}
storeFlags == {"file", "format", "jksAlias", "jksPassword", "certFile", "chainFile", "chain"}
identifyFlags == {"id", "thumbprint"}
connectionFlags == credentialsFlags \cup sortableCredentialsFlags \cup commonFlags
sshConnectionFlags == {"url", "token", "trustBundle"}

(* The flags each command is declared with.                                *)
FlagsOf ==
  [gencsr |-> subjectFlags \cup sansFlags \cup keyFlags
                \cup {"csrFile", "eku", "noPrompt", "verbose", "csrFormat"},
   enroll |-> {"platform", "zone"} \cup connectionFlags \cup subjectFlags \cup sansFlags
                \cup keyFlags \cup storeFlags
                \cup {"caDN", "csr", "friendlyName", "noPickup", "pickupIDFile", "timeout",
                      "field", "tlsAddress", "appInfo", "instance", "replace", "omitSans",
                      "validDays", "validPeriod", "eku"},
   pickup |-> connectionFlags \cup storeFlags
                \cup {"keyFile", "keyPassword", "pickupID", "pickupIDFile", "timeout"},
   revoke |-> connectionFlags \cup identifyFlags \cup {"noRetire", "reason"},
   renew  |-> connectionFlags \cup identifyFlags \cup subjectFlags \cup keyFlags \cup storeFlags
                \cup {"caDN", "csr", "noPickup", "timeout", "pickupIDFile", "omitSans", "eku"},
   retire |-> connectionFlags \cup identifyFlags,
   provision |-> credentialsFlags
                \cup {"platform", "keystoreARN", "certificateID", "certificateIDFile",
                      "keystoreCertName", "outputFile", "format", "keystoreID", "keystoreName",
                      "pickupID", "pickupIDFile", "providerName"},
   getcred |-> commonCredFlags \cup commonFlags
                \cup {"platform", "p12", "p12PW", "credFormat", "email", "password", "user",
                      "scope", "sshCred", "pmCred", "clientId", "clientSecret", "audience",
                      "deviceURL", "tokenURL", "jwt"},
   checkcred |-> commonCredFlags \cup commonFlags \cup {"credFormat"},
   voidcred |-> commonCredFlags \cup commonFlags,
   setpolicy |-> {"apiKey", "url", "token", "verbose", "policyName", "policyFile", "verify", "trustBundle",
                  "insecure"},
   getpolicy |-> {"apiKey", "url", "token", "verbose", "policyName", "policyFile", "starter", "trustBundle",
                  "insecure"},
   sshpickup |-> sshConnectionFlags \cup commonFlags
                   \cup {"sshPickupID", "guid", "passphrase", "windows"},
   sshenroll |-> sshConnectionFlags \cup commonFlags
                   \cup {"keyId", "objectName", "destinations", "validityHours", "principal",
                         "policyDN", "extension", "forceCommand", "sources", "template",
                         "publicKey", "sshKeySize", "passphrase", "windows", "sshFile", "format"},
   sshgetconfig |-> sshConnectionFlags
                   \cup {"template", "guid", "sshFile", "insecure", "verbose"}]

Allowed(c) == c.flags \cup DOMAIN c.words \subseteq FlagsOf[c.name]

(* The flags that the environment can set.                                 *)
envVarList == {"platform", "url", "zone", "token", "apiKey", "tokenURL", "jwt", "trustBundle",
               "user", "password", "clientSecret", "clientId", "deviceURL"}

Set(c, flag) == flag \in c.flags
Given(c, flag) == flag \in c.flags \cup c.env
Used(c, flags) == flags \cap c.flags # {}
Word(c, flag) == IF flag \in DOMAIN c.words THEN c.words[flag] ELSE ""

GetPlatformType(word) ==
  CASE word \in {"FIREFLY", "OIDC"} -> "firefly"
    [] word \in {"TPP", "TLSPDC"} -> "tpp"
    [] word \in {"VCP", "VAAS", "TLSPC"} -> "cloud"
    [] word = "FAKE" -> "fake"
    [] OTHER -> "undefined"

(* The platform comes from the flag alone: the environment is read later.  *)
runBeforeCommand(c) ==
  IF c.name # "provision" /\ GetPlatformType(Word(c, "platform")) = "firefly"
  THEN [c EXCEPT !.words = [w \in DOMAIN c.words \cup {"csr"} |->
                              IF w \in DOMAIN c.words THEN c.words[w] ELSE "service"]]
  ELSE c

(* Mutant of assignEnvVarsToFlags: the environment has no user names.      *)
assignEnvVarsToFlagsNoUser(c) == [c EXCEPT !.flags = @ \cup (c.env \ {"user"})]

assignEnvVarsToFlags(c) == [c EXCEPT !.flags = @ \cup c.env]

-----------------------------------------------------------------------------
(* The connection: which platform's checks are made, and what they say *)

Denied == "refused"

(* Mutant of validateConnectionFlagsTPP: a user needs no password.         *)
validateConnectionFlagsTPPNoPassword(c) ==
  /\ Given(c, "url")
  /\ Given(c, "token") \/ Given(c, "user") \/ Set(c, "p12")

validateConnectionFlagsTPP(c) ==
  LET prompts == ~ Set(c, "noPrompt")
      password == Given(c, "password") \/ prompts
      p12PW == Set(c, "p12PW") \/ prompts
  IN  /\ Given(c, "url")
      /\ Set(c, "p12") => p12PW
      /\ Given(c, "user") => password
      /\ Given(c, "token") \/ Given(c, "user") \/ Set(c, "p12")

validateConnectionFlagsCloud(c) ==
  CASE c.name = "sshgetconfig" -> TRUE
    [] c.name = "getcred" ->
         /\ Given(c, "tokenURL") => Given(c, "jwt")
         /\ Given(c, "tokenURL") \/ Set(c, "email")
    [] OTHER -> Given(c, "apiKey") \/ Given(c, "token")

validateConnectionFlagsFirefly(c) ==
  CASE c.name = "sshgetconfig" -> TRUE
    [] c.name = "getcred" ->
         /\ Given(c, "url") /\ Given(c, "clientId")
         /\ Given(c, "user") => Given(c, "password") \/ ~ Set(c, "noPrompt")
         /\ Given(c, "clientSecret") \/ Given(c, "user") \/ Given(c, "deviceURL")
    [] OTHER -> Given(c, "url") /\ Given(c, "token")

(* No --platform: the checks guess it from the flags, and so does the      *)
(* configuration, from other ones.                                         *)
CheckedPlatform(c) ==
  LET named == GetPlatformType(Word(c, "platform"))
  IN  IF named \in {"tpp", "cloud", "firefly"} THEN named
      ELSE IF Set(c, "user") \/ Given(c, "token") \/ Set(c, "p12") THEN "tpp" ELSE "cloud"

ConfigExcludes == {"apiKey", "user", "password", "token", "url", "tokenURL", "jwt", "testMode"}

commonConnectionFlagsValidations(c) ==
  IF Set(c, "config") THEN ~ Used(c, ConfigExcludes)
  ELSE ~ Set(c, "profile") /\ (Set(c, "testMode") => c.name # "getcred")

(* The platform whose checks the command passes.                           *)
validateConnectionFlags(c) ==
  LET p == CheckedPlatform(c)
      passed == CASE p = "tpp" -> validateConnectionFlagsTPP(c)
                  [] p = "cloud" -> validateConnectionFlagsCloud(c)
                  [] OTHER -> validateConnectionFlagsFirefly(c)
  IN  IF ~ commonConnectionFlagsValidations(c) THEN Denied
      ELSE IF Set(c, "config") THEN "config"
      ELSE IF Set(c, "testMode") THEN "fake"
      ELSE IF passed THEN p ELSE Denied

(* A token or a user alone means TPP here, with the names provision has.   *)
validateProvisionConnectionFlags(c) ==
  IF CheckedPlatform(c) = "cloud" /\ validateConnectionFlagsCloud(c) THEN "cloud" ELSE Denied

-----------------------------------------------------------------------------
(* The connector that is made: its type and the credentials it is given *)

buildConfigFake == [type |-> "fake", has |-> {}]

buildConfigTPP(c) ==
  [type |-> "tpp",
   has |-> (c.flags \cap {"user", "password"})
             \cup (IF Set(c, "token") THEN {IF c.name = "getcred" THEN "refreshToken"
                                            ELSE "accessToken"}
                   ELSE {})]

buildConfigVaaS(c) ==
  [type |-> "cloud",
   has |-> (c.flags \cap {"password", "apiKey", "jwt", "tokenURL"})
             \cup (IF Set(c, "email") THEN {"user"} ELSE {})
             \cup (IF Set(c, "token") THEN {"accessToken"} ELSE {})]

buildConfigFirefly(c) ==
  [type |-> "firefly",
   has |-> (c.flags \cap {"user", "password", "clientId", "clientSecret", "deviceURL"})
             \cup (IF Set(c, "token") THEN {"accessToken"} ELSE {})]

buildConfigFromFlags(c) ==
  LET named == GetPlatformType(Word(c, "platform"))
      guess == IF Set(c, "user") \/ Set(c, "token") THEN "tpp" ELSE "cloud"
      p == IF named \in {"tpp", "cloud", "firefly"} THEN named ELSE guess
  IN  IF Set(c, "testMode") THEN buildConfigFake
      ELSE CASE p = "tpp" -> buildConfigTPP(c)
             [] p = "cloud" -> buildConfigVaaS(c)
             [] OTHER -> buildConfigFirefly(c)

-----------------------------------------------------------------------------
(* Authentication: the credentials a connector takes, "none" if it finds   *)
(* none, "anonymous" if it goes on without.                                *)

TppAuthenticate(has) ==
  IF {"user", "password"} \subseteq has THEN "user"
  ELSE IF "refreshToken" \in has THEN "refresh"
  ELSE IF "accessToken" \in has THEN "access" ELSE "none"

CloudAuthenticate(has) ==
  IF "accessToken" \in has THEN "access"
  ELSE IF {"tokenURL", "jwt"} \subseteq has THEN "service account"
  ELSE IF "apiKey" \in has THEN "key" ELSE "anonymous"

Authorize(has) ==
  IF "clientSecret" \in has /\ "deviceURL" \notin has THEN "client"
  ELSE IF {"user", "password"} \subseteq has THEN "user"
  ELSE IF "deviceURL" \in has THEN "device" ELSE "none"

FireflyAuthenticate(has) ==
  IF "accessToken" \in has THEN "access" ELSE Authorize(has)

Authenticate(cfg) ==
  CASE cfg.type = "tpp" -> TppAuthenticate(cfg.has)
    [] cfg.type = "cloud" -> CloudAuthenticate(cfg.has)
    [] cfg.type = "firefly" -> FireflyAuthenticate(cfg.has)
    [] OTHER -> "fake"

(* getcred: the grant that is asked for.                                   *)
getTppCredentials(c, has) ==
  IF "refreshToken" \in has THEN "refresh"
  ELSE IF {"user", "password"} \subseteq has THEN "user"
  ELSE IF Set(c, "p12") THEN "certificate" ELSE "none"

getVaaSCredentials(has) ==
  IF "user" \in has THEN "register"
  ELSE IF {"tokenURL", "jwt"} \subseteq has THEN "service account" ELSE "none"

(* checkcred and voidcred take any access token, and the connector of TPP  *)
(* to show it to, whether there is one or not.                             *)
doCommandCredMgmt1(c, cfg) ==
  IF cfg.type = "fake" THEN "panic"
  ELSE IF c.name = "getcred" THEN
         CASE cfg.type = "cloud" -> getVaaSCredentials(cfg.has)
           [] cfg.type = "tpp" -> getTppCredentials(c, cfg.has)
           [] OTHER -> Authorize(cfg.has)
  ELSE IF "accessToken" \notin cfg.has THEN "none"
  ELSE IF cfg.type = "tpp" THEN "access" ELSE "panic"

(* What a command connects to: the environment counts unless there is a    *)
(* configuration file.                                                     *)
buildConfig(c) ==
  IF Set(c, "config") THEN c.loaded ELSE buildConfigFromFlags(assignEnvVarsToFlags(c))

(* enroll and pickup need a zone, for a certificate that has no id yet.    *)
NoZone(c) ==
  /\ c.name \in {"enroll", "pickup"} /\ buildConfig(c).type # "fake"
  /\ ~ (Given(c, "zone") \/ Used(c, {"config", "pickupID", "pickupIDFile"}))

-----------------------------------------------------------------------------
(* Passwords: how one is given, "text" if it is the password itself, and   *)
(* its lines.  "file" and "File" are two spellings of the same prefix.     *)

Passwords == [how : {"text", "file", "File", "pass"}, lines : Seq(STRING)]
Plain(lines) == [how |-> "text", lines |-> lines]
Nothing == Plain(<<>>)
Unread == [how |-> "failed", lines |-> <<>>]

readPasswordFromFile(p, line) ==
  IF line \in DOMAIN p.lines THEN Plain(<<p.lines[line]>>) ELSE Unread

readPasswordsFromInputFlag(p, line) ==
  CASE p.how \in {"file", "File"} -> readPasswordFromFile(p, line)
    [] p.how = "pass" -> Plain(p.lines)
    [] OTHER -> p

Stores == {"pkcs12", "legacy-pkcs12", "jks"}

(* The certificate whose key the cloud made; its id is read from the       *)
(* pickup id file only later.                                              *)
IsCSRServiceVaaSGenerated(c) ==
  LET cfg == buildConfig(c)
  IN  /\ c.name = "pickup" /\ Set(c, "pickupID") /\ c.generated
      /\ cfg.type = "cloud" /\ Authenticate(cfg) # "anonymous"

isTppConnector(c) ==
  c.name = "pickup" /\ ~ NoZone(c) /\ buildConfig(c).type = "tpp"
    /\ Authenticate(buildConfig(c)) # "none"

(* The password of the connection is asked for by three commands, and only *)
(* of a user who is named by a flag.                                       *)
ConnectionPassword(c) ==
  IF ~ (c.name \in {"enroll", "pickup", "getcred"} /\ Set(c, "url")) THEN c
  ELSE IF Set(c, "p12") /\ ~ Set(c, "p12PW") THEN [c EXCEPT !.flags = @ \cup {"p12PW"}]
  ELSE IF Set(c, "user") /\ ~ Used(c, {"password", "noPrompt", "token"})
       THEN [c EXCEPT !.flags = @ \cup {"password"}, !.password = c.typed]
  ELSE [c EXCEPT !.password = readPasswordsFromInputFlag(@, 1)]

(* Mutant of LineOfKeyPassword: the line of the other password.            *)
LineOfKeyPasswordFirst(c) == 1

(* The second line of a file that holds both passwords.                    *)
LineOfKeyPassword(c) ==
  IF /\ c.name \in {"enroll", "pickup", "getcred"} /\ Set(c, "url")
     /\ ConnectionPassword(c).flags = c.flags /\ c.password = c.keyPassword
  THEN 2 ELSE 1

(* Where the key of an SSH certificate comes from, when nothing is said.   *)
PublicKey(c) == IF "publicKey" \in DOMAIN c.words THEN c.words["publicKey"] ELSE "local"

NeedsKeyPassword(c) ==
  CASE c.name = "sshpickup" -> ~ Set(c, "passphrase")
    [] c.name = "sshenroll" ->
         PublicKey(c) \in {"service", "local"} /\ ~ Set(c, "passphrase")
    [] c.name = "pickup" -> Word(c, "format") \in Stores \/ IsCSRServiceVaaSGenerated(c)
    [] c.name \in {"enroll", "gencsr", "renew"} ->
         /\ ~ (Word(c, "csr") = "service" /\ Set(c, "noPickup"))
         /\ Word(c, "csr") # "file"
    [] OTHER -> FALSE

KeyPassword(c) ==
  IF ~ NeedsKeyPassword(c) THEN c.keyPassword
  ELSE IF c.keyPassword = Nothing /\ ~ Set(c, "noPrompt") THEN c.typed
  ELSE IF c.keyPassword = Nothing /\ c.name = "pickup" THEN Unread
  ELSE readPasswordsFromInputFlag(c.keyPassword, LineOfKeyPassword(c))

readPasswordsFromInputFlags(c) ==
  [ConnectionPassword(c) EXCEPT !.keyPassword = KeyPassword(c)]

(* A password file is read as a whole first, when its prefix is in lower   *)
(* case.                                                                   *)
readData(c) ==
  readPasswordsFromInputFlags(
    [c EXCEPT !.keyPassword = IF @.how = "file" THEN Plain(@.lines) ELSE @])

WasRead(c) == c.password # Unread /\ c.keyPassword # Unread

-----------------------------------------------------------------------------
(* The checks of the other options *)

Formats == {"", "pem", "json", "pkcs12", "legacy-pkcs12", "jks", "legacy-pem"}
AskedAgain == {"cn", "country", "org", "state", "keySize", "orgUnits", "dnsSans", "emailSans", "ipSans"}
Subject == {"cn", "country", "org", "state", "locality", "orgUnits"}

validateCommonFlags(c) ==
  LET firefly == GetPlatformType(Word(c, "platform")) = "firefly"
  IN  /\ Word(c, "format") \in Formats
      /\ Set(c, "file") => ~ Used(c, {"certFile", "chainFile", "keyFile"})
      /\ Word(c, "csr") \in {"", "file", "service"} \cup (IF firefly THEN {} ELSE {"local"})
      /\ Word(c, "csr") = "file" => ~ Used(c, {"keyType", "keyCurve", "keySize"})
      /\ Word(c, "keyType") \in {"", "rsa", "ecdsa"}
      /\ Word(c, "keyCurve") \in {"", "p256", "p384", "p521"}

Long(p) == p.lines # <<>> /\ p.lines # <<"short">>    \* JKSMinPasswordLen

(* A key store is one file, of a key that vcert has.                       *)
OneFile(c) ==
  /\ Set(c, "file") \/ (c.name = "enroll" /\ Word(c, "csr") = "service")
  /\ ~ Used(c, {"certFile", "chainFile", "keyFile"})
  /\ Word(c, "csr") # "file"
  /\ Set(c, "noPickup") => Word(c, "csr") \notin {"", "local"}

validatePKCS12Flags(c) == Word(c, "format") \in {"pkcs12", "legacy-pkcs12"} => OneFile(c)

validateJKSFlags(c) ==
  IF Word(c, "format") = "jks"
  THEN /\ OneFile(c) /\ Set(c, "jksAlias")
       /\ Long(c.keyPassword) /\ (c.jksPassword # Nothing => Long(c.jksPassword))
  ELSE c.jksPassword = Nothing /\ ~ Set(c, "jksAlias")

validateStore(c) == validatePKCS12Flags(c) /\ validateJKSFlags(c)

validateValidDaysFlag(c) == c.name = "enroll" /\ Word(c, "validDays") # "letters"

(* The check that a key file goes with a key of vcert's own compares the   *)
(* word of --csr with "file", which is none of those it may be; so it is   *)
(* not here.                                                               *)
validateEnrollFlags(c) ==
  /\ Word(c, "csr") = "file" <=> ~ Set(c, "cn")
  /\ Word(c, "chain") = "ignore" => ~ Set(c, "chainFile")
  /\ ~ Used(c, {"testMode", "config"}) =>
       Given(c, "zone") /\ (Set(c, "validDays") => validateValidDaysFlag(c))
  /\ validateStore(c)
  /\ Set(c, "tlsAddress") => Set(c, "instance")
  /\ Used(c, {"tlsAddress", "instance"}) =>
       ~ Given(c, "apiKey") /\ GetPlatformType(Word(c, "platform")) # "cloud"

validateGenerateFlags1(c) == Used(c, Subject \cup sansFlags)

OneId(c) == Set(c, "id") # Set(c, "thumbprint")

validateRenewFlags1(c) ==
  /\ OneId(c)
  /\ Word(c, "chain") = "ignore" => ~ Set(c, "chainFile")
  /\ Word(c, "csr") = "service" =>
       ~ (Set(c, "noPrompt") /\ ~ Set(c, "noPickup") /\ c.keyPassword = Nothing
           /\ Used(c, {"user", "token"}))
  /\ Word(c, "csr") \in {"service", "file"} => ~ Used(c, AskedAgain)
  /\ Word(c, "csr") \in {"", "local"} => ~ Used(c, Subject)
  /\ validateStore(c)

validatePickupFlags1(c) == Set(c, "pickupID") # Set(c, "pickupIDFile") /\ validateStore(c)

RevocationReasonOptions ==
  {"none", "key-compromise", "ca-compromise", "affiliation-changed", "superseded",
   "cessation-of-operation"}

validateRevokeFlags1(c) == OneId(c) /\ Word(c, "reason") \in RevocationReasonOptions \cup {""}
validateRetireFlags(c) == OneId(c)

(* The policies are read and written without a check of the connection.    *)
Secrets == {"user", "password", "token", "apiKey"}
validateGetPolicyFlags(c) ==
  IF Set(c, "starter") THEN ~ Used(c, Secrets)
  ELSE ~ (Secrets \subseteq c.flags) /\ Set(c, "policyName")
validateSetPolicyFlags(c) ==
  IF Set(c, "verify") THEN ~ Used(c, Secrets)
  ELSE ~ (Secrets \subseteq c.flags) /\ {"policyName", "policyFile"} \subseteq c.flags

validateSshEnrollFlags(c) ==
  Set(c, "template") /\ PublicKey(c) \in {"service", "local", "file"}
validateGetSshConfigFlags(c) == Used(c, {"template", "guid"})
validateSshRetrieveFlags(c) == Used(c, {"sshPickupID", "guid"})

validateProvisionFlags(c) ==
  /\ Word(c, "format") \in {"", "json"}
  /\ Used(c, {"certificateID", "certificateIDFile", "pickupID", "pickupIDFile"})
  /\ Used(c, {"pickupIDFile", "certificateIDFile"}) => ~ Used(c, {"pickupID", "certificateID"})
  /\ Set(c, "keystoreID") \/ {"keystoreName", "providerName"} \subseteq c.flags

Platform(c) ==
  IF c.name = "provision" THEN validateProvisionConnectionFlags(c) ELSE validateConnectionFlags(c)

(* A pickup looks at the platform before it checks anything: that sets the *)
(* flags from the environment, and a password to fetch the key with.       *)
Temporary == Plain(<<"temporary">>)

doCommandPickup1(c) ==
  LET given == IF Set(c, "config") THEN c ELSE assignEnvVarsToFlags(c)
  IN  IF /\ Set(c, "noPrompt") /\ c.keyPassword = Nothing
         /\ Word(c, "format") \notin Stores
         /\ IsCSRServiceVaaSGenerated(c) \/ isTppConnector(c)
      THEN [given EXCEPT !.keyPassword = Temporary] ELSE given

(* What the checks of a command leave of it.                               *)
Prepared(c) ==
  LET begun == runBeforeCommand(c)
  IN  IF c.name = "pickup" THEN doCommandPickup1(begun) ELSE begun

Checks(c) ==
  CASE c.name = "enroll" -> validateEnrollFlags(c)
    [] c.name = "pickup" -> validatePickupFlags1(c)
    [] c.name = "revoke" -> validateRevokeFlags1(c)
    [] c.name = "renew" -> validateRenewFlags1(c)
    [] c.name = "retire" -> validateRetireFlags(c)
    [] c.name = "gencsr" -> validateGenerateFlags1(c)
    [] c.name = "provision" -> validateProvisionFlags(c)
    [] c.name = "setpolicy" -> validateSetPolicyFlags(c)
    [] c.name = "getpolicy" -> validateGetPolicyFlags(c)
    [] c.name = "sshenroll" -> validateSshEnrollFlags(c)
    [] c.name = "sshpickup" -> validateSshRetrieveFlags(c)
    [] c.name = "sshgetconfig" -> validateGetSshConfigFlags(c)
    [] OTHER -> TRUE     \* validateCredMgmtFlags1

Offline == {"gencsr", "setpolicy", "getpolicy"}
Unchecked == {"setpolicy", "getpolicy", "sshenroll", "sshpickup", "sshgetconfig", "provision"}

(* The command is carried out, on the platform Platform(c).                *)
Passes(c) ==
  LET p == Prepared(c)
      r == IF c.name \in {"setpolicy", "getpolicy", "sshgetconfig"} THEN p ELSE readData(p)
  IN  /\ Allowed(c) /\ (c.name \notin Offline => Platform(p) # Denied)
      /\ c.name \notin Unchecked => validateCommonFlags(p)
      /\ WasRead(r) /\ Checks(r)

(* The command as its action sees it.                                      *)
Carried(c) == IF c.name \in {"setpolicy", "getpolicy", "sshgetconfig"}
              THEN Prepared(c) ELSE readData(Prepared(c))

-----------------------------------------------------------------------------
(* A section of a configuration file: keys, those it has; empty, those of  *)
(* them without a value; test, what test_mode says; alone, whether it is   *)
(* the only one of its file.                                               *)

tppKeys == {"access_token", "tpp_url", "tpp_user", "tpp_password", "tpp_zone"}
cloudKeys == {"cloud_url", "cloud_apikey", "cloud_zone"}
fireflyKeys == {"firefly_url", "oauth_token_url", "oauth_access_token", "oauth_client_id",
                "oauth_client_secret", "oauth_user", "oauth_password", "oauth_device_url",
                "oauth_audience", "oauth_scope", "firefly_zone"}
commonKeys == {"url", "trust_bundle"}

(* The key of all three platforms together is the first thing refused; and *)
(* with any two of them there are illegal keys.                            *)
validateSection(s) ==
  LET has(key) == key \in s.keys
  IN  IF has("tpp_user") \/ has("access_token") \/ has("tpp_password")
      THEN /\ s.keys \subseteq tppKeys \cup commonKeys
           /\ has("tpp_user") # has("access_token")
           /\ has("tpp_password") \/ has("access_token")
      ELSE IF has("cloud_apikey") THEN s.keys \subseteq cloudKeys \cup commonKeys
      ELSE IF has("oauth_client_id") \/ has("oauth_access_token")
      THEN /\ s.keys \subseteq fireflyKeys \cup commonKeys
           /\ has("oauth_client_id") =>
                /\ has("oauth_user") <=> has("oauth_password")
                /\ has("oauth_user") \/ has("oauth_client_secret") \/ has("oauth_device_url")
                /\ has("oauth_user") =>
                     ~ (has("oauth_client_secret") \/ has("oauth_device_url"))
      ELSE has("test_mode")

(* Empty sections are skipped when there are others.                       *)
validateFile(s) == (s.keys = {} /\ ~ s.alone) \/ validateSection(s)

CredentialOf ==
  [access_token |-> "accessToken", tpp_user |-> "user", tpp_password |-> "password",
   cloud_apikey |-> "apiKey", oauth_access_token |-> "accessToken", oauth_user |-> "user",
   oauth_password |-> "password", oauth_client_id |-> "clientId",
   oauth_client_secret |-> "clientSecret", oauth_device_url |-> "deviceURL"]

(* The connection a section stands for, with the key its zone is from.     *)
LoadConfigFromFile(s) ==
  LET has(key) == key \in s.keys
      type == IF has("tpp_user") \/ has("access_token") THEN "tpp"
              ELSE IF has("cloud_apikey") THEN "cloud"
              ELSE IF has("oauth_client_id") \/ has("oauth_access_token") THEN "firefly"
              ELSE IF has("test_mode") /\ s.test = "true" THEN "fake" ELSE Denied
      read == CASE type = "tpp" -> tppKeys [] type = "cloud" -> cloudKeys
                [] type = "firefly" -> fireflyKeys [] OTHER -> {}
      zone == IF has("cloud_zone") /\ type \in {"tpp", "cloud"} THEN {"cloud_zone"}
              ELSE CASE type = "tpp" -> s.keys \cap {"tpp_zone"}
                     [] type = "firefly" -> s.keys \cap {"firefly_zone"}
                     [] OTHER -> {}
  IN  [type |-> type, zone |-> zone,
       has |-> {CredentialOf[k] : k \in ((s.keys \ s.empty) \cap read) \cap DOMAIN CredentialOf}]
=============================================================================
