----------------------------- MODULE Certificates -----------------------------
(***************************************************************************)
(* Keys, signing requests and certificates as they are written, read back, *)
(* compared and looked for.                                                *)
(*                                                                         *)
(* A key is a record of its type, the number that is compared (modulus,    *)
(* x coordinate or the whole key) and the rest.  A block of a PEM file is  *)
(* a record of its label, the form of its contents, what it contains and   *)
(* the password that protects it.                                          *)
(***************************************************************************)
EXTENDS Lists, SequencesExt, FiniteSetsExt

NoKey == [type |-> "none", n |-> 0, rest |-> 0]
NoBlock == [label |-> "none", form |-> "none", of |-> NoKey, password |-> ""]
Block(label, form, key, password) ==
  [label |-> label, form |-> form, of |-> key, password |-> password]
LegacyLabel(type) == IF type = "RSA" THEN "RSA PRIVATE KEY" ELSE "EC PRIVATE KEY"
LegacyForm(type) == IF type = "RSA" THEN "pkcs1" ELSE "sec1"

(* GetPrivateKeyPEMBock, and with a password GetEncryptedPrivateKeyPEMBock.*)
GetPrivateKeyPEMBock(key, legacy, password) ==
  CASE legacy /\ key.type = "ED25519" -> NoBlock
    [] legacy /\ key.type # "ED25519" ->
         Block(LegacyLabel(key.type), LegacyForm(key.type), key, password)
    [] OTHER -> Block(IF password = "" THEN "PRIVATE KEY" ELSE "ENCRYPTED PRIVATE KEY",
                      "pkcs8", key, password)

(* The label of the result is the legacy one, its contents are not.        *)
DecryptPkcs8PrivateKey(block, password) ==
  IF block.form # "pkcs8" \/ block.password # password THEN NoBlock
  ELSE Block(IF block.of.type = "ED25519" THEN "PRIVATE KEY" ELSE LegacyLabel(block.of.type),
             "pkcs8", block.of, "")

(* The key of ToTLSCertificate.  It goes by the label, and for RSA by the  *)
(* contents too.                                                           *)
tlsKey(block) ==
  CASE block.password # "" -> NoKey
    [] block.password = "" /\ block.label = "RSA PRIVATE KEY" -> block.of
    [] block.password = "" /\ block.label = "EC PRIVATE KEY" /\ block.form = "sec1" -> block.of
    [] OTHER -> NoKey

-----------------------------------------------------------------------------
(* Collections *)
IsKeyBlock(b) ==
  b.label \in {"RSA PRIVATE KEY", "EC PRIVATE KEY", "ENCRYPTED PRIVATE KEY", "PRIVATE KEY"}
IsCertificate(b) == b.label = "CERTIFICATE"

LastKey(blocks) ==
  LET keys == {i \in DOMAIN blocks : IsKeyBlock(blocks[i])}
  IN  IF keys = {} THEN <<>> ELSE SubSeq(blocks, Max(keys), Len(blocks))

CertificatesOf(blocks) == Selected(blocks, {i \in DOMAIN blocks : IsCertificate(blocks[i])})

(* Mutant of PEMCollectionFromBytes: the order is not looked at.           *)
PEMCollectionFromBytesAnyOrder(blocks, order) ==
  LET certs == CertificatesOf(blocks)
  IN  [certificate |-> SubSeq(certs, 1, 1),
       chain |-> IF order = "ignore" THEN <<>> ELSE Tail(certs), key |-> LastKey(blocks)]

(* The private key is the rest of the input from the last key on.          *)
PEMCollectionFromBytes(blocks, order) ==
  LET certs == CertificatesOf(blocks)
      n == Len(certs)
  IN  [certificate |-> CASE n = 0 -> <<>>
                         [] n > 0 /\ order = "root-first" -> <<certs[n]>>
                         [] OTHER -> <<certs[1]>>,
       chain |-> CASE n = 0 \/ order = "ignore" -> <<>>
                   [] n > 0 /\ order = "root-first" -> SubSeq(certs, 1, n - 1)
                   [] OTHER -> SubSeq(certs, 2, n),
       key |-> LastKey(blocks)]

(* The keystore of the cloud holds the chain from the root on.             *)
ConvertZipBytesToPem(certs, key, rootFirst) ==
  LET n == Len(certs)
      chain == SubSeq(certs, 1, n - 1)
  IN  [certificate |-> SubSeq(certs, n, n),
       chain |-> IF rootFirst THEN chain ELSE Reverse(chain), key |-> <<key>>]

-----------------------------------------------------------------------------
(* Signing requests.  The alternative names are a list of pairs of a kind  *)
(* and a name; the extensions of a request are functions.                  *)
NameTypes == <<"dns", "email", "ip", "uri", "upn">>

marshalSANs(names) ==
  LET Kind(i) == [j \in DOMAIN names[NameTypes[i]] |-> <<NameTypes[i], names[NameTypes[i]][j]>>]
  IN  Kind(1) \o Kind(2) \o Kind(3) \o Kind(4) \o Kind(5)

Sans(list, critical) == [san |-> [list |-> list, critical |-> critical]]
Usages(list) == IF list = <<>> THEN <<>> ELSE [eku |-> list]

(* The names unless they are omitted, the key usages that are known; the   *)
(* caller's own extensions replace all of them.                            *)
Extensions(r) ==
  IF r.extra # <<>> THEN r.extra
  ELSE (IF r.omit THEN <<>> ELSE Sans(marshalSANs(r.names), r.subject = <<>>)) ++ Usages(r.usages)

GenerateCSR(r) == [subject |-> r.subject, extensions |-> Extensions(r), key |-> r.key]

NamesOf(extensions, kind) ==
  IF "san" \notin DOMAIN extensions THEN <<>>
  ELSE LET list == extensions.san.list
           found == Selected(list, {i \in DOMAIN list : list[i][1] = kind})
       IN  [i \in DOMAIN found |-> found[i][2]]

(* Mutant of NewRequest: the user principal names are lost, which the      *)
(* library does not know.                                                  *)
NewRequestNoUpn(cert) ==
  [subject |-> cert.subject, key |-> cert.key, omit |-> FALSE, usages |-> <<>>, extra |-> <<>>,
   names |-> [k \in ToSet(NameTypes) |-> IF k = "upn" THEN <<>> ELSE NamesOf(cert.extensions, k)]]

(* A request for what a certificate has, its key usages excepted.          *)
NewRequest(cert) ==
  [subject |-> cert.subject, key |-> cert.key, omit |-> FALSE, usages |-> <<>>, extra |-> <<>>,
   names |-> [k \in ToSet(NameTypes) |-> NamesOf(cert.extensions, k)]]

(* Mutant of CheckCertificate: of a signing request only the type of its   *)
(* key is compared.                                                        *)
CheckCertificateByType(type, key, csrKey, cert) ==
  CASE key # NoKey -> type = cert.type /\ key.type = cert.type /\ cert.n = key.n
    [] key = NoKey /\ csrKey # NoKey -> cert.type = csrKey.type
    [] OTHER -> TRUE

(* Is it a certificate for this request?  By the private key, or by the    *)
(* signing request when there is none.                                     *)
CheckCertificate(type, key, csrKey, cert) ==
  CASE key # NoKey ->
         /\ type = cert.type /\ key.type = cert.type
         /\ cert.n = key.n
         /\ type = "ED25519" => cert = key
    [] key = NoKey /\ csrKey # NoKey ->
         cert.type = csrKey.type /\ (cert.type # "ED25519" => cert.n = csrKey.n)
    [] OTHER -> TRUE

-----------------------------------------------------------------------------
(* Looking for a certificate: the names of one are a list or nil.          *)
Nil == <<0>>
Sorted(names) == SortSeq(names, <)

(* The place of the certificate among those at some places, or 0: the      *)
(* first of the newest.                                                    *)
FindNewestCertificateWithSans(certs, places, names) ==
  LET same == {i \in places : Sorted(certs[i].dns) = Sorted(names)}
      newest == {i \in same : \A j \in same : certs[i].validTo >= certs[j].validTo}
  IN  IF same = {} THEN 0 ELSE Min(newest)

(* SearchCertificate of both connectors: the service finds candidates, of  *)
(* which those of the zone are compared.                                   *)
SearchCertificate(found, zone, names) ==
  LET own == {i \in DOMAIN found : found[i].zone = zone}
      i == FindNewestCertificateWithSans(found, own, names)
  IN  CASE found = <<>> -> [error |-> "no certificate"]
        [] found # <<>> /\ own = {} -> [error |-> "no certificate of the zone"]
        [] OTHER -> IF i = 0 THEN [error |-> "no certificate"] ELSE found[i]

(* The application of a zone `application\template'.                       *)
getAppNameFromZone(zone) == IF Len(zone) < 2 THEN zone ELSE Front(zone)
=============================================================================
