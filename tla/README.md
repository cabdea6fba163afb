# vcert: a TLA+ verification project

This directory holds TLA+ models of vcert, the TLC configurations that check
them and the theorems about them that the TLA+ proof system (TLAPS) checks.
All paths are relative to the repository (`src/`).

Run from this directory:

    tlc -workers 2 -config Playbook_exclusive.cfg MCPlaybook    # one run
    tlapm PlaybookProofs.tla                                    # one proof module

## 1. The system

vcert is a command line tool and a Go library that obtains certificates from
three platforms: Trust Protection Platform (TPP), the Control Plane (cloud,
TLSPC, VaaS) and Firefly. It has no goroutines and no locks. What makes it hard
are the other actors: the platform, which issues certificates and tokens at its
own pace and does not undo what a lost answer left; other vcert processes on the
same host (cron jobs that overlap); the files both leave behind; and a process
that dies, or gives up, between two of these steps.

| component | state | operations | interacts with | what makes it correct |
|---|---|---|---|---|
| **playbook run** (`cmd/vcert/playbook.go`, `pkg/playbook`) | certificate, key, chain and `.bak` files; the process knows the task, the check result and the enrolled certificate | check, enroll, back up, install, afterInstallAction, installValidationAction, exit code | platform through a connector, files, the service that uses them, other runs | file sets belong together; a backup is usable; the service runs with what is installed; nothing expires; nothing is renewed needlessly; one task does not disturb another |
| **token refresh** (`tokenService.go`, `vcertutil.go`, `parser`) | access and refresh token in the playbook file, the pair in memory | verify, read raw, refresh, log in by certificate, rewrite the file | TPP authorization server, other runs, the tasks | the only valid refresh token is never lost by a race; a working pair is not replaced |
| **certificate commands** (`cmdCertificates.go`, `utils.go`, `result_writer.go`) | private key in memory, pickup id, output files | enroll, pickup, renew, revoke, retire, gencsr | connector, files | what is written matches; what is needed to pick up later is kept; waiting ends when promised |
| **TPP connector** (`pkg/venafi/tpp`) | api key or tokens; nothing else between calls | authenticate, request, retrieve (poll), renew, revoke, retire, reset, import, list, policies | WebSDK | no half-done change is reported as done |
| **cloud connector** (`pkg/venafi/cloud`) | access token, zone, client | the same, plus service-generated keys, provisioning by websocket | REST and GraphQL API, eventually consistent inventory | waits for what is not there yet, ends when promised |
| **Firefly connector** (`pkg/venafi/firefly`) | access token | authorize (device flow polls), synchronous request | OAuth server, Firefly | polls at the agreed rate, ends |
| **zone rules, policies, collections** (`pkg/endpoint`, `pkg/policy`, `pkg/certificate`) | none (setpolicy: a folder or a template, which others change too) | validate, update, convert, order | the above | a request that passes obeys the zone |
| **flags and validation** (`cmd/vcert/flags.go`, `validators*.go`) | the global flags | reject unusable combinations | the commands | sequential, no state |

`PROJECT.json` lists the components with what is modelled of each, and under
`hazards` the places that are hard to test.

## 2. Modules

    Playbook ── MCPlaybook            TppTokens ── TppTokensProofs
        └── PlaybookProofs

    RetrievalPromise ◁── Retrieval ── MCRetrieval        (◁── implements)
                             └── RetrievalProofs

    Enrollment ── MCEnrollment        Lists ── TppObjects ── MCTppObjects
        └── EnrollmentProofs                       └── TppObjectsProofs

    PolicySpec ──┐
    TppPolicy ───┼── MCPolicies       TppPolicy ── TppPolicyProofs
    CloudPolicy ─┘                    MCPolicies, TppPolicyProofs ── CloudPolicyProofs

    Lists ── PolicySpec, Certificates
    PolicySpec, Requests, Certificates, Options ── Inputs ── MCInputs
                                                      └── InputsProofs

The first groups have state and are about interleavings and faults; the last group
consists of the pure algorithms, which `Inputs` calls one at a time. `Lists` is what
they share: the members of a list at a set of places, in their order (`Selected`), which
is how the loops of the code that append what they are looking for are written here, and
a list without its repetitions (`Distinct`).

### Playbook

`vcert run`, once its credentials are valid. A process is a record with the
position of `Execute` and `runInstaller` in the playbook (task, installation,
file), the result of `isCertificateChanged` so far, the certificate it enrolled
and whether a task failed. The host is `disk`, `bak` (the `.bak` files) and
`loaded` (the files the service had when its afterInstallAction last ran).

| action | code |
|---|---|
| Start | `doRunPlaybook` up to its loop over the tasks, `--force-renew` |
| Check | one iteration of `isCertificateChanged`, `PEMInstaller.Check` and its PKCS#12 and JKS siblings, `needRenewal` |
| Enroll, EnrollLost | `EnrollCertificate`, `CreateX509Cert`; EnrollLost when the CA issued and the answer never came |
| Backup, Copy | `Backup`, `CopyFile`: the truncation and the content of each `.bak` file |
| Install, Write | `Install`, `WriteFile`: the truncation and the content of each file |
| After, Validate | `AfterInstallActions`, `InstallValidationActions`; a result of 1 is only logged, as in the code |
| Fail | any call that returns an error: the task or the installation ends, the run goes on (`OnError`) |
| Crash | the process is killed |
| Tick | a period passes |

A certificate is its serial number and the period it was issued in; certificate,
key and chain of one enrollment share it, so *matching* is equality. A PKCS#12 or
JKS store is an installation with one file. Installation of a chain that the
platform did not return (an empty content is skipped) is not modelled.

### TppTokens

`ValidateTPPCredentials` for the processes that run one playbook. The server is
`valid` (access tokens it accepts) and `live` (refresh tokens it accepts); a
refresh consumes the token and issues the next pair. The playbook file is one
pair, or `Torn` while it is truncated. Each step is one call of the code:
IsValidAccessToken, ReadPlaybookRaw, RefreshTPPTokens (with its fall back to
certificate authentication), replaceTokensInFile with the truncation of
WritePlaybook, the write, the tasks. RefreshLost is a refresh whose call fails on
the way there or back. Whether the playbook has a p12Task is chosen at first (`p12`)
and never changes.

### Enrollment

The commands enroll, pickup and renew, run by processes that share the output
files. The platform is a sequence of requests; request, key pair and certificate
share a number, so *matching* is equality again. A pickup id is such a number on
the cloud; on TPP it is the name of the certificate object, which stands for the
object's latest request (`Named`). A command is a record with its position, what
it was asked for (CSR made here or by the platform, `--no-pickup`, a pickup
without password), its pickup id and the certificate and key it holds.

| action | code |
|---|---|
| StartEnroll, StartRenew, StartPickup | the commands up to their first call that counts; renew reads `--id file:`, pickup `--pickup-id-file` |
| FetchOld | `doCommandRenew1`: the old certificate, without waiting |
| CheckLatest | cloud `RenewCertificate`: is this the latest request, is there a CSR |
| Post, Refused, PostLost | `RequestCertificate`, `RenewCertificate`, `SynchronousRequestCertificate`, their error, and a lost answer |
| Retrieve, Timeout | the end of the wait that Retrieval models: `CheckCertificate`, the key of the platform, the second attempt without a key, the timeout |
| Write | one file of `Flush`, which collects the errors and goes on |
| Stop | a failed call, or the process is killed, perhaps within a write |
| Process | the platform issues or refuses |

Left out: a CSR from a file, `--file` (one file for everything), the chain (it
comes with the certificate and its write error counts as the certificate's), key
passwords and output formats, and results printed on stdout. Two fields are history:
`overlap` (two commands have run at once) and `loose` (a command posted a request
or began to write and did not succeed; no enroll or renew has succeeded since).

### Retrieval and RetrievalPromise

The wait for a certificate, with time in ticks: the loop `retrieveCertificate` of
the commands (5 s sleep, limit `outer`) around the loops of the connectors (2 s
sleep, limit `inner`, which is `req.Timeout`). enroll and renew set inner to
180 s, pickup leaves it 0, the playbook calls `RetrieveCertificate` alone. One
wait is the record `call`; `phase` is the exchange it is in:

| platform | phases |
|---|---|
| TPP | retrieve (polls) |
| cloud | status (polls), then download (polls), or, when the platform generated the key, inventory, dek, keystore (one exchange each) |

| action | code |
|---|---|
| Begin | a command or the playbook calls `retrieveCertificate` or `RetrieveCertificate` |
| Answer | the platform's state at one moment of the exchange, or an exchange that fails |
| TurnedAway | the cloud refuses the download of a certificate that is ready: `waitForCertificate` takes every other status than 200 for "not there yet" and polls on |
| Advance | the next phase, or the certificate |
| Wait | "not there": ErrCertificatePending, the timeout, or a sleep, of either loop |
| Fail, NilCertificate | error returns; the nil certificate of `getCertificate` |
| Again, Retry | the sleep of a connector or of the command ends |
| Process | the platform issues or refuses, stores, lists |
| Tick | time passes; an exchange lasts at most `Latency` (the clients have a timeout), a sleep ends on time |

`RetrievalPromise` says what a caller may rely on, without phases, loops or
sleeps: a timeout is reported only after the limit and only if the certificate
was not there early enough to be fetched by then; `pending` is an answer only to
a caller who asked for no wait; a certificate comes only when the platform has
one; the call is over by its deadline, which is the limit (twice on the cloud,
where two loops use it one after the other) plus two sleeps of a connector, one
of a command and four exchanges. A certificate whose download was refused counts as
one that is not there until then (`Appear`), since the client cannot tell the two
apart: refusals may go on until the limit. Any exchange may fail, so an error is always a
legal end: the code does not retry errors. `pickup` without a password that
finds no key calls `retrieveCertificate` once more; that is a second wait.

### TppObjects

The operations of the TPP connector on certificate objects are sequences of
exchanges with the server; another caller may act between two of them, each may
fail, and one that changes the server may be carried out although its answer is
lost. An object has a current certificate (a number, which is also its
thumbprint), SANs, a flag whether it is enabled, the devices it is associated
with, and marks (custom fields and the origin). The server's behaviour is
external: it is what the code relies on, not more.

| action | code |
|---|---|
| Start | the call: RequestCertificate, RenewCertificate, RetireCertificate, RevokeCertificate, ImportCertificate, ListCertificates |
| Guid, Details, Dissociate | `proccessLocation`: `configDNToGuid`, `searchCertificateDetails` and the comparison of the instances, `dissociate` |
| Post | `prepareRequest` and the request; a server of an older release ignores the custom fields |
| Metadata, Items, SetMetadata | the custom fields afterwards: `requestMetadataItems`, `prepareLegacyMetadata`, `setCertificateMetadata` |
| Search | `searchCertificatesByFingerprint` of a renewal or retirement by thumbprint |
| ObjectGuid, Put | `putCertificateInfo`: clean the SANs, disable the object, record the origin |
| Renew, Revoke, Import | the one exchange that decides |
| Page | a page of ListCertificates |
| Refused, Fail | an error of `prepareRequest` or of the server; a failed exchange |
| Expire | time passes while somebody lists |

`Answered` combines an exchange with its lost answer. `OnlyLogged` names the
positions where the code logs an error and returns success: only ImportCertificate has
them. RequestCertificate logs the errors of its custom fields too, but its results are
named and its bare returns hand the error to the caller: the call fails although the
certificate has been requested. `loose` is history: what a failed call left half done (a
device dissociated, SANs cleaned).

### PolicySpec, TppPolicy, CloudPolicy

`PolicySpec` translates `pkg/policy`: the validations, the emptiness test, and the
translations of a specification to and from a TPP folder and a cloud template. A
specification is two partial functions, `policy` and `default`, from keys to lists
of texts; an absent key is not in the domain, so the pointers of the Go structures
are domains here. An evaluation that would dereference nil or index an empty list
answers `"panic"`.

`TppPolicy` and `CloudPolicy` are `SetPolicy` of the two connectors as processes:
TPP clears and writes a folder attribute by attribute, the cloud writes the
template, reads the application, changes the copy and writes it back as a whole.
Every request may fail, or be carried out and lose its answer. `MCPolicies` runs one
or the other, and gives TppPolicy the specifications and the orders of attributes
that `PolicySpec` computes.

### Requests, Certificates, Options and Inputs

| module | code |
|---|---|
| Requests | `pkg/endpoint`: UpdateCertificateRequest, ValidateCertificateRequest, the zone configurations of both platforms, getCsrAttributes of the cloud, the key checks |
| Certificates | `pkg/certificate`: encodings of keys (labels and forms, no bytes), collections and their order, CheckCertificate, NewRequest, FindNewestCertificateWithSans; the key store of the cloud; the listener's key |
| Options | `cmd/vcert`: the flags each command takes, the environment, the validators, the passwords, buildConfig, the sections of `config.go`, the choice of the authentication in the connectors |

`Inputs` has one variable, the call: an algorithm and its input from a set of
constants. Its invariants compare what the algorithm computes with what it is for;
where they follow a call through several functions (validate, build, print, read
back) they check the composition and not one function. A policy's domain name is
the sequence of its labels; regular expressions are the few shapes that the code
writes and reads (`Exactly`, `Below`, `Anything`), and anything else is opaque.

## 3. Runs

| run | question | bounds |
|---|---|---|
| playbook_exclusive | file sets, backups and what the services run with, under every placement of two faults | one process at a time, a PEM installation (3 files, backup) and a store (1 file), forced and unforced runs, 3 certificates after the first |
| playbook_daily | expiry, renewal rate, exit code and needless enrollments over two renewal cycles; no task starves another | two tasks, three installations, lifetime 4, window 2, 8 periods, 2 faults, fairness |
| tokens | without p12Task the one refresh token survives overlapping runs, and no pair that works is replaced; with it, certificate authentication recovers from every loss | two processes, with and without p12Task, 5 pairs, two faults, fairness |
| tokens_unsaved | a promise of a comment that the code does not keep (below) | two processes, no fault |
| retrieval | every wait of enroll, pickup and the playbook, over both platforms, with and without a key, implements RetrievalPromise | waits begin at times 0 to 3, limits of 0, 2, 3 and 4 ticks, sleeps of 1 and 2, an exchange of up to 1 |
| retrieval_nil | a promise of a comment that the code does not keep | one kind of wait |
| enrollment | pairs, exit codes and pickups of two processes over three platforms | 2 requests (a first one and one that replaces or renews it), one fault, fairness |
| policies | setpolicy of both platforms by two processes, every request may fail or lose its answer | three calls, six specifications over five attributes; two templates, rules and owners |
| objects | six operations on the certificate objects of a TPP server by two callers | three objects, two devices, 17 calls of which three are made, one fault, pages of two |
| inputs | the algorithms compute what they are for | bounded inputs, in groups of parts that act on each other (`MCInputs`), about 465 000 calls |
| cloud_token | a promise of the documentation that the command line does not keep | the commands of `inputs` |
| client_certificate | a promise of a usage text that no connector keeps | the commands of `inputs` |

Every bound is a CONSTANT: MaxClock, MaxIssued, MaxFaults, MaxTokens, MaxStart,
MaxRequests, MaxRuns, MaxCalls. Two faults
are enough for the interesting cases: one that leaves something half done and
one in the run that would repair it. Two installations per task show what an
installation does to the next; two processes that start again and again show a race
whose winner is overtaken by the other's next run, and the theorems hold for any number
of them. The limits are longer than both sleeps and not multiples of
them, so a limit falls on a turn of the loop, between turns and in an exchange.
When MaxIssued, MaxTokens or MaxRequests is exhausted the action `Horizon`
lets the model stand still, so deadlock is checked in these runs. The runs
`policies` and `objects` end when their calls are used up; they do not check deadlock.

Three calls are enough in `policies` and `objects`: one that leaves something half
done, one that meets it, and one in between. The inputs of `inputs` are grouped
(subject, places, keys, the rest of a policy; login, outputs, passwords of a
command), since parts of different groups are handled by separate code; within a
group they are combined freely, absent and empty values included.

The properties of Inputs name the cases that the code decides otherwise, where they
would hold with fewer words and be wrong. SuggestedIsAllowed: a folder may lock an empty
list of units, an algorithm that no request gets by completion, or a size without an
algorithm, or suggest a size that is not supported. CheckedStaysAllowed leaves out
Ed25519 keys and the names that are looked at in a signing request only.
LocalImpliesService is one direction: what the local check refuses, the service may accept. Both,
and KeyCheckIsMembership, are for policies that can be read: a folder that locks a key
algorithm nobody knows (`TppPolicyPanics`, tpp.go:987) or a template with a key type
nobody knows (`CloudPolicyPanics`, certificatePolicies.go:138) ends the program.
TppRoundTrip leaves out a folder whose printed policy makes setpolicy panic (`BuildPanics(back)`).
`Inexpressible` lists the cloud templates that
getpolicy cannot print, CloudRoundTrip says that these and only these come back changed.

CheckedIsOwn is stated by who a certificate was issued for, not by what is compared: a request
takes the certificate that was issued for its key, and of the certificates that a
platform answers with, read in any order, it takes the leaf and refuses the rest of the
chain. It leaves out Ed25519 keys of which only the signing request is known: there
CheckCertificate compares nothing. That it refuses every other certificate is
`AcceptedIsOwn`, which does not hold (below).

CheckedPlatformIsUsed and CredentialsSuffice are implications: they say what holds outside the
cases that they name, and nothing of these cases. CheckedPlatformIsUsed leaves out two
guesses: a client certificate without a user, and a user whom only the environment names.
CredentialsSuffice leaves out a user whose password nobody asks for (only enroll,
pickup and getcred ask, and only with a URL on the command line), checkcred and voidcred on
the cloud, and a client certificate alone, which no connector takes but for getcred: the run
client_certificate is about that. KeyIsFetched leaves out an id that is in a file, on the cloud
(H21 of the hazards: the key is then not fetched), and a command that may prompt, on TPP; and it
needs a password file with a line in it. PasswordsAreLines is for enroll and pickup (renew
never opens a password file of the connection) and for two passwords from one file: the
connection gets the first line; that the key gets the second holds for one spelling of the
prefix only and is claimed for no other (`KeyPasswordIsSecondLine`, below).

The preconditions of the properties of Enrollment are the cases the code cannot
repair. PairAfterSuccess is for commands that do not overlap, for pickups with
nothing `loose` (a TPP pickup id then no longer stands for the request whose key
is on disk, and nothing compares the two files), and for pickups of a key that the
cloud made only with a password (see the hazards). A failed write makes the exit
code 1, so it needs no precondition. PickupCompletes is for what enroll
and renew left complete.

Some preconditions exempt the very accident that a hazard names, because nothing in the code
prevents it and nothing repairs it. The property then shows that the accident is the only way
to the bad state, not that it does not happen:

| recorded in | properties | what does happen |
|---|---|---|
| `cut` | FilesUniform, ServiceCurrent | a run that stops between the writes of an installation leaves files of two enrollments, or a torn one |
| `missed` | ServiceCurrent | a run that stops after the writes leaves the service on the old files; no later run starts the action |
| `loose` (Enrollment) | PairAfterSuccess, PickupCompletes | a pickup after a command that was left half done may join its certificate with an older key |
| `lost` | GrantKept, RotationIsNeeded | the pair is gone between the server and the playbook file |
| `loose`, `UnderWay` (TppObjects) | DevicesStayServed | a request with Replace that fails leaves the device without any certificate |
| `loose`, `HalfOmitted` | RenewalKeepsSans | a renewal without SANs that fails leaves an object without SANs, and its next renewal has none |
| `quiet` | ActsOnItsObject, ListIsWhole, MarkedOrLogged | two requests see one instance free; the object behind a thumbprint changes before it is used; a list that is read page by page misses or repeats an entry |
| `alone` | NothingLostAlone, AppliedWhenAlone | what another writer links between reading and writing is taken away |
| `refused` | AppliedWhenAlone | a refused update of the application is reported as success |

Fairness: `WF` on starting vcert (the scheduler that runs it again and again), on
the steps of a started process (the operating system) and on the passing of
time. In Enrollment a pickup is retried for ever (`SF`, since a running command keeps
its process busy) and the platform decides. Faults are never fair, so no liveness
property depends on one.

### What the violated properties say

* **RefreshedIsSaved** (tokens_unsaved): `ReadPlaybookRaw` accepts a truncated
  playbook, so the check made "before refreshing the tokens and blowing things up"
  passes and the new pair is lost without any fault.
* **NotFoundIsRetried** (retrieval_nil): `getCertificate` returns no certificate and
  no error for a 404 with the usual body, instead of trying for a minute, and
  `getDekInfo` uses the nil pointer.
* **TokenReachesCloud** (cloud_token): `--platform vcp` is a flag of enroll, provision
  and getcred only, and an access token without it is taken for one of TPP, so
  pickup, renew, retire, setpolicy and getpolicy cannot use the cloud's token as
  README-CLI-CLOUD.md says.
* **CertificateSuffices** (client_certificate): the usage text of enroll
  (cmdCertificates.go:53) has a line with a URL, `--p12-file` and `--p12-password` and
  nothing else, and the checks of enroll, pickup, renew and revoke name the client certificate
  among their credentials (validatorsTPP.go:21, 31, 38). The command passes its checks and has no credentials:
  without `--platform` the connection is built for the cloud, with `--platform tpp` the TPP
  connector gets a client certificate, for which its Authenticate has no branch. The
  usage text of getcred (cmdCredentials.go:44) shows the same flags; getcred has a branch for
  the certificate, and without `--platform` goes to the cloud as well (`CertificateGetsToken`).

Eight further formulas state such promises; they have no run of their own. To see a
counterexample, put the formula into the configuration named here in place of its
properties.

| formula | configuration | what the code does instead |
|---|---|---|
| `AfterActionFollows` (INVARIANT) | Playbook_exclusive.cfg | an afterInstallAction that failed, or never started, is not repeated before the next renewal |
| `ZeroTimeoutAsksOnce` (INVARIANT) | Retrieval_all.cfg | enroll and renew overwrite the limit of the connector with 180 s, so `--timeout 0` waits and every other value has no effect |
| `TimeoutKeepsId` (PROPERTY) | Enrollment_all.cfg | enroll and renew return a timeout before they write anything, so the pickup id file promised "if a timeout occurred" does not exist, nor does the key file |
| `CertificateGetsToken` (INVARIANT) | Inputs.cfg | getcred with a client certificate and a URL only is built for the cloud and never asks for the token |
| `LinkedAfterSuccess` (PROPERTY) | Policies.cfg | a second setpolicy that read the application before the first one wrote it takes the link away again, and the status of the write is not looked at |
| `ValidatedBuilds` (INVARIANT) | Inputs.cfg | a specification whose default has a subject without an organisation, while its policy has none, passes the validation, and BuildTppPolicy then dereferences or indexes what is not there |
| `AcceptedIsOwn` (INVARIANT) | Inputs.cfg | CheckCertificate ("validate that certificate returned by the server matches data in request object", request.go:191) compares the modulus of an RSA key and not its exponent, one coordinate of an elliptic key, and nothing of an Ed25519 key of which only the signing request is known |
| `KeyPasswordIsSecondLine` (INVARIANT) | Inputs.cfg | main_test.go:703-716 and the comment at passwords.go:54 have the key password in the second line of a file that has both; the test calls the function alone; in a command a lower-case `file:` key password has been read whole by `readData` before, so the key gets all lines, and two spellings of the prefix give it the first line |

Three more facts about faults are in the preconditions of the properties that
hold: a certificate file left torn by a stopped run is an error of its task in
every later run until `--force-renew` replaces it (NoExpiry and TaskIsolation
exclude it), a pair left mismatched by a run that was stopped between the writes
of certificate and key stays until the next renewal, because `Check` loads the
certificate only (FilesUniform has it on record), and a token pair lost between the server and the playbook file ends
the automatic refresh of a playbook without p12Task (`lost` in GrantKept).

## 4. Proofs

The theorems hold for every playbook, every number of processes, faults,
certificates, tokens, objects and inputs; the bounds appear only in guards. They rest
on the assumptions in the modules, which TLC evaluates in every run: the playbook has
at least one task, every task an installation, the first file of an installation is its
certificate file, no two installations share a file, and what is installed at the
beginning are installations of the playbook; the objects that a server has at the
beginning are listed once; the inputs are of the types that the code reads: the keys of a
specification have lists of texts, of one text where the Go structure has no list, a
collection has a certificate and its key stands at one of its places.
Where a theorem needs more than its module assumes, the hypothesis is in its statement:

| hypothesis | meaning | why |
|---|---|---|
| Exclusive | runs of the playbook do not overlap | two runs at a time write the same files and renew twice; ServicesStayCurrent does without it |
| Daily | no period passes during a run, and none without one | a certificate that was fresh at its check is due when the run ends, or expires while nobody runs vcert |
| `Window <= Validity` | renewBefore is no longer than the lifetime | with a longer window a certificate is due when it is issued |
| `ForceRenew \subseteq {FALSE}` | no run is forced | a forced run writes a torn file again and returns its task to the renewals, however late the other files of the task are by then |
| KnownImports | what is imported is a certificate that exists | numbers stand for certificates, and one issued later would be another one |
| `HasRefreshToken` | a playbook with a refresh token | without one there is no grant to keep |

Playbook and TppTokens:

* `TypeCorrect`: `Spec => []TypeOK`, one lemma per action. A process is at a file
  of an installation of a task, which is what the indexing in the other
  definitions needs.
* `FilesStayWhole`: `Exclusive => (Spec => []FilesUniform)`. FilesUniform is not
  inductive. `FilesInv` adds that one process is active, that it holds a
  certificate when it touches an installation, that the files before its current
  one already hold that certificate, and that the current one is as it truncated
  it. Then the write of the last file completes a uniform set.
* `ServicesStayCurrent`: `Spec => []ServiceCurrent` for overlapping runs. The
  invariant is inductive over TypeOK: each step that changes a file either leaves
  its process Pending for that installation or puts it on record.
* `EnrollsOnlyWhenNeeded`: `Spec => NoNeedlessEnroll`. `NeedInv` carries the reason from
  the check to the enrollment: a process that found a change holds it for an installation
  of its task that is missing or due, and since it is alone nobody has mended that.
* `SuccessLeavesFresh`: `Spec => SuccessMeansFresh`. `FreshInv`: without a failed task every
  installation before the position of the run is fresh, those that the check has seen are
  fresh unless it found a change, and the enrolled certificate is of this period.
* `CopiesStayUsable`: `Spec => []OneCopyIsUsable`. `CopiesInv` says, for each position within
  backup and installation, which files and which copies are whole, and that after a fault
  struck between them at least one of the two sets still is.
* `RenewedBeforeExpiry`: `Spec => []NoExpiry`. A certificate that is n periods inside its
  window has met n runs, and each failed to renew it. `ExpiryInv` charges each of them to
  a fault of its own, or finds a torn certificate file in the task.
* `RenewsOncePerCycle`: `Spec => []RenewalRate`. The clock is cut into cycles of
  `Validity - Window + 1` periods. A task is settled when each of its certificates is of
  this cycle or about to be written; `RateInv` bounds what was issued by
  one + faults + (tasks times finished cycles) + settled tasks. An enrollment settles its
  task, a settled task is not enrolled again, only a fault unsettles one.
* `GrantStaysKept`, `RotationsAreNeeded`: both properties are about playbooks without
  p12Task, since with one a process replaces a pair that is still good. `GrantInv` says that at most one
  process holds an unsaved pair, that this pair has the only live refresh token,
  and that a process whose refresh token is still live read what is in the file
  now (`CredsCurrent`). So a stale process can neither rotate nor overwrite.

Retrieval and Enrollment:

* `WaitKeepsPromise`: `Spec => KeepsPromise`, the refinement of RetrievalPromise by
  Retrieval, for both platforms, any set of calls and any limits, sleeps and
  latency. The invariant `Inv` bounds the time of the last request in each
  phase (`Dues`), says what a negative answer still means when it is acted on
  (`Knowledge`: the certificate was not there when the request was sent), and
  who may sleep (`Shape`). `WithinDeadline` turns Dues into the abstract guard
  of Tick, `TimeoutAllowed` turns Knowledge into the abstract guard of a timeout,
  and `Simulation` maps every step to a step of the promise or a stutter.
* `CommandsWellTyped`, `PairsAreOwn`: `Spec => []TypeOK` and `Spec => []OwnPair` for
  Enrollment, one lemma per action. OwnPair is inductive over TypeOK: a command
  starts to write in Post, in Retrieve with a key of the platform or after
  CheckCertificate, and each leaves it with one number or with one half only.
* `FilesArePaired`: `Spec => PairAfterSuccess`, with the preconditions of section 3. Its invariant follows the two files through
  `Flush`: what is written already is what the command holds, the errors are collected,
  and a pickup by file finds the request whose key is on disk unless that name is `loose`.

TppObjects:

* `DevicesKeepTheirCertificate`: `Spec => []DevicesStayServed` for TppObjects. The
  invariant adds the types, what the position of a caller says of its call
  (`Placed`: who dissociates has Replace) and that an object that does not exist
  has served nobody. A caller that dissociates puts its device into `UnderWay`, and leaves
  `UnderWay` by the request that associates the device again, or by an error that
  puts it on record; no other step takes a device away.
* `CallsActOnTheirObject`, `MarkedOrReported`: what a caller has read (`SawInstance`,
  `SawObject`, `Marked`) holds as long as it is `quiet`. A step of another caller either
  ends that or leaves the objects (`OtherStep`), so only the caller's own steps are
  left. A request that succeeds has met no error after its certificate was requested, an
  import that succeeds may have.
* `RenewalsKeepSans`: `Spec => RenewalKeepsSans`. The invariant is that an object without
  SANs whose certificate has some belongs to a renewal that omits them, under way
  or failed.
* `ListsAreWhole`: `Spec => []ListIsWhole`, for every size of a page, every limit and any number of
  objects. `View`, what a list shows, is stated by rank: its n-th entry is the shown position
  with n shown positions up to it, which exists by counting (`NthIsMember`). So
  no induction over a sequence is needed. `ListInv` says that a caller between two pages
  has the first part of the view; `PageExtends` that a page appends what comes next and
  that a short page ends the list with all of it.
* `ObjectsWellTyped`: `Spec => []TypeOK`. The order of the server has every object once (`Listing`,
  which an insertion keeps), so its length is the number of objects.

Policies:

* `FolderWellTyped`, `SuccessIsExact` for TppPolicy: at each moment the attributes that the setter
  has written have its values, the attributes it has cleared and not yet written
  are absent, and the rest is still to come. The hypothesis `OrdersCover` says that the list of what
  is cleared has every attribute and the list of what is written has those of the
  specification.
* `ReplacedOnSuccess`: `SpecBoth => []ExactOnSuccess` for the composition MCPolicies: SuccessIsExact
  is cited through INSTANCE, and what PolicySpec computes from the code satisfies OrdersCover.
  `PoliciesWellTyped` is the type invariant of the composition.
* `SuccessIsApplied`, `AloneLosesNothing` for CloudPolicy: the copy of a setter that is
  alone is the application, with the links and owners the setter adds.

Inputs, from InputsAssumption (the form of the inputs) only. The variable holds one call
at a time; the invariant `Sound` says what the input of each algorithm is like, and the rest
of each proof is about what the algorithm computes for every such input:

* `CheckedBelongs`: CheckedIsOwn. The certificate that a collection takes out of a file is its
  first or its last one (`TakenCertificate`), whatever the length of the file; then by the cases of the key types.
* `PoliciesAgree`: EvaluatedAlike, from the local check to the one for keys of the service and not back. Both evaluations ask the same of each field; the key check
  is a disjunction over the configurations, of which one type is configured once.
* `AllowedStaysAllowed`: CheckedStaysAllowed. The zone sets only what the request leaves
  empty, and only to what its own policy admits (`ZoneFits`); what the request had
  passes as before. Both platforms share the argument and differ in the zone.
* `SuggestedPasses`: SuggestedIsAllowed, the same for a request that says nothing, where the zone
  sets everything; what does not pass are the exceptions that the property names.
* `OnePlatform`, `CredentialsAreThere`, `PasswordsAreFound`. A command is followed
  through the steps of the program, each with an exact lemma of what it leaves: the
  flags after the environment and the passwords (Prepared), the passwords it was able to
  read (Opened), the request (Carried), the connection. The platform is guessed twice,
  for the check and for the connection, from the same flags. Which password a
  connector gets is a matter of what was typed, set or read, in this order.
* `MaterialStaysWhole`: MaterialIsWhole. The certificates of a collection are `Selected` at the
  places with their label, in either order of the chain, and the key is the input from the last
  place with a key on (`WholeCollection`).
* `NamesStay`: NamesAreKept. A request for the names of a certificate has its SANs as
  one list, the types one after the other; what `NamesOf` selects of one type are
  consecutive places of it, so they are the names of that type again, in any number. A
  search answers with one of the fitting candidates, none of which is newer, and with an
  error only if there is none (`NewestFound`).
* `SpecificationApplies`: SpecificationIsApplied. What BuildTppPolicy writes is followed attribute by attribute
  (a default of a section only where the policy does not enforce a value), and getIdentity
  answers with the user of exactly the name, or with nobody: it finds him if he is one of the first
  two identities that begin with it (`UserFound`).
* `PrintedIsApplied`: RoundTrip. `IsSpecification` is the type of what setpolicy reads.
  What getpolicy prints is computed key by key, once for each platform, and so is the
  folder or template that is made of that. Domains are written as an expression and read
  back; a list of regular expressions is equal to another when its texts are, by
  position. For the cloud the theorem has both directions: a template comes back changed
  exactly when it is `Inexpressible`.

There is no induction over data in these proofs, and none is needed: lists are chosen by
sets of places and compared by rank (`Nth`), and where the places are counted up from the
first the argument takes the least place at which the claim fails (`LeastNumber`, from
the well-foundedness of the naturals).

Model-checked only, on the instances of the runs, is the liveness: TaskIsolation,
P12Recovers, PickupCompletes. The prover has no ENABLED, so fairness is out of its reach.

## 5. Plan

Done: Playbook and TppTokens; Retrieval and the promise it implements; Enrollment;
the objects of a TPP server; setpolicy on both platforms; the algorithms of
`pkg/policy`, `pkg/endpoint`, `pkg/certificate` and the options of the command line.

Left, in this order:

1. Proofs: what is left of GrantKept and RotationIsNeeded with a p12Task; an
   abstract file set (whole, being replaced, restorable) that Playbook implements, of which
   FilesUniform and OneCopyIsUsable are the two halves.
2. Composition of Playbook and TppTokens: the p12Task that renews the certificate
   it authenticates with; an administrator's edit that is overwritten.
3. An abstract promise for the output files of the commands, and the cloud
   pickup by file without password as a violation of its own.
4. Cloud: headless registration, provisioning over a websocket. Firefly: device flow.

## 6. Not modelled

`PROJECT.json` gives the reason per component. In short:

| part | why |
|---|---|
| SSH certificates | the polling loop of Retrieval once more, without a key of the platform and without renewal |
| provisioning, headless registration | their state is on the platform; planned |
| device flow of Firefly | planned |
| fake connector | a test double without state of its own |
| generated API clients | generated; the connectors' use of them is modelled |
| Windows certificate store | PowerShell that the installer delegates to |
| bytes of encodings (PEM, DER, PKCS#12, JKS, JSON, YAML) | libraries; labels, forms and what a conversion drops are modelled in Certificates and PolicySpec |
| logging, usage texts | no property is about them |

While the algorithms were translated some behaviours came up that are in the
models as the code has them, and in the preconditions of the properties; a
reader who changes the code should know of them:

* TPP: a request with `--replace-instance` whose `--tls-address` has no port
  dissociates the device and then fails; a renewal with OmitSANs cleans the object before it renews;
  custom fields that the server does not know are dropped without a message; a request whose custom
  fields cannot be set fails after its certificate was requested, and the commands do not
  show the id that comes with the error.
* Policies: the starter specification does not pass its own validation; for servers from
  25 on a key algorithm without a size or a curve is not written to the folder; getpolicy
  and setpolicy on the cloud do not round-trip a prohibition of DNS names, IP
  constraints, a URI protocol that is listed twice and `.*` domains; a key type that is recommended may lie outside the
  allowed ones; the contacts of a TPP folder are resolved after it was cleared;
  the status of writing the cloud application is not looked at.
* Requests: the zero value of a request's key type is RSA, so the zone's type is
  never applied; a locked key algorithm that nobody knows ends the program, as does a template with
  such a key type; a request for which the platform generates the key has no size and does not pass
  a zone that restricts sizes; a prohibition of DNS names on TPP has no effect when domains are listed.
* Certificates: CheckCertificate compares one coordinate of an ECDSA key and not the
  exponent of an RSA key, and nothing of an Ed25519 key without the key itself; the listener
  loses every key but an RSA key; a renewal request drops extended key usages.
* Command line: a platform taken from the environment is never used; checkcred and
  voidcred dereference nil when the configuration file is for Firefly.
