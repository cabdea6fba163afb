----------------------------- MODULE Enrollment -----------------------------
(***************************************************************************)
(* The life of a certificate request across the commands enroll, pickup    *)
(* and renew, which share the files they write: certificate, private key   *)
(* and pickup id.                                                          *)
(*                                                                         *)
(* Request n, its key pair and its certificate share the number n, so that *)
(* a certificate and a key match when they are equal.  A pickup id is the  *)
(* number of a request; on TPP it is the name of the certificate object,   *)
(* which stands for the object's latest request.                           *)
(***************************************************************************)
EXTENDS Integers, Sequences

CONSTANTS
  Run,          \* processes that may run vcert
  Platforms,    \* the platforms the commands are used with
  MaxRequests,  \* bound: requests posted
  MaxFaults,    \* bound: failed calls and stops
  Absent,       \* no file
  Torn          \* a file that is empty or cut off

ASSUME EnrollmentAssumption ==
  /\ Platforms \subseteq {"tpp", "cloud", "firefly"}
  /\ MaxRequests \in Nat /\ MaxFaults \in Nat
  /\ Absent # Torn /\ Absent \notin Nat /\ Torn \notin Nat

VARIABLES
  platform,     \* the platform in use
  requests,     \* the requests the platform accepted
  file,         \* the output files
  run,          \* the processes
  overlap,      \* history: two commands have run at the same time
  loose,        \* history: a command posted a request, or began to write,
                \* and did not succeed; no enroll or renew succeeded since
  exit,         \* how the last command ended
  faults        \* failed calls and stops so far

vars == <<platform, requests, file, run, overlap, loose, exit, faults>>

Csr == {"local", "service"}

(* The files in the order in which Flush writes them; the chain, which     *)
(* comes with the certificate, counts as a part of it.                     *)
Slots == <<"cert", "key", "id">>

Slot == {"cert", "key", "id"}

(* root is the first request of a certificate that was renewed.            *)
Request == [csr : Csr, status : {"pending", "issued", "rejected"}, root : Nat]

(* id is the pickup id; cert and key are the collection to be written, 0   *)
(* for nothing; bad is a failed write; auto is a pickup without password.  *)
RunState ==
  [pc : {"idle", "old", "current", "post", "retrieve", "write"},
   cmd : {"enroll", "pickup", "renew"}, csr : Csr, noPickup : BOOLEAN, auto : BOOLEAN,
   fetch : BOOLEAN, id : Nat, cert : Nat, key : Nat, slot : 1 .. 3, bad : BOOLEAN]

(* r names requests among the first n, and one where it needs one.         *)
Fits(r, n) ==
  /\ {r.id, r.cert, r.key} \subseteq 0 .. n
  /\ r.pc \in {"old", "current", "retrieve"} \/ (r.pc = "post" /\ r.cmd = "renew") => r.id # 0

TypeOK ==
  /\ platform \in {"tpp", "cloud", "firefly"}
  /\ requests \in Seq(Request)
  /\ file \in [Slot -> Nat \cup {Absent, Torn}]
  /\ run \in [Run -> RunState]
  /\ overlap \in BOOLEAN /\ loose \in BOOLEAN /\ faults \in Nat
  /\ exit \in {"none", "ok", "error", "timeout"}
  /\ \A s \in Slot : file[s] \in Nat => file[s] \in 1 .. Len(requests)
  /\ \A p \in Run : Fits(run[p], Len(requests))

-----------------------------------------------------------------------------
Active(p) == run[p].pc # "idle"

AtRest == \A p \in Run : ~Active(p)

(* The request an id stands for.                                           *)
Named(id) == IF platform = "tpp" THEN Len(requests) ELSE id

Issued(n) == requests[n].status = "issued"

(* The cloud's inventory: n is the latest request of its certificate.      *)
Latest(n) ==
  \A m \in 1 .. Len(requests) : requests[m].root = requests[n].root /\ Issued(m) => m <= n

(* A command with nothing to be written yet.                               *)
Command(pc, cmd, csr, noPickup, auto, fetch, id) ==
  [pc |-> pc, cmd |-> cmd, csr |-> csr, noPickup |-> noPickup, auto |-> auto,
   fetch |-> fetch, id |-> id, cert |-> 0, key |-> 0, slot |-> 1, bad |-> FALSE]

Idle == Command("idle", "enroll", "local", FALSE, FALSE, FALSE, 0)

Fault == faults < MaxFaults /\ faults' = faults + 1

(* Something of this command stays behind when it ends now.                *)
Touched(r) == r.pc = "write" \/ (r.pc = "retrieve" /\ r.cmd # "pickup")

(* Process p goes on in state r, or ends.                                  *)
Go(p, r) == run' = [run EXCEPT ![p] = r] /\ UNCHANGED <<loose, exit>>

Quit(p, o) ==
  /\ run' = [run EXCEPT ![p] = Idle]
  /\ exit' = o
  /\ loose' = IF o = "ok" THEN loose /\ run[p].cmd = "pickup" ELSE loose \/ Touched(run[p])

(* The collection to be written.                                           *)
Collect(r, cert, key) == [r EXCEPT !.pc = "write", !.cert = cert, !.key = key, !.slot = 1]

(* What Flush writes to a file: the pickup id for enroll and renew only.   *)
Content(r, s) ==
  CASE s = "key" -> r.key
    [] s = "id"  -> IF r.cmd = "pickup" THEN 0 ELSE r.id
    [] OTHER     -> r.cert

(* Mutant of Errors: an error is overwritten by the next result.           *)
ErrorsOverwritten(r, failed) == failed

(* Flush collects the errors and goes on.                                  *)
Errors(r, failed) == r.bad \/ failed

(* Mutant of After: the index of the last file.                            *)
AfterOffByOne(p, bad) ==
  IF run[p].slot <= 3 THEN Go(p, [run[p] EXCEPT !.slot = @ + 1, !.bad = bad])
  ELSE Quit(p, IF bad THEN "error" ELSE "ok")

(* The next file, or the exit code.                                        *)
After(p, bad) ==
  IF run[p].slot < 3 THEN Go(p, [run[p] EXCEPT !.slot = @ + 1, !.bad = bad])
  ELSE Quit(p, IF bad THEN "error" ELSE "ok")

(* Mutant of NoKey: the error ends every command.                          *)
NoKeyStops(p) == Quit(p, "error")

(* The platform has no key for this request.  A pickup that asked for it   *)
(* with a password of its own making asks again without.                   *)
NoKey(p) ==
  IF run[p].cmd = "pickup" /\ run[p].auto THEN Go(p, [run[p] EXCEPT !.fetch = FALSE])
  ELSE Quit(p, "error")

(* Mutant of Checked: the certificate is not compared with the key.        *)
Unchecked(p, n) == Go(p, Collect(run[p], n, run[p].key))

(* CheckCertificate compares the certificate with the private key, if the  *)
(* command has one.                                                        *)
Checked(p, n) ==
  IF run[p].key \in {0, n} THEN Go(p, Collect(run[p], n, run[p].key)) ELSE Quit(p, "error")

-----------------------------------------------------------------------------
Init ==
  /\ platform \in Platforms
  /\ requests = << >>
  /\ file = [s \in Slot |-> Absent]
  /\ run = [p \in Run |-> Idle]
  /\ overlap = FALSE /\ loose = FALSE /\ exit = "none" /\ faults = 0

(* A command starts, as r.                                                 *)
Begin(p, r) ==
  /\ ~Active(p)
  /\ run' = [run EXCEPT ![p] = r]
  /\ overlap' = (overlap \/ \E q \in Run \ {p} : Active(q))
  /\ exit' = "none"
  /\ UNCHANGED <<platform, requests, file, loose, faults>>

(* enroll, up to the request.  Firefly generates the key itself.           *)
StartEnroll(p) ==
  /\ Len(requests) < MaxRequests
  /\ \E csr \in Csr, noPickup \in BOOLEAN :
       /\ platform = "firefly" => csr = "service" /\ ~noPickup
       /\ Begin(p, Command("post", "enroll", csr, noPickup, FALSE, csr = "service", 0))

(* renew --id file: reads the id and fetches the old certificate.          *)
StartRenew(p) ==
  /\ platform # "firefly" /\ file["id"] \in Nat /\ Len(requests) < MaxRequests
  /\ \E csr \in Csr, noPickup \in BOOLEAN :
       Begin(p, Command("old", "renew", csr, noPickup, FALSE, csr = "service", file["id"]))

(* pickup --pickup-id-file: with a password it asks for the key.  Without  *)
(* (auto) it makes one up, on TPP; on the cloud the test whether the       *)
(* platform generated the key comes before the id is read, and is always   *)
(* negative.                                                               *)
StartPickup(p, auto) ==
  /\ platform # "firefly" /\ file["id"] \in Nat
  /\ Begin(p, Command("retrieve", "pickup", "local", FALSE, auto,
                      platform = "tpp" \/ ~auto, file["id"]))

(* renew fetches the old certificate, without waiting.                     *)
FetchOld(p) ==
  /\ run[p].pc = "old"
  /\ IF Issued(Named(run[p].id))
     THEN Go(p, [run[p] EXCEPT !.pc = IF platform = "cloud" THEN "current" ELSE "post"])
     ELSE Quit(p, "error")
  /\ UNCHANGED <<platform, requests, file, overlap, faults>>

(* On the cloud, renew looks whether the request is the latest one, and    *)
(* needs a CSR.                                                            *)
CheckLatest(p) ==
  /\ run[p].pc = "current"
  /\ IF Latest(run[p].id) /\ run[p].csr = "local" THEN Go(p, [run[p] EXCEPT !.pc = "post"])
     ELSE Quit(p, "error")
  /\ UNCHANGED <<platform, requests, file, overlap, faults>>

(* The platform accepts a request and gives it the next number.            *)
Accept(r) ==
  /\ Len(requests) < MaxRequests
  /\ requests' = Append(requests,
       [csr |-> r.csr,
        status |-> IF platform = "firefly" THEN "issued" ELSE "pending",
        root |-> IF r.cmd = "renew" THEN requests[Named(r.id)].root ELSE Len(requests) + 1])

(* The request is posted.  With --no-pickup the key is all there is to be  *)
(* written; Firefly answers with the certificate.                          *)
Post(p) ==
  LET r == run[p]
      n == Len(requests) + 1
      held == IF r.csr = "local" THEN n ELSE 0
  IN
  /\ r.pc = "post"
  /\ Accept(r)
  /\ Go(p, CASE platform = "firefly" -> Collect(r, n, n)
             [] platform # "firefly" /\ r.noPickup -> Collect([r EXCEPT !.id = n], 0, held)
             [] OTHER -> [r EXCEPT !.pc = "retrieve", !.id = n, !.key = held])
  /\ UNCHANGED <<platform, file, overlap, faults>>

(* The platform, or the connector before it, refuses the request.          *)
Refused(p) ==
  /\ run[p].pc = "post"
  /\ Quit(p, "error")
  /\ UNCHANGED <<platform, requests, file, overlap, faults>>

(* The request is accepted and the answer is lost.                         *)
PostLost(p) ==
  /\ run[p].pc = "post"
  /\ Accept(run[p])
  /\ run' = [run EXCEPT ![p] = Idle]
  /\ loose' = TRUE /\ exit' = "error"
  /\ Fault
  /\ UNCHANGED <<platform, file, overlap>>

(* The platform has decided about the request.                             *)
Retrieve(p) ==
  LET r == run[p]
      n == Named(r.id)
  IN
  /\ r.pc = "retrieve" /\ requests[n].status # "pending"
  /\ \/ requests[n].status = "rejected" /\ Quit(p, "error")
     \/ Issued(n) /\ r.fetch /\ requests[n].csr = "service" /\ Go(p, Collect(r, n, n))
     \/ Issued(n) /\ r.fetch /\ requests[n].csr = "local" /\ NoKey(p)
     \/ Issued(n) /\ ~r.fetch /\ Checked(p, n)
  /\ UNCHANGED <<platform, requests, file, overlap, faults>>

(* The platform takes longer than the command waits.                       *)
Timeout(p) ==
  /\ run[p].pc = "retrieve" /\ requests[Named(run[p].id)].status = "pending"
  /\ Quit(p, "timeout")
  /\ UNCHANGED <<platform, requests, file, overlap, faults>>

(* Flush: one file, if there is something to be written to it.             *)
Write(p) ==
  LET r == run[p]
      s == Slots[r.slot]
      c == Content(r, s)
  IN
  /\ r.pc = "write"
  /\ \/ /\ c = 0
        /\ After(p, r.bad)
        /\ UNCHANGED <<file, faults>>
     \/ /\ c # 0
        /\ file' = [file EXCEPT ![s] = c]
        /\ After(p, Errors(r, FALSE))
        /\ UNCHANGED faults
     \/ /\ c # 0
        /\ \E f \in {file[s], Torn, c} : file' = [file EXCEPT ![s] = f]
        /\ After(p, Errors(r, TRUE))
        /\ Fault
  /\ UNCHANGED <<platform, requests, overlap>>

(* A call to the platform fails, or the process is killed, perhaps in the  *)
(* middle of a write.                                                      *)
Stop(p) ==
  LET r == run[p] IN
  /\ Active(p)
  /\ \/ UNCHANGED file
     \/ /\ r.pc = "write" /\ Content(r, Slots[r.slot]) # 0
        /\ file' = [file EXCEPT ![Slots[r.slot]] = Torn]
  /\ Quit(p, "error")
  /\ Fault
  /\ UNCHANGED <<platform, requests, overlap>>

(* The platform issues or refuses a certificate; on TPP only the object's  *)
(* latest request is still worked on.                                      *)
Process ==
  /\ \E n \in 1 .. Len(requests), s \in {"issued", "rejected"} :
       /\ requests[n].status = "pending" /\ Named(n) = n
       /\ requests' = [requests EXCEPT ![n].status = s]
  /\ UNCHANGED <<platform, file, run, overlap, loose, exit, faults>>

(* The bound is reached.                                                   *)
Horizon == AtRest /\ Len(requests) = MaxRequests /\ UNCHANGED vars

Step(p) ==
  \/ FetchOld(p) \/ CheckLatest(p) \/ Post(p) \/ Refused(p) \/ Retrieve(p) \/ Timeout(p)
  \/ Write(p)

Next ==
  \/ \E p \in Run : \/ StartEnroll(p) \/ StartRenew(p)
                    \/ \E auto \in BOOLEAN : StartPickup(p, auto)
                    \/ Step(p) \/ PostLost(p) \/ Stop(p)
  \/ Process \/ Horizon

Spec == Init /\ [][Next]_vars

(* A started command is scheduled, a pickup without password is tried      *)
(* again and again, and the platform decides.  Nothing forces a fault.     *)
Fairness ==
  /\ \A p \in Run : WF_vars(Step(p)) /\ SF_vars(StartPickup(p, TRUE))
  /\ WF_vars(Process)

FairSpec == Spec /\ Fairness

-----------------------------------------------------------------------------
(* Properties.                                                             *)

(* A command that is about to write a certificate and a private key has a  *)
(* pair, although the id it waited for may stand for another command's     *)
(* request by now: TPP has one object per common name.                     *)
OwnPair ==
  \A p \in Run : run[p].pc = "write" /\ run[p].cert # 0 /\ run[p].key # 0 =>
                   run[p].cert = run[p].key

(* Exits(p, r): this step is the end of the command that is in state r.    *)
Exits(p) == Active(p) /\ run[p]'.pc = "idle"

(* After a command that wrote a certificate and exits with 0, certificate  *)
(* file and key file are a pair: also when the certificate is picked up    *)
(* for a key that an earlier command wrote, provided that no command was   *)
(* left half done in between.  For commands that do not overlap.  A key    *)
(* generated by the cloud is fetched only with a password.                 *)
PairAfterSuccess ==
  [][\A p \in Run :
       /\ Exits(p) /\ exit' = "ok" /\ run[p].cert # 0
       /\ ~overlap
       /\ run[p].cmd = "pickup" =>
            ~loose /\ (run[p].key = 0 => requests[run[p].cert].csr = "local")
       => file'["cert"] = file'["key"]]_vars

(* The certificate of a request whose id is on file is fetched in the end: *)
(* pickup gets it whatever it is asked for, whoever generated the key.     *)
PickupCompletes ==
  (AtRest /\ ~overlap /\ ~loose /\ file["id"] \in Nat /\ Issued(Named(file["id"])))
    ~> \/ overlap \/ loose
       \/ file["id"] \notin Nat
       \/ ~Issued(Named(file["id"]))
       \/ file["cert"] = Named(file["id"])

(* README-CLI-CLOUD.md and README-CLI-PLATFORM.md, of --pickup-id-file:    *)
(* the file contains the unique identifier "returned by the enroll or      *)
(* renew actions if --no-pickup was used or a timeout occurred".           *)
TimeoutKeepsId ==
  [][\A p \in Run : Exits(p) /\ run[p].cmd # "pickup" /\ exit' = "timeout" =>
                       file'["id"] = run[p].id]_vars
=============================================================================
