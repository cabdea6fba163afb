------------------------------ MODULE TppObjects ------------------------------
(***************************************************************************)
(* The certificate objects of a TPP server and the operations of the TPP   *)
(* connector on them: each is a sequence of exchanges, nothing undoes the  *)
(* first ones when a later one fails, and other callers act in between.    *)
(* An exchange that changes the server may be lost on its way back.        *)
(*                                                                         *)
(* A certificate is its number, which is also its thumbprint.  It is       *)
(* issued at once: waiting for it is Retrieval's subject.                  *)
(***************************************************************************)
EXTENDS Lists

CONSTANTS
  Caller,     \* processes that use a connector
  DN,         \* names of certificate objects
  Device,     \* applications a certificate may be associated with
  None,       \* no device
  Calls,      \* the calls that are made, with their arguments
  First,      \* the objects that exist at the beginning, in the order they are listed
  BatchSize,  \* certificates on a page (500 in the code)
  MaxCalls,   \* bound: calls
  MaxFaults   \* bound: failed exchanges

(* Values of a custom field the server knows; any other value belongs to a *)
(* field it does not know.  The origin is an attribute of its own.         *)
Known == {"v1", "v2"}
Value == Known \cup {"unknown"}
Mark == Value \cup {"origin"}

(* The arguments of a call.  A request is valid when prepareRequest can    *)
(* make one of its arguments: the issuer hint is known, the contacts are   *)
(* found, the TLS address is host:port.  Renewal and retirement name an    *)
(* object or a thumbprint (0: no thumbprint).                              *)
Call ==
  [op : {"request"}, dn : DN, dev : Device \cup {None}, replace : BOOLEAN, want : SUBSET Value,
   valid : BOOLEAN]
  \cup [op : {"renew"}, dn : DN \cup {None}, serial : Nat, own : BOOLEAN, omit : BOOLEAN]
  \cup [op : {"retire"}, dn : DN \cup {None}, serial : Nat]
  \cup [op : {"revoke"}, dn : DN, disable : BOOLEAN]
  \cup [op : {"import"}, dn : DN, serial : Nat \ {0}]
  \cup [op : {"list"}, dn : {None}, limit : Nat, withExpired : BOOLEAN]

ASSUME TppObjectsAssumption ==
  /\ None \notin DN /\ None \notin Device
  /\ \A c \in Calls : c \in Call
  /\ First \in Seq(DN) /\ \A i, j \in DOMAIN First : First[i] = First[j] => i = j
  /\ BatchSize \in Nat \ {0} /\ MaxCalls \in Nat /\ MaxFaults \in Nat

VARIABLES
  obj,       \* the objects: current certificate (0: there is none) and attributes
  order,     \* the existing objects as the server lists them
  expired,   \* objects whose certificate has expired
  withSans,  \* the certificates that have SANs
  issued,    \* number of certificates
  legacy,    \* the server ignores the custom fields of a request
  pc, req, target, got, logged,   \* a caller: position, arguments, object, page, error log
  quiet,     \* history: nobody else has changed the server since the call began
  had,       \* history: the device was associated when the call began
  served,    \* history: devices an object has been associated with
  loose,     \* history: what calls that failed have left half done
  calls, faults

server == <<obj, order, expired, withSans, issued>>
caller == <<pc, req, target, got, logged>>
vars == <<server, legacy, caller, quiet, had, served, loose, calls, faults>>

Idle == {"idle", "done", "failed"}
PC == Idle \cup {"guid", "details", "dissociate", "post", "metadata", "items", "set",
                 "search", "object", "put", "renew", "revoke", "import", "page"}
Exists(d) == obj[d].cert # 0
Holders(serial) == {d \in DN : obj[d].cert = serial}

TypeOK ==
  /\ obj \in [DN -> [cert : 0..issued, sans : BOOLEAN, on : BOOLEAN,
                     uses : SUBSET Device, marks : SUBSET Mark]]
  /\ order \in Seq(DN) /\ {order[k] : k \in DOMAIN order} = {d \in DN : Exists(d)}
  /\ Len(order) = Cardinality({d \in DN : Exists(d)})
  /\ expired \subseteq {d \in DN : Exists(d)}
  /\ withSans \subseteq 1..issued
  /\ pc \in [Caller -> PC]
  /\ \A p \in Caller : /\ pc[p] = "idle" \/ req[p] \in Calls
                       /\ target[p] \in DN \/ pc[p] \in Idle \cup {"search", "page"}
  /\ got \in [Caller -> Seq(DN)]
  /\ logged \in [Caller -> BOOLEAN] /\ quiet \in [Caller -> BOOLEAN]

Absent == [cert |-> 0, sans |-> FALSE, on |-> FALSE, uses |-> {}, marks |-> {}]
Position(d) == CHOOSE k \in DOMAIN First : First[k] = d
Init ==
  /\ obj = [d \in DN |-> IF d \in {First[k] : k \in DOMAIN First}
                         THEN [cert |-> Position(d), sans |-> TRUE, on |-> TRUE,
                               uses |-> {}, marks |-> {"origin"}]
                         ELSE Absent]
  /\ order = First /\ expired = {} /\ withSans = 1..Len(First) /\ issued = Len(First)
  /\ legacy \in BOOLEAN
  /\ pc = [p \in Caller |-> "idle"] /\ req = [p \in Caller |-> None]
  /\ target = [p \in Caller |-> None] /\ got = [p \in Caller |-> <<>>]
  /\ logged = [p \in Caller |-> FALSE] /\ quiet = [p \in Caller |-> TRUE]
  /\ had = [p \in Caller |-> FALSE]
  /\ served = [d \in DN |-> {}] /\ loose = {}
  /\ calls = 0 /\ faults = 0

-----------------------------------------------------------------------------
(* Control of a call.                                                      *)
Goto(p, l) == pc' = [pc EXCEPT ![p] = l]
At(p, l) == pc[p] = l
Omits(p) == req[p].op = "renew" /\ req[p].omit
Replaces(p) == req[p].op = "request" /\ req[p].dev # None /\ req[p].replace

(* Mutant of Cleans: every renewal cleans the SANs.                        *)
CleansAlways(c) == c.op = "renew"
(* RenewCertificate cleans the SANs of the object for OmitSANs only.       *)
Cleans(c) == c.op = "renew" /\ c.omit
Found(c) == IF c.op = "renew" /\ ~Cleans(c) THEN "renew" ELSE "object"
(* Mutant of Identified: a call that names nothing goes on.                *)
IdentifiedAlways(c) == IF c.dn = None /\ c.serial # 0 THEN "search" ELSE Found(c)
(* A thumbprint is looked up when there is no name; one of them is needed. *)
Identified(c) ==
  CASE c.dn # None   -> Found(c)
    [] c.dn = None /\ c.serial # 0 -> "search"
    [] OTHER         -> "failed"
FirstStep(c) ==
  CASE c.op = "request" -> IF c.dev = None THEN "post" ELSE "guid"
    [] c.op \in {"renew", "retire"} -> Identified(c)
    [] c.op = "list" -> "page"
    [] OTHER -> c.op        \* revoke, import: one exchange decides

(* What is left half done by a call that fails here.                       *)
Left(p) ==
  CASE Replaces(p) /\ pc[p] \in {"dissociate", "post"} -> {<<target[p], req[p].dev>>}
    [] Omits(p) /\ pc[p] \in {"put", "renew"} -> {<<target[p], "sans">>}
    [] OTHER -> {}
(* ImportCertificate logs an error of putCertificateInfo and succeeds all  *)
(* the same.  RequestCertificate logs its errors too, but its bare returns *)
(* hand them to the caller: the call fails, and the certificate exists.    *)
OnlyLogged(p) == req[p].op = "import" /\ pc[p] \in {"object", "put"}
Error(p) ==
  IF OnlyLogged(p)
  THEN Goto(p, "done") /\ logged' = [logged EXCEPT ![p] = TRUE] /\ UNCHANGED loose
  ELSE Goto(p, "failed") /\ loose' = loose \cup Left(p) /\ UNCHANGED logged
Then(p, l) == Goto(p, l) /\ UNCHANGED <<loose, logged, faults>>
Fault(p) == faults < MaxFaults /\ faults' = faults + 1 /\ Error(p)

(* A step that changes the server: its answer arrives, or is lost.         *)
Answered(p, l) ==
  /\ Then(p, l) \/ Fault(p)
  /\ quiet' = [q \in Caller |-> q = p /\ quiet[q]]
  /\ UNCHANGED <<legacy, req, target, got, had, calls>>
(* A step that only reads.                                                 *)
Reads == UNCHANGED <<server, legacy, req, quiet, had, served, calls>>

Start(p, c) ==
  /\ pc[p] \in Idle /\ calls < MaxCalls
  /\ calls' = calls + 1
  /\ req' = [req EXCEPT ![p] = c]
  /\ target' = [target EXCEPT ![p] = c.dn]
  /\ got' = [got EXCEPT ![p] = <<>>]
  /\ logged' = [logged EXCEPT ![p] = FALSE]
  /\ quiet' = [quiet EXCEPT ![p] = TRUE]
  /\ had' = [had EXCEPT ![p] = c.op = "request" /\ c.dev \in obj[c.dn].uses]
  /\ Goto(p, FirstStep(c))
  /\ UNCHANGED <<server, legacy, served, loose, faults>>

Fail(p) ==
  /\ pc[p] \notin Idle
  /\ Fault(p)
  /\ UNCHANGED <<target, got>> /\ Reads

-----------------------------------------------------------------------------
(* RequestCertificate: the location, the request, the custom fields.       *)
Guid(p) ==
  /\ At(p, "guid")
  /\ Then(p, IF Exists(target[p]) THEN "details" ELSE "post")
  /\ UNCHANGED <<target, got>> /\ Reads

(* The instance of the request is already associated with this certificate.*)
Taken(p) == req[p].dev \in obj[target[p]].uses
Compared(p) == IF Taken(p) THEN (IF req[p].replace THEN "dissociate" ELSE "failed") ELSE "post"
Details(p) ==
  /\ At(p, "details")
  /\ Then(p, Compared(p))
  /\ UNCHANGED <<target, got>> /\ Reads

(* Mutant of Dissociated: the request names all consumers.                 *)
DissociatedAll(uses, dev) == {}
Dissociated(uses, dev) == uses \ {dev}
Dissociate(p) ==
  /\ At(p, "dissociate")
  /\ obj' = [obj EXCEPT ![target[p]].uses = Dissociated(@, req[p].dev)]
  /\ Answered(p, "post")
  /\ UNCHANGED <<order, expired, withSans, issued, served>>

(* The server issues a certificate for an object, which then has the SANs  *)
(* of the certificate.                                                     *)
Issue(d, sans, on, uses, marks) ==
  /\ issued' = issued + 1
  /\ withSans' = IF sans THEN withSans \cup {issued + 1} ELSE withSans
  /\ obj' = [obj EXCEPT ![d] = [cert |-> issued + 1, sans |-> sans, on |-> on,
                                uses |-> uses, marks |-> marks]]
  /\ expired' = expired \ {d}
(* A new object appears somewhere in the list.                             *)
Listed(d) ==
  IF Exists(d) THEN order' = order
  ELSE \E k \in 0..Len(order) :
         order' = SubSeq(order, 1, k) \o <<d>> \o SubSeq(order, k + 1, Len(order))

(* prepareRequest and the request, which enables a disabled object again.  *)
(* A server that is not legacy sets the custom fields to the request's.    *)
Post(p) ==
  LET d == target[p]  uses == obj[d].uses \cup ({req[p].dev} \ {None})
      fields == IF legacy \/ req[p].want = {} THEN obj[d].marks ELSE req[p].want
  IN  /\ At(p, "post") /\ req[p].valid
      /\ ~legacy => req[p].want \subseteq Known
      /\ Issue(d, TRUE, TRUE, uses, fields \cup {"origin"})
      /\ Listed(d)
      /\ served' = [served EXCEPT ![d] = @ \cup uses]
      /\ Answered(p, IF req[p].want = {} THEN "done" ELSE "metadata")

(* Mutant of AllItemsFound: the names are compared, not the values.        *)
AllItemsFoundByName(want, marks) == want \cap Known = {} \/ marks \cap Known # {}
AllItemsFound(want, marks) == want \subseteq marks
Metadata(p) ==
  /\ At(p, "metadata")
  /\ Then(p, IF AllItemsFound(req[p].want, obj[target[p]].marks) THEN "done" ELSE "items")
  /\ UNCHANGED <<target, got>> /\ Reads

(* The identifiers of the fields: those the server does not know are left  *)
(* out, and if none remains nothing is sent.                               *)
Items(p) ==
  /\ At(p, "items")
  /\ Then(p, IF req[p].want \cap Known = {} THEN "done" ELSE "set")
  /\ UNCHANGED <<target, got>> /\ Reads

(* KeepExisting: values are added.                                         *)
SetMetadata(p) ==
  /\ At(p, "set")
  /\ obj' = [obj EXCEPT ![target[p]].marks = @ \cup (req[p].want \cap Known)]
  /\ Answered(p, "done")
  /\ UNCHANGED <<order, expired, withSans, issued, served>>

-----------------------------------------------------------------------------
(* RenewCertificate, RetireCertificate, ImportCertificate.                 *)

(* Mutant of Single: the first of several results is taken.                *)
SingleOrFirst(found) == found # {}
Single(found) == \E d \in found : found = {d}
Search(p) ==
  LET found == Holders(req[p].serial)
  IN  /\ At(p, "search")
      /\ IF Single(found)
         THEN \E d \in found : target' = [target EXCEPT ![p] = d] /\ Then(p, Found(req[p]))
         ELSE Then(p, "failed") /\ UNCHANGED target
      /\ UNCHANGED got /\ Reads

(* putCertificateInfo: the identifier of the object, then its attributes.  *)
ObjectGuid(p) ==
  /\ At(p, "object")
  /\ Then(p, "put")
  /\ UNCHANGED <<target, got>> /\ Reads
(* The attributes that are put.                                            *)
Changed(o, c) ==
  CASE c.op = "renew"  -> [o EXCEPT !.sans = FALSE]
    [] c.op = "retire" -> [o EXCEPT !.on = FALSE]
    [] OTHER           -> [o EXCEPT !.marks = @ \cup {"origin"}]
Put(p) ==
  /\ At(p, "put") /\ Exists(target[p])
  /\ obj' = [obj EXCEPT ![target[p]] = Changed(@, req[p])]
  /\ Answered(p, IF req[p].op = "renew" THEN "renew" ELSE "done")
  /\ UNCHANGED <<order, expired, withSans, issued, served>>

(* A renewal brings its own request, or the server makes one from the      *)
(* object.  It does not renew a disabled object.                           *)
Renew(p) ==
  LET d == target[p]
  IN  /\ At(p, "renew") /\ Exists(d) /\ obj[d].on
      /\ Issue(d, IF req[p].own THEN ~req[p].omit ELSE obj[d].sans,
               obj[d].on, obj[d].uses, obj[d].marks)
      /\ Answered(p, "done")
      /\ UNCHANGED <<order, served>>

(* A request that cannot be prepared, when its device is dissociated; and  *)
(* what the server refuses: attributes or a renewal of no object, the      *)
(* renewal of a disabled one, an import over an existing one, a field it   *)
(* does not know.                                                          *)
Refused(p) ==
  /\ \/ At(p, "put") /\ ~Exists(target[p])
     \/ At(p, "renew") /\ ~(Exists(target[p]) /\ obj[target[p]].on)
     \/ At(p, "import") /\ Exists(target[p])
     \/ At(p, "post") /\ ~req[p].valid
     \/ At(p, "post") /\ ~legacy /\ ~(req[p].want \subseteq Known)
  /\ Error(p)
  /\ UNCHANGED <<target, got, faults>> /\ Reads

Revoke(p) ==
  /\ At(p, "revoke")
  /\ obj' = [obj EXCEPT ![target[p]].on = @ /\ ~req[p].disable]
  /\ Answered(p, "done")
  /\ UNCHANGED <<order, expired, withSans, issued, served>>

Import(p) ==
  LET d == target[p]
  IN  /\ At(p, "import") /\ ~Exists(d)
      /\ obj' = [obj EXCEPT ![d] = [cert |-> req[p].serial, sans |-> req[p].serial \in withSans,
                                     on |-> TRUE, uses |-> {}, marks |-> {}]]
      /\ Listed(d)
      /\ Answered(p, "object")
      /\ UNCHANGED <<expired, withSans, issued, served>>

-----------------------------------------------------------------------------
(* ListCertificates: pages by offset, and the server looks anew for each.  *)
(* It shows the objects in their order, by their numbers.                  *)
View(c) ==
  Selected(order, {k \in DOMAIN order : c.withExpired \/ order[k] \notin expired})
(* Mutant of Batch: the last page is a whole one.                          *)
BatchWhole(c, offset) == BatchSize
Batch(c, offset) == IF c.limit - offset < BatchSize THEN c.limit - offset ELSE BatchSize
Upto(s, m, n) == SubSeq(s, m, IF n < Len(s) THEN n ELSE Len(s))
Page(p) ==
  LET c == req[p]  offset == Len(got[p])
      page == Upto(View(c), offset + 1, offset + Batch(c, offset))
  IN  /\ At(p, "page")
      /\ got' = [got EXCEPT ![p] = @ \o page]
      /\ Then(p, IF Len(page) < Batch(c, offset) \/ c.limit - offset <= BatchSize
                 THEN "done" ELSE "page")
      /\ UNCHANGED target /\ Reads

(* Time passes: a certificate expires.  It matters to a list only.         *)
Expire(d) ==
  /\ Exists(d) /\ d \notin expired
  /\ \E p \in Caller : At(p, "page")
  /\ expired' = expired \cup {d}
  /\ quiet' = [q \in Caller |-> quiet[q] /\ ~(pc[q] # "idle" /\ req[q].op = "list")]
  /\ UNCHANGED <<obj, order, withSans, issued, legacy, caller, had, served, loose, calls, faults>>

Step(p) ==
  \/ Guid(p) \/ Details(p) \/ Dissociate(p) \/ Post(p)
  \/ Metadata(p) \/ Items(p) \/ SetMetadata(p)
  \/ Search(p) \/ ObjectGuid(p) \/ Put(p) \/ Renew(p) \/ Refused(p)
  \/ Revoke(p) \/ Import(p) \/ Page(p)
Next ==
  \/ \E p \in Caller : Step(p) \/ Fail(p) \/ \E c \in Calls : Start(p, c)
  \/ \E d \in DN : Expire(d)
Spec == Init /\ [][Next]_vars

-----------------------------------------------------------------------------
(* connector.go:667-709 and 713-724.  A device that had a certificate      *)
(* keeps its association, however callers interleave, except while a       *)
(* request with Replace is between dissociation and request for exactly    *)
(* this device, or after one that failed there.                            *)
UnderWay == {<<target[p], req[p].dev>> : p \in {q \in Caller : At(q, "post") /\ Replaces(q)}}
DevicesStayServed ==
  \A d \in DN : \A dev \in served[d] \ obj[d].uses : <<d, dev>> \in loose \cup UnderWay

(* connector.go:696-706.  A request without --replace-instance for an      *)
(* instance the certificate already has does not get as far as the server, *)
(* unless another caller changes the object between the two.               *)
TakenInstanceIsRefused ==
  \A p \in Caller :
    (pc[p] \in {"post", "metadata", "items", "set", "done"} /\ had[p] /\ quiet[p])
      => req[p].replace

(* connector.go:1504-1559.  A renewal that was not asked to omit the SANs  *)
(* issues a certificate with SANs for one with SANs, unless a renewal that *)
(* omits them is under way for the object or has failed after cleaning it. *)
HalfOmitted(d) ==
  \/ <<d, "sans">> \in loose
  \/ \E p \in Caller : At(p, "renew") /\ Omits(p) /\ target[p] = d
RenewedWithSans(p) ==
  (At(p, "renew") /\ issued' = issued + 1 /\ pc'[p] # "renew")
    => LET d == target[p]
       IN  req[p].omit \/ HalfOmitted(d) \/ (obj[d].cert \in withSans => issued' \in withSans')
RenewalKeepsSans == [][\A p \in Caller : RenewedWithSans(p)]_vars

(* connector.go:1505-1519, 1591-1603.  A renewal or retirement by          *)
(* thumbprint acts on the one object that has the certificate, also when   *)
(* the same certificate was imported under several names; only another     *)
(* caller in between can give the object a new certificate.                *)
ThumbprintIsIdentity ==
  \A p \in Caller :
    (pc[p] \in {"object", "put", "renew"} /\ req[p].op \in {"renew", "retire"}
       /\ req[p].dn = None /\ quiet[p])
      => Holders(req[p].serial) = {target[p]}

(* connector.go:667-709, 1504-1559 and 1589-1612.  What a call has looked  *)
(* up still holds when it acts on it, as long as nobody else disturbs it.  *)
ActsOnItsObject == TakenInstanceIsRefused /\ ThumbprintIsIdentity

(* connector.go:1813-1852.  A list that nobody disturbs has each           *)
(* certificate once, in order, up to the limit.                            *)
ListIsWhole ==
  \A p \in Caller :
    (At(p, "done") /\ req[p].op = "list" /\ quiet[p])
      => got[p] = Upto(View(req[p]), 1, req[p].limit)

(* connector.go:738-792 and 1712-1722.  A request that succeeds has set    *)
(* the origin and the custom fields the server knows: an error on the way  *)
(* to them fails the call.  An import that succeeds has set the origin, or *)
(* has logged why not.  Unless another caller changed the object since.    *)
MarkedOrLogged ==
  \A p \in Caller :
    (At(p, "done") /\ quiet[p])
      => /\ req[p].op = "request" =>
              (req[p].want \cap Known) \cup {"origin"} \subseteq obj[target[p]].marks
         /\ req[p].op = "import" => logged[p] \/ "origin" \in obj[target[p]].marks
=============================================================================
