--------------------------- MODULE TppObjectsProofs ---------------------------
(***************************************************************************)
(* Proofs that the devices of a certificate object keep their association, *)
(* that a call acts on what it looked up, and that a list of pages is the  *)
(* whole list, for every number of callers, objects, devices and faults.   *)
(***************************************************************************)
EXTENDS TppObjects, FiniteSetTheorems, SequenceTheorems, TLAPS

Object == [cert : Nat, sans : BOOLEAN, on : BOOLEAN, uses : SUBSET Device, marks : SUBSET Mark]
(* The positions of RequestCertificate.                                    *)
Requesting == {"guid", "details", "dissociate", "post", "metadata", "items", "set"}

Typed ==
  /\ obj \in [DN -> Object]
  /\ issued \in Nat
  /\ pc \in [Caller -> PC]
  /\ req \in [Caller -> Calls \cup {None}]
  /\ target \in [Caller -> DN \cup {None}]
  /\ served \in [DN -> SUBSET Device]

(* What the position of a caller says of its call.                         *)
Placed(p) ==
  /\ pc[p] \in PC \ {"idle"} => req[p] \in Calls
  /\ pc[p] \in Requesting => req[p].op = "request"
  /\ pc[p] = "dissociate" => Replaces(p)
  /\ pc[p] = "import" => req[p].op = "import"
  /\ pc[p] \in Idle \cup {"search", "page"} \/ target[p] \in DN

(* An object that does not exist has not served a device.                  *)
NewIsUnserved == \A d \in DN : ~Exists(d) => served[d] = {} /\ obj[d].uses = {}

Inv ==
  /\ Typed
  /\ \A p \in Caller : Placed(p)
  /\ NewIsUnserved
  /\ DevicesStayServed

-----------------------------------------------------------------------------
(* The arguments of a call.                                                *)
LEMMA RequestFields ==
  ASSUME NEW c \in Calls, c.op = "request"
  PROVE  c.dn \in DN /\ c.dev \in Device \cup {None} /\ c.want \subseteq Value
BY TppObjectsAssumption DEF Call

LEMMA ImportFields ==
  ASSUME NEW c \in Calls, c.op = "import"
  PROVE  c.dn \in DN /\ c.serial \in Nat \ {0}
BY TppObjectsAssumption DEF Call

LEMMA NameOrNone ==
  ASSUME NEW c \in Calls
  PROVE  c.dn \in DN \cup {None}
BY TppObjectsAssumption DEF Call

LEMMA Operations ==
  ASSUME NEW c \in Calls
  PROVE  /\ c.op \in {"request", "renew", "retire", "revoke", "import", "list"}
         /\ c.op = "revoke" => c.dn \in DN
BY TppObjectsAssumption DEF Call

(* Where a call begins.                                                    *)
LEMMA Beginning ==
  ASSUME NEW c \in Calls
  PROVE  /\ FirstStep(c) \in PC \ {"idle", "dissociate"}
         /\ FirstStep(c) \in Requesting => c.op = "request"
         /\ FirstStep(c) = "import" => c.op = "import"
         /\ FirstStep(c) \in Idle \cup {"search", "page"} \/ c.dn \in DN
<1>1. CASE c.op = "request"
  BY <1>1, RequestFields DEF FirstStep, Requesting, PC, Idle
<1>2. CASE c.op \in {"renew", "retire"}
  <2>1. FirstStep(c) = Identified(c)
    BY <1>2 DEF FirstStep
  <2>2. CASE c.dn # None
    BY <2>1, <2>2, <1>2, NameOrNone DEF Identified, Found, Cleans, Requesting, PC, Idle
  <2>3. CASE c.dn = None
    BY <2>1, <2>3, <1>2 DEF Identified, Requesting, PC, Idle
  <2> QED BY <2>2, <2>3
<1>3. CASE c.op = "list"
  BY <1>3 DEF FirstStep, Requesting, PC, Idle
<1>4. CASE c.op = "revoke"
  BY <1>4, Operations DEF FirstStep, Requesting, PC, Idle
<1>5. CASE c.op = "import"
  BY <1>5, ImportFields DEF FirstStep, Requesting, PC, Idle
<1> QED BY <1>1, <1>2, <1>3, <1>4, <1>5, Operations

-----------------------------------------------------------------------------
(* What an error does: the call ends, and what it leaves is on record.     *)
LEMMA ErrorEnds ==
  ASSUME Typed, NEW p \in Caller, Error(p)
  PROVE  /\ pc' \in [Caller -> PC] /\ pc'[p] \in {"done", "failed"}
         /\ \A q \in Caller \ {p} : pc'[q] = pc[q]
         /\ loose \subseteq loose'
         /\ At(p, "dissociate") \/ At(p, "post") => loose' = loose \cup Left(p)
<1>1. CASE OnlyLogged(p)
  <2>1. ~(At(p, "dissociate") \/ At(p, "post"))
    BY <1>1 DEF OnlyLogged, At
  <2>2. pc' = [pc EXCEPT ![p] = "done"] /\ loose' = loose
    BY <1>1 DEF Error, Goto
  <2> QED BY <2>1, <2>2 DEF Typed, PC, Idle
<1>2. CASE ~OnlyLogged(p)
  <2>1. pc' = [pc EXCEPT ![p] = "failed"] /\ loose' = loose \cup Left(p)
    BY <1>2 DEF Error, Goto
  <2> QED BY <2>1 DEF Typed, PC, Idle
<1> QED BY <1>1, <1>2

(* What a step that changes the server does to the callers.                *)
LEMMA AnswerEnds ==
  ASSUME Typed, NEW p \in Caller, NEW l \in PC, Answered(p, l)
  PROVE  /\ pc' \in [Caller -> PC] /\ pc'[p] \in {l, "done", "failed"}
         /\ \A q \in Caller \ {p} : pc'[q] = pc[q]
         /\ loose \subseteq loose'
         /\ At(p, "dissociate") => pc'[p] = l \/ loose' = loose \cup Left(p)
         /\ req' = req /\ target' = target
<1>1. req' = req /\ target' = target
  BY DEF Answered
<1>2. CASE Then(p, l)
  BY <1>1, <1>2 DEF Then, Goto, Typed
<1>3. CASE Fault(p)
  BY <1>1, <1>3, ErrorEnds DEF Fault
<1> QED BY <1>2, <1>3 DEF Answered

(* The members of UnderWay.                                                *)
LEMMA UnderWayMember ==
  ASSUME NEW x
  PROVE  x \in UnderWay <=>
           \E q \in Caller : At(q, "post") /\ Replaces(q) /\ x = <<target[q], req[q].dev>>
BY Zenon DEF UnderWay

(* The requests under way of the other callers stay so.                    *)
LEMMA OthersUnderWay ==
  ASSUME NEW p \in Caller,
         \A q \in Caller \ {p} : pc'[q] = pc[q] /\ req'[q] = req[q] /\ target'[q] = target[q],
         NEW x \in UnderWay, ~(At(p, "post") /\ Replaces(p) /\ x = <<target[p], req[p].dev>>)
  PROVE  x \in UnderWay'
<1>1. PICK q \in Caller : At(q, "post") /\ Replaces(q) /\ x = <<target[q], req[q].dev>>
  BY UnderWayMember
<1>2. q \in Caller \ {p}
  BY <1>1
<1>3. pc'[q] = pc[q] /\ req'[q] = req[q] /\ target'[q] = target[q]
  BY <1>2
<1>4. At(q, "post")' /\ x = <<target'[q], req'[q].dev>>
  BY <1>1, <1>3 DEF At
<1>5. Replaces(q)'
  BY <1>1, <1>3, Zenon DEF Replaces
<1> QED BY <1>4, <1>5, Zenon DEF UnderWay

(* A step of a caller that is not at its request and leaves the devices.   *)
LEMMA Undisturbed ==
  ASSUME DevicesStayServed, NEW p \in Caller, pc[p] # "post",
         served' = served, loose \subseteq loose',
         \A d \in DN : obj'[d].uses = obj[d].uses,
         \A q \in Caller \ {p} : pc'[q] = pc[q] /\ req'[q] = req[q] /\ target'[q] = target[q]
  PROVE  DevicesStayServed'
<1> SUFFICES ASSUME NEW d \in DN, NEW dev \in served'[d] \ (obj'[d]).uses
             PROVE  <<d, dev>> \in loose' \cup UnderWay'
  BY Zenon DEF DevicesStayServed
<1>1. <<d, dev>> \in loose \cup UnderWay
  BY DEF DevicesStayServed
<1>2. ~At(p, "post")
  BY DEF At
<1> QED BY <1>1, <1>2, OthersUnderWay

-----------------------------------------------------------------------------
LEMMA InitInv == Init => Inv
<1> SUFFICES ASSUME Init PROVE Inv
  OBVIOUS
<1>1. Len(First) \in Nat /\ DOMAIN First = 1..Len(First)
  BY TppObjectsAssumption
<1>2. ASSUME NEW d \in DN, d \in {First[k] : k \in DOMAIN First}
      PROVE  Position(d) \in Nat
  BY <1>1, <1>2 DEF Position
<1>3. obj \in [DN -> Object]
  <2>1. ASSUME NEW d \in DN
        PROVE  obj[d] \in Object
    <3>1. CASE d \in {First[k] : k \in DOMAIN First}
      BY <1>2, <3>1 DEF Init, Object, Mark
    <3>2. CASE d \notin {First[k] : k \in DOMAIN First}
      BY <3>2 DEF Init, Object, Absent
    <3> QED BY <3>1, <3>2
  <2> QED BY <2>1 DEF Init
<1>4. Typed
  BY <1>1, <1>3 DEF Init, Typed, PC, Idle
<1>5. \A p \in Caller : Placed(p)
  BY DEF Init, Placed, Idle, Requesting
<1>6. NewIsUnserved /\ DevicesStayServed
  <2>1. \A d \in DN : served[d] = {} /\ obj[d].uses = {}
    BY DEF Init, Absent
  <2> QED BY <2>1 DEF NewIsUnserved, DevicesStayServed
<1> QED BY <1>4, <1>5, <1>6 DEF Inv

-----------------------------------------------------------------------------
(* The position of the caller that steps, and of the others.               *)
LEMMA PlacedOther ==
  ASSUME NEW q \in Caller, Placed(q),
         pc'[q] = pc[q], req'[q] = req[q], target'[q] = target[q]
  PROVE  Placed(q)'
BY Zenon DEF Placed, Replaces

LEMMA PlacedNext ==
  ASSUME NEW p \in Caller, Placed(p), pc[p] \in PC \ Idle, req'[p] = req[p],
         pc'[p] \in PC \ {"idle", "dissociate", "import"},
         pc'[p] \in Requesting => pc[p] \in Requesting,
         pc'[p] \in Idle \cup {"search", "page"} \/ target'[p] \in DN
  PROVE  Placed(p)'
<1>1. pc[p] # "idle" /\ pc'[p] # "dissociate" /\ pc'[p] # "import"
  BY DEF Idle
<1>2. req'[p] \in Calls
  BY <1>1 DEF Placed
<1>3. pc'[p] \in Requesting => req'[p].op = "request"
  BY DEF Placed
<1> QED BY <1>1, <1>2, <1>3, Zenon DEF Placed

(* A step that changes one object, but not its devices.                    *)
LEMMA ObjectChanges ==
  ASSUME Inv, NEW p \in Caller, pc[p] # "post",
         NEW t \in DN, NEW o \in Object, obj' = [obj EXCEPT ![t] = o],
         o.uses = obj[t].uses, o.cert = 0 => obj[t].cert = 0,
         issued' \in Nat, served' = served, req' = req, loose \subseteq loose',
         pc' \in [Caller -> PC], target' \in [Caller -> DN \cup {None}],
         \A q \in Caller \ {p} : pc'[q] = pc[q] /\ target'[q] = target[q],
         Placed(p)'
  PROVE  Inv'
<1>1. Typed'
  BY DEF Inv, Typed
<1>2. \A q \in Caller : Placed(q)'
  <2> TAKE q \in Caller
  <2>1. CASE q = p
    BY <2>1
  <2>2. CASE q # p
    BY <2>2, PlacedOther DEF Inv
  <2> QED BY <2>1, <2>2
<1>3. NewIsUnserved'
  BY DEF Inv, Typed, NewIsUnserved, Exists
<1>4. \A d \in DN : obj'[d].uses = obj[d].uses
  BY DEF Inv, Typed
<1>5. DevicesStayServed'
  BY <1>4, Undisturbed DEF Inv
<1> QED BY <1>1, <1>2, <1>3, <1>5 DEF Inv

(* A step that leaves the server as it is.                                 *)
LEMMA OnlyReads ==
  ASSUME Inv, NEW p \in Caller, pc[p] # "post",
         obj' = obj, issued' = issued, served' = served, req' = req, loose \subseteq loose',
         pc' \in [Caller -> PC], target' \in [Caller -> DN \cup {None}],
         \A q \in Caller \ {p} : pc'[q] = pc[q] /\ target'[q] = target[q],
         Placed(p)'
  PROVE  Inv'
<1>1. Typed'
  BY DEF Inv, Typed
<1>2. \A q \in Caller : Placed(q)'
  <2> TAKE q \in Caller
  <2>1. CASE q = p
    BY <2>1
  <2>2. CASE q # p
    BY <2>2, PlacedOther DEF Inv
  <2> QED BY <2>1, <2>2
<1>3. NewIsUnserved'
  BY DEF Inv, NewIsUnserved, Exists
<1>4. DevicesStayServed'
  BY Undisturbed DEF Inv
<1> QED BY <1>1, <1>2, <1>3, <1>4 DEF Inv

(* A call that ends with an error, at any position.                        *)
LEMMA ErrorKeepsInv ==
  ASSUME Inv, NEW p \in Caller, pc[p] \in PC \ Idle, Error(p),
         obj' = obj, issued' = issued, served' = served, req' = req, target' = target
  PROVE  Inv'
<1>1. /\ pc' \in [Caller -> PC] /\ pc'[p] \in {"done", "failed"}
      /\ \A q \in Caller \ {p} : pc'[q] = pc[q]
      /\ loose \subseteq loose'
      /\ At(p, "post") => loose' = loose \cup Left(p)
  BY ErrorEnds DEF Inv
<1>2. Placed(p)'
  BY <1>1, PlacedNext DEF Inv, PC, Idle, Requesting
<1>3. CASE pc[p] # "post"
  BY <1>1, <1>2, <1>3, OnlyReads DEF Inv, Typed
<1>4. CASE pc[p] = "post"
  <2>1. Typed'
    BY <1>1 DEF Inv, Typed
  <2>2. \A q \in Caller : Placed(q)'
    <3> TAKE q \in Caller
    <3>1. CASE q = p
      BY <3>1, <1>2
    <3>2. CASE q # p
      BY <3>2, <1>1, PlacedOther DEF Inv
    <3> QED BY <3>1, <3>2
  <2>3. NewIsUnserved'
    BY DEF Inv, NewIsUnserved, Exists
  <2>4. DevicesStayServed'
    <3> SUFFICES ASSUME NEW d \in DN, NEW dev \in served'[d] \ (obj'[d]).uses
                 PROVE  <<d, dev>> \in loose' \cup UnderWay'
      BY Zenon DEF DevicesStayServed
    <3>1. <<d, dev>> \in loose \cup UnderWay
      BY DEF Inv, DevicesStayServed
    <3>2. CASE Replaces(p) /\ <<d, dev>> = <<target[p], req[p].dev>>
      <4>1. Left(p) = {<<target[p], req[p].dev>>}
        BY <1>4, <3>2 DEF Left
      <4> QED BY <4>1, <3>2, <1>4, <1>1 DEF At
    <3>3. CASE ~(Replaces(p) /\ <<d, dev>> = <<target[p], req[p].dev>>)
      BY <3>1, <3>3, <1>1, OthersUnderWay
    <3> QED BY <3>2, <3>3
  <2> QED BY <2>1, <2>2, <2>3, <2>4 DEF Inv
<1> QED BY <1>3, <1>4

-----------------------------------------------------------------------------
(* Exchanges that only read.                                               *)
LEMMA ReadGoesOn ==
  ASSUME Inv, NEW p \in Caller, pc[p] \in PC \ (Idle \cup {"post"}),
         NEW l \in PC \ {"idle", "dissociate", "import"}, Then(p, l),
         UNCHANGED <<server, req, served>>,
         target' \in [Caller -> DN \cup {None}],
         \A q \in Caller \ {p} : target'[q] = target[q],
         l \in Requesting => pc[p] \in Requesting,
         l \in Idle \cup {"search", "page"} \/ target'[p] \in DN
  PROVE  Inv'
<1>1. pc' = [pc EXCEPT ![p] = l] /\ loose' = loose
  BY DEF Then, Goto
<1>2. pc' \in [Caller -> PC] /\ pc'[p] = l /\ \A q \in Caller \ {p} : pc'[q] = pc[q]
  BY <1>1 DEF Inv, Typed
<1>3. Placed(p)'
  BY <1>2, PlacedNext DEF Inv
<1> QED BY <1>1, <1>2, <1>3, OnlyReads DEF server

LEMMA GuidKeepsInv == ASSUME Inv, NEW p \in Caller, Guid(p) PROVE Inv'
<1>1. PICK l \in {"details", "post"} : Then(p, l)
  BY DEF Guid
<1>2. target[p] \in DN
  BY DEF Guid, At, Inv, Placed, Idle
<1> QED BY <1>1, <1>2, ReadGoesOn DEF Guid, At, Reads, Inv, Typed, PC, Idle, Requesting

LEMMA DetailsKeepsInv == ASSUME Inv, NEW p \in Caller, Details(p) PROVE Inv'
<1>1. target[p] \in DN /\ req[p] \in Calls /\ req[p].op = "request"
  BY DEF Details, At, Inv, Placed, Idle, Requesting, PC
<1>2. CASE Compared(p) \in {"failed", "post"}
  BY <1>1, <1>2, ReadGoesOn DEF Details, At, Reads, Inv, Typed, PC, Idle, Requesting
<1>3. CASE Compared(p) \notin {"failed", "post"}
  <2>1. Taken(p) /\ req[p].replace /\ Compared(p) = "dissociate"
    BY <1>3 DEF Compared
  <2>2. req[p].dev # None
    BY <2>1, <1>1, TppObjectsAssumption DEF Taken, Inv, Typed, Object
  <2>3. pc' = [pc EXCEPT ![p] = "dissociate"] /\ loose' = loose
    BY <2>1 DEF Details, Then, Goto
  <2>4. /\ pc' \in [Caller -> PC] /\ pc'[p] = "dissociate" /\ pc[p] = "details"
        /\ \A q \in Caller \ {p} : pc'[q] = pc[q]
    BY <2>3 DEF Inv, Typed, PC, Details, At
  <2>5. UNCHANGED <<server, req, served, target>>
    BY DEF Details, Reads
  <2>6. Replaces(p)'
    <3>1. req' = req
      BY <2>5
    <3> QED BY <3>1, <1>1, <2>1, <2>2, Zenon DEF Replaces
  <2>7. Placed(p)'
    <3>1. req'[p] = req[p] /\ target'[p] = target[p] /\ pc'[p] # "import"
      BY <2>4, <2>5
    <3> QED BY <3>1, <2>4, <2>6, <1>1, Zenon DEF Placed
  <2> QED BY <2>3, <2>4, <2>5, <2>7, OnlyReads DEF server, Inv, Typed
<1> QED BY <1>2, <1>3

LEMMA MetadataKeepsInv == ASSUME Inv, NEW p \in Caller, Metadata(p) PROVE Inv'
<1>1. PICK l \in {"done", "items"} : Then(p, l)
  BY DEF Metadata
<1>2. target[p] \in DN
  BY DEF Metadata, At, Inv, Placed, Idle
<1> QED BY <1>1, <1>2, ReadGoesOn DEF Metadata, At, Reads, Inv, Typed, PC, Idle, Requesting

LEMMA ItemsKeepsInv == ASSUME Inv, NEW p \in Caller, Items(p) PROVE Inv'
<1>1. PICK l \in {"done", "set"} : Then(p, l)
  BY DEF Items
<1>2. target[p] \in DN
  BY DEF Items, At, Inv, Placed, Idle
<1> QED BY <1>1, <1>2, ReadGoesOn DEF Items, At, Reads, Inv, Typed, PC, Idle, Requesting

LEMMA ObjectGuidKeepsInv == ASSUME Inv, NEW p \in Caller, ObjectGuid(p) PROVE Inv'
<1>1. target[p] \in DN
  BY DEF ObjectGuid, At, Inv, Placed, Idle
<1> QED BY <1>1, ReadGoesOn DEF ObjectGuid, At, Reads, Inv, Typed, PC, Idle, Requesting

LEMMA PageKeepsInv == ASSUME Inv, NEW p \in Caller, Page(p) PROVE Inv'
<1>1. PICK l \in {"done", "page"} : Then(p, l)
  BY DEF Page
<1>2. UNCHANGED <<server, req, served, target>> /\ pc[p] = "page"
  BY DEF Page, Reads, At
<1> QED BY <1>1, <1>2, ReadGoesOn DEF Inv, Typed, PC, Idle, Requesting

LEMMA SearchKeepsInv == ASSUME Inv, NEW p \in Caller, Search(p) PROVE Inv'
<1>1. UNCHANGED <<server, req, served>> /\ pc[p] = "search"
  BY DEF Search, Reads, At
<1>2. CASE Single(Holders(req[p].serial))
  <2>1. PICK d \in DN : target' = [target EXCEPT ![p] = d] /\ Then(p, Found(req[p]))
    BY <1>2 DEF Search, Holders
  <2>2. Found(req[p]) \in {"renew", "object"}
    BY DEF Found
  <2>3. /\ target' \in [Caller -> DN \cup {None}] /\ target'[p] \in DN
        /\ \A q \in Caller \ {p} : target'[q] = target[q]
    BY <2>1 DEF Inv, Typed
  <2> QED BY <1>1, <2>1, <2>2, <2>3, ReadGoesOn DEF PC, Idle, Requesting
<1>3. CASE ~Single(Holders(req[p].serial))
  <2>1. target' = target /\ Then(p, "failed")
    BY <1>3 DEF Search
  <2> QED BY <1>1, <2>1, ReadGoesOn DEF Inv, Typed, PC, Idle, Requesting
<1> QED BY <1>2, <1>3

-----------------------------------------------------------------------------
(* Exchanges that change an object.                                        *)
LEMMA AnswerKeepsInv ==
  ASSUME Inv, NEW p \in Caller, pc[p] \in PC \ (Idle \cup {"post"}),
         NEW l \in PC \ {"idle", "dissociate", "import"}, Answered(p, l),
         target[p] \in DN, l \in Requesting => pc[p] \in Requesting,
         NEW o \in Object, obj' = [obj EXCEPT ![target[p]] = o],
         o.uses = obj[target[p]].uses, o.cert = 0 => obj[target[p]].cert = 0,
         issued' \in Nat, served' = served
  PROVE  Inv'
<1>1. /\ pc' \in [Caller -> PC] /\ pc'[p] \in {l, "done", "failed"}
      /\ \A q \in Caller \ {p} : pc'[q] = pc[q]
      /\ loose \subseteq loose' /\ req' = req /\ target' = target
  BY AnswerEnds DEF Inv
<1>2. Placed(p)'
  <2>1. pc'[p] \in PC \ {"idle", "dissociate", "import"}
    BY <1>1 DEF PC, Idle
  <2>2. pc'[p] \in Requesting => pc[p] \in Requesting
    BY <1>1 DEF Requesting
  <2> QED BY <2>1, <2>2, <1>1, PlacedNext DEF Inv
<1> QED BY <1>1, <1>2, ObjectChanges DEF Inv, Typed

LEMMA SetMetadataKeepsInv == ASSUME Inv, NEW p \in Caller, SetMetadata(p) PROVE Inv'
<1> DEFINE o == [obj[target[p]] EXCEPT !.marks = @ \cup (req[p].want \cap Known)]
<1>1. pc[p] = "set" /\ target[p] \in DN
  BY DEF SetMetadata, At, Inv, Placed, Idle
<1>2. o \in Object /\ o.uses = obj[target[p]].uses /\ o.cert = obj[target[p]].cert
  BY <1>1 DEF Inv, Typed, Object, Mark, Value, Known
<1>3. obj' = [obj EXCEPT ![target[p]] = o]
  BY DEF SetMetadata
<1> HIDE DEF o
<1> QED BY <1>1, <1>2, <1>3, AnswerKeepsInv
      DEF SetMetadata, Inv, Typed, PC, Idle, Requesting

LEMMA RevokeKeepsInv == ASSUME Inv, NEW p \in Caller, Revoke(p) PROVE Inv'
<1> DEFINE o == [obj[target[p]] EXCEPT !.on = @ /\ ~req[p].disable]
<1>1. pc[p] = "revoke" /\ target[p] \in DN
  BY DEF Revoke, At, Inv, Placed, Idle
<1>2. o \in Object /\ o.uses = obj[target[p]].uses /\ o.cert = obj[target[p]].cert
  BY <1>1 DEF Inv, Typed, Object
<1>3. obj' = [obj EXCEPT ![target[p]] = o]
  BY DEF Revoke
<1>4. issued' \in Nat /\ served' = served /\ Answered(p, "done")
  BY DEF Revoke, Inv, Typed
<1> HIDE DEF o
<1> QED BY <1>1, <1>2, <1>3, <1>4, AnswerKeepsInv DEF PC, Idle, Requesting

LEMMA PutKeepsInv == ASSUME Inv, NEW p \in Caller, Put(p) PROVE Inv'
<1> DEFINE o == Changed(obj[target[p]], req[p])
<1>1. pc[p] = "put" /\ target[p] \in DN
  BY DEF Put, At, Inv, Placed, Idle
<1>2. o \in Object /\ o.uses = obj[target[p]].uses /\ o.cert = obj[target[p]].cert
  <2>1. obj[target[p]] \in Object
    BY <1>1 DEF Inv, Typed
  <2> QED BY <2>1 DEF Object, Changed, Mark
<1>3. obj' = [obj EXCEPT ![target[p]] = o]
  BY DEF Put
<1>4. PICK l \in {"renew", "done"} : Answered(p, l)
  BY DEF Put
<1>5. l \in PC \ {"idle", "dissociate", "import"} /\ l \notin Requesting
  BY DEF PC, Idle, Requesting
<1>6. issued' \in Nat /\ served' = served /\ pc[p] \in PC \ (Idle \cup {"post"})
  BY <1>1 DEF Put, Inv, Typed, PC, Idle
<1> HIDE DEF o
<1> QED BY <1>1, <1>2, <1>3, <1>4, <1>5, <1>6, AnswerKeepsInv

LEMMA RenewKeepsInv == ASSUME Inv, NEW p \in Caller, Renew(p) PROVE Inv'
<1>1. pc[p] = "renew" /\ target[p] \in DN /\ obj[target[p]] \in Object
  BY DEF Renew, At, Inv, Typed, Placed, Idle
<1> DEFINE Made(b) == [cert |-> issued + 1, sans |-> b, on |-> obj[target[p]].on,
                       uses |-> obj[target[p]].uses, marks |-> obj[target[p]].marks]
<1>2. /\ issued' \in Nat /\ issued + 1 \in Nat /\ issued + 1 # 0
      /\ Answered(p, "done") /\ served' = served
  BY DEF Renew, Issue, Inv, Typed
<1>3. ASSUME NEW b \in BOOLEAN, obj' = [obj EXCEPT ![target[p]] = Made(b)]
      PROVE  Inv'
  <2>1. Made(b) \in Object /\ Made(b).uses = obj[target[p]].uses /\ Made(b).cert # 0
    BY <1>1, <1>2 DEF Object
  <2> HIDE DEF Made
  <2> QED BY <1>1, <1>2, <1>3, <2>1, AnswerKeepsInv DEF PC, Idle, Requesting
<1>4. CASE req[p].own
  <2>1. obj' = [obj EXCEPT ![target[p]] = Made(~req[p].omit)]
    BY <1>4 DEF Renew, Issue
  <2> QED BY <1>3, <2>1
<1>5. CASE ~req[p].own
  <2>1. obj' = [obj EXCEPT ![target[p]] = Made(obj[target[p]].sans)]
    BY <1>5 DEF Renew, Issue
  <2>2. obj[target[p]].sans \in BOOLEAN
    BY <1>1 DEF Object
  <2> QED BY <1>3, <2>1, <2>2
<1> QED BY <1>4, <1>5

LEMMA ImportKeepsInv == ASSUME Inv, NEW p \in Caller, Import(p) PROVE Inv'
<1> DEFINE o == [cert |-> req[p].serial, sans |-> req[p].serial \in withSans,
                 on |-> TRUE, uses |-> {}, marks |-> {}]
<1>1. pc[p] = "import" /\ target[p] \in DN /\ ~Exists(target[p])
  BY DEF Import, At, Inv, Placed, Idle
<1>2. req[p].serial \in Nat \ {0}
  BY <1>1, ImportFields DEF Inv, Placed, PC, Idle
<1>3. o \in Object /\ o.uses = {} /\ o.cert # 0
  BY <1>2 DEF Object
<1>4. obj' = [obj EXCEPT ![target[p]] = o]
  BY DEF Import
<1> HIDE DEF o
<1>5. /\ pc' \in [Caller -> PC] /\ pc'[p] \in {"object", "done", "failed"}
      /\ \A q \in Caller \ {p} : pc'[q] = pc[q]
      /\ loose \subseteq loose' /\ req' = req /\ target' = target
  BY AnswerEnds DEF Inv, Import, PC
<1>6. Typed'
  BY <1>1, <1>3, <1>4, <1>5 DEF Inv, Typed, Import
<1>7. \A q \in Caller : Placed(q)'
  <2> TAKE q \in Caller
  <2>1. CASE q = p
    BY <2>1, <1>1, <1>5, PlacedNext DEF Inv, PC, Idle, Requesting
  <2>2. CASE q # p
    BY <2>2, <1>5, PlacedOther DEF Inv
  <2> QED BY <2>1, <2>2
<1>8. NewIsUnserved'
  BY <1>3, <1>4 DEF Inv, Typed, NewIsUnserved, Exists, Import
<1>9. DevicesStayServed'
  <2>1. served' = served /\ served[target[p]] = {}
    BY <1>1 DEF Import, Inv, NewIsUnserved
  <2> SUFFICES ASSUME NEW d \in DN, NEW dev \in served'[d] \ (obj'[d]).uses
               PROVE  <<d, dev>> \in loose' \cup UnderWay'
    BY Zenon DEF DevicesStayServed
  <2>2. d # target[p] /\ dev \in served[d] \ obj[d].uses
    BY <2>1, <1>4 DEF Inv, Typed
  <2>3. <<d, dev>> \in loose \cup UnderWay
    BY <2>2 DEF Inv, DevicesStayServed
  <2> QED BY <2>3, <1>1, <1>5, OthersUnderWay DEF At
<1> QED BY <1>6, <1>7, <1>8, <1>9 DEF Inv

(* Dissociation: the device is on record from here on.                     *)
LEMMA DissociateKeepsInv == ASSUME Inv, NEW p \in Caller, Dissociate(p) PROVE Inv'
<1> DEFINE t == target[p]
           o == [obj[t] EXCEPT !.uses = Dissociated(@, req[p].dev)]
<1>1. pc[p] = "dissociate" /\ t \in DN /\ obj[t] \in Object
  BY DEF Dissociate, At, Inv, Typed, Placed, Idle
<1>2. o \in Object /\ o.uses = obj[t].uses \ {req[p].dev} /\ o.cert = obj[t].cert
  BY <1>1 DEF Object, Dissociated
<1>3. obj' = [obj EXCEPT ![t] = o]
  BY DEF Dissociate
<1>4. issued' = issued /\ served' = served
  BY DEF Dissociate
<1>5. /\ pc' \in [Caller -> PC] /\ pc'[p] \in {"post", "done", "failed"}
      /\ \A q \in Caller \ {p} : pc'[q] = pc[q]
      /\ loose \subseteq loose' /\ req' = req /\ target' = target
      /\ pc'[p] = "post" \/ loose' = loose \cup Left(p)
  BY <1>1, AnswerEnds DEF Inv, Dissociate, PC, At
<1>6. Replaces(p)
  BY <1>1 DEF Inv, Placed
<1> HIDE DEF o
<1>7. Typed'
  BY <1>1, <1>2, <1>3, <1>4, <1>5 DEF Inv, Typed
<1>8. \A q \in Caller : Placed(q)'
  <2> TAKE q \in Caller
  <2>1. CASE q = p
    BY <2>1, <1>1, <1>5, PlacedNext DEF Inv, PC, Idle, Requesting
  <2>2. CASE q # p
    BY <2>2, <1>5, PlacedOther DEF Inv
  <2> QED BY <2>1, <2>2
<1>9. NewIsUnserved'
  BY <1>1, <1>2, <1>3, <1>4 DEF Inv, Typed, NewIsUnserved, Exists
<1>10. DevicesStayServed'
  <2> SUFFICES ASSUME NEW d \in DN, NEW dev \in served'[d] \ (obj'[d]).uses
               PROVE  <<d, dev>> \in loose' \cup UnderWay'
    BY Zenon DEF DevicesStayServed
  <2>1. CASE dev \in obj[d].uses
    <3>1. <<d, dev>> = <<t, req[p].dev>>
      BY <2>1, <1>1, <1>2, <1>3 DEF Inv, Typed
    <3>2. CASE pc'[p] = "post"
      <4>1. At(p, "post")' /\ <<d, dev>> = <<target'[p], req'[p].dev>>
        BY <3>1, <3>2, <1>5 DEF At
      <4>2. Replaces(p)'
        BY <1>5, <1>6, Zenon DEF Replaces
      <4> QED BY <4>1, <4>2, Zenon DEF UnderWay
    <3>3. CASE loose' = loose \cup Left(p)
      BY <3>1, <3>3, <1>1, <1>6 DEF Left
    <3> QED BY <3>2, <3>3, <1>5
  <2>2. CASE dev \notin obj[d].uses
    <3>1. <<d, dev>> \in loose \cup UnderWay
      BY <2>2, <1>4 DEF Inv, DevicesStayServed
    <3>2. \A q \in Caller \ {p} : pc'[q] = pc[q] /\ req'[q] = req[q] /\ target'[q] = target[q]
      BY <1>5
    <3> QED BY <3>1, <3>2, <1>1, <1>5, OthersUnderWay DEF At
  <2> QED BY <2>1, <2>2
<1> QED BY <1>7, <1>8, <1>9, <1>10 DEF Inv

(* The request: it names the device, which is associated again.            *)
LEMMA PostKeepsInv == ASSUME Inv, NEW p \in Caller, Post(p) PROVE Inv'
<1> DEFINE t == target[p]
           uses == obj[t].uses \cup ({req[p].dev} \ {None})
           marks == (IF legacy \/ req[p].want = {} THEN obj[t].marks ELSE req[p].want)
                      \cup {"origin"}
           o == [cert |-> issued + 1, sans |-> TRUE, on |-> TRUE, uses |-> uses, marks |-> marks]
<1>1. pc[p] = "post" /\ t \in DN /\ obj[t] \in Object
  BY DEF Post, At, Inv, Typed, Placed, Idle
<1>2. /\ req[p].dev \in Device \cup {None} /\ req[p].want \subseteq Value
  <2>1. req[p] \in Calls /\ req[p].op = "request"
    BY <1>1 DEF Inv, Placed, PC, Idle, Requesting
  <2> QED BY <2>1, RequestFields
<1>3. o \in Object /\ uses \subseteq Device
  BY <1>1, <1>2 DEF Object, Mark, Inv, Typed
<1>4. obj' = [obj EXCEPT ![t] = o] /\ issued' = issued + 1
  BY DEF Post, Issue
<1>5. served' = [served EXCEPT ![t] = @ \cup uses]
  BY DEF Post
<1>6. PICK l \in {"done", "metadata"} : Answered(p, l)
  BY DEF Post
<1>7. /\ pc' \in [Caller -> PC] /\ pc'[p] \in {"metadata", "done", "failed"}
      /\ \A q \in Caller \ {p} : pc'[q] = pc[q]
      /\ loose \subseteq loose' /\ req' = req /\ target' = target
  <2>1. l \in PC
    BY DEF PC, Idle
  <2> QED BY <1>6, <2>1, AnswerEnds DEF Inv
<1>8. o.uses = uses /\ o.cert # 0
  BY DEF Inv, Typed
<1> HIDE DEF o
<1>9. Typed'
  BY <1>1, <1>3, <1>4, <1>5, <1>7 DEF Inv, Typed
<1>10. \A q \in Caller : Placed(q)'
  <2> TAKE q \in Caller
  <2>1. CASE q = p
    BY <2>1, <1>1, <1>7, PlacedNext DEF Inv, PC, Idle, Requesting
  <2>2. CASE q # p
    BY <2>2, <1>7, PlacedOther DEF Inv
  <2> QED BY <2>1, <2>2
<1>11. NewIsUnserved'
  BY <1>1, <1>4, <1>5, <1>8 DEF Inv, Typed, NewIsUnserved, Exists
<1>12. DevicesStayServed'
  <2> SUFFICES ASSUME NEW d \in DN, NEW dev \in served'[d] \ (obj'[d]).uses
               PROVE  <<d, dev>> \in loose' \cup UnderWay'
    BY Zenon DEF DevicesStayServed
  <2>1. /\ dev \in served[d] \ obj[d].uses
        /\ d = t => dev \notin uses
    BY <1>1, <1>4, <1>5, <1>8 DEF Inv, Typed
  <2>2. <<d, dev>> \in loose \cup UnderWay
    BY <2>1 DEF Inv, DevicesStayServed
  <2>3. ~(Replaces(p) /\ <<d, dev>> = <<t, req[p].dev>>)
    BY <2>1 DEF Replaces
  <2>4. \A q \in Caller \ {p} : pc'[q] = pc[q] /\ req'[q] = req[q] /\ target'[q] = target[q]
    BY <1>7
  <2> HIDE DEF t
  <2> QED BY <2>2, <2>3, <2>4, <1>7, OthersUnderWay DEF t
<1> QED BY <1>9, <1>10, <1>11, <1>12 DEF Inv

-----------------------------------------------------------------------------
(* Errors, the beginning of a call, and time.                              *)
LEMMA FailKeepsInv == ASSUME Inv, NEW p \in Caller, Fail(p) PROVE Inv'
<1>1. pc[p] \in PC \ Idle /\ Error(p)
  BY DEF Fail, Fault, Inv, Typed
<1> QED BY <1>1, ErrorKeepsInv DEF Fail, Reads, server

LEMMA RefusedKeepsInv == ASSUME Inv, NEW p \in Caller, Refused(p) PROVE Inv'
<1>1. pc[p] \in PC \ Idle
  BY DEF Refused, At, PC, Idle
<1> QED BY <1>1, ErrorKeepsInv DEF Refused, Reads, server

LEMMA StartKeepsInv ==
  ASSUME Inv, NEW p \in Caller, NEW c \in Calls, Start(p, c)
  PROVE  Inv'
<1>1. /\ pc' = [pc EXCEPT ![p] = FirstStep(c)] /\ req' = [req EXCEPT ![p] = c]
      /\ target' = [target EXCEPT ![p] = c.dn] /\ pc[p] \in Idle
      /\ UNCHANGED <<obj, issued, served, loose>>
  BY DEF Start, Goto, server
<1>2. /\ FirstStep(c) \in PC \ {"idle", "dissociate"}
      /\ FirstStep(c) \in Requesting => c.op = "request"
      /\ FirstStep(c) = "import" => c.op = "import"
      /\ FirstStep(c) \in Idle \cup {"search", "page"} \/ c.dn \in DN
  BY Beginning
<1>3. Typed'
  BY <1>1, <1>2, NameOrNone DEF Inv, Typed
<1>4. \A q \in Caller \ {p} : pc'[q] = pc[q] /\ req'[q] = req[q] /\ target'[q] = target[q]
  BY <1>1 DEF Inv, Typed
<1>5. \A q \in Caller : Placed(q)'
  <2> TAKE q \in Caller
  <2>1. CASE q = p
    <3>1. pc'[p] = FirstStep(c) /\ req'[p] = c /\ target'[p] = c.dn
      BY <1>1 DEF Inv, Typed
    <3>2. pc'[p] # "dissociate"
      BY <3>1, <1>2
    <3> QED BY <2>1, <3>1, <3>2, <1>2, Zenon DEF Placed
  <2>2. CASE q # p
    BY <2>2, <1>4, PlacedOther DEF Inv
  <2> QED BY <2>1, <2>2
<1>6. NewIsUnserved'
  BY <1>1 DEF Inv, NewIsUnserved, Exists
<1>7. DevicesStayServed'
  <2>1. pc[p] # "post"
    BY <1>1 DEF Idle
  <2> QED BY <2>1, <1>1, <1>4, Undisturbed DEF Inv
<1> QED BY <1>3, <1>5, <1>6, <1>7 DEF Inv

LEMMA UnchangedKeepsInv ==
  ASSUME Inv, UNCHANGED <<obj, issued, pc, req, target, served, loose>>
  PROVE  Inv'
<1>1. Typed'
  BY DEF Inv, Typed
<1>2. \A q \in Caller : Placed(q)'
  BY PlacedOther DEF Inv
<1>3. NewIsUnserved'
  BY DEF Inv, NewIsUnserved, Exists
<1>4. UnderWay' = UnderWay
  BY Zenon DEF UnderWay, At, Replaces
<1>5. DevicesStayServed'
  BY <1>4, Zenon DEF Inv, DevicesStayServed
<1> QED BY <1>1, <1>2, <1>3, <1>5 DEF Inv

LEMMA NextInv == Inv /\ [Next]_vars => Inv'
<1> SUFFICES ASSUME Inv, [Next]_vars PROVE Inv'
  OBVIOUS
<1>1. ASSUME NEW p \in Caller, Step(p) PROVE Inv'
  BY <1>1, GuidKeepsInv, DetailsKeepsInv, DissociateKeepsInv, PostKeepsInv, MetadataKeepsInv,
     ItemsKeepsInv, SetMetadataKeepsInv, SearchKeepsInv, ObjectGuidKeepsInv, PutKeepsInv,
     RenewKeepsInv, RefusedKeepsInv, RevokeKeepsInv, ImportKeepsInv, PageKeepsInv DEF Step
<1>2. ASSUME NEW p \in Caller, Fail(p) PROVE Inv'
  BY <1>2, FailKeepsInv
<1>3. ASSUME NEW p \in Caller, NEW c \in Calls, Start(p, c) PROVE Inv'
  BY <1>3, StartKeepsInv
<1>4. ASSUME NEW d \in DN, Expire(d) PROVE Inv'
  BY <1>4, UnchangedKeepsInv DEF Expire, caller
<1>5. CASE UNCHANGED vars
  BY <1>5, UnchangedKeepsInv DEF vars, server, caller
<1> QED BY <1>1, <1>2, <1>3, <1>4, <1>5 DEF Next

(* A device that a certificate object has served is associated with it,    *)
(* except while a request that replaces it is between dissociation and     *)
(* request, or after one that failed there (connector.go:667-724).         *)
THEOREM DevicesKeepTheirCertificate == Spec => []DevicesStayServed
<1>1. Inv => DevicesStayServed
  BY DEF Inv
<1> QED BY <1>1, InitInv, NextInv, PTL DEF Spec

-----------------------------------------------------------------------------
(* What a caller knows as long as nobody else changes the server.          *)

Flags ==
  /\ quiet \in [Caller -> BOOLEAN] /\ had \in [Caller -> BOOLEAN]
  /\ logged \in [Caller -> BOOLEAN]

(* Which calls come to a position.                                         *)
Reached(p) ==
  /\ pc[p] \in PC \ (Idle \cup Requesting) => req[p].op # "request"
  /\ pc[p] \in {"search", "renew", "revoke", "page"} => req[p].op # "import"
  /\ had[p] => pc[p] # "idle" /\ req[p].op = "request"

(* The instance, the object of a thumbprint, and the marks.                *)
SawInstance(p) ==
  /\ pc[p] \in {"guid", "details"} => (had[p] <=> Taken(p))
  /\ pc[p] \in {"dissociate", "post", "metadata", "items", "set", "done"} /\ had[p] =>
       req[p].replace
SawObject(p) ==
  (/\ pc[p] \in {"object", "put", "renew"} /\ req[p].op \in {"renew", "retire"}
   /\ req[p].dn = None) => Holders(req[p].serial) = {target[p]}
Marked(p) ==
  /\ pc[p] \in {"metadata", "items", "set"} => "origin" \in obj[target[p]].marks
  /\ pc[p] = "done" =>
       /\ req[p].op = "request" =>
            (req[p].want \cap Known) \cup {"origin"} \subseteq obj[target[p]].marks
       /\ req[p].op = "import" => logged[p] \/ "origin" \in obj[target[p]].marks

Knows(p) == quiet[p] => SawInstance(p) /\ SawObject(p) /\ Marked(p)

KnowledgeInv ==
  /\ Inv /\ Flags
  /\ \A p \in Caller : Reached(p) /\ Knows(p)

LEMMA BeginsAt ==
  ASSUME NEW c \in Calls
  PROVE  /\ FirstStep(c) \in {"guid", "post", "object", "renew", "search", "failed", "page",
                              "revoke", "import"}
         /\ FirstStep(c) = "post" => c.dev = None
         /\ FirstStep(c) \in {"guid", "post"} => c.op = "request"
         /\ FirstStep(c) \notin {"guid", "post"} => c.op # "request"
         /\ FirstStep(c) \in {"search", "renew", "revoke", "page"} => c.op # "import"
         /\ FirstStep(c) \in {"object", "renew"} => c.dn # None
<1>1. CASE c.op = "request"
  BY <1>1 DEF FirstStep
<1>2. CASE c.op \in {"renew", "retire"}
  <2>1. FirstStep(c) = Identified(c)
    BY <1>2 DEF FirstStep
  <2>2. CASE c.dn # None
    BY <2>1, <2>2, <1>2 DEF Identified, Found
  <2>3. CASE c.dn = None
    BY <2>1, <2>3, <1>2 DEF Identified
  <2> QED BY <2>2, <2>3
<1>3. CASE c.op \in {"list", "revoke", "import"}
  BY <1>3 DEF FirstStep
<1> QED BY <1>1, <1>2, <1>3, Operations

(* Another caller's step disturbs this one, or leaves the objects.         *)
LEMMA OtherStep ==
  ASSUME Inv, Flags, NEW p \in Caller, NEW q \in Caller \ {p},
         Step(q) \/ Fail(q) \/ (\E c \in Calls : Start(q, c))
  PROVE  /\ ~quiet'[p] \/ (quiet'[p] = quiet[p] /\ obj' = obj)
         /\ pc'[p] = pc[p] /\ req'[p] = req[p] /\ target'[p] = target[p]
         /\ had'[p] = had[p] /\ logged'[p] = logged[p]
<1>1. ASSUME NEW l \in PC, Answered(q, l)
      PROVE  /\ ~quiet'[p] /\ pc'[p] = pc[p] /\ logged'[p] = logged[p]
             /\ UNCHANGED <<req, target, had>>
  <2>1. ~quiet'[p] /\ UNCHANGED <<req, target, had>>
    BY <1>1 DEF Answered
  <2>2. pc'[p] = pc[p] /\ logged'[p] = logged[p]
    BY <1>1 DEF Answered, Then, Fault, Error, Goto, Inv, Typed, Flags
  <2> QED BY <2>1, <2>2
<1>2. CASE Dissociate(q) \/ Post(q) \/ SetMetadata(q) \/ Put(q) \/ Renew(q) \/ Revoke(q) \/ Import(q)
  <2>1. \E l \in {"post", "done", "metadata", "renew", "object"} : Answered(q, l)
    BY <1>2 DEF Dissociate, Post, SetMetadata, Put, Renew, Revoke, Import
  <2>2. PICK l \in PC : Answered(q, l)
    BY <2>1 DEF PC, Idle
  <2> QED BY <1>1, <2>2
<1>3. CASE \/ Guid(q) \/ Details(q) \/ Metadata(q) \/ Items(q) \/ Search(q) \/ ObjectGuid(q)
           \/ Refused(q) \/ Page(q) \/ Fail(q)
  <2>1. Reads
    BY <1>3 DEF Guid, Details, Metadata, Items, Search, ObjectGuid, Refused, Page, Fail
  <2>2. pc'[p] = pc[p] /\ logged'[p] = logged[p]
    BY <1>3 DEF Guid, Details, Metadata, Items, Search, ObjectGuid, Refused, Page, Fail,
                Then, Fault, Error, Goto, Inv, Typed, Flags
  <2>3. target'[p] = target[p]
    BY <1>3 DEF Guid, Details, Metadata, Items, Search, ObjectGuid, Refused, Page, Fail, Inv, Typed
  <2> QED BY <2>1, <2>2, <2>3 DEF Reads, server
<1>4. CASE \E c \in Calls : Start(q, c)
  BY <1>4 DEF Start, Goto, Inv, Typed, Flags, server
<1> QED BY <1>2, <1>3, <1>4 DEF Step

LEMMA KnowledgeStays ==
  ASSUME NEW p \in Caller, Reached(p), Knows(p),
         ~quiet'[p] \/ (quiet'[p] = quiet[p] /\ obj' = obj),
         pc'[p] = pc[p], req'[p] = req[p], target'[p] = target[p],
         had'[p] = had[p], logged'[p] = logged[p]
  PROVE  Reached(p)' /\ Knows(p)'
<1>1. Reached(p)'
  BY DEF Reached
<1>2. CASE ~quiet'[p]
  BY <1>1, <1>2 DEF Knows
<1>3. CASE quiet[p] /\ obj' = obj
  <2>1. SawInstance(p)'
    BY <1>3 DEF Knows, SawInstance, Taken
  <2>2. SawObject(p)'
    BY <1>3 DEF Knows, SawObject, Holders
  <2>3. Marked(p)'
    BY <1>3 DEF Knows, Marked
  <2> QED BY <1>1, <2>1, <2>2, <2>3 DEF Knows
<1> QED BY <1>1, <1>2, <1>3 DEF Knows

(* An error: the call failed, or what an import lacks was logged.          *)
LEMMA ErrorKnows ==
  ASSUME Inv, Flags, NEW p \in Caller, Reached(p), Knows(p), pc[p] \notin Idle, Error(p),
         req' = req, had' = had, quiet'[p] => quiet[p]
  PROVE  Reached(p)' /\ Knows(p)'
<1>1. CASE OnlyLogged(p)
  <2>1. pc'[p] = "done" /\ logged'[p]
    BY <1>1 DEF Error, Goto, Inv, Typed, Flags
  <2>2. Reached(p)'
    BY <2>1 DEF Reached, Idle
  <2>3. req[p].op = "import" /\ ~had[p]
    BY <1>1 DEF OnlyLogged, Reached
  <2>4. SawInstance(p)' /\ SawObject(p)' /\ Marked(p)'
    BY <2>1, <2>3 DEF SawInstance, SawObject, Marked
  <2> QED BY <2>2, <2>4 DEF Knows
<1>2. CASE ~OnlyLogged(p)
  <2>1. pc'[p] = "failed"
    BY <1>2 DEF Error, Goto, Inv, Typed
  <2>2. Reached(p)'
    BY <2>1 DEF Reached, Idle
  <2>3. SawInstance(p)' /\ SawObject(p)' /\ Marked(p)'
    BY <2>1 DEF SawInstance, SawObject, Marked
  <2> QED BY <2>2, <2>3 DEF Knows
<1> QED BY <1>1, <1>2

(* A step that changes the server: its error needs no more care.           *)
LEMMA AnswerKnows ==
  ASSUME Inv, Flags, NEW p \in Caller, Reached(p), Knows(p), pc[p] \notin Idle,
         NEW l \in PC, Answered(p, l)
  PROVE  /\ req' = req /\ had' = had /\ target' = target
         /\ quiet'[p] => quiet[p]
         /\ \/ Reached(p)' /\ Knows(p)'
            \/ pc'[p] = l /\ logged'[p] = logged[p]
<1>1. req' = req /\ had' = had /\ target' = target /\ (quiet'[p] => quiet[p])
  BY DEF Answered
<1>2. CASE Then(p, l)
  BY <1>1, <1>2 DEF Then, Goto, Inv, Typed
<1>3. CASE Fault(p)
  BY <1>1, <1>3, ErrorKnows DEF Fault
<1> QED BY <1>1, <1>2, <1>3 DEF Answered

(* A step that reads and goes on.                                          *)
LEMMA ReadKnows ==
  ASSUME Inv, NEW p \in Caller, NEW l \in PC, Then(p, l), Reads
  PROVE  /\ pc'[p] = l /\ logged'[p] = logged[p] /\ obj' = obj
         /\ req' = req /\ had' = had /\ quiet' = quiet
BY DEF Then, Goto, Reads, server, Inv, Typed

-----------------------------------------------------------------------------
(* The steps of a call.                                                    *)
LEMMA GuidKnows ==
  ASSUME Inv, NEW p \in Caller, Reached(p), Knows(p), Guid(p)
  PROVE  Reached(p)' /\ Knows(p)'
<1> DEFINE l == IF Exists(target[p]) THEN "details" ELSE "post"
<1>1. l \in PC /\ Then(p, l) /\ Reads /\ target' = target
  BY DEF Guid, PC
<1>2. pc[p] = "guid" /\ target[p] \in DN /\ req[p].op = "request"
  BY DEF Guid, At, Inv, Placed, Idle, Requesting
<1>3. /\ pc'[p] = l /\ logged'[p] = logged[p] /\ obj' = obj
      /\ req' = req /\ had' = had /\ quiet' = quiet
  BY <1>1, ReadKnows
<1>4. l \in {"details", "post"} /\ (l = "post" => ~Exists(target[p]))
  OBVIOUS
<1> HIDE DEF l
<1>5. Reached(p)'
  BY <1>2, <1>3, <1>4 DEF Reached, Idle, Requesting
<1>6. SawInstance(p)' \/ ~quiet[p]
  <2>1. quiet[p] => (had[p] <=> Taken(p))
    BY <1>2 DEF Knows, SawInstance
  <2>2. Taken(p)' <=> Taken(p)
    BY <1>1, <1>3 DEF Taken
  <2>3. l = "post" => ~Taken(p)
    BY <1>2, <1>4 DEF Taken, Inv, NewIsUnserved
  <2> QED BY <2>1, <2>2, <2>3, <1>3, <1>4 DEF SawInstance
<1>7. SawObject(p)' /\ Marked(p)'
  BY <1>3, <1>4 DEF SawObject, Marked
<1> QED BY <1>3, <1>5, <1>6, <1>7 DEF Knows

LEMMA DetailsKnows ==
  ASSUME Inv, NEW p \in Caller, Reached(p), Knows(p), Details(p)
  PROVE  Reached(p)' /\ Knows(p)'
<1> DEFINE l == Compared(p)
<1>1. /\ l \in {"dissociate", "failed", "post"}
      /\ l = "dissociate" => req[p].replace
      /\ l = "post" => ~Taken(p)
  BY DEF Compared
<1>2. l \in PC /\ Then(p, l) /\ Reads /\ target' = target
  BY <1>1 DEF Details, PC, Idle
<1>3. pc[p] = "details" /\ req[p].op = "request"
  BY DEF Details, At, Inv, Placed, Requesting
<1>4. /\ pc'[p] = l /\ logged'[p] = logged[p] /\ obj' = obj
      /\ req' = req /\ had' = had /\ quiet' = quiet
  BY <1>2, ReadKnows
<1> HIDE DEF l
<1>5. Reached(p)'
  BY <1>1, <1>3, <1>4 DEF Reached, Idle, Requesting
<1>6. SawInstance(p)' \/ ~quiet[p]
  <2>1. quiet[p] => (had[p] <=> Taken(p))
    BY <1>3 DEF Knows, SawInstance
  <2> QED BY <2>1, <1>1, <1>4 DEF SawInstance
<1>7. SawObject(p)' /\ Marked(p)'
  BY <1>1, <1>4 DEF SawObject, Marked
<1> QED BY <1>4, <1>5, <1>6, <1>7 DEF Knows

LEMMA DissociateKnows ==
  ASSUME Inv, Flags, NEW p \in Caller, Reached(p), Knows(p), Dissociate(p)
  PROVE  Reached(p)' /\ Knows(p)'
<1>1. pc[p] = "dissociate" /\ req[p].op = "request" /\ req[p].replace
  <2>1. pc[p] = "dissociate" /\ Replaces(p)
    BY DEF Dissociate, At, Inv, Placed
  <2> QED BY <2>1 DEF Replaces
<1>2. Answered(p, "post") /\ "post" \in PC /\ pc[p] \notin Idle
  BY <1>1 DEF Dissociate, PC, Idle
<1>3. /\ req' = req /\ had' = had
      /\ \/ Reached(p)' /\ Knows(p)'
         \/ pc'[p] = "post" /\ logged'[p] = logged[p]
  BY <1>2, AnswerKnows
<1>4. CASE pc'[p] = "post"
  <2>1. Reached(p)'
    BY <1>1, <1>3, <1>4 DEF Reached, Idle, Requesting
  <2>2. SawInstance(p)' /\ SawObject(p)' /\ Marked(p)'
    BY <1>1, <1>3, <1>4 DEF SawInstance, SawObject, Marked
  <2> QED BY <2>1, <2>2 DEF Knows
<1> QED BY <1>3, <1>4

LEMMA PostKnows ==
  ASSUME Inv, Flags, NEW p \in Caller, Reached(p), Knows(p), Post(p)
  PROVE  Reached(p)' /\ Knows(p)'
<1>1. pc[p] = "post" /\ target[p] \in DN /\ req[p].op = "request"
  BY DEF Post, At, Inv, Placed, Idle, Requesting
<1>2. PICK l \in {"done", "metadata"} : Answered(p, l) /\ (l = "done" => req[p].want = {})
  BY DEF Post
<1>3. l \in PC /\ pc[p] \notin Idle
  BY <1>1 DEF PC, Idle
<1>4. /\ req' = req /\ had' = had /\ target' = target /\ (quiet'[p] => quiet[p])
      /\ \/ Reached(p)' /\ Knows(p)'
         \/ pc'[p] = l /\ logged'[p] = logged[p]
  BY <1>2, <1>3, AnswerKnows
<1>5. "origin" \in (obj'[target[p]]).marks
  BY <1>1 DEF Post, Issue, Inv, Typed
<1>6. CASE pc'[p] = l /\ logged'[p] = logged[p]
  <2>1. Reached(p)'
    BY <1>1, <1>4, <1>6 DEF Reached, Idle, Requesting
  <2>2. SawInstance(p)' \/ ~quiet'[p]
    BY <1>1, <1>4, <1>6 DEF Knows, SawInstance
  <2>3. SawObject(p)' /\ Marked(p)'
    BY <1>1, <1>2, <1>4, <1>5, <1>6 DEF SawObject, Marked
  <2> QED BY <2>1, <2>2, <2>3 DEF Knows
<1> QED BY <1>4, <1>6

LEMMA MetadataKnows ==
  ASSUME Inv, NEW p \in Caller, Reached(p), Knows(p), Metadata(p)
  PROVE  Reached(p)' /\ Knows(p)'
<1>1. PICK l \in {"done", "items"} :
        Then(p, l) /\ (l = "done" => req[p].want \subseteq obj[target[p]].marks)
  BY DEF Metadata, AllItemsFound
<1>2. l \in PC /\ Reads /\ target' = target
  BY DEF Metadata, PC, Idle
<1>3. pc[p] = "metadata" /\ req[p].op = "request"
  BY DEF Metadata, At, Inv, Placed, Requesting
<1>4. /\ pc'[p] = l /\ logged'[p] = logged[p] /\ obj' = obj
      /\ req' = req /\ had' = had /\ quiet' = quiet
  BY <1>1, <1>2, ReadKnows
<1>5. Reached(p)'
  BY <1>3, <1>4 DEF Reached, Idle, Requesting
<1>6. (SawInstance(p)' /\ Marked(p)') \/ ~quiet[p]
  BY <1>1, <1>2, <1>3, <1>4 DEF Knows, SawInstance, Marked
<1>7. SawObject(p)'
  BY <1>4 DEF SawObject
<1> QED BY <1>4, <1>5, <1>6, <1>7 DEF Knows

LEMMA ItemsKnows ==
  ASSUME Inv, NEW p \in Caller, Reached(p), Knows(p), Items(p)
  PROVE  Reached(p)' /\ Knows(p)'
<1>1. PICK l \in {"done", "set"} : Then(p, l) /\ (l = "done" => req[p].want \cap Known = {})
  BY DEF Items
<1>2. l \in PC /\ Reads /\ target' = target
  BY DEF Items, PC, Idle
<1>3. pc[p] = "items" /\ req[p].op = "request"
  BY DEF Items, At, Inv, Placed, Requesting
<1>4. /\ pc'[p] = l /\ logged'[p] = logged[p] /\ obj' = obj
      /\ req' = req /\ had' = had /\ quiet' = quiet
  BY <1>1, <1>2, ReadKnows
<1>5. Reached(p)'
  BY <1>3, <1>4 DEF Reached, Idle, Requesting
<1>6. (SawInstance(p)' /\ Marked(p)') \/ ~quiet[p]
  BY <1>1, <1>2, <1>3, <1>4 DEF Knows, SawInstance, Marked
<1>7. SawObject(p)'
  BY <1>4 DEF SawObject
<1> QED BY <1>4, <1>5, <1>6, <1>7 DEF Knows

LEMMA SetMetadataKnows ==
  ASSUME Inv, Flags, NEW p \in Caller, Reached(p), Knows(p), SetMetadata(p)
  PROVE  Reached(p)' /\ Knows(p)'
<1>1. pc[p] = "set" /\ target[p] \in DN /\ req[p].op = "request"
  BY DEF SetMetadata, At, Inv, Placed, Idle, Requesting
<1>2. Answered(p, "done") /\ "done" \in PC /\ pc[p] \notin Idle
  BY <1>1 DEF SetMetadata, PC, Idle
<1>3. /\ req' = req /\ had' = had /\ target' = target /\ (quiet'[p] => quiet[p])
      /\ \/ Reached(p)' /\ Knows(p)'
         \/ pc'[p] = "done" /\ logged'[p] = logged[p]
  BY <1>2, AnswerKnows
<1>4. (obj'[target[p]]).marks = obj[target[p]].marks \cup (req[p].want \cap Known)
  BY <1>1 DEF SetMetadata, Inv, Typed, Object
<1>5. CASE pc'[p] = "done"
  <2>1. Reached(p)'
    BY <1>1, <1>3, <1>5 DEF Reached, Idle
  <2>2. (SawInstance(p)' /\ Marked(p)') \/ ~quiet'[p]
    BY <1>1, <1>3, <1>4, <1>5 DEF Knows, SawInstance, Marked
  <2>3. SawObject(p)'
    BY <1>5 DEF SawObject
  <2> QED BY <2>1, <2>2, <2>3 DEF Knows
<1> QED BY <1>3, <1>5

(* One object holds the certificate: the object that is taken.             *)
LEMMA SearchKnows ==
  ASSUME Inv, NEW p \in Caller, Reached(p), Knows(p), Search(p)
  PROVE  Reached(p)' /\ Knows(p)'
<1> DEFINE found == Holders(req[p].serial)
<1>1. pc[p] = "search" /\ Reads /\ req[p].op \notin {"request", "import"}
  BY DEF Search, At, Reached, PC, Idle, Requesting
<1>2. CASE Single(found)
  <2>1. PICK d \in found : target' = [target EXCEPT ![p] = d] /\ Then(p, Found(req[p]))
    BY <1>2 DEF Search
  <2>2. Found(req[p]) \in {"renew", "object"}
    BY DEF Found
  <2>3. /\ pc'[p] \in {"renew", "object"} /\ logged'[p] = logged[p] /\ obj' = obj
        /\ req' = req /\ had' = had /\ quiet' = quiet
    <3>1. Found(req[p]) \in PC
      BY <2>2 DEF PC
    <3> QED BY <1>1, <2>1, <2>2, <3>1, ReadKnows
  <2>4. found = {target'[p]}
    <3>1. target'[p] = d
      BY <2>1 DEF Inv, Typed
    <3> HIDE DEF found
    <3>2. PICK e \in found : found = {e}
      BY <1>2 DEF Single
    <3> QED BY <2>1, <3>1, <3>2
  <2>5. Reached(p)'
    BY <1>1, <2>3 DEF Reached
  <2>6. SawInstance(p)' /\ Marked(p)'
    BY <2>3 DEF SawInstance, Marked
  <2>7. SawObject(p)'
    BY <2>3, <2>4 DEF SawObject, Holders
  <2> QED BY <2>5, <2>6, <2>7 DEF Knows
<1>3. CASE ~Single(found)
  <2>1. Then(p, "failed") /\ "failed" \in PC
    BY <1>3 DEF Search, PC, Idle
  <2>2. pc'[p] = "failed" /\ req' = req /\ had' = had
    BY <1>1, <2>1, ReadKnows
  <2>3. Reached(p)'
    BY <1>1, <2>2 DEF Reached, Idle
  <2>4. SawInstance(p)' /\ SawObject(p)' /\ Marked(p)'
    BY <2>2 DEF SawInstance, SawObject, Marked
  <2> QED BY <2>3, <2>4 DEF Knows
<1> QED BY <1>2, <1>3

LEMMA ObjectGuidKnows ==
  ASSUME Inv, NEW p \in Caller, Reached(p), Knows(p), ObjectGuid(p)
  PROVE  Reached(p)' /\ Knows(p)'
<1>1. pc[p] = "object" /\ Then(p, "put") /\ "put" \in PC /\ Reads /\ target' = target
  BY DEF ObjectGuid, At, PC
<1>2. /\ pc'[p] = "put" /\ logged'[p] = logged[p] /\ obj' = obj
      /\ req' = req /\ had' = had /\ quiet' = quiet
  BY <1>1, ReadKnows
<1>3. req[p].op # "request"
  BY <1>1 DEF Reached, PC, Idle, Requesting
<1>4. Reached(p)'
  BY <1>1, <1>2, <1>3 DEF Reached, PC, Idle, Requesting
<1>5. SawInstance(p)' /\ Marked(p)'
  BY <1>2 DEF SawInstance, Marked
<1>6. SawObject(p)' \/ ~quiet[p]
  BY <1>1, <1>2 DEF Knows, SawObject, Holders
<1> QED BY <1>2, <1>4, <1>5, <1>6 DEF Knows

LEMMA PutKnows ==
  ASSUME Inv, Flags, NEW p \in Caller, Reached(p), Knows(p), Put(p)
  PROVE  Reached(p)' /\ Knows(p)'
<1> DEFINE o == Changed(obj[target[p]], req[p])
<1>1. pc[p] = "put" /\ target[p] \in DN /\ obj[target[p]] \in Object
  BY DEF Put, At, Inv, Typed, Placed, Idle
<1>2. PICK l \in {"renew", "done"} : Answered(p, l) /\ (l = "renew" <=> req[p].op = "renew")
  BY DEF Put
<1>3. l \in PC /\ pc[p] \notin Idle /\ req[p].op # "request" /\ ~had[p]
  BY <1>1 DEF Reached, PC, Idle, Requesting
<1>4. /\ req' = req /\ had' = had /\ target' = target /\ (quiet'[p] => quiet[p])
      /\ \/ Reached(p)' /\ Knows(p)'
         \/ pc'[p] = l /\ logged'[p] = logged[p]
  BY <1>2, <1>3, AnswerKnows
<1>5. /\ o.cert = obj[target[p]].cert
      /\ req[p].op = "import" => "origin" \in o.marks
  BY <1>1 DEF Object, Changed
<1>6. obj' = [obj EXCEPT ![target[p]] = o]
  BY DEF Put
<1> HIDE DEF o
<1>7. CASE pc'[p] = l /\ logged'[p] = logged[p]
  <2>1. Reached(p)'
    BY <1>2, <1>3, <1>4, <1>7 DEF Reached, Idle
  <2>2. SawInstance(p)'
    BY <1>3, <1>4, <1>7 DEF SawInstance
  <2>3. Marked(p)'
    BY <1>1, <1>3, <1>4, <1>5, <1>6, <1>7 DEF Marked, Inv, Typed
  <2>4. SawObject(p)' \/ ~quiet'[p]
    <3>1. \A d \in DN : (obj'[d]).cert = obj[d].cert
      BY <1>1, <1>5, <1>6 DEF Inv, Typed
    <3> QED BY <3>1, <1>1, <1>4, <1>7 DEF Knows, SawObject, Holders
  <2> QED BY <2>1, <2>2, <2>3, <2>4 DEF Knows
<1> QED BY <1>4, <1>7

(* The last exchange of a call that is neither a request nor an import.    *)
LEMMA LastKnows ==
  ASSUME Inv, Flags, NEW p \in Caller, Reached(p), Knows(p),
         pc[p] \in {"renew", "revoke"}, Answered(p, "done")
  PROVE  Reached(p)' /\ Knows(p)'
<1>1. "done" \in PC /\ pc[p] \notin Idle /\ req[p].op \notin {"request", "import"} /\ ~had[p]
  BY DEF Reached, PC, Idle, Requesting
<1>2. /\ req' = req /\ had' = had
      /\ \/ Reached(p)' /\ Knows(p)'
         \/ pc'[p] = "done" /\ logged'[p] = logged[p]
  BY <1>1, AnswerKnows
<1>3. CASE pc'[p] = "done"
  <2>1. Reached(p)'
    BY <1>1, <1>2, <1>3 DEF Reached, Idle
  <2>2. SawInstance(p)' /\ SawObject(p)' /\ Marked(p)'
    BY <1>1, <1>2, <1>3 DEF SawInstance, SawObject, Marked
  <2> QED BY <2>1, <2>2 DEF Knows
<1> QED BY <1>2, <1>3

LEMMA ImportKnows ==
  ASSUME Inv, Flags, NEW p \in Caller, Reached(p), Knows(p), Import(p)
  PROVE  Reached(p)' /\ Knows(p)'
<1>1. pc[p] = "import" /\ req[p].op = "import"
  BY DEF Import, At, Inv, Placed
<1>2. Answered(p, "object") /\ "object" \in PC /\ pc[p] \notin Idle /\ ~had[p]
  BY <1>1 DEF Import, Reached, PC, Idle
<1>3. /\ req' = req /\ had' = had
      /\ \/ Reached(p)' /\ Knows(p)'
         \/ pc'[p] = "object" /\ logged'[p] = logged[p]
  BY <1>2, AnswerKnows
<1>4. CASE pc'[p] = "object"
  <2>1. Reached(p)'
    BY <1>1, <1>2, <1>3, <1>4 DEF Reached
  <2>2. SawInstance(p)' /\ SawObject(p)' /\ Marked(p)'
    BY <1>1, <1>3, <1>4 DEF SawInstance, SawObject, Marked
  <2> QED BY <2>1, <2>2 DEF Knows
<1> QED BY <1>3, <1>4

LEMMA PageKnows ==
  ASSUME Inv, NEW p \in Caller, Reached(p), Knows(p), Page(p)
  PROVE  Reached(p)' /\ Knows(p)'
<1>1. PICK l \in {"done", "page"} : Then(p, l)
  BY DEF Page
<1>2. pc[p] = "page" /\ l \in PC /\ Reads
  BY DEF Page, At, PC, Idle
<1>3. req[p].op \notin {"request", "import"} /\ ~had[p]
  BY <1>2 DEF Reached, PC, Idle, Requesting
<1>4. pc'[p] = l /\ req' = req /\ had' = had
  BY <1>1, <1>2, ReadKnows
<1>5. Reached(p)'
  BY <1>3, <1>4 DEF Reached
<1>6. SawInstance(p)' /\ SawObject(p)' /\ Marked(p)'
  BY <1>3, <1>4 DEF SawInstance, SawObject, Marked
<1> QED BY <1>5, <1>6 DEF Knows

LEMMA StartKnows ==
  ASSUME Inv, Flags, NEW p \in Caller, NEW c \in Calls, Start(p, c)
  PROVE  Reached(p)' /\ Knows(p)'
<1>1. /\ FirstStep(c) \in {"guid", "post", "object", "renew", "search", "failed", "page",
                           "revoke", "import"}
      /\ FirstStep(c) = "post" => c.dev = None
      /\ FirstStep(c) \in {"guid", "post"} => c.op = "request"
      /\ FirstStep(c) \notin {"guid", "post"} => c.op # "request"
      /\ FirstStep(c) \in {"search", "renew", "revoke", "page"} => c.op # "import"
      /\ FirstStep(c) \in {"object", "renew"} => c.dn # None
  BY BeginsAt
<1>2. /\ pc'[p] = FirstStep(c) /\ req'[p] = c /\ target'[p] = c.dn /\ obj' = obj
  BY DEF Start, Goto, server, Inv, Typed
<1>3. had'[p] <=> c.op = "request" /\ c.dev \in obj[c.dn].uses
  BY DEF Start, Flags
<1>4. Reached(p)'
  <2>1. had'[p] => c.op = "request" /\ pc'[p] # "idle"
    BY <1>1, <1>2, <1>3
  <2> QED BY <1>1, <1>2, <2>1 DEF Reached, Idle, Requesting
<1>5. SawInstance(p)'
  <2>1. FirstStep(c) = "guid" => (had'[p] <=> Taken(p)')
    BY <1>1, <1>2, <1>3 DEF Taken
  <2>2. FirstStep(c) = "post" => ~had'[p]
    <3>1. CASE c.op = "request" /\ c.dev = None
      BY <3>1, <1>3, RequestFields, TppObjectsAssumption DEF Inv, Typed, Object
    <3> QED BY <3>1, <1>1
  <2> QED BY <2>1, <2>2, <1>1, <1>2 DEF SawInstance
<1>6. SawObject(p)' /\ Marked(p)'
  BY <1>1, <1>2 DEF SawObject, Marked
<1> QED BY <1>4, <1>5, <1>6 DEF Knows

-----------------------------------------------------------------------------
LEMMA FlagsNext == Inv /\ Flags /\ [Next]_vars => Flags'
<1> SUFFICES ASSUME Inv, Flags, [Next]_vars PROVE Flags'
  OBVIOUS
<1>1. had' \in [Caller -> BOOLEAN]
  <2>1. ASSUME NEW p \in Caller, NEW c \in Calls, Start(p, c)
        PROVE  had' \in [Caller -> BOOLEAN]
    <3> DEFINE b == c.op = "request" /\ c.dev \in obj[c.dn].uses
    <3>1. had' = [had EXCEPT ![p] = b] /\ b \in BOOLEAN
      BY <2>1 DEF Start
    <3> HIDE DEF b
    <3> QED BY <3>1 DEF Flags
  <2>2. CASE had' = had
    BY <2>2 DEF Flags
  <2>3. ASSUME NEW p \in Caller, Step(p) \/ Fail(p) PROVE had' = had
    BY <2>3 DEF Step, Fail, Reads, Answered, Guid, Details, Dissociate, Post, Metadata, Items,
                SetMetadata, Search, ObjectGuid, Put, Renew, Refused, Revoke, Import, Page
  <2> QED BY <2>1, <2>2, <2>3 DEF Next, Expire, vars
<1>2. logged' \in [Caller -> BOOLEAN]
  <2>1. ASSUME NEW p \in Caller, Error(p) PROVE logged' \in [Caller -> BOOLEAN]
    BY <2>1 DEF Error, Flags
  <2>2. ASSUME NEW p \in Caller, NEW c \in Calls, Start(p, c)
        PROVE  logged' \in [Caller -> BOOLEAN]
    BY <2>2 DEF Start, Flags
  <2>3. ASSUME NEW p \in Caller, Step(p) \/ Fail(p)
        PROVE  logged' = logged \/ Error(p)
    BY <2>3 DEF Step, Fail, Answered, Then, Fault, Guid, Details, Dissociate, Post, Metadata,
                Items, SetMetadata, Search, ObjectGuid, Put, Renew, Refused, Revoke, Import, Page
  <2> QED BY <2>1, <2>2, <2>3 DEF Next, Expire, vars, caller, Flags
<1>3. quiet' \in [Caller -> BOOLEAN]
  <2>1. ASSUME NEW p \in Caller, quiet' = [q \in Caller |-> q = p /\ quiet[q]]
        PROVE  quiet' \in [Caller -> BOOLEAN]
    BY <2>1
  <2>2. ASSUME NEW p \in Caller, NEW c \in Calls, Start(p, c)
        PROVE  quiet' \in [Caller -> BOOLEAN]
    BY <2>2 DEF Start, Flags
  <2>3. ASSUME NEW d \in DN, Expire(d)
        PROVE  quiet' \in [Caller -> BOOLEAN]
    BY <2>3 DEF Expire
  <2>4. ASSUME NEW p \in Caller, Step(p) \/ Fail(p)
        PROVE  quiet' = quiet \/ quiet' = [q \in Caller |-> q = p /\ quiet[q]]
    BY <2>4 DEF Step, Fail, Reads, Answered, Guid, Details, Dissociate, Post, Metadata, Items,
                SetMetadata, Search, ObjectGuid, Put, Renew, Refused, Revoke, Import, Page
  <2> QED BY <2>1, <2>2, <2>3, <2>4 DEF Next, vars, Flags
<1> QED BY <1>1, <1>2, <1>3 DEF Flags

LEMMA InitKnowledge == Init => KnowledgeInv
<1> SUFFICES ASSUME Init PROVE KnowledgeInv
  OBVIOUS
<1>1. Flags
  BY DEF Init, Flags
<1>2. ASSUME NEW p \in Caller PROVE Reached(p) /\ Knows(p)
  <2>1. pc[p] = "idle" /\ ~had[p]
    BY DEF Init
  <2> QED BY <2>1 DEF Reached, Idle, Knows, SawInstance, SawObject, Marked
<1> QED BY <1>1, <1>2, InitInv DEF KnowledgeInv

LEMMA OwnStep ==
  ASSUME Inv, Flags, NEW p \in Caller, Reached(p), Knows(p),
         Step(p) \/ Fail(p) \/ (\E c \in Calls : Start(p, c))
  PROVE  Reached(p)' /\ Knows(p)'
<1>1. CASE Guid(p) \/ Details(p) \/ Dissociate(p) \/ Post(p)
  BY <1>1, GuidKnows, DetailsKnows, DissociateKnows, PostKnows
<1>2. CASE Metadata(p) \/ Items(p) \/ SetMetadata(p)
  BY <1>2, MetadataKnows, ItemsKnows, SetMetadataKnows
<1>3. CASE Search(p) \/ ObjectGuid(p) \/ Put(p) \/ Import(p) \/ Page(p)
  BY <1>3, SearchKnows, ObjectGuidKnows, PutKnows, ImportKnows, PageKnows
<1>4. CASE Renew(p) \/ Revoke(p)
  <2>1. pc[p] \in {"renew", "revoke"} /\ Answered(p, "done")
    BY <1>4 DEF Renew, Revoke, At
  <2> QED BY <2>1, LastKnows
<1>5. CASE Refused(p) \/ Fail(p)
  <2>1. Error(p) /\ Reads /\ pc[p] \notin Idle
    BY <1>5 DEF Refused, Fail, Fault, At, Idle
  <2> QED BY <2>1, ErrorKnows DEF Reads
<1>6. CASE \E c \in Calls : Start(p, c)
  BY <1>6, StartKnows
<1> QED BY <1>1, <1>2, <1>3, <1>4, <1>5, <1>6 DEF Step

LEMMA NextKnowledge ==
  ASSUME KnowledgeInv, [Next]_vars
  PROVE  KnowledgeInv'
<1>1. Inv' /\ Flags'
  BY NextInv, FlagsNext DEF KnowledgeInv
<1>2. ASSUME NEW p \in Caller PROVE Reached(p)' /\ Knows(p)'
  <2>1. Inv /\ Flags /\ Reached(p) /\ Knows(p)
    BY DEF KnowledgeInv
  <2>2. CASE Step(p) \/ Fail(p) \/ (\E c \in Calls : Start(p, c))
    BY <2>1, <2>2, OwnStep
  <2>3. ASSUME NEW q \in Caller \ {p}, Step(q) \/ Fail(q) \/ (\E c \in Calls : Start(q, c))
        PROVE  Reached(p)' /\ Knows(p)'
    BY <2>1, <2>3, OtherStep, KnowledgeStays
  <2>4. ASSUME NEW d \in DN, Expire(d) PROVE Reached(p)' /\ Knows(p)'
    <3>1. ~quiet'[p] \/ (quiet'[p] = quiet[p] /\ obj' = obj)
      <4>1. quiet'[p] <=> quiet[p] /\ ~(pc[p] # "idle" /\ req[p].op = "list")
        BY <2>4 DEF Expire
      <4>2. quiet[p] \in BOOLEAN /\ quiet'[p] \in BOOLEAN
        BY <2>1, <1>1 DEF Flags
      <4> QED BY <4>1, <4>2, <2>4 DEF Expire
    <3> QED BY <2>1, <2>4, <3>1, KnowledgeStays DEF Expire, caller
  <2>5. CASE UNCHANGED vars
    BY <2>1, <2>5, KnowledgeStays DEF vars, server, caller
  <2> QED BY <2>2, <2>3, <2>4, <2>5 DEF Next
<1> QED BY <1>1, <1>2 DEF KnowledgeInv

(* connector.go:667-709, 1504-1559, 1589-1612.  What a call has looked up  *)
(* holds when it acts on it, as long as nobody else disturbs it.           *)
THEOREM CallsActOnTheirObject == Spec => []ActsOnItsObject
<1>1. KnowledgeInv => ActsOnItsObject
  <2> SUFFICES ASSUME KnowledgeInv PROVE ActsOnItsObject
    OBVIOUS
  <2>1. TakenInstanceIsRefused
    <3> SUFFICES ASSUME NEW p \in Caller, had[p], quiet[p],
                        pc[p] \in {"post", "metadata", "items", "set", "done"}
                 PROVE  req[p].replace
      BY DEF TakenInstanceIsRefused
    <3> QED BY DEF KnowledgeInv, Knows, SawInstance
  <2>2. ThumbprintIsIdentity
    BY DEF KnowledgeInv, Knows, SawObject, ThumbprintIsIdentity
  <2> QED BY <2>1, <2>2 DEF ActsOnItsObject
<1> QED BY <1>1, InitKnowledge, NextKnowledge, PTL DEF Spec

(* connector.go:738-792 and 1712-1722.  A request that succeeds has set    *)
(* the custom fields the server knows and the origin, an import the origin *)
(* or it has logged an error, unless another caller changed the object.    *)
THEOREM MarkedOrReported == Spec => []MarkedOrLogged
<1>1. KnowledgeInv => MarkedOrLogged
  BY DEF KnowledgeInv, Knows, Marked, MarkedOrLogged, At
<1> QED BY <1>1, InitKnowledge, NextKnowledge, PTL DEF Spec

-----------------------------------------------------------------------------
(* Renewals and SANs.  What is imported is a certificate that exists.      *)
KnownImports == \A c \in Calls : c.op = "import" => c.serial <= Len(First)

Whole(d) == obj[d].cert <= issued /\ (~obj[d].sans /\ obj[d].cert \in withSans => HalfOmitted(d))
(* The object of a renewal is changed for OmitSANs only.                   *)
Cleaning(p) == pc[p] \in {"object", "put"} /\ req[p].op = "renew" => req[p].omit

SansInv ==
  /\ Inv
  /\ Len(First) <= issued /\ withSans \subseteq 1..issued
  /\ \A p \in Caller : Cleaning(p)
  /\ \A d \in DN : Whole(d)

(* A renewal that omits the SANs and is past their cleaning.               *)
HalfWay(p, d) == At(p, "renew") /\ Omits(p) /\ target[p] = d

(* It stays on record, also when it fails.                                 *)
LEMMA ErrorRecords ==
  ASSUME NEW p \in Caller, Error(p), At(p, "put") \/ At(p, "renew"), Omits(p)
  PROVE  <<target[p], "sans">> \in loose'
<1>1. req[p].op = "renew" /\ ~OnlyLogged(p)
  BY DEF Omits, OnlyLogged, At
<1>2. ~Replaces(p) /\ Left(p) = {<<target[p], "sans">>}
  BY <1>1 DEF Replaces, Left, At
<1> QED BY <1>1, <1>2 DEF Error

LEMMA RecordStays ==
  ASSUME NEW p \in Caller, NEW d \in DN, HalfOmitted(d), loose \subseteq loose',
         \A q \in Caller \ {p} : pc'[q] = pc[q] /\ req'[q] = req[q] /\ target'[q] = target[q],
         HalfWay(p, d) => <<d, "sans">> \in loose'
  PROVE  HalfOmitted(d)'
<1>1. CASE <<d, "sans">> \in loose
  BY <1>1 DEF HalfOmitted
<1>2. CASE \E q \in Caller : HalfWay(q, d)
  <2>1. PICK q \in Caller : HalfWay(q, d)
    BY <1>2
  <2>2. CASE q = p
    BY <2>1, <2>2 DEF HalfOmitted
  <2>3. CASE q # p
    <3>1. pc'[q] = pc[q] /\ req'[q] = req[q] /\ target'[q] = target[q]
      BY <2>3
    <3>2. At(q, "renew")' /\ target'[q] = d /\ Omits(q)'
      BY <2>1, <3>1, Zenon DEF HalfWay, At, Omits
    <3> QED BY <3>2 DEF HalfOmitted
  <2> QED BY <2>2, <2>3
<1> QED BY <1>1, <1>2 DEF HalfOmitted, HalfWay

(* A step that leaves the certificates and their SANs as they are.         *)
LEMMA SameSans ==
  ASSUME SansInv, NEW p \in Caller, loose \subseteq loose', issued' = issued,
         withSans' = withSans,
         \A d \in DN : (obj'[d]).cert = obj[d].cert /\ (obj'[d]).sans = obj[d].sans,
         \A q \in Caller \ {p} : pc'[q] = pc[q] /\ req'[q] = req[q] /\ target'[q] = target[q],
         \A d \in DN : HalfWay(p, d) => <<d, "sans">> \in loose'
  PROVE  \A d \in DN : Whole(d)'
<1> TAKE d \in DN
<1>1. Whole(d) /\ (HalfOmitted(d) => HalfOmitted(d)')
  BY RecordStays DEF SansInv
<1> QED BY <1>1 DEF Whole

(* A new certificate in an object, and perhaps SANs.                       *)
LEMMA NewCertificate ==
  ASSUME SansInv, NEW p \in Caller, NEW t \in DN, NEW o, NEW b \in BOOLEAN,
         obj' = [obj EXCEPT ![t] = o], issued' = issued + 1,
         o.cert = issued + 1, o.sans = b,
         withSans' = IF b THEN withSans \cup {issued + 1} ELSE withSans,
         loose \subseteq loose',
         \A q \in Caller \ {p} : pc'[q] = pc[q] /\ req'[q] = req[q] /\ target'[q] = target[q],
         \A d \in DN : HalfWay(p, d) => d = t
  PROVE  /\ Len(First) <= issued' /\ withSans' \subseteq 1..issued'
         /\ \A d \in DN : Whole(d)'
<1>0. issued \in Nat /\ Len(First) \in Nat
  BY TppObjectsAssumption DEF SansInv, Inv, Typed
<1>1. Len(First) <= issued' /\ withSans' \subseteq 1..issued'
  BY <1>0 DEF SansInv
<1>2. ASSUME NEW d \in DN PROVE Whole(d)'
  <2>1. CASE d = t
    <3>1. (obj'[d]).cert = issued + 1 /\ (obj'[d]).sans = b
      BY <2>1 DEF SansInv, Inv, Typed
    <3>2. b \/ issued + 1 \notin withSans'
      BY <1>0 DEF SansInv
    <3> QED BY <1>0, <3>1, <3>2 DEF Whole
  <2>2. CASE d # t
    <3>1. obj'[d] = obj[d] /\ obj[d].cert \in Nat
      BY <2>2 DEF SansInv, Inv, Typed, Object
    <3>2. Whole(d)
      BY DEF SansInv
    <3>3. HalfOmitted(d) => HalfOmitted(d)'
      BY <2>2, RecordStays
    <3>4. obj[d].cert \in withSans' => obj[d].cert \in withSans
      BY <1>0, <3>1, <3>2 DEF Whole
    <3> QED BY <1>0, <3>1, <3>2, <3>3, <3>4 DEF Whole
  <2> QED BY <2>1, <2>2
<1> QED BY <1>1, <1>2

(* What the steps of one caller leave alone.                               *)
LEMMA OnlyItself ==
  ASSUME Inv, NEW p \in Caller, Step(p) \/ Fail(p)
  PROVE  /\ req' = req /\ loose \subseteq loose'
         /\ \A q \in Caller \ {p} : pc'[q] = pc[q] /\ target'[q] = target[q]
<1>1. ASSUME Error(p)
      PROVE  loose \subseteq loose' /\ \A q \in Caller \ {p} : pc'[q] = pc[q]
  BY <1>1, ErrorEnds DEF Inv
<1>2. ASSUME NEW l \in PC, Then(p, l)
      PROVE  loose \subseteq loose' /\ \A q \in Caller \ {p} : pc'[q] = pc[q]
  BY <1>2 DEF Then, Goto, Inv, Typed
<1>3. ASSUME NEW l \in PC, Answered(p, l)
      PROVE  /\ req' = req /\ target' = target
             /\ loose \subseteq loose' /\ \A q \in Caller \ {p} : pc'[q] = pc[q]
  BY <1>3, AnswerEnds DEF Inv
<1>4. CASE Dissociate(p) \/ Post(p) \/ SetMetadata(p) \/ Put(p) \/ Renew(p) \/ Revoke(p) \/ Import(p)
  <2>1. \E l \in {"post", "done", "metadata", "renew", "object"} : Answered(p, l)
    BY <1>4 DEF Dissociate, Post, SetMetadata, Put, Renew, Revoke, Import
  <2>2. PICK l \in PC : Answered(p, l)
    BY <2>1 DEF PC, Idle
  <2> QED BY <1>3, <2>2
<1>5. CASE Guid(p) \/ Details(p) \/ Metadata(p) \/ Items(p) \/ ObjectGuid(p) \/ Page(p) \/ Search(p)
  <2>1. \E l \in {"details", "post", "dissociate", "failed", "done", "items", "set", "put", "page",
                  "renew", "object"} : Then(p, l)
    BY <1>5 DEF Guid, Details, Compared, Metadata, Items, ObjectGuid, Page, Search, Found
  <2>2. PICK l \in PC : Then(p, l)
    BY <2>1 DEF PC, Idle
  <2>3. req' = req /\ \A q \in Caller \ {p} : target'[q] = target[q]
    BY <1>5 DEF Guid, Details, Metadata, Items, ObjectGuid, Page, Search, Reads, Inv, Typed
  <2> QED BY <1>2, <2>2, <2>3
<1>6. CASE Refused(p) \/ Fail(p)
  BY <1>1, <1>6 DEF Refused, Fail, Fault, Reads
<1> QED BY <1>4, <1>5, <1>6 DEF Step

LEMMA CleaningNext ==
  ASSUME SansInv, NEW p \in Caller, Step(p) \/ Fail(p)
  PROVE  Cleaning(p)'
<1> SUFFICES ASSUME pc'[p] \in {"object", "put"}, req[p].op = "renew" PROVE req[p].omit
  BY OnlyItself DEF SansInv, Cleaning
<1>1. CASE Search(p)
  <2>1. ~Then(p, "failed")
    BY DEF Then, Goto, SansInv, Inv, Typed
  <2>2. Then(p, Found(req[p]))
    BY <1>1, <2>1 DEF Search
  <2>3. Found(req[p]) = "object"
    BY <2>2 DEF Then, Goto, Found, SansInv, Inv, Typed
  <2> QED BY <2>3, Zenon DEF Found, Cleans
<1>2. CASE ObjectGuid(p)
  BY <1>2 DEF ObjectGuid, At, SansInv, Cleaning
<1>3. CASE Import(p)
  BY <1>3 DEF Import, At, SansInv, Inv, Placed
<1>4. ASSUME Error(p) PROVE FALSE
  BY <1>4, ErrorEnds DEF SansInv, Inv
<1>5. ASSUME NEW l \in PC \ {"object", "put"}, Then(p, l) PROVE FALSE
  BY <1>5 DEF Then, Goto, SansInv, Inv, Typed
<1>6. CASE Dissociate(p) \/ Post(p) \/ SetMetadata(p) \/ Put(p) \/ Renew(p) \/ Revoke(p)
  <2>1. \E l \in {"post", "done", "metadata", "renew"} : Answered(p, l)
    BY <1>6 DEF Dissociate, Post, SetMetadata, Put, Renew, Revoke
  <2>2. PICK l \in PC \ {"object", "put"} : Answered(p, l)
    BY <2>1 DEF PC, Idle
  <2> QED BY <1>4, <1>5, <2>2 DEF Answered, Fault
<1>7. CASE Guid(p) \/ Details(p) \/ Metadata(p) \/ Items(p) \/ Page(p)
  <2>1. \E l \in {"details", "post", "dissociate", "failed", "done", "items", "set", "page"} : Then(p, l)
    BY <1>7 DEF Guid, Details, Compared, Metadata, Items, Page
  <2>2. PICK l \in PC \ {"object", "put"} : Then(p, l)
    BY <2>1 DEF PC, Idle
  <2> QED BY <1>5, <2>2
<1>8. CASE Refused(p) \/ Fail(p)
  BY <1>4, <1>8 DEF Refused, Fail, Fault
<1> QED BY <1>1, <1>2, <1>3, <1>6, <1>7, <1>8 DEF Step

(* The steps that change a certificate or its SANs.                        *)
LEMMA RenewKeepsSans ==
  ASSUME SansInv, NEW p \in Caller, Renew(p)
  PROVE  /\ Len(First) <= issued' /\ withSans' \subseteq 1..issued'
         /\ \A d \in DN : Whole(d)'
<1> DEFINE t == target[p]
           b == IF req[p].own THEN ~req[p].omit ELSE obj[t].sans
           o == [cert |-> issued + 1, sans |-> b, on |-> obj[t].on, uses |-> obj[t].uses,
                 marks |-> obj[t].marks]
<1>1. t \in DN /\ obj[t] \in Object
  BY DEF Renew, At, SansInv, Inv, Typed, Placed, Idle
<1>2. obj' = [obj EXCEPT ![t] = o] /\ issued' = issued + 1
  BY DEF Renew, Issue
<1>3. withSans' = IF b THEN withSans \cup {issued + 1} ELSE withSans
  BY DEF Renew, Issue
<1>4. o.cert = issued + 1 /\ o.sans = b
  OBVIOUS
<1>5. b \in BOOLEAN
  <2>1. obj[t].sans \in BOOLEAN
    BY <1>1 DEF Object
  <2> QED BY <2>1
<1>6. /\ loose \subseteq loose'
      /\ \A q \in Caller \ {p} : pc'[q] = pc[q] /\ req'[q] = req[q] /\ target'[q] = target[q]
  BY OnlyItself DEF SansInv, Step
<1>7. \A d \in DN : HalfWay(p, d) => d = t
  BY DEF HalfWay
<1> HIDE DEF b, o, t
<1> QED BY <1>1, <1>2, <1>3, <1>4, <1>5, <1>6, <1>7, NewCertificate

LEMMA PostKeepsSans ==
  ASSUME SansInv, NEW p \in Caller, Post(p)
  PROVE  /\ Len(First) <= issued' /\ withSans' \subseteq 1..issued'
         /\ \A d \in DN : Whole(d)'
<1> DEFINE t == target[p]
           o == [cert |-> issued + 1, sans |-> TRUE, on |-> TRUE,
                 uses |-> obj[t].uses \cup ({req[p].dev} \ {None}),
                 marks |-> (IF legacy \/ req[p].want = {} THEN obj[t].marks ELSE req[p].want)
                             \cup {"origin"}]
<1>1. t \in DN /\ At(p, "post")
  BY DEF Post, At, SansInv, Inv, Placed, Idle
<1>2. obj' = [obj EXCEPT ![t] = o] /\ issued' = issued + 1
  BY DEF Post, Issue
<1>3. withSans' = IF TRUE THEN withSans \cup {issued + 1} ELSE withSans
  BY DEF Post, Issue
<1>4. o.cert = issued + 1 /\ o.sans = TRUE
  OBVIOUS
<1>5. /\ loose \subseteq loose'
      /\ \A q \in Caller \ {p} : pc'[q] = pc[q] /\ req'[q] = req[q] /\ target'[q] = target[q]
  BY OnlyItself DEF SansInv, Step
<1>6. \A d \in DN : HalfWay(p, d) => d = t
  BY DEF HalfWay
<1> HIDE DEF o, t
<1> QED BY <1>1, <1>2, <1>3, <1>4, <1>5, <1>6, NewCertificate

LEMMA PutKeepsSans ==
  ASSUME SansInv, NEW p \in Caller, Put(p)
  PROVE  /\ issued' = issued /\ withSans' = withSans
         /\ \A d \in DN : Whole(d)'
<1> DEFINE o == Changed(obj[target[p]], req[p])
<1>1. /\ pc[p] = "put" /\ target[p] \in DN /\ obj[target[p]] \in Object
      /\ issued' = issued /\ withSans' = withSans
  BY DEF Put, At, SansInv, Inv, Typed, Placed, Idle
<1>2. /\ loose \subseteq loose' /\ req' = req
      /\ \A q \in Caller \ {p} : pc'[q] = pc[q] /\ req'[q] = req[q] /\ target'[q] = target[q]
  BY OnlyItself DEF SansInv, Step
<1>3. obj' = [obj EXCEPT ![target[p]] = o]
  BY DEF Put
<1>4. /\ o.cert = obj[target[p]].cert
      /\ o.sans # obj[target[p]].sans => req[p].op = "renew"
  BY <1>1 DEF Object, Changed
<1> HIDE DEF o
<1>5. \A d \in DN : ~HalfWay(p, d)
  BY <1>1 DEF HalfWay, At
<1>6. CASE req[p].op # "renew"
  <2>1. \A d \in DN : (obj'[d]).cert = obj[d].cert /\ (obj'[d]).sans = obj[d].sans
    BY <1>1, <1>3, <1>4, <1>6 DEF SansInv, Inv, Typed
  <2> QED BY <1>1, <1>2, <1>5, <2>1, SameSans
<1>7. CASE req[p].op = "renew"
  <2>1. Omits(p)
    BY <1>1, <1>7 DEF SansInv, Cleaning, Omits
  <2>2. HalfOmitted(target[p])'
    <3>1. CASE Then(p, "renew")
      <4>1. pc'[p] = "renew" /\ target' = target
        BY <3>1 DEF Then, Goto, Put, Answered, SansInv, Inv, Typed
      <4>2. At(p, "renew")' /\ target'[p] = target[p] /\ Omits(p)'
        BY <4>1, <2>1, <1>2, Zenon DEF At, Omits
      <4> QED BY <4>1, <4>2 DEF HalfOmitted
    <3>2. CASE Error(p)
      <4>1. <<target[p], "sans">> \in loose' /\ target' = target
        BY <1>1, <2>1, <3>2, ErrorRecords DEF At, Put, Answered
      <4> QED BY <4>1 DEF HalfOmitted
    <3> QED BY <1>7, <3>1, <3>2 DEF Put, Answered, Fault
  <2>3. ASSUME NEW d \in DN PROVE Whole(d)'
    <3>1. Whole(d)
      BY DEF SansInv
    <3>2. CASE d = target[p]
      <4>1. (obj'[d]).cert = obj[d].cert
        BY <1>1, <1>3, <1>4 DEF SansInv, Inv, Typed
      <4>2. HalfOmitted(d)'
        BY <2>2, <3>2 DEF Put, Answered
      <4> QED BY <4>1, <4>2, <3>1, <1>1 DEF Whole
    <3>3. CASE d # target[p]
      <4>1. obj'[d] = obj[d]
        BY <3>3, <1>3 DEF SansInv, Inv, Typed
      <4>2. HalfOmitted(d) => HalfOmitted(d)'
        BY <1>2, <1>5, RecordStays
      <4> QED BY <4>1, <4>2, <3>1, <1>1 DEF Whole
    <3> QED BY <3>2, <3>3
  <2> QED BY <1>1, <2>3
<1> QED BY <1>6, <1>7

LEMMA ImportKeepsSans ==
  ASSUME KnownImports, SansInv, NEW p \in Caller, Import(p)
  PROVE  /\ issued' = issued /\ withSans' = withSans
         /\ \A d \in DN : Whole(d)'
<1> DEFINE o == [cert |-> req[p].serial, sans |-> req[p].serial \in withSans,
                 on |-> TRUE, uses |-> {}, marks |-> {}]
<1>1. /\ pc[p] = "import" /\ target[p] \in DN
      /\ issued' = issued /\ withSans' = withSans
  BY DEF Import, At, SansInv, Inv, Typed, Placed, Idle
<1>2. req[p].serial \in Nat /\ req[p].serial <= issued
  <2>1. req[p] \in Calls /\ req[p].op = "import"
    BY <1>1 DEF SansInv, Inv, Placed, PC, Idle
  <2>2. Len(First) \in Nat /\ issued \in Nat
    BY TppObjectsAssumption DEF SansInv, Inv, Typed
  <2> QED BY <2>1, <2>2, ImportFields DEF KnownImports, SansInv
<1>3. /\ loose \subseteq loose'
      /\ \A q \in Caller \ {p} : pc'[q] = pc[q] /\ req'[q] = req[q] /\ target'[q] = target[q]
  BY OnlyItself DEF SansInv, Step
<1>4. obj' = [obj EXCEPT ![target[p]] = o]
  BY DEF Import
<1>5. o.cert = req[p].serial /\ (o.cert \in withSans => o.sans)
  OBVIOUS
<1> HIDE DEF o
<1> SUFFICES ASSUME NEW d \in DN PROVE Whole(d)'
  BY <1>1
<1>6. CASE d = target[p]
  <2>1. obj'[d] = o
    BY <1>4, <1>6 DEF SansInv, Inv, Typed
  <2> QED BY <2>1, <1>1, <1>2, <1>5, Zenon DEF Whole
<1>7. CASE d # target[p]
  <2>1. obj'[d] = obj[d] /\ Whole(d)
    BY <1>4, <1>7 DEF SansInv, Inv, Typed
  <2>2. HalfOmitted(d) => HalfOmitted(d)'
    BY <1>1, <1>3, RecordStays DEF HalfWay, At
  <2> QED BY <2>1, <2>2, <1>1 DEF Whole
<1> QED BY <1>6, <1>7

LEMMA StepKeepsSans ==
  ASSUME KnownImports, SansInv, NEW p \in Caller, Step(p) \/ Fail(p)
  PROVE  /\ Len(First) <= issued' /\ withSans' \subseteq 1..issued'
         /\ \A d \in DN : Whole(d)'
<1>1. /\ loose \subseteq loose'
      /\ \A q \in Caller \ {p} : pc'[q] = pc[q] /\ req'[q] = req[q] /\ target'[q] = target[q]
  BY OnlyItself DEF SansInv
<1>2. CASE Post(p) \/ Renew(p)
  BY <1>2, PostKeepsSans, RenewKeepsSans
<1>3. CASE Put(p) \/ Import(p)
  BY <1>3, PutKeepsSans, ImportKeepsSans DEF SansInv
<1>4. CASE Dissociate(p) \/ SetMetadata(p) \/ Revoke(p)
  <2>1. pc[p] # "renew" /\ issued' = issued /\ withSans' = withSans
    BY <1>4 DEF Dissociate, SetMetadata, Revoke, At
  <2>2. \A d \in DN : (obj'[d]).cert = obj[d].cert /\ (obj'[d]).sans = obj[d].sans
    <3>1. target[p] \in DN /\ obj[target[p]] \in Object
      BY <1>4 DEF Dissociate, SetMetadata, Revoke, At, Idle, SansInv, Inv, Typed, Placed
    <3>2. CASE Dissociate(p)
      BY <3>1, <3>2 DEF Dissociate, SansInv, Inv, Typed, Object
    <3>3. CASE SetMetadata(p)
      BY <3>1, <3>3 DEF SetMetadata, SansInv, Inv, Typed, Object
    <3>4. CASE Revoke(p)
      BY <3>1, <3>4 DEF Revoke, SansInv, Inv, Typed, Object
    <3> QED BY <1>4, <3>2, <3>3, <3>4
  <2> QED BY <1>1, <2>1, <2>2, SameSans DEF HalfWay, At, SansInv
<1>5. CASE Guid(p) \/ Details(p) \/ Metadata(p) \/ Items(p) \/ Search(p) \/ ObjectGuid(p) \/ Page(p)
  <2>1. pc[p] # "renew" /\ Reads
    BY <1>5 DEF Guid, Details, Metadata, Items, Search, ObjectGuid, Page, At
  <2> QED BY <1>1, <2>1, SameSans DEF HalfWay, At, SansInv, Reads, server
<1>6. CASE Refused(p) \/ Fail(p)
  <2>1. Error(p) /\ Reads
    BY <1>6 DEF Refused, Fail, Fault
  <2>2. \A d \in DN : HalfWay(p, d) => <<d, "sans">> \in loose'
    BY <2>1, ErrorRecords DEF HalfWay
  <2> QED BY <1>1, <2>1, <2>2, SameSans DEF SansInv, Reads, server
<1> QED BY <1>2, <1>3, <1>4, <1>5, <1>6 DEF Step

-----------------------------------------------------------------------------
LEMMA InitSans == Init => SansInv
<1> SUFFICES ASSUME Init PROVE SansInv
  OBVIOUS
<1>1. Len(First) \in Nat /\ DOMAIN First = 1..Len(First)
  BY TppObjectsAssumption
<1>2. Len(First) <= issued /\ withSans \subseteq 1..issued
  BY <1>1 DEF Init
<1>3. \A p \in Caller : Cleaning(p)
  BY DEF Init, Cleaning
<1>4. ASSUME NEW d \in DN PROVE Whole(d)
  <2>1. CASE d \in {First[k] : k \in DOMAIN First}
    <3>1. Position(d) \in 1..Len(First)
      BY <1>1, <2>1 DEF Position
    <3>2. obj[d].cert = Position(d) /\ obj[d].sans
      BY <2>1 DEF Init
    <3> QED BY <1>1, <3>1, <3>2 DEF Whole, Init
  <2>2. CASE d \notin {First[k] : k \in DOMAIN First}
    <3>1. obj[d].cert = 0
      BY <2>2 DEF Init, Absent
    <3> QED BY <1>1, <1>2, <3>1 DEF Whole, Init
  <2> QED BY <2>1, <2>2
<1> QED BY <1>2, <1>3, <1>4, InitInv DEF SansInv

LEMMA StartKeepsSans ==
  ASSUME SansInv, NEW p \in Caller, NEW c \in Calls, Start(p, c)
  PROVE  (\A q \in Caller : Cleaning(q)') /\ (\A d \in DN : Whole(d)')
<1>1. /\ pc[p] \in Idle /\ UNCHANGED <<obj, withSans, issued, loose>>
      /\ pc'[p] = FirstStep(c) /\ req'[p] = c
      /\ \A q \in Caller \ {p} : pc'[q] = pc[q] /\ req'[q] = req[q] /\ target'[q] = target[q]
  BY DEF Start, Goto, server, SansInv, Inv, Typed
<1>2. \A d \in DN : Whole(d)'
  BY <1>1, SameSans DEF HalfWay, At, Idle
<1>3. Cleaning(p)'
  <2> SUFFICES ASSUME FirstStep(c) \in {"object", "put"}, c.op = "renew" PROVE c.omit
    BY <1>1 DEF Cleaning
  <2>1. Identified(c) \in {"object", "put"}
    BY DEF FirstStep
  <2>2. Found(c) = "object"
    BY <2>1 DEF Identified, Found
  <2> QED BY <2>2, Zenon DEF Found, Cleans
<1>4. \A q \in Caller \ {p} : Cleaning(q)'
  BY <1>1 DEF SansInv, Cleaning
<1> QED BY <1>2, <1>3, <1>4

LEMMA NextSans ==
  ASSUME KnownImports, SansInv, [Next]_vars
  PROVE  SansInv'
<1>1. Inv'
  BY NextInv DEF SansInv
<1>2. ASSUME NEW p \in Caller, Step(p) \/ Fail(p) PROVE SansInv'
  <2>1. \A q \in Caller : Cleaning(q)'
    <3> TAKE q \in Caller
    <3>1. CASE q = p
      BY <1>2, <3>1, CleaningNext
    <3>2. CASE q # p
      BY <1>2, <3>2, OnlyItself DEF SansInv, Cleaning
    <3> QED BY <3>1, <3>2
  <2> QED BY <1>1, <1>2, <2>1, StepKeepsSans DEF SansInv
<1>3. ASSUME NEW p \in Caller, NEW c \in Calls, Start(p, c) PROVE SansInv'
  BY <1>1, <1>3, StartKeepsSans DEF SansInv, Start, server
<1>4. CASE (\E d \in DN : Expire(d)) \/ UNCHANGED vars
  <2>1. UNCHANGED <<obj, withSans, issued, pc, req, target, loose>>
    BY <1>4 DEF Expire, caller, vars, server
  <2>2. \A p \in Caller : Cleaning(p)'
    BY <2>1 DEF SansInv, Cleaning
  <2>3. ASSUME NEW d \in DN PROVE Whole(d)'
    <3>1. Whole(d) /\ (HalfOmitted(d)' <=> HalfOmitted(d))
      BY <2>1 DEF SansInv, HalfOmitted, At, Omits
    <3> QED BY <2>1, <3>1 DEF Whole
  <2> QED BY <1>1, <2>1, <2>2, <2>3 DEF SansInv
<1> QED BY <1>2, <1>3, <1>4 DEF Next

(* connector.go:1504-1559.  A renewal that was not asked to omit the SANs  *)
(* issues a certificate with SANs for one with SANs, except next to one    *)
(* that omits them or after one that failed half-way.                      *)
THEOREM RenewalsKeepSans == ASSUME KnownImports PROVE Spec => RenewalKeepsSans
<1>1. ASSUME SansInv, NEW p \in Caller, Next PROVE RenewedWithSans(p)
  <2> DEFINE d == target[p]
  <2> SUFFICES ASSUME At(p, "renew"), issued' = issued + 1, pc'[p] # "renew",
                      ~req[p].omit, ~HalfOmitted(d), obj[d].cert \in withSans
               PROVE  issued' \in withSans'
    BY DEF RenewedWithSans
  <2>0. issued + 1 # issued /\ pc[p] = "renew" /\ pc[p] \notin Idle
    BY <1>1 DEF SansInv, Inv, Typed, At, Idle
  <2>1. ASSUME NEW q \in Caller, Step(q) \/ Fail(q) PROVE q = p
    BY <1>1, <2>0, <2>1, OnlyItself DEF SansInv
  <2>2. ASSUME NEW q \in Caller, NEW c \in Calls, Start(q, c) PROVE FALSE
    BY <2>0, <2>2 DEF Start, server
  <2>3. Step(p) \/ Fail(p)
    BY <1>1, <2>0, <2>1, <2>2 DEF Next, Expire
  <2>4. Renew(p)
    BY <2>0, <2>3 DEF Step, Guid, Details, Dissociate, Post, Metadata, Items, SetMetadata, Search,
       ObjectGuid, Put, Refused, Revoke, Import, Page, Fail, Reads, server, At
  <2>5. obj[d].sans
    <3>1. d \in DN
      BY <1>1, <2>0 DEF SansInv, Inv, Placed, Idle
    <3> QED BY <1>1, <3>1 DEF SansInv, Whole
  <2> QED BY <2>4, <2>5 DEF Renew, Issue
<1>2. ASSUME KnownImports PROVE SansInv /\ [Next]_vars => SansInv'
  BY <1>2, NextSans
<1>3. SansInv /\ [Next]_vars => [\A p \in Caller : RenewedWithSans(p)]_vars
  BY <1>1
<1> QED BY <1>2, <1>3, InitSans, PTL DEF Spec, RenewalKeepsSans

-----------------------------------------------------------------------------
(* The list of the objects, and the lists of the callers.                  *)

(* The n-th of a set of numbers is one of them: as many numbers as there   *)
(* are have different ranks, so every rank is taken.                       *)
LEMMA NthIsMember ==
  ASSUME NEW len \in Nat, NEW S \in SUBSET (1..len), NEW n \in 1..Cardinality(S)
  PROVE  Nth(S, n) \in S
<1> DEFINE Below(k) == {j \in S : j <= k}
           rank == [k \in S |-> Cardinality(Below(k))]
           Ranks == 1..Cardinality(S)
<1>1. IsFiniteSet(S) /\ Cardinality(S) \in Nat
  <2>1. IsFiniteSet(1..len)
    BY FS_Interval
  <2> QED BY <2>1, FS_Subset, FS_CardinalityType
<1>2. IsFiniteSet(Ranks) /\ Cardinality(Ranks) = Cardinality(S)
  <2> DEFINE m == Cardinality(S)
  <2>1. m \in Nat
    BY <1>1
  <2> HIDE DEF m
  <2>2. IsFiniteSet(1..m) /\ Cardinality(1..m) = IF 1 > m THEN 0 ELSE m - 1 + 1
    BY <2>1, FS_Interval
  <2>3. IsFiniteSet(1..m) /\ Cardinality(1..m) = m
    BY <2>1, <2>2
  <2> QED BY <2>3 DEF m
<1>3. ASSUME NEW k \in S
      PROVE  IsFiniteSet(Below(k)) /\ Cardinality(Below(k)) \in Ranks
  <2>1. Below(k) \in SUBSET S /\ k \in Below(k)
    OBVIOUS
  <2>2. IsFiniteSet(Below(k)) /\ Cardinality(Below(k)) <= Cardinality(S)
    BY <1>1, <2>1, FS_Subset
  <2>3. Cardinality(Below(k)) \in Nat /\ Cardinality(Below(k)) # 0
    BY <2>1, <2>2, FS_CardinalityType, FS_EmptySet
  <2> QED BY <1>1, <2>2, <2>3
<1>4. ASSUME NEW i \in S, NEW k \in S, i < k
      PROVE  Cardinality(Below(i)) # Cardinality(Below(k))
  <2>1. i \in Nat /\ k \in Nat /\ S \subseteq Nat
    OBVIOUS
  <2>2. \A j \in S : j <= i => j <= k
    BY <1>4, <2>1
  <2>3. k <= k /\ ~(k <= i)
    BY <1>4, <2>1
  <2>4. Below(i) \in SUBSET Below(k) /\ k \in Below(k) /\ k \notin Below(i)
    BY <2>2, <2>3
  <2> QED BY <1>3, <2>4, FS_Subset
<1>5. rank \in Injection(S, Ranks)
  <2>1. rank \in [S -> Ranks]
    BY <1>3
  <2>2. ASSUME NEW i \in S, NEW k \in S, rank[i] = rank[k] PROVE i = k
    <3>1. Cardinality(Below(i)) = Cardinality(Below(k))
      BY <2>2
    <3>2. ~(i < k) /\ ~(k < i)
      BY <3>1, <1>4
    <3> QED BY <3>2
  <2> QED BY <2>1, <2>2 DEF Injection, IsInjective
<1>6. rank \in Surjection(S, Ranks)
  BY <1>1, <1>2, <1>5, FS_Injection
<1>7. \E k \in S : Cardinality(Below(k)) = n
  BY <1>6 DEF Surjection
<1> QED BY <1>7 DEF Nth

(* A sequence without repetition is as long as it has members.             *)
Once(s) == \A i, j \in DOMAIN s : s[i] = s[j] => i = j
Members(s) == {s[k] : k \in DOMAIN s}

LEMMA OnceIsCounted ==
  ASSUME NEW S, NEW s \in Seq(S), Once(s)
  PROVE  Len(s) = Cardinality(Members(s))
<1>1. Len(s) \in Nat /\ DOMAIN s = 1..Len(s) /\ s \in [1..Len(s) -> S]
  OBVIOUS
<1>2. s \in [1..Len(s) -> Members(s)]
  BY <1>1 DEF Members
<1>3. s \in Bijection(1..Len(s), Members(s))
  BY <1>1, <1>2 DEF Members, Once, Bijection, Injection, Surjection, IsInjective
<1>4. Cardinality(Members(s)) = Cardinality(1..Len(s))
  BY <1>3, <1>1, FS_Interval, FS_Bijection DEF ExistsBijection
<1> DEFINE m == Len(s)
<1>5. m \in Nat
  BY <1>1
<1> HIDE DEF m
<1>6. Cardinality(1..m) = m
  <2>1. Cardinality(1..m) = IF 1 > m THEN 0 ELSE m - 1 + 1
    BY <1>5, FS_Interval
  <2> QED BY <1>5, <2>1
<1> QED BY <1>4, <1>6 DEF m

(* A new member anywhere in such a sequence.                               *)
Insertion(s, k, d) == SubSeq(s, 1, k) \o <<d>> \o SubSeq(s, k + 1, Len(s))

LEMMA InsertedAt ==
  ASSUME NEW S, NEW s \in Seq(S), NEW d \in S, NEW k \in 0..Len(s)
  PROVE  LET t == Insertion(s, k, d)
         IN  /\ t \in Seq(S) /\ Len(t) = Len(s) + 1
             /\ \A i \in 1..k : t[i] = s[i]
             /\ t[k + 1] = d
             /\ \A i \in k + 2..Len(s) + 1 : t[i] = s[i - 1]
<1> DEFINE a == SubSeq(s, 1, k)
           z == SubSeq(s, k + 1, Len(s))
           az == a \o <<d>>
           u == az \o z
           n == Len(s)
<1>0. n \in Nat /\ k \in Nat /\ k <= n /\ \A i \in 1..n : s[i] \in S
  OBVIOUS
<1>1. a \in Seq(S) /\ Len(a) = k /\ \A i \in 1..k : a[i] = s[i]
  BY <1>0, SubSeqProperties
<1>2. z \in Seq(S) /\ Len(z) = n - k /\ \A i \in 1..n - k : z[i] = s[k + i]
  <2>1. \A i \in k + 1..n : s[i] \in S
    BY <1>0
  <2>2. /\ z \in Seq(S) /\ Len(z) = IF k + 1 <= n THEN n - (k + 1) + 1 ELSE 0
        /\ \A i \in 1..n - (k + 1) + 1 : z[i] = s[k + 1 + i - 1]
    BY <1>0, <2>1, SubSeqProperties
  <2> HIDE DEF z, n
  <2>3. Len(z) = n - k
    BY <1>0, <2>2
  <2>4. ASSUME NEW i \in 1..n - k PROVE z[i] = s[k + i]
    <3>1. i \in 1..n - (k + 1) + 1 /\ k + 1 + i - 1 = k + i
      BY <1>0
    <3> QED BY <2>2, <3>1
  <2> QED BY <2>2, <2>3, <2>4
<1>3. <<d>> \in Seq(S) /\ Len(<<d>>) = 1 /\ <<d>>[1] = d
  OBVIOUS
<1> HIDE DEF a, z, n
<1>4. /\ az \in Seq(S) /\ Len(az) = k + 1
      /\ \A i \in 1..k + 1 : az[i] = IF i <= k THEN a[i] ELSE <<d>>[i - k]
  BY <1>1, <1>3, ConcatProperties
<1>5. (\A i \in 1..k : az[i] = s[i]) /\ az[k + 1] = d
  BY <1>0, <1>1, <1>3, <1>4
<1> HIDE DEF az
<1>6. /\ u \in Seq(S) /\ Len(u) = Len(az) + Len(z)
      /\ \A i \in 1..Len(az) + Len(z) : u[i] = IF i <= Len(az) THEN az[i] ELSE z[i - Len(az)]
  BY <1>2, <1>4, ConcatProperties
<1> HIDE DEF u
<1>7. Len(az) = k + 1 /\ Len(z) = n - k /\ Len(az) + Len(z) = n + 1
  BY <1>0, <1>2, <1>4
<1>8. \A i \in 1..k + 1 : u[i] = az[i]
  BY <1>0, <1>6, <1>7
<1>9. ASSUME NEW i \in k + 2..n + 1 PROVE u[i] = s[i - 1]
  <2>1. u[i] = z[i - (k + 1)] /\ i - (k + 1) \in 1..n - k /\ k + (i - (k + 1)) = i - 1
    BY <1>0, <1>6, <1>7
  <2> QED BY <1>2, <2>1
<1>10. (\A i \in 1..k : u[i] = s[i]) /\ u[k + 1] = d
  BY <1>0, <1>5, <1>8
<1>11. u = Insertion(s, k, d)
  BY DEF Insertion, u, az, a, z
<1> QED BY <1>6, <1>7, <1>9, <1>10, <1>11 DEF n

LEMMA Inserted ==
  ASSUME NEW S, NEW s \in Seq(S), Once(s), NEW d \in S, d \notin Members(s), NEW k \in 0..Len(s),
         NEW t \in Seq(S), Len(t) = Len(s) + 1, \A i \in 1..k : t[i] = s[i], t[k + 1] = d,
         \A i \in k + 2..Len(s) + 1 : t[i] = s[i - 1]
  PROVE  Once(t) /\ Members(t) = Members(s) \cup {d}
<1> DEFINE n == Len(s)
<1>0. n \in Nat /\ DOMAIN s = 1..n /\ k \in Nat /\ k <= n
  OBVIOUS
<1>8. DOMAIN t = 1..n + 1
  OBVIOUS
<1>9. /\ \A i \in 1..k : t[i] = s[i]
      /\ t[k + 1] = d
      /\ \A i \in k + 2..n + 1 : t[i] = s[i - 1]
  OBVIOUS
<1> HIDE DEF n
<1>10. \A i \in 1..n : s[i] # d
  BY <1>0 DEF Members
<1>11. Once(t)
  <2> SUFFICES ASSUME NEW i \in 1..n + 1, NEW j \in 1..n + 1, t[i] = t[j], i < j
               PROVE  FALSE
    BY <1>0, <1>8 DEF Once
  <2>1. CASE j <= k
    <3>1. t[i] = s[i] /\ t[j] = s[j] /\ i \in 1..n /\ j \in 1..n
      BY <1>0, <1>9, <2>1
    <3>2. i = j
      BY <1>0, <3>1 DEF Once
    <3> QED BY <1>0, <3>2
  <2>2. CASE j = k + 1
    BY <1>0, <1>9, <1>10, <2>2
  <2>3. CASE j > k + 1 /\ i <= k
    <3>1. t[i] = s[i] /\ t[j] = s[j - 1] /\ i \in 1..n /\ j - 1 \in 1..n
      BY <1>0, <1>9, <2>3
    <3>2. i = j - 1
      BY <1>0, <3>1 DEF Once
    <3> QED BY <1>0, <2>3, <3>2
  <2>4. CASE j > k + 1 /\ i = k + 1
    BY <1>0, <1>9, <1>10, <2>4
  <2>5. CASE j > k + 1 /\ i > k + 1
    <3>1. t[i] = s[i - 1] /\ t[j] = s[j - 1] /\ i - 1 \in 1..n /\ j - 1 \in 1..n
      BY <1>0, <1>9, <2>5
    <3>2. i - 1 = j - 1
      BY <1>0, <3>1 DEF Once
    <3> QED BY <1>0, <3>2
  <2> QED BY <1>0, <2>1, <2>2, <2>3, <2>4, <2>5
<1>12. Members(t) \subseteq Members(s) \cup {d}
  <2> SUFFICES ASSUME NEW i \in 1..n + 1 PROVE t[i] \in Members(s) \cup {d}
    BY <1>8 DEF Members
  <2>1. CASE i <= k
    BY <1>0, <1>9, <2>1 DEF Members
  <2>2. CASE i = k + 1
    BY <1>9, <2>2
  <2>3. CASE i > k + 1
    <3>1. t[i] = s[i - 1] /\ i - 1 \in 1..n
      BY <1>0, <1>9, <2>3
    <3> QED BY <1>0, <3>1 DEF Members
  <2> QED BY <1>0, <2>1, <2>2, <2>3
<1>13. Members(s) \cup {d} \subseteq Members(t)
  <2>1. d \in Members(t)
    BY <1>0, <1>8, <1>9 DEF Members
  <2>2. ASSUME NEW i \in 1..n PROVE s[i] \in Members(t)
    <3>1. CASE i <= k
      BY <1>0, <1>8, <1>9, <3>1 DEF Members
    <3>2. CASE i > k
      <4>1. t[i + 1] = s[i] /\ i + 1 \in 1..n + 1
        BY <1>0, <1>9, <3>2
      <4> QED BY <1>8, <4>1 DEF Members
    <3> QED BY <1>0, <3>1, <3>2
  <2> QED BY <2>1, <2>2, <1>0 DEF Members
<1> QED BY <1>11, <1>12, <1>13

(* The beginning of a list, or all of it.                                  *)
Continues(v, limit, w, last) ==
  /\ Len(w) <= Len(v) /\ Len(w) <= limit /\ w = SubSeq(v, 1, Len(w))
  /\ last => w = Upto(v, 1, limit)

(* One page more of a list.                                                *)
LEMMA PageExtends ==
  ASSUME NEW S, NEW v \in Seq(S), NEW limit \in Nat, NEW size \in Nat \ {0},
         NEW offset \in 0..Len(v), offset <= limit, NEW b, NEW g, NEW page
  PROVE  /\ b = IF limit - offset < size THEN limit - offset ELSE size
         /\ g = SubSeq(v, 1, offset)
         /\ page = Upto(v, offset + 1, offset + b)
         => Continues(v, limit, g \o page, Len(page) < b \/ limit - offset <= size)
<1> SUFFICES ASSUME b = IF limit - offset < size THEN limit - offset ELSE size,
                    g = SubSeq(v, 1, offset),
                    page = Upto(v, offset + 1, offset + b)
             PROVE  Continues(v, limit, g \o page, Len(page) < b \/ limit - offset <= size)
  OBVIOUS
<1> DEFINE e == IF offset + b < Len(v) THEN offset + b ELSE Len(v)
           w == g \o page
<1>0. Len(v) \in Nat /\ offset \in Nat /\ b \in Nat /\ offset + b <= limit
  OBVIOUS
<1>1. e \in offset..Len(v) /\ e <= offset + b
  BY <1>0
<1>2. page = SubSeq(v, offset + 1, e)
  BY DEF Upto
<1>3. e < offset + b \/ limit - offset <= size => e = IF limit < Len(v) THEN limit ELSE Len(v)
  BY <1>0
<1> HIDE DEF e, w
<1>4. SubSeq(v, 1, offset) \o SubSeq(v, offset + 1, e) = SubSeq(v, 1, e)
  <2>1. 1 \in 1..Len(v) + 1 /\ offset \in 1 - 1..Len(v)
    BY <1>0
  <2> QED BY <1>1, <2>1, ConcatAdjacentSubSeq
<1>5. w = SubSeq(v, 1, e)
  BY <1>2, <1>4 DEF w
<1>6. Len(page) = e - offset
  <2>1. \A i \in offset + 1..e : v[i] \in S
    BY <1>0, <1>1
  <2>2. Len(page) = IF offset + 1 <= e THEN e - (offset + 1) + 1 ELSE 0
    BY <1>0, <1>1, <1>2, <2>1, SubSeqProperties
  <2> QED BY <1>0, <1>1, <2>2
<1>7. Len(w) = e
  <2>1. \A i \in 1..e : v[i] \in S
    BY <1>0, <1>1
  <2>2. Len(w) = IF 1 <= e THEN e - 1 + 1 ELSE 0
    BY <1>0, <1>1, <1>5, <2>1, SubSeqProperties
  <2> QED BY <1>0, <1>1, <2>2
<1>8. Len(page) < b => e < offset + b
  BY <1>0, <1>1, <1>6
<1>9. Len(page) < b \/ limit - offset <= size => w = Upto(v, 1, limit)
  BY <1>3, <1>5, <1>8 DEF Upto
<1>10. Len(w) <= Len(v) /\ Len(w) <= limit /\ w = SubSeq(v, 1, Len(w))
  BY <1>0, <1>1, <1>5, <1>7
<1> QED BY <1>9, <1>10 DEF w, Continues

-----------------------------------------------------------------------------
(* What a list shows.                                                      *)
LEMMA ViewIsList ==
  ASSUME order \in Seq(DN), NEW c
  PROVE  View(c) \in Seq(DN)
<1> DEFINE shown == {k \in DOMAIN order : c.withExpired \/ order[k] \notin expired}
           n == Cardinality(shown)
<1>1. Len(order) \in Nat /\ DOMAIN order = 1..Len(order) /\ \A k \in 1..Len(order) : order[k] \in DN
  OBVIOUS
<1>2. shown \in SUBSET (1..Len(order))
  BY <1>1
<1>3. n \in Nat
  <2>1. IsFiniteSet(1..Len(order))
    BY <1>1, FS_Interval
  <2> QED BY <1>2, <2>1, FS_Subset, FS_CardinalityType
<1>4. \A i \in 1..n : Nth(shown, i) \in 1..Len(order)
  <2> TAKE i \in 1..n
  <2>1. Nth(shown, i) \in shown
    BY <1>1, <1>2, NthIsMember
  <2> QED BY <1>2, <2>1
<1>5. View(c) = [i \in 1..n |-> order[Nth(shown, i)]]
  BY DEF View, Selected
<1> HIDE DEF shown, n
<1> QED BY <1>1, <1>3, <1>4, <1>5

LEMMA ViewStays ==
  ASSUME order' = order, expired' = expired, NEW c
  PROVE  View(c)' = View(c)
BY DEF View

LEMMA ListFields ==
  ASSUME NEW c \in Calls, c.op = "list"
  PROVE  c.limit \in Nat
BY TppObjectsAssumption DEF Call

(* The server lists every object once.                                     *)
Listing ==
  /\ order \in Seq(DN) /\ Once(order)
  /\ Members(order) = {d \in DN : Exists(d)}
  /\ expired \subseteq {d \in DN : Exists(d)}

(* A call that lists does nothing else, and has what comes first.          *)
Lists(p) ==
  /\ pc[p] = "page" => req[p].op = "list"
  /\ pc[p] # "idle" /\ req[p].op = "list" => pc[p] \in {"page", "done", "failed"}
Paged(p) ==
  LET view == View(req[p])  limit == req[p].limit
  IN  /\ pc[p] = "page" =>
           /\ Len(got[p]) <= Len(view) /\ Len(got[p]) <= limit
           /\ got[p] = SubSeq(view, 1, Len(got[p]))
      /\ pc[p] = "done" => got[p] = Upto(view, 1, limit)

ListInv ==
  /\ Inv /\ Flags /\ Listing
  /\ got \in [Caller -> Seq(DN)]
  /\ \A p \in Caller : Lists(p) /\ (quiet[p] /\ pc[p] # "idle" /\ req[p].op = "list" => Paged(p))

-----------------------------------------------------------------------------
(* Steps that leave the list, and those that add to it.                    *)
LEMMA SameListing ==
  ASSUME Listing, order' = order, expired' \subseteq expired,
         \A d \in DN : Exists(d)' <=> Exists(d)
  PROVE  Listing'
<1>1. Members(order)' = Members(order) /\ Once(order)'
  BY DEF Listing, Members, Once
<1> QED BY <1>1 DEF Listing

LEMMA NewInListing ==
  ASSUME Listing, NEW t \in DN, Listed(t), expired' \subseteq expired, Exists(t)',
         \A d \in DN \ {t} : Exists(d)' <=> Exists(d)
  PROVE  Listing'
<1>1. CASE Exists(t)
  BY <1>1, SameListing DEF Listed
<1>2. CASE ~Exists(t)
  <2>1. PICK k \in 0..Len(order) : order' = Insertion(order, k, t)
    BY <1>2 DEF Listed, Insertion
  <2>2. t \notin Members(order) /\ order \in Seq(DN) /\ Once(order)
    BY <1>2 DEF Listing
  <2>3. /\ order' \in Seq(DN) /\ Len(order') = Len(order) + 1
        /\ \A i \in 1..k : order'[i] = order[i]
        /\ order'[k + 1] = t
        /\ \A i \in k + 2..Len(order) + 1 : order'[i] = order[i - 1]
    <3> DEFINE u == Insertion(order, k, t)
    <3>1. order \in Seq(DN) /\ t \in DN /\ k \in 0..Len(order)
      BY <2>2
    <3>2. u \in Seq(DN)
      BY <3>1, InsertedAt
    <3>3. Len(u) = Len(order) + 1 /\ u[k + 1] = t
      BY <3>1, InsertedAt
    <3>4. \A i \in 1..k : u[i] = order[i]
      BY <3>1, InsertedAt
    <3>5. \A i \in k + 2..Len(order) + 1 : u[i] = order[i - 1]
      BY <3>1, InsertedAt
    <3>6. order' = u
      BY <2>1
    <3> HIDE DEF u
    <3> QED BY <3>2, <3>3, <3>4, <3>5, <3>6
  <2>4. Once(order') /\ Members(order') = Members(order) \cup {t}
    BY <2>2, <2>3, Inserted
  <2>5. Once(order)' /\ Members(order)' = Members(order')
    BY <2>4 DEF Once, Members
  <2> QED BY <2>2, <2>3, <2>4, <2>5 DEF Listing
<1> QED BY <1>1, <1>2

LEMMA StepKeepsListing ==
  ASSUME Inv, Listing, NEW p \in Caller, Step(p) \/ Fail(p)
  PROVE  Listing'
<1>1. CASE Post(p)
  <2>1. PICK t \in DN : t = target[p] /\ issued \in Nat
    BY <1>1 DEF Post, At, Inv, Typed, Placed, Idle
  <2>2. Listed(t) /\ expired' \subseteq expired
    BY <2>1, <1>1 DEF Post, Issue
  <2>3. \E o : obj' = [obj EXCEPT ![t] = o] /\ o.cert = issued + 1
    <3> DEFINE o == [cert |-> issued + 1, sans |-> TRUE, on |-> TRUE,
                     uses |-> obj[t].uses \cup ({req[p].dev} \ {None}),
                     marks |-> (IF legacy \/ req[p].want = {} THEN obj[t].marks ELSE req[p].want)
                                 \cup {"origin"}]
    <3>1. obj' = [obj EXCEPT ![t] = o]
      BY <2>1, <1>1 DEF Post, Issue
    <3>2. o.cert = issued + 1
      OBVIOUS
    <3> HIDE DEF o
    <3> QED BY <3>1, <3>2
  <2>4. Exists(t)' /\ \A d \in DN \ {t} : Exists(d)' <=> Exists(d)
    <3>1. PICK o : obj' = [obj EXCEPT ![t] = o] /\ o.cert = issued + 1
      BY <2>3
    <3>2. (obj'[t]).cert = issued + 1 /\ \A d \in DN \ {t} : obj'[d] = obj[d]
      BY <2>1, <3>1 DEF Inv, Typed
    <3> QED BY <2>1, <3>2 DEF Exists
  <2> QED BY <2>1, <2>2, <2>4, NewInListing
<1>2. CASE Import(p)
  <2>1. PICK t \in DN : t = target[p] /\ req[p] \in Calls /\ req[p].op = "import"
    BY <1>2 DEF Import, At, Inv, Typed, Placed, PC, Idle
  <2>2. Listed(t) /\ expired' \subseteq expired
    BY <2>1, <1>2 DEF Import
  <2>3. \E o : obj' = [obj EXCEPT ![t] = o] /\ o.cert = req[p].serial
    <3> DEFINE o == [cert |-> req[p].serial, sans |-> req[p].serial \in withSans,
                     on |-> TRUE, uses |-> {}, marks |-> {}]
    <3>1. obj' = [obj EXCEPT ![t] = o]
      BY <2>1, <1>2 DEF Import
    <3>2. o.cert = req[p].serial
      OBVIOUS
    <3> HIDE DEF o
    <3> QED BY <3>1, <3>2
  <2>4. Exists(t)' /\ \A d \in DN \ {t} : Exists(d)' <=> Exists(d)
    <3>1. PICK o : obj' = [obj EXCEPT ![t] = o] /\ o.cert = req[p].serial
      BY <2>3
    <3>2. (obj'[t]).cert = req[p].serial /\ \A d \in DN \ {t} : obj'[d] = obj[d]
      BY <2>1, <3>1 DEF Inv, Typed
    <3> QED BY <2>1, <3>2, ImportFields DEF Exists
  <2> QED BY <2>1, <2>2, <2>4, NewInListing
<1>3. CASE Renew(p)
  <2>1. PICK t \in DN : t = target[p] /\ issued \in Nat /\ Exists(t)
    BY <1>3 DEF Renew, At, Inv, Typed, Placed, Idle
  <2>2. order' = order /\ expired' \subseteq expired
    BY <1>3 DEF Renew, Issue
  <2>3. \E o : obj' = [obj EXCEPT ![t] = o] /\ o.cert = issued + 1
    <3> DEFINE o == [cert |-> issued + 1, sans |-> IF req[p].own THEN ~req[p].omit ELSE obj[t].sans,
                     on |-> obj[t].on, uses |-> obj[t].uses, marks |-> obj[t].marks]
    <3>1. obj' = [obj EXCEPT ![t] = o]
      BY <2>1, <1>3 DEF Renew, Issue
    <3>2. o.cert = issued + 1
      OBVIOUS
    <3> HIDE DEF o
    <3> QED BY <3>1, <3>2
  <2>4. \A d \in DN : Exists(d)' <=> Exists(d)
    <3>1. PICK o : obj' = [obj EXCEPT ![t] = o] /\ o.cert = issued + 1
      BY <2>3
    <3>2. (obj'[t]).cert = issued + 1 /\ \A d \in DN \ {t} : obj'[d] = obj[d]
      BY <2>1, <3>1 DEF Inv, Typed
    <3> QED BY <2>1, <3>2 DEF Exists
  <2> QED BY <2>2, <2>4, SameListing
<1>4. CASE Dissociate(p) \/ SetMetadata(p) \/ Revoke(p) \/ Put(p)
  <2>1. order' = order /\ expired' = expired
    BY <1>4 DEF Dissociate, SetMetadata, Revoke, Put
  <2>2. PICK t \in DN : t = target[p] /\ obj[t] \in Object
    BY <1>4 DEF Dissociate, SetMetadata, Revoke, Put, At, Idle, Inv, Typed, Placed
  <2>3. \A d \in DN : (obj'[d]).cert = obj[d].cert
    <3>1. CASE Dissociate(p)
      BY <2>2, <3>1 DEF Dissociate, Inv, Typed, Object
    <3>2. CASE SetMetadata(p)
      BY <2>2, <3>2 DEF SetMetadata, Inv, Typed, Object
    <3>3. CASE Revoke(p)
      BY <2>2, <3>3 DEF Revoke, Inv, Typed, Object
    <3>4. CASE Put(p)
      <4>1. Changed(obj[t], req[p]).cert = obj[t].cert
        BY <2>2 DEF Changed, Object
      <4>2. obj' = [obj EXCEPT ![t] = Changed(obj[t], req[p])]
        BY <2>2, <3>4 DEF Put
      <4> QED BY <2>2, <4>1, <4>2 DEF Inv, Typed
    <3> QED BY <1>4, <3>1, <3>2, <3>3, <3>4
  <2>4. \A d \in DN : Exists(d)' <=> Exists(d)
    BY <2>3 DEF Exists
  <2> QED BY <2>1, <2>4, SameListing
<1>5. CASE \/ Guid(p) \/ Details(p) \/ Metadata(p) \/ Items(p) \/ Search(p) \/ ObjectGuid(p)
           \/ Refused(p) \/ Page(p) \/ Fail(p)
  <2>1. Reads
    BY <1>5 DEF Guid, Details, Metadata, Items, Search, ObjectGuid, Refused, Page, Fail
  <2> QED BY <2>1, SameListing DEF Reads, server, Exists
<1> QED BY <1>1, <1>2, <1>3, <1>4, <1>5 DEF Step

-----------------------------------------------------------------------------
(* The lists of the callers that do not step, and of the one that does.    *)
LEMMA ListStays ==
  ASSUME NEW p \in Caller, Lists(p),
         quiet[p] /\ pc[p] # "idle" /\ req[p].op = "list" => Paged(p),
         pc'[p] = pc[p], req'[p] = req[p], got'[p] = got[p],
         quiet'[p] => quiet[p] /\ order' = order /\ expired' = expired
  PROVE  /\ Lists(p)'
         /\ (quiet[p] /\ pc[p] # "idle" /\ req[p].op = "list" => Paged(p))'
<1>1. Lists(p)'
  BY Zenon DEF Lists
<1>2. ASSUME quiet'[p], pc'[p] # "idle", req'[p].op = "list" PROVE Paged(p)'
  <2>1. Paged(p) /\ order' = order /\ expired' = expired
    BY <1>2
  <2>2. View(req[p])' = View(req[p])
    BY <2>1 DEF View
  <2> QED BY <2>1, <2>2 DEF Paged
<1> QED BY <1>1, <1>2

LEMMA OtherLists ==
  ASSUME Inv, Flags, got \in [Caller -> Seq(DN)], NEW p \in Caller, NEW q \in Caller \ {p},
         Step(q) \/ Fail(q) \/ (\E c \in Calls : Start(q, c))
  PROVE  /\ pc'[p] = pc[p] /\ req'[p] = req[p] /\ got'[p] = got[p]
         /\ quiet'[p] => quiet[p] /\ order' = order /\ expired' = expired
<1>1. pc'[p] = pc[p] /\ req'[p] = req[p]
  BY OtherStep
<1>2. CASE Dissociate(q) \/ Post(q) \/ SetMetadata(q) \/ Put(q) \/ Renew(q) \/ Revoke(q) \/ Import(q)
  <2>1. \E l : Answered(q, l)
    BY <1>2 DEF Dissociate, Post, SetMetadata, Put, Renew, Revoke, Import
  <2>2. got' = got /\ ~quiet'[p]
    BY <2>1 DEF Answered
  <2> QED BY <1>1, <2>2
<1>3. CASE \/ Guid(q) \/ Details(q) \/ Metadata(q) \/ Items(q) \/ Search(q) \/ ObjectGuid(q)
           \/ Refused(q) \/ Page(q) \/ Fail(q)
  <2>1. Reads
    BY <1>3 DEF Guid, Details, Metadata, Items, Search, ObjectGuid, Refused, Page, Fail
  <2>2. got'[p] = got[p]
    BY <1>3 DEF Guid, Details, Metadata, Items, Search, ObjectGuid, Refused, Page, Fail
  <2> QED BY <1>1, <2>1, <2>2 DEF Reads, server
<1>4. CASE \E c \in Calls : Start(q, c)
  <2>1. got'[p] = got[p] /\ order' = order /\ expired' = expired
    BY <1>4 DEF Start, server
  <2>2. quiet'[p] = quiet[p]
    BY <1>4 DEF Start, Flags
  <2> QED BY <1>1, <2>1, <2>2
<1> QED BY <1>2, <1>3, <1>4 DEF Step

(* The beginning of a list.                                                *)
LEMMA StartLists ==
  ASSUME Inv, Flags, Listing, got \in [Caller -> Seq(DN)],
         NEW p \in Caller, NEW c \in Calls, Start(p, c)
  PROVE  /\ got' \in [Caller -> Seq(DN)] /\ Lists(p)'
         /\ (quiet[p] /\ pc[p] # "idle" /\ req[p].op = "list" => Paged(p))'
<1>1. /\ pc'[p] = FirstStep(c) /\ req'[p] = c /\ got'[p] = <<>> /\ got' \in [Caller -> Seq(DN)]
      /\ order' = order /\ expired' = expired
  BY DEF Start, Goto, server, Inv, Typed
<1>2. /\ FirstStep(c) = "page" => c.op = "list"
      /\ c.op = "list" => FirstStep(c) = "page"
  <2>1. CASE c.op = "list"
    BY <2>1 DEF FirstStep
  <2>2. CASE c.op = "request"
    BY <2>2 DEF FirstStep
  <2>3. CASE c.op \in {"renew", "retire"}
    BY <2>3 DEF FirstStep, Identified, Found
  <2>4. CASE c.op \in {"revoke", "import"}
    BY <2>4 DEF FirstStep
  <2> QED BY <2>1, <2>2, <2>3, <2>4, Operations
<1>3. Lists(p)'
  BY <1>1, <1>2 DEF Lists
<1>4. ASSUME req'[p].op = "list" PROVE Paged(p)'
  <2>1. View(c) \in Seq(DN) /\ View(c)' = View(c) /\ c.limit \in Nat /\ pc'[p] = "page"
    BY <1>1, <1>2, <1>4, ViewIsList, ViewStays, ListFields DEF Listing
  <2>2. Len(got'[p]) = 0 /\ SubSeq(View(c), 1, 0) = <<>> /\ Len(View(c)) \in Nat
    BY <1>1, <2>1, SubSeqEmpty
  <2>3. /\ Len(got'[p]) <= Len(View(c)) /\ Len(got'[p]) <= c.limit
        /\ got'[p] = SubSeq(View(c), 1, Len(got'[p]))
    BY <1>1, <2>1, <2>2
  <2>4. View(req[p])' = View(c)
    BY <1>1, <2>1 DEF View
  <2> QED BY <1>1, <2>1, <2>3, <2>4 DEF Paged
<1> QED BY <1>1, <1>3, <1>4

(* A page.                                                                 *)
LEMMA PageLists ==
  ASSUME Inv, Listing, got \in [Caller -> Seq(DN)], NEW p \in Caller, Lists(p),
         quiet[p] /\ pc[p] # "idle" /\ req[p].op = "list" => Paged(p), Page(p)
  PROVE  /\ got' \in [Caller -> Seq(DN)] /\ Lists(p)'
         /\ (quiet[p] /\ pc[p] # "idle" /\ req[p].op = "list" => Paged(p))'
<1> DEFINE c == req[p]
           v == View(c)
           offset == Len(got[p])
           b == Batch(c, offset)
           page == Upto(v, offset + 1, offset + b)
           l == IF Len(page) < b \/ c.limit - offset <= BatchSize THEN "done" ELSE "page"
<1>1. pc[p] = "page" /\ c \in Calls /\ c.op = "list"
  BY DEF Page, At, Lists, Inv, Placed, PC, Idle
<1>2. c.limit \in Nat /\ v \in Seq(DN) /\ offset \in Nat /\ BatchSize \in Nat \ {0}
  BY <1>1, ListFields, ViewIsList, TppObjectsAssumption DEF Listing
<1>3. /\ got' = [got EXCEPT ![p] = got[p] \o page] /\ pc' = [pc EXCEPT ![p] = l]
      /\ req' = req /\ quiet' = quiet /\ order' = order /\ expired' = expired
  BY DEF Page, Then, Goto, Reads, server
<1>4. b = IF c.limit - offset < BatchSize THEN c.limit - offset ELSE BatchSize
  BY DEF Batch
<1>5. page \in Seq(DN)
  <2> DEFINE e == IF offset + b < Len(v) THEN offset + b ELSE Len(v)
  <2>1. e \in Int /\ e <= Len(v) /\ Len(v) \in Nat
    BY <1>2, <1>4
  <2>2. page = SubSeq(v, offset + 1, e)
    BY DEF Upto
  <2> HIDE DEF e, page, v
  <2>3. \A i \in offset + 1..e : v[i] \in DN
    BY <1>2, <2>1
  <2> QED BY <1>2, <2>1, <2>2, <2>3, SubSeqProperties
<1> HIDE DEF page, v, b, l
<1>6. got[p] \o page \in Seq(DN)
  BY <1>5, ConcatProperties
<1>7. got' \in [Caller -> Seq(DN)] /\ got'[p] = got[p] \o page
  BY <1>3, <1>6
<1>8. pc'[p] = l /\ l \in {"page", "done"}
  BY <1>3 DEF l, Inv, Typed
<1>9. Lists(p)'
  BY <1>1, <1>3, <1>8 DEF Lists
<1>10. ASSUME quiet'[p] PROVE Paged(p)'
  <2>1. offset <= Len(v) /\ offset <= c.limit /\ got[p] = SubSeq(v, 1, offset)
    BY <1>1, <1>3, <1>10 DEF Paged, v
  <2>2. Continues(v, c.limit, got[p] \o page, Len(page) < b \/ c.limit - offset <= BatchSize)
    <3>1. offset \in 0..Len(v)
      BY <1>2, <2>1
    <3>2. page = Upto(v, offset + 1, offset + b)
      BY DEF page
    <3> QED BY <1>2, <1>4, <2>1, <3>1, <3>2, PageExtends
  <2>3. View(req[p])' = v
    BY <1>3 DEF View, v
  <2>4. l = "done" => Len(page) < b \/ c.limit - offset <= BatchSize
    BY DEF l
  <2> QED BY <1>3, <1>7, <1>8, <2>2, <2>3, <2>4 DEF Paged, Continues
<1> QED BY <1>7, <1>9, <1>10

(* Every other step of a caller.                                           *)
LEMMA OwnLists ==
  ASSUME Inv, Flags, Listing, got \in [Caller -> Seq(DN)], NEW p \in Caller, Lists(p),
         quiet[p] /\ pc[p] # "idle" /\ req[p].op = "list" => Paged(p),
         Step(p) \/ Fail(p)
  PROVE  /\ got' \in [Caller -> Seq(DN)] /\ Lists(p)'
         /\ (quiet[p] /\ pc[p] # "idle" /\ req[p].op = "list" => Paged(p))'
<1>1. CASE Page(p)
  BY <1>1, PageLists
<1>2. CASE Fail(p) \/ (Step(p) /\ ~Page(p))
  <2>1. got' = got /\ req' = req
    <3>1. req' = req
      BY OnlyItself
    <3> QED BY <1>2, <3>1 DEF Step, Fail, Reads, Answered, Guid, Details, Dissociate, Post, Metadata,
              Items, SetMetadata, Search, ObjectGuid, Put, Renew, Refused, Revoke, Import
  <2>2. CASE Fail(p)
    <3>1. pc'[p] \in {"done", "failed"}
      BY <2>2, ErrorEnds DEF Fail, Fault, Inv
    <3>2. CASE req[p].op = "list"
      <4>1. pc[p] = "page"
        BY <2>2, <3>2 DEF Fail, Lists, Idle
      <4>2. ~OnlyLogged(p)
        BY <3>2, <4>1 DEF OnlyLogged
      <4>3. pc'[p] = "failed"
        BY <2>2, <4>2 DEF Fail, Fault, Error, Goto, Inv, Typed
      <4> QED BY <2>1, <3>2, <4>3 DEF Lists, Paged
    <3>3. CASE req[p].op # "list"
      BY <2>1, <3>1, <3>3 DEF Lists
    <3> QED BY <2>1, <3>2, <3>3
  <2>3. CASE Step(p) /\ ~Page(p)
    <3>1. pc[p] \in {"guid", "details", "dissociate", "post", "metadata", "items", "set", "search",
                     "object", "put", "renew", "import", "revoke"}
      BY <2>3 DEF Step, Guid, Details, Dissociate, Post, Metadata, Items, SetMetadata, Search,
                  ObjectGuid, Put, Renew, Refused, Revoke, Import, At
    <3>2. req[p].op # "list"
      BY <3>1 DEF Lists
    <3>3. pc'[p] # "page"
      <4>1. ASSUME NEW l \in PC \ {"page"}, Then(p, l) PROVE pc'[p] # "page"
        BY <4>1 DEF Then, Goto, Inv, Typed
      <4>2. ASSUME Error(p) PROVE pc'[p] # "page"
        BY <4>2, ErrorEnds DEF Inv
      <4>3. CASE Refused(p)
        BY <4>2, <4>3 DEF Refused
      <4>4. CASE ~Refused(p)
        <5>1. \E l \in {"details", "post", "dissociate", "failed", "done", "items", "set", "put",
                        "renew", "object", "metadata"} : Then(p, l) \/ Answered(p, l)
          BY <2>3, <4>4 DEF Step, Guid, Details, Compared, Dissociate, Post, Metadata, Items,
             SetMetadata, Search, Found, ObjectGuid, Put, Renew, Revoke, Import
        <5>2. PICK l \in PC \ {"page"} : Then(p, l) \/ Answered(p, l)
          BY <5>1 DEF PC, Idle
        <5> QED BY <4>1, <4>2, <5>2 DEF Answered, Fault
      <4> QED BY <4>3, <4>4
    <3> QED BY <2>1, <3>2, <3>3 DEF Lists
  <2> QED BY <1>2, <2>2, <2>3
<1> QED BY <1>1, <1>2

-----------------------------------------------------------------------------
LEMMA InitLists == Init => ListInv
<1> SUFFICES ASSUME Init PROVE ListInv
  OBVIOUS
<1>1. Inv /\ Flags
  BY InitInv, InitKnowledge DEF KnowledgeInv
<1>2. Listing
  <2>1. order = First /\ First \in Seq(DN) /\ Once(First) /\ expired = {}
    BY TppObjectsAssumption DEF Init, Once
  <2>2. ASSUME NEW d \in DN PROVE Exists(d) <=> d \in Members(First)
    <3>1. CASE d \in Members(First)
      <4>1. Position(d) \in DOMAIN First
        BY <3>1 DEF Position, Members
      <4>2. Position(d) # 0
        BY <4>1, TppObjectsAssumption
      <4> QED BY <3>1, <4>2 DEF Init, Exists, Members
    <3>2. CASE d \notin Members(First)
      BY <3>2 DEF Init, Exists, Members, Absent
    <3> QED BY <3>1, <3>2
  <2>3. Members(First) \subseteq DN
    BY TppObjectsAssumption DEF Members
  <2> QED BY <2>1, <2>2, <2>3 DEF Listing
<1>3. \A p \in Caller : pc[p] = "idle"
  BY DEF Init
<1>4. got \in [Caller -> Seq(DN)]
  BY DEF Init
<1> QED BY <1>1, <1>2, <1>3, <1>4 DEF ListInv, Lists

LEMMA NextLists == ListInv /\ [Next]_vars => ListInv'
<1> SUFFICES ASSUME ListInv, [Next]_vars PROVE ListInv'
  OBVIOUS
<1> DEFINE Right(p) == quiet[p] /\ pc[p] # "idle" /\ req[p].op = "list" => Paged(p)
<1>0. Inv /\ Flags /\ Listing /\ got \in [Caller -> Seq(DN)] /\ \A p \in Caller : Lists(p) /\ Right(p)
  BY DEF ListInv
<1>1. Inv' /\ Flags'
  BY <1>0, NextInv, FlagsNext
<1>2. CASE \E q \in Caller : Step(q) \/ Fail(q) \/ \E c \in Calls : Start(q, c)
  <2>1. PICK q \in Caller : Step(q) \/ Fail(q) \/ \E c \in Calls : Start(q, c)
    BY <1>2
  <2>2. Listing'
    BY <1>0, <2>1, StepKeepsListing, SameListing DEF Start, server, Exists
  <2>3. got' \in [Caller -> Seq(DN)] /\ Lists(q)' /\ Right(q)'
    BY <1>0, <2>1, OwnLists, StartLists
  <2>4. ASSUME NEW p \in Caller \ {q} PROVE Lists(p)' /\ Right(p)'
    <3>1. q \in Caller \ {p}
      BY <2>4
    <3>2. /\ pc'[p] = pc[p] /\ req'[p] = req[p] /\ got'[p] = got[p]
          /\ quiet'[p] => quiet[p] /\ order' = order /\ expired' = expired
      BY <1>0, <2>1, <3>1, OtherLists
    <3> QED BY <1>0, <3>2, ListStays
  <2> QED BY <1>1, <2>2, <2>3, <2>4 DEF ListInv
<1>3. ASSUME NEW d \in DN, Expire(d) PROVE ListInv'
  <2>1. UNCHANGED <<obj, order, pc, req, got>> /\ expired' = expired \cup {d} /\ Exists(d)
    BY <1>3 DEF Expire, caller
  <2>2. Listing'
    BY <1>0, <2>1 DEF Listing, Exists, Once, Members
  <2>3. ASSUME NEW p \in Caller PROVE Lists(p)' /\ Right(p)'
    <3>1. Lists(p)'
      BY <1>0, <2>1 DEF Lists
    <3>2. quiet'[p] => ~(pc[p] # "idle" /\ req[p].op = "list")
      BY <1>3 DEF Expire
    <3> QED BY <2>1, <3>1, <3>2
  <2> QED BY <1>0, <1>1, <2>1, <2>2, <2>3 DEF ListInv
<1>4. CASE UNCHANGED vars
  <2>1. UNCHANGED <<obj, order, expired, pc, req, got, quiet>>
    BY <1>4 DEF vars, server, caller
  <2>2. Listing'
    BY <1>0, <2>1 DEF Listing, Exists, Once, Members
  <2>3. \A p \in Caller : Lists(p)' /\ Right(p)'
    BY <1>0, <2>1, ListStays
  <2> QED BY <1>0, <1>1, <2>1, <2>2, <2>3 DEF ListInv
<1> QED BY <1>2, <1>3, <1>4 DEF Next

(* connector.go:1813-1852.  For every size of a page, every limit and any  *)
(* number of objects: a list that nobody disturbs has the first            *)
(* certificates up to the limit, each once and in the order of the server. *)
THEOREM ListsAreWhole == Spec => []ListIsWhole
<1>1. ListInv => ListIsWhole
  BY DEF ListInv, ListIsWhole, Paged, At
<1> QED BY <1>1, InitLists, NextLists, PTL DEF Spec

(* connector.go:620-1852.  Objects, their list and the positions of calls  *)
(* are well typed; the server lists every object once.                     *)
THEOREM ObjectsWellTyped == ASSUME KnownImports PROVE Spec => []TypeOK
<1>1. ListInv /\ SansInv => TypeOK
  <2> SUFFICES ASSUME ListInv, SansInv PROVE TypeOK
    OBVIOUS
  <2>1. obj \in [DN -> [cert : 0..issued, sans : BOOLEAN, on : BOOLEAN,
                        uses : SUBSET Device, marks : SUBSET Mark]]
    <3>1. issued \in Nat /\ obj \in [DN -> Object]
      BY DEF SansInv, Inv, Typed
    <3>2. ASSUME NEW d \in DN
          PROVE  obj[d] \in [cert : 0..issued, sans : BOOLEAN, on : BOOLEAN,
                             uses : SUBSET Device, marks : SUBSET Mark]
      <4>1. obj[d].cert <= issued /\ obj[d] \in Object
        BY <3>1 DEF SansInv, Whole
      <4> QED BY <3>1, <4>1 DEF Object
    <3> QED BY <3>1, <3>2
  <2>2. /\ order \in Seq(DN) /\ {order[k] : k \in DOMAIN order} = {d \in DN : Exists(d)}
        /\ Len(order) = Cardinality({d \in DN : Exists(d)})
        /\ expired \subseteq {d \in DN : Exists(d)}
    <3>1. Len(order) = Cardinality(Members(order))
      BY OnceIsCounted DEF ListInv, Listing
    <3> QED BY <3>1 DEF ListInv, Listing, Members
  <2>3. ASSUME NEW p \in Caller
        PROVE  /\ pc[p] = "idle" \/ req[p] \in Calls
               /\ target[p] \in DN \/ pc[p] \in Idle \cup {"search", "page"}
    BY DEF SansInv, Inv, Typed, Placed
  <2> QED BY <2>1, <2>2, <2>3 DEF TypeOK, ListInv, SansInv, Inv, Typed, Flags
<1>2. ASSUME KnownImports PROVE SansInv /\ [Next]_vars => SansInv'
  BY <1>2, NextSans
<1> QED BY <1>1, <1>2, InitSans, InitLists, NextLists, PTL DEF Spec

=============================================================================
