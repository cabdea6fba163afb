---------------------------- MODULE TppPolicyProofs ----------------------------
(***************************************************************************)
(* Proof that a successful SetPolicy which no other one overlapped has     *)
(* replaced the policy of the folder, for every set of attributes, every   *)
(* order in which they are cleared and written, and every specification.   *)
(***************************************************************************)
EXTENDS TppPolicy, TLAPS

Others == Attr \ {"Approver"}
Cleared(a) == attr[a] = None

(* No other setter is active while one is alone.                           *)
AloneIsAlone ==
  \A p \in Setter : alone[p] => \A q \in Setter \ {p} : ~Active(q)

(* A folder that does not exist has no attributes.                         *)
AbsentIsEmpty == ~exists => \A a \in Attr : Cleared(a)

(* The approver before and after it is written.                            *)
Approved(p) == attr["Approver"] = IF spec[p]["Approver"] = None THEN before[p]
                                  ELSE spec[p]["Approver"]

(* How far a setter that is alone has come.                                *)
Progress(p) ==
  /\ pc[p] \in {"exists", "parent", "create", "approver"} => attr["Approver"] = before[p]
  /\ pc[p] \in {"parent", "create"} => ~seen[p]
  /\ (pc[p] \in {"parent", "create", "approver"} /\ ~seen[p]) => \A a \in Attr : Cleared(a)
  /\ pc[p] \in {"reset", "contact", "write", "done"} => Approved(p)
  /\ pc[p] = "reset" => \A k \in 1 .. Len(ResetOrder) : k < i[p] => Cleared(ResetOrder[k])
  /\ pc[p] = "contact" => \A a \in Others : Cleared(a)
  /\ pc[p] = "write" => \A a \in Others :
       attr[a] = IF \E k \in 1 .. Len(WriteOrder) : k < i[p] /\ WriteOrder[k] = a
                 THEN spec[p][a] ELSE None
  /\ pc[p] = "done" => \A a \in Others : attr[a] = spec[p][a]

Inv ==
  /\ TypeOK /\ AloneIsAlone /\ AbsentIsEmpty
  /\ \A p \in Setter : alone[p] => Progress(p)

-----------------------------------------------------------------------------
LEMMA InitTypeOK == ASSUME TppPolicyAssumption PROVE Init => TypeOK
<1> SUFFICES ASSUME Init PROVE TypeOK
  OBVIOUS
<1>1. exists \in BOOLEAN
  BY DEF Init
<1>2. attr \in [Attr -> Setting \cup {None}] /\ before \in [Setter -> Setting \cup {None}]
  BY DEF Init
<1>3. pc \in [Setter -> PC] /\ spec \in [Setter -> Specs] /\ runs \in Nat
  BY DEF Init, PC, Idle
<1>4. seen \in [Setter -> BOOLEAN] /\ alone \in [Setter -> BOOLEAN]
  BY DEF Init
<1>5. i \in [Setter -> Nat \ {0}]
  BY DEF Init
<1> QED BY <1>1, <1>2, <1>3, <1>4, <1>5 DEF TypeOK

(* What is put into a folder is a setting, or nothing.                     *)
LEMMA PutKeepsType ==
  ASSUME TypeOK, NEW a \in Attr, NEW v \in Setting \cup {None}, Put(a, v)
  PROVE  attr' \in [Attr -> Setting \cup {None}] /\ exists' \in BOOLEAN
BY DEF TypeOK, Put

LEMMA StepTypeOK ==
  ASSUME TppPolicyAssumption, TypeOK, NEW p \in Setter, Step(p)
  PROVE  TypeOK'
<1>0. /\ spec[p] \in [Attr -> Setting \cup {None}] /\ "Approver" \in Attr
      /\ \A k \in 1 .. Len(ResetOrder) : ResetOrder[k] \in Attr
      /\ \A k \in 1 .. Len(WriteOrder) : WriteOrder[k] \in Attr
  BY DEF TppPolicyAssumption, TypeOK
<1>1. ASSUME NEW l \in PC, Goto(p, l) PROVE pc' \in [Setter -> PC]
  BY <1>1 DEF Goto, TypeOK
<1>2. /\ At(p, 1) => i' \in [Setter -> Nat \ {0}]
      /\ At(p, i[p] + 1) => i' \in [Setter -> Nat \ {0}]
  BY DEF At, TypeOK
<1>3. i[p] \in Nat \ {0}
  BY DEF TypeOK
<1>4. CASE Ask(p)
  <2>1. pc' \in [Setter -> PC]
    BY <1>4, <1>1 DEF Ask, PC, Idle
  <2> QED BY <1>4, <2>1 DEF Ask, TypeOK, folder, history
<1>5. CASE AskParent(p)
  <2>1. pc' \in [Setter -> PC]
    BY <1>5, <1>1 DEF AskParent, PC, Idle
  <2> QED BY <1>5, <2>1 DEF AskParent, TypeOK, folder, history
<1>6. CASE Create(p)
  <2>1. pc' \in [Setter -> PC]
    BY <1>6, <1>1 DEF Create, PC, Idle
  <2>2. exists' \in BOOLEAN
    BY <1>6, Zenon DEF Create, TypeOK
  <2> QED BY <1>6, <2>1, <2>2 DEF Create, TypeOK, history
<1>7. CASE Approver(p)
  <2>1. pc' \in [Setter -> PC]
    BY <1>7, <1>1 DEF Approver, PC, Idle
  <2>2. i' \in [Setter -> Nat \ {0}]
    BY <1>7, <1>2 DEF Approver
  <2>3. attr' \in [Attr -> Setting \cup {None}] /\ exists' \in BOOLEAN
    <3>1. CASE spec[p]["Approver"] = None
      BY <1>7, <3>1 DEF Approver, TypeOK, folder
    <3>2. CASE spec[p]["Approver"] # None
      BY <1>7, <1>0, <3>2, PutKeepsType DEF Approver
    <3> QED BY <3>1, <3>2
  <2> QED BY <1>7, <2>1, <2>2, <2>3 DEF Approver, TypeOK, history
<1>8. CASE Reset(p)
  <2>1. i' \in [Setter -> Nat \ {0}]
    BY <1>8, <1>2 DEF Reset
  <2>2. attr' \in [Attr -> Setting \cup {None}] /\ exists' \in BOOLEAN
    BY <1>8, <1>0, <1>3, PutKeepsType DEF Reset
  <2> QED BY <1>8, <2>1, <2>2 DEF Reset, TypeOK, history
<1>9. CASE ResetDone(p)
  <2>1. pc' \in [Setter -> PC]
    BY <1>9, <1>1 DEF ResetDone, PC, Idle
  <2> QED BY <1>9, <2>1 DEF ResetDone, TypeOK, folder, history
<1>10. CASE Resolve(p)
  <2>1. pc' \in [Setter -> PC]
    BY <1>10, <1>1 DEF Resolve, PC, Idle
  <2>2. i' \in [Setter -> Nat \ {0}]
    BY <1>10, <1>2 DEF Resolve
  <2> QED BY <1>10, <2>1, <2>2 DEF Resolve, TypeOK, folder, history
<1>11. CASE Write(p)
  <2>1. i' \in [Setter -> Nat \ {0}]
    BY <1>11, <1>2 DEF Write
  <2>2. attr' \in [Attr -> Setting \cup {None}] /\ exists' \in BOOLEAN
    <3>1. WriteOrder[i[p]] \in Attr
      BY <1>11, <1>0, <1>3 DEF Write
    <3>2. CASE spec[p][WriteOrder[i[p]]] = None
      BY <1>11, <3>2 DEF Write, TypeOK, folder
    <3>3. CASE spec[p][WriteOrder[i[p]]] # None
      BY <1>11, <1>0, <3>1, <3>3, PutKeepsType DEF Write
    <3> QED BY <3>2, <3>3
  <2> QED BY <1>11, <2>1, <2>2 DEF Write, TypeOK, history
<1>12. CASE Finish(p)
  <2>1. pc' \in [Setter -> PC]
    BY <1>12, <1>1 DEF Finish, PC, Idle
  <2> QED BY <1>12, <2>1 DEF Finish, TypeOK, folder, history
<1>13. CASE Fail(p)
  <2>1. pc' \in [Setter -> PC]
    BY <1>13, <1>1 DEF Fail, PC, Idle
  <2> QED BY <1>13, <2>1 DEF Fail, TypeOK, folder, history
<1>14. CASE AnswerLost(p)
  <2>1. pc' \in [Setter -> PC]
    BY <1>14, <1>1 DEF AnswerLost, PC, Idle
  <2>2. attr' \in [Attr -> Setting \cup {None}] /\ exists' \in BOOLEAN
    <3>1. CASE exists' = TRUE /\ UNCHANGED attr
      BY <3>1 DEF TypeOK
    <3>2. CASE Put("Approver", spec[p]["Approver"])
      BY <3>2, <1>0, PutKeepsType
    <3>3. CASE i[p] <= Len(ResetOrder) /\ Put(ResetOrder[i[p]], None)
      BY <3>3, <1>0, <1>3, PutKeepsType
    <3>4. CASE i[p] <= Len(WriteOrder) /\ Put(WriteOrder[i[p]], spec[p][WriteOrder[i[p]]])
      <4>1. WriteOrder[i[p]] \in Attr
        BY <3>4, <1>0, <1>3
      <4> QED BY <3>4, <4>1, <1>0, PutKeepsType
    <3> QED BY <1>14, <3>1, <3>2, <3>3, <3>4 DEF AnswerLost
  <2> QED BY <1>14, <2>1, <2>2 DEF AnswerLost, TypeOK, history
<1> QED BY <1>4, <1>5, <1>6, <1>7, <1>8, <1>9, <1>10, <1>11, <1>12, <1>13, <1>14 DEF Step

LEMMA StartTypeOK ==
  ASSUME TppPolicyAssumption, TypeOK, NEW p \in Setter, NEW s \in Specs, Start(p, s)
  PROVE  TypeOK'
<1>1. pc' \in [Setter -> PC] /\ spec' \in [Setter -> Specs]
  BY DEF Start, Goto, TypeOK, PC, Idle
<1>2. alone' \in [Setter -> BOOLEAN]
  BY Zenon DEF Start
<1>3. before' \in [Setter -> Setting \cup {None}] /\ runs' \in Nat
  BY DEF Start, TypeOK, TppPolicyAssumption
<1> QED BY <1>1, <1>2, <1>3 DEF Start, TypeOK, folder

LEMMA NextTypeOK == ASSUME TppPolicyAssumption PROVE TypeOK /\ [Next]_vars => TypeOK'
<1> SUFFICES ASSUME TypeOK, [Next]_vars PROVE TypeOK'
  OBVIOUS
<1>1. CASE UNCHANGED vars
  BY <1>1 DEF vars, TypeOK
<1> QED BY <1>1, StepTypeOK, StartTypeOK DEF Next

(* The folder and every setter are well typed for all attributes and       *)
(* orders: a setter is never beyond its list of requests.                  *)
THEOREM FolderWellTyped == ASSUME TppPolicyAssumption PROVE Spec => []TypeOK
BY InitTypeOK, NextTypeOK, PTL DEF Spec

-----------------------------------------------------------------------------
(* A step of a setter leaves the others, and nobody is alone beside it.    *)
LEMMA StepIsOwn ==
  ASSUME TppPolicyAssumption, TypeOK, NEW p \in Setter, Step(p)
  PROVE  /\ Active(p)
         /\ UNCHANGED <<alone, before, spec>>
         /\ \A q \in Setter \ {p} : pc'[q] = pc[q] /\ seen'[q] = seen[q] /\ i'[q] = i[q]
<1>1. Active(p)
  BY DEF Step, Ask, AskParent, Create, Approver, Reset, ResetDone, Resolve, Write, Finish,
         Fail, AnswerLost, Active, Idle
<1>2. UNCHANGED <<alone, before, spec>>
  BY DEF Step, Ask, AskParent, Create, Approver, Reset, ResetDone, Resolve, Write, Finish,
         Fail, AnswerLost, history
<1>3. \A q \in Setter \ {p} : pc'[q] = pc[q]
  BY DEF Step, Ask, AskParent, Create, Approver, Reset, ResetDone, Resolve, Write, Finish,
         Fail, AnswerLost, Goto, TypeOK
<1>4. \A q \in Setter \ {p} : seen'[q] = seen[q] /\ i'[q] = i[q]
  BY DEF Step, Ask, AskParent, Create, Approver, Reset, ResetDone, Resolve, Write, Finish,
         Fail, AnswerLost, At, TypeOK
<1> QED BY <1>1, <1>2, <1>3, <1>4

(* A setter that makes a step is the only one that may be alone.           *)
LEMMA StepKeepsAlone ==
  ASSUME TppPolicyAssumption, Inv, NEW p \in Setter, Step(p)
  PROVE  /\ AloneIsAlone'
         /\ \A q \in Setter : alone'[q] => q = p /\ alone[p]
<1>1. \A q \in Setter \ {p} : ~alone[q]
  BY StepIsOwn DEF Inv, AloneIsAlone
<1>2. alone' = alone
  BY StepIsOwn DEF Inv
<1>3. \A q \in Setter : alone'[q] => q = p /\ alone[p]
  BY <1>1, <1>2
<1>4. \A q \in Setter \ {p} : Active(q)' <=> Active(q)
  BY StepIsOwn DEF Inv, Active
<1>5. AloneIsAlone'
  BY <1>2, <1>3, <1>4 DEF Inv, AloneIsAlone
<1> QED BY <1>3, <1>5

(* Attributes appear in a folder that exists only.                         *)
LEMMA StepKeepsAbsent ==
  ASSUME TppPolicyAssumption, Inv, NEW p \in Setter, Step(p)
  PROVE  AbsentIsEmpty'
<1> SUFFICES ASSUME ~exists' PROVE \A a \in Attr : Cleared(a)'
  BY DEF AbsentIsEmpty
<1>1. CASE UNCHANGED attr
  <2>1. ~exists
    BY DEF Step, Ask, AskParent, Create, Approver, Reset, ResetDone, Resolve, Write, Finish,
           Fail, AnswerLost, Put, folder
  <2> QED BY <1>1, <2>1 DEF Inv, AbsentIsEmpty, Cleared
<1>2. CASE Approver(p) \/ Write(p)
  BY <1>2 DEF Approver, Write, Put, folder, Inv, AbsentIsEmpty, Cleared
<1>3. CASE Reset(p)
  BY <1>3 DEF Reset, Put, Inv, AbsentIsEmpty, Cleared, TypeOK
<1>4. CASE AnswerLost(p)
  BY <1>4 DEF AnswerLost, Put, Inv, AbsentIsEmpty, Cleared, TypeOK
<1> QED BY <1>1, <1>2, <1>3, <1>4 DEF Step, Ask, AskParent, Create, ResetDone, Resolve, Finish,
         Fail, folder

-----------------------------------------------------------------------------
(* One lemma for each step of a setter that is alone.                      *)
LEMMA AskGoesOn ==
  ASSUME Inv, NEW p \in Setter, alone[p], Ask(p)
  PROVE  Progress(p)'
<1>1. Progress(p) /\ pc[p] = "exists"
  BY DEF Inv, Ask
<1>2. seen'[p] = exists /\ pc'[p] = IF exists THEN "approver" ELSE "parent"
  BY DEF Ask, Goto, Inv, TypeOK
<1> QED BY <1>1, <1>2 DEF Ask, Progress, folder, history, Inv, AbsentIsEmpty, Cleared

LEMMA CreatingGoesOn ==
  ASSUME Inv, NEW p \in Setter, alone[p], AskParent(p) \/ Create(p)
  PROVE  Progress(p)'
<1>1. Progress(p) /\ pc[p] \in {"parent", "create"} /\ ~seen[p]
  BY DEF Inv, AskParent, Create, Progress
<1>2. pc'[p] \in {"create", "approver"}
  BY DEF AskParent, Create, Goto, Inv, TypeOK
<1>3. UNCHANGED <<attr, spec, seen, before>>
  BY DEF AskParent, Create, folder, history
<1> QED BY <1>1, <1>2, <1>3 DEF Progress, Cleared

LEMMA ApproverGoesOn ==
  ASSUME TppPolicyAssumption, Inv, NEW p \in Setter, alone[p], Approver(p)
  PROVE  Progress(p)'
<1>1. Progress(p) /\ pc[p] = "approver"
  BY DEF Inv, Approver
<1>2. pc'[p] = (IF seen[p] THEN "reset" ELSE "contact") /\ i'[p] = 1
  BY DEF Approver, Goto, At, Inv, TypeOK
<1>3. UNCHANGED <<spec, seen, before>>
  BY DEF Approver, history
<1>4. attr'["Approver"] = IF spec[p]["Approver"] = None THEN before[p] ELSE spec[p]["Approver"]
  BY <1>1 DEF Approver, Put, folder, Progress, Inv, TypeOK, TppPolicyAssumption
<1>5. \A a \in Others : attr'[a] = attr[a]
  BY DEF Approver, Put, folder, Inv, TypeOK, Others
<1>6. Approved(p)'
  BY <1>3, <1>4 DEF Approved
<1>7. pc'[p] = "contact" => \A a \in Others : Cleared(a)'
  BY <1>1, <1>2, <1>5 DEF Progress, Cleared, Others
<1>8. pc'[p] = "reset" => \A k \in 1 .. Len(ResetOrder) : k < i'[p] => Cleared(ResetOrder[k])'
  BY <1>2
<1> QED BY <1>2, <1>6, <1>7, <1>8 DEF Progress

LEMMA ResetGoesOn ==
  ASSUME TppPolicyAssumption, OrdersCover, Inv, NEW p \in Setter, alone[p], Reset(p)
  PROVE  Progress(p)'
<1>1. Progress(p) /\ pc[p] = "reset" /\ i[p] \in Nat \ {0} /\ i[p] <= Len(ResetOrder)
  BY DEF Inv, Reset, TypeOK
<1>2. /\ pc'[p] = "reset" /\ i'[p] = i[p] + 1
      /\ attr' = [attr EXCEPT ![ResetOrder[i[p]]] = None]
  BY <1>1 DEF Reset, Put, At, Inv, TypeOK
<1>3. UNCHANGED <<spec, before>>
  BY DEF Reset, history
<1>4. ResetOrder[i[p]] \in Others
  BY <1>1 DEF TppPolicyAssumption, OrdersCover, Others
<1>5. Approved(p)'
  BY <1>1, <1>2, <1>3, <1>4 DEF Progress, Approved, Others, Inv, TypeOK
<1>6. ASSUME NEW k \in 1 .. Len(ResetOrder), k < i'[p]
      PROVE  Cleared(ResetOrder[k])'
  <2>1. ResetOrder[k] \in Attr
    BY DEF TppPolicyAssumption
  <2>2. CASE k = i[p]
    BY <1>2, <2>1, <2>2 DEF Cleared, Inv, TypeOK
  <2>3. CASE k < i[p]
    BY <1>1, <1>2, <2>1, <2>3 DEF Progress, Cleared, Inv, TypeOK
  <2> QED BY <1>1, <1>2, <1>6, <2>2, <2>3
<1> QED BY <1>2, <1>5, <1>6 DEF Progress

LEMMA ResetDoneGoesOn ==
  ASSUME TppPolicyAssumption, OrdersCover, Inv, NEW p \in Setter, alone[p], ResetDone(p)
  PROVE  Progress(p)'
<1>1. Progress(p) /\ pc[p] = "reset" /\ i[p] \in Nat \ {0} /\ i[p] > Len(ResetOrder)
  BY DEF Inv, ResetDone, TypeOK
<1>2. pc'[p] = "contact" /\ UNCHANGED <<attr, spec, before>>
  BY DEF ResetDone, Goto, folder, history, Inv, TypeOK
<1>3. ASSUME NEW a \in Others PROVE Cleared(a)
  <2>1. PICK k \in 1 .. Len(ResetOrder) : ResetOrder[k] = a
    BY DEF OrdersCover, Others
  <2>2. k < i[p]
    BY <1>1 DEF TppPolicyAssumption
  <2> QED BY <1>1, <2>1, <2>2 DEF Progress
<1>4. Approved(p)' /\ \A a \in Others : Cleared(a)'
  BY <1>1, <1>2, <1>3 DEF Progress, Approved, Cleared
<1> QED BY <1>2, <1>4 DEF Progress

LEMMA ResolveGoesOn ==
  ASSUME Inv, NEW p \in Setter, alone[p], Resolve(p)
  PROVE  Progress(p)'
<1>1. Progress(p) /\ pc[p] = "contact"
  BY DEF Inv, Resolve
<1>2. pc'[p] = "write" /\ i'[p] = 1 /\ UNCHANGED <<attr, spec, before>>
  BY DEF Resolve, Goto, At, folder, history, Inv, TypeOK
<1>3. Approved(p)'
  BY <1>1, <1>2 DEF Progress, Approved
<1>4. \A a \in Others : attr'[a] = None
  BY <1>1, <1>2 DEF Progress, Cleared
<1> QED BY <1>2, <1>3, <1>4 DEF Progress

LEMMA WriteGoesOn ==
  ASSUME TppPolicyAssumption, OrdersCover, Inv, NEW p \in Setter, alone[p], Write(p)
  PROVE  Progress(p)'
<1> DEFINE w == WriteOrder[i[p]]
           Done(a, n) == \E k \in 1 .. Len(WriteOrder) : k < n /\ WriteOrder[k] = a
<1>1. Progress(p) /\ pc[p] = "write" /\ i[p] \in Nat \ {0} /\ i[p] <= Len(WriteOrder)
  BY DEF Inv, Write, TypeOK
<1>2. w \in Others /\ Len(WriteOrder) \in Nat
  BY <1>1 DEF TppPolicyAssumption, OrdersCover, Others
<1>3. pc'[p] = "write" /\ i'[p] = i[p] + 1 /\ UNCHANGED <<spec, before>>
  BY <1>1 DEF Write, At, history, Inv, TypeOK
<1>4. attr' = IF spec[p][w] = None THEN attr ELSE [attr EXCEPT ![w] = spec[p][w]]
  BY DEF Write, Put, folder
<1>5. Approved(p)'
  BY <1>1, <1>2, <1>3, <1>4 DEF Progress, Approved, Others, Inv, TypeOK
<1>6. ASSUME NEW a \in Others
      PROVE  attr'[a] = IF Done(a, i'[p]) THEN spec'[p][a] ELSE None
  <2>1. attr[a] = IF Done(a, i[p]) THEN spec[p][a] ELSE None
    BY <1>1 DEF Progress
  <2>2. CASE a = w
    <3>1. Done(a, i'[p])
      BY <1>1, <1>2, <1>3, <2>2
    <3>2. attr'[a] = spec[p][a]
      BY <1>2, <1>4, <2>1, <2>2 DEF Inv, TypeOK, Others
    <3> QED BY <1>3, <3>1, <3>2
  <2>3. CASE a # w
    <3>1. attr'[a] = attr[a]
      BY <1>4, <2>3 DEF Inv, TypeOK, Others
    <3>2. Done(a, i'[p]) <=> Done(a, i[p])
      BY <1>1, <1>2, <1>3, <2>3
    <3> HIDE DEF Done, w
    <3> QED BY <1>3, <2>1, <3>1, <3>2
  <2> QED BY <2>2, <2>3
<1>7. \A a \in Others :
        attr'[a] = IF \E k \in 1 .. Len(WriteOrder) : k < i'[p] /\ WriteOrder[k] = a
                   THEN spec'[p][a] ELSE None
  BY <1>6
<1> QED BY <1>3, <1>5, <1>7 DEF Progress

LEMMA FinishGoesOn ==
  ASSUME TppPolicyAssumption, OrdersCover, Inv, NEW p \in Setter, alone[p], Finish(p)
  PROVE  Progress(p)'
<1>1. Progress(p) /\ pc[p] = "write" /\ i[p] \in Nat \ {0} /\ i[p] > Len(WriteOrder)
  BY DEF Inv, Finish, TypeOK
<1>2. pc'[p] = "done" /\ UNCHANGED <<attr, spec, before>>
  BY DEF Finish, Goto, folder, history, Inv, TypeOK
<1>3. ASSUME NEW a \in Others PROVE attr[a] = spec[p][a]
  <2>1. PICK k \in 1 .. Len(WriteOrder) : WriteOrder[k] = a
    BY DEF OrdersCover, Others
  <2>2. k < i[p]
    BY <1>1 DEF TppPolicyAssumption
  <2> QED BY <1>1, <2>1, <2>2 DEF Progress
<1>4. Approved(p)'
  BY <1>1, <1>2 DEF Progress, Approved
<1> QED BY <1>2, <1>3, <1>4 DEF Progress

(* A call that has failed promises nothing.                                *)
LEMMA FailureGoesOn ==
  ASSUME Inv, NEW p \in Setter, Fail(p) \/ AnswerLost(p)
  PROVE  Progress(p)'
<1>1. pc'[p] = "failed"
  BY DEF Fail, AnswerLost, Goto, Inv, TypeOK
<1> QED BY <1>1 DEF Progress

-----------------------------------------------------------------------------
LEMMA InitInv == ASSUME TppPolicyAssumption PROVE Init => Inv
<1> SUFFICES ASSUME Init PROVE Inv
  OBVIOUS
<1>1. AloneIsAlone /\ \A p \in Setter : alone[p] => Progress(p)
  BY DEF Init, AloneIsAlone
<1>2. AbsentIsEmpty
  BY DEF Init, AbsentIsEmpty, Cleared
<1> QED BY <1>1, <1>2, InitTypeOK DEF Inv

LEMMA StartKeepsInv ==
  ASSUME TppPolicyAssumption, Inv, NEW p \in Setter, NEW s \in Specs, Start(p, s)
  PROVE  Inv'
<1>1. /\ pc' = [pc EXCEPT ![p] = "exists"] /\ UNCHANGED folder
      /\ before' = [before EXCEPT ![p] = attr["Approver"]]
      /\ alone' = [q \in Setter |-> q = p /\ \A r \in Setter \ {p} : ~Active(r)]
  BY DEF Start, Goto
<1>2. \A q \in Setter : alone'[q] => q = p /\ \A r \in Setter \ {p} : ~Active(r)
  BY <1>1, Zenon
<1>3. \A r \in Setter \ {p} : Active(r)' <=> Active(r)
  BY <1>1 DEF Active, Inv, TypeOK
<1>4. AloneIsAlone'
  BY <1>2, <1>3 DEF AloneIsAlone
<1>5. AbsentIsEmpty'
  BY <1>1 DEF Inv, AbsentIsEmpty, Cleared, folder
<1>6. Progress(p)'
  BY <1>1 DEF Progress, folder, Inv, TypeOK
<1>7. TypeOK'
  BY StartTypeOK DEF Inv
<1> QED BY <1>2, <1>4, <1>5, <1>6, <1>7 DEF Inv

LEMMA StepKeepsInv ==
  ASSUME TppPolicyAssumption, OrdersCover, Inv, NEW p \in Setter, Step(p)
  PROVE  Inv'
<1>1. ASSUME alone[p] PROVE Progress(p)'
  BY <1>1, AskGoesOn, CreatingGoesOn, ApproverGoesOn, ResetGoesOn, ResetDoneGoesOn,
     ResolveGoesOn, WriteGoesOn, FinishGoesOn, FailureGoesOn DEF Step
<1>2. TypeOK'
  BY StepTypeOK DEF Inv
<1> QED BY <1>1, <1>2, StepKeepsAlone, StepKeepsAbsent DEF Inv

LEMMA NextInv ==
  ASSUME TppPolicyAssumption, OrdersCover
  PROVE  Inv /\ [Next]_vars => Inv'
<1> SUFFICES ASSUME Inv, [Next]_vars PROVE Inv'
  OBVIOUS
<1>1. CASE UNCHANGED vars
  BY <1>1 DEF vars, Inv, TypeOK, AloneIsAlone, Active, AbsentIsEmpty, Cleared, Progress, Approved
<1> QED BY <1>1, StepKeepsInv, StartKeepsInv DEF Next

(* A SetPolicy that reports success and that no other one overlapped has   *)
(* replaced the whole policy of its folder, also one that failed calls     *)
(* left there, when every attribute that is written is cleared before      *)
(* (connector.go:980-1250 and 2087-2201).                                 *)
THEOREM SuccessIsExact ==
  ASSUME TppPolicyAssumption, OrdersCover PROVE Spec => []ExactOnSuccess
<1>1. Inv => ExactOnSuccess
  BY DEF Inv, ExactOnSuccess, Progress, Approved, Others
<1> QED BY <1>1, InitInv, NextInv, PTL DEF Spec

=============================================================================
