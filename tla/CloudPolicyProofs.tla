--------------------------- MODULE CloudPolicyProofs ---------------------------
(***************************************************************************)
(* Proofs about SetPolicy of the cloud connector when no other setter is   *)
(* active: it applies what it was called for, and takes nothing away from  *)
(* the application that it writes as a whole; and about both connectors    *)
(* with the specifications MCPolicies gives them, by the theorems of       *)
(* TppPolicyProofs, whose hypotheses TLC evaluates there.                  *)
(***************************************************************************)
EXTENDS MCPolicies, TLAPS

AloneIsAlone ==
  \A p \in Setter : alone[p] => \A q \in Setter \ {p} : ~Active(q)

(* What a setter that is alone knows: its template is written, and the     *)
(* copy of the application is the application with what it was called for. *)
Progress(p) ==
  LET cit == job[p].cit  users == job[p].users
  IN  /\ pc[p] \in {"app", "create", "link", "owners", "putapp", "done"} =>
           template[cit] = job[p].rules
      /\ pc[p] \in {"link", "owners", "putapp"} => exists /\ links \subseteq copyLinks[p]
      /\ pc[p] \in {"link", "owners"} => copyOwners[p] = owners
      /\ pc[p] \in {"owners", "putapp"} => cit \in copyLinks[p]
      /\ pc[p] = "owners" => changed[p] \/ cit \in links
      /\ pc[p] = "putapp" => copyOwners[p] = IF users = Nobody THEN owners ELSE users
      /\ pc[p] = "done" /\ ~refused[p] =>
           exists /\ cit \in links /\ (users # Nobody => owners = users)

Inv ==
  /\ TypeOK /\ AloneIsAlone
  /\ \A p \in Setter : alone[p] => Progress(p)

-----------------------------------------------------------------------------
LEMMA InitTypeOK == ASSUME CloudPolicyAssumption PROVE Init => TypeOK
<1> SUFFICES ASSUME Init PROVE TypeOK
  OBVIOUS
<1>1. template \in [Cit -> Rules \cup {NoRules}]
  BY DEF Init
<1>2. exists \in BOOLEAN /\ links \in SUBSET Cit /\ owners \in Owners \cup {Nobody} /\ runs \in Nat
  BY DEF Init
<1>3. pc \in [Setter -> PC] /\ job \in [Setter -> Job]
  BY DEF Init, PC, Idle
<1>4. copyLinks \in [Setter -> SUBSET Cit] /\ copyOwners \in [Setter -> Owners \cup {Nobody}]
  BY DEF Init
<1>5. /\ found \in [Setter -> BOOLEAN] /\ changed \in [Setter -> BOOLEAN]
      /\ alone \in [Setter -> BOOLEAN] /\ refused \in [Setter -> BOOLEAN]
  BY DEF Init
<1> QED BY <1>1, <1>2, <1>3, <1>4, <1>5 DEF TypeOK

(* The positions a step leads to.                                          *)
LEMMA StepMoves ==
  ASSUME TypeOK, NEW p \in Setter, Step(p)
  PROVE  /\ Active(p)
         /\ \E l \in PC : pc' = [pc EXCEPT ![p] = l]
         /\ UNCHANGED <<alone, job, runs>>
         /\ \A q \in Setter \ {p} : pc'[q] = pc[q]
<1>1. Active(p)
  BY DEF Step, Authority, Template, PutTemplate, ReadApp, CreateApp, ReadLink, ResolveOwners,
         PutApp, Fail, AnswerLost, Active, Idle
<1>2. UNCHANGED <<alone, job, runs>>
  BY DEF Step, Authority, Template, PutTemplate, ReadApp, CreateApp, ReadLink, ResolveOwners,
         PutApp, Fail, AnswerLost, history
<1>3. \E l \in PC : pc' = [pc EXCEPT ![p] = l]
  BY DEF Step, Authority, Template, PutTemplate, ReadApp, CreateApp, ReadLink, ResolveOwners,
         PutApp, Fail, AnswerLost, Goto, PC, Idle
<1>4. \A q \in Setter \ {p} : pc'[q] = pc[q]
  BY <1>3 DEF TypeOK
<1> QED BY <1>1, <1>2, <1>3, <1>4

(* What a setter was called for.                                           *)
LEMMA JobFields ==
  ASSUME TypeOK, NEW p \in Setter
  PROVE  job[p].cit \in Cit /\ job[p].rules \in Rules /\ job[p].users \in Owners \cup {Nobody}
BY DEF TypeOK, Job

LEMMA StepTypeOK ==
  ASSUME TypeOK, NEW p \in Setter, Step(p)
  PROVE  TypeOK'
<1>1. pc' \in [Setter -> PC] /\ UNCHANGED <<alone, job, runs>>
  BY StepMoves DEF TypeOK
<1>2. template' \in [Cit -> Rules \cup {NoRules}]
  BY JobFields DEF TypeOK, Step, Authority, Template, PutTemplate, ReadApp, CreateApp, ReadLink,
                   ResolveOwners, PutApp, Fail, AnswerLost
<1>3. exists' \in BOOLEAN
  BY Zenon DEF TypeOK, Step, Authority, Template, PutTemplate, ReadApp, CreateApp, ReadLink,
               ResolveOwners, PutApp, Fail, AnswerLost, app
<1>4. links' \in SUBSET Cit
  BY JobFields DEF TypeOK, Step, Authority, Template, PutTemplate, ReadApp, CreateApp, ReadLink,
                   ResolveOwners, PutApp, Fail, AnswerLost, app
<1>5. owners' \in Owners \cup {Nobody}
  BY JobFields DEF TypeOK, Step, Authority, Template, PutTemplate, ReadApp, CreateApp, ReadLink,
                   ResolveOwners, PutApp, Fail, AnswerLost, app
<1>6. found' \in [Setter -> BOOLEAN]
  <2>1. CASE Template(p)
    <3>1. PICK b \in BOOLEAN : found' = [found EXCEPT ![p] = b]
      BY <2>1 DEF Template
    <3> QED BY <3>1 DEF TypeOK
  <2>2. CASE ~Template(p)
    BY <2>2 DEF TypeOK, Step, Authority, PutTemplate, ReadApp, CreateApp, ReadLink,
                ResolveOwners, PutApp, Fail, AnswerLost
  <2> QED BY <2>1, <2>2
<1>7. copyLinks' \in [Setter -> SUBSET Cit]
  BY JobFields DEF TypeOK, Step, Authority, Template, PutTemplate, ReadApp, CreateApp, ReadLink,
                   ResolveOwners, PutApp, Fail, AnswerLost, copy
<1>8. copyOwners' \in [Setter -> Owners \cup {Nobody}]
  BY JobFields DEF TypeOK, Step, Authority, Template, PutTemplate, ReadApp, CreateApp, ReadLink,
                   ResolveOwners, PutApp, Fail, AnswerLost, copy
<1>9. changed' \in [Setter -> BOOLEAN]
  <2>1. CASE ReadLink(p)
    <3>1. PICK b \in BOOLEAN : changed' = [changed EXCEPT ![p] = b]
      BY <2>1 DEF ReadLink
    <3> QED BY <3>1 DEF TypeOK
  <2>2. CASE ~ReadLink(p)
    BY <2>2 DEF TypeOK, Step, Authority, Template, PutTemplate, ReadApp, CreateApp,
                ResolveOwners, PutApp, Fail, AnswerLost, copy
  <2> QED BY <2>1, <2>2
<1>10. refused' \in [Setter -> BOOLEAN]
  BY DEF TypeOK, Step, Authority, Template, PutTemplate, ReadApp, CreateApp, ReadLink,
         ResolveOwners, PutApp, Fail, AnswerLost, history
<1> QED BY <1>1, <1>2, <1>3, <1>4, <1>5, <1>6, <1>7, <1>8, <1>9, <1>10 DEF TypeOK

LEMMA StartTypeOK ==
  ASSUME TypeOK, NEW p \in Setter, NEW j \in Job, Start(p, j)
  PROVE  TypeOK'
<1>1. pc' \in [Setter -> PC] /\ job' \in [Setter -> Job] /\ runs' \in Nat
  BY DEF Start, Goto, TypeOK, PC, Idle
<1>2. alone' \in [Setter -> BOOLEAN]
  BY Zenon DEF Start
<1>3. refused' \in [Setter -> BOOLEAN]
  BY DEF Start, TypeOK
<1> QED BY <1>1, <1>2, <1>3 DEF Start, TypeOK, app, copy

-----------------------------------------------------------------------------
(* What a setter that is alone does with the platform.                     *)
LEMMA AuthorityGoesOn ==
  ASSUME Inv, NEW p \in Setter, Authority(p) \/ Template(p) \/ Fail(p) \/ AnswerLost(p)
  PROVE  Progress(p)'
<1>1. pc'[p] \in {"template", "put", "failed"}
  BY DEF Authority, Template, Fail, AnswerLost, Goto, Inv, TypeOK
<1> QED BY <1>1 DEF Progress

LEMMA PutTemplateGoesOn ==
  ASSUME Inv, NEW p \in Setter, PutTemplate(p)
  PROVE  Progress(p)'
<1>1. pc'[p] = "app" /\ job' = job
  BY DEF PutTemplate, Goto, Inv, TypeOK
<1>2. template'[job[p].cit] = job[p].rules
  BY JobFields DEF PutTemplate, Inv, TypeOK
<1> QED BY <1>1, <1>2 DEF Progress

LEMMA ReadAppGoesOn ==
  ASSUME Inv, NEW p \in Setter, alone[p], ReadApp(p)
  PROVE  Progress(p)'
<1>1. template[job[p].cit] = job[p].rules
  BY DEF ReadApp, Inv, Progress
<1>2. /\ pc'[p] = (IF exists THEN "link" ELSE "create")
      /\ copyLinks'[p] = links /\ copyOwners'[p] = owners
  BY DEF ReadApp, Goto, Inv, TypeOK
<1>3. UNCHANGED <<template, exists, links, owners, job>>
  BY DEF ReadApp, app
<1> QED BY <1>1, <1>2, <1>3 DEF Progress

LEMMA CreateAppGoesOn ==
  ASSUME Inv, NEW p \in Setter, alone[p], CreateApp(p)
  PROVE  Progress(p)'
<1>1. template[job[p].cit] = job[p].rules
  BY DEF CreateApp, Inv, Progress
<1>2. /\ pc'[p] = "done" /\ exists' = TRUE /\ links' = {job[p].cit}
      /\ job[p].users # Nobody => owners' = job[p].users
      /\ UNCHANGED <<template, job>>
  BY DEF CreateApp, Goto, Inv, TypeOK
<1> QED BY <1>1, <1>2 DEF Progress

LEMMA ReadLinkGoesOn ==
  ASSUME Inv, NEW p \in Setter, alone[p], ReadLink(p)
  PROVE  Progress(p)'
<1> DEFINE cit == job[p].cit
<1>1. /\ template[cit] = job[p].rules /\ exists
      /\ links \subseteq copyLinks[p] /\ copyOwners[p] = owners
  BY DEF ReadLink, Inv, Progress
<1>2. pc'[p] = "owners" /\ UNCHANGED <<template, exists, links, owners, job, copyOwners>>
  BY DEF ReadLink, Goto, app, Inv, TypeOK
<1>3. PICK linked \in {FALSE, job[p].cit \in links} :
        /\ copyLinks' = [copyLinks EXCEPT ![p] = IF linked THEN @ ELSE @ \cup {cit}]
        /\ changed' = [changed EXCEPT ![p] = ~linked]
  BY DEF ReadLink
<1>4. CASE linked
  <2>1. cit \in links /\ copyLinks'[p] = copyLinks[p]
    BY <1>3, <1>4 DEF Inv, TypeOK
  <2> QED BY <1>1, <1>2, <2>1 DEF Progress
<1>5. CASE ~linked
  <2>1. changed'[p] /\ copyLinks'[p] = copyLinks[p] \cup {cit}
    BY <1>3, <1>5 DEF Inv, TypeOK
  <2> QED BY <1>1, <1>2, <2>1 DEF Progress
<1> QED BY <1>4, <1>5

LEMMA ResolveOwnersGoesOn ==
  ASSUME CloudPolicyAssumption, Inv, NEW p \in Setter, alone[p], ResolveOwners(p)
  PROVE  Progress(p)'
<1> DEFINE cit == job[p].cit
           users == job[p].users
<1>1. /\ template[cit] = job[p].rules /\ exists /\ links \subseteq copyLinks[p]
      /\ copyOwners[p] = owners /\ cit \in copyLinks[p] /\ (changed[p] \/ cit \in links)
  BY DEF ResolveOwners, Inv, Progress
<1>2. /\ pc'[p] = (IF users # Nobody \/ changed[p] THEN "putapp" ELSE "done")
      /\ UNCHANGED <<template, exists, links, owners, job, copyLinks>>
  BY DEF ResolveOwners, Goto, app, copy, Inv, TypeOK
<1>3. copyOwners'[p] = IF users = Nobody THEN owners ELSE users
  BY <1>1 DEF ResolveOwners, copy, Inv, TypeOK
<1> QED BY <1>1, <1>2, <1>3 DEF Progress

LEMMA PutAppGoesOn ==
  ASSUME Inv, NEW p \in Setter, alone[p], PutApp(p)
  PROVE  Progress(p)'
<1> DEFINE cit == job[p].cit
           users == job[p].users
<1>1. /\ template[cit] = job[p].rules /\ exists /\ cit \in copyLinks[p]
      /\ copyOwners[p] = IF users = Nobody THEN owners ELSE users
  BY DEF PutApp, Inv, Progress
<1>2. pc'[p] = "done" /\ UNCHANGED <<template, job>>
  BY DEF PutApp, Goto, Inv, TypeOK
<1>3. CASE links' = copyLinks[p] /\ owners' = copyOwners[p] /\ exists' = exists
  BY <1>1, <1>2, <1>3 DEF Progress
<1>4. CASE refused' = [refused EXCEPT ![p] = TRUE]
  <2>1. refused'[p]
    BY <1>4 DEF Inv, TypeOK
  <2> QED BY <1>1, <1>2, <2>1 DEF Progress
<1> QED BY <1>3, <1>4 DEF PutApp

-----------------------------------------------------------------------------
LEMMA InitInv == ASSUME CloudPolicyAssumption PROVE Init => Inv
<1>1. Init => AloneIsAlone /\ \A p \in Setter : alone[p] => Progress(p)
  BY DEF Init, AloneIsAlone
<1> QED BY <1>1, InitTypeOK DEF Inv

LEMMA StepKeepsInv ==
  ASSUME CloudPolicyAssumption, Inv, NEW p \in Setter, Step(p)
  PROVE  Inv'
<1>1. TypeOK'
  BY StepTypeOK DEF Inv
<1>2. alone' = alone /\ Active(p) /\ \A q \in Setter \ {p} : pc'[q] = pc[q]
  BY StepMoves DEF Inv
<1>3. \A q \in Setter \ {p} : ~alone[q] /\ (Active(q)' <=> Active(q))
  BY <1>2 DEF Inv, AloneIsAlone, Active
<1>4. AloneIsAlone'
  BY <1>2, <1>3 DEF Inv, AloneIsAlone
<1>5. ASSUME alone[p] PROVE Progress(p)'
  BY <1>5, AuthorityGoesOn, PutTemplateGoesOn, ReadAppGoesOn, CreateAppGoesOn, ReadLinkGoesOn,
     ResolveOwnersGoesOn, PutAppGoesOn DEF Step
<1> QED BY <1>1, <1>2, <1>3, <1>4, <1>5 DEF Inv

LEMMA StartKeepsInv ==
  ASSUME Inv, NEW p \in Setter, NEW j \in Job, Start(p, j)
  PROVE  Inv'
<1>1. /\ pc' = [pc EXCEPT ![p] = "authority"]
      /\ alone' = [q \in Setter |-> q = p /\ \A r \in Setter \ {p} : ~Active(r)]
  BY DEF Start, Goto
<1>2. \A q \in Setter : alone'[q] => q = p /\ \A r \in Setter \ {p} : ~Active(r)
  BY <1>1, Zenon
<1>3. \A r \in Setter \ {p} : Active(r)' <=> Active(r)
  BY <1>1 DEF Active, Inv, TypeOK
<1>4. AloneIsAlone'
  BY <1>2, <1>3 DEF AloneIsAlone
<1>5. Progress(p)'
  BY <1>1 DEF Progress, Inv, TypeOK
<1>6. TypeOK'
  BY StartTypeOK DEF Inv
<1> QED BY <1>2, <1>4, <1>5, <1>6 DEF Inv

LEMMA NextInv ==
  ASSUME CloudPolicyAssumption
  PROVE  Inv /\ [Next]_vars => Inv'
<1> SUFFICES ASSUME Inv, [Next]_vars PROVE Inv'
  OBVIOUS
<1>1. CASE UNCHANGED vars
  BY <1>1 DEF vars, app, copy, history, Inv, TypeOK, AloneIsAlone, Active, Progress
<1> QED BY <1>1, StepKeepsInv, StartKeepsInv DEF Next

(* A SetPolicy that reports success, that no other one overlapped and      *)
(* whose application the platform did not refuse has written its template  *)
(* and linked it (SetPolicy of pkg/venafi/cloud/connector.go).             *)
THEOREM SuccessIsApplied ==
  ASSUME CloudPolicyAssumption PROVE Spec => []AppliedWhenAlone
<1>1. Inv => AppliedWhenAlone
  BY DEF Inv, AppliedWhenAlone, Progress
<1> QED BY <1>1, InitInv, NextInv, PTL DEF Spec

(* It takes no link of the application away, nor its owners, at any step.  *)
THEOREM AloneLosesNothing ==
  ASSUME CloudPolicyAssumption PROVE Spec => NothingLostAlone
<1>1. ASSUME Inv, NEW p \in Setter, Step(p), alone[p], exists
      PROVE  links \subseteq links' /\ (owners' # owners => job[p].users # Nobody)
  <2>1. CASE links' = copyLinks[p] /\ owners' = copyOwners[p] /\ pc[p] = "putapp"
    BY <1>1, <2>1 DEF Inv, Progress
  <2>2. CASE UNCHANGED <<links, owners>>
    BY <2>2
  <2> QED BY <1>1, <2>1, <2>2 DEF Step, Authority, Template, PutTemplate, ReadApp, CreateApp,
             ReadLink, ResolveOwners, PutApp, Fail, AnswerLost, app
<1>2. Inv /\ [Next]_vars =>
        [\A p \in Setter : (Step(p) /\ alone[p] /\ exists) =>
           /\ links \subseteq links'
           /\ owners' # owners => job[p].users # Nobody]_vars
  BY <1>1
<1> QED BY <1>2, InitInv, NextInv, PTL DEF Spec, NothingLostAlone

-----------------------------------------------------------------------------
(* Both connectors *)

P == INSTANCE TppPolicyProofs WITH
       Attr <- Attributes, Setting <- UNION {{s[at] : at \in Attributes} : s \in FolderSpecs} \ {None},
       Specs <- FolderSpecs, ResetOrder <- Among(TppResetOrder), WriteOrder <- Among(TppWriteOrder),
       exists <- folderExists, pc <- tpc, alone <- tAlone, runs <- tRuns

(* The steps of TppPolicy, seen through the module of its proofs.          *)
LEMMA SameStep == T!Next <=> P!Next
<1> USE DEF T!Goto, P!Goto, T!At, P!At, T!Put, P!Put, T!folder, P!folder, T!history, P!history
<1>1. ASSUME NEW p PROVE T!Step(p) <=> P!Step(p)
  <2>1. T!Ask(p) <=> P!Ask(p)
    BY DEF T!Ask, P!Ask
  <2>2. T!AskParent(p) <=> P!AskParent(p)
    BY DEF T!AskParent, P!AskParent
  <2>3. T!Create(p) <=> P!Create(p)
    BY DEF T!Create, P!Create
  <2>4. T!Approver(p) <=> P!Approver(p)
    BY DEF T!Approver, P!Approver
  <2>5. T!Reset(p) <=> P!Reset(p)
    BY DEF T!Reset, P!Reset
  <2>6. T!ResetDone(p) <=> P!ResetDone(p)
    BY DEF T!ResetDone, P!ResetDone
  <2>7. T!Resolve(p) <=> P!Resolve(p)
    BY DEF T!Resolve, P!Resolve
  <2>8. T!Write(p) <=> P!Write(p)
    BY DEF T!Write, P!Write
  <2>9. T!Finish(p) <=> P!Finish(p)
    BY DEF T!Finish, P!Finish
  <2>10. T!Fail(p) <=> P!Fail(p)
    BY DEF T!Fail, P!Fail, T!Active, P!Active, T!Idle, P!Idle
  <2>11. T!AnswerLost(p) <=> P!AnswerLost(p)
    BY DEF T!AnswerLost, P!AnswerLost
  <2> QED
    BY <2>1, <2>2, <2>3, <2>4, <2>5, <2>6, <2>7, <2>8, <2>9, <2>10, <2>11 DEF T!Step, P!Step
<1>2. ASSUME NEW p, NEW s PROVE T!Start(p, s) <=> P!Start(p, s)
  BY DEF T!Start, P!Start, T!Active, P!Active, T!Idle, P!Idle
<1> QED
  BY <1>1, <1>2 DEF T!Next, P!Next

(* TLC evaluates the assumption with the specifications of this module.    *)
LEMMA SameAssumption == P!TppPolicyAssumption /\ P!OrdersCover
  BY PoliciesAssumption DEF T!TppPolicyAssumption, P!TppPolicyAssumption, T!OrdersCover, P!OrdersCover

BothInv == P!Inv /\ Inv

LEMMA InitBothInv == InitBoth => BothInv
<1> SUFFICES ASSUME InitBoth PROVE BothInv
  OBVIOUS
<1>1. P!Init
  BY DEF InitBoth, T!Init, P!Init
<1>2. P!Inv
  BY <1>1, SameAssumption, P!InitInv
<1>3. Inv
  BY PoliciesAssumption, InitInv DEF InitBoth
<1> QED BY <1>2, <1>3 DEF BothInv

LEMMA NextBothInv == BothInv /\ [NextBoth]_bothVars => BothInv'
<1> SUFFICES ASSUME BothInv, [NextBoth]_bothVars PROVE BothInv'
  OBVIOUS
<1>1. [P!Next]_(P!vars)
  BY SameStep DEF NextBoth, bothVars, tppVars, P!vars
<1>2. [Next]_vars
  BY DEF NextBoth, bothVars
<1>3. P!Inv'
  BY <1>1, SameAssumption, P!NextInv DEF BothInv
<1>4. Inv'
  BY <1>2, PoliciesAssumption, NextInv DEF BothInv
<1> QED BY <1>3, <1>4 DEF BothInv

(* setpolicy of either platform, whatever specifications it is given, is   *)
(* well typed (connector.go of pkg/venafi/tpp and pkg/venafi/cloud).       *)
THEOREM PoliciesWellTyped == SpecBoth => []BothTypeOK
<1>1. BothInv => BothTypeOK
  BY DEF BothInv, Inv, BothTypeOK, P!Inv, P!TypeOK, T!TypeOK, P!PC, T!PC, P!Idle, T!Idle
<1> QED BY <1>1, InitBothInv, NextBothInv, PTL DEF SpecBoth

(* The specifications of the run satisfy the hypotheses of SuccessIsExact: *)
(* a success that no other setter overlapped has replaced the whole policy *)
(* of the folder.                                                          *)
THEOREM ReplacedOnSuccess == SpecBoth => []ExactOnSuccess
<1>1. BothInv => ExactOnSuccess
  BY DEF BothInv, ExactOnSuccess, P!Inv, T!ExactOnSuccess, P!Progress, P!Approved, P!Others
<1> QED BY <1>1, InitBothInv, NextBothInv, PTL DEF SpecBoth

=============================================================================
