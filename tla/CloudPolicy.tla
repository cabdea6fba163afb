----------------------------- MODULE CloudPolicy -----------------------------
(***************************************************************************)
(* SetPolicy of the cloud connector: the issuing template is written, then *)
(* the application is read, changed in memory and written back as a whole  *)
(* to link it with the template.                                           *)
(***************************************************************************)
EXTENDS Naturals

CONSTANTS
  Setter,     \* processes that may run vcert setpolicy
  Cit,        \* names of issuing templates
  Rules,      \* what a specification makes of a template
  Owners,     \* sets of owners an application may have
  Nobody,     \* a specification without users
  NoRules,    \* a template that does not exist
  MaxRuns     \* bound: calls of SetPolicy

(* What the constants have to satisfy.                                     *)
CloudPolicyAssumption ==
  /\ Nobody \notin Owners /\ NoRules \notin Rules
  /\ MaxRuns \in Nat

VARIABLES
  template,   \* the issuing templates, by name
  exists,     \* the application exists
  links,      \* the templates it is linked with
  owners,     \* its owners
  pc, job,    \* where a setter is and what it was called for
  found,      \* its answer to: does the template exist
  copyLinks, copyOwners, changed,   \* the application as it read and changed it
  alone,      \* history: no other setter has been active since it started
  refused,    \* history: the platform refused to write the application
  runs

app == <<exists, links, owners>>
copy == <<copyLinks, copyOwners, changed>>
history == <<alone, refused, runs>>
vars == <<template, app, pc, job, found, copy, history>>

Job == [cit : Cit, rules : Rules, users : Owners \cup {Nobody}]
Idle == {"idle", "done", "failed"}
PC == Idle \cup {"authority", "template", "put", "app", "create", "link", "owners", "putapp"}
Active(p) == pc[p] \notin Idle

TypeOK ==
  /\ template \in [Cit -> Rules \cup {NoRules}]
  /\ exists \in BOOLEAN /\ links \in SUBSET Cit /\ owners \in Owners \cup {Nobody}
  /\ pc \in [Setter -> PC] /\ job \in [Setter -> Job]
  /\ found \in [Setter -> BOOLEAN]
  /\ copyLinks \in [Setter -> SUBSET Cit]
  /\ copyOwners \in [Setter -> Owners \cup {Nobody}]
  /\ changed \in [Setter -> BOOLEAN]
  /\ alone \in [Setter -> BOOLEAN] /\ refused \in [Setter -> BOOLEAN]
  /\ runs \in Nat

Init ==
  /\ template = [c \in Cit |-> NoRules]
  /\ exists = FALSE /\ links = {} /\ owners = Nobody
  /\ pc = [p \in Setter |-> "idle"] /\ job \in [Setter -> Job]
  /\ found = [p \in Setter |-> FALSE]
  /\ copyLinks = [p \in Setter |-> {}] /\ copyOwners = [p \in Setter |-> Nobody]
  /\ changed = [p \in Setter |-> FALSE]
  /\ alone = [p \in Setter |-> FALSE] /\ refused = [p \in Setter |-> FALSE]
  /\ runs = 0

Goto(p, l) == pc' = [pc EXCEPT ![p] = l]

Start(p, j) ==
  /\ pc[p] \in Idle /\ runs < MaxRuns
  /\ runs' = runs + 1
  /\ job' = [job EXCEPT ![p] = j]
  /\ alone' = [q \in Setter |-> q = p /\ \A r \in Setter \ {p} : ~Active(r)]
  /\ refused' = [refused EXCEPT ![p] = FALSE]
  /\ Goto(p, "authority")
  /\ UNCHANGED <<template, app, found, copy>>

(* getCertificateAuthorityDetails: the account and the product exist.      *)
Authority(p) ==
  /\ pc[p] = "authority"
  /\ Goto(p, "template")
  /\ UNCHANGED <<template, app, job, found, copy, history>>

(* getCit lists the templates and looks for the name.  The status of the   *)
(* answer is not looked at: an error is a list without templates.          *)
Template(p) ==
  /\ pc[p] = "template"
  /\ found' \in {[found EXCEPT ![p] = b] : b \in {FALSE, template[job[p].cit] # NoRules}}
  /\ Goto(p, "put")
  /\ UNCHANGED <<template, app, job, copy, history>>

(* PUT of the template that was found, POST of a new one; the platform     *)
(* takes a name once.                                                      *)
PutTemplate(p) ==
  /\ pc[p] = "put"
  /\ found[p] <=> template[job[p].cit] # NoRules
  /\ template' = [template EXCEPT ![job[p].cit] = job[p].rules]
  /\ Goto(p, "app")
  /\ UNCHANGED <<app, job, found, copy, history>>

(* Mutant of ReadApp: the links are not copied.                            *)
ReadAppWithoutLinks(p) ==
  /\ pc[p] = "app"
  /\ copyLinks' = [copyLinks EXCEPT ![p] = {}]
  /\ copyOwners' = [copyOwners EXCEPT ![p] = owners]
  /\ changed' = [changed EXCEPT ![p] = FALSE]
  /\ Goto(p, IF exists THEN "link" ELSE "create")
  /\ UNCHANGED <<template, app, job, found, history>>

(* getAppDetailsByName.  An answer of 404 says that there is none; every   *)
(* other failure is taken for an application and ends in a nil pointer.    *)
ReadApp(p) ==
  /\ pc[p] = "app"
  /\ copyLinks' = [copyLinks EXCEPT ![p] = links]
  /\ copyOwners' = [copyOwners EXCEPT ![p] = owners]
  /\ changed' = [changed EXCEPT ![p] = FALSE]
  /\ Goto(p, IF exists THEN "link" ELSE "create")
  /\ UNCHANGED <<template, app, job, found, history>>

(* createApplication: with the users, or else with the caller as owner.    *)
CreateApp(p) ==
  /\ pc[p] = "create" /\ ~exists
  /\ exists' = TRUE /\ links' = {job[p].cit}
  /\ IF job[p].users = Nobody THEN owners' \in Owners ELSE owners' = job[p].users
  /\ Goto(p, "done")
  /\ UNCHANGED <<template, job, found, copy, history>>

(* Mutant of ReadLink: the change is not noted.                            *)
ReadLinkUnchanged(p) ==
  /\ pc[p] = "link"
  /\ \E linked \in {FALSE, job[p].cit \in links} :
       copyLinks' = [copyLinks EXCEPT ![p] = IF linked THEN @ ELSE @ \cup {job[p].cit}]
  /\ Goto(p, "owners")
  /\ UNCHANGED <<template, app, job, found, copyOwners, changed, history>>

(* PolicyExist reads the template through the application; every error     *)
(* means that they are not linked.                                         *)
ReadLink(p) ==
  /\ pc[p] = "link"
  /\ \E linked \in {FALSE, job[p].cit \in links} :
       /\ copyLinks' = [copyLinks EXCEPT ![p] = IF linked THEN @ ELSE @ \cup {job[p].cit}]
       /\ changed' = [changed EXCEPT ![p] = ~linked]
  /\ Goto(p, "owners")
  /\ UNCHANGED <<template, app, job, found, copyOwners, history>>

(* resolveOwners, when the specification has users.                        *)
ResolveOwners(p) ==
  /\ pc[p] = "owners"
  /\ IF job[p].users = Nobody THEN UNCHANGED copy
     ELSE /\ copyOwners' = [copyOwners EXCEPT ![p] = job[p].users]
          /\ changed' = [changed EXCEPT ![p] = TRUE]
          /\ UNCHANGED copyLinks
  /\ Goto(p, IF job[p].users # Nobody \/ changed[p] THEN "putapp" ELSE "done")
  /\ UNCHANGED <<template, app, job, found, history>>

(* PUT of the application.  The status of the answer is not looked at.     *)
PutApp(p) ==
  /\ pc[p] = "putapp"
  /\ \/ /\ links' = copyLinks[p] /\ owners' = copyOwners[p]
        /\ UNCHANGED <<exists, refused>>
     \/ /\ refused' = [refused EXCEPT ![p] = TRUE]
        /\ UNCHANGED app
  /\ Goto(p, "done")
  /\ UNCHANGED <<template, job, found, copy, alone, runs>>

(* A request fails: refused, or lost on its way.                           *)
Fail(p) ==
  /\ Active(p)
  /\ Goto(p, "failed")
  /\ UNCHANGED <<template, app, job, found, copy, history>>

(* A request is carried out, but its answer is lost.                       *)
AnswerLost(p) ==
  /\ \/ /\ pc[p] = "put" /\ (found[p] <=> template[job[p].cit] # NoRules)
        /\ template' = [template EXCEPT ![job[p].cit] = job[p].rules]
        /\ UNCHANGED app
     \/ /\ pc[p] = "create" /\ ~exists
        /\ exists' = TRUE /\ links' = {job[p].cit}
        /\ IF job[p].users = Nobody THEN owners' \in Owners ELSE owners' = job[p].users
        /\ UNCHANGED template
     \/ /\ pc[p] = "putapp"
        /\ links' = copyLinks[p] /\ owners' = copyOwners[p]
        /\ UNCHANGED <<template, exists>>
  /\ Goto(p, "failed")
  /\ UNCHANGED <<job, found, copy, history>>

Step(p) ==
  \/ Authority(p) \/ Template(p) \/ PutTemplate(p) \/ ReadApp(p) \/ CreateApp(p) \/ ReadLink(p)
  \/ ResolveOwners(p) \/ PutApp(p) \/ Fail(p) \/ AnswerLost(p)

Next == \E p \in Setter : Step(p) \/ \E j \in Job : Start(p, j)

Spec == Init /\ [][Next]_vars

-----------------------------------------------------------------------------
(* A SetPolicy that reports success, that no other one overlapped and      *)
(* whose application the platform did not refuse, leaves the template with *)
(* its rules and linked with the application, and the owners it names.     *)
AppliedWhenAlone ==
  \A p \in Setter : (pc[p] = "done" /\ alone[p] /\ ~refused[p]) =>
    /\ template[job[p].cit] = job[p].rules
    /\ exists /\ job[p].cit \in links
    /\ job[p].users # Nobody => owners = job[p].users

(* The application is written as a whole from a copy: a setter that no     *)
(* other one overlapped takes no link away, and changes the owners only    *)
(* when its specification names users.                                     *)
NothingLostAlone ==
  [][\A p \in Setter : (Step(p) /\ alone[p] /\ exists) =>
       /\ links \subseteq links'
       /\ owners' # owners => job[p].users # Nobody]_vars

(* The comment of SetPolicy: its final steps link the application with the *)
(* template, after which it reports success.                               *)
LinkedAfterSuccess ==
  [][\A p \in Setter : (pc[p] # "done" /\ pc'[p] = "done") => job[p].cit \in links']_vars
=============================================================================
