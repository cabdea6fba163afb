------------------------------ MODULE TppPolicy ------------------------------
(***************************************************************************)
(* SetPolicy of the TPP connector: the attributes of a policy folder are   *)
(* cleared and written one request at a time, and nothing undoes the       *)
(* requests that were made when a later one fails.                         *)
(*                                                                         *)
(* A specification is what the translation made of it: a function from     *)
(* the attributes to the value that is wanted, None where it says nothing. *)
(***************************************************************************)
EXTENDS Naturals, Sequences

CONSTANTS
  Setter,      \* processes that may run vcert setpolicy
  Attr,        \* the attributes of a folder
  Setting,     \* their values: a list and whether it is locked
  None,        \* an attribute that is not set
  Specs,       \* the specifications that are applied
  ResetOrder,  \* the attributes that are cleared, in order
  WriteOrder,  \* the attributes that are written, in order
  MaxRuns      \* bound: calls of SetPolicy

(* What the constants have to satisfy.                                     *)
TppPolicyAssumption ==
  /\ None \notin Setting
  /\ "Approver" \in Attr
  /\ Specs \subseteq [Attr -> Setting \cup {None}]
  /\ ResetOrder \in Seq(Attr) /\ WriteOrder \in Seq(Attr)
  /\ MaxRuns \in Nat

VARIABLES
  exists,   \* the folder exists
  attr,     \* its attributes
  pc,       \* where a setter is
  spec,     \* the specification it applies
  seen,     \* its answer to: does the folder exist
  i,        \* the next attribute of the order it walks through
  alone,    \* history: no other setter has been active since it started
  before,   \* history: the approver when it started
  runs

folder == <<exists, attr>>
history == <<alone, before, runs>>
vars == <<exists, attr, pc, spec, seen, i, alone, before, runs>>

Idle == {"idle", "done", "failed"}
PC == Idle \cup {"exists", "parent", "create", "approver", "reset", "contact", "write"}
Active(p) == pc[p] \notin Idle

TypeOK ==
  /\ exists \in BOOLEAN
  /\ attr \in [Attr -> Setting \cup {None}]
  /\ pc \in [Setter -> PC]
  /\ spec \in [Setter -> Specs]
  /\ seen \in [Setter -> BOOLEAN]
  /\ i \in [Setter -> Nat \ {0}]
  /\ alone \in [Setter -> BOOLEAN]
  /\ before \in [Setter -> Setting \cup {None}]
  /\ runs \in Nat

Init ==
  /\ exists = FALSE
  /\ attr = [a \in Attr |-> None]
  /\ pc = [p \in Setter |-> "idle"]
  /\ spec \in [Setter -> Specs]
  /\ seen = [p \in Setter |-> FALSE]
  /\ i = [p \in Setter |-> 1]
  /\ alone = [p \in Setter |-> FALSE]
  /\ before = [p \in Setter |-> None]
  /\ runs = 0

Goto(p, l) == pc' = [pc EXCEPT ![p] = l]
(* Mutant of At: indices from zero.                                        *)
AtFromZero(p, k) == i' = [i EXCEPT ![p] = k - 1]
At(p, k) == i' = [i EXCEPT ![p] = k]
Put(a, v) == attr' = [attr EXCEPT ![a] = v] /\ UNCHANGED exists

(* SetPolicy starts with a specification that passed validation.           *)
Start(p, s) ==
  /\ pc[p] \in Idle /\ runs < MaxRuns
  /\ runs' = runs + 1
  /\ spec' = [spec EXCEPT ![p] = s]
  /\ alone' = [q \in Setter |-> q = p /\ \A r \in Setter \ {p} : ~Active(r)]
  /\ before' = [before EXCEPT ![p] = attr["Approver"]]
  /\ Goto(p, "exists")
  /\ UNCHANGED <<folder, seen, i>>

(* PolicyExist of the folder.                                              *)
Ask(p) ==
  /\ pc[p] = "exists"
  /\ seen' = [seen EXCEPT ![p] = exists]
  /\ Goto(p, IF exists THEN "approver" ELSE "parent")
  /\ UNCHANGED <<folder, spec, i, history>>

AskParent(p) ==
  /\ pc[p] = "parent"
  /\ Goto(p, "create")
  /\ UNCHANGED <<folder, spec, seen, i, history>>

(* Only the error of the connection is looked at: a folder that the        *)
(* platform refuses to create goes unnoticed here.                         *)
Create(p) ==
  /\ pc[p] = "create"
  /\ exists' \in {exists, TRUE}
  /\ Goto(p, "approver")
  /\ UNCHANGED <<attr, spec, seen, i, history>>

(* The approver is written before the reset and is not part of it.         *)
Approver(p) ==
  /\ pc[p] = "approver"
  /\ IF spec[p]["Approver"] = None THEN UNCHANGED folder
     ELSE exists /\ Put("Approver", spec[p]["Approver"])
  /\ Goto(p, IF seen[p] THEN "reset" ELSE "contact")
  /\ At(p, 1)
  /\ UNCHANGED <<spec, seen, history>>

(* resetTPPAttributes, of a folder that was there.                         *)
Reset(p) ==
  /\ pc[p] = "reset" /\ i[p] <= Len(ResetOrder)
  /\ Put(ResetOrder[i[p]], None)
  /\ At(p, i[p] + 1)
  /\ UNCHANGED <<pc, spec, seen, history>>

(* Mutant of ResetDone: the last attribute is not cleared.                 *)
ResetDoneEarly(p) ==
  /\ pc[p] = "reset" /\ i[p] >= Len(ResetOrder)
  /\ Goto(p, "contact")
  /\ UNCHANGED <<folder, spec, seen, i, history>>

ResetDone(p) ==
  /\ pc[p] = "reset" /\ i[p] > Len(ResetOrder)
  /\ Goto(p, "contact")
  /\ UNCHANGED <<folder, spec, seen, i, history>>

(* The contacts are looked up, after the reset.                            *)
Resolve(p) ==
  /\ pc[p] = "contact"
  /\ Goto(p, "write") /\ At(p, 1)
  /\ UNCHANGED <<folder, spec, seen, history>>

(* createPolicyAttribute for every attribute that the specification has.   *)
Write(p) ==
  /\ pc[p] = "write" /\ i[p] <= Len(WriteOrder)
  /\ LET a == WriteOrder[i[p]]
     IN  IF spec[p][a] = None THEN UNCHANGED folder ELSE exists /\ Put(a, spec[p][a])
  /\ At(p, i[p] + 1)
  /\ UNCHANGED <<pc, spec, seen, history>>

Finish(p) ==
  /\ pc[p] = "write" /\ i[p] > Len(WriteOrder)
  /\ Goto(p, "done")
  /\ UNCHANGED <<folder, spec, seen, i, history>>

(* A request fails: refused, or lost on its way.                           *)
Fail(p) ==
  /\ Active(p)
  /\ Goto(p, "failed")
  /\ UNCHANGED <<folder, spec, seen, i, history>>

(* A request is carried out, but its answer is lost.                       *)
AnswerLost(p) ==
  /\ Goto(p, "failed")
  /\ \/ /\ pc[p] = "create"
        /\ exists' = TRUE /\ UNCHANGED attr
     \/ /\ pc[p] = "approver" /\ exists /\ spec[p]["Approver"] # None
        /\ Put("Approver", spec[p]["Approver"])
     \/ /\ pc[p] = "reset" /\ i[p] <= Len(ResetOrder)
        /\ Put(ResetOrder[i[p]], None)
     \/ /\ pc[p] = "write" /\ i[p] <= Len(WriteOrder) /\ exists
        /\ spec[p][WriteOrder[i[p]]] # None
        /\ Put(WriteOrder[i[p]], spec[p][WriteOrder[i[p]]])
  /\ UNCHANGED <<spec, seen, i, history>>

Step(p) ==
  \/ Ask(p) \/ AskParent(p) \/ Create(p) \/ Approver(p) \/ Reset(p) \/ ResetDone(p)
  \/ Resolve(p) \/ Write(p) \/ Finish(p) \/ Fail(p) \/ AnswerLost(p)

Next == \E p \in Setter : Step(p) \/ \E s \in Specs : Start(p, s)

Spec == Init /\ [][Next]_vars

(* Every attribute that can be written is cleared first: the hypothesis    *)
(* under which a call replaces the policy of the folder.                   *)
OrdersCover ==
  /\ \A k, m \in 1 .. Len(WriteOrder) : WriteOrder[k] = WriteOrder[m] => k = m
  /\ \A a \in Attr \ {"Approver"} :
       /\ \E k \in 1 .. Len(WriteOrder) : WriteOrder[k] = a
       /\ \E k \in 1 .. Len(ResetOrder) : ResetOrder[k] = a
  /\ \A k \in 1 .. Len(WriteOrder) : WriteOrder[k] # "Approver"
  /\ \A k \in 1 .. Len(ResetOrder) : ResetOrder[k] # "Approver"

(* A SetPolicy that reports success, and that no other one overlapped, has *)
(* replaced the policy: whatever a folder held before, also what a call    *)
(* that failed halfway left there, each attribute is now what the          *)
(* specification says.  Only the approvers of a specification without any  *)
(* are those the folder had.                                               *)
ExactOnSuccess ==
  \A p \in Setter : (pc[p] = "done" /\ alone[p]) =>
    \A a \in Attr :
      attr[a] = IF a = "Approver" /\ spec[p][a] = None THEN before[p] ELSE spec[p][a]
=============================================================================
