------------------------------ MODULE MCPolicies ------------------------------
(***************************************************************************)
(* setpolicy of both platforms for TLC.  The connector is chosen once, by  *)
(* the configuration; a behaviour is one of TppPolicy or one of            *)
(* CloudPolicy.                                                            *)
(***************************************************************************)
EXTENDS PolicySpec, CloudPolicy

VARIABLES connector, folderExists, attr, tpc, spec, seen, i, tAlone, before, tRuns

tppVars == <<folderExists, attr, tpc, spec, seen, i, tAlone, before, tRuns>>
bothVars == <<connector, tppVars, vars>>

(* Specifications for a folder: one that enforces, one that suggests, one  *)
(* that says little.                                                       *)
Enforced ==
  [policy |-> [org |-> <<"A">>, keyType |-> <<"RSA">>, rsa |-> <<"2048">>],
   default |-> [pkix |-> <<"oid">>], users |-> <<"u">>, approvers |-> <<"v">>]
Suggested ==
  [policy |-> <<>>, default |-> [org |-> <<"B">>, keyType |-> <<"ECC">>, curve |-> <<"P256">>]]
Little == [policy |-> [reuse |-> <<"true">>], default |-> <<>>]

Symmetry == Permutations(Setter)

None == <<>>

(* What a platform with or without PKIX parameter sets is sent.            *)
Attributes == {"Approver", "Org", "KeyAlg", "PKIXDefault", "KeyReuse"}
AsFunction(ps, pkix) ==
  LET w == AttributesFor(BuildTppPolicy(ps), pkix)
  IN  [at \in Attributes |-> IF Of(w, at) = {} THEN None
                             ELSE <<ValuesOf(w, at), (CHOOSE x \in Of(w, at) : TRUE).l>>]
FolderSpecs == {AsFunction(ps, pkix) : ps \in {Enforced, Suggested, Little}, pkix \in BOOLEAN}

Among(order) == SelectSeq(order, LAMBDA at : at \in Attributes)

T == INSTANCE TppPolicy WITH
       Attr <- Attributes, Setting <- UNION {{s[at] : at \in Attributes} : s \in FolderSpecs} \ {None},
       Specs <- FolderSpecs, ResetOrder <- Among(TppResetOrder), WriteOrder <- Among(TppWriteOrder),
       exists <- folderExists, pc <- tpc, alone <- tAlone, runs <- tRuns

ASSUME PoliciesAssumption ==
  T!TppPolicyAssumption /\ T!OrdersCover /\ CloudPolicyAssumption

InitBoth ==
  /\ connector \in {"tpp", "cloud"}
  /\ T!Init /\ Init
  /\ \A p \in Setter : spec[p] = AsFunction(Little, FALSE)
  /\ \A p \in Setter : job[p] = [cit |-> "c", rules |-> "r", users |-> Nobody]

NextBoth ==
  \/ connector = "tpp" /\ T!Next /\ UNCHANGED <<connector, vars>>
  \/ connector = "cloud" /\ Next /\ UNCHANGED <<connector, tppVars>>

SpecBoth == InitBoth /\ [][NextBoth]_bothVars

-----------------------------------------------------------------------------
(* Both modules are well typed; the properties of CloudPolicy are its own. *)
BothTypeOK == T!TypeOK /\ TypeOK

(* The invariant of TppPolicy: a success that no other setter overlapped   *)
(* has replaced the whole policy of the folder.                            *)
ExactOnSuccess == T!ExactOnSuccess
=============================================================================
