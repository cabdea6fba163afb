----------------------------- MODULE MCPlaybook -----------------------------
(***************************************************************************)
(* Instances of Playbook for TLC.  `web' is a PEM installation (three      *)
(* files) with backup, afterInstallAction and installValidationAction;     *)
(* `app' is a PEM installation with neither; `store' is a PKCS#12 or JKS   *)
(* installation, one file, with an afterInstallAction.                     *)
(***************************************************************************)
EXTENDS Playbook, TLC

CONSTANTS web, app, store

PemParts == <<"cert", "key", "chain">>

MCConf ==
  [i \in Inst |->
     CASE i = web   -> [parts |-> PemParts, backup |-> TRUE, after |-> TRUE, validate |-> TRUE]
       [] i = app   -> [parts |-> PemParts, backup |-> FALSE, after |-> FALSE, validate |-> TRUE]
       [] i = store -> [parts |-> <<"cert">>, backup |-> TRUE, after |-> TRUE, validate |-> FALSE]]

OneTask == << <<web, store>> >>

TwoTasks == << <<web>>, <<app, store>> >>

WebOnly == << <<web>> >>

Symmetry == Permutations(Run)

ForceAny == {TRUE, FALSE}

ForceNever == {FALSE}
=============================================================================
