---------------------------- MODULE MCRetrieval -----------------------------
(***************************************************************************)
(* Instances of Retrieval for TLC.  A tick is two seconds or more: Poll is *)
(* one, Pause two, and the fixed 180 seconds of enroll and renew four.     *)
(***************************************************************************)
EXTENDS Retrieval

Wait180 == 4

(* enroll and renew; pickup; the playbook.                                 *)
Enroll(platform, outer, key) ==
  [platform |-> platform, inner |-> Wait180, outer |-> outer, key |-> key]

PickUp(platform, outer, key) ==
  [platform |-> platform, inner |-> 0, outer |-> outer, key |-> key]

PlaybookTask(platform, timeout, key) ==
  [platform |-> platform, inner |-> timeout, outer |-> 0, key |-> key]

AllCalls ==
  UNION {{Enroll(f, 3, k), PickUp(f, 0, k), PickUp(f, 3, k), PlaybookTask(f, 2, k)} :
           f \in {"tpp", "cloud"}, k \in BOOLEAN}

EnrollCalls == {Enroll("tpp", 0, FALSE), Enroll("tpp", 3, FALSE)}

ServiceCalls == {Enroll("cloud", 3, TRUE)}
=============================================================================
