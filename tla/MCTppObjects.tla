----------------------------- MODULE MCTppObjects -----------------------------
(* Calls for TLC: a few of each operation, so that they meet on an object. *)
EXTENDS TppObjects, TLC

CONSTANTS p1, p2, c1, c2, c3, d1, d2

Request(d, dev, replace, want) ==
  [op |-> "request", dn |-> d, dev |-> dev, replace |-> replace, want |-> want, valid |-> TRUE]
RenewOf(d, serial, own, omit) ==
  [op |-> "renew", dn |-> d, serial |-> serial, own |-> own, omit |-> omit]
RetireOf(d, serial) == [op |-> "retire", dn |-> d, serial |-> serial]
ListOf(limit, all) == [op |-> "list", dn |-> None, limit |-> limit, withExpired |-> all]

MCFirst == <<c1, c2>>
MCCalls ==
  {Request(c1, d1, FALSE, {}), Request(c1, d1, TRUE, {}),
   [Request(c1, d1, TRUE, {}) EXCEPT !.valid = FALSE], Request(c1, d2, FALSE, {"v1"}),
   Request(c1, None, FALSE, {"v2"}), Request(c3, d1, FALSE, {"unknown"}),
   RenewOf(c1, 0, FALSE, FALSE), RenewOf(c1, 0, FALSE, TRUE), RenewOf(c3, 0, TRUE, FALSE),
   RenewOf(None, 1, FALSE, FALSE), RetireOf(None, 1), RetireOf(c3, 0), RetireOf(None, 0),
   [op |-> "revoke", dn |-> c1, disable |-> TRUE],
   [op |-> "import", dn |-> c3, serial |-> 1],
   ListOf(3, FALSE), ListOf(1, TRUE)}

Symmetry == Permutations(Caller)
=============================================================================
