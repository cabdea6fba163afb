-------------------------- MODULE RetrievalPromise --------------------------
(***************************************************************************)
(* What a caller of retrieveCertificate (or of RetrieveCertificate alone,  *)
(* as the playbook is) may rely on, whatever the platform and however the  *)
(* waiting is done:                                                        *)
(*   - a certificate is returned only when the platform has one;           *)
(*   - a timeout is reported only after the time limit, and only when the  *)
(*     certificate was not there early enough for an answer by then;       *)
(*   - "pending" is an answer only when no waiting was asked for;          *)
(*   - the call is over by its deadline.                                   *)
(***************************************************************************)
EXTENDS Integers

CONSTANTS
  Latency,   \* longest duration of one exchange with the platform
  Slack,     \* how much later than its limits a call may end
  None       \* no such time

VARIABLES
  now,        \* current time
  available,  \* time since which the certificate can be had, or None
  call        \* [active, began, limit, span, outcome]

vars == <<now, available, call>>

(* limit is the time a caller is ready to wait, span how long the waits    *)
(* to which the platform applies it may last together.                     *)
Deadline(c) == c.began + c.span + Slack

Init ==
  /\ now = 0
  /\ available = None
  /\ call = [active |-> FALSE, began |-> 0, limit |-> 0, span |-> 0,
             outcome |-> "none"]

Begin ==
  /\ ~call.active
  /\ call'.limit \in Nat /\ call'.span \in Nat
  /\ call' = [active |-> TRUE, began |-> now, limit |-> call'.limit, span |-> call'.span,
              outcome |-> "none"]
  /\ UNCHANGED <<now, available>>

Late == now > call.began + call.limit

(* The certificate was there in time to be fetched within the limit.       *)
InTime == available # None /\ available + Latency <= call.began + call.limit

MayEnd(o) ==
  \/ o = "certificate" /\ available # None
  \/ o = "timeout" /\ call.limit > 0 /\ Late /\ ~InTime
  \/ o = "pending" /\ call.limit = 0
  \/ o = "error"

End ==
  /\ call.active
  /\ \E o \in {"certificate", "timeout", "pending", "error"} :
       /\ MayEnd(o)
       /\ call' = [active |-> FALSE, began |-> call.began, limit |-> call.limit, span |-> call.span,
                   outcome |-> o]
  /\ UNCHANGED <<now, available>>

(* The certificate appears; or a download of it has just failed, and it    *)
(* can be had from now on again.                                           *)
Appear == available' = now /\ UNCHANGED <<now, call>>

Tick ==
  /\ call.active => now < Deadline(call)
  /\ now' = now + 1
  /\ UNCHANGED <<available, call>>

Next == Begin \/ End \/ Appear \/ Tick

Spec == Init /\ [][Next]_vars
=============================================================================
