----------------------------- MODULE Retrieval ------------------------------
(***************************************************************************)
(* Waiting for a certificate: the retry loop of the commands               *)
(* (retrieveCertificate) around the polling loops of the connectors        *)
(* (RetrieveCertificate of TPP and of the cloud).                          *)
(*                                                                         *)
(* Time is counted in ticks.  An exchange with the platform takes at most  *)
(* Latency ticks from the request to the decision; the platform answers    *)
(* with its state at some moment in between, so the answer may be out of   *)
(* date when it is acted on.  A sleeping process wakes up on time.         *)
(***************************************************************************)
EXTENDS Integers

CONSTANTS
  Calls,      \* the waits asked for
  Poll,       \* sleep of the connectors (2 s)
  Pause,      \* sleep of the commands (5 s)
  Latency,    \* longest duration of one exchange
  MaxStart,   \* bound: last time at which a wait begins
  None        \* no such time

(* inner is req.Timeout, outer the timeout of retrieveCertificate; outer   *)
(* is 0 where RetrieveCertificate is called alone.  key asks for a key     *)
(* generated by the platform, which comes with the certificate.            *)
Limits == [platform : {"tpp", "cloud"}, inner : Nat, outer : Nat, key : BOOLEAN]

ASSUME RetrievalAssumption ==
  /\ Calls \subseteq Limits
  /\ Poll \in Nat \ {0} /\ Pause \in Nat \ {0} /\ Latency \in Nat /\ MaxStart \in Nat
  /\ None \notin Nat

VARIABLES
  now,        \* current time
  status,     \* the platform's status of the certificate request
  ready,      \* certificate (and key) can be downloaded
  listed,     \* the inventory lists the certificate
  available,  \* time since which the certificate can be downloaded, or None
  call        \* the wait that is under way, or the last one

vars == <<now, status, ready, listed, available, call>>

Phase == {"retrieve", "status", "download", "inventory", "dek", "keystore"}

Outcome == {"none", "certificate", "timeout", "pending", "error", "panic"}

(* since is when the current polling loop started, due when the request    *)
(* was sent or the sleep ends.                                             *)
Call == [pc : {"idle", "asked", "answered", "asleep", "paused"},
         platform : {"tpp", "cloud"}, inner : Nat, outer : Nat, key : BOOLEAN, phase : Phase,
         began : Nat, since : Nat, due : Nat,
         answer : {"none", "yes", "no", "missing", "bad"}, outcome : Outcome]

TypeOK ==
  /\ now \in Nat /\ ready \in BOOLEAN /\ listed \in BOOLEAN
  /\ status \in {"pending", "issued", "failed"}
  /\ available \in Nat \cup {None}
  /\ call \in Call

-----------------------------------------------------------------------------
FirstPhase(c) == IF c.platform = "tpp" THEN "retrieve" ELSE "status"

(* The phases that poll; the others are one exchange each.                 *)
Polling == {"retrieve", "status", "download"}

(* After a positive answer in phase f: the next phase, or none.            *)
Last(c) == c.phase \in {"retrieve", "download", "keystore"}

(* The cloud fetches the certificate, or, when the key comes with it, the  *)
(* inventory's record, the key to encrypt the password with, and the store.*)
Following(c) ==
  CASE c.phase = "status" -> IF c.key THEN "inventory" ELSE "download"
    [] c.phase = "inventory" -> "dek"
    [] OTHER -> "keystore"

Ask(c, phase) == [c EXCEPT !.pc = "asked", !.phase = phase, !.due = now, !.answer = "none"]

(* A polling loop takes the time when it starts.                           *)
Enter(c, phase) == IF phase \in Polling THEN [Ask(c, phase) EXCEPT !.since = now]
                                        ELSE Ask(c, phase)

Over(c, o) == [c EXCEPT !.pc = "idle", !.outcome = o]

(* ErrCertificatePending reaches retrieveCertificate, which goes on only   *)
(* when it has a timeout of its own.                                       *)
Pending(c) ==
  IF c.outer = 0 THEN Over(c, "pending")
  ELSE IF now > c.began + c.outer THEN Over(c, "timeout")
  ELSE [c EXCEPT !.pc = "paused", !.due = now + Pause]

(* Mutant of NotYet: the limit is tested against the next attempt.         *)
NotYetEager(c) ==
  IF c.inner = 0 THEN Pending(c)
  ELSE IF now + Poll > c.since + c.inner THEN Over(c, "timeout")
  ELSE [c EXCEPT !.pc = "asleep", !.due = now + Poll]

(* The certificate is not there: a loop without timeout says so at once,   *)
(* one with a timeout gives up after it or sleeps.                         *)
NotYet(c) ==
  IF c.inner = 0 THEN Pending(c)
  ELSE IF now > c.since + c.inner THEN Over(c, "timeout")
  ELSE [c EXCEPT !.pc = "asleep", !.due = now + Poll]

-----------------------------------------------------------------------------
Init ==
  /\ now = 0 /\ status = "pending" /\ available = None
  /\ ready = FALSE /\ listed = FALSE
  /\ call = [pc |-> "idle", platform |-> "tpp", inner |-> 0, outer |-> 0, key |-> FALSE,
             phase |-> "retrieve", began |-> 0, since |-> 0, due |-> 0,
             answer |-> "none", outcome |-> "none"]

(* A command has posted its request, or picks up an earlier one.           *)
Begin ==
  /\ call.pc = "idle" /\ now <= MaxStart
  /\ \E l \in Calls :
       call' = Enter([call EXCEPT !.platform = l.platform, !.inner = l.inner, !.outer = l.outer,
                                  !.key = l.key, !.began = now, !.outcome = "none"],
                     FirstPhase(l))
  /\ UNCHANGED <<now, status, ready, listed, available>>

(* Mutant of Reply: the platform's status is handed on as it is.           *)
ReplyRaw(c) == IF c.phase \in Polling THEN status ELSE "yes"

(* The platform's answer in each phase.  waitForCertificate takes every    *)
(* status but 200 for "not yet"; an inventory that does not list the       *)
(* certificate answers 404.                                                *)
Reply(c) ==
  CASE c.phase = "retrieve" -> (CASE status = "issued" /\ ready -> "yes"
                                  [] status = "failed" -> "bad"
                                  [] OTHER -> "no")
    [] c.phase = "status" -> (CASE status = "issued" -> "yes"
                                [] status = "failed" -> "bad"
                                [] OTHER -> "no")
    [] c.phase = "download" -> IF ready THEN "yes" ELSE "no"
    [] c.phase = "inventory" -> IF listed THEN "yes" ELSE "missing"
    [] c.phase = "dek" -> "yes"
    [] c.phase = "keystore" -> IF ready THEN "yes" ELSE "bad"

(* The platform answers; or the exchange fails.                            *)
Answer ==
  /\ call.pc = "asked"
  /\ \E a \in {Reply(call), "bad"} : call' = [call EXCEPT !.pc = "answered", !.answer = a]
  /\ UNCHANGED <<now, status, ready, listed, available>>

(* A download that fails with any status is one of a certificate that is   *)
(* not there yet to waitForCertificate; for the caller it was not there.   *)
TurnedAway ==
  /\ call.pc = "asked" /\ call.phase = "download" /\ ready
  /\ call' = [call EXCEPT !.pc = "answered", !.answer = "no"]
  /\ available' = now
  /\ UNCHANGED <<now, status, ready, listed>>

(* The positive answer: the next phase, or the end.                        *)
Advance ==
  /\ call.pc = "answered" /\ call.answer = "yes"
  /\ call' = IF Last(call) THEN Over(call, "certificate") ELSE Enter(call, Following(call))
  /\ UNCHANGED <<now, status, ready, listed, available>>

Wait ==
  /\ call.pc = "answered" /\ call.answer = "no"
  /\ call' = NotYet(call)
  /\ UNCHANGED <<now, status, ready, listed, available>>

Fail ==
  /\ call.pc = "answered" /\ call.answer = "bad"
  /\ call' = Over(call, "error")
  /\ UNCHANGED <<now, status, ready, listed, available>>

(* getCertificate returns no certificate and no error for a 404 that has   *)
(* the platform's usual body, and getDekInfo uses the certificate.         *)
NilCertificate ==
  /\ call.pc = "answered" /\ call.answer = "missing"
  /\ call' = Over(call, "panic")
  /\ UNCHANGED <<now, status, ready, listed, available>>

(* The sleep of a connector ends: it asks again.                           *)
Again ==
  /\ call.pc = "asleep" /\ now = call.due
  /\ call' = Ask(call, call.phase)
  /\ UNCHANGED <<now, status, ready, listed, available>>

(* The sleep of the command ends: it calls RetrieveCertificate again.      *)
Retry ==
  /\ call.pc = "paused" /\ now = call.due
  /\ call' = Enter(call, FirstPhase(call))
  /\ UNCHANGED <<now, status, ready, listed, available>>

-----------------------------------------------------------------------------
(* The platform.                                                           *)

Has(s, r) == s = "issued" /\ r

Process ==
  /\ \/ status = "pending" /\ status' \in {"issued", "failed"} /\ UNCHANGED <<ready, listed>>
     \/ ~ready /\ ready' = TRUE /\ UNCHANGED <<status, listed>>
     \/ status = "issued" /\ ~listed /\ listed' = TRUE /\ UNCHANGED <<status, ready>>
  /\ available' = IF available = None /\ Has(status, ready)' THEN now ELSE available
  /\ UNCHANGED <<now, call>>

Tick ==
  /\ \/ call.pc = "idle" /\ now <= MaxStart
     \/ call.pc \in {"asked", "answered"} /\ now < call.due + Latency
     \/ call.pc \in {"asleep", "paused"} /\ now < call.due
  /\ now' = now + 1
  /\ UNCHANGED <<status, ready, listed, available, call>>

(* The bound is reached.                                                   *)
Horizon == call.pc = "idle" /\ now > MaxStart /\ UNCHANGED vars

Next ==
  \/ Begin \/ Answer \/ TurnedAway \/ Advance \/ Wait \/ Fail \/ NilCertificate \/ Again \/ Retry
  \/ Process \/ Tick \/ Horizon

Spec == Init /\ [][Next]_vars

-----------------------------------------------------------------------------
(* Properties.                                                             *)

Active == call.pc # "idle"

(* The time limit of a wait: the connector's, or the command's when the    *)
(* connector has none.                                                     *)
Limit == IF call.inner > 0 THEN call.inner ELSE call.outer

Slack == Poll + Poll + Pause + 4 * Latency

(* What the caller sees of a wait; a panic ends it like an error.  The     *)
(* cloud waits twice with one limit.                                       *)
Seen == [active |-> Active, began |-> call.began, limit |-> Limit,
         span |-> IF call.platform = "cloud" THEN Limit + Limit ELSE Limit,
         outcome |-> IF call.outcome = "panic" THEN "error" ELSE call.outcome]

Promise == INSTANCE RetrievalPromise WITH call <- Seen

(* A wait, over either platform and with any limits, ends by its deadline  *)
(* and reports nothing that RetrievalPromise does not allow: in particular *)
(* no timeout before the limit, nor when the certificate could have been   *)
(* fetched within it.                                                      *)
KeepsPromise == Promise!Spec

(* connector.go: getCertificate retries "when it is not found in           *)
(* certificate inventory".                                                 *)
NotFoundIsRetried == call.outcome # "panic"

(* flags.go: "If 0 then only attempt one retrieval", of --timeout.         *)
ZeroTimeoutAsksOnce == call.outer = 0 => call.pc \notin {"asleep", "paused"}
=============================================================================
