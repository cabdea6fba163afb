--------------------------- MODULE RetrievalProofs --------------------------
(***************************************************************************)
(* Retrieval implements RetrievalPromise, for every limit, sleep and       *)
(* latency.  The inductive invariant says in each phase how late a request *)
(* may have been sent, what a negative answer still means when it is       *)
(* acted on, and what is known of the platform in the later phases.        *)
(***************************************************************************)
EXTENDS Retrieval, TLAPS

(* The exchange or the sleep of a wait that is neither over nor paused.    *)
Looking == call.pc \in {"asked", "answered", "asleep"}

(* How far a sleep takes the first phase beyond the limit.                 *)
Overrun == IF call.inner > 0 THEN Poll ELSE Pause

(* The latest time at which the first phase asks.                          *)
LastAsk == call.began + Limit + Overrun

Clocks ==
  /\ call.began <= call.since /\ call.since <= now
  /\ call.pc \in {"asked", "answered"} =>
       call.since <= call.due /\ call.due <= now /\ now <= call.due + Latency
  /\ call.pc \in {"asleep", "paused"} => now <= call.due

(* Who sleeps, and in which phases.                                        *)
Shape ==
  /\ call.pc = "asleep" => call.inner > 0 /\ call.phase \in Polling
  /\ call.pc = "paused" => call.inner = 0 /\ call.outer > 0
  /\ call.pc = "answered" /\ call.answer = "no" => call.phase \in Polling
  /\ call.platform = "tpp" <=> call.phase = "retrieve"

(* The latest time at which the request of each phase is sent.             *)
Dues ==
  /\ call.pc = "paused" => call.due <= LastAsk
  /\ Looking /\ call.phase = FirstPhase(call) => call.due <= LastAsk
  /\ Looking /\ call.phase = FirstPhase(call) /\ call.inner > 0 => call.since = call.began
  /\ Looking /\ call.phase = "download" =>
       /\ call.since <= LastAsk + Latency
       /\ call.due <= call.since + (IF call.inner > 0 THEN call.inner + Poll ELSE 0)
  /\ Looking /\ call.phase = "inventory" => call.due <= LastAsk + Latency
  /\ Looking /\ call.phase = "dek" => call.due <= LastAsk + 2 * Latency
  /\ Looking /\ call.phase = "keystore" => call.due <= LastAsk + 3 * Latency

(* What the caller may conclude about the platform.                        *)
Knowledge ==
  /\ available # None <=> Has(status, ready)
  /\ Looking /\ call.phase \notin {"retrieve", "status"} => status = "issued"
  /\ call.pc = "answered" /\ call.answer = "yes" /\ call.phase = "status" => status = "issued"
  /\ call.pc = "answered" /\ call.answer = "yes" /\ Last(call) => available # None
  /\ call.pc = "answered" /\ call.answer = "no" => available = None \/ available >= call.due

Inv == TypeOK /\ Clocks /\ Shape /\ Dues /\ Knowledge

-----------------------------------------------------------------------------
USE RetrievalAssumption

LEMMA InvInit == Init => Inv
<1> SUFFICES ASSUME Init PROVE Inv
  OBVIOUS
<1>1. TypeOK
  BY DEF Init, TypeOK, Call, Phase, Outcome
<1>2. Clocks /\ Shape
  BY DEF Init, Clocks, Shape
<1>3. Dues
  BY DEF Init, Dues, Looking
<1>4. Knowledge
  BY DEF Init, Knowledge, Looking, Has
<1> QED
  BY <1>1, <1>2, <1>3, <1>4 DEF Inv

LEMMA InvNext == Inv /\ [Next]_vars => Inv'
<1> SUFFICES ASSUME Inv, [Next]_vars PROVE Inv'
  OBVIOUS
<1> USE DEF Inv, FirstPhase
<1>1. CASE Begin
  <2>1. PICK l \in Calls :
             call' = Enter([call EXCEPT !.platform = l.platform, !.inner = l.inner,
                              !.outer = l.outer, !.key = l.key, !.began = now,
                              !.outcome = "none"], FirstPhase(l))
    BY <1>1 DEF Begin
  <2>2. /\ now \in Nat /\ l \in Limits
        /\ UNCHANGED <<now, status, ready, listed, available>>
    BY <1>1 DEF Begin, TypeOK
  <2>3. call' = [pc |-> "asked", platform |-> l.platform, inner |-> l.inner, outer |-> l.outer,
                 key |-> l.key, phase |-> FirstPhase(l), began |-> now, since |-> now,
                 due |-> now, answer |-> "none", outcome |-> "none"]
    BY <2>1, <2>2 DEF Enter, Ask, Polling, TypeOK, Call
  <2>4. TypeOK'
    BY <2>2, <2>3 DEF TypeOK, Call, Phase, Outcome, Limits
  <2>5. Clocks' /\ Shape'
    BY <2>2, <2>3 DEF Clocks, Shape, Polling, Limits
  <2>6. Dues'
    BY <2>2, <2>3 DEF Dues, Looking, LastAsk, Overrun, Limit, Limits
  <2>7. Knowledge'
    BY <2>2, <2>3 DEF TypeOK, Knowledge, Looking, Has, Last, Limits
  <2> QED
    BY <2>4, <2>5, <2>6, <2>7
<1>2. CASE Answer
  <2>1. TypeOK'
    <3>1. PICK a \in {"yes", "no", "missing", "bad"} :
             call' = [call EXCEPT !.pc = "answered", !.answer = a]
      <4>1. Reply(call) \in {"yes", "no", "missing", "bad"}
        BY DEF Reply, TypeOK, Call, Phase
      <4> QED
        BY <1>2, <4>1 DEF Answer
    <3>2. UNCHANGED <<now, status, ready, listed, available>>
      BY <1>2 DEF Answer
    <3>3. call' \in Call
      BY <3>1 DEF TypeOK, Call
    <3> QED
      BY <3>2, <3>3 DEF TypeOK
  <2>2. Clocks'
    BY <1>2 DEF Answer, Reply, Polling, Has, Last, TypeOK, Call, Phase,
       Outcome, Clocks
  <2>3. Shape'
    BY <1>2 DEF Answer, Reply, Polling, Has, Last, TypeOK, Call, Phase,
       Outcome, Shape
  <2>4. Dues'
    BY <1>2 DEF Answer, Reply, Polling, Has, Last, TypeOK, Call, Phase,
       Outcome, Clocks, Shape, Dues, Looking, LastAsk, Overrun, Limit
  <2>5. Knowledge'
    BY <1>2 DEF Answer, Reply, Polling, Has, Last, TypeOK, Call, Phase,
       Outcome, Clocks, Shape, Knowledge, Looking
  <2> QED
    BY <2>1, <2>2, <2>3, <2>4, <2>5
<1>3. CASE Advance
  <2> USE DEF TypeOK
  <2>1. UNCHANGED <<now, status, ready, listed, available>> /\ now \in Nat
    BY <1>3 DEF Advance
  <2>2. CASE Last(call)
    <3>1. call' = [call EXCEPT !.pc = "idle", !.outcome = "certificate"]
      BY <1>3, <2>2 DEF Advance, Over
    <3>2. call' \in Call
      BY <3>1 DEF Call, Outcome
    <3>3. Clocks' /\ Shape' /\ Dues'
      BY <2>1, <3>1 DEF Call, Clocks, Shape, Dues, Looking
    <3>4. Knowledge'
      BY <2>1, <3>1 DEF Call, Looking, Knowledge, Has
    <3> QED
      BY <2>1, <3>2, <3>3, <3>4
  <2>3. CASE ~Last(call)
    <3>1. call.pc = "answered" /\ call.answer = "yes" /\ status = "issued"
      BY <1>3, <2>3 DEF Advance, Last, Knowledge, Looking, Call, Phase
    <3>2. call.platform = "cloud"
      BY <2>3 DEF Shape, Last, Call
    <3>3. CASE call.phase = "status" /\ call.key
      <4>1. call' = [call EXCEPT !.pc = "asked", !.phase = "inventory", !.due = now,
                                 !.answer = "none"]
        BY <1>3, <2>3, <3>3 DEF Advance, Following, Enter, Ask, Polling
      <4>2. TypeOK'
        BY <2>1, <3>1, <3>2, <3>3, <4>1 DEF Call, Phase, Outcome
      <4>3. Clocks'
        BY <2>1, <3>1, <3>2, <3>3, <4>1 DEF Call, Clocks
      <4>4. Shape'
        BY <2>1, <3>1, <3>2, <3>3, <4>1 DEF Call, Phase, Shape, Polling
      <4>5. Dues'
        BY <2>1, <3>1, <3>2, <3>3, <4>1 DEF Call, Phase, Clocks, Shape, Dues, Looking,
           LastAsk, Overrun, Limit, Polling
      <4>6. Knowledge'
        BY <2>1, <3>1, <3>2, <3>3, <4>1 DEF Call, Phase, Knowledge, Looking, Has, Last
      <4> QED
        BY <4>2, <4>3, <4>4, <4>5, <4>6
    <3>4. CASE call.phase = "status" /\ ~call.key
      <4>1. call' = [call EXCEPT !.pc = "asked", !.phase = "download", !.due = now,
                                 !.answer = "none", !.since = now]
        BY <1>3, <2>3, <3>4 DEF Advance, Following, Enter, Ask, Polling, Call
      <4>2. TypeOK'
        BY <2>1, <3>1, <3>2, <3>4, <4>1 DEF Call, Phase, Outcome
      <4>3. Clocks'
        BY <2>1, <3>1, <3>2, <3>4, <4>1 DEF Call, Clocks
      <4>4. Shape'
        BY <2>1, <3>1, <3>2, <3>4, <4>1 DEF Call, Phase, Shape, Polling
      <4>5. Dues'
        BY <2>1, <3>1, <3>2, <3>4, <4>1 DEF Call, Phase, Clocks, Shape, Dues, Looking,
           LastAsk, Overrun, Limit, Polling
      <4>6. Knowledge'
        BY <2>1, <3>1, <3>2, <3>4, <4>1 DEF Call, Phase, Knowledge, Looking, Has, Last
      <4> QED
        BY <4>2, <4>3, <4>4, <4>5, <4>6
    <3>5. CASE call.phase = "inventory"
      <4>1. call' = [call EXCEPT !.pc = "asked", !.phase = "dek", !.due = now,
                                 !.answer = "none"]
        BY <1>3, <2>3, <3>5 DEF Advance, Following, Enter, Ask, Polling
      <4>2. TypeOK'
        BY <2>1, <3>1, <3>2, <3>5, <4>1 DEF Call, Phase, Outcome
      <4>3. Clocks'
        BY <2>1, <3>1, <3>2, <3>5, <4>1 DEF Call, Clocks
      <4>4. Shape'
        BY <2>1, <3>1, <3>2, <3>5, <4>1 DEF Call, Phase, Shape, Polling
      <4>5. Dues'
        BY <2>1, <3>1, <3>2, <3>5, <4>1 DEF Call, Phase, Clocks, Shape, Dues, Looking,
           LastAsk, Overrun, Limit, Polling
      <4>6. Knowledge'
        BY <2>1, <3>1, <3>2, <3>5, <4>1 DEF Call, Phase, Knowledge, Looking, Has, Last
      <4> QED
        BY <4>2, <4>3, <4>4, <4>5, <4>6
    <3>6. CASE call.phase = "dek"
      <4>1. call' = [call EXCEPT !.pc = "asked", !.phase = "keystore", !.due = now,
                                 !.answer = "none"]
        BY <1>3, <2>3, <3>6 DEF Advance, Following, Enter, Ask, Polling
      <4>2. TypeOK'
        BY <2>1, <3>1, <3>2, <3>6, <4>1 DEF Call, Phase, Outcome
      <4>3. Clocks'
        BY <2>1, <3>1, <3>2, <3>6, <4>1 DEF Call, Clocks
      <4>4. Shape'
        BY <2>1, <3>1, <3>2, <3>6, <4>1 DEF Call, Phase, Shape, Polling
      <4>5. Dues'
        BY <2>1, <3>1, <3>2, <3>6, <4>1 DEF Call, Phase, Clocks, Shape, Dues, Looking,
           LastAsk, Overrun, Limit, Polling
      <4>6. Knowledge'
        BY <2>1, <3>1, <3>2, <3>6, <4>1 DEF Call, Phase, Knowledge, Looking, Has, Last
      <4> QED
        BY <4>2, <4>3, <4>4, <4>5, <4>6
    <3> QED
      BY <2>3, <3>3, <3>4, <3>5, <3>6 DEF Last, Call, Phase
  <2> QED
    BY <2>2, <2>3
<1>4. CASE Wait
  <2> USE DEF TypeOK
  <2>1. call.pc = "answered" /\ call.answer = "no" /\ call.phase \in Polling
    BY <1>4 DEF Wait, Shape
  <2>2. UNCHANGED <<now, status, ready, listed, available>> /\ now \in Nat
    BY <1>4 DEF Wait
  <2>3. ASSUME NEW o \in {"timeout", "pending"}, call' = [call EXCEPT !.pc = "idle", !.outcome = o]
        PROVE  Inv'
    <3>1. TypeOK'
      BY <2>2, <2>3 DEF Call, Phase, Outcome
    <3>2. Clocks'
      BY <2>2, <2>3 DEF Call, Clocks
    <3>3. Shape'
      BY <2>2, <2>3 DEF Call, Phase, Shape, Polling
    <3>4. Dues'
      BY <2>2, <2>3 DEF Call, Phase, Clocks, Shape, Dues, Looking, LastAsk, Overrun,
         Limit, Polling
    <3>5. Knowledge'
      BY <2>2, <2>3 DEF Call, Phase, Knowledge, Looking, Has, Last
    <3> QED
      BY <3>1, <3>2, <3>3, <3>4, <3>5
  <2>4. CASE /\ call.inner > 0 /\ now <= call.since + call.inner
             /\ call' = [call EXCEPT !.pc = "asleep", !.due = now + Poll]
    <3>1. TypeOK'
      <4>1. now + Poll \in Nat
        BY <2>2
      <4>2. call' \in Call
        BY <2>4, <4>1 DEF Call
      <4> QED
        BY <2>2, <4>2
    <3>2. Clocks'
      BY <2>1, <2>2, <2>4 DEF Call, Clocks
    <3>3. Shape'
      BY <2>1, <2>2, <2>4 DEF Call, Phase, Shape, Polling
    <3>4. Dues'
      BY <2>1, <2>2, <2>4 DEF Call, Phase, Clocks, Shape, Dues, Looking, LastAsk,
         Overrun, Limit, Polling
    <3>5. Knowledge'
      BY <2>1, <2>2, <2>4 DEF Call, Phase, Knowledge, Looking, Has, Last
    <3> QED
      BY <3>1, <3>2, <3>3, <3>4, <3>5
  <2>5. CASE /\ call.inner = 0 /\ call.outer > 0 /\ now <= call.began + call.outer
             /\ call' = [call EXCEPT !.pc = "paused", !.due = now + Pause]
    <3>1. TypeOK'
      <4>1. now + Pause \in Nat
        BY <2>2
      <4>2. call' \in Call
        BY <2>5, <4>1 DEF Call
      <4> QED
        BY <2>2, <4>2
    <3>2. Clocks'
      BY <2>1, <2>2, <2>5 DEF Call, Clocks
    <3>3. Shape'
      BY <2>1, <2>2, <2>5 DEF Call, Phase, Shape, Polling
    <3>4. Dues'
      BY <2>1, <2>2, <2>5 DEF Call, Phase, Clocks, Shape, Dues, Looking, LastAsk,
         Overrun, Limit, Polling
    <3>5. Knowledge'
      BY <2>1, <2>2, <2>5 DEF Call, Phase, Knowledge, Looking, Has, Last
    <3> QED
      BY <3>1, <3>2, <3>3, <3>4, <3>5
  <2>6. \/ \E o \in {"timeout", "pending"} : call' = [call EXCEPT !.pc = "idle", !.outcome = o]
        \/ /\ call.inner > 0 /\ now <= call.since + call.inner
           /\ call' = [call EXCEPT !.pc = "asleep", !.due = now + Poll]
        \/ /\ call.inner = 0 /\ call.outer > 0 /\ now <= call.began + call.outer
           /\ call' = [call EXCEPT !.pc = "paused", !.due = now + Pause]
    BY <1>4 DEF Wait, NotYet, Pending, Over, Call
  <2> QED
    BY <2>3, <2>4, <2>5, <2>6
<1>5. CASE Fail
  <2>1. TypeOK'
    BY <1>5 DEF Fail, Over, TypeOK, Call, Phase, Outcome
  <2>2. Clocks'
    BY <1>5 DEF Fail, Over, TypeOK, Call, Phase, Outcome, Clocks
  <2>3. Shape'
    BY <1>5 DEF Fail, Over, TypeOK, Call, Phase, Outcome, Shape, Polling
  <2>4. Dues'
    BY <1>5 DEF Fail, Over, TypeOK, Call, Phase, Outcome, Clocks, Shape, Dues,
       Looking, LastAsk, Overrun, Limit
  <2>5. Knowledge'
    BY <1>5 DEF Fail, Over, TypeOK, Call, Phase, Outcome, Clocks, Shape,
       Knowledge, Looking, Has, Last
  <2> QED
    BY <2>1, <2>2, <2>3, <2>4, <2>5
<1>6. CASE NilCertificate
  <2>1. TypeOK'
    BY <1>6 DEF NilCertificate, Over, TypeOK, Call, Phase, Outcome
  <2>2. Clocks'
    BY <1>6 DEF NilCertificate, Over, TypeOK, Call, Phase, Outcome, Clocks
  <2>3. Shape'
    BY <1>6 DEF NilCertificate, Over, TypeOK, Call, Phase, Outcome, Shape,
       Polling
  <2>4. Dues'
    BY <1>6 DEF NilCertificate, Over, TypeOK, Call, Phase, Outcome, Clocks,
       Shape, Dues, Looking, LastAsk, Overrun, Limit
  <2>5. Knowledge'
    BY <1>6 DEF NilCertificate, Over, TypeOK, Call, Phase, Outcome, Clocks,
       Shape, Knowledge, Looking, Has, Last
  <2> QED
    BY <2>1, <2>2, <2>3, <2>4, <2>5
<1>7. CASE Again
  <2>1. TypeOK'
    BY <1>7 DEF Again, Ask, TypeOK, Call, Phase, Outcome
  <2>2. Clocks'
    BY <1>7 DEF Again, Ask, TypeOK, Call, Phase, Outcome, Clocks
  <2>3. Shape'
    BY <1>7 DEF Again, Ask, TypeOK, Call, Phase, Outcome, Shape, Polling
  <2>4. Dues'
    BY <1>7 DEF Again, Ask, TypeOK, Call, Phase, Outcome, Clocks, Shape, Dues,
       Looking, LastAsk, Overrun, Limit
  <2>5. Knowledge'
    BY <1>7 DEF Again, Ask, TypeOK, Call, Phase, Outcome, Clocks, Shape,
       Knowledge, Looking, Has, Last
  <2> QED
    BY <2>1, <2>2, <2>3, <2>4, <2>5
<1>8. CASE Retry
  <2>1. TypeOK'
    BY <1>8 DEF Retry, Enter, Ask, Polling, TypeOK, Call, Phase, Outcome
  <2>2. Clocks'
    BY <1>8 DEF Retry, Enter, Ask, Polling, TypeOK, Call, Phase, Outcome,
       Clocks
  <2>3. Shape'
    BY <1>8 DEF Retry, Enter, Ask, Polling, TypeOK, Call, Phase, Outcome, Shape
  <2>4. Dues'
    BY <1>8 DEF Retry, Enter, Ask, Polling, TypeOK, Call, Phase, Outcome,
       Clocks, Shape, Dues, Looking, LastAsk, Overrun, Limit
  <2>5. Knowledge'
    BY <1>8 DEF Retry, Enter, Ask, Polling, TypeOK, Call, Phase, Outcome,
       Clocks, Shape, Knowledge, Looking, Has, Last
  <2> QED
    BY <2>1, <2>2, <2>3, <2>4, <2>5
<1>9. CASE Process
  <2>1. TypeOK'
    <3>1. ready' \in BOOLEAN /\ listed' \in BOOLEAN
      BY <1>9 DEF Process, TypeOK
    <3>2. status' \in {"pending", "issued", "failed"}
      BY <1>9 DEF Process, TypeOK
    <3>3. now' \in Nat /\ call' \in Call /\ available' \in Nat \cup {None}
      BY <1>9 DEF Process, TypeOK
    <3> QED
      BY <3>1, <3>2, <3>3 DEF TypeOK
  <2>2. Clocks'
    BY <1>9 DEF Process, Has, TypeOK, Call, Phase, Outcome, Clocks
  <2>3. Shape'
    BY <1>9 DEF Process, Has, TypeOK, Call, Phase, Outcome, Shape, Polling
  <2>4. Dues'
    BY <1>9 DEF Process, Has, TypeOK, Call, Phase, Outcome, Clocks, Shape,
       Dues, Looking, LastAsk, Overrun, Limit
  <2>5. Knowledge'
    BY <1>9 DEF Process, Has, TypeOK, Call, Phase, Outcome, Clocks, Shape,
       Knowledge, Looking, Last
  <2> QED
    BY <2>1, <2>2, <2>3, <2>4, <2>5
<1>10. CASE Tick
  <2>1. TypeOK'
    BY <1>10 DEF Tick, TypeOK, Call, Phase, Outcome
  <2>2. Clocks'
    BY <1>10 DEF Tick, TypeOK, Call, Phase, Outcome, Clocks
  <2>3. Shape'
    BY <1>10 DEF Tick, TypeOK, Call, Phase, Outcome, Shape, Polling
  <2>4. Dues'
    BY <1>10 DEF Tick, TypeOK, Call, Phase, Outcome, Clocks, Shape, Dues,
       Looking, LastAsk, Overrun, Limit
  <2>5. Knowledge'
    BY <1>10 DEF Tick, TypeOK, Call, Phase, Outcome, Clocks, Shape, Knowledge,
       Looking, Has, Last
  <2> QED
    BY <2>1, <2>2, <2>3, <2>4, <2>5
<1>11. CASE TurnedAway
  <2>1. TypeOK' /\ Clocks' /\ Shape' /\ Dues'
    BY <1>11 DEF TurnedAway, TypeOK, Call, Clocks, Shape, Polling, Dues, Looking, LastAsk, Overrun,
       Limit
  <2>2. status = "issued" /\ call.due <= now /\ now \in Nat
    BY <1>11 DEF TurnedAway, Clocks, Knowledge, Looking, TypeOK
  <2>3. Knowledge'
    BY <1>11, <2>2 DEF TurnedAway, TypeOK, Call, Knowledge, Looking, Has, Last
  <2> QED
    BY <2>1, <2>3
<1>12. CASE Horizon \/ UNCHANGED vars
  BY <1>12 DEF Horizon, vars, TypeOK, Clocks, Shape, Dues, Knowledge, Looking, LastAsk, Overrun,
               Limit, Has, Last
<1> QED
  BY <1>1, <1>2, <1>3, <1>4, <1>5, <1>6, <1>7, <1>8, <1>9, <1>10, <1>11, <1>12 DEF Next

-----------------------------------------------------------------------------
(* A wait is over by its deadline: no exchange and no sleep that is under  *)
(* way can last longer.                                                    *)
LEMMA WithinDeadline ==
  ASSUME Inv, Active
  PROVE  /\ call.pc \in {"asked", "answered"} => call.due + Latency <= Promise!Deadline(Seen)
         /\ call.pc \in {"asleep", "paused"} => call.due <= Promise!Deadline(Seen)
<1>1. Promise!Deadline(Seen) =
        call.began + (IF call.platform = "cloud" THEN Limit + Limit ELSE Limit) + Slack
  BY DEF Promise!Deadline, Seen
<1> HIDE DEF Promise!Deadline
<1>2. call.phase # "retrieve" => call.platform = "cloud"
  BY DEF Inv, Shape, TypeOK, Call
<1>3. call.phase \in {FirstPhase(call), "download", "inventory", "dek", "keystore"}
  BY DEF Inv, TypeOK, Call, Phase, Shape, FirstPhase
<1> QED
  BY <1>1, <1>2, <1>3 DEF Inv, TypeOK, Call, Shape, Dues, Looking, Active, LastAsk, Overrun, Limit,
     Slack

(* What an over wait reports is what the promise allows.                   *)
LEMMA OverIsEnd ==
  ASSUME Inv, Active, NEW o \in Outcome \ {"none"}, call' = Over(call, o),
         UNCHANGED <<now, status, ready, listed, available>>,
         Promise!MayEnd(IF o = "panic" THEN "error" ELSE o)
  PROVE  Promise!End
<1> DEFINE s == IF o = "panic" THEN "error" ELSE o
<1>1. s \in {"certificate", "timeout", "pending", "error"}
  BY DEF Outcome
<1>2. Seen' = [active |-> FALSE, began |-> Seen.began, limit |-> Seen.limit,
               span |-> Seen.span, outcome |-> s]
  <2>1. call'.pc = "idle" /\ call'.outcome = o
    BY DEF Inv, TypeOK, Call, Over
  <2>2. /\ call'.began = Seen.began /\ Limit' = Seen.limit
        /\ (IF call'.platform = "cloud" THEN Limit' + Limit' ELSE Limit') = Seen.span
    BY DEF Inv, TypeOK, Call, Over, Limit, Seen
  <2>3. Active' = FALSE
    BY <2>1 DEF Active
  <2> QED
    BY <2>1, <2>2, <2>3, Zenon DEF Seen
<1>3. Seen.active /\ UNCHANGED <<now, available>>
  BY DEF Seen
<1>4. Promise!MayEnd(s)
  OBVIOUS
<1> QED
  BY <1>1, <1>2, <1>3, <1>4 DEF Promise!End

(* A timeout is reported after the limit, and the negative answer it rests *)
(* on was given at most Latency before.                                    *)
LEMMA TimeoutAllowed ==
  ASSUME Inv, call.pc = "answered", call.answer = "no",
         \/ call.inner > 0 /\ now > call.since + call.inner
         \/ call.inner = 0 /\ call.outer > 0 /\ now > call.began + call.outer
  PROVE  Promise!MayEnd("timeout")
<1>1. Limit > 0 /\ now > call.began + Limit
  BY DEF Inv, TypeOK, Call, Clocks, Limit
<1>2. now <= call.due + Latency
  BY DEF Inv, Clocks
<1>3. available = None \/ available >= call.due
  BY DEF Inv, Knowledge
<1>4. ~(available # None /\ available + Latency <= call.began + Limit)
  BY <1>1, <1>2, <1>3 DEF Inv, TypeOK, Call, Limit
<1> QED
  BY <1>1, <1>4 DEF Promise!MayEnd, Promise!Late, Promise!InTime, Seen

LEMMA Simulation == Inv /\ Inv' /\ [Next]_vars => [Promise!Next]_(Promise!vars)
<1> SUFFICES ASSUME Inv, Inv', [Next]_vars PROVE [Promise!Next]_(Promise!vars)
  OBVIOUS
<1>1. CASE Begin
  <2>1. PICK l \in Calls :
             call' = Enter([call EXCEPT !.platform = l.platform, !.inner = l.inner,
                              !.outer = l.outer, !.key = l.key, !.began = now,
                              !.outcome = "none"], FirstPhase(l))
    BY <1>1 DEF Begin
  <2>2. /\ call.pc = "idle" /\ call'.pc = "asked"
        /\ call'.began = now /\ call'.outcome = "none"
    BY <1>1, <2>1 DEF Begin, Enter, Ask, Inv, TypeOK, Call
  <2>3. Limit' \in Nat
    BY DEF Inv, TypeOK, Call, Limit
  <2>4. /\ Seen'.limit = Limit'
        /\ Seen'.span = (IF call'.platform = "cloud" THEN Limit' + Limit' ELSE Limit')
        /\ Seen'.began = call'.began
        /\ Seen'.outcome = (IF call'.outcome = "panic" THEN "error" ELSE call'.outcome)
    BY Zenon DEF Seen
  <2>5. /\ Seen'.limit \in Nat /\ Seen'.span \in Nat
         /\ Seen'.began = now
         /\ Seen'.outcome = "none"
    <3>1. Seen'.limit \in Nat
      BY <2>3, <2>4
    <3>2. \A n \in Nat : n + n \in Nat
      OBVIOUS
    <3>3. Seen'.span \in Nat
      BY <2>3, <2>4, <3>2, Zenon
    <3>4. Seen'.began = now
      BY <2>2, <2>4
    <3>5. Seen'.outcome = "none"
      BY <2>2, <2>4
    <3> QED
      BY <3>1, <3>3, <3>4, <3>5
  <2>6. ~Seen.active
    BY <2>2 DEF Seen, Active
  <2>7. Active' = TRUE
    BY <2>2 DEF Active
  <2>8. Seen' = [active |-> Active', began |-> Seen'.began, limit |-> Seen'.limit,
                 span |-> Seen'.span, outcome |-> Seen'.outcome]
    BY DEF Seen
  <2>9. Seen' = [active |-> TRUE, began |-> now, limit |-> Seen'.limit, span |-> Seen'.span,
                 outcome |-> "none"]
    BY <2>5, <2>7, <2>8, Zenon
  <2>10. UNCHANGED <<now, available>>
    BY <1>1 DEF Begin
  <2>11. Promise!Begin
    BY <2>5, <2>6, <2>9, <2>10 DEF Promise!Begin
  <2> QED
    BY <2>11 DEF Promise!Next
<1>2. CASE Advance
  <2>1. CASE Last(call)
    <3>1. call' = Over(call, "certificate") /\ Active
      BY <1>2, <2>1 DEF Advance, Active
    <3>2. Promise!MayEnd("certificate")
      BY <1>2, <2>1 DEF Advance, Inv, Knowledge, Promise!MayEnd
    <3>3. Promise!End
      BY <1>2, <3>1, <3>2, OverIsEnd DEF Advance, Outcome
    <3> QED
      BY <3>3 DEF Promise!Next
  <2>2. CASE ~Last(call)
    <3>1. Seen' = Seen
      BY <1>2, <2>2 DEF Advance, Enter, Ask, Seen, Active, Limit, Inv, TypeOK, Call
    <3> QED
      BY <1>2, <3>1 DEF Advance, Promise!vars
  <2> QED
    BY <2>1, <2>2
<1>3. CASE Wait
  <2>1. call.pc = "answered" /\ call.answer = "no" /\ call' = NotYet(call)
    BY <1>3 DEF Wait
  <2>2. UNCHANGED <<now, status, ready, listed, available>>
    BY <1>3 DEF Wait
  <2>3. CASE call.inner = 0 /\ call.outer = 0
    <3>1. call' = Over(call, "pending") /\ Promise!MayEnd("pending")
      BY <2>1, <2>3 DEF NotYet, Pending, Promise!MayEnd, Seen, Limit
    <3>2. Promise!End
      BY <2>1, <2>2, <3>1, OverIsEnd DEF Outcome, Active
    <3> QED
      BY <3>2 DEF Promise!Next
  <2>4. CASE \/ call.inner > 0 /\ now > call.since + call.inner
             \/ call.inner = 0 /\ call.outer > 0 /\ now > call.began + call.outer
    <3>1. call' = Over(call, "timeout")
      BY <2>1, <2>4 DEF NotYet, Pending, Inv, TypeOK, Call
    <3>2. Promise!End
      BY <2>1, <2>2, <2>4, <3>1, OverIsEnd, TimeoutAllowed DEF Outcome, Active
    <3> QED
      BY <3>2 DEF Promise!Next
  <2>5. CASE \/ call.inner > 0 /\ ~(now > call.since + call.inner)
             \/ call.inner = 0 /\ call.outer > 0 /\ ~(now > call.began + call.outer)
    <3>1. Seen' = Seen
      BY <2>1, <2>5 DEF NotYet, Pending, Seen, Active, Limit, Inv, TypeOK, Call
    <3> QED
      BY <2>2, <3>1 DEF Promise!vars
  <2> QED
    BY <2>3, <2>4, <2>5 DEF Inv, TypeOK, Call
<1>4. CASE Fail \/ NilCertificate
  <2>1. PICK o \in {"error", "panic"} : call' = Over(call, o)
    BY <1>4 DEF Fail, NilCertificate
  <2>2. Promise!MayEnd("error")
    BY DEF Promise!MayEnd
  <2>3. Active /\ UNCHANGED <<now, status, ready, listed, available>>
    BY <1>4 DEF Fail, NilCertificate, Active
  <2>4. o \in Outcome \ {"none"} /\ (IF o = "panic" THEN "error" ELSE o) = "error"
    BY DEF Outcome
  <2>5. Promise!End
    BY <2>1, <2>2, <2>3, <2>4, OverIsEnd
  <2> QED
    BY <2>5 DEF Promise!Next
<1>5. CASE Answer \/ Again \/ Retry
  <2>1. Seen' = Seen
    <3>1. /\ call'.pc # "idle" /\ call'.outcome = call.outcome /\ call'.began = call.began
          /\ call'.inner = call.inner /\ call'.outer = call.outer
          /\ call'.platform = call.platform
      <4>1. CASE Answer
        BY <4>1 DEF Answer, Inv, TypeOK, Call
      <4>2. CASE Again
        BY <4>2 DEF Again, Ask, Inv, TypeOK, Call
      <4>3. CASE Retry
        BY <4>3 DEF Retry, Enter, Ask, Inv, TypeOK, Call
      <4> QED
        BY <1>5, <4>1, <4>2, <4>3
    <3>2. call.pc # "idle"
      BY <1>5 DEF Answer, Again, Retry
    <3> QED
      BY <3>1, <3>2 DEF Seen, Active, Limit
  <2>2. UNCHANGED <<now, available>>
    BY <1>5 DEF Answer, Again, Retry
  <2> QED
    BY <2>1, <2>2 DEF Promise!vars
<1>6. CASE Process
  <2>1. UNCHANGED <<now, call>>
    BY <1>6 DEF Process
  <2>2. Seen' = Seen
    BY <2>1 DEF Seen, Active, Limit
  <2>3. \/ available = None /\ available' = now
        \/ available' = available
    BY <1>6 DEF Process
  <2> QED
    BY <2>1, <2>2, <2>3 DEF Promise!Next, Promise!Appear, Promise!vars
<1>7. CASE Tick
  <2>1. UNCHANGED <<available, call>> /\ now' = now + 1
    BY <1>7 DEF Tick
  <2>2. Seen' = Seen
    BY <2>1 DEF Seen, Active, Limit
  <2>3. Seen.active => now < Promise!Deadline(Seen)
    <3> SUFFICES ASSUME Active PROVE now < Promise!Deadline(Seen)
      BY DEF Seen
    <3>1. Promise!Deadline(Seen) \in Int
      BY DEF Promise!Deadline, Seen, Inv, TypeOK, Call, Limit, Slack
    <3> QED
      BY <1>7, <3>1, WithinDeadline DEF Tick, Active, Inv, TypeOK, Call
  <2>4. Promise!Tick
    BY <2>1, <2>2, <2>3 DEF Promise!Tick
  <2> QED
    BY <2>4 DEF Promise!Next
<1>8. CASE TurnedAway
  <2>1. UNCHANGED now /\ available' = now
    BY <1>8 DEF TurnedAway
  <2>2. Seen' = Seen
    BY <1>8 DEF TurnedAway, Seen, Active, Limit, Inv, TypeOK, Call
  <2> QED
    BY <2>1, <2>2 DEF Promise!Next, Promise!Appear
<1>9. CASE Horizon \/ UNCHANGED vars
  <2>1. UNCHANGED vars
    BY <1>9 DEF Horizon
  <2>2. Seen' = Seen
    BY <2>1 DEF vars, Seen, Active, Limit
  <2> QED
    BY <2>1, <2>2 DEF vars, Promise!vars
<1> QED
  BY <1>1, <1>2, <1>3, <1>4, <1>5, <1>6, <1>7, <1>8, <1>9 DEF Next

-----------------------------------------------------------------------------
LEMMA AlwaysInv == Spec => []Inv
BY InvInit, InvNext, PTL DEF Spec

(* Every wait is in one of the states of the loops in which the connectors *)
(* and retrieveCertificate can be, with its clocks in order.               *)
THEOREM WaitsWellTyped == Spec => []TypeOK
<1>1. Inv => TypeOK
  BY DEF Inv
<1> QED
  BY <1>1, AlwaysInv, PTL

(* The waiting of both connectors, alone or under the loop of the          *)
(* commands, keeps the promise whatever the limits, sleeps and latency: a  *)
(* timeout is never early nor unjustified, and a wait ends in time.        *)
THEOREM WaitKeepsPromise == Spec => KeepsPromise
<1>1. Init => Promise!Init
  <2> SUFFICES ASSUME Init PROVE Promise!Init
    OBVIOUS
  <2>1. Active = FALSE
    BY DEF Init, Active
  <2>2. Limit = 0 /\ call.began = 0 /\ call.outcome = "none" /\ call.platform = "tpp"
    BY DEF Init, Limit
  <2>3. Seen = [active |-> FALSE, began |-> 0, limit |-> 0, span |-> 0, outcome |-> "none"]
    BY <2>1, <2>2 DEF Seen
  <2> QED
    BY <2>3 DEF Init, Promise!Init
<1> QED
  BY <1>1, AlwaysInv, Simulation, PTL DEF Spec, KeepsPromise, Promise!Spec
=============================================================================
