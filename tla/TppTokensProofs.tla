-------------------------- MODULE TppTokensProofs --------------------------
(***************************************************************************)
(* Theorems about TppTokens, for any number of processes, faults and       *)
(* tokens.                                                                 *)
(***************************************************************************)
EXTENDS TppTokens, TLAPS

(* Where a process goes next is a process state.                           *)
LEMMA ExitOK == ASSUME TypeOK, NEW b \in BOOLEAN PROVE Exit(b) \in RunState
<1>1. issued \in Nat
  BY DEF TypeOK
<1>2. 0 \in 0 .. issued
  BY <1>1
<1>3. QED
  BY <1>2 DEF Exit, Empty, RunState, Pair, PC

LEMMA NeedTokenOK ==
  ASSUME TypeOK, NEW r \in RunState
  PROVE  /\ NeedToken(r) \in RunState /\ NeedToken(r).pc \in {"idle", "raw"}
         /\ NeedToken(r).pc = "raw" => NeedToken(r).creds = r.creds
<1>1. Exit(FALSE) \in RunState /\ Exit(FALSE).pc = "idle"
  BY ExitOK DEF Exit
<1>2. /\ [r EXCEPT !.pc = "raw"] \in RunState
      /\ [r EXCEPT !.pc = "raw"].pc = "raw" /\ [r EXCEPT !.pc = "raw"].creds = r.creds
  BY DEF RunState, PC
<1>3. QED
  BY <1>1, <1>2 DEF NeedToken

LEMMA RefreshFailedOK ==
  ASSUME TypeOK, NEW r \in RunState
  PROVE  RefreshFailed(r) \in RunState
BY ExitOK DEF RefreshFailed, RunState, PC

LEMMA GotoOK ==
  ASSUME TypeOK, NEW p \in Run, NEW r \in RunState, Goto(p, r)
  PROVE  run' \in [Run -> RunState] /\ run'[p] = r /\ \A q \in Run \ {p} : run'[q] = run[q]
BY DEF Goto, TypeOK

(* A process state is one as long as no token is issued, and afterwards.   *)
LEMMA SameTokens ==
  ASSUME issued' = issued
  PROVE  RunState' = RunState /\ Pair' = Pair
BY DEF RunState, Pair

LEMMA MoreTokens ==
  ASSUME TypeOK, issued' = issued + 1
  PROVE  /\ issued + 1 \in 0 .. issued' /\ 0 .. issued \subseteq 0 .. issued'
         /\ Pair \subseteq Pair' /\ RunState \subseteq RunState'
<1>1. issued \in Nat
  BY DEF TypeOK
<1>2. issued + 1 \in 0 .. issued' /\ 0 .. issued \subseteq 0 .. issued'
  BY <1>1
<1>3. Pair \subseteq Pair'
  BY <1>2 DEF Pair
<1>4. RunState \subseteq RunState'
  BY <1>2, <1>3 DEF RunState
<1>5. QED
  BY <1>2, <1>3, <1>4

LEMMA IssueOK ==
  ASSUME TypeOK, NEW old, Issue(old)
  PROVE  issued' \in Nat /\ valid' \subseteq 1 .. issued' /\ live' \subseteq 1 .. issued'
<1>1. issued \in Nat /\ issued' = issued + 1
  BY DEF Issue, TypeOK
<1>2. 1 .. issued \subseteq 1 .. issued' /\ issued + 1 \in 1 .. issued'
  BY <1>1
<1>3. valid \subseteq 1 .. issued /\ live \subseteq 1 .. issued
  BY DEF TypeOK
<1>4. valid' = valid \cup {issued + 1} /\ live' = (live \ {old}) \cup {issued + 1}
  BY DEF Issue
<1>5. valid' \subseteq 1 .. issued'
  BY <1>2, <1>3, <1>4
<1>6. live' \subseteq 1 .. issued'
  BY <1>2, <1>3, <1>4
<1>7. QED
  BY <1>1, <1>5, <1>6

-----------------------------------------------------------------------------
(* Type correctness.                                                       *)

LEMMA InitTypeOK == Init => TypeOK
<1> SUFFICES ASSUME Init PROVE TypeOK
  OBVIOUS
<1>1. issued = 1 /\ faults = 0
  BY DEF Init
<1>2. valid \subseteq {1} /\ live \subseteq {1}
  BY DEF Init
<1>3. file \in Pair
  BY <1>1 DEF Init, Pair
<1>4. lost \in BOOLEAN /\ p12 \in BOOLEAN
  BY Zenon DEF Init
<1>5. run \in [Run -> RunState]
  BY <1>1 DEF Init, Exit, Empty, RunState, Pair, PC
<1>6. QED
  BY <1>1, <1>2, <1>3, <1>4, <1>5 DEF TypeOK

LEMMA StepTypeOK ==
  ASSUME TypeOK, NEW p \in Run, Start(p) \/ Step(p) \/ RefreshLost(p) \/ Stop(p)
  PROVE  TypeOK'
<1> DEFINE r == run[p]
<1>1. r \in RunState /\ r.got \in 0 .. issued /\ r.creds \in Pair
  BY DEF TypeOK, RunState
<1>p. p12' = p12 /\ p12 \in BOOLEAN
  BY DEF Step, Start, Verify, ReadRaw, Refresh, RefreshLost, Login, Truncate, Write, RunTasks,
     Stop, TypeOK
<1>2. CASE Start(p)
  <2>1. CASE file = Torn
    <3>1. Goto(p, Exit(FALSE))
      BY <1>2, <2>1 DEF Start
    <3>2. QED
      BY <1>2, <3>1, <1>p, ExitOK, GotoOK, SameTokens DEF Start, TypeOK
  <2>2. CASE file # Torn
    <3> DEFINE n == [Exit(FALSE) EXCEPT !.creds = file]
    <3>1. file \in Pair
      BY <2>2 DEF TypeOK
    <3>2. n \in RunState
      BY <3>1, ExitOK DEF RunState
    <3>3. [n EXCEPT !.pc = "verify"] \in RunState
      BY <3>2 DEF RunState, PC
    <3>4. Goto(p, IF file.access # 0 THEN [n EXCEPT !.pc = "verify"] ELSE NeedToken(n))
      BY <1>2, <2>2 DEF Start
    <3> HIDE DEF n
    <3>5. (IF file.access # 0 THEN [n EXCEPT !.pc = "verify"] ELSE NeedToken(n)) \in RunState
      BY <3>2, <3>3, NeedTokenOK
    <3>6. run' \in [Run -> RunState]
      BY <3>4, <3>5, GotoOK
    <3>7. QED
      BY <1>2, <3>6, <1>p, SameTokens DEF Start, TypeOK
  <2>3. QED
    BY <2>1, <2>2
<1>3. CASE Verify(p)
  <2>1. [r EXCEPT !.pc = "tasks"] \in RunState
    BY <1>1 DEF RunState, PC
  <2>2. run' \in [Run -> RunState]
    BY <1>1, <1>3, <2>1, NeedTokenOK, GotoOK DEF Verify
  <2>3. QED
    BY <1>3, <2>2, <1>p, SameTokens DEF Verify, TypeOK
<1>4. CASE ReadRaw(p)
  <2>1. run' \in [Run -> RunState]
    <3>1. \A b \in BOOLEAN, pc \in PC : [r EXCEPT !.rawOK = b, !.pc = pc] \in RunState
      BY <1>1 DEF RunState
    <3>2. (IF r.creds.refresh # 0 THEN "refresh" ELSE "login") \in PC
      BY DEF PC
    <3>3. (file # Torn) \in BOOLEAN
      OBVIOUS
    <3>4. PICK b \in BOOLEAN, pc \in PC : Goto(p, [r EXCEPT !.rawOK = b, !.pc = pc])
      BY <1>4, <3>2, <3>3 DEF ReadRaw
    <3>5. QED
      BY <3>1, <3>4, GotoOK
  <2>2. QED
    BY <1>4, <2>1, <1>p, SameTokens DEF ReadRaw, TypeOK
<1>5. CASE Refresh(p) \/ Login(p)
  <2>1. UNCHANGED <<file, lost, faults>>
    BY <1>5 DEF Refresh, Login
  <2>2. CASE UNCHANGED <<issued, valid, live>> /\ Goto(p, RefreshFailed(r))
    <3>1. run' \in [Run -> RunState]
      BY <1>1, <2>2, RefreshFailedOK, GotoOK
    <3>2. QED
      BY <2>1, <2>2, <3>1, <1>p, SameTokens DEF TypeOK
  <2>3. ASSUME NEW old, Issue(old), Goto(p, [r EXCEPT !.pc = "truncate", !.got = issued + 1])
        PROVE  TypeOK'
    <3>1. issued' = issued + 1
      BY <2>3 DEF Issue
    <3>2. r \in RunState' /\ Pair \subseteq Pair' /\ RunState \subseteq RunState' /\ issued + 1 \in 0 .. issued'
      BY <1>1, <3>1, MoreTokens
    <3>3. [r EXCEPT !.pc = "truncate", !.got = issued + 1] \in RunState'
      BY <3>2 DEF RunState, PC
    <3>4. run' \in [Run -> RunState']
      BY <2>3, <3>2, <3>3 DEF Goto, TypeOK
    <3>5. issued' \in Nat /\ valid' \subseteq 1 .. issued' /\ live' \subseteq 1 .. issued'
      BY <2>3, IssueOK
    <3>6. file' \in Pair' \cup {Torn}
      BY <2>1, <3>2 DEF TypeOK
    <3>7. lost' \in BOOLEAN /\ faults' \in Nat
      BY <2>1 DEF TypeOK
    <3>8. QED
      BY <3>4, <3>5, <3>6, <3>7, <1>p DEF TypeOK
  <2>4. QED
    BY <1>5, <2>2, <2>3 DEF Refresh, Login
<1>6. CASE RefreshLost(p)
  <2>1. run' \in [Run -> RunState]
    BY <1>1, <1>6, RefreshFailedOK, GotoOK DEF RefreshLost
  <2>2. issued' \in Nat /\ valid' \subseteq 1 .. issued' /\ live' \subseteq 1 .. issued'
    BY <1>6, IssueOK DEF RefreshLost, TypeOK
  <2>3. lost' \in BOOLEAN
    BY <1>6, Zenon DEF RefreshLost, TypeOK
  <2>4. faults' \in Nat /\ file' = file
    BY <1>6 DEF RefreshLost, TypeOK
  <2>5. Pair \subseteq Pair' /\ RunState \subseteq RunState'
    BY <1>6, SameTokens, MoreTokens DEF RefreshLost, Issue
  <2>6. run' \in [Run -> RunState']
    BY <2>1, <2>5
  <2>7. file' \in Pair' \cup {Torn}
    BY <2>4, <2>5 DEF TypeOK
  <2>8. QED
    BY <2>2, <2>3, <2>4, <2>6, <2>7, <1>p DEF TypeOK
<1>7. CASE Truncate(p)
  <2>1. [r EXCEPT !.pc = "write"] \in RunState
    BY <1>1 DEF RunState, PC
  <2>2. run' \in [Run -> RunState]
    BY <1>7, <2>1, ExitOK, GotoOK DEF Truncate
  <2>3. lost' \in BOOLEAN
    BY <1>7, Zenon DEF Truncate, TypeOK
  <2>4. file' \in Pair \cup {Torn}
    BY <1>7 DEF Truncate, TypeOK
  <2>5. UNCHANGED <<issued, valid, live, faults>>
    BY <1>7 DEF Truncate
  <2>6. QED
    BY <2>2, <2>3, <2>4, <2>5, <1>p, SameTokens DEF TypeOK
<1>8. CASE Write(p)
  <2> DEFINE new == [access |-> r.got, refresh |-> r.got]
  <2>1. new \in Pair
    BY <1>1 DEF Pair
  <2>2. file' \in Pair \cup {Torn}
    BY <1>8, <2>1 DEF Write, Overlaid
  <2>3. [r EXCEPT !.pc = "tasks", !.creds = new] \in RunState
    BY <1>1, <2>1 DEF RunState, PC
  <2>4. run' \in [Run -> RunState]
    BY <1>8, <2>3, GotoOK DEF Write
  <2>5. QED
    BY <1>8, <2>2, <2>4, <1>p, SameTokens DEF Write, TypeOK
<1>9. CASE RunTasks(p)
  <2> DEFINE b == run[p].creds.access \in valid
  <2>1. b \in BOOLEAN
    OBVIOUS
  <2>. Goto(p, Exit(b))
    BY <1>9 DEF RunTasks
  <2> HIDE DEF b
  <2>. run' \in [Run -> RunState]
    BY <2>1, ExitOK, GotoOK
  <2>2. QED
    BY <1>9, <1>p, SameTokens DEF RunTasks, TypeOK
<1>10. CASE Stop(p)
  <2>1. run' \in [Run -> RunState]
    BY <1>10, ExitOK, GotoOK DEF Stop
  <2>2. lost' \in BOOLEAN
    BY <1>10, Zenon DEF Stop
  <2>3. faults' \in Nat /\ UNCHANGED <<issued, valid, live, file>>
    BY <1>10 DEF Stop, TypeOK
  <2>4. QED
    BY <2>1, <2>2, <2>3, <1>p, SameTokens DEF TypeOK
<1>11. QED
  BY <1>2, <1>3, <1>4, <1>5, <1>6, <1>7, <1>8, <1>9, <1>10 DEF Step

LEMMA NextTypeOK == ASSUME TypeOK, [Next]_vars PROVE TypeOK'
<1>1. CASE Expire
  BY <1>1, SameTokens DEF Expire, TypeOK
<1>2. CASE UNCHANGED vars
  BY <1>2, SameTokens DEF vars, TypeOK
<1>3. QED
  BY <1>1, <1>2, StepTypeOK DEF Next, Horizon

(* Every token in the playbook and in a process was issued by the server,  *)
(* and a process only ever works with credentials it read whole.           *)
THEOREM TypeCorrect == Spec => []TypeOK
<1>1. Init => TypeOK
  BY InitTypeOK
<1>2. TypeOK /\ [Next]_vars => TypeOK'
  BY NextTypeOK
<1>3. QED
  BY <1>1, <1>2, PTL DEF Spec
-----------------------------------------------------------------------------
(* The grant, for a playbook with a refresh token and no p12Task.          *)

(* The successors of a process that lead out of the run.                   *)
LEMMA Exits ==
  ASSUME NEW b \in BOOLEAN
  PROVE  Exit(b).pc = "idle"
BY DEF Exit

LEMMA InitGrantInv == ASSUME HasRefreshToken PROVE Init => GrantInv
<1> SUFFICES ASSUME Init PROVE GrantInv
  OBVIOUS
<1>1. TypeOK
  BY InitTypeOK
<1>2. \A p \in Run : run[p].pc = "idle"
  BY Exits DEF Init
<1>3. issued = 1 /\ live = {1} /\ file.refresh = 1 /\ file.access \in {0, 1} /\ file \in Pair
  BY DEF Init, Pair
<1>4. file # Torn
  BY <1>3, TokensAssumption DEF Pair
<1>5. TokensIssued
  BY <1>2, <1>3 DEF TokensIssued, Refreshing, Holding
<1>6. OneHolder
  BY <1>2, <1>3, <1>4 DEF OneHolder, Holding
<1>7. CredsCurrent
  BY <1>2 DEF CredsCurrent, Refreshing
<1>8. QED
  BY <1>1, <1>5, <1>6, <1>7 DEF GrantInv

(* A step of p outside of the update of the tokens: the others stay as     *)
(* they are, and p does not hold a pair before or after.                   *)
LEMMA OutsideStep ==
  ASSUME TypeOK, GrantInv, TypeOK', NEW p \in Run, NEW n \in RunState, Goto(p, n),
         ~Holding(p) \/ lost', n.pc \notin {"truncate", "write", "login"},
         UNCHANGED <<issued, valid, live, file>>, lost => lost',
         n.pc \in {"verify", "raw", "refresh"} =>
           /\ n.creds.access \in 0 .. issued /\ n.creds.refresh \in 1 .. issued
           /\ (~lost' /\ n.creds.refresh \in live) => file = n.creds
           /\ (~lost' /\ n.pc \in {"raw", "refresh"}) => n.creds.access \notin valid
           /\ (~lost' /\ n.pc = "refresh" /\ n.creds.refresh \in live) => n.rawOK
  PROVE  GrantInv'
<1>1. run'[p] = n /\ \A q \in Run \ {p} : run'[q] = run[q]
  BY GotoOK DEF GrantInv
<1>2. TokensIssued'
  BY <1>1 DEF GrantInv, TokensIssued, Refreshing, Holding
<1>3. ASSUME ~lost'
      PROVE  OneHolder' /\ CredsCurrent'
  <2>1. ~lost /\ OneHolder /\ CredsCurrent /\ ~Holding(p)
    BY <1>3 DEF GrantInv
  <2>2. \A q \in Run : Holding(q)' <=> Holding(q)
    BY <1>1, <2>1 DEF Holding
  <2>3. \A q \in Run : Holding(q) => run'[q] = run[q]
    BY <1>1, <2>1
  <2>4. OneHolder'
    BY <2>1, <2>2, <2>3 DEF OneHolder
  <2>5. CredsCurrent'
    BY <1>1, <1>3, <2>1 DEF CredsCurrent, Refreshing
  <2>6. QED
    BY <2>4, <2>5
<1>4. QED
  BY <1>2, <1>3 DEF GrantInv

LEMMA StartGrantInv ==
  ASSUME TypeOK, GrantInv, TypeOK', NEW p \in Run, Start(p), ~p12 PROVE GrantInv'
<1> DEFINE n == [Exit(FALSE) EXCEPT !.creds = file]
           s == IF file.access # 0 THEN [n EXCEPT !.pc = "verify"] ELSE NeedToken(n)
<1>1. ~Holding(p) /\ UNCHANGED <<issued, valid, live, file, lost>>
  BY DEF Start, Active, Holding
<1>2. CASE file = Torn
  <2>1. Goto(p, Exit(FALSE))
    BY <1>2 DEF Start
  <2>2. QED
    BY <1>1, <2>1, ExitOK, Exits, OutsideStep
<1>3. CASE file # Torn
  <2>1. file \in Pair /\ file.access \in 0 .. issued /\ file.refresh \in 1 .. issued
    BY <1>3 DEF GrantInv, TypeOK, TokensIssued
  <2>2. n \in RunState /\ n.creds = file
    BY <2>1, ExitOK DEF RunState
  <2> HIDE DEF n
  <2>3. /\ [n EXCEPT !.pc = "verify"] \in RunState
        /\ [n EXCEPT !.pc = "verify"].pc = "verify" /\ [n EXCEPT !.pc = "verify"].creds = file
    BY <2>2 DEF RunState, PC
  <2>4. /\ s \in RunState /\ s.pc \in {"idle", "verify", "raw"}
        /\ s.pc \in {"verify", "raw"} => s.creds = file
        /\ s.pc = "raw" => file.access = 0
    BY <2>2, <2>3, NeedTokenOK
  <2>5. Goto(p, s)
    BY <1>3 DEF Start, n
  <2>6. 0 \notin valid
    BY DEF GrantInv, TypeOK
  <2> HIDE DEF s
  <2>7. QED
    BY <1>1, <2>1, <2>4, <2>5, <2>6, OutsideStep
<1>4. QED
  BY <1>2, <1>3

LEMMA VerifyGrantInv ==
  ASSUME TypeOK, GrantInv, TypeOK', NEW p \in Run, Verify(p) PROVE GrantInv'
<1> DEFINE r == run[p]
           n == [r EXCEPT !.pc = "tasks"]
           s == IF r.creds.access \in valid THEN n ELSE NeedToken(r)
<1>1. /\ r \in RunState /\ r.pc = "verify" /\ Goto(p, s)
      /\ UNCHANGED <<issued, valid, live, file, lost>>
  BY DEF Verify, GrantInv, TypeOK
<1>2. n \in RunState /\ n.pc = "tasks"
  BY <1>1 DEF RunState, PC
<1>3. /\ s \in RunState /\ s.pc \in {"idle", "tasks", "raw"}
      /\ s.pc = "raw" => s.creds = r.creds /\ r.creds.access \notin valid
  BY <1>1, <1>2, NeedTokenOK
<1>4. /\ r.creds.access \in 0 .. issued /\ r.creds.refresh \in 1 .. issued
      /\ (~lost /\ r.creds.refresh \in live) => file = r.creds
  BY <1>1 DEF GrantInv, TokensIssued, CredsCurrent, Refreshing
<1>5. ~Holding(p)
  BY <1>1 DEF Holding
<1> HIDE DEF s
<1>6. QED
  BY <1>1, <1>3, <1>4, <1>5, OutsideStep

LEMMA ReadRawGrantInv ==
  ASSUME TypeOK, GrantInv, TypeOK', NEW p \in Run, ReadRaw(p) PROVE GrantInv'
<1> DEFINE r == run[p]
           b == file # Torn
           n == [r EXCEPT !.rawOK = b, !.pc = "refresh"]
<1>1. /\ r \in RunState /\ r.pc = "raw" /\ r.creds \in Pair
      /\ UNCHANGED <<issued, valid, live, file, lost>>
  BY DEF ReadRaw, GrantInv, TypeOK, RunState
<1>2. /\ r.creds.access \in 0 .. issued /\ r.creds.refresh \in 1 .. issued
      /\ (~lost /\ r.creds.refresh \in live) => file = r.creds
      /\ ~lost => r.creds.access \notin valid
  BY <1>1 DEF GrantInv, TokensIssued, CredsCurrent, Refreshing
<1>3. Goto(p, n)
  <2> DEFINE pc == IF r.creds.refresh # 0 THEN "refresh" ELSE "login"
  <2>1. pc = "refresh"
    BY <1>2
  <2>2. Goto(p, [r EXCEPT !.rawOK = b, !.pc = pc])
    BY DEF ReadRaw
  <2> HIDE DEF pc, b
  <2>3. QED
    BY <2>1, <2>2
<1>4. b \in BOOLEAN /\ (r.creds = file => b)
  BY <1>1, TokensAssumption DEF Pair
<1> HIDE DEF b
<1>5. n \in RunState /\ n.pc = "refresh" /\ n.creds = r.creds /\ n.rawOK = b
  BY <1>1, <1>4 DEF RunState, PC
<1>6. ~Holding(p)
  BY <1>1 DEF Holding
<1> HIDE DEF n
<1>7. QED
  BY <1>1, <1>2, <1>3, <1>4, <1>5, <1>6, OutsideStep

LEMMA RefreshGrantInv ==
  ASSUME TypeOK, GrantInv, TypeOK', NEW p \in Run, Refresh(p), ~p12 PROVE GrantInv'
<1> DEFINE r == run[p]
           n == [r EXCEPT !.pc = "truncate", !.got = issued + 1]
<1>1. /\ r \in RunState /\ r.pc = "refresh" /\ ~Holding(p)
      /\ UNCHANGED <<file, lost>> /\ issued \in Nat
  BY DEF Refresh, GrantInv, TypeOK, Holding
<1>2. CASE r.creds.refresh \notin live
  <2>1. Goto(p, Exit(FALSE)) /\ UNCHANGED <<issued, valid, live>>
    BY <1>2 DEF Refresh, RefreshFailed
  <2>2. QED
    BY <1>1, <2>1, ExitOK, Exits, OutsideStep
<1>3. CASE r.creds.refresh \in live
  <2>1. Goto(p, n) /\ Issue(r.creds.refresh)
    BY <1>3 DEF Refresh
  <2>2. issued' = issued + 1 /\ live' = (live \ {r.creds.refresh}) \cup {issued + 1}
        /\ valid' = valid \cup {issued + 1}
    BY <2>1 DEF Issue
  <2>3. n.pc = "truncate" /\ n.got = issued + 1
    BY <1>1 DEF RunState
  <2>. n.rawOK = r.rawOK
    BY <1>1 DEF RunState
  <2>4. run'[p] = n /\ \A q \in Run \ {p} : run'[q] = run[q]
    BY <2>1 DEF Goto, TypeOK
  <2> HIDE DEF n
  <2>5. TokensIssued'
    BY <1>1, <2>2, <2>3, <2>4 DEF GrantInv, TokensIssued, Refreshing, Holding
  <2>6. ASSUME ~lost'
        PROVE  OneHolder' /\ CredsCurrent'
    <3>1. ~lost /\ OneHolder /\ CredsCurrent /\ TokensIssued
      BY <1>1, <2>6 DEF GrantInv
    <3>2. file = r.creds /\ r.rawOK
      BY <1>1, <1>3, <3>1 DEF CredsCurrent, Refreshing
    <3>3. r.creds \in Pair /\ file # Torn
      BY <1>1, <3>2, TokensAssumption DEF RunState, Pair
    <3>4. \A q \in Run : ~Holding(q)
      <4> SUFFICES ASSUME NEW q \in Run, Holding(q) PROVE FALSE
        OBVIOUS
      <4>1. live = {run[q].got} /\ file.refresh < run[q].got /\ run[q].got \in 1 .. issued
        BY <3>1, <3>3 DEF OneHolder, TokensIssued
      <4>2. file.refresh = run[q].got
        BY <1>3, <3>2, <4>1
      <4>3. QED
        BY <4>1, <4>2
    <3>5. live = {r.creds.refresh}
      BY <3>1, <3>2, <3>4 DEF OneHolder
    <3>6. live' = {issued + 1}
      BY <2>2, <3>5
    <3>7. \A q \in Run : Holding(q)' => q = p
      BY <2>4, <3>4 DEF Holding
    <3>8. file' # Torn /\ file'.refresh < issued + 1
      BY <1>1, <3>1, <3>3 DEF TokensIssued
    <3>9. OneHolder'
      BY <2>3, <2>4, <3>2, <3>6, <3>7, <3>8 DEF OneHolder, Holding
    <3>10. CredsCurrent'
      <4> SUFFICES ASSUME NEW q \in Run, Refreshing(q)'
                   PROVE  /\ run'[q].creds.refresh \notin live'
                          /\ run'[q].pc \in {"raw", "refresh"} => run'[q].creds.access \notin valid'
        BY DEF CredsCurrent
      <4>1. q # p /\ run'[q] = run[q] /\ Refreshing(q)
        BY <2>3, <2>4 DEF Refreshing
      <4>2. run[q].creds.refresh \in 1 .. issued /\ run[q].creds.access \in 0 .. issued
        BY <3>1, <4>1 DEF TokensIssued
      <4>3. run[q].pc \in {"raw", "refresh"} => run[q].creds.access \notin valid
        BY <3>1, <4>1 DEF CredsCurrent
      <4>4. QED
        BY <1>1, <2>2, <3>6, <4>1, <4>2, <4>3
    <3>11. QED
      BY <3>9, <3>10
  <2>7. QED
    BY <2>5, <2>6 DEF GrantInv
<1>4. QED
  BY <1>2, <1>3

LEMMA RefreshLostGrantInv ==
  ASSUME TypeOK, GrantInv, TypeOK', NEW p \in Run, RefreshLost(p), ~p12 PROVE GrantInv'
<1>1. Goto(p, Exit(FALSE)) /\ file' = file /\ run[p].pc = "refresh" /\ ~Holding(p)
  BY DEF RefreshLost, RefreshFailed, Holding
<1>2. CASE UNCHANGED <<issued, valid, live, lost>>
  BY <1>1, <1>2, ExitOK, Exits, OutsideStep
<1>3. CASE Issue(run[p].creds.refresh) /\ lost' = TRUE
  <2>1. run'[p] = Exit(FALSE) /\ \A q \in Run \ {p} : run'[q] = run[q]
    BY <1>1, ExitOK, GotoOK DEF GrantInv
  <2>2. issued \in Nat /\ issued' = issued + 1
    BY <1>3 DEF Issue, GrantInv, TypeOK
  <2>3. 0 .. issued \subseteq 0 .. issued' /\ 1 .. issued \subseteq 1 .. issued'
    BY <2>2
  <2>4. TokensIssued'
    BY <1>1, <2>1, <2>3, Exits DEF GrantInv, TokensIssued, Refreshing, Holding
  <2>5. QED
    BY <1>3, <2>4 DEF GrantInv
<1>4. QED
  BY <1>2, <1>3 DEF RefreshLost

LEMMA TruncateGrantInv ==
  ASSUME TypeOK, GrantInv, TypeOK', NEW p \in Run, Truncate(p) PROVE GrantInv'
<1> DEFINE r == run[p]
           n == [r EXCEPT !.pc = "write"]
<1>1. /\ r \in RunState /\ r.pc = "truncate" /\ Holding(p)
      /\ UNCHANGED <<issued, valid, live>>
  BY DEF Truncate, GrantInv, TypeOK, Holding
<1>2. CASE ~r.rawOK
  <2>1. Goto(p, Exit(FALSE)) /\ lost' = TRUE /\ file' = file
    BY <1>2 DEF Truncate
  <2>2. QED
    BY <1>1, <2>1, ExitOK, Exits, OutsideStep
<1>3. CASE r.rawOK
  <2>1. Goto(p, n) /\ file' = Torn /\ lost' = lost
    BY <1>3 DEF Truncate
  <2>2. n \in RunState /\ n.pc = "write" /\ n.got = r.got
    BY <1>1 DEF RunState, PC
  <2>. n.rawOK = r.rawOK
    BY <1>1 DEF RunState
  <2>3. run'[p] = n /\ \A q \in Run \ {p} : run'[q] = run[q]
    BY <2>1, <2>2, GotoOK DEF GrantInv
  <2> HIDE DEF n
  <2>4. TokensIssued'
    BY <1>1, <2>1, <2>2, <2>3 DEF GrantInv, TokensIssued, Refreshing, Holding
  <2>5. ASSUME ~lost'
        PROVE  OneHolder' /\ CredsCurrent'
    <3>1. ~lost /\ OneHolder /\ CredsCurrent /\ TokensIssued
      BY <2>1, <2>5 DEF GrantInv
    <3>2. live = {r.got} /\ file # Torn /\ file.refresh < r.got
      BY <1>1, <3>1 DEF OneHolder
    <3>3. \A q \in Run : Holding(q)' => q = p
      BY <1>1, <2>3, <3>1 DEF OneHolder, Holding
    <3>4. Holding(p)'
      BY <2>2, <2>3 DEF Holding
    <3>5. OneHolder'
      BY <1>1, <1>3, <2>1, <2>2, <2>3, <3>2, <3>3, <3>4 DEF OneHolder
    <3>6. \A q \in Run : Refreshing(q) => run[q].creds.refresh \notin live
      <4> SUFFICES ASSUME NEW q \in Run, Refreshing(q), run[q].creds.refresh \in live
                   PROVE FALSE
        OBVIOUS
      <4>1. file.refresh = r.got
        BY <3>1, <3>2 DEF CredsCurrent
      <4>2. file.refresh \in 1 .. issued
        BY <3>1, <3>2 DEF TokensIssued
      <4>3. QED
        BY <3>2, <4>1, <4>2
    <3>7. CredsCurrent'
      BY <1>1, <2>2, <2>3, <3>1, <3>6 DEF CredsCurrent, Refreshing
    <3>8. QED
      BY <3>5, <3>7
  <2>6. QED
    BY <2>4, <2>5 DEF GrantInv
<1>4. QED
  BY <1>2, <1>3

LEMMA WriteGrantInv ==
  ASSUME TypeOK, GrantInv, TypeOK', NEW p \in Run, Write(p) PROVE GrantInv'
<1> DEFINE r == run[p]
           new == [access |-> r.got, refresh |-> r.got]
           n == [r EXCEPT !.pc = "tasks", !.creds = new]
<1>1. /\ r \in RunState /\ r.pc = "write" /\ Holding(p) /\ r.got \in 1 .. issued
      /\ UNCHANGED <<issued, valid, live, lost>> /\ file' \in Overlaid(file, new) /\ Goto(p, n)
      /\ issued \in Nat
  BY DEF Write, GrantInv, TypeOK, Holding, TokensIssued
<1>2. new \in Pair /\ r.got \in Nat
  BY <1>1 DEF Pair
<1>3. n \in RunState /\ n.pc = "tasks"
  BY <1>1, <1>2 DEF RunState, PC
<1>4. run'[p] = n /\ \A q \in Run \ {p} : run'[q] = run[q]
  BY <1>1, <1>3, GotoOK DEF GrantInv
<1> HIDE DEF n
<1>5. TokensIssued'
  <2>1. file' # Torn => file'.access \in 0 .. issued' /\ file'.refresh \in 1 .. issued'
    BY <1>1 DEF Overlaid
  <2>2. QED
    BY <1>1, <1>3, <1>4, <2>1 DEF GrantInv, TokensIssued, Refreshing, Holding
<1>6. ASSUME ~lost'
      PROVE  OneHolder' /\ CredsCurrent'
  <2>1. ~lost /\ OneHolder /\ CredsCurrent
    BY <1>1, <1>6 DEF GrantInv
  <2>2. live = {r.got} /\ file = Torn
    BY <1>1, <2>1 DEF OneHolder
  <2>3. file' = new /\ file' # Torn
    BY <1>1, <1>2, <2>2, TokensAssumption DEF Overlaid, Pair
  <2>4. \A q \in Run : ~Holding(q)'
    BY <1>1, <1>3, <1>4, <2>1 DEF OneHolder, Holding
  <2>5. OneHolder'
    BY <1>1, <2>2, <2>3, <2>4 DEF OneHolder
  <2>6. \A q \in Run : Refreshing(q) => run[q].creds \in Pair
    BY DEF GrantInv, TypeOK, RunState
  <2>7. \A q \in Run : Refreshing(q) => run[q].creds.refresh \notin live
    BY <2>1, <2>2, <2>6, TokensAssumption DEF CredsCurrent, Pair
  <2>8. CredsCurrent'
    BY <1>1, <1>3, <1>4, <2>1, <2>7 DEF CredsCurrent, Refreshing
  <2>9. QED
    BY <2>5, <2>8
<1>7. QED
  BY <1>5, <1>6 DEF GrantInv

LEMMA LeaveGrantInv ==
  ASSUME TypeOK, GrantInv, TypeOK', NEW p \in Run, RunTasks(p) \/ Stop(p) PROVE GrantInv'
<1>1. PICK b \in BOOLEAN : Goto(p, Exit(b))
  <2> DEFINE b == run[p].creds.access \in valid
  <2>1. b \in BOOLEAN
    OBVIOUS
  <2>2. Goto(p, Exit(FALSE)) \/ Goto(p, Exit(b))
    BY DEF RunTasks, Stop
  <2> HIDE DEF b
  <2>3. QED
    BY <2>1, <2>2
<1>2. (~Holding(p) \/ lost') /\ (lost => lost')
  <2>1. CASE RunTasks(p)
    <3>1. ~Holding(p)
      BY <2>1 DEF RunTasks, Holding
    <3>2. lost' = lost
      BY <2>1, Zenon DEF RunTasks
    <3>3. QED
      BY <3>1, <3>2, Zenon
  <2>2. CASE Stop(p)
    <3> DEFINE h == Holding(p)
    <3>1. lost' = (lost \/ h)
      BY <2>2, Zenon DEF Stop
    <3> HIDE DEF h
    <3>2. (~h \/ lost') /\ (lost => lost')
      BY <3>1, Zenon
    <3>3. QED
      BY <3>2, Zenon DEF h
  <2>3. QED
    BY <2>1, <2>2
<1>3. UNCHANGED <<issued, valid, live, file>>
  BY DEF RunTasks, Stop
<1>4. QED
  BY <1>1, <1>2, <1>3, ExitOK, Exits, OutsideStep

LEMMA NextGrantInv == ASSUME ~p12, GrantInv, [Next]_vars PROVE GrantInv'
<1>1. TypeOK /\ TypeOK'
  BY NextTypeOK DEF GrantInv
<1>2. ASSUME NEW p \in Run, Start(p) \/ Step(p) \/ RefreshLost(p) \/ Stop(p)
      PROVE  GrantInv'
  <2>1. ~Login(p)
    BY DEF Login, GrantInv, TokensIssued
  <2>2. QED
    BY <1>1, <1>2, <2>1, StartGrantInv, VerifyGrantInv, ReadRawGrantInv, RefreshGrantInv,
       RefreshLostGrantInv, TruncateGrantInv, WriteGrantInv, LeaveGrantInv DEF Step
<1>3. CASE Expire
  <2>1. valid' \subseteq valid /\ UNCHANGED <<issued, live, file, lost, run>>
    BY <1>3 DEF Expire
  <2>2. QED
    BY <1>1, <2>1 DEF GrantInv, TokensIssued, OneHolder, CredsCurrent, Refreshing, Holding
<1>4. CASE UNCHANGED vars
  BY <1>1, <1>4 DEF vars, GrantInv, TokensIssued, OneHolder, CredsCurrent, Refreshing, Holding
<1>5. QED
  BY <1>2, <1>3, <1>4 DEF Next, Horizon

(* A playbook does not change between one with a p12Task and one without.  *)
LEMMA SamePlaybook == ASSUME [Next]_vars PROVE p12' = p12
BY DEF Next, Step, Start, Verify, ReadRaw, Refresh, RefreshLost, Login, Truncate, Write, RunTasks,
   Stop, Expire, Horizon, vars

(* However many runs of one playbook without p12Task overlap: unless a     *)
(* fault loses a pair, the refresh token in the playbook file is the one   *)
(* the server accepts, or exactly the run that is about to write it holds  *)
(* it (tokenService.go: ValidateTPPCredentials, replaceTokensInFile).      *)
THEOREM GrantStaysKept == ASSUME HasRefreshToken PROVE Spec => []GrantKept
<1> DEFINE I == p12 \/ GrantInv
<1>1. Init => I
  BY InitGrantInv
<1>2. I /\ [Next]_vars => I'
  BY NextGrantInv, SamePlaybook
<1>3. I => GrantKept
  BY DEF GrantInv, GrantKept, OneHolder
<1> HIDE DEF I
<1>4. QED
  BY <1>1, <1>2, <1>3, PTL DEF Spec

(* Without p12Task, and until a fault loses a pair, a run uses the refresh *)
(* token only when the access token that is in the playbook file at that   *)
(* moment does not work: it cannot undo what another run has just obtained *)
(* (tokenService.go: ValidateTPPCredentials).                              *)
THEOREM RotationsAreNeeded == ASSUME HasRefreshToken PROVE Spec => RotationIsNeeded
<1> DEFINE I == p12 \/ GrantInv
<1> DEFINE Needed == \A p \in Run : (run[p].pc = "refresh" /\ live' # live /\ ~p12 /\ ~lost) =>
                        file # Torn /\ file.access \notin valid
<1>1. Init => I
  BY InitGrantInv
<1>2. I /\ [Next]_vars => I'
  BY NextGrantInv, SamePlaybook
<1>a. ASSUME GrantInv, [Next]_vars,
             NEW p \in Run, live' # live, ~p12, ~lost
      PROVE  file # Torn /\ file.access \notin valid
  <2>1. PICK q \in Run : Refresh(q) \/ RefreshLost(q)
    <3>1. \A q \in Run : ~Login(q)
      BY <1>a DEF Login, GrantInv, TokensIssued
    <3>2. QED
      BY <1>a, <3>1 DEF Next, Step, Start, Verify, ReadRaw, Truncate, Write, RunTasks, Stop,
         Expire, Horizon, vars
  <2>2. run[q].pc = "refresh" /\ run[q].creds.refresh \in live
    BY <1>a, <2>1 DEF Refresh, RefreshLost
  <2>3. CredsCurrent /\ run[q].creds \in Pair
    BY <1>a DEF GrantInv, TypeOK, RunState
  <2>4. file = run[q].creds /\ run[q].creds.access \notin valid
    BY <2>2, <2>3 DEF CredsCurrent, Refreshing
  <2>5. QED
    BY <2>3, <2>4, TokensAssumption DEF Pair
<1>3. I /\ [Next]_vars => [Needed]_vars
  BY <1>a, Zenon
<1> HIDE DEF I
<1>4. QED
  BY <1>1, <1>2, <1>3, PTL DEF Spec, RotationIsNeeded
=============================================================================
