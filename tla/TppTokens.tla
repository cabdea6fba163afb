----------------------------- MODULE TppTokens -----------------------------
(***************************************************************************)
(* The TPP tokens of a playbook: runs of `vcert run' that verify the       *)
(* access token of the playbook file, and replace it when it has expired,  *)
(* with the refresh token of the file or by certificate authentication.    *)
(*                                                                         *)
(* A refresh token can be used once: the server answers with a new pair    *)
(* and forgets the old one.  Between that answer and the end of the write  *)
(* of the playbook file, the process alone knows the pair.                 *)
(*                                                                         *)
(* Tokens are numbered in the order in which the server issues the pairs;  *)
(* 0 is the empty string.                                                  *)
(***************************************************************************)
EXTENDS Integers, FiniteSets

CONSTANTS
  Run,              \* vcert processes that may run the playbook at once
  HasAccessToken,   \* the playbook has an accessToken at first
  HasRefreshToken,  \* the playbook has a refreshToken at first
  MaxTokens,        \* bound: pairs the server may issue
  MaxFaults,        \* bound: processes stopped and answers lost
  Torn              \* content of a file truncated and not written

ASSUME TokensAssumption ==
  /\ {HasAccessToken, HasRefreshToken} \subseteq BOOLEAN
  /\ MaxTokens \in Nat /\ MaxFaults \in Nat
  /\ Torn \notin [access : Nat, refresh : Nat]

VARIABLES
  p12,      \* the playbook has a p12Task
  issued,   \* number of pairs the server has issued
  valid,    \* access tokens the server accepts
  live,     \* refresh tokens the server accepts
  file,     \* credentials in the playbook file
  lost,     \* the server's last pair was in a process, or an answer, that was lost
  faults,   \* faults so far
  run       \* control state of each process

vars == <<p12, issued, valid, live, file, lost, faults, run>>

(* A pair of tokens, each issued by the server or empty.                   *)
Pair == [access : 0 .. issued, refresh : 0 .. issued]

PC == {"idle", "verify", "raw", "refresh", "login", "truncate", "write", "tasks"}

(* creds is playbook.Config.Connection.Credentials, got the pair of the    *)
(* server's answer, rawOK whether the raw copy of the playbook (pbData)    *)
(* has a config, and ok whether the last run of the process exited with 0. *)
RunState == [pc : PC, creds : Pair, got : 0 .. issued, rawOK : BOOLEAN, ok : BOOLEAN]

TypeOK ==
  /\ issued \in Nat /\ faults \in Nat
  /\ valid \subseteq 1 .. issued /\ live \subseteq 1 .. issued
  /\ file \in Pair \cup {Torn}
  /\ lost \in BOOLEAN /\ p12 \in BOOLEAN
  /\ run \in [Run -> RunState]

-----------------------------------------------------------------------------
Active(p) == run[p].pc # "idle"

Empty == [access |-> 0, refresh |-> 0]

Exit(success) ==
  [pc |-> "idle", creds |-> Empty, got |-> 0, rawOK |-> FALSE, ok |-> success]

(* The access token is missing or invalid: go on with the refresh token or *)
(* the certificate, if the playbook has one.                               *)
NeedToken(r) ==
  IF r.creds.refresh = 0 /\ ~p12 THEN Exit(FALSE) ELSE [r EXCEPT !.pc = "raw"]

(* Mutant of RefreshFailed: the certificate is used only when there is no  *)
(* refresh token.                                                          *)
RefreshFailedExits(r) == Exit(FALSE)

(* RefreshTPPTokens after an error of RefreshAccessToken.                  *)
RefreshFailed(r) == IF p12 THEN [r EXCEPT !.pc = "login"] ELSE Exit(FALSE)

(* What the playbook file may hold once `new' is written to it: it was     *)
(* truncated before, and another process may have written to it since.     *)
Overlaid(old, new) == IF old = Torn THEN {new} ELSE {new, Torn}

(* Process p holds a pair that is in no file yet.                          *)
Holding(p) == run[p].pc \in {"truncate", "write"}

-----------------------------------------------------------------------------
(* A playbook has at least one of the three credentials; the first access  *)
(* token may have expired already.                                         *)
Init ==
  /\ p12 \in BOOLEAN
  /\ HasAccessToken \/ HasRefreshToken \/ p12
  /\ issued = 1 /\ faults = 0 /\ lost = FALSE
  /\ valid \in IF HasAccessToken THEN SUBSET {1} ELSE {{}}
  /\ live = IF HasRefreshToken THEN {1} ELSE {}
  /\ file = [access |-> IF HasAccessToken THEN 1 ELSE 0,
             refresh |-> IF HasRefreshToken THEN 1 ELSE 0]
  /\ run = [p \in Run |-> Exit(FALSE)]

Goto(p, r) == run' = [run EXCEPT ![p] = r]

(* Mutant of Start: the playbook is not validated.                         *)
StartUnchecked(p) ==
  /\ ~Active(p)
  /\ Goto(p, [Exit(FALSE) EXCEPT !.creds = file, !.pc = "verify"])
  /\ UNCHANGED <<issued, valid, live, file, lost, faults, p12>>

(* ReadPlaybook and IsValid: an empty file has no task and no credentials. *)
(* ValidateTPPCredentials begins with the access token, if there is one.   *)
Start(p) ==
  /\ ~Active(p)
  /\ \/ file = Torn /\ Goto(p, Exit(FALSE))
     \/ /\ file # Torn
        /\ LET r == [Exit(FALSE) EXCEPT !.creds = file] IN
           Goto(p, IF file.access # 0 THEN [r EXCEPT !.pc = "verify"] ELSE NeedToken(r))
  /\ UNCHANGED <<issued, valid, live, file, lost, faults, p12>>

(* Mutant of Verify: the answer of the server is ignored.                  *)
VerifyIgnored(p) ==
  /\ run[p].pc = "verify"
  /\ Goto(p, NeedToken(run[p]))
  /\ UNCHANGED <<issued, valid, live, file, lost, faults, p12>>

(* IsValidAccessToken: the server accepts the token, or answers 401.       *)
Verify(p) ==
  LET r == run[p] IN
  /\ r.pc = "verify"
  /\ Goto(p, IF r.creds.access \in valid THEN [r EXCEPT !.pc = "tasks"] ELSE NeedToken(r))
  /\ UNCHANGED <<issued, valid, live, file, lost, faults, p12>>

(* ReadPlaybookRaw: an empty file gives an empty map, and no error.        *)
ReadRaw(p) ==
  LET r == run[p] IN
  /\ r.pc = "raw"
  /\ Goto(p, [r EXCEPT !.rawOK = (file # Torn),
                       !.pc = IF r.creds.refresh # 0 THEN "refresh" ELSE "login"])
  /\ UNCHANGED <<issued, valid, live, file, lost, faults, p12>>

(* The server's side of RefreshAccessToken and GetRefreshToken: a new pair *)
(* in place of the refresh token `old', or a new grant when old is 0.      *)
Issue(old) ==
  /\ issued < MaxTokens
  /\ issued' = issued + 1
  /\ valid' = valid \cup {issued + 1}
  /\ live' = (live \ {old}) \cup {issued + 1}

(* RefreshTPPTokens with the refresh token the process read at its start.  *)
Refresh(p) ==
  LET r == run[p] IN
  /\ r.pc = "refresh"
  /\ \/ /\ r.creds.refresh \in live
        /\ Issue(r.creds.refresh)
        /\ Goto(p, [r EXCEPT !.pc = "truncate", !.got = issued + 1])
     \/ /\ r.creds.refresh \notin live
        /\ Goto(p, RefreshFailed(r))
        /\ UNCHANGED <<issued, valid, live>>
  /\ UNCHANGED <<file, lost, faults, p12>>

(* The call fails: on its way to the server, or on the way back, when the  *)
(* server has replaced the token already.                                  *)
RefreshLost(p) ==
  LET r == run[p] IN
  /\ r.pc = "refresh" /\ faults < MaxFaults
  /\ faults' = faults + 1
  /\ \/ UNCHANGED <<issued, valid, live, lost>>
     \/ r.creds.refresh \in live /\ Issue(r.creds.refresh) /\ lost' = TRUE
  /\ Goto(p, RefreshFailed(r))
  /\ UNCHANGED <<file, p12>>

(* GetRefreshToken by certificate authentication: a grant of its own.      *)
Login(p) ==
  LET r == run[p] IN
  /\ r.pc = "login"
  /\ Issue(0)
  /\ Goto(p, [r EXCEPT !.pc = "truncate", !.got = issued + 1])
  /\ UNCHANGED <<file, lost, faults, p12>>

(* replaceTokensInFile fails when the raw copy has no config; WritePlaybook *)
(* begins by truncating the file.                                          *)
Truncate(p) ==
  LET r == run[p] IN
  /\ r.pc = "truncate"
  /\ \/ /\ ~r.rawOK
        /\ Goto(p, Exit(FALSE)) /\ lost' = TRUE
        /\ UNCHANGED file
     \/ /\ r.rawOK
        /\ file' = Torn /\ Goto(p, [r EXCEPT !.pc = "write"])
        /\ UNCHANGED lost
  /\ UNCHANGED <<issued, valid, live, faults, p12>>

(* Mutant of Write: only the access token is saved.                        *)
WriteAccessOnly(p) ==
  LET r == run[p]
      new == [r.creds EXCEPT !.access = r.got]
  IN
  /\ r.pc = "write"
  /\ file' \in Overlaid(file, new)
  /\ Goto(p, [r EXCEPT !.pc = "tasks", !.creds = new])
  /\ UNCHANGED <<issued, valid, live, lost, faults, p12>>

Write(p) ==
  LET r == run[p]
      new == [access |-> r.got, refresh |-> r.got]
  IN
  /\ r.pc = "write"
  /\ file' \in Overlaid(file, new)
  /\ Goto(p, [r EXCEPT !.pc = "tasks", !.creds = new])
  /\ UNCHANGED <<issued, valid, live, lost, faults, p12>>

(* The tasks use the access token, which may expire before they do.        *)
RunTasks(p) ==
  /\ run[p].pc = "tasks"
  /\ Goto(p, Exit(run[p].creds.access \in valid))
  /\ UNCHANGED <<issued, valid, live, file, lost, faults, p12>>

(* The process is killed, or a call fails: the server cannot be reached or *)
(* the file cannot be read or written.                                     *)
Stop(p) ==
  /\ Active(p) /\ faults < MaxFaults
  /\ faults' = faults + 1
  /\ lost' = (lost \/ Holding(p))
  /\ Goto(p, Exit(FALSE))
  /\ UNCHANGED <<issued, valid, live, file, p12>>

(* The lifetime of an access token ends.                                   *)
Expire ==
  /\ \E t \in valid : valid' = valid \ {t}
  /\ UNCHANGED <<issued, live, file, lost, faults, p12, run>>

(* The bound is reached: a process that needs a token waits.               *)
Horizon == issued = MaxTokens /\ UNCHANGED vars

Step(p) ==
  \/ Verify(p) \/ ReadRaw(p) \/ Refresh(p) \/ Login(p)
  \/ Truncate(p) \/ Write(p) \/ RunTasks(p)

Next ==
  \/ \E p \in Run : Start(p) \/ Step(p) \/ RefreshLost(p) \/ Stop(p)
  \/ Expire \/ Horizon

Spec == Init /\ [][Next]_vars

(* vcert is started again and again, and a started process is scheduled.   *)
Fairness == \A p \in Run : WF_vars(Start(p)) /\ WF_vars(Step(p))

FairSpec == Spec /\ Fairness

-----------------------------------------------------------------------------
(* Properties.                                                             *)

(* However many runs overlap, the playbook keeps its grant: the file has   *)
(* the one refresh token the server accepts, or one run has it and is      *)
(* about to write it, unless a fault lost it.  A run that read the file    *)
(* before another one replaced the tokens cannot use, or write, anything.  *)
GrantKept ==
  (HasRefreshToken /\ ~p12 /\ ~lost) =>
    \/ file # Torn /\ live = {file.refresh}
    \/ \E p \in Run : Holding(p) /\ live = {run[p].got}

(* A refresh token is used only when the access token of the playbook file *)
(* does not work: a run never replaces a pair that another run has just    *)
(* obtained, although it decided to refresh before it knew of it.          *)
RotationIsNeeded ==
  [][\A p \in Run : (run[p].pc = "refresh" /\ live' # live /\ ~p12 /\ ~lost) =>
       file # Torn /\ file.access \notin valid]_vars

(* A playbook with a p12Task gets by without any of its tokens: as long as *)
(* its file is not left torn, runs that end well do not cease.             *)
P12Recovers ==
  (p12 /\ <>[](file # Torn)) => []<>(issued = MaxTokens \/ \E p \in Run : run[p].ok)

(* tokenService.go reads the playbook before it refreshes the tokens "to   *)
(* make sure we can": a run that has a new pair, and meets no fault, saves *)
(* it.                                                                     *)
RefreshedIsSaved ==
  [][\A p \in Run : (run[p].pc = "truncate" /\ run[p]'.pc = "idle") => faults' # faults]_vars

(* What makes GrantKept inductive: at most one run holds a pair, it has    *)
(* the only live token, and a process whose refresh token is live has read *)
(* what is in the file now.                                                *)
Refreshing(p) == run[p].pc \in {"verify", "raw", "refresh"}

OneHolder ==
  /\ \A p, q \in Run : Holding(p) /\ Holding(q) => p = q
  /\ \A p \in Run : Holding(p) =>
       /\ live = {run[p].got}
       /\ (run[p].pc = "write") = (file = Torn)
       /\ run[p].rawOK
       /\ file # Torn => file.refresh < run[p].got
  /\ (\A p \in Run : ~Holding(p)) => file # Torn /\ live = {file.refresh}

CredsCurrent ==
  \A p \in Run : Refreshing(p) =>
    /\ run[p].creds.refresh \in live => file = run[p].creds
    /\ run[p].pc \in {"raw", "refresh"} => run[p].creds.access \notin valid
    /\ run[p].pc = "refresh" /\ run[p].creds.refresh \in live => run[p].rawOK

TokensIssued ==
  /\ file # Torn => file.access \in 0 .. issued /\ file.refresh \in 1 .. issued
  /\ \A p \in Run :
       /\ run[p].pc # "login"
       /\ Refreshing(p) => /\ run[p].creds.access \in 0 .. issued
                           /\ run[p].creds.refresh \in 1 .. issued
       /\ Holding(p) => run[p].got \in 1 .. issued

GrantInv == TypeOK /\ TokensIssued /\ (~lost => OneHolder /\ CredsCurrent)
=============================================================================
