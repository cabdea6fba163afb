------------------------------ MODULE Playbook ------------------------------
(***************************************************************************)
(* `vcert run`: processes that execute the certificate tasks of one        *)
(* playbook on one host, and the files, backups and service they leave     *)
(* behind.  A process checks the installations of a task, enrolls one      *)
(* certificate when any of them needs it, and installs it in each of them. *)
(*                                                                         *)
(* A file write is two steps, the truncation and the content, because      *)
(* os.WriteFile and os.Create are: a process may die, fail or be overtaken *)
(* by another process between them.  A process holds nothing on disk but   *)
(* what it wrote, so a crash forgets `run' and keeps the rest.             *)
(***************************************************************************)
EXTENDS Integers, Sequences, FiniteSets

CONSTANTS
  Run,          \* identities of the vcert processes that may run at once
  Inst,         \* installations of the playbook
  Tasks,        \* the certificate tasks: a sequence of sequences of installations
  Conf,         \* per installation: [parts, backup, after, validate]
  Installed,    \* installations that hold a certificate at the start
  Validity,     \* lifetime of a certificate, in periods of the clock
  Window,       \* renewBefore, in periods; 0 disables renewal
  ForceRenew,   \* the values --force-renew may take
  Exclusive,    \* TRUE when whatever starts vcert never overlaps two runs
  Daily,        \* TRUE when no period of the clock passes without a run
  MaxClock,     \* bound: last period of the clock
  MaxIssued,    \* bound: certificates the CA may issue
  MaxFaults,    \* bound: crashes and failed calls
  Absent,       \* content of a file that does not exist
  Torn          \* content of a file truncated and not written

Part == {"cert", "key", "chain"}

Cert == [id : Nat, issued : Nat]

Content == Cert \cup {Absent, Torn}

InstConf == [parts : Seq(Part), backup : BOOLEAN, after : BOOLEAN, validate : BOOLEAN]

ASSUME ConstantsAssumption ==
  /\ Tasks \in Seq(Seq(Inst)) /\ Len(Tasks) > 0
  /\ \A t \in 1 .. Len(Tasks) : Len(Tasks[t]) > 0
  /\ Conf \in [Inst -> InstConf]
  /\ \A i \in Inst : Len(Conf[i].parts) > 0 /\ Conf[i].parts[1] = "cert"
  /\ Installed \subseteq Inst
  /\ Validity \in Nat /\ Window \in Nat
  /\ ForceRenew \subseteq BOOLEAN
  /\ Exclusive \in BOOLEAN /\ Daily \in BOOLEAN
  /\ MaxClock \in Nat /\ MaxIssued \in Nat /\ MaxFaults \in Nat
  /\ Absent \notin Cert /\ Torn \notin Cert /\ Absent # Torn

(***************************************************************************)
(* A file is named once in a playbook: no two installations share a path,  *)
(* and the parts of one installation are distinct files.                   *)
(***************************************************************************)
ASSUME DistinctFilesAssumption ==
  /\ \A t, u \in 1 .. Len(Tasks) : \A j \in 1 .. Len(Tasks[t]), k \in 1 .. Len(Tasks[u]) :
       Tasks[t][j] = Tasks[u][k] => t = u /\ j = k
  /\ \A i \in Inst : \A j, k \in 1 .. Len(Conf[i].parts) :
       Conf[i].parts[j] = Conf[i].parts[k] => j = k

VARIABLES
  clock,    \* current period
  issued,   \* number of certificates the CA has issued
  disk,     \* content of each file of each installation
  bak,      \* content of its .bak copy
  loaded,   \* files the service had when its afterInstallAction last ran
  cut,      \* installations whose files the last attempt left half replaced
  missed,   \* installations whose afterInstallAction did not follow the last install
  faults,   \* crashes and failed calls so far
  ran,      \* a run has ended in this period
  run       \* control state of each process

vars == <<clock, issued, disk, bak, loaded, cut, missed, faults, ran, run>>

PC == {"idle", "check", "enroll", "backup", "copy", "install", "write", "after", "validate"}

(***************************************************************************)
(* The state of a process: its position (task, installation, file), the    *)
(* result of the checks so far (changed), the certificate it enrolled for  *)
(* the current task (got) and whether any task has failed, which is its    *)
(* exit code once it is idle again.                                        *)
(***************************************************************************)
RunState == [pc : PC, force : BOOLEAN, task : Nat, inst : Nat, part : Nat,
             changed : BOOLEAN, got : Cert \cup {Absent}, failed : BOOLEAN]

(* A process is always at a file of an installation of a task.             *)
RunOK(r) ==
  /\ r \in RunState
  /\ r.task \in 1 .. Len(Tasks)
  /\ r.inst \in 1 .. Len(Tasks[r.task])
  /\ r.part \in 1 .. Len(Conf[Tasks[r.task][r.inst]].parts)

TypeOK ==
  /\ clock \in Nat /\ issued \in Nat /\ faults \in Nat /\ ran \in BOOLEAN
  /\ disk \in [Inst -> [Part -> Content]]
  /\ bak \in [Inst -> [Part -> Content]]
  /\ loaded \in [Inst -> [Part -> Content]]
  /\ cut \subseteq Inst /\ missed \subseteq Inst
  /\ run \in [Run -> RunState]
  /\ \A p \in Run : RunOK(run[p])

-----------------------------------------------------------------------------
(* Where a process is, and where it goes next.  r is a process state.      *)

Cur(r) == Tasks[r.task][r.inst]

CurPart(r) == Conf[Cur(r)].parts[r.part]

LastPart(r) == r.part = Len(Conf[Cur(r)].parts)

Active(p) == run[p].pc # "idle"

(* The files of installation i.                                            *)
Parts(i) == {Conf[i].parts[k] : k \in 1 .. Len(Conf[i].parts)}

EndRun(failed) ==
  [pc |-> "idle", force |-> FALSE, task |-> 1, inst |-> 1, part |-> 1,
   changed |-> FALSE, got |-> Absent, failed |-> failed]

(* Mutant of BeginTask: the result of the checks survives the task.        *)
BeginTaskStale(r, t) ==
  [r EXCEPT !.pc = IF r.force THEN "enroll" ELSE "check",
            !.task = t, !.inst = 1, !.part = 1, !.got = Absent]

(* Execute: the first thing a task does is isCertificateChanged, which     *)
(* returns at once under --force-renew.                                    *)
BeginTask(r, t) ==
  [r EXCEPT !.pc = IF r.force THEN "enroll" ELSE "check",
            !.task = t, !.inst = 1, !.part = 1, !.changed = FALSE, !.got = Absent]

NextTask(r) ==
  IF r.task < Len(Tasks) THEN BeginTask(r, r.task + 1) ELSE EndRun(r.failed)

(* Mutants of BeginInstaller: it goes on at the file the last installation *)
(* was at; only the first installation is backed up.                       *)
BeginInstallerNoReset(r, k) ==
  [r EXCEPT !.pc = IF Conf[Tasks[r.task][k]].backup THEN "backup" ELSE "install", !.inst = k]

BeginInstallerBackupFirst(r, k) ==
  [r EXCEPT !.pc = IF k = 1 /\ Conf[Tasks[r.task][k]].backup THEN "backup" ELSE "install",
            !.inst = k, !.part = 1]

(* runInstaller for installation k of the task.                            *)
BeginInstaller(r, k) ==
  [r EXCEPT !.pc = IF Conf[Tasks[r.task][k]].backup THEN "backup" ELSE "install",
            !.inst = k, !.part = 1]

NextInst(r) ==
  IF r.inst < Len(Tasks[r.task]) THEN BeginInstaller(r, r.inst + 1) ELSE NextTask(r)

(* The next file of a loop over the files of the installation, or the pc   *)
(* reached after the last of them.                                         *)
NextPart(r, loop, after) ==
  IF LastPart(r) THEN [r EXCEPT !.pc = after, !.part = 1]
                 ELSE [r EXCEPT !.pc = loop, !.part = r.part + 1]

(* Mutant of AfterInstall: no action when no check has found a change.     *)
AfterInstallIfChanged(r) ==
  IF ~LastPart(r) THEN [r EXCEPT !.pc = "install", !.part = r.part + 1]
  ELSE IF Conf[Cur(r)].after /\ r.changed THEN [r EXCEPT !.pc = "after", !.part = 1]
  ELSE NextInst(r)

(* After the last file: the afterInstallAction, if there is one.  Without  *)
(* it the function returns before the installValidationAction.             *)
AfterInstall(r) ==
  IF ~LastPart(r) THEN [r EXCEPT !.pc = "install", !.part = r.part + 1]
  ELSE IF Conf[Cur(r)].after THEN [r EXCEPT !.pc = "after", !.part = 1]
  ELSE NextInst(r)

AfterAction(r) == IF Conf[Cur(r)].validate THEN [r EXCEPT !.pc = "validate"] ELSE NextInst(r)

(* Mutants of OnError: an error ends the run; an error is forgotten.       *)
OnErrorStop(r) == EndRun(TRUE)

OnErrorForgotten(r) == IF r.pc \in {"check", "enroll"} THEN NextTask(r) ELSE NextInst(r)

(* An error fails the task and goes on: with the next task when it is met  *)
(* before the installations, with the next installation otherwise.         *)
OnError(r) ==
  LET f == [r EXCEPT !.failed = TRUE] IN
  IF r.pc \in {"check", "enroll"} THEN NextTask(f) ELSE NextInst(f)

-----------------------------------------------------------------------------
(* Certificates and file sets.                                             *)

NotAfter(c) == c.issued + Validity

(* Mutants of Due: the window is ignored; the window is one period longer. *)
DueAtExpiry(c) == Window # 0 /\ clock >= NotAfter(c)

DueEarly(c) == Window # 0 /\ clock >= NotAfter(c) - Window

(* needRenewal with the period as the unit of time.                        *)
Due(c) == Window # 0 /\ clock > NotAfter(c) - Window

Expired(c) == clock > NotAfter(c)

(* All files of installation i come from one enrollment, or none exists.   *)
Uniform(files, i) == \A x, y \in Parts(i) : files[x] = files[y] /\ files[x] # Torn

Usable(files, i) == Uniform(files, i) /\ files["cert"] \in Cert

(* Process p has truncated a file of installation i and not written all.   *)
Writing(p, i) ==
  /\ run[p].pc \in {"install", "write"} /\ Cur(run[p]) = i
  /\ run[p].pc = "write" \/ run[p].part > 1

(* What an interruption of process p leaves behind.                        *)
CutBy(p) == {i \in Inst : Writing(p, i)}

MissedBy(p) == IF run[p].pc = "after" THEN {Cur(run[p])} ELSE {}

(* What a file may hold once `new' is written to it.  It was truncated     *)
(* before; when it is not empty any more, another process wrote it since,  *)
(* and the longer of the two contents keeps its tail.                      *)
Overlaid(old, new) == IF old = Torn THEN {new} ELSE {new, Torn}

-----------------------------------------------------------------------------
(* Initially the CA has issued one certificate, which the installations in *)
(* Installed hold, and which their service has loaded.                     *)
Init ==
  LET first == [id |-> 1, issued |-> 0]
      Files(i) == [x \in Part |-> IF i \in Installed /\ x \in Parts(i) THEN first ELSE Absent]
  IN
  /\ clock = 0 /\ issued = 1 /\ faults = 0 /\ ran = FALSE
  /\ disk = [i \in Inst |-> Files(i)]
  /\ loaded = [i \in Inst |-> Files(i)]
  /\ bak = [i \in Inst |-> [x \in Part |-> Absent]]
  /\ cut = {} /\ missed = {}
  /\ run = [p \in Run |-> EndRun(FALSE)]

(* Process p takes a step to state r; a run that becomes idle has ended.   *)
Goto(p, r) ==
  /\ run' = [run EXCEPT ![p] = r]
  /\ ran' = (ran \/ r.pc = "idle")

(* The scheduler starts vcert; it reads the playbook and begins the first  *)
(* task.  MaxIssued bounds the runs: each may enroll once per task.        *)
Start(p) ==
  /\ ~Active(p)
  /\ Exclusive => \A q \in Run : ~Active(q)
  /\ issued + Len(Tasks) * Cardinality({q \in Run : Active(q)} \cup {p}) <= MaxIssued
  /\ \E f \in ForceRenew : Goto(p, BeginTask([EndRun(FALSE) EXCEPT !.force = f], 1))
  /\ UNCHANGED <<clock, issued, disk, bak, loaded, cut, missed, faults>>

(* One iteration of isCertificateChanged: a file that is missing or in its *)
(* renew window makes the whole task change; a file that does not decode   *)
(* is an error of the task.  Only the certificate file is looked at.       *)
Check(p) ==
  LET r == run[p]
      c == disk[Cur(r)]["cert"]
      s == [r EXCEPT !.changed = r.changed \/ c = Absent \/ Due(c), !.part = 1]
  IN
  /\ r.pc = "check"
  /\ \/ c = Torn /\ Goto(p, OnError(r))
     \/ c # Torn /\ r.inst < Len(Tasks[r.task]) /\ Goto(p, [s EXCEPT !.inst = r.inst + 1])
     \/ c # Torn /\ r.inst = Len(Tasks[r.task]) /\ s.changed
          /\ Goto(p, [s EXCEPT !.pc = "enroll", !.inst = 1])
     \/ c # Torn /\ r.inst = Len(Tasks[r.task]) /\ ~s.changed /\ Goto(p, NextTask(s))
  /\ UNCHANGED <<clock, issued, disk, bak, loaded, cut, missed, faults>>

(* EnrollCertificate: the request and the retrieval of its certificate.    *)
Enroll(p) ==
  /\ run[p].pc = "enroll" /\ issued < MaxIssued
  /\ issued' = issued + 1
  /\ Goto(p, BeginInstaller([run[p] EXCEPT !.got = [id |-> issued + 1, issued |-> clock]], 1))
  /\ UNCHANGED <<clock, disk, bak, loaded, cut, missed, faults>>

(* The CA issued the certificate and its retrieval failed or timed out:    *)
(* the key was only in memory, nobody will ever use the certificate.       *)
EnrollLost(p) ==
  /\ run[p].pc = "enroll" /\ issued < MaxIssued /\ faults < MaxFaults
  /\ issued' = issued + 1 /\ faults' = faults + 1
  /\ Goto(p, OnError(run[p]))
  /\ UNCHANGED <<clock, disk, bak, loaded, cut, missed>>

(* Backup, per file: nothing when there is no certificate file, nothing    *)
(* for a file that does not exist, else CopyFile truncates the old copy.   *)
Backup(p) ==
  LET r == run[p]
      i == Cur(r)
  IN
  /\ r.pc = "backup"
  /\ \/ /\ r.part = 1 /\ disk[i]["cert"] = Absent
        /\ Goto(p, [r EXCEPT !.pc = "install"])
        /\ UNCHANGED bak
     \/ /\ r.part > 1 /\ disk[i][CurPart(r)] = Absent
        /\ Goto(p, NextPart(r, "backup", "install"))
        /\ UNCHANGED bak
     \/ /\ disk[i][CurPart(r)] # Absent
        /\ bak' = [bak EXCEPT ![i][CurPart(r)] = Torn]
        /\ Goto(p, [r EXCEPT !.pc = "copy"])
  /\ UNCHANGED <<clock, issued, disk, loaded, cut, missed, faults>>

(* Mutant of Copy: the backup renames the file.                            *)
CopyRenames(p) ==
  LET r == run[p] IN
  /\ r.pc = "copy"
  /\ bak' = [bak EXCEPT ![Cur(r)][CurPart(r)] = disk[Cur(r)][CurPart(r)]]
  /\ disk' = [disk EXCEPT ![Cur(r)][CurPart(r)] = Absent]
  /\ Goto(p, NextPart(r, "backup", "install"))
  /\ UNCHANGED <<clock, issued, loaded, cut, missed, faults>>

Copy(p) ==
  LET r == run[p] IN
  /\ r.pc = "copy"
  /\ \E c \in Overlaid(bak[Cur(r)][CurPart(r)], disk[Cur(r)][CurPart(r)]) :
       bak' = [bak EXCEPT ![Cur(r)][CurPart(r)] = c]
  /\ Goto(p, NextPart(r, "backup", "install"))
  /\ UNCHANGED <<clock, issued, disk, loaded, cut, missed, faults>>

(* Install, per file: WriteFile truncates ...                              *)
Install(p) ==
  LET r == run[p] IN
  /\ r.pc = "install"
  /\ disk' = [disk EXCEPT ![Cur(r)][CurPart(r)] = Torn]
  /\ Goto(p, [r EXCEPT !.pc = "write"])
  /\ UNCHANGED <<clock, issued, bak, loaded, cut, missed, faults>>

(* ... and writes the content.                                             *)
Write(p) ==
  LET r == run[p]
      i == Cur(r)
  IN
  /\ r.pc = "write"
  /\ \E c \in Overlaid(disk[i][CurPart(r)], r.got) :
       disk' = [disk EXCEPT ![i][CurPart(r)] = c]
  /\ cut' = IF LastPart(r) THEN cut \ {i} ELSE cut
  /\ Goto(p, AfterInstall(r))
  /\ UNCHANGED <<clock, issued, bak, loaded, missed, faults>>

(* AfterInstallActions: the script makes the service read its files.       *)
After(p) ==
  LET r == run[p] IN
  /\ r.pc = "after"
  /\ loaded' = [loaded EXCEPT ![Cur(r)] = disk[Cur(r)]]
  /\ missed' = missed \ {Cur(r)}
  /\ Goto(p, AfterAction(r))
  /\ UNCHANGED <<clock, issued, disk, bak, cut, faults>>

(* InstallValidationActions: a result of "1" is logged and nothing else.   *)
Validate(p) ==
  /\ run[p].pc = "validate"
  /\ Goto(p, NextInst(run[p]))
  /\ UNCHANGED <<clock, issued, disk, bak, loaded, cut, missed, faults>>

(* A call of process p fails: a file cannot be opened, read or written, a  *)
(* script exits with an error, the platform refuses or cannot be reached.  *)
Fail(p) ==
  /\ Active(p) /\ faults < MaxFaults
  /\ faults' = faults + 1
  /\ cut' = cut \cup CutBy(p) /\ missed' = missed \cup MissedBy(p)
  /\ Goto(p, OnError(run[p]))
  /\ UNCHANGED <<clock, issued, disk, bak, loaded>>

(* The process dies between two steps: killed, out of memory, power cut.   *)
Crash(p) ==
  /\ Active(p) /\ faults < MaxFaults
  /\ faults' = faults + 1
  /\ cut' = cut \cup CutBy(p) /\ missed' = missed \cup MissedBy(p)
  /\ Goto(p, EndRun(TRUE))
  /\ UNCHANGED <<clock, issued, disk, bak, loaded>>

(* A period passes.                                                        *)
Tick ==
  /\ clock < MaxClock
  /\ Daily => ran /\ \A p \in Run : ~Active(p)
  /\ clock' = clock + 1 /\ ran' = FALSE
  /\ UNCHANGED <<issued, disk, bak, loaded, cut, missed, faults, run>>

(* The bounds are reached: no further run is modelled.                     *)
Horizon ==
  /\ issued + Len(Tasks) > MaxIssued
  /\ \A p \in Run : ~Active(p)
  /\ UNCHANGED vars

Step(p) ==
  \/ Check(p) \/ Enroll(p) \/ Backup(p) \/ Copy(p) \/ Install(p)
  \/ Write(p) \/ After(p) \/ Validate(p)

Next ==
  \/ \E p \in Run : Start(p) \/ Step(p) \/ EnrollLost(p) \/ Fail(p) \/ Crash(p)
  \/ Tick \/ Horizon

Spec == Init /\ [][Next]_vars

(* The scheduler starts vcert again and again, the operating system keeps  *)
(* scheduling a started process, and time passes.  Nothing forces a fault. *)
Fairness ==
  /\ \A p \in Run : WF_vars(Start(p)) /\ WF_vars(Step(p))
  /\ WF_vars(Tick)

FairSpec == Spec /\ Fairness

-----------------------------------------------------------------------------
(* Properties.                                                             *)

AtRest == \A p \in Run : ~Active(p)

(* Certificate, key and chain of an installation belong together at every  *)
(* moment, but while a run is between the first and the last of its writes *)
(* to it, or after a run was stopped there and nothing has installed since.*)
(* Nothing the code does elsewhere (the next installation, a backup, a     *)
(* failed task) can break a file set.  For runs that do not overlap.       *)
FilesUniform ==
  \A i \in Inst : i \in cut \/ Uniform(disk[i], i) \/ \E p \in Run : Writing(p, i)

(* FilesUniform is not inductive.  FilesInv adds what makes it so: one     *)
(* process at a time, which has a certificate in hand when it touches an   *)
(* installation, has written it to every file before the current one, and  *)
(* finds that file as it truncated it.                                     *)
Installing == {"backup", "copy", "install", "write", "after", "validate"}

OneActive == \A p, q \in Run : Active(p) /\ Active(q) => p = q

Progress(r, files) ==
  /\ r.pc \in Installing => r.got \in Cert
  /\ r.pc \in {"install", "write"} =>
       \A k \in 1 .. (r.part - 1) : files[Cur(r)][Conf[Cur(r)].parts[k]] = r.got
  /\ r.pc = "write" => files[Cur(r)][CurPart(r)] = Torn

FilesInv == TypeOK /\ OneActive /\ (\A p \in Run : Progress(run[p], disk)) /\ FilesUniform

(* Process p is on its way from its first write to the afterInstallAction. *)
Pending(p, i) == Writing(p, i) \/ (run[p].pc = "after" /\ Cur(run[p]) = i)

(* A service whose installation has an afterInstallAction runs with the    *)
(* files that are on disk, except where an interruption is on record and   *)
(* while a run is on its way to the action: no path through the errors of  *)
(* this or another installation, and no other run, loses an action.        *)
ServiceCurrent ==
  \A i \in Inst : Conf[i].after =>
    loaded[i] = disk[i] \/ i \in cut \/ i \in missed \/ \E p \in Run : Pending(p, i)

(* backupFiles: whatever the moment at which a first fault strikes, the    *)
(* live files or their backup are one matching set; and so they are again  *)
(* once the runs after that fault, forced ones included, have ended.       *)
OneCopyIsUsable ==
  (faults = 0 \/ (faults = 1 /\ AtRest)) =>
    \A i \in Installed : Conf[i].backup => Usable(disk[i], i) \/ Usable(bak[i], i)

(* An enrollment happens only when it is forced or when an installation of *)
(* the task is, at that moment, missing or due: the check made earlier in  *)
(* the run is still true when it is acted on.  For runs that do not overlap.*)
NoNeedlessEnroll ==
  [][\A p \in Run : (run[p].pc = "enroll" /\ issued' # issued) =>
       \/ run[p].force
       \/ \E k \in 1 .. Len(Tasks[run[p].task]) :
            LET c == disk[Tasks[run[p].task][k]]["cert"] IN c = Absent \/ Due(c)]_vars

(* A run that exits with 0 leaves no installation of any task without a    *)
(* certificate, with a file that does not decode, or in its renew window.  *)
SuccessMeansFresh ==
  [][\A p \in Run : (Active(p) /\ run[p]'.pc = "idle" /\ ~run[p]'.failed /\ Window # 0) =>
       \A t \in 1 .. Len(Tasks) : \A k \in 1 .. Len(Tasks[t]) :
         LET c == disk'[Tasks[t][k]]["cert"] IN c \in Cert /\ ~Due(c)]_vars

(* With one run in each period, fewer faults than the renew window is long *)
(* never let a certificate expire, as long as no file of its task is torn. *)
NoExpiry ==
  faults < Window =>
    \A t \in 1 .. Len(Tasks) :
      (\A k \in 1 .. Len(Tasks[t]) : disk[Tasks[t][k]]["cert"] # Torn) =>
        \A k \in 1 .. Len(Tasks[t]) :
          LET c == disk[Tasks[t][k]]["cert"] IN c \in Cert => ~Expired(c)

(* Running vcert often does not renew often: when renewBefore is shorter   *)
(* than the lifetime, a task enrolls once per renewal cycle, and once more *)
(* for each fault.                                                         *)
RenewalRate ==
  (ForceRenew = {FALSE} /\ Window <= Validity) =>
    issued <= 1 + Len(Tasks) * (1 + clock \div (Validity - Window + 1)) + faults

(* A task whose certificate files are never torn is served, whatever       *)
(* happens to the other tasks of the playbook: an installation without     *)
(* certificate eventually has one.                                         *)
TaskIsolation ==
  \A t \in 1 .. Len(Tasks) :
    <>[](\A k \in 1 .. Len(Tasks[t]) : disk[Tasks[t][k]]["cert"] # Torn) =>
      \A k \in 1 .. Len(Tasks[t]) :
        disk[Tasks[t][k]]["cert"] = Absent ~>
          (disk[Tasks[t][k]]["cert"] # Absent \/ issued + Len(Tasks) > MaxIssued)

(* README-PLAYBOOK.md: the afterInstallAction is executed after the        *)
(* installation is performed, so after a run that exits with 0 the service *)
(* has the files that were installed.                                      *)
AfterActionFollows ==
  (AtRest /\ ran /\ \A p \in Run : ~run[p].failed) =>
    \A i \in Inst : Conf[i].after => loaded[i]["cert"] = disk[i]["cert"]
=============================================================================
