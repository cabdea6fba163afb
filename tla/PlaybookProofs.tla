--------------------------- MODULE PlaybookProofs ---------------------------
(***************************************************************************)
(* Theorems about Playbook, for every playbook, every number of processes  *)
(* and every bound.                                                        *)
(***************************************************************************)
EXTENDS Playbook, FiniteSetTheorems, TLAPS

(* The tables of the playbook: every position a process can be at names an *)
(* installation, and its files.                                            *)
LEMMA PlaybookTables ==
  /\ Len(Tasks) \in Nat \ {0}
  /\ \A t \in 1 .. Len(Tasks) :
       /\ Len(Tasks[t]) \in Nat \ {0}
       /\ \A k \in 1 .. Len(Tasks[t]) : Tasks[t][k] \in Inst
  /\ \A i \in Inst :
       /\ Conf[i] \in InstConf
       /\ Conf[i].parts \in Seq(Part)
       /\ Len(Conf[i].parts) \in Nat \ {0}
       /\ \A k \in 1 .. Len(Conf[i].parts) : Conf[i].parts[k] \in Part
       /\ Conf[i].backup \in BOOLEAN /\ Conf[i].after \in BOOLEAN /\ Conf[i].validate \in BOOLEAN
       /\ Conf[i].parts[1] = "cert"
<1>1. /\ Tasks \in Seq(Seq(Inst)) /\ Len(Tasks) > 0
      /\ \A t \in 1 .. Len(Tasks) : Len(Tasks[t]) > 0
  BY ConstantsAssumption
<1>2. Len(Tasks) \in Nat \ {0}
  BY <1>1
<1>3. ASSUME NEW t \in 1 .. Len(Tasks)
      PROVE  /\ Len(Tasks[t]) \in Nat \ {0}
             /\ \A k \in 1 .. Len(Tasks[t]) : Tasks[t][k] \in Inst
  <2>1. Tasks[t] \in Seq(Inst)
    BY <1>1
  <2>2. QED
    BY <2>1, <1>1
<1>4. ASSUME NEW i \in Inst
      PROVE  /\ Conf[i] \in InstConf
             /\ Conf[i].parts \in Seq(Part)
             /\ Len(Conf[i].parts) \in Nat \ {0}
             /\ \A k \in 1 .. Len(Conf[i].parts) : Conf[i].parts[k] \in Part
             /\ Conf[i].backup \in BOOLEAN /\ Conf[i].after \in BOOLEAN /\ Conf[i].validate \in BOOLEAN
             /\ Conf[i].parts[1] = "cert"
  <2>1. Conf[i] \in InstConf
    BY ConstantsAssumption
  <2>2. Conf[i].parts \in Seq(Part)
    BY <2>1 DEF InstConf
  <2>3. Len(Conf[i].parts) > 0 /\ Conf[i].parts[1] = "cert"
    BY ConstantsAssumption
  <2>4. QED
    BY <2>1, <2>2, <2>3 DEF InstConf
<1>5. QED
  BY <1>2, <1>3, <1>4

-----------------------------------------------------------------------------
(* Where a process goes next is a position of the playbook.                *)

LEMMA EndRunOK == ASSUME NEW f \in BOOLEAN PROVE RunOK(EndRun(f))
<1>1. EndRun(f) \in RunState
  BY DEF EndRun, RunState, PC
<1>2. Tasks[1][1] \in Inst /\ 1 \in 1 .. Len(Tasks) /\ 1 \in 1 .. Len(Tasks[1])
  BY PlaybookTables
<1>3. QED
  BY <1>1, <1>2, PlaybookTables DEF RunOK, EndRun

LEMMA BeginTaskOK ==
  ASSUME NEW r, RunOK(r), NEW t \in 1 .. Len(Tasks)
  PROVE  RunOK(BeginTask(r, t))
<1>1. BeginTask(r, t) \in RunState
  <2>1. r \in RunState /\ t \in Nat
    BY PlaybookTables DEF RunOK
  <2>2. (IF r.force THEN "enroll" ELSE "check") \in PC
    BY DEF PC
  <2>3. QED
    BY <2>1, <2>2 DEF BeginTask, RunState
<1>2. /\ BeginTask(r, t).task = t /\ BeginTask(r, t).inst = 1 /\ BeginTask(r, t).part = 1
  BY DEF BeginTask, RunOK, RunState
<1>3. 1 \in 1 .. Len(Tasks[t]) /\ Tasks[t][1] \in Inst
  BY PlaybookTables
<1>4. QED
  BY <1>1, <1>2, <1>3, PlaybookTables DEF RunOK

LEMMA NextTaskOK == ASSUME NEW r, RunOK(r) PROVE RunOK(NextTask(r))
<1>1. CASE r.task < Len(Tasks)
  <2>1. r.task + 1 \in 1 .. Len(Tasks)
    BY <1>1, PlaybookTables DEF RunOK, RunState
  <2>2. QED
    BY <1>1, <2>1, BeginTaskOK DEF NextTask
<1>2. CASE ~(r.task < Len(Tasks))
  BY <1>2, EndRunOK DEF NextTask, RunOK, RunState
<1>3. QED
  BY <1>1, <1>2

LEMMA BeginInstallerOK ==
  ASSUME NEW r, RunOK(r), NEW k \in 1 .. Len(Tasks[r.task])
  PROVE  RunOK(BeginInstaller(r, k))
<1>1. BeginInstaller(r, k) \in RunState
  <2>1. r \in RunState /\ k \in Nat
    BY PlaybookTables DEF RunOK
  <2>2. (IF Conf[Tasks[r.task][k]].backup THEN "backup" ELSE "install") \in PC
    BY DEF PC
  <2>3. QED
    BY <2>1, <2>2 DEF BeginInstaller, RunState
<1>2. /\ BeginInstaller(r, k).task = r.task /\ BeginInstaller(r, k).inst = k
      /\ BeginInstaller(r, k).part = 1
  BY DEF BeginInstaller, RunOK, RunState
<1>3. Tasks[r.task][k] \in Inst
  BY PlaybookTables DEF RunOK
<1>4. QED
  BY <1>1, <1>2, <1>3, PlaybookTables DEF RunOK

LEMMA NextInstOK == ASSUME NEW r, RunOK(r) PROVE RunOK(NextInst(r))
<1>1. CASE r.inst < Len(Tasks[r.task])
  <2>1. r.inst + 1 \in 1 .. Len(Tasks[r.task])
    BY <1>1, PlaybookTables DEF RunOK, RunState
  <2>2. QED
    BY <1>1, <2>1, BeginInstallerOK DEF NextInst
<1>2. CASE ~(r.inst < Len(Tasks[r.task]))
  BY <1>2, NextTaskOK DEF NextInst
<1>3. QED
  BY <1>1, <1>2

LEMMA CurOK ==
  ASSUME NEW r, RunOK(r)
  PROVE  /\ Cur(r) \in Inst /\ CurPart(r) \in Part /\ CurPart(r) \in Parts(Cur(r))
         /\ r.part \in 1 .. Len(Conf[Cur(r)].parts)
BY PlaybookTables DEF RunOK, RunState, Cur, CurPart, Parts

(* A step that keeps task and installation, and moves within the files.    *)
LEMMA SameInstOK ==
  ASSUME NEW r, RunOK(r), NEW pc \in PC, NEW n \in 1 .. Len(Conf[Cur(r)].parts)
  PROVE  RunOK([r EXCEPT !.pc = pc, !.part = n])
<1>1. [r EXCEPT !.pc = pc, !.part = n] \in RunState
  <2>1. r \in RunState /\ n \in Nat
    BY DEF RunOK
  <2>2. QED
    BY <2>1 DEF RunState
<1>2. QED
  BY <1>1 DEF RunOK, RunState, Cur

LEMMA NextPartOK ==
  ASSUME NEW r, RunOK(r), NEW loop \in PC, NEW after \in PC
  PROVE  RunOK(NextPart(r, loop, after))
<1>1. CASE LastPart(r)
  <2>1. 1 \in 1 .. Len(Conf[Cur(r)].parts)
    BY CurOK, PlaybookTables
  <2>2. QED
    BY <1>1, <2>1, SameInstOK DEF NextPart
<1>2. CASE ~LastPart(r)
  <2>1. r.part + 1 \in 1 .. Len(Conf[Cur(r)].parts)
    BY <1>2, CurOK, PlaybookTables DEF LastPart
  <2>2. QED
    BY <1>2, <2>1, SameInstOK DEF NextPart
<1>3. QED
  BY <1>1, <1>2

LEMMA AfterInstallOK == ASSUME NEW r, RunOK(r) PROVE RunOK(AfterInstall(r))
<1>1. CASE ~LastPart(r)
  <2>1. r.part + 1 \in 1 .. Len(Conf[Cur(r)].parts)
    BY <1>1, CurOK, PlaybookTables DEF LastPart
  <2>2. QED
    BY <1>1, <2>1, SameInstOK DEF AfterInstall, PC
<1>2. CASE LastPart(r)
  <2>1. 1 \in 1 .. Len(Conf[Cur(r)].parts) /\ "after" \in PC
    BY CurOK, PlaybookTables DEF PC
  <2>. RunOK([r EXCEPT !.pc = "after", !.part = 1])
    BY <2>1, SameInstOK
  <2>2. QED
    BY <1>2, <2>1, NextInstOK DEF AfterInstall
<1>3. QED
  BY <1>1, <1>2

LEMMA PcOK ==
  ASSUME NEW r, RunOK(r), NEW pc \in PC
  PROVE  RunOK([r EXCEPT !.pc = pc])
BY DEF RunOK, RunState

LEMMA AfterActionOK == ASSUME NEW r, RunOK(r) PROVE RunOK(AfterAction(r))
BY NextInstOK, PcOK DEF AfterAction, PC

LEMMA OnErrorOK == ASSUME NEW r, RunOK(r) PROVE RunOK(OnError(r))
<1>1. RunOK([r EXCEPT !.failed = TRUE])
  BY DEF RunOK, RunState
<1>2. QED
  BY <1>1, NextTaskOK, NextInstOK DEF OnError

-----------------------------------------------------------------------------
(* Type correctness.                                                       *)

(* A process that steps to a position of the playbook leaves every process *)
(* at one.                                                                 *)
LEMMA GotoOK ==
  ASSUME TypeOK, NEW p \in Run, NEW r, RunOK(r), Goto(p, r)
  PROVE  /\ run' \in [Run -> RunState] /\ \A q \in Run : RunOK(run'[q])
         /\ ran' \in BOOLEAN
         /\ run'[p] = r /\ \A q \in Run \ {p} : run'[q] = run[q]
<1>1. r \in RunState
  BY DEF RunOK
<1>2. run' = [run EXCEPT ![p] = r] /\ run \in [Run -> RunState] /\ \A q \in Run : RunOK(run[q])
  BY DEF Goto, TypeOK
<1>3. run' \in [Run -> RunState] /\ run'[p] = r /\ \A q \in Run \ {p} : run'[q] = run[q]
  BY <1>1, <1>2
<1>4. ran' \in BOOLEAN
  BY DEF Goto
<1>5. QED
  BY <1>2, <1>3, <1>4

LEMMA InitTypeOK == Init => TypeOK
<1> SUFFICES ASSUME Init PROVE TypeOK
  OBVIOUS
<1> DEFINE first == [id |-> 1, issued |-> 0]
           Files(i) == [x \in Part |-> IF i \in Installed /\ x \in Parts(i) THEN first ELSE Absent]
<1>1. first \in Cert
  BY DEF Cert
<1>2. \A i \in Inst : Files(i) \in [Part -> Content]
  BY <1>1 DEF Content
<1>3. disk \in [Inst -> [Part -> Content]] /\ loaded \in [Inst -> [Part -> Content]]
  BY <1>2 DEF Init
<1>4. bak \in [Inst -> [Part -> Content]]
  BY DEF Init, Content
<1>5. RunOK(EndRun(FALSE))
  BY EndRunOK
<1>6. run \in [Run -> RunState] /\ \A p \in Run : RunOK(run[p])
  BY <1>5 DEF Init, RunOK
<1>7. QED
  BY <1>3, <1>4, <1>6 DEF Init, TypeOK

LEMMA StartTypeOK == ASSUME TypeOK, NEW p \in Run, Start(p) PROVE TypeOK'
<1>1. PICK f \in ForceRenew : Goto(p, BeginTask([EndRun(FALSE) EXCEPT !.force = f], 1))
  BY DEF Start
<1>2. f \in BOOLEAN
  BY ConstantsAssumption
<1>3. RunOK([EndRun(FALSE) EXCEPT !.force = f])
  BY <1>2, EndRunOK DEF RunOK, RunState
<1>4. RunOK(BeginTask([EndRun(FALSE) EXCEPT !.force = f], 1))
  BY <1>3, BeginTaskOK, PlaybookTables
<1>5. QED
  BY <1>1, <1>4, GotoOK DEF Start, TypeOK

(* Installation k of the task, at its first file.                          *)
LEMMA InstOK ==
  ASSUME NEW r, RunOK(r), NEW k \in 1 .. Len(Tasks[r.task]), NEW pc \in PC, NEW b \in BOOLEAN
  PROVE  RunOK([r EXCEPT !.pc = pc, !.inst = k, !.part = 1, !.changed = b])
<1>1. k \in Nat /\ Tasks[r.task][k] \in Inst
  BY PlaybookTables DEF RunOK
<1>2. [r EXCEPT !.pc = pc, !.inst = k, !.part = 1, !.changed = b] \in RunState
  BY <1>1 DEF RunOK, RunState
<1>3. QED
  BY <1>1, <1>2, PlaybookTables DEF RunOK, RunState

LEMMA CheckTypeOK == ASSUME TypeOK, NEW p \in Run, Check(p) PROVE TypeOK'
<1> DEFINE r == run[p]
           c == disk[Cur(r)]["cert"]
           b == r.changed \/ c = Absent \/ Due(c)
           s == [r EXCEPT !.changed = b, !.part = 1]
<1>1. RunOK(r) /\ r \in RunState /\ r.pc \in PC /\ r.changed \in BOOLEAN
  BY DEF TypeOK, RunOK, RunState
<1>2. b \in BOOLEAN
  BY <1>1 DEF Due
<1>3. r.inst \in 1 .. Len(Tasks[r.task]) /\ 1 \in 1 .. Len(Tasks[r.task])
  BY <1>1, PlaybookTables DEF RunOK
<1> HIDE DEF b
<1>4. RunOK(s)
  <2>1. RunOK([r EXCEPT !.pc = r.pc, !.inst = r.inst, !.part = 1, !.changed = b])
    BY <1>1, <1>2, <1>3, InstOK
  <2>2. [r EXCEPT !.pc = r.pc, !.inst = r.inst, !.part = 1, !.changed = b] = s
    BY <1>1 DEF RunState
  <2>3. QED
    BY <2>1, <2>2
<1>5. r.inst < Len(Tasks[r.task]) => RunOK([s EXCEPT !.inst = r.inst + 1])
  <2>1. HAVE r.inst < Len(Tasks[r.task])
  <2>2. r.inst + 1 \in 1 .. Len(Tasks[r.task])
    BY <1>1, <1>3, <2>1, PlaybookTables DEF RunOK
  <2>3. RunOK([r EXCEPT !.pc = r.pc, !.inst = r.inst + 1, !.part = 1, !.changed = b])
    BY <1>1, <1>2, <2>2, InstOK
  <2>4. [r EXCEPT !.pc = r.pc, !.inst = r.inst + 1, !.part = 1, !.changed = b]
          = [s EXCEPT !.inst = r.inst + 1]
    BY <1>1 DEF RunState
  <2>5. QED
    BY <2>3, <2>4
<1>6. RunOK([s EXCEPT !.pc = "enroll", !.inst = 1])
  <2>1. RunOK([r EXCEPT !.pc = "enroll", !.inst = 1, !.part = 1, !.changed = b])
    BY <1>1, <1>2, <1>3, InstOK DEF PC
  <2>2. [r EXCEPT !.pc = "enroll", !.inst = 1, !.part = 1, !.changed = b]
          = [s EXCEPT !.pc = "enroll", !.inst = 1]
    BY <1>1 DEF RunState
  <2>3. QED
    BY <2>1, <2>2
<1>7. PICK q : RunOK(q) /\ Goto(p, q)
  <2>1. RunOK(OnError(r)) /\ RunOK(NextTask(s))
    BY <1>1, <1>4, OnErrorOK, NextTaskOK
  <2>2. \/ Goto(p, OnError(r)) \/ Goto(p, NextTask(s))
        \/ r.inst < Len(Tasks[r.task]) /\ Goto(p, [s EXCEPT !.inst = r.inst + 1])
        \/ Goto(p, [s EXCEPT !.pc = "enroll", !.inst = 1])
    BY DEF Check, b
  <2>3. QED
    BY <2>1, <2>2, <1>5, <1>6
<1>8. QED
  BY <1>7, GotoOK DEF Check, TypeOK

LEMMA EnrollTypeOK == ASSUME TypeOK, NEW p \in Run, Enroll(p) PROVE TypeOK'
<1> DEFINE got == [id |-> issued + 1, issued |-> clock]
           r == [run[p] EXCEPT !.got = got]
<1>1. RunOK(run[p]) /\ got \in Cert
  BY DEF TypeOK, Cert
<1>2. RunOK(r) /\ r.task = run[p].task
  BY <1>1 DEF RunOK, RunState
<1>3. 1 \in 1 .. Len(Tasks[r.task])
  <2>1. r.task \in 1 .. Len(Tasks)
    BY <1>2 DEF RunOK
  <2>2. QED
    BY <2>1, PlaybookTables
<1>4. RunOK(BeginInstaller(r, 1))
  <2> HIDE DEF r
  <2>1. QED
    BY <1>2, <1>3, BeginInstallerOK
<1>5. QED
  BY <1>4, GotoOK DEF Enroll, TypeOK

LEMMA EnrollLostTypeOK == ASSUME TypeOK, NEW p \in Run, EnrollLost(p) PROVE TypeOK'
<1>1. RunOK(OnError(run[p]))
  BY OnErrorOK DEF TypeOK
<1>2. QED
  BY <1>1, GotoOK DEF EnrollLost, TypeOK

(* Writing one file of one installation keeps a table of files well typed. *)
LEMMA FilesOK ==
  ASSUME NEW files \in [Inst -> [Part -> Content]], NEW i \in Inst, NEW x \in Part, NEW c \in Content
  PROVE  [files EXCEPT ![i][x] = c] \in [Inst -> [Part -> Content]]
OBVIOUS

LEMMA OverlaidOK ==
  ASSUME NEW old, NEW new \in Content, NEW c \in Overlaid(old, new)
  PROVE  c \in Content
BY DEF Overlaid, Content

LEMMA BackupTypeOK == ASSUME TypeOK, NEW p \in Run, Backup(p) PROVE TypeOK'
<1> DEFINE r == run[p]
           i == Cur(r)
<1>1. RunOK(r) /\ i \in Inst /\ CurPart(r) \in Part
  BY CurOK DEF TypeOK
<1>2. RunOK([r EXCEPT !.pc = "install"]) /\ RunOK([r EXCEPT !.pc = "copy"])
  BY <1>1, PcOK DEF PC
<1>3. RunOK(NextPart(r, "backup", "install"))
  BY <1>1, NextPartOK DEF PC
<1>4. PICK q : RunOK(q) /\ Goto(p, q)
  BY <1>2, <1>3 DEF Backup
<1>5. bak' \in [Inst -> [Part -> Content]]
  <2>1. [bak EXCEPT ![i][CurPart(r)] = Torn] \in [Inst -> [Part -> Content]]
    BY <1>1, FilesOK DEF TypeOK, Content
  <2>2. QED
    BY <2>1 DEF Backup, TypeOK
<1>6. QED
  BY <1>4, <1>5, GotoOK DEF Backup, TypeOK

LEMMA CopyTypeOK == ASSUME TypeOK, NEW p \in Run, Copy(p) PROVE TypeOK'
<1> DEFINE r == run[p]
           i == Cur(r)
<1>1. RunOK(r) /\ i \in Inst /\ CurPart(r) \in Part
  BY CurOK DEF TypeOK
<1>2. RunOK(NextPart(r, "backup", "install"))
  BY <1>1, NextPartOK DEF PC
<1>3. PICK c \in Overlaid(bak[i][CurPart(r)], disk[i][CurPart(r)]) :
        bak' = [bak EXCEPT ![i][CurPart(r)] = c]
  BY DEF Copy
<1>4. disk[i][CurPart(r)] \in Content
  BY <1>1 DEF TypeOK
<1>5. c \in Content
  BY <1>3, <1>4, OverlaidOK
<1>6. [bak EXCEPT ![i][CurPart(r)] = c] \in [Inst -> [Part -> Content]]
  BY <1>1, <1>5, FilesOK DEF TypeOK
<1>7. QED
  BY <1>2, <1>3, <1>6, GotoOK DEF Copy, TypeOK

LEMMA InstallTypeOK == ASSUME TypeOK, NEW p \in Run, Install(p) PROVE TypeOK'
<1> DEFINE r == run[p]
           i == Cur(r)
<1>1. RunOK(r) /\ i \in Inst /\ CurPart(r) \in Part
  BY CurOK DEF TypeOK
<1>2. RunOK([r EXCEPT !.pc = "write"])
  BY <1>1, PcOK DEF PC
<1>3. [disk EXCEPT ![i][CurPart(r)] = Torn] \in [Inst -> [Part -> Content]]
  BY <1>1, FilesOK DEF TypeOK, Content
<1>4. QED
  BY <1>2, <1>3, GotoOK DEF Install, TypeOK

LEMMA WriteTypeOK == ASSUME TypeOK, NEW p \in Run, Write(p) PROVE TypeOK'
<1> DEFINE r == run[p]
           i == Cur(r)
<1>1. RunOK(r) /\ i \in Inst /\ CurPart(r) \in Part /\ r.got \in Content
  BY CurOK DEF TypeOK, RunOK, RunState, Content
<1>2. RunOK(AfterInstall(r))
  BY <1>1, AfterInstallOK
<1>3. PICK c \in Overlaid(disk[i][CurPart(r)], r.got) :
        disk' = [disk EXCEPT ![i][CurPart(r)] = c]
  BY DEF Write
<1>4. c \in Content
  BY <1>1, <1>3, OverlaidOK
<1>5. [disk EXCEPT ![i][CurPart(r)] = c] \in [Inst -> [Part -> Content]]
  BY <1>1, <1>4, FilesOK DEF TypeOK
<1>6. QED
  BY <1>2, <1>3, <1>5, GotoOK DEF Write, TypeOK

LEMMA AfterTypeOK == ASSUME TypeOK, NEW p \in Run, After(p) PROVE TypeOK'
<1> DEFINE r == run[p]
<1>1. RunOK(r) /\ Cur(r) \in Inst
  BY CurOK DEF TypeOK
<1>2. RunOK(AfterAction(r))
  BY <1>1, AfterActionOK
<1>3. QED
  BY <1>1, <1>2, GotoOK DEF After, TypeOK

LEMMA ValidateTypeOK == ASSUME TypeOK, NEW p \in Run, Validate(p) PROVE TypeOK'
<1>1. RunOK(NextInst(run[p]))
  BY NextInstOK DEF TypeOK
<1>2. QED
  BY <1>1, GotoOK DEF Validate, TypeOK

(* What a fault puts on record: installations of the playbook.             *)
LEMMA RecordOK ==
  ASSUME TypeOK, NEW p \in Run
  PROVE  CutBy(p) \subseteq Inst /\ MissedBy(p) \subseteq Inst
BY CurOK DEF TypeOK, CutBy, MissedBy

LEMMA FailTypeOK == ASSUME TypeOK, NEW p \in Run, Fail(p) PROVE TypeOK'
<1>1. RunOK(OnError(run[p]))
  BY OnErrorOK DEF TypeOK
<1>2. cut' \subseteq Inst /\ missed' \subseteq Inst
  BY RecordOK DEF Fail, TypeOK
<1>3. Goto(p, OnError(run[p]))
  BY DEF Fail
<1>4. /\ run' \in [Run -> RunState] /\ \A q \in Run : RunOK(run'[q])
      /\ ran' \in BOOLEAN
  BY <1>1, <1>3, GotoOK
<1>5. QED
  BY <1>2, <1>4 DEF Fail, TypeOK

LEMMA CrashTypeOK == ASSUME TypeOK, NEW p \in Run, Crash(p) PROVE TypeOK'
<1>1. RunOK(EndRun(TRUE))
  BY EndRunOK
<1>2. cut' \subseteq Inst /\ missed' \subseteq Inst
  BY RecordOK DEF Crash, TypeOK
<1>3. Goto(p, EndRun(TRUE))
  BY DEF Crash
<1>4. /\ run' \in [Run -> RunState] /\ \A q \in Run : RunOK(run'[q])
      /\ ran' \in BOOLEAN
  BY <1>1, <1>3, GotoOK
<1>5. QED
  BY <1>2, <1>4 DEF Crash, TypeOK

LEMMA NextTypeOK == ASSUME TypeOK, [Next]_vars PROVE TypeOK'
<1>1. ASSUME NEW p \in Run, Start(p) \/ Step(p) \/ EnrollLost(p) \/ Fail(p) \/ Crash(p)
      PROVE  TypeOK'
  BY <1>1, StartTypeOK, CheckTypeOK, EnrollTypeOK, BackupTypeOK, CopyTypeOK, InstallTypeOK,
     WriteTypeOK, AfterTypeOK, ValidateTypeOK, EnrollLostTypeOK, FailTypeOK, CrashTypeOK DEF Step
<1>2. CASE Tick
  <2>1. clock' = clock + 1 /\ clock \in Nat
    BY <1>2 DEF Tick, TypeOK
  <2>. ran' \in BOOLEAN
    BY <1>2, Zenon DEF Tick
  <2>2. UNCHANGED <<issued, disk, bak, loaded, cut, missed, faults, run>>
    BY <1>2 DEF Tick
  <2>3. clock' \in Nat
    BY <2>1
  <2>4. QED
    BY <2>2, <2>3 DEF TypeOK
<1>3. CASE UNCHANGED vars
  BY <1>3 DEF vars, TypeOK
<1>4. QED
  BY <1>1, <1>2, <1>3 DEF Next, Horizon

(* Every state of a playbook host is well typed, and a process is always   *)
(* at a file of an installation of a task: the loops of Execute and of the *)
(* installers never leave the tables of the playbook.                      *)
THEOREM TypeCorrect == Spec => []TypeOK
<1>1. Init => TypeOK
  BY InitTypeOK
<1>2. TypeOK /\ [Next]_vars => TypeOK'
  BY NextTypeOK
<1>3. QED
  BY <1>1, <1>2, PTL DEF Spec
-----------------------------------------------------------------------------
(* Whole file sets: FilesUniform for runs that do not overlap, and          *)
(* ServiceCurrent for any number of overlapping runs.                      *)

(* Between two installations a process is at the first file of one, with   *)
(* the certificate it had, or has left the installations of the task.      *)
AtStart(r, got) ==
  \/ r.pc \in {"idle", "check", "enroll"}
  \/ r.pc \in {"backup", "install"} /\ r.part = 1 /\ r.got = got

LEMMA NextTaskAtStart ==
  ASSUME NEW r, RunOK(r)
  PROVE  NextTask(r).pc \in {"idle", "check", "enroll"}
<1>1. r \in RunState
  BY DEF RunOK
<1>2. BeginTask(r, r.task + 1).pc \in {"check", "enroll"}
  BY <1>1 DEF BeginTask, RunState
<1>3. EndRun(r.failed).pc = "idle"
  BY DEF EndRun
<1>4. QED
  BY <1>2, <1>3 DEF NextTask

LEMMA BeginInstallerAtStart ==
  ASSUME NEW r, RunOK(r), NEW k
  PROVE  AtStart(BeginInstaller(r, k), r.got)
<1>1. r \in RunState
  BY DEF RunOK
<1>2. QED
  BY <1>1 DEF BeginInstaller, RunState, AtStart

LEMMA NextInstAtStart == ASSUME NEW r, RunOK(r) PROVE AtStart(NextInst(r), r.got)
BY NextTaskAtStart, BeginInstallerAtStart DEF NextInst, AtStart

LEMMA OnErrorAtStart == ASSUME NEW r, RunOK(r) PROVE AtStart(OnError(r), r.got)
<1> DEFINE f == [r EXCEPT !.failed = TRUE]
<1>1. RunOK(f) /\ f.got = r.got
  BY DEF RunOK, RunState
<1> HIDE DEF f
<1>2. AtStart(NextTask(f), r.got)
  BY <1>1, NextTaskAtStart DEF AtStart
<1>3. AtStart(NextInst(f), r.got)
  BY <1>1, NextInstAtStart
<1>4. QED
  BY <1>2, <1>3 DEF OnError, f

(* At an error before the installations the process has no certificate,    *)
(* and goes to none of them.                                               *)
LEMMA EarlyErrorLeaves ==
  ASSUME NEW r, RunOK(r), r.pc \in {"check", "enroll"}
  PROVE  OnError(r).pc \in {"idle", "check", "enroll"}
<1> DEFINE f == [r EXCEPT !.failed = TRUE]
<1>1. RunOK(f)
  BY DEF RunOK, RunState
<1> HIDE DEF f
<1>2. NextTask(f).pc \in {"idle", "check", "enroll"}
  BY <1>1, NextTaskAtStart
<1>3. QED
  BY <1>2 DEF OnError, f

(* A process that starts an installation, or none, has written nothing of  *)
(* it, and its progress is sound if it has a certificate.                  *)
LEMMA AtStartProgress ==
  ASSUME NEW r, RunOK(r), NEW got, AtStart(r, got), NEW files,
         got \in Cert \/ r.pc \in {"idle", "check", "enroll"}
  PROVE  Progress(r, files)
<1>1. r.pc \in Installing => r.got \in Cert
  BY DEF AtStart, Installing
<1>2. r.pc # "write" /\ (r.pc = "install" => r.part = 1)
  BY DEF AtStart
<1>3. QED
  BY <1>1, <1>2 DEF Progress

(* Installations.  The rest of the invariant in terms of one step: a step  *)
(* of p that leaves the files alone, keeps what is on record and ends no   *)
(* writing unrecorded keeps the file sets uniform.                         *)
LEMMA QuietStep ==
  ASSUME FilesUniform, UNCHANGED disk, cut \subseteq cut',
         \A q \in Run, i \in Inst : Writing(q, i) => Writing(q, i)' \/ i \in cut'
  PROVE  FilesUniform'
<1> SUFFICES ASSUME NEW i \in Inst
             PROVE  i \in cut' \/ Uniform(disk[i], i)' \/ \E q \in Run : Writing(q, i)'
  BY DEF FilesUniform
<1>1. Uniform(disk[i], i) => Uniform(disk[i], i)'
  BY DEF Uniform, Parts
<1>2. QED
  BY <1>1 DEF FilesUniform

(* A process that steps to r leaves no other process active.               *)
LEMMA OthersIdle ==
  ASSUME TypeOK, OneActive, NEW p \in Run, Active(p), NEW r, RunOK(r), Goto(p, r)
  PROVE  /\ OneActive'
         /\ \A q \in Run \ {p} : run[q].pc = "idle" /\ run'[q] = run[q]
         /\ run'[p] = r
<1>1. run'[p] = r /\ \A q \in Run \ {p} : run'[q] = run[q]
  BY GotoOK
<1>2. \A q \in Run \ {p} : run[q].pc = "idle"
  BY DEF OneActive, Active
<1>3. \A q \in Run \ {p} : run'[q].pc = "idle"
  BY <1>1, <1>2
<1>4. OneActive'
  BY <1>3 DEF OneActive, Active
<1>5. QED
  BY <1>1, <1>2, <1>4

(* What is left to show of a step of p: its progress, and the file sets.   *)
LEMMA StepInv ==
  ASSUME FilesInv, TypeOK', NEW p \in Run, Active(p), NEW r, RunOK(r), Goto(p, r),
         Progress(r, disk'), FilesUniform'
  PROVE  FilesInv'
<1>1. /\ OneActive' /\ run'[p] = r
      /\ \A q \in Run \ {p} : run[q].pc = "idle" /\ run'[q] = run[q]
  BY OthersIdle DEF FilesInv
<1>2. \A q \in Run \ {p} : Progress(run'[q], disk')
  BY <1>1 DEF Progress, Installing
<1>3. \A q \in Run : Progress(run'[q], disk')
  BY <1>1, <1>2
<1>4. QED
  BY <1>1, <1>3 DEF FilesInv

(* A step of p that leaves the files alone, from a position where p is not *)
(* writing or with what it was writing put on record.                      *)
LEMMA QuietStepOfRun ==
  ASSUME FilesInv, TypeOK', NEW p \in Run, Active(p), NEW r, RunOK(r), Goto(p, r),
         Progress(r, disk'), UNCHANGED disk, cut \subseteq cut', CutBy(p) \subseteq cut'
  PROVE  FilesInv'
<1>1. \A q \in Run \ {p} : run[q].pc = "idle"
  BY OthersIdle DEF FilesInv
<1>2. \A q \in Run, i \in Inst : Writing(q, i) => i \in cut'
  BY <1>1 DEF Writing, CutBy
<1>3. FilesUniform'
  BY <1>2, QuietStep DEF FilesInv
<1>4. QED
  BY <1>3, StepInv

(* A process has its certificate from the enrollment to the last           *)
(* installation.                                                           *)
LEMMA HasCert ==
  ASSUME FilesInv, NEW p \in Run
  PROVE  /\ RunOK(run[p]) /\ run[p] \in RunState
         /\ run[p].pc \in Installing => run[p].got \in Cert
BY DEF FilesInv, TypeOK, RunOK, Progress

LEMMA InitFilesInv == Init => FilesInv
<1> SUFFICES ASSUME Init PROVE FilesInv
  OBVIOUS
<1>1. TypeOK
  BY InitTypeOK
<1>2. \A p \in Run : run[p].pc = "idle"
  BY DEF Init, EndRun
<1>3. OneActive
  BY <1>2 DEF OneActive, Active
<1>4. \A p \in Run : Progress(run[p], disk)
  BY <1>2 DEF Progress, Installing
<1>5. FilesUniform
  <2> DEFINE first == [id |-> 1, issued |-> 0]
             Files(i) == [x \in Part |-> IF i \in Installed /\ x \in Parts(i) THEN first ELSE Absent]
  <2> SUFFICES ASSUME NEW i \in Inst PROVE Uniform(disk[i], i)
    BY DEF FilesUniform
  <2>1. disk[i] = Files(i)
    BY DEF Init
  <2>2. \A x \in Parts(i) : x \in Part
    BY PlaybookTables DEF Parts
  <2>3. first \in Cert /\ Torn # first /\ Torn # Absent
    <3>1. first \in Cert
      BY DEF Cert
    <3>2. QED
      BY <3>1, ConstantsAssumption
  <2>4. \A x, y \in Parts(i) : Files(i)[x] = Files(i)[y] /\ Files(i)[x] # Torn
    BY <2>2, <2>3
  <2>5. QED
    BY <2>1, <2>4 DEF Uniform
<1>6. QED
  BY <1>1, <1>3, <1>4, <1>5 DEF FilesInv

LEMMA StartFilesInv ==
  ASSUME Exclusive, FilesInv, TypeOK', NEW p \in Run, Start(p) PROVE FilesInv'
<1>1. PICK f \in ForceRenew : Goto(p, BeginTask([EndRun(FALSE) EXCEPT !.force = f], 1))
  BY DEF Start
<1> DEFINE e == [EndRun(FALSE) EXCEPT !.force = f]
           r == BeginTask(e, 1)
<1>2. RunOK(e) /\ f \in BOOLEAN
  BY ConstantsAssumption, EndRunOK DEF RunOK, RunState
<1>3. RunOK(r) /\ r.pc \in {"check", "enroll"}
  <2>1. e \in RunState /\ 1 \in 1 .. Len(Tasks)
    BY <1>2, PlaybookTables DEF RunOK
  <2> HIDE DEF e
  <2>2. RunOK(r)
    BY <1>2, <2>1, BeginTaskOK
  <2>3. r.pc \in {"check", "enroll"}
    BY <2>1 DEF BeginTask, RunState
  <2>4. QED
    BY <2>2, <2>3
<1> HIDE DEF r
<1>4. \A q \in Run : run[q].pc = "idle"
  BY DEF Start, Active
<1>5. run'[p] = r /\ \A q \in Run \ {p} : run'[q].pc = "idle"
  BY <1>1, <1>3, <1>4, GotoOK DEF FilesInv, r
<1>6. OneActive'
  BY <1>5 DEF OneActive, Active
<1>7. \A q \in Run : Progress(run'[q], disk')
  BY <1>3, <1>5 DEF Progress, Installing
<1>8. \A q \in Run, i \in Inst : ~Writing(q, i)
  BY <1>4 DEF Writing
<1>9. FilesUniform'
  BY <1>8, QuietStep DEF Start, FilesInv
<1>10. QED
  BY <1>6, <1>7, <1>9 DEF FilesInv

LEMMA CheckFilesInv ==
  ASSUME FilesInv, TypeOK', NEW p \in Run, Check(p) PROVE FilesInv'
<1> DEFINE r == run[p]
           c == disk[Cur(r)]["cert"]
           b == r.changed \/ c = Absent \/ Due(c)
           s == [r EXCEPT !.changed = b, !.part = 1]
<1>1. RunOK(r) /\ r \in RunState /\ r.pc = "check" /\ Active(p)
  BY HasCert DEF Check, Active
<1>2. PICK n : n.pc \in {"idle", "check", "enroll"} /\ Goto(p, n)
  <2> DEFINE next == [s EXCEPT !.inst = r.inst + 1]
             enroll == [s EXCEPT !.pc = "enroll", !.inst = 1]
  <2> HIDE DEF b
  <2>1. next.pc = "check"
    BY <1>1 DEF RunState
  <2>2. enroll.pc = "enroll"
    BY <1>1 DEF RunState
  <2>3. OnError(r).pc \in {"idle", "check", "enroll"}
    BY <1>1, EarlyErrorLeaves
  <2>4. NextTask(s).pc \in {"idle", "check", "enroll"}
    <3>1. BeginTask(s, s.task + 1).pc \in {"check", "enroll"}
      BY <1>1 DEF BeginTask, RunState
    <3>2. EndRun(s.failed).pc = "idle"
      BY DEF EndRun
    <3>3. QED
      BY <3>1, <3>2 DEF NextTask
  <2>5. \/ Goto(p, OnError(r)) \/ Goto(p, NextTask(s))
        \/ Goto(p, next) \/ Goto(p, enroll)
    BY DEF Check, b
  <2> HIDE DEF s, next, enroll
  <2>6. QED
    BY <2>1, <2>2, <2>3, <2>4, <2>5
<1>3. run'[p] = n
  BY <1>2 DEF Goto, FilesInv, TypeOK
<1>4. RunOK(n)
  BY <1>3 DEF TypeOK
<1>5. Progress(n, disk')
  BY <1>2 DEF Progress, Installing
<1>6. CutBy(p) = {}
  BY <1>1 DEF CutBy, Writing
<1>7. QED
  BY <1>1, <1>2, <1>4, <1>5, <1>6, QuietStepOfRun DEF Check

LEMMA EnrollFilesInv ==
  ASSUME FilesInv, TypeOK', NEW p \in Run, Enroll(p) PROVE FilesInv'
<1> DEFINE got == [id |-> issued + 1, issued |-> clock]
           r == [run[p] EXCEPT !.got = got]
           n == BeginInstaller(r, 1)
<1>1. RunOK(run[p]) /\ run[p].pc = "enroll" /\ Active(p)
  BY HasCert DEF Enroll, Active
<1>2. got \in Cert
  BY DEF FilesInv, TypeOK, Cert
<1> HIDE DEF got
<1>3. RunOK(r) /\ r.got = got
  BY <1>1, <1>2 DEF RunOK, RunState
<1>4. AtStart(n, got)
  <2> HIDE DEF r
  <2>1. QED
    BY <1>3, BeginInstallerAtStart
<1>5. Goto(p, n)
  BY DEF Enroll, got
<1> HIDE DEF n
<1>6. run'[p] = n
  BY <1>5 DEF Goto, FilesInv, TypeOK
<1>7. RunOK(n)
  BY <1>6 DEF TypeOK
<1>8. Progress(n, disk')
  BY <1>2, <1>4, <1>7, AtStartProgress
<1>9. CutBy(p) = {}
  BY <1>1 DEF CutBy, Writing
<1>10. UNCHANGED <<disk, cut>>
  BY DEF Enroll
<1>11. QED
  BY <1>1, <1>5, <1>7, <1>8, <1>9, <1>10, QuietStepOfRun

LEMMA BackupFilesInv ==
  ASSUME FilesInv, TypeOK', NEW p \in Run, Backup(p) PROVE FilesInv'
<1> DEFINE r == run[p]
<1>1. RunOK(r) /\ r \in RunState /\ r.pc = "backup" /\ Active(p) /\ r.got \in Cert
  BY HasCert DEF Backup, Active, Installing
<1>2. r.part \in Nat
  BY <1>1 DEF RunState
<1>3. PICK n : /\ Goto(p, n) /\ n.got = r.got
               /\ n.pc = "install" => n.part = 1
               /\ n.pc \in {"install", "backup", "copy"}
  <2>1. r.part = 1 => [r EXCEPT !.pc = "install"].part = 1
    BY <1>1 DEF RunState
  <2>2. /\ [r EXCEPT !.pc = "install"].got = r.got /\ [r EXCEPT !.pc = "install"].pc = "install"
        /\ [r EXCEPT !.pc = "copy"].got = r.got /\ [r EXCEPT !.pc = "copy"].pc = "copy"
    BY <1>1 DEF RunState
  <2>3. /\ NextPart(r, "backup", "install").got = r.got
        /\ NextPart(r, "backup", "install").pc \in {"install", "backup"}
        /\ NextPart(r, "backup", "install").pc = "install" =>
             NextPart(r, "backup", "install").part = 1
    BY <1>1 DEF NextPart, RunState
  <2>4. \/ r.part = 1 /\ Goto(p, [r EXCEPT !.pc = "install"])
        \/ Goto(p, NextPart(r, "backup", "install"))
        \/ Goto(p, [r EXCEPT !.pc = "copy"])
    BY DEF Backup
  <2>5. QED
    BY <2>1, <2>2, <2>3, <2>4
<1>4. run'[p] = n
  BY <1>3 DEF Goto, FilesInv, TypeOK
<1>5. RunOK(n)
  BY <1>4 DEF TypeOK
<1>6. Progress(n, disk')
  BY <1>1, <1>3 DEF Progress
<1>7. CutBy(p) = {}
  BY <1>1 DEF CutBy, Writing
<1>8. UNCHANGED <<disk, cut>>
  BY DEF Backup
<1>9. QED
  BY <1>1, <1>3, <1>5, <1>6, <1>7, <1>8, QuietStepOfRun

LEMMA CopyFilesInv ==
  ASSUME FilesInv, TypeOK', NEW p \in Run, Copy(p) PROVE FilesInv'
<1> DEFINE r == run[p]
           n == NextPart(r, "backup", "install")
<1>1. RunOK(r) /\ r \in RunState /\ r.pc = "copy" /\ Active(p) /\ r.got \in Cert
  BY HasCert DEF Copy, Active, Installing
<1>2. n.got = r.got /\ (n.pc = "install" => n.part = 1) /\ n.pc \in {"install", "backup"}
  BY <1>1 DEF NextPart, RunState
<1>3. Goto(p, n) /\ UNCHANGED <<disk, cut>>
  BY DEF Copy
<1> HIDE DEF n
<1>4. run'[p] = n
  BY <1>3 DEF Goto, FilesInv, TypeOK
<1>5. RunOK(n)
  BY <1>4 DEF TypeOK
<1>6. Progress(n, disk')
  BY <1>1, <1>2 DEF Progress
<1>7. CutBy(p) = {}
  BY <1>1 DEF CutBy, Writing
<1>8. QED
  BY <1>1, <1>3, <1>5, <1>6, <1>7, QuietStepOfRun

(* A step of p that touches the files of its installation only.            *)
LEMMA OtherInstallations ==
  ASSUME FilesInv, NEW p \in Run, Active(p), NEW n, RunOK(n), Goto(p, n),
         NEW i \in Inst, i = Cur(run[p]), NEW x \in Part, NEW c,
         disk' = [disk EXCEPT ![i][x] = c], cut \ {i} \subseteq cut',
         Uniform(disk[i], i)' \/ Writing(p, i)'
  PROVE  FilesUniform'
<1> SUFFICES ASSUME NEW j \in Inst
             PROVE  j \in cut' \/ Uniform(disk[j], j)' \/ \E q \in Run : Writing(q, j)'
  BY DEF FilesUniform
<1>1. CASE j = i
  BY <1>1
<1>2. CASE j # i
  <2>1. disk'[j] = disk[j]
    BY <1>2 DEF FilesInv, TypeOK
  <2>2. \A q \in Run \ {p} : run[q].pc = "idle"
    BY OthersIdle DEF FilesInv
  <2>3. \A q \in Run : ~Writing(q, j)
    BY <1>2, <2>2 DEF Writing
  <2>4. QED
    BY <1>2, <2>1, <2>3 DEF FilesInv, FilesUniform, Uniform, Parts
<1>3. QED
  BY <1>1, <1>2

LEMMA InstallFilesInv ==
  ASSUME FilesInv, TypeOK', NEW p \in Run, Install(p) PROVE FilesInv'
<1>0. PICK i : i = Cur(run[p])
  OBVIOUS
<1> DEFINE r == run[p]
           n == [r EXCEPT !.pc = "write"]
           parts == Conf[i].parts
<1>1. /\ RunOK(r) /\ r \in RunState /\ r.pc = "install" /\ Active(p)
      /\ i \in Inst /\ CurPart(r) \in Part /\ r.part \in 1 .. Len(parts)
  BY <1>0, HasCert, CurOK DEF Install, Active
<1>2. Goto(p, n) /\ disk' = [disk EXCEPT ![i][CurPart(r)] = Torn] /\ cut' = cut
  BY <1>0 DEF Install
<1>3. /\ n.pc = "write" /\ n.task = r.task /\ n.inst = r.inst /\ n.part = r.part
      /\ n.got = r.got /\ Cur(n) = i
  BY <1>0, <1>1 DEF RunState, Cur
<1> HIDE DEF n
<1>4. run'[p] = n
  BY <1>2 DEF Goto, FilesInv, TypeOK
<1>5. RunOK(n)
  BY <1>4 DEF TypeOK
<1>6. Progress(n, disk')
  <2>1. r.got \in Cert
    BY <1>1, HasCert DEF Installing
  <2>2. ASSUME NEW k \in 1 .. (r.part - 1)
        PROVE  disk'[i][parts[k]] = r.got
    <3>1. k \in 1 .. Len(parts) /\ k # r.part /\ Len(parts) \in Nat
      BY <1>1, PlaybookTables
    <3>2. parts[k] # CurPart(r) /\ parts[k] \in Part
      BY <1>0, <1>1, <3>1, DistinctFilesAssumption, PlaybookTables DEF CurPart
    <3>3. disk[i][parts[k]] = r.got
      BY <1>0, <1>1 DEF FilesInv, Progress
    <3>4. disk[i] \in [Part -> Content] /\ disk \in [Inst -> [Part -> Content]]
      BY <1>1 DEF FilesInv, TypeOK
    <3>5. QED
      BY <1>1, <1>2, <3>2, <3>3, <3>4
  <2>3. disk'[i][CurPart(r)] = Torn /\ CurPart(n) = CurPart(r)
    BY <1>0, <1>1, <1>2, <1>3 DEF FilesInv, TypeOK, CurPart
  <2>4. QED
    BY <1>3, <2>1, <2>2, <2>3 DEF Progress
<1>7. FilesUniform'
  <2>1. Writing(p, i)'
    BY <1>3, <1>4 DEF Writing
  <2>2. cut \ {i} \subseteq cut'
    BY <1>2
  <2>3. QED
    BY <1>0, <1>1, <1>2, <1>5, <2>1, <2>2, OtherInstallations
<1>8. QED
  BY <1>1, <1>2, <1>5, <1>6, <1>7, StepInv

LEMMA WriteFilesInv ==
  ASSUME FilesInv, TypeOK', NEW p \in Run, Write(p) PROVE FilesInv'
<1>0. PICK i : i = Cur(run[p])
  OBVIOUS
<1> DEFINE r == run[p]
           n == AfterInstall(r)
           parts == Conf[i].parts
<1>1. /\ RunOK(r) /\ r \in RunState /\ r.pc = "write" /\ Active(p)
      /\ i \in Inst /\ CurPart(r) \in Part /\ r.part \in 1 .. Len(parts)
      /\ Len(parts) \in Nat /\ r.got \in Cert
  BY <1>0, HasCert, CurOK, PlaybookTables DEF Write, Active, Installing
<1>2. /\ Goto(p, n) /\ disk' = [disk EXCEPT ![i][CurPart(r)] = r.got]
      /\ cut' = IF LastPart(r) THEN cut \ {i} ELSE cut
  <2>1. disk[i][CurPart(r)] = Torn
    BY <1>0, <1>1 DEF FilesInv, Progress
  <2>2. Overlaid(disk[i][CurPart(r)], r.got) = {r.got}
    BY <2>1 DEF Overlaid
  <2>3. QED
    BY <1>0, <2>2 DEF Write
<1>3. run'[p] = n
  BY <1>2 DEF Goto, FilesInv, TypeOK
<1>4. RunOK(n)
  BY <1>3 DEF TypeOK
<1>5. \A k \in 1 .. r.part : disk'[i][parts[k]] = r.got
  <2>1. disk[i] \in [Part -> Content] /\ disk \in [Inst -> [Part -> Content]]
    BY <1>1 DEF FilesInv, TypeOK
  <2>2. ASSUME NEW k \in 1 .. r.part
        PROVE  disk'[i][parts[k]] = r.got
    <3>1. k \in 1 .. Len(parts) /\ parts[k] \in Part /\ (k # r.part => k \in 1 .. (r.part - 1))
      BY <1>1, PlaybookTables
    <3>2. k # r.part => disk[i][parts[k]] = r.got
      BY <1>0, <1>1, <3>1 DEF FilesInv, Progress
    <3>3. CASE k = r.part
      BY <1>0, <1>1, <1>2, <2>1, <3>3 DEF CurPart
    <3>4. CASE k # r.part
      BY <1>1, <1>2, <2>1, <3>1, <3>2, <3>4
    <3>5. QED
      BY <3>3, <3>4
  <2>3. QED
    BY <2>2
<1>6. Progress(n, disk') /\ (Uniform(disk[i], i)' \/ Writing(p, i)')
  <2>1. CASE ~LastPart(r)
    <3>1. n.pc = "install" /\ n.part = r.part + 1 /\ n.got = r.got /\ Cur(n) = i
      BY <1>0, <1>1, <2>1 DEF AfterInstall, RunState, Cur
    <3>2. n.part - 1 = r.part /\ n.part > 1
      BY <1>1, <3>1
    <3>3. Progress(n, disk')
      BY <1>1, <1>5, <3>1, <3>2 DEF Progress
    <3>4. Writing(p, i)'
      BY <1>3, <3>1, <3>2 DEF Writing
    <3>5. QED
      BY <3>3, <3>4
  <2>2. CASE LastPart(r)
    <3>1. r.part = Len(parts) /\ r.got # Torn
      BY <1>0, <1>1, <2>2, ConstantsAssumption DEF LastPart
    <3>2. \A y \in Parts(i) : disk'[i][y] = r.got
      BY <1>5, <3>1 DEF Parts
    <3>3. Uniform(disk'[i], i)
      BY <3>1, <3>2 DEF Uniform
    <3>4. Progress(n, disk')
      <4>1. CASE Conf[Cur(r)].after
        <5>1. n.pc = "after" /\ n.got = r.got
          BY <1>1, <2>2, <4>1 DEF AfterInstall, RunState
        <5>2. QED
          BY <1>1, <5>1 DEF Progress
      <4>2. CASE ~Conf[Cur(r)].after
        <5>1. n = NextInst(r)
          BY <2>2, <4>2 DEF AfterInstall
        <5>2. QED
          BY <1>1, <1>4, <5>1, NextInstAtStart, AtStartProgress
      <4>3. QED
        BY <4>1, <4>2
    <3>5. Uniform(disk[i], i)'
      BY <3>3 DEF Uniform, Parts
    <3>6. QED
      BY <3>4, <3>5
  <2>3. QED
    BY <2>1, <2>2
<1> HIDE DEF n
<1>7. FilesUniform'
  <2>1. cut \ {i} \subseteq cut'
    BY <1>2
  <2>2. QED
    BY <1>0, <1>1, <1>2, <1>4, <1>6, <2>1, OtherInstallations
<1>8. QED
  BY <1>1, <1>2, <1>4, <1>6, <1>7, StepInv

(* A step from a position where p is not writing, or with p's writing put  *)
(* on record, to the start of an installation or out of them.              *)
LEMMA LeaveInv ==
  ASSUME FilesInv, TypeOK', NEW p \in Run, Active(p), NEW n, Goto(p, n),
         AtStart(n, run[p].got), run[p].pc \in Installing \/ n.pc \in {"idle", "check", "enroll"},
         UNCHANGED disk, cut \subseteq cut', CutBy(p) \subseteq cut'
  PROVE  FilesInv'
<1>1. run'[p] = n
  BY DEF Goto, FilesInv, TypeOK
<1>2. RunOK(n)
  BY <1>1 DEF TypeOK
<1>3. run[p].pc \in Installing => run[p].got \in Cert
  BY HasCert
<1>4. Progress(n, disk')
  BY <1>2, <1>3, AtStartProgress
<1>5. QED
  BY <1>2, <1>4, QuietStepOfRun

LEMMA AfterFilesInv ==
  ASSUME FilesInv, TypeOK', NEW p \in Run, After(p) PROVE FilesInv'
<1> DEFINE r == run[p]
           n == AfterAction(r)
<1>1. /\ RunOK(r) /\ r \in RunState /\ r.pc = "after" /\ Active(p) /\ r.got \in Cert
  BY HasCert DEF After, Active, Installing
<1>2. Goto(p, n) /\ UNCHANGED <<disk, cut>>
  BY DEF After
<1>3. CutBy(p) = {}
  BY <1>1 DEF CutBy, Writing
<1>4. CASE Conf[Cur(r)].validate
  <2>1. n.pc = "validate" /\ n.got = r.got
    BY <1>1, <1>4 DEF AfterAction, RunState
  <2>2. Progress(n, disk')
    BY <1>1, <2>1 DEF Progress
  <2> HIDE DEF n
  <2>3. run'[p] = n
    BY <1>2 DEF Goto, FilesInv, TypeOK
  <2>4. RunOK(n)
    BY <2>3 DEF TypeOK
  <2>5. QED
    BY <1>1, <1>2, <1>3, <2>2, <2>4, QuietStepOfRun
<1>5. CASE ~Conf[Cur(r)].validate
  <2>1. Goto(p, NextInst(r))
    BY <1>2, <1>5 DEF AfterAction
  <2>2. AtStart(NextInst(r), r.got) /\ r.pc \in Installing
    BY <1>1, NextInstAtStart DEF Installing
  <2>3. QED
    BY <1>1, <1>2, <1>3, <2>1, <2>2, LeaveInv
<1>6. QED
  BY <1>4, <1>5

LEMMA ValidateFilesInv ==
  ASSUME FilesInv, TypeOK', NEW p \in Run, Validate(p) PROVE FilesInv'
<1>1. RunOK(run[p]) /\ run[p].pc = "validate" /\ Active(p)
  BY HasCert DEF Validate, Active
<1>2. Goto(p, NextInst(run[p])) /\ UNCHANGED <<disk, cut>>
  BY DEF Validate
<1>3. CutBy(p) = {} /\ run[p].pc \in Installing
  BY <1>1 DEF CutBy, Writing, Installing
<1>4. QED
  BY <1>1, <1>2, <1>3, NextInstAtStart, LeaveInv

LEMMA EnrollLostFilesInv ==
  ASSUME FilesInv, TypeOK', NEW p \in Run, EnrollLost(p) PROVE FilesInv'
<1>1. RunOK(run[p]) /\ run[p].pc = "enroll" /\ Active(p)
  BY HasCert DEF EnrollLost, Active
<1>2. Goto(p, OnError(run[p])) /\ UNCHANGED <<disk, cut>>
  BY DEF EnrollLost
<1>3. CutBy(p) = {}
  BY <1>1 DEF CutBy, Writing
<1>4. OnError(run[p]).pc \in {"idle", "check", "enroll"}
  BY <1>1, EarlyErrorLeaves
<1>5. QED
  BY <1>1, <1>2, <1>3, <1>4, OnErrorAtStart, LeaveInv

LEMMA FailFilesInv ==
  ASSUME FilesInv, TypeOK', NEW p \in Run, Fail(p) PROVE FilesInv'
<1>1. RunOK(run[p]) /\ Active(p) /\ run[p] \in RunState
  BY HasCert DEF Fail
<1>2. Goto(p, OnError(run[p])) /\ UNCHANGED disk
  BY DEF Fail
<1>3. cut \subseteq cut' /\ CutBy(p) \subseteq cut'
  BY DEF Fail
<1>4. run[p].pc \in Installing \/ OnError(run[p]).pc \in {"idle", "check", "enroll"}
  <2>1. run[p].pc \in Installing \/ run[p].pc \in {"check", "enroll"}
    BY <1>1 DEF RunState, PC, Active, Installing
  <2>2. QED
    BY <1>1, <2>1, EarlyErrorLeaves
<1>5. QED
  BY <1>1, <1>2, <1>3, <1>4, OnErrorAtStart, LeaveInv

LEMMA CrashFilesInv ==
  ASSUME FilesInv, TypeOK', NEW p \in Run, Crash(p) PROVE FilesInv'
<1>1. Active(p) /\ Goto(p, EndRun(TRUE)) /\ UNCHANGED disk
  BY DEF Crash
<1>2. cut \subseteq cut' /\ CutBy(p) \subseteq cut'
  BY DEF Crash
<1>3. EndRun(TRUE).pc = "idle"
  BY DEF EndRun
<1>4. AtStart(EndRun(TRUE), run[p].got)
  BY <1>3 DEF AtStart
<1>5. QED
  BY <1>1, <1>2, <1>3, <1>4, LeaveInv

LEMMA NextFilesInv == ASSUME Exclusive, FilesInv, [Next]_vars PROVE FilesInv'
<1>1. TypeOK'
  BY NextTypeOK DEF FilesInv
<1>2. ASSUME NEW p \in Run, Start(p) \/ Step(p) \/ EnrollLost(p) \/ Fail(p) \/ Crash(p)
      PROVE  FilesInv'
  BY <1>1, <1>2, StartFilesInv, CheckFilesInv, EnrollFilesInv, BackupFilesInv, CopyFilesInv,
     InstallFilesInv, WriteFilesInv, AfterFilesInv, ValidateFilesInv, EnrollLostFilesInv,
     FailFilesInv, CrashFilesInv DEF Step
<1>3. CASE UNCHANGED <<disk, cut, run>>
  BY <1>1, <1>3 DEF FilesInv, OneActive, Active, Progress, FilesUniform, Uniform, Writing, Parts
<1>4. CASE Tick
  BY <1>3, <1>4 DEF Tick
<1>5. CASE UNCHANGED vars
  BY <1>3, <1>5 DEF vars
<1>6. QED
  BY <1>2, <1>4, <1>5 DEF Next, Horizon

(* Whatever the playbook, the faults, the order of its tasks and the       *)
(* options of its runs: when runs do not overlap, an installation whose    *)
(* last replacement was not stopped half way holds the certificate, the    *)
(* key and the chain of one enrollment, at every moment but while a run is *)
(* writing them.                                                           *)
THEOREM FilesStayWhole == ASSUME Exclusive PROVE Spec => []FilesUniform
<1>1. Init => FilesInv
  BY InitFilesInv
<1>2. FilesInv /\ [Next]_vars => FilesInv'
  BY NextFilesInv
<1>3. FilesInv => FilesUniform
  BY DEF FilesInv
<1>4. QED
  BY <1>1, <1>2, <1>3, PTL DEF Spec

(* A step of p that leaves files and services alone, and ends no way to an *)
(* afterInstallAction unrecorded.                                          *)
LEMMA ServiceQuietStep ==
  ASSUME TypeOK, ServiceCurrent, NEW p \in Run, NEW n, RunOK(n), Goto(p, n),
         UNCHANGED <<disk, loaded>>, cut \subseteq cut', missed \subseteq missed',
         \A i \in Inst : Pending(p, i) => i \in cut' \/ i \in missed'
  PROVE  ServiceCurrent'
<1>1. \A q \in Run \ {p}, i \in Inst : Pending(q, i) => Pending(q, i)'
  BY GotoOK DEF Pending, Writing
<1>2. QED
  BY <1>1 DEF ServiceCurrent

(* A step of p at installation i that changes nothing of the others.       *)
LEMMA ServiceOthers ==
  ASSUME TypeOK, ServiceCurrent, NEW p \in Run, NEW n, RunOK(n), Goto(p, n),
         NEW i, i = Cur(run[p]),
         \A j \in Inst \ {i} : disk'[j] = disk[j] /\ loaded'[j] = loaded[j],
         cut \ {i} \subseteq cut', missed \ {i} \subseteq missed',
         Conf[i].after => loaded'[i] = disk'[i] \/ Pending(p, i)'
  PROVE  ServiceCurrent'
<1>1. \A q \in Run \ {p}, j \in Inst : Pending(q, j) => Pending(q, j)'
  BY GotoOK DEF Pending, Writing
<1>2. \A j \in Inst \ {i} : ~Pending(p, j)
  BY DEF Pending, Writing
<1>3. ASSUME NEW j \in Inst, Conf[j].after
      PROVE  loaded'[j] = disk'[j] \/ j \in cut' \/ j \in missed' \/ \E q \in Run : Pending(q, j)'
  <2>1. CASE j = i
    BY <1>3, <2>1
  <2>2. CASE j # i
    BY <1>1, <1>2, <1>3, <2>2 DEF ServiceCurrent
  <2>3. QED
    BY <2>1, <2>2
<1>4. QED
  BY <1>3 DEF ServiceCurrent

(* A process that is not between an install and an afterInstallAction.     *)
LEMMA NothingPending ==
  ASSUME NEW p \in Run, run[p].pc \notin {"install", "write", "after"}
  PROVE  \A i \in Inst : ~Pending(p, i)
BY DEF Pending, Writing

LEMMA InstallServiceCurrent ==
  ASSUME TypeOK, TypeOK', ServiceCurrent, NEW p \in Run, Install(p) PROVE ServiceCurrent'
<1>0. PICK i : i = Cur(run[p])
  OBVIOUS
<1> DEFINE n == [run[p] EXCEPT !.pc = "write"]
<1>1. RunOK(run[p]) /\ i \in Inst /\ run[p] \in RunState
  BY <1>0, CurOK DEF TypeOK
<1>2. Goto(p, n) /\ UNCHANGED <<loaded, cut, missed>>
  BY DEF Install
<1>3. n.pc = "write" /\ Cur(n) = i
  BY <1>0, <1>1 DEF RunState, Cur
<1>4. \A j \in Inst \ {i} : disk'[j] = disk[j]
  BY <1>0, <1>1 DEF Install, TypeOK
<1> HIDE DEF n
<1>5. run'[p] = n
  BY <1>2 DEF Goto, TypeOK
<1>6. RunOK(n)
  BY <1>5 DEF TypeOK
<1>7. Pending(p, i)'
  BY <1>3, <1>5 DEF Pending, Writing
<1>8. \A j \in Inst \ {i} : disk'[j] = disk[j] /\ loaded'[j] = loaded[j]
  BY <1>2, <1>4
<1>9. cut \ {i} \subseteq cut' /\ missed \ {i} \subseteq missed'
  BY <1>2
<1>10. QED
  BY <1>0, <1>2, <1>6, <1>7, <1>8, <1>9, ServiceOthers

LEMMA WriteServiceCurrent ==
  ASSUME TypeOK, TypeOK', ServiceCurrent, NEW p \in Run, Write(p) PROVE ServiceCurrent'
<1>0. PICK i : i = Cur(run[p])
  OBVIOUS
<1> DEFINE r == run[p]
           n == AfterInstall(r)
<1>1. RunOK(r) /\ i \in Inst /\ r \in RunState /\ r.part \in Nat /\ r.part > 0
  BY <1>0, CurOK, PlaybookTables DEF TypeOK, RunOK
<1>2. Goto(p, n) /\ UNCHANGED <<loaded, missed>>
  BY DEF Write
<1>3. cut \ {i} \subseteq cut' /\ missed \ {i} \subseteq missed'
  BY <1>0 DEF Write
<1>4. \A j \in Inst \ {i} : disk'[j] = disk[j] /\ loaded'[j] = loaded[j]
  BY <1>0, <1>1 DEF Write, TypeOK
<1>5. run'[p] = n
  BY <1>2 DEF Goto, TypeOK
<1>6. RunOK(n)
  BY <1>5 DEF TypeOK
<1>7. ASSUME Conf[i].after
      PROVE  Pending(p, i)'
  <2>1. CASE ~LastPart(r)
    <3>1. n.pc = "install" /\ n.part = r.part + 1 /\ Cur(n) = i
      BY <1>0, <1>1, <2>1 DEF AfterInstall, RunState, Cur
    <3>2. n.part > 1
      BY <1>1, <3>1
    <3>3. QED
      BY <1>5, <3>1, <3>2 DEF Pending, Writing
  <2>2. CASE LastPart(r)
    <3>1. n.pc = "after" /\ Cur(n) = i
      BY <1>0, <1>1, <1>7, <2>2 DEF AfterInstall, RunState, Cur
    <3>2. QED
      BY <1>5, <3>1 DEF Pending
  <2>3. QED
    BY <2>1, <2>2
<1> HIDE DEF n
<1>8. QED
  BY <1>0, <1>2, <1>3, <1>4, <1>6, <1>7, ServiceOthers

LEMMA AfterServiceCurrent ==
  ASSUME TypeOK, TypeOK', ServiceCurrent, NEW p \in Run, After(p) PROVE ServiceCurrent'
<1>0. PICK i : i = Cur(run[p])
  OBVIOUS
<1> DEFINE n == AfterAction(run[p])
<1>1. RunOK(run[p]) /\ i \in Inst
  BY <1>0, CurOK DEF TypeOK
<1>2. Goto(p, n) /\ UNCHANGED <<disk, cut>>
  BY DEF After
<1>3. RunOK(n)
  BY <1>1, AfterActionOK
<1>4. loaded'[i] = disk'[i] /\ \A j \in Inst \ {i} : loaded'[j] = loaded[j]
  BY <1>0, <1>1, <1>2 DEF After, TypeOK
<1>5. cut \ {i} \subseteq cut' /\ missed \ {i} \subseteq missed'
  BY <1>0 DEF After
<1> HIDE DEF n
<1>6. \A j \in Inst \ {i} : disk'[j] = disk[j] /\ loaded'[j] = loaded[j]
  BY <1>2, <1>4
<1>7. QED
  BY <1>0, <1>2, <1>3, <1>4, <1>5, <1>6, ServiceOthers

(* A step to a position of the playbook from one where nothing is pending. *)
LEMMA ServiceIdleStep ==
  ASSUME TypeOK, TypeOK', ServiceCurrent, NEW p \in Run,
         run[p].pc \notin {"install", "write", "after"}, NEW n, Goto(p, n),
         UNCHANGED <<disk, loaded, cut, missed>>
  PROVE  ServiceCurrent'
<1>1. run'[p] = n
  BY DEF Goto, TypeOK
<1>2. RunOK(n)
  BY <1>1 DEF TypeOK
<1>3. QED
  BY <1>2, NothingPending, ServiceQuietStep

(* A step that stops p where it is, with what it was doing on record.      *)
LEMMA ServiceStop ==
  ASSUME TypeOK, TypeOK', ServiceCurrent, NEW p \in Run, NEW n, Goto(p, n),
         UNCHANGED <<disk, loaded>>,
         cut' = cut \cup CutBy(p), missed' = missed \cup MissedBy(p)
  PROVE  ServiceCurrent'
<1>1. run'[p] = n
  BY DEF Goto, TypeOK
<1>2. RunOK(n)
  BY <1>1 DEF TypeOK
<1>3. \A i \in Inst : Pending(p, i) => i \in cut' \/ i \in missed'
  BY DEF Pending, CutBy, MissedBy
<1>4. cut \subseteq cut' /\ missed \subseteq missed'
  OBVIOUS
<1>5. QED
  BY <1>2, <1>3, <1>4, ServiceQuietStep

LEMMA NextServiceCurrent ==
  ASSUME TypeOK, ServiceCurrent, [Next]_vars PROVE ServiceCurrent'
<1>1. TypeOK'
  BY NextTypeOK
<1>2. ASSUME NEW p \in Run, Start(p) \/ Check(p) \/ Enroll(p) \/ EnrollLost(p)
                              \/ Backup(p) \/ Copy(p) \/ Validate(p)
      PROVE  ServiceCurrent'
  <2>1. run[p].pc \in {"idle", "check", "enroll", "backup", "copy", "validate"}
    BY <1>2 DEF Start, Check, Enroll, EnrollLost, Backup, Copy, Validate, Active
  <2>2. UNCHANGED <<disk, loaded, cut, missed>>
    BY <1>2 DEF Start, Check, Enroll, EnrollLost, Backup, Copy, Validate
  <2>3. PICK n : Goto(p, n)
    BY <1>2 DEF Start, Check, Enroll, EnrollLost, Backup, Copy, Validate
  <2>4. QED
    BY <1>1, <2>1, <2>2, <2>3, ServiceIdleStep
<1>3. ASSUME NEW p \in Run, Fail(p) \/ Crash(p)
      PROVE  ServiceCurrent'
  <2>1. PICK n : Goto(p, n)
    BY <1>3 DEF Fail, Crash
  <2>2. /\ UNCHANGED <<disk, loaded>>
        /\ cut' = cut \cup CutBy(p) /\ missed' = missed \cup MissedBy(p)
    BY <1>3 DEF Fail, Crash
  <2>3. QED
    BY <1>1, <2>1, <2>2, ServiceStop
<1>4. ASSUME NEW p \in Run, Install(p) \/ Write(p) \/ After(p)
      PROVE  ServiceCurrent'
  BY <1>1, <1>4, InstallServiceCurrent, WriteServiceCurrent, AfterServiceCurrent
<1>5. CASE UNCHANGED <<disk, loaded, cut, missed, run>>
  BY <1>5 DEF ServiceCurrent, Pending, Writing
<1>6. CASE Tick \/ UNCHANGED vars
  BY <1>5, <1>6 DEF Tick, vars
<1>7. QED
  BY <1>2, <1>3, <1>4, <1>6 DEF Next, Step, Horizon

(* However many runs overlap, and whatever fails in any of them: a service *)
(* has the files on disk, unless a run is on its way to its                *)
(* afterInstallAction or was stopped on that way.                          *)
THEOREM ServicesStayCurrent == Spec => []ServiceCurrent
<1>1. Init => ServiceCurrent
  BY DEF Init, ServiceCurrent
<1>2. Init => TypeOK
  BY InitTypeOK
<1>3. TypeOK /\ ServiceCurrent /\ [Next]_vars => TypeOK' /\ ServiceCurrent'
  BY NextTypeOK, NextServiceCurrent
<1>4. QED
  BY <1>1, <1>2, <1>3, PTL DEF Spec

-----------------------------------------------------------------------------
(* Where a process goes, field by field: what the invariants below need of *)
(* each action, without the records it builds.                             *)

(* From r to the next task, or to the end of the run.                      *)
ToTask(r, n, failed) ==
  \/ r.task = Len(Tasks) /\ n.pc = "idle" /\ n.force = FALSE /\ n.failed = failed
  \/ /\ r.task < Len(Tasks) /\ n.task = r.task + 1 /\ n.inst = 1 /\ n.part = 1
     /\ n.changed = FALSE /\ n.force = r.force /\ n.failed = failed
     /\ n.pc = IF r.force THEN "enroll" ELSE "check"

(* From r to the next installation of its task, or out of the task.        *)
ToInst(r, n, failed) ==
  \/ /\ r.inst < Len(Tasks[r.task]) /\ n.task = r.task /\ n.inst = r.inst + 1 /\ n.part = 1
     /\ n.got = r.got /\ n.force = r.force /\ n.failed = failed
     /\ n.pc = IF Conf[Cur(n)].backup THEN "backup" ELSE "install"
  \/ r.inst = Len(Tasks[r.task]) /\ ToTask(r, n, failed)

(* From r to another file or another step of the same installation.        *)
SameInst(r, n) ==
  /\ n.task = r.task /\ n.inst = r.inst /\ n.got = r.got
  /\ n.force = r.force /\ n.failed = r.failed

LEMMA NextTaskMoves ==
  ASSUME NEW r, RunOK(r) PROVE ToTask(r, NextTask(r), r.failed)
<1>1. /\ r \in RunState /\ r.task \in 1 .. Len(Tasks) /\ Len(Tasks) \in Nat
  BY PlaybookTables DEF RunOK
<1>2. CASE r.task < Len(Tasks)
  <2> DEFINE n == BeginTask(r, r.task + 1)
  <2>1. /\ n.task = r.task + 1 /\ n.inst = 1 /\ n.part = 1 /\ n.changed = FALSE
        /\ n.force = r.force /\ n.failed = r.failed
        /\ n.pc = IF r.force THEN "enroll" ELSE "check"
    BY <1>1 DEF BeginTask, RunState
  <2>2. NextTask(r) = n
    BY <1>2 DEF NextTask
  <2> HIDE DEF n
  <2>3. QED
    BY <1>2, <2>1, <2>2 DEF ToTask
<1>3. CASE ~(r.task < Len(Tasks))
  <2>1. NextTask(r) = EndRun(r.failed) /\ r.task = Len(Tasks)
    BY <1>1, <1>3 DEF NextTask
  <2>2. EndRun(r.failed).pc = "idle" /\ EndRun(r.failed).force = FALSE /\ EndRun(r.failed).failed = r.failed
    BY DEF EndRun
  <2>3. QED
    BY <2>1, <2>2 DEF ToTask
<1>4. QED
  BY <1>2, <1>3

LEMMA BeginInstallerMoves ==
  ASSUME NEW r, RunOK(r), NEW k \in 1 .. Len(Tasks[r.task]), NEW n, n = BeginInstaller(r, k)
  PROVE  /\ n.task = r.task /\ n.inst = k /\ n.part = 1
         /\ n.got = r.got /\ n.force = r.force /\ n.failed = r.failed
         /\ n.pc = IF Conf[Cur(n)].backup THEN "backup" ELSE "install"
<1>1. r \in RunState
  BY DEF RunOK
<1>2. n.task = r.task /\ n.inst = k
  BY <1>1 DEF BeginInstaller, RunState
<1>3. Cur(n) = Tasks[r.task][k]
  BY <1>2 DEF Cur
<1>4. n.part = 1 /\ n.got = r.got /\ n.force = r.force /\ n.failed = r.failed
  BY <1>1 DEF BeginInstaller, RunState
<1>5. n.pc = IF Conf[Tasks[r.task][k]].backup THEN "backup" ELSE "install"
  BY <1>1 DEF BeginInstaller, RunState
<1>6. QED
  BY <1>2, <1>3, <1>4, <1>5

LEMMA NextInstMoves ==
  ASSUME NEW r, RunOK(r) PROVE ToInst(r, NextInst(r), r.failed)
<1>1. /\ r \in RunState /\ r.inst \in 1 .. Len(Tasks[r.task])
      /\ Len(Tasks[r.task]) \in Nat
  BY PlaybookTables DEF RunOK
<1>2. CASE r.inst < Len(Tasks[r.task])
  <2>1. r.inst + 1 \in 1 .. Len(Tasks[r.task]) /\ NextInst(r) = BeginInstaller(r, r.inst + 1)
    BY <1>1, <1>2 DEF NextInst
  <2>2. QED
    BY <1>2, <2>1, BeginInstallerMoves DEF ToInst
<1>3. CASE ~(r.inst < Len(Tasks[r.task]))
  BY <1>1, <1>3, NextTaskMoves DEF NextInst, ToInst
<1>4. QED
  BY <1>2, <1>3

LEMMA OnErrorMoves ==
  ASSUME NEW r, RunOK(r)
  PROVE  /\ r.pc \in {"check", "enroll"} => ToTask(r, OnError(r), TRUE)
         /\ r.pc \notin {"check", "enroll"} => ToInst(r, OnError(r), TRUE)
<1> DEFINE f == [r EXCEPT !.failed = TRUE]
<1>1. /\ RunOK(f) /\ f.pc = r.pc /\ f.task = r.task /\ f.inst = r.inst
      /\ f.got = r.got /\ f.force = r.force /\ f.failed = TRUE
  BY DEF RunOK, RunState
<1> HIDE DEF f
<1>2. ToTask(f, NextTask(f), TRUE) /\ ToInst(f, NextInst(f), TRUE)
  BY <1>1, NextTaskMoves, NextInstMoves
<1>3. \A n : ToTask(f, n, TRUE) => ToTask(r, n, TRUE)
  BY <1>1 DEF ToTask
<1>4. \A n : ToInst(f, n, TRUE) => ToInst(r, n, TRUE)
  BY <1>1, <1>3 DEF ToInst
<1>5. OnError(r) = IF r.pc \in {"check", "enroll"} THEN NextTask(f) ELSE NextInst(f)
  BY <1>1 DEF OnError, f
<1>6. QED
  BY <1>2, <1>3, <1>4, <1>5

(* What is common to the steps of a process that is running, when runs do  *)
(* not overlap: it moves to n, and the others are idle.                    *)
Moves(p, n) ==
  /\ RunOK(run[p]) /\ RunOK(n) /\ run[p] \in RunState /\ n \in RunState
  /\ Active(p) /\ run' = [run EXCEPT ![p] = n] /\ run'[p] = n
  /\ \A q \in Run \ {p} : run[q].pc = "idle" /\ run'[q] = run[q]
  /\ ran' = (ran \/ n.pc = "idle")
  /\ clock' = clock

LEMMA GotoMoves ==
  ASSUME FilesInv, TypeOK', NEW p \in Run, Active(p), NEW n, Goto(p, n), clock' = clock
  PROVE  Moves(p, n)
<1>1. run'[p] = n
  BY DEF Goto, FilesInv, TypeOK
<1>2. RunOK(n) /\ RunOK(run[p])
  BY <1>1 DEF TypeOK, FilesInv
<1>3. \A q \in Run \ {p} : run[q].pc = "idle" /\ run'[q] = run[q]
  BY <1>2, OthersIdle DEF FilesInv
<1>4. QED
  BY <1>1, <1>2, <1>3 DEF Moves, RunOK, Goto

(* The check of a certificate file with content c takes r to n.            *)
Stale(r, c) == r.changed \/ c = Absent \/ Due(c)

Checked(r, n, c) ==
  \/ c = Torn /\ ToTask(r, n, TRUE)
  \/ /\ c # Torn /\ r.inst < Len(Tasks[r.task])
     /\ n.pc = "check" /\ n.task = r.task /\ n.inst = r.inst + 1
     /\ n.changed <=> Stale(r, c)
     /\ n.force = r.force /\ n.failed = r.failed
  \/ /\ c # Torn /\ r.inst = Len(Tasks[r.task]) /\ Stale(r, c)
     /\ n.pc = "enroll" /\ n.task = r.task /\ n.inst = 1
     /\ n.force = r.force /\ n.failed = r.failed
  \/ c # Torn /\ r.inst = Len(Tasks[r.task]) /\ ~Stale(r, c) /\ ToTask(r, n, r.failed)

LEMMA CheckMoves ==
  ASSUME FilesInv, TypeOK', NEW p \in Run, Check(p),
         NEW c, c = disk[Cur(run[p])]["cert"]
  PROVE  \E n : /\ Moves(p, n) /\ UNCHANGED <<issued, disk, bak, faults>>
                /\ run[p].pc = "check" /\ Checked(run[p], n, c)
<1> DEFINE r == run[p]
<1>1. PICK b \in BOOLEAN : b <=> Stale(r, c)
  OBVIOUS
<1> DEFINE s == [r EXCEPT !.changed = r.changed \/ c = Absent \/ Due(c), !.part = 1]
           next == [s EXCEPT !.inst = r.inst + 1]
           enroll == [s EXCEPT !.pc = "enroll", !.inst = 1]
<1>2. RunOK(r) /\ r \in RunState /\ r.pc = "check" /\ Active(p)
  BY HasCert DEF Check, Active
<1>3. /\ clock' = clock /\ UNCHANGED <<issued, disk, bak, faults>>
      /\ \/ c = Torn /\ Goto(p, OnError(r))
         \/ c # Torn /\ r.inst < Len(Tasks[r.task]) /\ Goto(p, next)
         \/ c # Torn /\ r.inst = Len(Tasks[r.task]) /\ s.changed /\ Goto(p, enroll)
         \/ c # Torn /\ r.inst = Len(Tasks[r.task]) /\ ~s.changed /\ Goto(p, NextTask(s))
  BY DEF Check
<1>4. s = [r EXCEPT !.changed = b, !.part = 1]
  BY <1>1, <1>2, Zenon DEF RunState, Stale
<1>5. /\ s \in RunState /\ s.pc = "check" /\ s.task = r.task /\ s.inst = r.inst /\ s.part = 1
      /\ s.force = r.force /\ s.failed = r.failed /\ s.changed = b
  <2> HIDE DEF s
  <2>1. QED
    BY <1>2, <1>4 DEF RunState
<1> HIDE DEF s
<1>6. RunOK(s)
  <2>1. Cur(r) = Cur(s) /\ 1 \in 1 .. Len(Conf[Cur(s)].parts)
    BY <1>2, <1>5, CurOK, PlaybookTables DEF Cur
  <2>2. QED
    BY <1>2, <1>5, <2>1 DEF RunOK, Cur
<1>7. /\ next.pc = "check" /\ next.task = r.task /\ next.inst = r.inst + 1
      /\ next.changed = b /\ next.force = r.force /\ next.failed = r.failed
  BY <1>5 DEF RunState
<1>8. /\ enroll.pc = "enroll" /\ enroll.task = r.task /\ enroll.inst = 1
      /\ enroll.force = r.force /\ enroll.failed = r.failed
  BY <1>5 DEF RunState
<1> HIDE DEF next, enroll
<1>9. CASE c = Torn /\ Goto(p, OnError(r))
  <2>1. Moves(p, OnError(r)) /\ ToTask(r, OnError(r), TRUE)
    BY <1>2, <1>3, <1>9, GotoMoves, OnErrorMoves
  <2>2. QED
    BY <1>1, <1>2, <1>3, <1>9, <2>1 DEF Checked
<1>10. CASE c # Torn /\ r.inst < Len(Tasks[r.task]) /\ Goto(p, next)
  <2>1. Moves(p, next)
    BY <1>2, <1>3, <1>10, GotoMoves
  <2>2. QED
    BY <1>1, <1>2, <1>3, <1>7, <1>10, <2>1 DEF Checked
<1>11. CASE c # Torn /\ r.inst = Len(Tasks[r.task]) /\ s.changed /\ Goto(p, enroll)
  <2>1. Moves(p, enroll)
    BY <1>2, <1>3, <1>11, GotoMoves
  <2>2. b
    BY <1>5, <1>11
  <2>3. QED
    BY <1>1, <1>2, <1>3, <1>8, <1>11, <2>1, <2>2 DEF Checked
<1>12. CASE c # Torn /\ r.inst = Len(Tasks[r.task]) /\ ~s.changed /\ Goto(p, NextTask(s))
  <2>1. Moves(p, NextTask(s)) /\ ToTask(s, NextTask(s), s.failed)
    BY <1>2, <1>3, <1>6, <1>12, GotoMoves, NextTaskMoves
  <2>2. ToTask(r, NextTask(s), r.failed)
    BY <1>5, <2>1 DEF ToTask
  <2>3. ~b
    BY <1>5, <1>12
  <2>4. QED
    BY <1>1, <1>2, <1>3, <1>12, <2>1, <2>2, <2>3 DEF Checked
<1>13. QED
  BY <1>3, <1>9, <1>10, <1>11, <1>12

LEMMA EnrollMoves ==
  ASSUME FilesInv, TypeOK', NEW p \in Run, Enroll(p)
  PROVE  \E n : /\ Moves(p, n) /\ UNCHANGED <<disk, bak, faults>> /\ issued' = issued + 1
                /\ run[p].pc = "enroll"
                /\ n.task = run[p].task /\ n.inst = 1 /\ n.part = 1
                /\ n.got \in Cert /\ n.got.issued = clock
                /\ n.force = run[p].force /\ n.failed = run[p].failed
                /\ n.pc = IF Conf[Cur(n)].backup THEN "backup" ELSE "install"
<1> DEFINE got == [id |-> issued + 1, issued |-> clock]
           r == [run[p] EXCEPT !.got = got]
           n == BeginInstaller(r, 1)
<1>1. RunOK(run[p]) /\ run[p].pc = "enroll" /\ Active(p)
  BY HasCert DEF Enroll, Active
<1>2. got \in Cert /\ got.issued = clock
  BY DEF FilesInv, TypeOK, Cert
<1>3. Goto(p, n) /\ clock' = clock /\ UNCHANGED <<disk, bak, faults>> /\ issued' = issued + 1
  BY DEF Enroll
<1> HIDE DEF got
<1>4. /\ RunOK(r) /\ r.got = got /\ r.task = run[p].task
      /\ r.force = run[p].force /\ r.failed = run[p].failed
  BY <1>1, <1>2 DEF RunOK, RunState
<1>5. 1 \in 1 .. Len(Tasks[r.task])
  BY <1>4, PlaybookTables DEF RunOK
<1> HIDE DEF r
<1>6. /\ n.task = r.task /\ n.inst = 1 /\ n.part = 1
      /\ n.got = r.got /\ n.force = r.force /\ n.failed = r.failed
      /\ n.pc = IF Conf[Cur(n)].backup THEN "backup" ELSE "install"
  BY <1>4, <1>5, BeginInstallerMoves
<1> HIDE DEF n
<1>7. Moves(p, n)
  BY <1>1, <1>3, GotoMoves
<1>8. QED
  BY <1>1, <1>2, <1>3, <1>4, <1>6, <1>7

LEMMA EnrollLostMoves ==
  ASSUME FilesInv, TypeOK', NEW p \in Run, EnrollLost(p)
  PROVE  \E n : /\ Moves(p, n) /\ UNCHANGED <<disk, bak>>
                /\ issued' = issued + 1 /\ faults' = faults + 1
                /\ run[p].pc = "enroll" /\ ToTask(run[p], n, TRUE)
<1>1. RunOK(run[p]) /\ run[p].pc = "enroll" /\ Active(p)
  BY HasCert DEF EnrollLost, Active
<1>2. /\ Goto(p, OnError(run[p])) /\ UNCHANGED <<clock, disk, bak>>
      /\ issued' = issued + 1 /\ faults' = faults + 1
  BY DEF EnrollLost
<1>3. Moves(p, OnError(run[p])) /\ ToTask(run[p], OnError(run[p]), TRUE)
  BY <1>1, <1>2, GotoMoves, OnErrorMoves
<1>4. QED
  BY <1>1, <1>2, <1>3

LEMMA PcMoves ==
  ASSUME NEW r, RunOK(r), NEW pc \in PC, NEW n, n = [r EXCEPT !.pc = pc]
  PROVE  SameInst(r, n) /\ n.pc = pc /\ n.part = r.part
BY DEF RunOK, RunState, SameInst

LEMMA NextPartMoves ==
  ASSUME NEW r, RunOK(r), NEW loop \in PC, NEW after \in PC, NEW n, n = NextPart(r, loop, after)
  PROVE  /\ SameInst(r, n)
         /\ LastPart(r) => n.pc = after /\ n.part = 1
         /\ ~LastPart(r) => n.pc = loop /\ n.part = r.part + 1
<1>1. r \in RunState
  BY DEF RunOK
<1>2. CASE LastPart(r)
  <2>1. n = [r EXCEPT !.pc = after, !.part = 1]
    BY <1>2 DEF NextPart
  <2>2. QED
    BY <1>1, <1>2, <2>1 DEF RunState, SameInst
<1>3. CASE ~LastPart(r)
  <2>1. n = [r EXCEPT !.pc = loop, !.part = r.part + 1]
    BY <1>3 DEF NextPart
  <2>2. QED
    BY <1>1, <1>3, <2>1 DEF RunState, SameInst
<1>4. QED
  BY <1>2, <1>3

BackupTo(p, n, i) ==
  LET r == run[p] IN
  /\ SameInst(r, n) /\ UNCHANGED <<issued, disk, faults>> /\ r.pc = "backup"
  /\ \/ /\ r.part = 1 /\ disk[i]["cert"] = Absent /\ UNCHANGED bak
        /\ n.pc = "install" /\ n.part = r.part
     \/ /\ r.part > 1 /\ disk[i][CurPart(r)] = Absent /\ UNCHANGED bak
        /\ LastPart(r) => n.pc = "install" /\ n.part = 1
        /\ ~LastPart(r) => n.pc = "backup" /\ n.part = r.part + 1
     \/ /\ disk[i][CurPart(r)] # Absent /\ n.pc = "copy" /\ n.part = r.part
        /\ bak' = [bak EXCEPT ![i][CurPart(r)] = Torn]

LEMMA BackupMoves ==
  ASSUME FilesInv, TypeOK', NEW p \in Run, Backup(p), NEW i, i = Cur(run[p])
  PROVE  \E n : Moves(p, n) /\ BackupTo(p, n, i)
<1> DEFINE r == run[p]
           skip == [r EXCEPT !.pc = "install"]
           next == NextPart(r, "backup", "install")
           copy == [r EXCEPT !.pc = "copy"]
<1>1. RunOK(r) /\ r.pc = "backup" /\ Active(p)
  BY HasCert DEF Backup, Active
<1>2. /\ UNCHANGED <<clock, issued, disk, faults>>
      /\ \/ r.part = 1 /\ disk[i]["cert"] = Absent /\ Goto(p, skip) /\ UNCHANGED bak
         \/ r.part > 1 /\ disk[i][CurPart(r)] = Absent /\ Goto(p, next) /\ UNCHANGED bak
         \/ /\ disk[i][CurPart(r)] # Absent /\ Goto(p, copy)
            /\ bak' = [bak EXCEPT ![i][CurPart(r)] = Torn]
  BY DEF Backup
<1>3. SameInst(r, skip) /\ skip.pc = "install" /\ skip.part = r.part
  BY <1>1, PcMoves DEF PC
<1>4. SameInst(r, copy) /\ copy.pc = "copy" /\ copy.part = r.part
  BY <1>1, PcMoves DEF PC
<1>5. /\ SameInst(r, next)
      /\ LastPart(r) => next.pc = "install" /\ next.part = 1
      /\ ~LastPart(r) => next.pc = "backup" /\ next.part = r.part + 1
  BY <1>1, NextPartMoves DEF PC
<1> HIDE DEF skip, next, copy
<1>6. \A n : Goto(p, n) => Moves(p, n)
  BY <1>1, <1>2, GotoMoves
<1>7. QED
  BY <1>1, <1>2, <1>3, <1>4, <1>5, <1>6 DEF BackupTo

CopyTo(p, n, i) ==
  LET r == run[p] IN
  /\ SameInst(r, n) /\ UNCHANGED <<issued, disk, faults>> /\ r.pc = "copy"
  /\ \E c \in Overlaid(bak[i][CurPart(r)], disk[i][CurPart(r)]) :
       bak' = [bak EXCEPT ![i][CurPart(r)] = c]
  /\ LastPart(r) => n.pc = "install" /\ n.part = 1
  /\ ~LastPart(r) => n.pc = "backup" /\ n.part = r.part + 1

LEMMA CopyMoves ==
  ASSUME FilesInv, TypeOK', NEW p \in Run, Copy(p), NEW i, i = Cur(run[p])
  PROVE  \E n : Moves(p, n) /\ CopyTo(p, n, i)
<1> DEFINE r == run[p]
           next == NextPart(r, "backup", "install")
<1>1. RunOK(r) /\ r.pc = "copy" /\ Active(p)
  BY HasCert DEF Copy, Active
<1>2. /\ UNCHANGED <<clock, issued, disk, faults>> /\ Goto(p, next)
      /\ \E c \in Overlaid(bak[i][CurPart(r)], disk[i][CurPart(r)]) :
                bak' = [bak EXCEPT ![i][CurPart(r)] = c]
  BY DEF Copy
<1>3. /\ SameInst(r, next)
      /\ LastPart(r) => next.pc = "install" /\ next.part = 1
      /\ ~LastPart(r) => next.pc = "backup" /\ next.part = r.part + 1
  BY <1>1, NextPartMoves DEF PC
<1> HIDE DEF next
<1>4. Moves(p, next)
  BY <1>1, <1>2, GotoMoves
<1>5. QED
  BY <1>1, <1>2, <1>3, <1>4 DEF CopyTo

InstallTo(p, n, i) ==
  LET r == run[p] IN
  /\ SameInst(r, n) /\ UNCHANGED <<issued, bak, faults>> /\ r.pc = "install"
  /\ disk' = [disk EXCEPT ![i][CurPart(r)] = Torn]
  /\ n.pc = "write" /\ n.part = r.part

LEMMA InstallMoves ==
  ASSUME FilesInv, TypeOK', NEW p \in Run, Install(p), NEW i, i = Cur(run[p])
  PROVE  \E n : Moves(p, n) /\ InstallTo(p, n, i)
<1> DEFINE r == run[p]
           n == [r EXCEPT !.pc = "write"]
<1>1. RunOK(r) /\ r.pc = "install" /\ Active(p)
  BY HasCert DEF Install, Active
<1>2. /\ UNCHANGED <<clock, issued, bak, faults>> /\ Goto(p, n)
      /\ disk' = [disk EXCEPT ![i][CurPart(r)] = Torn]
  BY DEF Install
<1>3. SameInst(r, n) /\ n.pc = "write" /\ n.part = r.part
  BY <1>1, PcMoves DEF PC
<1> HIDE DEF n
<1>4. Moves(p, n)
  BY <1>1, <1>2, GotoMoves
<1>5. QED
  BY <1>1, <1>2, <1>3, <1>4 DEF InstallTo

WriteTo(p, n, i) ==
  LET r == run[p] IN
  /\ UNCHANGED <<issued, bak, faults>> /\ r.pc = "write"
  /\ disk' = [disk EXCEPT ![i][CurPart(r)] = r.got]
  /\ \A k \in 1 .. r.part : disk'[i][Conf[i].parts[k]] = r.got
  /\ \/ ~LastPart(r) /\ SameInst(r, n) /\ n.pc = "install" /\ n.part = r.part + 1
     \/ LastPart(r) /\ SameInst(r, n) /\ n.pc = "after" /\ n.part = 1
     \/ LastPart(r) /\ ToInst(r, n, r.failed)

LEMMA WriteMoves ==
  ASSUME FilesInv, TypeOK', NEW p \in Run, Write(p), NEW i, i = Cur(run[p])
  PROVE  \E n : Moves(p, n) /\ WriteTo(p, n, i)
<1> DEFINE r == run[p]
           n == AfterInstall(r)
           parts == Conf[i].parts
<1>1. /\ RunOK(r) /\ r \in RunState /\ r.pc = "write" /\ Active(p)
      /\ i \in Inst /\ CurPart(r) \in Part /\ r.part \in 1 .. Len(parts)
      /\ Len(parts) \in Nat /\ r.got \in Cert
  BY HasCert, CurOK, PlaybookTables DEF Write, Active, Installing
<1>2. /\ Goto(p, n) /\ disk' = [disk EXCEPT ![i][CurPart(r)] = r.got]
      /\ UNCHANGED <<clock, issued, bak, faults>>
  <2>1. disk[i][CurPart(r)] = Torn
    BY <1>1 DEF FilesInv, Progress
  <2>2. Overlaid(disk[i][CurPart(r)], r.got) = {r.got}
    BY <2>1 DEF Overlaid
  <2>3. QED
    BY <2>2 DEF Write
<1>3. \A k \in 1 .. r.part : disk'[i][parts[k]] = r.got
  <2>1. disk[i] \in [Part -> Content] /\ disk \in [Inst -> [Part -> Content]]
    BY <1>1 DEF FilesInv, TypeOK
  <2>2. ASSUME NEW k \in 1 .. r.part
        PROVE  disk'[i][parts[k]] = r.got
    <3>1. k \in 1 .. Len(parts) /\ parts[k] \in Part /\ (k # r.part => k \in 1 .. (r.part - 1))
      BY <1>1, PlaybookTables
    <3>2. k # r.part => disk[i][parts[k]] = r.got
      BY <1>1, <3>1 DEF FilesInv, Progress
    <3>3. CASE k = r.part
      BY <1>1, <1>2, <2>1, <3>3 DEF CurPart
    <3>4. CASE k # r.part
      BY <1>1, <1>2, <2>1, <3>1, <3>2, <3>4
    <3>5. QED
      BY <3>3, <3>4
  <2>3. QED
    BY <2>2
<1>4. \/ ~LastPart(r) /\ SameInst(r, n) /\ n.pc = "install" /\ n.part = r.part + 1
      \/ LastPart(r) /\ SameInst(r, n) /\ n.pc = "after" /\ n.part = 1
      \/ LastPart(r) /\ ToInst(r, n, r.failed)
  <2>1. CASE ~LastPart(r)
    BY <1>1, <2>1 DEF AfterInstall, RunState, SameInst
  <2>2. CASE LastPart(r) /\ Conf[Cur(r)].after
    BY <1>1, <2>2 DEF AfterInstall, RunState, SameInst
  <2>3. CASE LastPart(r) /\ ~Conf[Cur(r)].after
    BY <1>1, <2>3, NextInstMoves DEF AfterInstall
  <2>4. QED
    BY <2>1, <2>2, <2>3
<1> HIDE DEF n
<1>5. Moves(p, n)
  BY <1>1, <1>2, GotoMoves
<1>6. QED
  BY <1>1, <1>2, <1>3, <1>4, <1>5 DEF WriteTo

LEMMA AfterMoves ==
  ASSUME FilesInv, TypeOK', NEW p \in Run, After(p)
  PROVE  \E n : LET r == run[p] IN
           /\ Moves(p, n) /\ UNCHANGED <<issued, disk, bak, faults>> /\ r.pc = "after"
           /\ \/ SameInst(r, n) /\ n.pc = "validate"
              \/ ToInst(r, n, r.failed)
<1> DEFINE r == run[p]
           validate == [r EXCEPT !.pc = "validate"]
<1>1. RunOK(r) /\ r.pc = "after" /\ Active(p)
  BY HasCert DEF After, Active
<1>2. /\ UNCHANGED <<clock, issued, disk, bak, faults>>
      /\ Goto(p, validate) \/ Goto(p, NextInst(r))
  BY DEF After, AfterAction
<1>3. SameInst(r, validate) /\ validate.pc = "validate"
  BY <1>1, PcMoves DEF PC
<1> HIDE DEF validate
<1>4. \A n : Goto(p, n) => Moves(p, n)
  BY <1>1, <1>2, GotoMoves
<1>5. QED
  BY <1>1, <1>2, <1>3, <1>4, NextInstMoves

LEMMA ValidateMoves ==
  ASSUME FilesInv, TypeOK', NEW p \in Run, Validate(p)
  PROVE  \E n : LET r == run[p] IN
           /\ Moves(p, n) /\ UNCHANGED <<issued, disk, bak, faults>> /\ r.pc = "validate"
           /\ ToInst(r, n, r.failed)
<1>1. RunOK(run[p]) /\ run[p].pc = "validate" /\ Active(p)
  BY HasCert DEF Validate, Active
<1>2. UNCHANGED <<clock, issued, disk, bak, faults>> /\ Goto(p, NextInst(run[p]))
  BY DEF Validate
<1>3. Moves(p, NextInst(run[p])) /\ ToInst(run[p], NextInst(run[p]), run[p].failed)
  BY <1>1, <1>2, GotoMoves, NextInstMoves
<1>4. QED
  BY <1>1, <1>2, <1>3

LEMMA FailMoves ==
  ASSUME FilesInv, TypeOK', NEW p \in Run, Fail(p)
  PROVE  \E n : LET r == run[p] IN
           /\ Moves(p, n) /\ UNCHANGED <<issued, disk, bak>> /\ faults' = faults + 1
           /\ r.pc \in {"check", "enroll"} \cup Installing
           /\ r.pc \in {"check", "enroll"} => ToTask(r, n, TRUE)
           /\ r.pc \in Installing => ToInst(r, n, TRUE)
<1>1. RunOK(run[p]) /\ Active(p) /\ run[p] \in RunState
  BY HasCert DEF Fail
<1>2. /\ UNCHANGED <<clock, issued, disk, bak>> /\ faults' = faults + 1
      /\ Goto(p, OnError(run[p]))
  BY DEF Fail
<1>3. run[p].pc \in {"check", "enroll"} \cup Installing
  BY <1>1 DEF RunState, PC, Active, Installing
<1>4. run[p].pc \in Installing => run[p].pc \notin {"check", "enroll"}
  BY DEF Installing
<1>5. Moves(p, OnError(run[p]))
  BY <1>1, <1>2, GotoMoves
<1>6. QED
  BY <1>1, <1>2, <1>3, <1>4, <1>5, OnErrorMoves

LEMMA CrashMoves ==
  ASSUME FilesInv, TypeOK', NEW p \in Run, Crash(p)
  PROVE  \E n : /\ Moves(p, n) /\ UNCHANGED <<issued, disk, bak>> /\ faults' = faults + 1
                /\ n.pc = "idle" /\ n.failed = TRUE /\ n.force = FALSE
<1>1. /\ Active(p) /\ UNCHANGED <<clock, issued, disk, bak>> /\ faults' = faults + 1
      /\ Goto(p, EndRun(TRUE))
  BY DEF Crash
<1>2. EndRun(TRUE).pc = "idle" /\ EndRun(TRUE).failed = TRUE /\ EndRun(TRUE).force = FALSE
  BY DEF EndRun
<1>3. Moves(p, EndRun(TRUE))
  BY <1>1, GotoMoves
<1>4. QED
  BY <1>1, <1>2, <1>3

(* A run starts at the first installation of the first task.               *)
StartTo(p, n) ==
  /\ RunOK(n) /\ n \in RunState /\ run' = [run EXCEPT ![p] = n] /\ run'[p] = n
  /\ \A q \in Run : run[q].pc = "idle"
  /\ \A q \in Run \ {p} : run'[q] = run[q]
  /\ ran' = ran /\ UNCHANGED <<clock, issued, disk, bak, faults>>
  /\ n.force \in ForceRenew /\ n.failed = FALSE /\ n.changed = FALSE
  /\ n.task = 1 /\ n.inst = 1 /\ n.part = 1
  /\ n.pc = IF n.force THEN "enroll" ELSE "check"

LEMMA StartMoves ==
  ASSUME FilesInv, TypeOK', Exclusive, NEW p \in Run, Start(p) PROVE \E n : StartTo(p, n)
<1>1. PICK f \in ForceRenew : Goto(p, BeginTask([EndRun(FALSE) EXCEPT !.force = f], 1))
  BY DEF Start
<1> DEFINE e == [EndRun(FALSE) EXCEPT !.force = f]
           n == BeginTask(e, 1)
<1>2. /\ n.pc = (IF n.force THEN "enroll" ELSE "check") /\ n.force \in ForceRenew /\ n.failed = FALSE
      /\ n.changed = FALSE /\ n.task = 1 /\ n.inst = 1 /\ n.part = 1
  BY DEF EndRun, BeginTask
<1>3. n.pc # "idle"
  BY <1>2
<1> HIDE DEF n
<1>4. run' = [run EXCEPT ![p] = n] /\ run'[p] = n /\ ran' = (ran \/ n.pc = "idle")
  BY <1>1 DEF Goto, FilesInv, TypeOK, n
<1>5. RunOK(n) /\ n \in RunState
  BY <1>4 DEF TypeOK, RunOK
<1>6. \A q \in Run : run[q].pc = "idle"
  BY DEF Start, Active
<1>7. \A q \in Run \ {p} : run'[q] = run[q]
  BY <1>4 DEF FilesInv, TypeOK
<1>8. ran' = ran
  BY <1>3, <1>4 DEF FilesInv, TypeOK
<1>9. UNCHANGED <<clock, issued, disk, bak, faults>>
  BY DEF Start
<1> HIDE DEF e
<1>10. QED
  BY <1>2, <1>4, <1>5, <1>6, <1>7, <1>8, <1>9 DEF StartTo

-----------------------------------------------------------------------------
(* NoNeedlessEnroll: what a check has found is on disk until the process   *)
(* enrolls, because no other process runs and a certificate that is due    *)
(* stays due.                                                              *)

DueAt(c, now) == Window # 0 /\ now > NotAfter(c) - Window

Needs(c, now) == c = Absent \/ (c \in Cert /\ DueAt(c, now))

(* The process that will enroll, or has found a reason to, is right.       *)
NeedRun(r, files, now) ==
  /\ (r.pc = "check" /\ r.changed) =>
       \E k \in 1 .. (r.inst - 1) : Needs(files[Tasks[r.task][k]]["cert"], now)
  /\ r.pc = "enroll" =>
       r.force \/ \E k \in 1 .. Len(Tasks[r.task]) : Needs(files[Tasks[r.task][k]]["cert"], now)

NeedInv == FilesInv /\ \A p \in Run : NeedRun(run[p], disk, clock)

(* The certificate file of an installation that r is at, or has passed.    *)
LEMMA CertFile ==
  ASSUME TypeOK, NEW t \in 1 .. Len(Tasks), NEW k \in 1 .. Len(Tasks[t])
  PROVE  Tasks[t][k] \in Inst /\ disk[Tasks[t][k]]["cert"] \in Cert \cup {Absent, Torn}
<1>1. Tasks[t][k] \in Inst
  BY PlaybookTables
<1>2. "cert" \in Part
  BY DEF Part
<1>3. QED
  BY <1>1, <1>2 DEF TypeOK, Content

LEMMA ToTaskNeeds ==
  ASSUME NEW r, NEW n, NEW failed, ToTask(r, n, failed), NEW files, NEW now
  PROVE  NeedRun(n, files, now)
BY DEF ToTask, NeedRun

LEMMA ToInstNeeds ==
  ASSUME NEW r, NEW n, NEW failed, ToInst(r, n, failed), NEW files, NEW now
  PROVE  NeedRun(n, files, now)
<1>1. CASE n.pc \in {"backup", "install"}
  BY <1>1 DEF NeedRun
<1>2. CASE ToTask(r, n, failed)
  BY <1>2, ToTaskNeeds
<1>3. QED
  BY <1>1, <1>2 DEF ToInst

(* A step of a running process keeps the invariant if it is right where    *)
(* the process goes.                                                       *)
LEMMA NeedStep ==
  ASSUME FilesInv', NEW p \in Run, NEW n, Moves(p, n), NeedRun(n, disk', clock')
  PROVE  NeedInv'
<1>1. \A q \in Run \ {p} : NeedRun(run'[q], disk', clock')
  BY DEF Moves, NeedRun
<1>2. QED
  BY <1>1 DEF NeedInv, Moves

LEMMA CheckNeed ==
  ASSUME NeedInv, FilesInv', NEW p \in Run, Check(p) PROVE NeedInv'
<1> DEFINE r == run[p]
           c == disk[Cur(r)]["cert"]
<1>0. FilesInv /\ TypeOK' /\ TypeOK
  BY DEF NeedInv, FilesInv
<1>1. PICK n : Moves(p, n) /\ UNCHANGED disk /\ r.pc = "check" /\ Checked(r, n, c)
  BY <1>0, CheckMoves
<1>2. /\ r.task \in 1 .. Len(Tasks) /\ r.inst \in 1 .. Len(Tasks[r.task])
      /\ Len(Tasks[r.task]) \in Nat
  BY <1>1, PlaybookTables DEF Moves, RunOK
<1>3. c \in Cert \cup {Absent, Torn} /\ c = disk[Tasks[r.task][r.inst]]["cert"]
  BY <1>0, <1>2, CertFile DEF Cur
<1>4. (Stale(r, c) /\ c # Torn) => \E k \in 1 .. r.inst : Needs(disk[Tasks[r.task][k]]["cert"], clock)
  <2> SUFFICES ASSUME Stale(r, c), c # Torn PROVE \E k \in 1 .. r.inst : Needs(disk[Tasks[r.task][k]]["cert"], clock)
    OBVIOUS
  <2>1. CASE r.changed
    <3>1. PICK k \in 1 .. (r.inst - 1) : Needs(disk[Tasks[r.task][k]]["cert"], clock)
      BY <1>1, <2>1 DEF NeedInv, NeedRun
    <3>2. k \in 1 .. r.inst
      BY <1>2
    <3>3. QED
      BY <3>1, <3>2
  <2>2. CASE c = Absent \/ Due(c)
    <3>1. Needs(c, clock)
      BY <1>3, <2>2 DEF Needs, DueAt, Due
    <3>2. r.inst \in 1 .. r.inst
      BY <1>2
    <3>3. QED
      BY <1>3, <3>1, <3>2
  <2>3. QED
    BY <2>1, <2>2 DEF Stale
<1>5. clock' = clock
  BY <1>1 DEF Moves
<1>6. NeedRun(n, disk, clock)
  <2>1. ASSUME NEW failed, ToTask(r, n, failed) PROVE NeedRun(n, disk, clock)
    BY <2>1, ToTaskNeeds
  <2>2. CASE /\ c # Torn
             /\ n.pc = "check" /\ n.task = r.task /\ n.inst = r.inst + 1
             /\ n.changed <=> Stale(r, c)
    <3>1. n.inst - 1 = r.inst
      BY <1>2, <2>2
    <3>2. n.changed => Stale(r, c)
      BY <2>2
    <3>3. QED
      BY <1>4, <2>2, <3>1, <3>2 DEF NeedRun
  <2>3. CASE c # Torn /\ r.inst = Len(Tasks[r.task]) /\ Stale(r, c) /\ n.pc = "enroll" /\ n.task = r.task
    BY <1>4, <2>3 DEF NeedRun
  <2>4. QED
    BY <1>1, <2>1, <2>2, <2>3 DEF Checked
<1>7. QED
  BY <1>1, <1>5, <1>6, NeedStep

LEMMA StartNeed ==
  ASSUME Exclusive, NeedInv, FilesInv', NEW p \in Run, Start(p) PROVE NeedInv'
<1>0. FilesInv /\ TypeOK'
  BY DEF NeedInv, FilesInv
<1>1. PICK n : /\ run'[p] = n /\ \A q \in Run : run[q].pc = "idle"
               /\ \A q \in Run \ {p} : run'[q] = run[q]
               /\ n.changed = FALSE /\ n.pc = IF n.force THEN "enroll" ELSE "check"
  BY <1>0, StartMoves DEF StartTo
<1>2. NeedRun(n, disk', clock')
  BY <1>1 DEF NeedRun
<1>3. \A q \in Run \ {p} : NeedRun(run'[q], disk', clock')
  BY <1>1 DEF NeedRun
<1>4. QED
  BY <1>1, <1>2, <1>3 DEF NeedInv

LEMMA InstallerNeed ==
  ASSUME NeedInv, FilesInv', NEW p \in Run,
         \/ Enroll(p) \/ EnrollLost(p) \/ Backup(p) \/ Copy(p) \/ Install(p) \/ Write(p)
         \/ After(p) \/ Validate(p) \/ Fail(p) \/ Crash(p)
  PROVE  NeedInv'
<1> DEFINE Leaves(n) == \/ n.pc \in {"idle", "backup", "copy", "install", "write", "after", "validate"}
                        \/ \E r, failed : ToTask(r, n, failed) \/ ToInst(r, n, failed)
<1>0. FilesInv /\ TypeOK' /\ \E i : i = Cur(run[p])
  BY DEF NeedInv, FilesInv
<1>1. \E n : Moves(p, n) /\ Leaves(n)
  <2>1. CASE Enroll(p)
    BY <1>0, <2>1, EnrollMoves
  <2>2. CASE EnrollLost(p)
    BY <1>0, <2>2, EnrollLostMoves
  <2>3. CASE Backup(p)
    BY <1>0, <2>3, BackupMoves DEF BackupTo
  <2>4. CASE Copy(p)
    BY <1>0, <2>4, CopyMoves DEF CopyTo
  <2>5. CASE Install(p)
    BY <1>0, <2>5, InstallMoves DEF InstallTo
  <2>6. CASE Write(p)
    BY <1>0, <2>6, WriteMoves DEF WriteTo
  <2>7. CASE After(p)
    BY <1>0, <2>7, AfterMoves
  <2>8. CASE Validate(p)
    BY <1>0, <2>8, ValidateMoves
  <2>9. CASE Fail(p)
    BY <1>0, <2>9, FailMoves
  <2>10. CASE Crash(p)
    BY <1>0, <2>10, CrashMoves
  <2>11. QED
    BY <2>1, <2>2, <2>3, <2>4, <2>5, <2>6, <2>7, <2>8, <2>9, <2>10
<1>2. PICK n : Moves(p, n) /\ Leaves(n)
  BY <1>1
<1>3. NeedRun(n, disk', clock')
  <2>1. CASE n.pc \in {"idle", "backup", "copy", "install", "write", "after", "validate"}
    BY <2>1 DEF NeedRun
  <2>2. CASE \E r, failed : ToTask(r, n, failed) \/ ToInst(r, n, failed)
    BY <2>2, ToTaskNeeds, ToInstNeeds
  <2>3. QED
    BY <1>2, <2>1, <2>2
<1>4. QED
  BY <1>2, <1>3, NeedStep

LEMMA TickNeed ==
  ASSUME NeedInv, FilesInv', Tick PROVE NeedInv'
<1>1. clock' = clock + 1 /\ UNCHANGED <<disk, run>> /\ clock \in Nat
  BY DEF Tick, NeedInv, FilesInv, TypeOK
<1>2. \A c : Needs(c, clock) => Needs(c, clock + 1)
  <2> SUFFICES ASSUME NEW c \in Cert, DueAt(c, clock) PROVE DueAt(c, clock + 1)
    BY DEF Needs
  <2>1. NotAfter(c) - Window \in Int
    BY ConstantsAssumption DEF NotAfter, Cert
  <2>2. QED
    BY <1>1, <2>1 DEF DueAt
<1>3. \A p \in Run : NeedRun(run[p], disk, clock + 1)
  BY <1>2 DEF NeedInv, NeedRun
<1>4. QED
  BY <1>1, <1>3 DEF NeedInv

LEMMA NextNeed == ASSUME Exclusive, NeedInv, [Next]_vars PROVE NeedInv'
<1>1. FilesInv'
  BY NextFilesInv DEF NeedInv
<1>2. ASSUME NEW p \in Run, Start(p) \/ Step(p) \/ EnrollLost(p) \/ Fail(p) \/ Crash(p)
      PROVE  NeedInv'
  BY <1>1, <1>2, StartNeed, CheckNeed, InstallerNeed DEF Step
<1>3. CASE Tick
  BY <1>1, <1>3, TickNeed
<1>4. CASE UNCHANGED vars
  BY <1>1, <1>4 DEF NeedInv, vars
<1>5. QED
  BY <1>2, <1>3, <1>4 DEF Next, Horizon

(* When runs do not overlap, a run that was not forced enrolls only for a  *)
(* task with an installation that is missing its certificate or is in its  *)
(* renew window at that moment, whatever the playbook, the faults and the  *)
(* time that passes during the run.                                        *)
THEOREM EnrollsOnlyWhenNeeded == ASSUME Exclusive PROVE Spec => NoNeedlessEnroll
<1>1. Init => NeedInv
  <2> SUFFICES ASSUME Init PROVE NeedInv
    OBVIOUS
  <2>1. \A p \in Run : run[p].pc = "idle"
    BY DEF Init, EndRun
  <2>2. QED
    BY <2>1, InitFilesInv DEF NeedInv, NeedRun
<1>2. NeedInv /\ [Next]_vars => NeedInv'
  BY NextNeed
<1>3. NeedInv /\ [Next]_vars =>
        [\A p \in Run : (run[p].pc = "enroll" /\ issued' # issued) =>
           \/ run[p].force
           \/ \E k \in 1 .. Len(Tasks[run[p].task]) :
                LET c == disk[Tasks[run[p].task][k]]["cert"] IN c = Absent \/ Due(c)]_vars
  BY DEF NeedInv, NeedRun, Needs, DueAt, Due
<1>4. QED
  BY <1>1, <1>2, <1>3, PTL DEF Spec, NoNeedlessEnroll

-----------------------------------------------------------------------------
(* SuccessMeansFresh: a run that has not failed leaves every installation  *)
(* that it passes in order.                                                *)

(* The installations before the position of r are in S.                    *)
Before(r, S) ==
  /\ \A t \in 1 .. (r.task - 1) : \A k \in 1 .. Len(Tasks[t]) : Tasks[t][k] \in S
  /\ (r.pc \in Installing \/ (r.pc = "check" /\ ~r.changed)) =>
       \A k \in 1 .. (r.inst - 1) : Tasks[r.task][k] \in S

All(S) == \A t \in 1 .. Len(Tasks) : \A k \in 1 .. Len(Tasks[t]) : Tasks[t][k] \in S

(* They are so where a step takes r, to the end of the run included.       *)
Passed(n, S) == IF n.pc = "idle" THEN All(S) ELSE Before(n, S)

(* An installation is at one position of the playbook.                     *)
LEMMA BeforeElsewhere ==
  ASSUME NEW r, RunOK(r), NEW S, Before(r, S) PROVE Before(r, S \ {Cur(r)})
<1>1. /\ r.task \in 1 .. Len(Tasks) /\ r.inst \in 1 .. Len(Tasks[r.task])
      /\ Len(Tasks) \in Nat /\ Len(Tasks[r.task]) \in Nat
  BY PlaybookTables DEF RunOK
<1>2. ASSUME NEW t \in 1 .. (r.task - 1), NEW k \in 1 .. Len(Tasks[t])
      PROVE  Tasks[t][k] # Cur(r)
  <2>1. t \in 1 .. Len(Tasks) /\ t # r.task
    BY <1>1
  <2>2. QED
    BY <1>1, <2>1, DistinctFilesAssumption DEF Cur
<1>3. ASSUME NEW k \in 1 .. (r.inst - 1)
      PROVE  Tasks[r.task][k] # Cur(r)
  <2>1. k \in 1 .. Len(Tasks[r.task]) /\ k # r.inst
    BY <1>1
  <2>2. QED
    BY <1>1, <2>1, DistinctFilesAssumption DEF Cur
<1>4. QED
  BY <1>2, <1>3 DEF Before

LEMMA BeforeMonotonic ==
  ASSUME NEW r, NEW S, NEW U, S \subseteq U, Before(r, S) PROVE Before(r, U)
BY DEF Before

(* The same installation, or the next check, with the same ones before it. *)
LEMMA SameInstPassed ==
  ASSUME NEW r, NEW n, NEW S, SameInst(r, n), r.pc \in Installing, n.pc \in Installing, Before(r, S)
  PROVE  Passed(n, S)
<1>1. n.pc # "idle"
  BY DEF Installing
<1>2. QED
  BY <1>1 DEF SameInst, Before, Passed

LEMMA ToTaskPassed ==
  ASSUME NEW r, RunOK(r), NEW n, NEW failed, ToTask(r, n, failed), NEW S, Before(r, S),
         \A k \in 1 .. Len(Tasks[r.task]) : Tasks[r.task][k] \in S
  PROVE  Passed(n, S)
<1>1. r.task \in 1 .. Len(Tasks) /\ Len(Tasks) \in Nat
  BY PlaybookTables DEF RunOK
<1>2. \A t \in 1 .. r.task : \A k \in 1 .. Len(Tasks[t]) : Tasks[t][k] \in S
  <2>1. \A t \in 1 .. r.task : t = r.task \/ t \in 1 .. (r.task - 1)
    BY <1>1
  <2>2. QED
    BY <2>1 DEF Before
<1>3. CASE r.task = Len(Tasks) /\ n.pc = "idle"
  BY <1>2, <1>3 DEF Passed, All
<1>4. CASE /\ n.task = r.task + 1 /\ n.inst = 1
           /\ n.pc = IF r.force THEN "enroll" ELSE "check"
  <2>1. n.task - 1 = r.task /\ n.inst - 1 = 0 /\ n.pc # "idle" /\ 1 .. 0 = {}
    BY <1>1, <1>4
  <2>2. QED
    BY <1>2, <2>1 DEF Passed, Before
<1>5. QED
  BY <1>3, <1>4 DEF ToTask

LEMMA ToInstPassed ==
  ASSUME NEW r, RunOK(r), r.pc \in Installing, NEW n, NEW failed, ToInst(r, n, failed),
         NEW S, Before(r, S), Cur(r) \in S
  PROVE  Passed(n, S)
<1>1. r.inst \in 1 .. Len(Tasks[r.task]) /\ Len(Tasks[r.task]) \in Nat
  BY PlaybookTables DEF RunOK
<1>2. \A k \in 1 .. r.inst : Tasks[r.task][k] \in S
  <2>1. \A k \in 1 .. r.inst : k = r.inst \/ k \in 1 .. (r.inst - 1)
    BY <1>1
  <2>2. QED
    BY <2>1 DEF Before, Cur
<1>3. CASE r.inst = Len(Tasks[r.task]) /\ ToTask(r, n, failed)
  BY <1>2, <1>3, ToTaskPassed
<1>4. CASE /\ n.task = r.task /\ n.inst = r.inst + 1
           /\ n.pc = IF Conf[Cur(n)].backup THEN "backup" ELSE "install"
  <2>1. n.inst - 1 = r.inst /\ n.pc # "idle"
    BY <1>1, <1>4
  <2>2. QED
    BY <1>2, <1>4, <2>1 DEF Passed, Before
<1>5. QED
  BY <1>3, <1>4 DEF ToInst

(* A check that passes, with S holding the installations that pass it.     *)
LEMMA CheckedPassed ==
  ASSUME NEW r, RunOK(r), r.pc = "check", NEW n, NEW c, Checked(r, n, c), NEW S, Before(r, S),
         ~Stale(r, c) /\ c # Torn => Cur(r) \in S,
         c = Torn => \A k \in 1 .. Len(Tasks[r.task]) : Tasks[r.task][k] \in S
  PROVE  Passed(n, S)
<1>1. r.inst \in 1 .. Len(Tasks[r.task]) /\ Len(Tasks[r.task]) \in Nat
  BY PlaybookTables DEF RunOK
<1>2. ~Stale(r, c) /\ c # Torn => \A k \in 1 .. r.inst : Tasks[r.task][k] \in S
  <2>1. \A k \in 1 .. r.inst : k = r.inst \/ k \in 1 .. (r.inst - 1)
    BY <1>1
  <2>2. QED
    BY <2>1 DEF Before, Cur, Stale
<1>3. CASE c = Torn /\ ToTask(r, n, TRUE)
  BY <1>3, ToTaskPassed
<1>4. CASE /\ c # Torn /\ n.pc = "check" /\ n.task = r.task /\ n.inst = r.inst + 1
           /\ n.changed <=> Stale(r, c)
  <2>1. n.inst - 1 = r.inst /\ n.pc # "idle" /\ n.pc \notin Installing
    BY <1>1, <1>4 DEF Installing
  <2>2. QED
    BY <1>2, <1>4, <2>1 DEF Passed, Before
<1>5. CASE n.pc = "enroll" /\ n.task = r.task
  <2>1. n.pc \notin Installing /\ n.pc # "idle" /\ n.pc # "check"
    BY <1>5 DEF Installing
  <2>2. QED
    BY <1>5, <2>1 DEF Passed, Before
<1>6. CASE c # Torn /\ r.inst = Len(Tasks[r.task]) /\ ~Stale(r, c) /\ ToTask(r, n, r.failed)
  BY <1>2, <1>6, ToTaskPassed
<1>7. QED
  BY <1>3, <1>4, <1>5, <1>6 DEF Checked

(* The writes of a process to installation i, and to no other.             *)
LEMMA OthersKept ==
  ASSUME TypeOK, NEW i \in Inst, NEW x, NEW c, disk' = [disk EXCEPT ![i][x] = c],
         NEW j \in Inst \ {i}
  PROVE  disk'[j] = disk[j]
BY DEF TypeOK

(* From the second file on the certificate file has been written.          *)
LEMMA CertWritten ==
  ASSUME FilesInv, NEW p \in Run, run[p].pc \in {"install", "write"}, run[p].part # 1
  PROVE  disk[Cur(run[p])]["cert"] = run[p].got
<1>1. RunOK(run[p]) /\ Cur(run[p]) \in Inst /\ run[p].part \in Nat /\ run[p].part > 1
  <2>1. RunOK(run[p])
    BY HasCert
  <2>2. Cur(run[p]) \in Inst /\ run[p].part \in 1 .. Len(Conf[Cur(run[p])].parts)
    BY <2>1, CurOK
  <2>3. Len(Conf[Cur(run[p])].parts) \in Nat
    BY <2>2, PlaybookTables
  <2>4. QED
    BY <2>1, <2>2, <2>3
<1>2. 1 \in 1 .. (run[p].part - 1) /\ Conf[Cur(run[p])].parts[1] = "cert"
  BY <1>1, PlaybookTables
<1>3. QED
  BY <1>2 DEF FilesInv, Progress

-----------------------------------------------------------------------------
FreshAt(files, now) == {i \in Inst : files[i]["cert"] \in Cert /\ ~DueAt(files[i]["cert"], now)}

FreshRun(r, files, now) ==
  (r.pc # "idle" /\ ~r.failed) =>
    /\ Before(r, FreshAt(files, now))
    /\ r.pc \in Installing => ~DueAt(r.got, now)
    /\ r.pc \in {"after", "validate"} => Cur(r) \in FreshAt(files, now)

FreshInv == FilesInv /\ \A p \in Run : FreshRun(run[p], disk, clock)

(* What a step of a running process has to achieve: the invariant where it *)
(* goes, and what the property says when it goes to the end of the run.    *)
Fresh(n, files, now) ==
  ~n.failed =>
    /\ Passed(n, FreshAt(files, now))
    /\ n.pc \in Installing => ~DueAt(n.got, now)
    /\ n.pc \in {"after", "validate"} => Cur(n) \in FreshAt(files, now)

LEMMA FreshStep ==
  ASSUME FreshInv, FilesInv', NEW p \in Run, NEW n, Moves(p, n), Fresh(n, disk', clock)
  PROVE  FreshInv'
<1>1. FreshRun(n, disk', clock)
  BY DEF Fresh, FreshRun, Passed
<1>2. \A q \in Run \ {p} : FreshRun(run'[q], disk', clock)
  BY DEF Moves, FreshRun
<1>3. QED
  BY <1>1, <1>2 DEF FreshInv, Moves

(* A process that leaves an installation, or the task, has a new position  *)
(* with nothing written and the certificate it had.                        *)
LEMMA LeaveFresh ==
  ASSUME NEW r, RunOK(r), r.pc \in Installing, NEW n, ToInst(r, n, r.failed),
         NEW files, NEW now, ~r.failed, Before(r, FreshAt(files, now)), ~DueAt(r.got, now),
         Cur(r) \in FreshAt(files, now)
  PROVE  Fresh(n, files, now)
<1>1. Passed(n, FreshAt(files, now))
  BY ToInstPassed
<1>2. n.pc \in Installing => n.got = r.got
  BY DEF ToInst, ToTask, Installing
<1>3. n.pc \notin {"after", "validate"}
  BY DEF ToInst, ToTask
<1>4. QED
  BY <1>1, <1>2, <1>3 DEF Fresh

(* A step within an installation of which the certificate file is or will  *)
(* be written with the certificate in hand.                                *)
LEMMA StayFresh ==
  ASSUME NEW r, r.pc \in Installing, NEW n, SameInst(r, n), n.pc \in Installing,
         NEW files, NEW now, ~r.failed, Before(r, FreshAt(files, now)), ~DueAt(r.got, now),
         n.pc \in {"after", "validate"} => Cur(r) \in FreshAt(files, now)
  PROVE  Fresh(n, files, now)
<1>1. Passed(n, FreshAt(files, now))
  BY SameInstPassed
<1>2. Cur(n) = Cur(r)
  BY DEF SameInst, Cur
<1>3. QED
  BY <1>1, <1>2 DEF Fresh, SameInst

LEMMA CheckFresh ==
  ASSUME FreshInv, TypeOK', NEW p \in Run, Check(p)
  PROVE  \E n : Moves(p, n) /\ Fresh(n, disk', clock)
<1> DEFINE r == run[p]
           c == disk[Cur(r)]["cert"]
           S == FreshAt(disk, clock)
<1>0. FilesInv /\ TypeOK
  BY DEF FreshInv, FilesInv
<1>1. PICK n : Moves(p, n) /\ UNCHANGED disk /\ r.pc = "check" /\ Checked(r, n, c)
  BY <1>0, CheckMoves
<1>2. RunOK(r) /\ r.task \in 1 .. Len(Tasks) /\ r.inst \in 1 .. Len(Tasks[r.task])
  BY <1>1 DEF Moves, RunOK
<1>3. Cur(r) \in Inst /\ c \in Cert \cup {Absent, Torn}
  BY <1>0, <1>2, CertFile DEF Cur
<1>4. ~Stale(r, c) /\ c # Torn => Cur(r) \in S
  BY <1>3 DEF Stale, Due, DueAt, FreshAt
<1>5. ASSUME ~n.failed PROVE Passed(n, S)
  <2>1. c # Torn /\ ~r.failed
    BY <1>1, <1>5 DEF Checked, ToTask
  <2>2. Before(r, S)
    BY <1>1, <2>1 DEF FreshInv, FreshRun
  <2>3. QED
    BY <1>1, <1>2, <1>4, <2>1, <2>2, CheckedPassed
<1>6. n.pc \notin Installing
  BY <1>1 DEF Checked, ToTask, Installing
<1>7. n.pc \notin {"after", "validate"}
  BY <1>6 DEF Installing
<1>8. QED
  BY <1>1, <1>5, <1>6, <1>7 DEF Fresh

LEMMA EnrollFresh ==
  ASSUME Window <= Validity, FreshInv, TypeOK', NEW p \in Run, Enroll(p)
  PROVE  \E n : Moves(p, n) /\ Fresh(n, disk', clock)
<1> DEFINE S == FreshAt(disk, clock)
<1>0. FilesInv /\ TypeOK
  BY DEF FreshInv, FilesInv
<1>1. PICK n : /\ Moves(p, n) /\ UNCHANGED disk /\ run[p].pc = "enroll"
               /\ n.task = run[p].task /\ n.inst = 1
               /\ n.got \in Cert /\ n.got.issued = clock
               /\ n.failed = run[p].failed
               /\ n.pc = IF Conf[Cur(n)].backup THEN "backup" ELSE "install"
  BY <1>0, EnrollMoves
<1>2. ~DueAt(n.got, clock)
  BY <1>0, <1>1, ConstantsAssumption DEF DueAt, NotAfter, TypeOK
<1>3. n.pc \in {"backup", "install"}
  BY <1>1
<1>4. ASSUME ~n.failed PROVE Passed(n, S)
  <2>1. Before(run[p], S)
    BY <1>1, <1>4 DEF FreshInv, FreshRun
  <2>2. n.inst - 1 = 0 /\ 1 .. 0 = {}
    BY <1>1
  <2>3. QED
    BY <1>1, <1>3, <2>1, <2>2 DEF Passed, Before
<1>5. QED
  BY <1>1, <1>2, <1>3, <1>4 DEF Fresh

LEMMA QuietFresh ==
  ASSUME FreshInv, TypeOK', NEW p \in Run, Backup(p) \/ Copy(p) \/ After(p) \/ Validate(p)
  PROVE  \E n : Moves(p, n) /\ Fresh(n, disk', clock)
<1> DEFINE r == run[p]
           S == FreshAt(disk, clock)
<1>0. FilesInv /\ TypeOK
  BY DEF FreshInv, FilesInv
<1>1. PICK i : i = Cur(r)
  OBVIOUS
<1>2. PICK n : /\ Moves(p, n) /\ UNCHANGED disk /\ r.pc \in {"backup", "copy", "after", "validate"}
               /\ \/ SameInst(r, n) /\ n.pc \in {"backup", "copy", "install"}
                  \/ SameInst(r, n) /\ n.pc = "validate" /\ r.pc = "after"
                  \/ ToInst(r, n, r.failed) /\ r.pc \in {"after", "validate"}
  <2>1. CASE Backup(p)
    BY <1>0, <1>1, <2>1, BackupMoves DEF BackupTo
  <2>2. CASE Copy(p)
    BY <1>0, <1>1, <2>2, CopyMoves DEF CopyTo
  <2>3. CASE After(p)
    BY <1>0, <2>3, AfterMoves
  <2>4. CASE Validate(p)
    BY <1>0, <2>4, ValidateMoves
  <2>5. QED
    BY <2>1, <2>2, <2>3, <2>4
<1>3. RunOK(r) /\ r.pc \in Installing /\ r.pc # "idle"
  BY <1>2 DEF Moves, Installing
<1>4. ASSUME ~r.failed PROVE Fresh(n, disk, clock)
  <2>1. /\ Before(r, S) /\ ~DueAt(r.got, clock)
        /\ r.pc \in {"after", "validate"} => Cur(r) \in S
    BY <1>3, <1>4 DEF FreshInv, FreshRun
  <2>2. CASE SameInst(r, n) /\ n.pc \in {"backup", "copy", "install"}
    <3>1. n.pc \in Installing /\ n.pc \notin {"after", "validate"}
      BY <2>2 DEF Installing
    <3>2. QED
      BY <1>3, <1>4, <2>1, <2>2, <3>1, StayFresh
  <2>3. CASE SameInst(r, n) /\ n.pc = "validate" /\ r.pc = "after"
    <3>1. n.pc \in Installing
      BY <2>3 DEF Installing
    <3>2. QED
      BY <1>3, <1>4, <2>1, <2>3, <3>1, StayFresh
  <2>4. CASE ToInst(r, n, r.failed) /\ r.pc \in {"after", "validate"}
    BY <1>3, <1>4, <2>1, <2>4, LeaveFresh
  <2>5. QED
    BY <1>2, <2>2, <2>3, <2>4
<1>5. n.failed = r.failed
  BY <1>2 DEF SameInst, ToInst, ToTask
<1>6. ASSUME r.failed PROVE Fresh(n, disk, clock)
  BY <1>5, <1>6 DEF Fresh
<1>7. QED
  BY <1>2, <1>4, <1>6

LEMMA InstallFresh ==
  ASSUME FreshInv, TypeOK', NEW p \in Run, Install(p)
  PROVE  \E n : Moves(p, n) /\ Fresh(n, disk', clock)
<1> DEFINE r == run[p]
<1>0. FilesInv /\ TypeOK
  BY DEF FreshInv, FilesInv
<1>1. PICK i : i = Cur(r)
  OBVIOUS
<1>2. PICK n : /\ Moves(p, n) /\ SameInst(r, n) /\ r.pc = "install" /\ n.pc = "write"
               /\ disk' = [disk EXCEPT ![i][CurPart(r)] = Torn]
  BY <1>0, <1>1, InstallMoves DEF InstallTo
<1>3. RunOK(r) /\ r.pc \in Installing /\ n.pc \in Installing /\ i \in Inst
  BY <1>1, <1>2, CurOK DEF Moves, Installing
<1>4. FreshAt(disk, clock) \ {i} \subseteq FreshAt(disk', clock)
  BY <1>0, <1>2, <1>3, OthersKept DEF FreshAt
<1>5. ASSUME ~r.failed PROVE Fresh(n, disk', clock)
  <2>1. Before(r, FreshAt(disk, clock)) /\ ~DueAt(r.got, clock)
    BY <1>2, <1>3, <1>5 DEF FreshInv, FreshRun
  <2>2. Before(r, FreshAt(disk', clock))
    BY <1>1, <1>3, <1>4, <2>1, BeforeElsewhere, BeforeMonotonic
  <2>3. QED
    BY <1>2, <1>3, <1>5, <2>1, <2>2, StayFresh
<1>6. n.failed = r.failed
  BY <1>2 DEF SameInst
<1>7. ASSUME r.failed PROVE Fresh(n, disk', clock)
  BY <1>6, <1>7 DEF Fresh
<1>8. QED
  BY <1>2, <1>5, <1>7

LEMMA WriteFresh ==
  ASSUME FreshInv, TypeOK', NEW p \in Run, Write(p)
  PROVE  \E n : Moves(p, n) /\ Fresh(n, disk', clock)
<1> DEFINE r == run[p]
<1>0. FilesInv /\ TypeOK
  BY DEF FreshInv, FilesInv
<1>1. PICK i : i = Cur(r)
  OBVIOUS
<1>2. PICK n : /\ Moves(p, n) /\ r.pc = "write"
               /\ disk' = [disk EXCEPT ![i][CurPart(r)] = r.got]
               /\ \A k \in 1 .. r.part : disk'[i][Conf[i].parts[k]] = r.got
               /\ \/ SameInst(r, n) /\ n.pc \in {"install", "after"}
                  \/ ToInst(r, n, r.failed)
  BY <1>0, <1>1, WriteMoves DEF WriteTo
<1>3. RunOK(r) /\ r.pc \in Installing /\ i \in Inst /\ r.got \in Cert /\ r.pc # "idle"
  BY <1>0, <1>1, <1>2, CurOK, HasCert DEF Moves, Installing
<1>4. FreshAt(disk, clock) \ {i} \subseteq FreshAt(disk', clock)
  BY <1>0, <1>2, <1>3, OthersKept DEF FreshAt
<1>5. disk'[i]["cert"] = r.got
  <2>1. 1 \in 1 .. r.part /\ Conf[i].parts[1] = "cert"
    BY <1>3, PlaybookTables DEF RunOK
  <2>2. QED
    BY <1>2, <2>1
<1>6. ASSUME ~r.failed PROVE Fresh(n, disk', clock)
  <2>1. Before(r, FreshAt(disk, clock)) /\ ~DueAt(r.got, clock)
    BY <1>3, <1>6 DEF FreshInv, FreshRun
  <2>2. Before(r, FreshAt(disk', clock))
    BY <1>1, <1>3, <1>4, <2>1, BeforeElsewhere, BeforeMonotonic
  <2>3. Cur(r) \in FreshAt(disk', clock)
    BY <1>1, <1>3, <1>5, <2>1 DEF FreshAt
  <2>4. CASE SameInst(r, n) /\ n.pc \in {"install", "after"}
    <3>1. n.pc \in Installing
      BY <2>4 DEF Installing
    <3>2. QED
      BY <1>3, <1>6, <2>1, <2>2, <2>3, <2>4, <3>1, StayFresh
  <2>5. CASE ToInst(r, n, r.failed)
    BY <1>3, <1>6, <2>1, <2>2, <2>3, <2>5, LeaveFresh
  <2>6. QED
    BY <1>2, <2>4, <2>5
<1>7. n.failed = r.failed
  BY <1>2 DEF SameInst, ToInst, ToTask
<1>8. ASSUME r.failed PROVE Fresh(n, disk', clock)
  BY <1>7, <1>8 DEF Fresh
<1>9. QED
  BY <1>2, <1>6, <1>8

LEMMA StopFresh ==
  ASSUME FreshInv, TypeOK', NEW p \in Run, EnrollLost(p) \/ Fail(p) \/ Crash(p)
  PROVE  \E n : Moves(p, n) /\ Fresh(n, disk', clock)
<1>0. FilesInv
  BY DEF FreshInv
<1>1. PICK n : Moves(p, n) /\ n.failed = TRUE
  <2>1. CASE EnrollLost(p)
    BY <1>0, <2>1, EnrollLostMoves DEF ToTask
  <2>2. CASE Fail(p)
    BY <1>0, <2>2, FailMoves DEF ToTask, ToInst
  <2>3. CASE Crash(p)
    BY <1>0, <2>3, CrashMoves
  <2>4. QED
    BY <2>1, <2>2, <2>3
<1>2. QED
  BY <1>1 DEF Fresh

LEMMA StepFresh ==
  ASSUME Window <= Validity, FreshInv, TypeOK', NEW p \in Run,
         Step(p) \/ EnrollLost(p) \/ Fail(p) \/ Crash(p)
  PROVE  \E n : Moves(p, n) /\ Fresh(n, disk', clock)
BY CheckFresh, EnrollFresh, QuietFresh, InstallFresh, WriteFresh, StopFresh DEF Step

LEMMA StartFresh ==
  ASSUME Exclusive, FreshInv, FilesInv', NEW p \in Run, Start(p) PROVE FreshInv'
<1>0. FilesInv /\ TypeOK'
  BY DEF FreshInv, FilesInv
<1>1. PICK n : /\ run'[p] = n /\ \A q \in Run : run[q].pc = "idle"
               /\ \A q \in Run \ {p} : run'[q] = run[q]
               /\ n.task = 1 /\ n.inst = 1 /\ n.pc = IF n.force THEN "enroll" ELSE "check"
  BY <1>0, StartMoves DEF StartTo
<1>2. n.pc \notin Installing /\ 1 .. 0 = {} /\ n.task - 1 = 0 /\ n.inst - 1 = 0
  BY <1>1 DEF Installing
<1>3. FreshRun(n, disk', clock')
  BY <1>2 DEF FreshRun, Before, Installing
<1>4. \A q \in Run \ {p} : FreshRun(run'[q], disk', clock')
  BY <1>1 DEF FreshRun
<1>5. QED
  BY <1>1, <1>3, <1>4 DEF FreshInv

LEMMA NextFresh ==
  ASSUME Exclusive, Daily, Window <= Validity, FreshInv, [Next]_vars PROVE FreshInv'
<1>1. FilesInv' /\ TypeOK'
  BY NextFilesInv DEF FreshInv, FilesInv
<1>2. ASSUME NEW p \in Run, Step(p) \/ EnrollLost(p) \/ Fail(p) \/ Crash(p)
      PROVE  FreshInv'
  BY <1>1, <1>2, StepFresh, FreshStep
<1>3. ASSUME NEW p \in Run, Start(p) PROVE FreshInv'
  BY <1>1, <1>3, StartFresh
<1>4. CASE Tick
  <2>1. \A p \in Run : run'[p].pc = "idle"
    BY <1>4 DEF Tick, Active
  <2>2. QED
    BY <1>1, <2>1 DEF FreshInv, FreshRun
<1>5. CASE UNCHANGED vars
  BY <1>1, <1>5 DEF FreshInv, vars
<1>6. QED
  BY <1>2, <1>3, <1>4, <1>5 DEF Next, Horizon

(* When runs do not overlap, time is counted in runs, and renewBefore is   *)
(* no longer than the lifetime: a run that exits with 0 leaves every       *)
(* installation of every task with a certificate outside its renew window. *)
THEOREM SuccessLeavesFresh ==
  ASSUME Exclusive, Daily, Window <= Validity PROVE Spec => SuccessMeansFresh
<1>1. Init => FreshInv
  <2> SUFFICES ASSUME Init PROVE FreshInv
    OBVIOUS
  <2>1. \A p \in Run : run[p].pc = "idle"
    BY DEF Init, EndRun
  <2>2. QED
    BY <2>1, InitFilesInv DEF FreshInv, FreshRun
<1>2. FreshInv /\ [Next]_vars => FreshInv'
  BY NextFresh
<1>3. FreshInv /\ [Next]_vars =>
        [\A p \in Run : (Active(p) /\ run[p]'.pc = "idle" /\ ~run[p]'.failed /\ Window # 0) =>
           \A t \in 1 .. Len(Tasks) : \A k \in 1 .. Len(Tasks[t]) :
             LET c == disk'[Tasks[t][k]]["cert"] IN c \in Cert /\ ~Due(c)]_vars
  <2> SUFFICES ASSUME FreshInv, [Next]_vars, NEW p \in Run, Active(p), run[p]'.pc = "idle",
                      ~run[p]'.failed, Window # 0,
                      NEW t \in 1 .. Len(Tasks), NEW k \in 1 .. Len(Tasks[t]), vars' # vars
               PROVE  disk'[Tasks[t][k]]["cert"] \in Cert /\ ~Due(disk'[Tasks[t][k]]["cert"])
    OBVIOUS
  <2>1. FilesInv /\ TypeOK' /\ TypeOK
    BY <1>2, NextFilesInv DEF FreshInv, FilesInv
  <2>2. PICK q \in Run : Start(q) \/ Step(q) \/ EnrollLost(q) \/ Fail(q) \/ Crash(q)
    <3>1. ~Tick
      BY DEF Tick, Active
    <3>2. ~Horizon
      BY DEF Horizon, vars
    <3>3. QED
      BY <3>1, <3>2 DEF Next
  <2>3. ~Start(q)
    BY DEF Start, Active
  <2>4. PICK n : Moves(q, n) /\ Fresh(n, disk', clock)
    BY <2>1, <2>2, <2>3, StepFresh
  <2>5. p = q
    BY <2>4 DEF Moves, Active
  <2>6. All(FreshAt(disk', clock))
    BY <2>4, <2>5 DEF Moves, Fresh, Passed
  <2>7. QED
    BY <2>6 DEF All, FreshAt, DueAt, Due
<1>4. QED
  BY <1>1, <1>2, <1>3, PTL DEF Spec, SuccessMeansFresh

-----------------------------------------------------------------------------
(* OneCopyIsUsable.  As long as nothing has failed, the live files are a   *)
(* set until the copies are, and the copies are until the live files are   *)
(* again.  The first fault leaves one of them whole, and what starts at    *)
(* the installation after it ends with whole live files or another fault.  *)

AtCopy(r, i) == r.pc \in {"backup", "copy", "install", "write"} /\ Cur(r) = i

WritingAt(r, i) ==
  /\ r.pc \in {"install", "write"} /\ Cur(r) = i
  /\ r.pc = "write" \/ r.part > 1

CopyRun(r, i, files, copies) ==
  Cur(r) = i =>
    /\ r.pc \in {"backup", "copy"} =>
         \A k \in 1 .. (r.part - 1) : copies[Conf[i].parts[k]] = files[Conf[i].parts[k]]
    /\ r.pc = "copy" => copies[CurPart(r)] = Torn
    /\ r.pc \in {"install", "write"} => Usable(copies, i)

CopyInv(i) ==
  /\ faults = 0 =>
       /\ Usable(disk[i], i) \/ \E p \in Run : WritingAt(run[p], i)
       /\ \A p \in Run : CopyRun(run[p], i, disk[i], bak[i])
  /\ faults = 1 => Usable(disk[i], i) \/ Usable(bak[i], i) \/ \E p \in Run : AtCopy(run[p], i)

CopiesInv == FilesInv /\ \A i \in Installed : Conf[i].backup => CopyInv(i)

(* What a step of a running process has to achieve for installation i.     *)
Copied(n, i, files, copies, fs) ==
  /\ fs = 0 => (Usable(files, i) \/ WritingAt(n, i)) /\ CopyRun(n, i, files, copies)
  /\ fs = 1 => Usable(files, i) \/ Usable(copies, i) \/ AtCopy(n, i)

(* The position of a process that starts an installation, or none.         *)
Enters(n) ==
  \/ n.pc \in {"idle", "check", "enroll"}
  \/ n.part = 1 /\ n.pc = IF Conf[Cur(n)].backup THEN "backup" ELSE "install"

LEMMA ToInstEnters ==
  ASSUME NEW r, NEW n, NEW failed, ToTask(r, n, failed) \/ ToInst(r, n, failed) PROVE Enters(n)
<1>1. ToTask(r, n, failed) => Enters(n)
  BY DEF ToTask, Enters
<1>2. ToInst(r, n, failed) => Enters(n)
  BY <1>1 DEF ToInst, Enters
<1>3. QED
  BY <1>1, <1>2

LEMMA CopyStep ==
  ASSUME FilesInv, NEW p \in Run, NEW n, Moves(p, n), NEW i, Copied(n, i, disk'[i], bak'[i], faults')
  PROVE  CopyInv(i)'
<1>1. \A q \in Run \ {p} : run'[q].pc = "idle"
  BY DEF Moves
<1>2. \A q \in Run \ {p} : CopyRun(run'[q], i, disk'[i], bak'[i])
  BY <1>1 DEF CopyRun
<1>3. run'[p] = n
  BY DEF Moves
<1>4. faults' = 0 => /\ Usable(disk'[i], i) \/ \E q \in Run : WritingAt(run'[q], i)
                     /\ \A q \in Run : CopyRun(run'[q], i, disk'[i], bak'[i])
  BY <1>2, <1>3 DEF Copied
<1>5. faults' = 1 => Usable(disk'[i], i) \/ Usable(bak'[i], i) \/ \E q \in Run : AtCopy(run'[q], i)
  BY <1>3 DEF Copied
<1>6. QED
  BY <1>4, <1>5 DEF CopyInv, CopyRun, Usable, Uniform, Parts, WritingAt, AtCopy, Cur, CurPart

(* The invariant, seen from the only process that is active.               *)
LEMMA CopyAlone ==
  ASSUME NEW p \in Run, \A q \in Run \ {p} : run[q].pc = "idle", NEW i, CopyInv(i)
  PROVE  /\ faults = 0 => /\ Usable(disk[i], i) \/ WritingAt(run[p], i)
                          /\ CopyRun(run[p], i, disk[i], bak[i])
         /\ faults = 1 => Usable(disk[i], i) \/ Usable(bak[i], i) \/ AtCopy(run[p], i)
BY DEF CopyInv, WritingAt, AtCopy

(* A process that has nothing to do with the files of i leaves them alone. *)
LEMMA QuietCopied ==
  ASSUME TypeOK, NEW p \in Run, \A q \in Run \ {p} : run[q].pc = "idle",
         NEW i \in Inst, Conf[i].backup, CopyInv(i),
         NEW n, ~AtCopy(run[p], i), NEW fs, fs \in {faults, faults + 1},
         Cur(n) # i \/ Enters(n) \/ n.pc = "validate"
  PROVE  Copied(n, i, disk[i], bak[i], fs)
<1>1. ~WritingAt(run[p], i)
  BY DEF WritingAt, AtCopy
<1>2. /\ faults = 0 => Usable(disk[i], i)
      /\ faults = 1 => Usable(disk[i], i) \/ Usable(bak[i], i)
  BY <1>1, CopyAlone
<1>3. fs = 0 => faults = 0
  BY DEF TypeOK
<1>4. fs = 1 => faults = 0 \/ faults = 1
  BY DEF TypeOK
<1>5. CopyRun(n, i, disk[i], bak[i])
  <2>1. CASE Cur(n) # i
    BY <2>1 DEF CopyRun
  <2>2. CASE n.pc \in {"idle", "check", "enroll", "validate"}
    BY <2>2 DEF CopyRun
  <2>3. CASE Cur(n) = i /\ n.part = 1 /\ n.pc = IF Conf[Cur(n)].backup THEN "backup" ELSE "install"
    <3>1. n.pc = "backup" /\ n.part - 1 = 0 /\ 1 .. 0 = {}
      BY <2>3
    <3>2. QED
      BY <3>1 DEF CopyRun
  <2>4. QED
    BY <2>1, <2>2, <2>3 DEF Enters
<1>6. QED
  BY <1>2, <1>3, <1>4, <1>5 DEF Copied

(* A fault while a process works on i: one of the two copies is whole if   *)
(* it is the first.                                                        *)
LEMMA FaultCopied ==
  ASSUME TypeOK, NEW p \in Run, \A q \in Run \ {p} : run[q].pc = "idle",
         NEW i \in Inst, CopyInv(i), NEW n, NEW fs, fs = faults + 1
  PROVE  Copied(n, i, disk[i], bak[i], fs)
<1>1. fs # 0 /\ (fs = 1 => faults = 0)
  BY DEF TypeOK
<1>2. faults = 0 => Usable(disk[i], i) \/ Usable(bak[i], i)
  BY CopyAlone DEF WritingAt, CopyRun
<1>3. QED
  BY <1>1, <1>2 DEF Copied

(* The files that are named by the parts of an installation.               *)
LEMMA PartsTable ==
  ASSUME NEW i \in Inst
  PROVE  /\ Len(Conf[i].parts) \in Nat \ {0}
         /\ \A k \in 1 .. Len(Conf[i].parts) : Conf[i].parts[k] \in Parts(i) /\ Conf[i].parts[k] \in Part
         /\ \A j, k \in 1 .. Len(Conf[i].parts) : Conf[i].parts[j] = Conf[i].parts[k] => j = k
         /\ "cert" \in Parts(i) /\ Conf[i].parts[1] = "cert"
<1>1. /\ Len(Conf[i].parts) \in Nat \ {0} /\ Conf[i].parts[1] = "cert"
      /\ \A k \in 1 .. Len(Conf[i].parts) : Conf[i].parts[k] \in Part
  BY PlaybookTables
<1>2. 1 \in 1 .. Len(Conf[i].parts)
  BY <1>1
<1>3. QED
  BY <1>1, <1>2, DistinctFilesAssumption DEF Parts

LEMMA BackupCopied ==
  ASSUME CopiesInv, TypeOK', NEW p \in Run, Backup(p), NEW i \in Inst, i = Cur(run[p]), CopyInv(i)
  PROVE  \E n : Moves(p, n) /\ Copied(n, i, disk'[i], bak'[i], faults')
<1> DEFINE r == run[p]
<1>0. FilesInv /\ TypeOK /\ disk \in [Inst -> [Part -> Content]] /\ bak \in [Inst -> [Part -> Content]]
  BY DEF CopiesInv, FilesInv, TypeOK
<1>1. PICK n : Moves(p, n) /\ BackupTo(p, n, i)
  BY <1>0, BackupMoves
<1>2. /\ RunOK(r) /\ Cur(n) = i /\ CurPart(r) \in Part /\ CurPart(r) \in Parts(i)
      /\ r.part \in 1 .. Len(Conf[i].parts)
  BY <1>1, CurOK DEF Moves, SameInst, Cur, BackupTo
<1>3. AtCopy(n, i)
  BY <1>1, <1>2 DEF AtCopy, BackupTo
<1>4. ASSUME faults = 0
      PROVE  Usable(disk[i], i) /\ CopyRun(n, i, disk'[i], bak'[i])
  <2>1. Usable(disk[i], i) /\ CopyRun(r, i, disk[i], bak[i])
    <3>1. ~WritingAt(r, i)
      BY <1>1 DEF WritingAt, BackupTo
    <3>2. QED
      BY <1>1, <1>4, <3>1, CopyAlone DEF Moves, BackupTo
  <2>2. disk[i]["cert"] # Absent /\ disk[i][CurPart(r)] # Absent
    BY <1>2, <2>1, PartsTable, ConstantsAssumption DEF Usable, Uniform
  <2>3. n.pc = "copy" /\ n.part = r.part /\ bak' = [bak EXCEPT ![i][CurPart(r)] = Torn]
    BY <1>1, <2>2 DEF BackupTo
  <2>4. bak'[i] = [bak[i] EXCEPT ![CurPart(r)] = Torn]
    BY <1>0, <2>3
  <2>5. CurPart(n) = CurPart(r) /\ CurPart(r) = Conf[i].parts[r.part]
    BY <1>1, <1>2, <2>3 DEF CurPart, BackupTo
  <2>6. bak'[i][CurPart(n)] = Torn
    BY <1>0, <1>2, <2>4, <2>5
  <2>7. ASSUME NEW k \in 1 .. (r.part - 1)
        PROVE  bak'[i][Conf[i].parts[k]] = disk[i][Conf[i].parts[k]]
    <3>1. k \in 1 .. Len(Conf[i].parts) /\ k # r.part
      BY <1>2, PartsTable
    <3>2. Conf[i].parts[k] # CurPart(r) /\ Conf[i].parts[k] \in Part
      BY <1>2, <2>5, <3>1, PartsTable
    <3>3. bak[i][Conf[i].parts[k]] = disk[i][Conf[i].parts[k]]
      BY <1>1, <2>1 DEF CopyRun, BackupTo
    <3>4. QED
      BY <1>0, <2>4, <3>2, <3>3
  <2>8. QED
    BY <1>1, <2>1, <2>3, <2>6, <2>7 DEF CopyRun, BackupTo
<1>5. QED
  BY <1>1, <1>3, <1>4 DEF Copied, BackupTo

LEMMA CopyCopied ==
  ASSUME CopiesInv, TypeOK', NEW p \in Run, Copy(p), NEW i \in Inst, i = Cur(run[p]), CopyInv(i)
  PROVE  \E n : Moves(p, n) /\ Copied(n, i, disk'[i], bak'[i], faults')
<1> DEFINE r == run[p]
           parts == Conf[i].parts
<1>0. FilesInv /\ TypeOK /\ disk \in [Inst -> [Part -> Content]] /\ bak \in [Inst -> [Part -> Content]]
  BY DEF CopiesInv, FilesInv, TypeOK
<1>1. PICK n : Moves(p, n) /\ CopyTo(p, n, i)
  BY <1>0, CopyMoves
<1>2. /\ RunOK(r) /\ Cur(n) = i /\ CurPart(r) \in Part
      /\ r.part \in 1 .. Len(parts) /\ Len(parts) \in Nat
  BY <1>1, CurOK, PartsTable DEF Moves, SameInst, Cur, CopyTo
<1>3. AtCopy(n, i)
  BY <1>1, <1>2 DEF AtCopy, CopyTo
<1>4. ASSUME faults = 0
      PROVE  Usable(disk[i], i) /\ CopyRun(n, i, disk'[i], bak'[i])
  <2>1. Usable(disk[i], i) /\ CopyRun(r, i, disk[i], bak[i])
    <3>1. ~WritingAt(r, i)
      BY <1>1 DEF WritingAt, CopyTo
    <3>2. QED
      BY <1>1, <1>4, <3>1, CopyAlone DEF Moves, CopyTo
  <2>2. Overlaid(bak[i][CurPart(r)], disk[i][CurPart(r)]) = {disk[i][CurPart(r)]}
    BY <1>1, <2>1 DEF CopyRun, Overlaid, CopyTo
  <2>3. bak' = [bak EXCEPT ![i][CurPart(r)] = disk[i][CurPart(r)]]
    BY <1>1, <2>2 DEF CopyTo
  <2>4. ASSUME NEW k \in 1 .. r.part
        PROVE  bak'[i][parts[k]] = disk[i][parts[k]]
    <3>1. k \in 1 .. Len(parts) /\ parts[k] \in Part /\ (k # r.part => k \in 1 .. (r.part - 1))
      BY <1>2, PartsTable
    <3>2. k # r.part => bak[i][parts[k]] = disk[i][parts[k]]
      BY <1>1, <2>1, <3>1 DEF CopyRun, CopyTo
    <3>3. CurPart(r) = parts[r.part]
      BY DEF CurPart
    <3>4. QED
      BY <1>0, <1>2, <2>3, <3>1, <3>2, <3>3
  <2>5. CASE ~LastPart(r)
    <3>1. n.pc = "backup" /\ n.part - 1 = r.part
      BY <1>1, <1>2, <2>5 DEF CopyTo
    <3>2. QED
      BY <1>1, <2>1, <2>4, <3>1 DEF CopyRun, CopyTo
  <2>6. CASE LastPart(r)
    <3>1. \A x \in Parts(i) : bak'[i][x] = disk[i][x]
      BY <2>4, <2>6 DEF Parts, LastPart
    <3>2. Usable(bak'[i], i)
      BY <2>1, <3>1, PartsTable DEF Usable, Uniform
    <3>3. QED
      BY <1>1, <2>1, <2>6, <3>2 DEF CopyRun, CopyTo
  <2>7. QED
    BY <2>5, <2>6
<1>5. QED
  BY <1>1, <1>3, <1>4 DEF Copied, CopyTo

LEMMA InstallCopied ==
  ASSUME CopiesInv, TypeOK', NEW p \in Run, Install(p), NEW i \in Inst, i = Cur(run[p]), CopyInv(i)
  PROVE  \E n : Moves(p, n) /\ Copied(n, i, disk'[i], bak'[i], faults')
<1> DEFINE r == run[p]
<1>0. FilesInv
  BY DEF CopiesInv
<1>1. PICK n : Moves(p, n) /\ InstallTo(p, n, i)
  BY <1>0, InstallMoves
<1>2. AtCopy(n, i) /\ WritingAt(n, i)
  BY <1>1 DEF AtCopy, WritingAt, SameInst, Cur, InstallTo
<1>3. faults = 0 => Usable(bak[i], i)
  BY <1>1, CopyAlone DEF Moves, CopyRun, InstallTo
<1>4. QED
  BY <1>1, <1>2, <1>3 DEF Copied, CopyRun, InstallTo

LEMMA WriteCopied ==
  ASSUME CopiesInv, TypeOK', NEW p \in Run, Write(p), NEW i \in Inst, i = Cur(run[p]), CopyInv(i),
         Conf[i].backup
  PROVE  \E n : Moves(p, n) /\ Copied(n, i, disk'[i], bak'[i], faults')
<1> DEFINE r == run[p]
<1>0. FilesInv
  BY DEF CopiesInv
<1>1. PICK n : Moves(p, n) /\ WriteTo(p, n, i)
  BY <1>0, WriteMoves
<1>2. RunOK(r) /\ r.got \in Cert /\ r.part \in 1 .. Len(Conf[i].parts) /\ Len(Conf[i].parts) \in Nat
  BY <1>0, <1>1, HasCert, CurOK, PartsTable DEF Moves, Installing, WriteTo
<1>3. CASE ~LastPart(r)
  <2>1. SameInst(r, n) /\ n.pc = "install" /\ n.part > 1
    BY <1>1, <1>2, <1>3 DEF WriteTo
  <2>2. AtCopy(n, i) /\ WritingAt(n, i)
    BY <2>1 DEF AtCopy, WritingAt, SameInst, Cur
  <2>3. faults = 0 => Usable(bak[i], i)
    BY <1>1, CopyAlone DEF Moves, CopyRun, WriteTo
  <2>4. QED
    BY <1>1, <2>1, <2>2, <2>3 DEF Copied, CopyRun, WriteTo
<1>4. CASE LastPart(r)
  <2>1. \A x \in Parts(i) : disk'[i][x] = r.got
    BY <1>1, <1>4 DEF Parts, LastPart, WriteTo
  <2>2. Usable(disk'[i], i)
    BY <1>2, <2>1, PartsTable, ConstantsAssumption DEF Usable, Uniform
  <2>3. CopyRun(n, i, disk'[i], bak'[i])
    <3>1. CASE n.pc = "after"
      BY <3>1 DEF CopyRun
    <3>2. CASE Enters(n)
      <4>1. CASE n.pc \in {"idle", "check", "enroll"}
        BY <4>1 DEF CopyRun
      <4>2. CASE Cur(n) = i /\ n.part = 1 /\ n.pc = IF Conf[Cur(n)].backup THEN "backup" ELSE "install"
        <5>1. n.pc = "backup" /\ n.part - 1 = 0 /\ 1 .. 0 = {}
          BY <4>2
        <5>2. QED
          BY <5>1 DEF CopyRun
      <4>3. CASE Cur(n) # i
        BY <4>3 DEF CopyRun
      <4>4. QED
        BY <3>2, <4>1, <4>2, <4>3 DEF Enters
    <3>3. QED
      BY <1>1, <1>4, <3>1, <3>2, ToInstEnters DEF WriteTo
  <2>4. QED
    BY <1>1, <2>2, <2>3 DEF Copied, WriteTo
<1>5. QED
  BY <1>3, <1>4

(* A step of p at another installation than i, or before or after its      *)
(* files, or a fault.                                                      *)
LEMMA OtherCopied ==
  ASSUME CopiesInv, TypeOK', NEW p \in Run, Step(p) \/ EnrollLost(p) \/ Fail(p) \/ Crash(p),
         NEW i \in Inst, CopyInv(i), Conf[i].backup,
         ~AtCopy(run[p], i) \/ Fail(p) \/ Crash(p)
  PROVE  \E n : Moves(p, n) /\ Copied(n, i, disk'[i], bak'[i], faults')
<1> DEFINE r == run[p]
<1>0. FilesInv /\ TypeOK
  BY DEF CopiesInv, FilesInv
<1>1. PICK j : j = Cur(r)
  OBVIOUS
<1>2. CASE Fail(p) \/ Crash(p)
  <2>1. PICK n : Moves(p, n) /\ UNCHANGED <<disk, bak>> /\ faults' = faults + 1
    BY <1>0, <1>2, FailMoves, CrashMoves
  <2>2. Copied(n, i, disk[i], bak[i], faults')
    BY <1>0, <2>1, FaultCopied DEF Moves
  <2>3. QED
    BY <2>1, <2>2
<1>3. CASE ~AtCopy(r, i) /\ (Check(p) \/ Enroll(p) \/ EnrollLost(p) \/ After(p) \/ Validate(p))
  <2>1. PICK n : /\ Moves(p, n) /\ UNCHANGED <<disk, bak>> /\ faults' \in {faults, faults + 1}
                 /\ Enters(n) \/ n.pc = "validate"
    <3>1. CASE Check(p)
      <4>0. PICK c : c = disk[Cur(r)]["cert"]
        OBVIOUS
      <4>1. PICK n : Moves(p, n) /\ UNCHANGED <<disk, bak, faults>> /\ Checked(r, n, c)
        BY <1>0, <3>1, <4>0, CheckMoves
      <4>2. Enters(n)
        BY <4>1, ToInstEnters DEF Checked, Enters
      <4>3. QED
        BY <4>1, <4>2
    <3>2. CASE Enroll(p)
      BY <1>0, <3>2, EnrollMoves DEF Enters
    <3>3. CASE EnrollLost(p)
      BY <1>0, <3>3, EnrollLostMoves, ToInstEnters
    <3>4. CASE After(p)
      BY <1>0, <3>4, AfterMoves, ToInstEnters
    <3>5. CASE Validate(p)
      BY <1>0, <3>5, ValidateMoves, ToInstEnters
    <3>6. QED
      BY <1>3, <3>1, <3>2, <3>3, <3>4, <3>5
  <2>2. Copied(n, i, disk[i], bak[i], faults')
    BY <1>0, <1>3, <2>1, QuietCopied DEF Moves
  <2>3. QED
    BY <2>1, <2>2
<1>4. CASE ~AtCopy(r, i) /\ (Backup(p) \/ Copy(p) \/ Install(p) \/ Write(p))
  <2> DEFINE Apart(n) == /\ faults' = faults /\ disk'[i] = disk[i] /\ bak'[i] = bak[i]
                         /\ Cur(n) # i \/ Enters(n)
  <2>1. ASSUME r.pc \in {"backup", "copy", "install", "write"} PROVE j # i
    BY <1>1, <1>4, <2>1 DEF AtCopy
  <2>2. ASSUME NEW n, SameInst(r, n) PROVE Cur(n) = j
    BY <1>1, <2>2 DEF SameInst, Cur
  <2>3. ASSUME NEW files, files \in [Inst -> [Part -> Content]], j # i, NEW x, NEW c
        PROVE  [files EXCEPT ![j][x] = c][i] = files[i]
    BY <2>3
  <2>4. disk \in [Inst -> [Part -> Content]] /\ bak \in [Inst -> [Part -> Content]]
    BY <1>0 DEF TypeOK
  <2>5. \E n : Moves(p, n) /\ Apart(n)
    <3>1. CASE Backup(p)
      <4>1. PICK n : Moves(p, n) /\ BackupTo(p, n, j)
        BY <1>0, <1>1, <3>1, BackupMoves
      <4>2. Apart(n)
        BY <2>1, <2>2, <2>3, <2>4, <4>1 DEF BackupTo
      <4>3. QED
        BY <4>1, <4>2
    <3>2. CASE Copy(p)
      <4>1. PICK n : Moves(p, n) /\ CopyTo(p, n, j)
        BY <1>0, <1>1, <3>2, CopyMoves
      <4>2. Apart(n)
        BY <2>1, <2>2, <2>3, <2>4, <4>1 DEF CopyTo
      <4>3. QED
        BY <4>1, <4>2
    <3>3. CASE Install(p)
      <4>1. PICK n : Moves(p, n) /\ InstallTo(p, n, j)
        BY <1>0, <1>1, <3>3, InstallMoves
      <4>2. Apart(n)
        BY <2>1, <2>2, <2>3, <2>4, <4>1 DEF InstallTo
      <4>3. QED
        BY <4>1, <4>2
    <3>4. CASE Write(p)
      <4>1. PICK n : Moves(p, n) /\ WriteTo(p, n, j)
        BY <1>0, <1>1, <3>4, WriteMoves
      <4>2. Apart(n)
        BY <2>1, <2>2, <2>3, <2>4, <4>1, ToInstEnters DEF WriteTo
      <4>3. QED
        BY <4>1, <4>2
    <3>5. QED
      BY <1>4, <3>1, <3>2, <3>3, <3>4
  <2>6. PICK n : Moves(p, n) /\ Apart(n)
    BY <2>5
  <2>7. Copied(n, i, disk[i], bak[i], faults')
    BY <1>0, <1>4, <2>6, QuietCopied DEF Moves
  <2>8. QED
    BY <2>6, <2>7
<1>5. QED
  BY <1>2, <1>3, <1>4 DEF Step

LEMMA StepCopied ==
  ASSUME CopiesInv, TypeOK', NEW p \in Run, Step(p) \/ EnrollLost(p) \/ Fail(p) \/ Crash(p),
         NEW i \in Inst, CopyInv(i), Conf[i].backup
  PROVE  \E n : Moves(p, n) /\ Copied(n, i, disk'[i], bak'[i], faults')
<1>1. CASE AtCopy(run[p], i) /\ ~Fail(p) /\ ~Crash(p)
  <2>1. Backup(p) \/ Copy(p) \/ Install(p) \/ Write(p)
    BY <1>1 DEF Step, AtCopy, Check, Enroll, After, Validate, EnrollLost
  <2>2. i = Cur(run[p])
    BY <1>1 DEF AtCopy
  <2>3. CASE Backup(p)
    BY <2>2, <2>3, BackupCopied
  <2>4. CASE Copy(p)
    BY <2>2, <2>4, CopyCopied
  <2>5. CASE Install(p)
    BY <2>2, <2>5, InstallCopied
  <2>6. CASE Write(p)
    BY <2>2, <2>6, WriteCopied
  <2>7. QED
    BY <2>1, <2>3, <2>4, <2>5, <2>6
<1>2. CASE ~AtCopy(run[p], i) \/ Fail(p) \/ Crash(p)
  BY <1>2, OtherCopied
<1>3. QED
  BY <1>1, <1>2

LEMMA NextCopies == ASSUME Exclusive, CopiesInv, [Next]_vars PROVE CopiesInv'
<1>1. FilesInv /\ FilesInv' /\ TypeOK'
  BY NextFilesInv DEF CopiesInv, FilesInv
<1> SUFFICES ASSUME NEW i \in Installed, Conf[i].backup PROVE CopyInv(i)'
  BY <1>1 DEF CopiesInv
<1>2. i \in Inst /\ CopyInv(i)
  BY ConstantsAssumption DEF CopiesInv
<1>3. ASSUME NEW p \in Run, Step(p) \/ EnrollLost(p) \/ Fail(p) \/ Crash(p)
      PROVE  CopyInv(i)'
  BY <1>1, <1>2, <1>3, StepCopied, CopyStep
<1>4. ASSUME NEW p \in Run, Start(p) PROVE CopyInv(i)'
  <2>1. PICK n : StartTo(p, n)
    BY <1>1, <1>4, StartMoves
  <2>2. \A q \in Run : run'[q].pc \in {"idle", "check", "enroll"}
    BY <2>1 DEF StartTo
  <2>3. /\ faults = 0 => Usable(disk[i], i)
        /\ faults = 1 => Usable(disk[i], i) \/ Usable(bak[i], i)
    BY <1>2, <2>1, CopyAlone DEF WritingAt, AtCopy, StartTo
  <2>4. /\ Usable(disk[i], i) => Usable(disk[i], i)'
        /\ Usable(bak[i], i) => Usable(bak[i], i)'
    BY <2>1 DEF Usable, Uniform, Parts, StartTo
  <2>5. \A q \in Run : CopyRun(run[q], i, disk[i], bak[i])'
    BY <2>2 DEF CopyRun, Cur
  <2>6. QED
    BY <2>1, <2>3, <2>4, <2>5 DEF CopyInv, StartTo
<1>5. CASE UNCHANGED <<disk, bak, faults, run>>
  BY <1>2, <1>5 DEF CopyInv, CopyRun, Usable, Uniform, Parts, WritingAt, AtCopy, Cur, CurPart
<1>6. CASE Tick
  BY <1>5, <1>6 DEF Tick
<1>7. CASE UNCHANGED vars
  BY <1>5, <1>7 DEF vars
<1>8. QED
  BY <1>3, <1>4, <1>6, <1>7 DEF Next, Horizon

(* When runs do not overlap: wherever the first fault strikes, the files   *)
(* of an installation with backup or their copies are one whole set, for   *)
(* every installation that had one, and so it is after the runs that end   *)
(* before the next fault.                                                  *)
THEOREM CopiesStayUsable == ASSUME Exclusive PROVE Spec => []OneCopyIsUsable
<1>1. Init => CopiesInv
  <2> SUFFICES ASSUME Init PROVE CopiesInv
    OBVIOUS
  <2>1. \A p \in Run : run[p].pc = "idle"
    BY DEF Init, EndRun
  <2> SUFFICES ASSUME NEW i \in Installed PROVE CopyInv(i)
    BY InitFilesInv DEF CopiesInv
  <2> DEFINE first == [id |-> 1, issued |-> 0]
             Files(j) == [x \in Part |-> IF j \in Installed /\ x \in Parts(j) THEN first ELSE Absent]
  <2>2. i \in Inst /\ first \in Cert
    BY ConstantsAssumption DEF Cert
  <2>3. disk[i] = Files(i) /\ faults = 0
    BY <2>2 DEF Init
  <2> HIDE DEF first
  <2>4. \A x \in Parts(i) : x \in Part /\ Files(i)[x] = first
    BY <2>2, PartsTable DEF Parts
  <2>5. Usable(disk[i], i)
    BY <2>2, <2>3, <2>4, PartsTable, ConstantsAssumption DEF Usable, Uniform
  <2>6. QED
    BY <2>1, <2>3, <2>5 DEF CopyInv, CopyRun
<1>2. CopiesInv /\ [Next]_vars => CopiesInv'
  BY NextCopies
<1>3. CopiesInv => OneCopyIsUsable
  <2> SUFFICES ASSUME CopiesInv, faults = 0 \/ (faults = 1 /\ AtRest),
                      NEW i \in Installed, Conf[i].backup
               PROVE  Usable(disk[i], i) \/ Usable(bak[i], i)
    BY DEF OneCopyIsUsable
  <2>1. CopyInv(i)
    BY DEF CopiesInv
  <2>2. CASE faults = 0
    BY <2>1, <2>2 DEF CopyInv, WritingAt, CopyRun
  <2>3. CASE faults = 1 /\ AtRest
    BY <2>1, <2>3 DEF CopyInv, AtCopy, AtRest, Active
  <2>4. QED
    BY <2>2, <2>3
<1>4. QED
  BY <1>1, <1>2, <1>3, PTL DEF Spec

-----------------------------------------------------------------------------
(* NoExpiry.  In each period a run has renewed what is due, or met a fault *)
(* in the attempt: the periods by which a certificate is late are bounded  *)
(* by the faults.  A task with a torn certificate file is the exception,   *)
(* because the check of that file is an error of the task in every run.    *)

Renewing == /\ Exclusive /\ Daily /\ ForceRenew \subseteq {FALSE}
            /\ Window # 0 /\ Window <= Validity

(* The certificate file is about to be written.                            *)
AtWork(r) == IF r.pc = "write" THEN {Cur(r)} ELSE {}

WrittenNow == {i \in Inst : \E p \in Run : i \in AtWork(run[p])}

(* Task t has a torn certificate file that nobody is about to write.       *)
Blocked(t, files, work) ==
  \E k \in 1 .. Len(Tasks[t]) : Tasks[t][k] \notin work /\ files[Tasks[t][k]]["cert"] = Torn

(* A certificate has not been in its window before period d.               *)
InTime(c, d) == c \in Cert => d <= NotAfter(c) - Window

TaskInTime(t, files, work, d) ==
  Blocked(t, files, work) \/ \A k \in 1 .. Len(Tasks[t]) : InTime(files[Tasks[t][k]]["cert"], d)

Served(files, work, d) ==
  {i \in Inst : \/ InTime(files[i]["cert"], d)
                \/ \E t \in 1 .. Len(Tasks) : /\ Blocked(t, files, work)
                                              /\ \E k \in 1 .. Len(Tasks[t]) : i = Tasks[t][k]}

(* The certificate files that r has not reached are not torn: the checks   *)
(* of the task have decoded them.                                          *)
Sound(r, files) ==
  /\ r.pc = "check" => \A k \in 1 .. (r.inst - 1) : files[Tasks[r.task][k]]["cert"] # Torn
  /\ r.pc = "enroll" => \A k \in 1 .. Len(Tasks[r.task]) : files[Tasks[r.task][k]]["cert"] # Torn
  /\ r.pc \in Installing =>
       \A k \in 1 .. Len(Tasks[r.task]) :
         (k > r.inst \/ (k = r.inst /\ r.pc \in {"backup", "copy"})
                     \/ (k = r.inst /\ r.pc = "install" /\ r.part = 1)) =>
           files[Tasks[r.task][k]]["cert"] # Torn

OnTime(r, files, d) ==
  /\ r.force = FALSE
  /\ r.pc \in Installing => InTime(r.got, d)
  /\ r.pc \in {"after", "validate"} => Cur(r) \in Served(files, AtWork(r), d)
  /\ Sound(r, files)

ExpiryInv ==
  /\ FilesInv
  /\ \A t \in 1 .. Len(Tasks) : TaskInTime(t, disk, WrittenNow, clock - faults - 1)
  /\ ran => \A t \in 1 .. Len(Tasks) : TaskInTime(t, disk, WrittenNow, clock - faults)
  /\ \A p \in Run :
       /\ OnTime(run[p], disk, clock - faults)
       /\ run[p].pc # "idle" => Before(run[p], Served(disk, AtWork(run[p]), clock - faults))

(* What a step of a running process has to achieve.                        *)
Expiring(n, files, d) == OnTime(n, files, d) /\ Passed(n, Served(files, AtWork(n), d))

TasksKept(r, n, files, new, d, e) ==
  \A t \in 1 .. Len(Tasks) : TaskInTime(t, files, AtWork(r), d) => TaskInTime(t, new, AtWork(n), e)

LEMMA WorkOfOne ==
  ASSUME TypeOK, NEW p \in Run, \A q \in Run \ {p} : run[q].pc = "idle"
  PROVE  WrittenNow = AtWork(run[p])
<1>1. Cur(run[p]) \in Inst
  BY CurOK DEF TypeOK
<1>2. \A q \in Run \ {p} : AtWork(run[q]) = {}
  BY DEF AtWork
<1>3. AtWork(run[p]) \subseteq Inst
  BY <1>1 DEF AtWork
<1>4. QED
  BY <1>2, <1>3 DEF WrittenNow

LEMMA InTimeMonotonic ==
  ASSUME NEW c, NEW d \in Int, NEW e \in Int, e <= d, InTime(c, d) PROVE InTime(c, e)
<1> SUFFICES ASSUME c \in Cert PROVE e <= NotAfter(c) - Window
  BY DEF InTime
<1>1. NotAfter(c) - Window \in Int
  BY ConstantsAssumption DEF NotAfter, Cert
<1>2. QED
  BY <1>1 DEF InTime

(* A position that is served is in time, or its own task is blocked.       *)
LEMMA AllServed ==
  ASSUME NEW files, NEW work, NEW d, All(Served(files, work, d)), NEW t \in 1 .. Len(Tasks)
  PROVE  TaskInTime(t, files, work, d)
<1> SUFFICES ASSUME NEW k \in 1 .. Len(Tasks[t]), ~Blocked(t, files, work)
             PROVE  InTime(files[Tasks[t][k]]["cert"], d)
  BY DEF TaskInTime
<1>1. Tasks[t][k] \in Served(files, work, d)
  BY DEF All
<1>2. ASSUME NEW u \in 1 .. Len(Tasks), NEW j \in 1 .. Len(Tasks[u]), Tasks[t][k] = Tasks[u][j]
      PROVE  ~Blocked(u, files, work)
  BY <1>2, DistinctFilesAssumption
<1>3. QED
  BY <1>1, <1>2 DEF Served

LEMMA ServedAll ==
  ASSUME NEW files, NEW work, NEW d, \A t \in 1 .. Len(Tasks) : TaskInTime(t, files, work, d)
  PROVE  All(Served(files, work, d))
<1> SUFFICES ASSUME NEW t \in 1 .. Len(Tasks), NEW k \in 1 .. Len(Tasks[t])
             PROVE  Tasks[t][k] \in Served(files, work, d)
  BY DEF All
<1>1. Tasks[t][k] \in Inst
  BY PlaybookTables
<1>2. QED
  BY <1>1 DEF TaskInTime, Served

LEMMA AllPassed ==
  ASSUME NEW n, RunOK(n), NEW S, All(S) PROVE Passed(n, S)
<1>1. /\ n.task \in 1 .. Len(Tasks) /\ n.inst \in 1 .. Len(Tasks[n.task])
      /\ Len(Tasks) \in Nat /\ Len(Tasks[n.task]) \in Nat
  BY PlaybookTables DEF RunOK
<1>2. /\ \A t \in 1 .. (n.task - 1) : t \in 1 .. Len(Tasks)
      /\ \A k \in 1 .. (n.inst - 1) : k \in 1 .. Len(Tasks[n.task])
  BY <1>1
<1>3. QED
  BY <1>1, <1>2 DEF Passed, Before, All

LEMMA ExpiryStep ==
  ASSUME ExpiryInv, FilesInv', NEW p \in Run, NEW n, Moves(p, n),
         Expiring(n, disk', clock - faults'),
         TasksKept(run[p], n, disk, disk', clock - faults - 1, clock - faults' - 1),
         TasksKept(run[p], n, disk, disk', clock - faults, clock - faults')
  PROVE  ExpiryInv'
<1>1. clock' = clock /\ run'[p] = n /\ ran' = (ran \/ n.pc = "idle")
  BY DEF Moves
<1>2. WrittenNow = AtWork(run[p]) /\ WrittenNow' = AtWork(n)
  <2>1. TypeOK /\ TypeOK'
    BY DEF ExpiryInv, FilesInv
  <2>2. /\ \A q \in Run \ {p} : run[q].pc = "idle"
        /\ \A q \in Run \ {p} : run'[q].pc = "idle"
    BY DEF Moves
  <2>3. WrittenNow = AtWork(run[p])
    BY <2>1, <2>2, WorkOfOne
  <2>4. Cur(n) \in Inst
    BY CurOK DEF Moves
  <2>5. WrittenNow' = {i \in Inst : \E q \in Run : i \in AtWork(run'[q])}
    BY DEF WrittenNow, AtWork, Cur
  <2>6. \A q \in Run \ {p} : AtWork(run'[q]) = {}
    BY <2>2 DEF AtWork
  <2>7. AtWork(n) \subseteq Inst
    BY <2>4 DEF AtWork
  <2>8. QED
    BY <1>1, <2>3, <2>5, <2>6, <2>7
<1>3. \A t \in 1 .. Len(Tasks) : TaskInTime(t, disk', AtWork(n), clock - faults' - 1)
  BY <1>2 DEF ExpiryInv, TasksKept
<1>4. (ran \/ n.pc = "idle") =>
         \A t \in 1 .. Len(Tasks) : TaskInTime(t, disk', AtWork(n), clock - faults')
  <2>1. CASE ran
    BY <1>2, <2>1 DEF ExpiryInv, TasksKept
  <2>2. CASE n.pc = "idle"
    BY <2>2, AllServed DEF Expiring, Passed
  <2>3. QED
    BY <2>1, <2>2
<1>5. ASSUME NEW q \in Run
      PROVE  /\ OnTime(run'[q], disk', clock - faults')
             /\ run'[q].pc # "idle" => Before(run'[q], Served(disk', AtWork(run'[q]), clock - faults'))
  <2>1. CASE q = p
    BY <1>1, <2>1 DEF Expiring, Passed
  <2>2. CASE q # p
    <3>1. run'[q] = run[q] /\ run[q].pc = "idle"
      BY <2>2 DEF Moves
    <3>2. run[q].force = FALSE
      BY DEF ExpiryInv, OnTime
    <3>3. OnTime(run'[q], disk', clock - faults')
      BY <3>1, <3>2 DEF OnTime, Sound, Installing
    <3>4. QED
      BY <3>1, <3>3
  <2>3. QED
    BY <2>1, <2>2
<1>6. QED
  BY <1>1, <1>2, <1>3, <1>4, <1>5 DEF ExpiryInv

(* A step that leaves the files alone and writes nothing keeps the tasks.  *)
LEMMA TasksQuiet ==
  ASSUME NEW r, NEW n, AtWork(n) \subseteq AtWork(r), NEW files,
         NEW d \in Int, NEW e \in Int, e <= d
  PROVE  TasksKept(r, n, files, files, d, e)
<1> SUFFICES ASSUME NEW t \in 1 .. Len(Tasks), TaskInTime(t, files, AtWork(r), d)
             PROVE  TaskInTime(t, files, AtWork(n), e)
  BY DEF TasksKept
<1>1. Blocked(t, files, AtWork(r)) => Blocked(t, files, AtWork(n))
  BY DEF Blocked
<1>2. \A c : InTime(c, d) => InTime(c, e)
  BY InTimeMonotonic
<1>3. QED
  BY <1>1, <1>2 DEF TaskInTime

(* Where a step goes with the certificate it had, and no file torn ahead.  *)
LEMMA ToTaskOnTime ==
  ASSUME NEW r, RunOK(r), r.force = FALSE, NEW n, NEW failed, ToTask(r, n, failed), NEW files, NEW d
  PROVE  OnTime(n, files, d)
<1>1. n.force = FALSE /\ n.pc \in {"idle", "check"} /\ (n.pc = "check" => n.inst = 1)
  BY DEF ToTask
<1>2. n.pc \notin Installing /\ n.pc \notin {"after", "validate"} /\ n.pc # "enroll"
  BY <1>1 DEF Installing
<1>3. n.pc = "check" => n.inst - 1 = 0
  BY <1>1
<1>4. 1 .. 0 = {}
  OBVIOUS
<1>5. QED
  BY <1>1, <1>2, <1>3, <1>4 DEF OnTime, Sound

LEMMA ToInstOnTime ==
  ASSUME NEW r, RunOK(r), r.force = FALSE, r.pc \in Installing, NEW n, NEW failed,
         ToInst(r, n, failed), NEW files, Sound(r, files), NEW d, InTime(r.got, d)
  PROVE  OnTime(n, files, d)
<1>1. r.inst \in Nat
  BY PlaybookTables DEF RunOK, RunState
<1>2. CASE ToTask(r, n, failed)
  BY <1>2, ToTaskOnTime
<1>3. CASE /\ n.task = r.task /\ n.inst = r.inst + 1 /\ n.got = r.got /\ n.force = r.force
           /\ n.pc = IF Conf[Cur(n)].backup THEN "backup" ELSE "install"
  <2>1. n.pc \in {"backup", "install"}
    BY <1>3
  <2>2. \A k \in 1 .. Len(Tasks[r.task]) : (k > n.inst \/ k = n.inst) => k > r.inst
    BY <1>1, <1>3
  <2>3. Sound(n, files)
    BY <1>3, <2>1, <2>2 DEF Sound
  <2>4. QED
    BY <1>3, <2>1, <2>3 DEF OnTime
<1>4. QED
  BY <1>2, <1>3 DEF ToInst

LEMMA NumbersOK ==
  ASSUME ExpiryInv
  PROVE  /\ FilesInv /\ TypeOK /\ clock \in Int /\ faults \in Int /\ faults >= 0
         /\ clock - faults \in Int /\ clock - faults - 1 \in Int /\ clock - (faults + 1) \in Int
         /\ clock - faults - 1 <= clock - faults /\ clock - faults - 1 = clock - (faults + 1)
<1>1. FilesInv /\ TypeOK
  BY DEF ExpiryInv, FilesInv
<1>2. clock \in Nat /\ faults \in Nat
  BY <1>1 DEF TypeOK
<1>3. QED
  BY <1>1, <1>2

LEMMA QuietTasksKept ==
  ASSUME ExpiryInv, NEW r, NEW n, AtWork(n) \subseteq AtWork(r), disk' = disk,
         faults' \in {faults, faults + 1}
  PROVE  /\ TasksKept(r, n, disk, disk', clock - faults - 1, clock - faults' - 1)
         /\ TasksKept(r, n, disk, disk', clock - faults, clock - faults')
<1>1. /\ clock - faults \in Int /\ clock - faults' \in Int
      /\ clock - faults - 1 \in Int /\ clock - faults' - 1 \in Int
      /\ clock - faults' <= clock - faults /\ clock - faults' - 1 <= clock - faults - 1
  BY NumbersOK
<1>2. QED
  BY <1>1, TasksQuiet

(* What holds for a process: its own part of the invariant.                *)
Steady(p, d) ==
  /\ OnTime(run[p], disk, d) /\ Before(run[p], Served(disk, AtWork(run[p]), d))
  /\ \A t \in 1 .. Len(Tasks) : TaskInTime(t, disk, AtWork(run[p]), d - 1)

LEMMA SteadyRun ==
  ASSUME ExpiryInv, NEW p \in Run, NEW n, Moves(p, n)
  PROVE  Steady(p, clock - faults)
<1>1. WrittenNow = AtWork(run[p])
  BY WorkOfOne, NumbersOK DEF Moves
<1>2. run[p].pc # "idle"
  BY DEF Moves, Active
<1>3. QED
  BY <1>1, <1>2 DEF ExpiryInv, Steady

LEMMA CheckExpiring ==
  ASSUME Renewing, ExpiryInv, FilesInv', NEW p \in Run, Check(p) PROVE ExpiryInv'
<1> DEFINE r == run[p]
           d == clock - faults
           S == Served(disk, {}, d)
<1>0. FilesInv /\ TypeOK /\ TypeOK' /\ d \in Int /\ faults >= 0 /\ clock \in Int /\ faults \in Int
  BY NumbersOK DEF FilesInv
<1>1. PICK c : c = disk[Cur(r)]["cert"]
  OBVIOUS
<1>2. PICK n : Moves(p, n) /\ UNCHANGED <<disk, faults>> /\ r.pc = "check" /\ Checked(r, n, c)
  BY <1>0, <1>1, CheckMoves
<1>3. /\ RunOK(r) /\ r.task \in 1 .. Len(Tasks) /\ r.inst \in 1 .. Len(Tasks[r.task])
      /\ Len(Tasks[r.task]) \in Nat
  BY <1>2, PlaybookTables DEF Moves, RunOK
<1>4. Cur(r) \in Inst /\ c \in Cert \cup {Absent, Torn} /\ c = disk[Tasks[r.task][r.inst]]["cert"]
  BY <1>0, <1>1, <1>3, CertFile DEF Cur
<1>5. AtWork(r) = {} /\ AtWork(n) = {}
  BY <1>2 DEF AtWork, Checked, ToTask
<1>6. OnTime(r, disk, d) /\ Before(r, S)
  BY <1>2, <1>5, SteadyRun DEF Steady
<1>7. Passed(n, S)
  <2>1. ~Stale(r, c) /\ c # Torn => Cur(r) \in S
    <3> SUFFICES ASSUME ~Stale(r, c), c # Torn PROVE Cur(r) \in S
      OBVIOUS
    <3>1. c \in Cert /\ ~Due(c)
      BY <1>4 DEF Stale
    <3>2. NotAfter(c) - Window \in Int
      BY <3>1, ConstantsAssumption DEF NotAfter, Cert
    <3>3. d <= NotAfter(c) - Window
      BY <1>0, <3>1, <3>2 DEF Due, Renewing
    <3>4. QED
      BY <1>1, <1>4, <3>3 DEF Served, InTime
  <2>2. c = Torn => \A k \in 1 .. Len(Tasks[r.task]) : Tasks[r.task][k] \in S
    <3> SUFFICES ASSUME c = Torn, NEW k \in 1 .. Len(Tasks[r.task]) PROVE Tasks[r.task][k] \in S
      OBVIOUS
    <3>1. Blocked(r.task, disk, {})
      BY <1>3, <1>4 DEF Blocked
    <3>2. Tasks[r.task][k] \in Inst
      BY <1>3, PlaybookTables
    <3>3. QED
      BY <1>3, <3>1, <3>2 DEF Served
  <2>3. QED
    BY <1>2, <1>3, <1>6, <2>1, <2>2, CheckedPassed
<1>8. OnTime(n, disk, d)
  <2>1. ASSUME NEW failed, ToTask(r, n, failed) PROVE OnTime(n, disk, d)
    BY <1>3, <1>6, <2>1, ToTaskOnTime DEF OnTime
  <2>2. c # Torn => \A k \in 1 .. r.inst : disk[Tasks[r.task][k]]["cert"] # Torn
    <3>1. \A k \in 1 .. r.inst : k = r.inst \/ k \in 1 .. (r.inst - 1)
      BY <1>3
    <3>2. QED
      BY <1>2, <1>4, <1>6, <3>1 DEF OnTime, Sound
  <2>3. CASE c # Torn /\ n.pc = "check" /\ n.task = r.task /\ n.inst = r.inst + 1 /\ n.force = r.force
    <3>1. n.inst - 1 = r.inst /\ n.pc \notin Installing
      BY <1>3, <2>3 DEF Installing
    <3>2. QED
      BY <1>6, <2>2, <2>3, <3>1 DEF OnTime, Sound
  <2>4. CASE /\ c # Torn /\ r.inst = Len(Tasks[r.task]) /\ n.pc = "enroll" /\ n.task = r.task
             /\ n.force = r.force
    <3>1. n.pc \notin Installing
      BY <2>4 DEF Installing
    <3>2. QED
      BY <1>6, <2>2, <2>4, <3>1 DEF OnTime, Sound
  <2>5. QED
    BY <1>2, <2>1, <2>3, <2>4 DEF Checked
<1>9. Expiring(n, disk', clock - faults')
  BY <1>2, <1>5, <1>7, <1>8 DEF Expiring
<1>10. QED
  BY <1>2, <1>5, <1>9, QuietTasksKept, ExpiryStep

LEMMA EnrollExpiring ==
  ASSUME Renewing, ExpiryInv, FilesInv', NEW p \in Run, Enroll(p) PROVE ExpiryInv'
<1> DEFINE r == run[p]
           d == clock - faults
           S == Served(disk, {}, d)
<1>0. FilesInv /\ TypeOK /\ TypeOK' /\ d \in Int /\ faults >= 0 /\ clock \in Int /\ faults \in Int
  BY NumbersOK DEF FilesInv
<1>1. PICK n : /\ Moves(p, n) /\ UNCHANGED <<disk, faults>> /\ r.pc = "enroll"
               /\ n.task = r.task /\ n.inst = 1
               /\ n.got \in Cert /\ n.got.issued = clock /\ n.force = r.force
               /\ n.pc = IF Conf[Cur(n)].backup THEN "backup" ELSE "install"
  BY <1>0, EnrollMoves
<1>2. AtWork(r) = {} /\ AtWork(n) = {} /\ n.pc \in {"backup", "install"}
  BY <1>1 DEF AtWork
<1>3. OnTime(r, disk, d) /\ Before(r, S)
  BY <1>1, <1>2, SteadyRun DEF Steady
<1>4. InTime(n.got, d)
  <2>1. d <= clock + Validity - Window
    BY <1>0, ConstantsAssumption DEF Renewing
  <2>2. n.got.issued = clock
    BY <1>1
  <2>3. QED
    BY <1>0, <2>1, <2>2, ConstantsAssumption DEF InTime, NotAfter
<1>5. OnTime(n, disk, d)
  <2>1. Sound(n, disk)
    BY <1>1, <1>2, <1>3 DEF Sound, OnTime
  <2>2. QED
    BY <1>1, <1>2, <1>3, <1>4, <2>1 DEF OnTime
<1>6. Passed(n, S)
  <2>1. n.inst - 1 = 0 /\ 1 .. 0 = {} /\ n.pc # "idle"
    BY <1>1, <1>2
  <2>2. QED
    BY <1>1, <1>2, <1>3, <2>1 DEF Passed, Before
<1>7. Expiring(n, disk', clock - faults')
  BY <1>1, <1>2, <1>5, <1>6 DEF Expiring
<1>8. QED
  BY <1>1, <1>2, <1>7, QuietTasksKept, ExpiryStep

(* A fault adds a period to what is allowed, for every certificate.        *)
LEMMA StopExpiring ==
  ASSUME Renewing, ExpiryInv, FilesInv', NEW p \in Run, EnrollLost(p) \/ Fail(p) \/ Crash(p)
  PROVE  ExpiryInv'
<1> DEFINE r == run[p]
           d == clock - faults
           e == clock - (faults + 1)
<1>0. FilesInv /\ TypeOK' /\ d \in Int /\ e \in Int /\ e <= d /\ e = d - 1
  BY NumbersOK DEF FilesInv
<1>1. PICK n : /\ Moves(p, n) /\ UNCHANGED disk /\ faults' = faults + 1
               /\ \/ \E failed : ToTask(r, n, failed)
                  \/ r.pc \in Installing /\ \E failed : ToInst(r, n, failed)
                  \/ n.pc = "idle" /\ n.force = FALSE
  <2>1. CASE EnrollLost(p)
    BY <1>0, <2>1, EnrollLostMoves
  <2>2. CASE Fail(p)
    BY <1>0, <2>2, FailMoves
  <2>3. CASE Crash(p)
    BY <1>0, <2>3, CrashMoves
  <2>4. QED
    BY <2>1, <2>2, <2>3
<1>2. AtWork(n) = {}
  BY <1>1 DEF AtWork, ToTask, ToInst
<1>3. RunOK(r) /\ RunOK(n) /\ OnTime(r, disk, d) /\ \A t \in 1 .. Len(Tasks) : TaskInTime(t, disk, AtWork(r), e)
  <2>1. RunOK(r) /\ RunOK(n)
    BY <1>1 DEF Moves
  <2>2. Steady(p, d)
    BY <1>1, SteadyRun
  <2>3. QED
    BY <1>0, <2>1, <2>2 DEF Steady
<1>4. OnTime(n, disk, e)
  <2>1. CASE \E failed : ToTask(r, n, failed)
    BY <1>3, <2>1, ToTaskOnTime DEF OnTime
  <2>2. CASE r.pc \in Installing /\ \E failed : ToInst(r, n, failed)
    <3>1. InTime(r.got, e)
      BY <1>0, <1>3, <2>2, InTimeMonotonic DEF OnTime
    <3>2. QED
      BY <1>3, <2>2, <3>1, ToInstOnTime DEF OnTime
  <2>3. CASE n.pc = "idle" /\ n.force = FALSE
    <3>1. n.pc \notin Installing
      BY <2>3 DEF Installing
    <3>2. QED
      BY <2>3, <3>1 DEF OnTime, Sound
  <2>4. QED
    BY <1>1, <2>1, <2>2, <2>3
<1>5. Passed(n, Served(disk, {}, e))
  <2>1. \A t \in 1 .. Len(Tasks) : Blocked(t, disk, AtWork(r)) => Blocked(t, disk, {})
    BY DEF Blocked
  <2>2. \A t \in 1 .. Len(Tasks) : TaskInTime(t, disk, {}, e)
    BY <1>3, <2>1 DEF TaskInTime
  <2>3. QED
    BY <1>3, <2>2, ServedAll, AllPassed
<1>6. Expiring(n, disk', clock - faults')
  BY <1>1, <1>2, <1>4, <1>5 DEF Expiring
<1>7. QED
  BY <1>1, <1>2, <1>6, QuietTasksKept, ExpiryStep

LEMMA QuietExpiring ==
  ASSUME Renewing, ExpiryInv, FilesInv', NEW p \in Run, Backup(p) \/ Copy(p) \/ After(p) \/ Validate(p)
  PROVE  ExpiryInv'
<1> DEFINE r == run[p]
           d == clock - faults
           S == Served(disk, {}, d)
<1>0. FilesInv /\ TypeOK' /\ d \in Int
  BY NumbersOK DEF FilesInv
<1>1. PICK i : i = Cur(r)
  OBVIOUS
<1>2. PICK n : /\ Moves(p, n) /\ UNCHANGED <<disk, faults>> /\ r.pc \in {"backup", "copy", "after", "validate"}
               /\ \/ SameInst(r, n) /\ r.pc \in {"backup", "copy"} /\ n.pc \in {"backup", "copy", "install"}
                  \/ SameInst(r, n) /\ n.pc = "validate" /\ r.pc = "after"
                  \/ ToInst(r, n, r.failed) /\ r.pc \in {"after", "validate"}
  <2>1. CASE Backup(p)
    BY <1>0, <1>1, <2>1, BackupMoves DEF BackupTo
  <2>2. CASE Copy(p)
    BY <1>0, <1>1, <2>2, CopyMoves DEF CopyTo
  <2>3. CASE After(p)
    BY <1>0, <2>3, AfterMoves
  <2>4. CASE Validate(p)
    BY <1>0, <2>4, ValidateMoves
  <2>5. QED
    BY <2>1, <2>2, <2>3, <2>4
<1>3. RunOK(r) /\ r.pc \in Installing
  BY <1>2 DEF Moves, Installing
<1>4. AtWork(r) = {} /\ AtWork(n) = {}
  BY <1>2 DEF AtWork, ToInst, ToTask
<1>5. OnTime(r, disk, d) /\ Before(r, S)
  BY <1>2, <1>4, SteadyRun DEF Steady
<1>6. OnTime(n, disk, d) /\ Passed(n, S)
  <2>1. CASE SameInst(r, n) /\ r.pc \in {"backup", "copy"} /\ n.pc \in {"backup", "copy", "install"}
    <3>1. n.pc \in Installing
      BY <2>1 DEF Installing
    <3>2. Sound(n, disk)
      BY <1>3, <1>5, <2>1, <3>1 DEF OnTime, Sound, SameInst
    <3>3. QED
      BY <1>3, <1>5, <2>1, <3>1, <3>2, SameInstPassed DEF OnTime, SameInst
  <2>2. CASE SameInst(r, n) /\ n.pc = "validate" /\ r.pc = "after"
    <3>1. n.pc \in Installing
      BY <2>2 DEF Installing
    <3>2. Sound(n, disk)
      BY <1>3, <1>5, <2>2, <3>1 DEF OnTime, Sound, SameInst
    <3>3. Cur(n) \in Served(disk, AtWork(n), d)
      BY <1>4, <1>5, <2>2 DEF OnTime, SameInst, Cur
    <3>4. QED
      BY <1>3, <1>5, <2>2, <3>1, <3>2, <3>3, SameInstPassed DEF OnTime, SameInst
  <2>3. CASE ToInst(r, n, r.failed) /\ r.pc \in {"after", "validate"}
    <3>1. Cur(r) \in S /\ InTime(r.got, d) /\ Sound(r, disk) /\ r.force = FALSE
      BY <1>3, <1>4, <1>5, <2>3 DEF OnTime
    <3>2. Passed(n, S)
      BY <1>3, <1>5, <2>3, <3>1, ToInstPassed
    <3>3. QED
      BY <1>3, <2>3, <3>1, <3>2, ToInstOnTime
  <2>4. QED
    BY <1>2, <2>1, <2>2, <2>3
<1>7. Expiring(n, disk', clock - faults')
  BY <1>2, <1>4, <1>6 DEF Expiring
<1>8. QED
  BY <1>2, <1>4, <1>7, QuietTasksKept, ExpiryStep

(* A write to a file of i leaves what is known of the tasks, if the        *)
(* certificate file of i becomes torn only while it is worked on.          *)
LEMMA WritingTasksKept ==
  ASSUME TypeOK, NEW i \in Inst, NEW x, NEW c, disk' = [disk EXCEPT ![i][x] = c],
         NEW r, NEW n, AtWork(r) \subseteq {i}, AtWork(n) \subseteq {i},
         i \in AtWork(r) \/ disk[i]["cert"] # Torn,
         NEW d \in Int, NEW e \in Int, e <= d,
         InTime(disk[i]["cert"], e) => InTime(disk'[i]["cert"], e)
  PROVE  /\ \A t \in 1 .. Len(Tasks) :
              Blocked(t, disk, AtWork(r)) => Blocked(t, disk', AtWork(n))
         /\ TasksKept(r, n, disk, disk', e, e)
         /\ Served(disk, AtWork(r), d) \ {i} \subseteq Served(disk', AtWork(n), d)
<1>1. \A j \in Inst \ {i} : disk'[j] = disk[j]
  BY OthersKept
<1>2. ASSUME NEW t \in 1 .. Len(Tasks), Blocked(t, disk, AtWork(r))
      PROVE  Blocked(t, disk', AtWork(n))
  <2>1. PICK k \in 1 .. Len(Tasks[t]) :
          Tasks[t][k] \notin AtWork(r) /\ disk[Tasks[t][k]]["cert"] = Torn
    BY <1>2 DEF Blocked
  <2>2. Tasks[t][k] \in Inst \ {i}
    BY <2>1, PlaybookTables
  <2>3. QED
    BY <1>1, <2>1, <2>2 DEF Blocked
<1>3. \A j \in Inst : InTime(disk[j]["cert"], e) => InTime(disk'[j]["cert"], e)
  BY <1>1
<1>4. TasksKept(r, n, disk, disk', e, e)
  <2> SUFFICES ASSUME NEW t \in 1 .. Len(Tasks), TaskInTime(t, disk, AtWork(r), e)
               PROVE  TaskInTime(t, disk', AtWork(n), e)
    BY DEF TasksKept
  <2>1. \A k \in 1 .. Len(Tasks[t]) : Tasks[t][k] \in Inst
    BY PlaybookTables
  <2>2. QED
    BY <1>2, <1>3, <2>1 DEF TaskInTime
<1>5. Served(disk, AtWork(r), d) \ {i} \subseteq Served(disk', AtWork(n), d)
  BY <1>1, <1>2 DEF Served
<1>6. QED
  BY <1>2, <1>4, <1>5

LEMMA InstallExpiring ==
  ASSUME Renewing, ExpiryInv, FilesInv', NEW p \in Run, Install(p) PROVE ExpiryInv'
<1> DEFINE r == run[p]
           d == clock - faults
<1>0. FilesInv /\ TypeOK /\ TypeOK' /\ d \in Int /\ d - 1 \in Int /\ d - 1 <= d /\ d <= d
  BY NumbersOK DEF FilesInv
<1>1. PICK i : i = Cur(r)
  OBVIOUS
<1>2. PICK n : Moves(p, n) /\ InstallTo(p, n, i)
  BY <1>0, <1>1, InstallMoves
<1>3. /\ SameInst(r, n) /\ r.pc = "install" /\ n.pc = "write" /\ faults' = faults /\ n.part = r.part
      /\ disk' = [disk EXCEPT ![i][CurPart(r)] = Torn]
  BY <1>2 DEF InstallTo
<1>4. /\ RunOK(r) /\ r.pc \in Installing /\ n.pc \in Installing /\ i \in Inst /\ r.got \in Cert
      /\ CurPart(r) \in Part /\ r.task \in 1 .. Len(Tasks) /\ r.inst \in 1 .. Len(Tasks[r.task])
  BY <1>0, <1>1, <1>2, <1>3, CurOK, HasCert DEF Moves, Installing, RunOK
<1>5. AtWork(r) = {} /\ AtWork(n) = {i}
  BY <1>1, <1>3 DEF AtWork, SameInst, Cur
<1>6. OnTime(r, disk, d) /\ Before(r, Served(disk, AtWork(r), d))
  BY <1>2, SteadyRun DEF Steady
<1>7. disk[i]["cert"] # Torn
  <2>1. CASE r.part = 1
    BY <1>1, <1>3, <1>4, <1>6, <2>1 DEF OnTime, Sound, Cur
  <2>2. CASE r.part # 1
    <3>1. disk[i]["cert"] = r.got
      BY <1>0, <1>1, <1>3, <2>2, CertWritten
    <3>2. QED
      BY <1>4, <3>1, ConstantsAssumption
  <2>3. QED
    BY <2>1, <2>2
<1>8. disk'[i]["cert"] = disk[i]["cert"] \/ disk'[i]["cert"] = Torn
  <2>1. disk \in [Inst -> [Part -> Content]] /\ "cert" \in Part
    BY <1>0 DEF TypeOK, Part
  <2>2. QED
    BY <1>3, <1>4, <2>1
<1>9. \A f : InTime(disk[i]["cert"], f) => InTime(disk'[i]["cert"], f)
  BY <1>8, ConstantsAssumption DEF InTime
<1>10. /\ TasksKept(r, n, disk, disk', d, d) /\ TasksKept(r, n, disk, disk', d - 1, d - 1)
       /\ Served(disk, AtWork(r), d) \ {i} \subseteq Served(disk', AtWork(n), d)
  BY <1>0, <1>3, <1>4, <1>5, <1>7, <1>9, WritingTasksKept
<1>11. Sound(n, disk')
  <2>1. ASSUME NEW k \in 1 .. Len(Tasks[r.task]), k > r.inst
        PROVE  disk'[Tasks[r.task][k]]["cert"] # Torn
    <3>1. k # r.inst
      BY <1>4, <2>1, PlaybookTables
    <3>2. Tasks[r.task][k] \in Inst \ {i}
      <4>1. Tasks[r.task][k] \in Inst
        BY <1>4, <2>1, PlaybookTables
      <4>2. i = Tasks[r.task][r.inst]
        BY <1>1 DEF Cur
      <4>3. Tasks[r.task][k] # i
        BY <1>4, <2>1, <3>1, <4>2, DistinctFilesAssumption
      <4>4. QED
        BY <4>1, <4>3
    <3>3. disk'[Tasks[r.task][k]] = disk[Tasks[r.task][k]]
      BY <1>0, <1>3, <1>4, <3>2, OthersKept
    <3>4. QED
      BY <1>4, <1>6, <2>1, <3>3 DEF OnTime, Sound
  <2>2. QED
    BY <1>3, <2>1 DEF Sound, SameInst
<1>12. OnTime(n, disk', d)
  BY <1>3, <1>4, <1>6, <1>11 DEF OnTime, SameInst
<1>13. Passed(n, Served(disk', AtWork(n), d))
  <2>1. Before(r, Served(disk', AtWork(n), d))
    <3>1. Before(r, Served(disk, AtWork(r), d) \ {i})
      BY <1>1, <1>4, <1>6, BeforeElsewhere
    <3>2. QED
      BY <1>4, <1>10, <3>1, BeforeMonotonic
  <2>2. QED
    BY <1>3, <1>4, <2>1, SameInstPassed
<1>14. Expiring(n, disk', clock - faults')
  BY <1>3, <1>12, <1>13 DEF Expiring
<1>15. QED
  BY <1>2, <1>3, <1>10, <1>14, ExpiryStep

LEMMA WriteExpiring ==
  ASSUME Renewing, ExpiryInv, FilesInv', NEW p \in Run, Write(p) PROVE ExpiryInv'
<1> DEFINE r == run[p]
           d == clock - faults
<1>0. FilesInv /\ TypeOK /\ TypeOK' /\ d \in Int /\ d - 1 \in Int /\ d - 1 <= d /\ d <= d
  BY NumbersOK DEF FilesInv
<1>1. PICK i : i = Cur(r)
  OBVIOUS
<1>2. PICK n : Moves(p, n) /\ WriteTo(p, n, i)
  BY <1>0, <1>1, WriteMoves
<1>3. /\ r.pc = "write" /\ faults' = faults
      /\ disk' = [disk EXCEPT ![i][CurPart(r)] = r.got]
      /\ \A k \in 1 .. r.part : disk'[i][Conf[i].parts[k]] = r.got
      /\ \/ SameInst(r, n) /\ n.pc = "install" /\ n.part = r.part + 1
         \/ SameInst(r, n) /\ n.pc = "after"
         \/ ToInst(r, n, r.failed)
  BY <1>2 DEF WriteTo
<1>4. /\ RunOK(r) /\ r.pc \in Installing /\ i \in Inst /\ r.got \in Cert
      /\ r.task \in 1 .. Len(Tasks) /\ r.inst \in 1 .. Len(Tasks[r.task])
      /\ r.part \in 1 .. Len(Conf[i].parts) /\ Len(Conf[i].parts) \in Nat
  BY <1>0, <1>1, <1>2, <1>3, CurOK, HasCert, PartsTable DEF Moves, Installing, RunOK
<1>5. AtWork(r) = {i} /\ AtWork(n) = {}
  BY <1>1, <1>3 DEF AtWork, ToInst, ToTask
<1>6. OnTime(r, disk, d) /\ Before(r, Served(disk, AtWork(r), d))
  BY <1>2, SteadyRun DEF Steady
<1>7. disk'[i]["cert"] = r.got /\ r.got # Torn
  <2>1. 1 \in 1 .. r.part /\ Conf[i].parts[1] = "cert"
    BY <1>4, PartsTable
  <2>2. QED
    BY <1>3, <1>4, <2>1, ConstantsAssumption
<1>8. InTime(r.got, d) /\ InTime(r.got, d - 1)
  BY <1>0, <1>4, <1>6, InTimeMonotonic DEF OnTime
<1>9. /\ TasksKept(r, n, disk, disk', d, d) /\ TasksKept(r, n, disk, disk', d - 1, d - 1)
      /\ Served(disk, AtWork(r), d) \ {i} \subseteq Served(disk', AtWork(n), d)
  BY <1>0, <1>3, <1>4, <1>5, <1>7, <1>8, WritingTasksKept
<1>10. Before(r, Served(disk', {}, d)) /\ Cur(r) \in Served(disk', {}, d)
  <2>1. Before(r, Served(disk', {}, d))
    BY <1>1, <1>4, <1>5, <1>6, <1>9, BeforeElsewhere, BeforeMonotonic
  <2>2. i \in Served(disk', {}, d)
    BY <1>4, <1>7, <1>8 DEF Served
  <2>3. QED
    BY <1>1, <2>1, <2>2
<1>11. ASSUME NEW k \in 1 .. Len(Tasks[r.task]), k > r.inst
      PROVE  disk'[Tasks[r.task][k]]["cert"] # Torn
  <2>1. k # r.inst
    BY <1>4, <1>11, PlaybookTables
  <2>2. Tasks[r.task][k] \in Inst \ {i}
    <3>1. Tasks[r.task][k] \in Inst
      BY <1>4, <1>11, PlaybookTables
    <3>2. i = Tasks[r.task][r.inst]
      BY <1>1 DEF Cur
    <3>3. Tasks[r.task][k] # i
      BY <1>4, <1>11, <2>1, <3>2, DistinctFilesAssumption
    <3>4. QED
      BY <3>1, <3>3
  <2>3. disk'[Tasks[r.task][k]] = disk[Tasks[r.task][k]]
    BY <1>0, <1>3, <1>4, <2>2, OthersKept
  <2>4. QED
    BY <1>4, <1>6, <1>11, <2>3 DEF OnTime, Sound
<1>12. OnTime(n, disk', d) /\ Passed(n, Served(disk', AtWork(n), d))
  <2>1. CASE /\ SameInst(r, n)
             /\ (n.pc = "install" /\ n.part = r.part + 1) \/ n.pc = "after"
    <3>1. n.pc \in Installing
      BY <2>1 DEF Installing
    <3>2. n.pc = "install" => n.part # 1
      BY <1>4, <2>1
    <3>3. Sound(n, disk')
      BY <1>11, <2>1, <3>1, <3>2 DEF Sound, SameInst
    <3>4. OnTime(n, disk', d)
      BY <1>4, <1>5, <1>6, <1>10, <2>1, <3>3 DEF OnTime, SameInst, Cur
    <3>5. QED
      BY <1>4, <1>5, <1>10, <2>1, <3>1, <3>4, SameInstPassed
  <2>2. CASE ToInst(r, n, r.failed)
    <3>1. Sound(r, disk')
      BY <1>3, <1>11 DEF Sound
    <3>2. OnTime(n, disk', d)
      BY <1>4, <1>6, <1>8, <2>2, <3>1, ToInstOnTime DEF OnTime
    <3>3. QED
      BY <1>4, <1>5, <1>10, <2>2, <3>2, ToInstPassed
  <2>3. QED
    BY <1>3, <2>1, <2>2
<1>13. Expiring(n, disk', clock - faults')
  BY <1>3, <1>12 DEF Expiring
<1>14. QED
  BY <1>2, <1>3, <1>9, <1>13, ExpiryStep

LEMMA StartExpiring ==
  ASSUME Renewing, ExpiryInv, FilesInv', NEW p \in Run, Start(p) PROVE ExpiryInv'
<1>0. FilesInv /\ TypeOK'
  BY DEF ExpiryInv, FilesInv
<1>1. PICK n : StartTo(p, n)
  BY <1>0, StartMoves DEF Renewing
<1>2. /\ UNCHANGED <<disk, clock, faults, ran>> /\ run'[p] = n /\ n.force = FALSE /\ n.pc = "check"
      /\ n.task - 1 = 0 /\ n.inst - 1 = 0 /\ 1 .. 0 = {} /\ n.changed = FALSE
  <2>1. /\ UNCHANGED <<disk, clock, faults>> /\ ran' = ran /\ run'[p] = n
        /\ n.task = 1 /\ n.inst = 1 /\ n.force \in ForceRenew
        /\ n.pc = IF n.force THEN "enroll" ELSE "check"
    BY <1>1 DEF StartTo
  <2>2. n.force = FALSE
    BY <2>1 DEF Renewing
  <2>3. n.changed = FALSE
    BY <1>1 DEF StartTo
  <2>4. n.pc = "check"
    BY <2>1, <2>2
  <2>5. n.task - 1 = 0 /\ n.inst - 1 = 0 /\ 1 .. 0 = {}
    BY <2>1
  <2>6. QED
    BY <2>1, <2>2, <2>3, <2>4, <2>5
<1>3. WrittenNow = {} /\ WrittenNow' = {}
  <2>1. /\ \A q \in Run : run[q].pc # "write"
        /\ \A q \in Run : run'[q].pc # "write"
    BY <1>1, <1>2 DEF StartTo
  <2>2. QED
    BY <2>1 DEF WrittenNow, AtWork
<1>4. n.pc \notin Installing
  BY <1>2 DEF Installing
<1>5. OnTime(n, disk', clock' - faults') /\ Before(n, Served(disk', AtWork(n), clock' - faults'))
  BY <1>2, <1>4 DEF OnTime, Sound, Before
<1>6. ASSUME NEW q \in Run \ {p}
      PROVE  run'[q].pc = "idle" /\ OnTime(run'[q], disk', clock' - faults')
  <2>1. run'[q] = run[q] /\ run[q].pc = "idle"
    BY <1>1 DEF StartTo
  <2>2. QED
    BY <2>1 DEF ExpiryInv, OnTime, Sound, Installing
<1>7. QED
  BY <1>0, <1>2, <1>3, <1>5, <1>6 DEF ExpiryInv

LEMMA TickExpiring ==
  ASSUME Renewing, ExpiryInv, FilesInv', Tick PROVE ExpiryInv'
<1>1. /\ ran /\ \A p \in Run : run[p].pc = "idle"
      /\ ~ran' /\ clock' = clock + 1 /\ UNCHANGED <<disk, faults, run>>
  BY DEF Tick, Active, Renewing
<1>2. clock' - faults' - 1 = clock - faults
  BY <1>1, NumbersOK
<1>3. WrittenNow' = WrittenNow
  BY <1>1 DEF WrittenNow, AtWork, Cur
<1>4. \A t \in 1 .. Len(Tasks) : TaskInTime(t, disk', WrittenNow', clock' - faults' - 1)
  BY <1>1, <1>2, <1>3 DEF ExpiryInv
<1>5. \A p \in Run : run'[p].pc = "idle" /\ OnTime(run'[p], disk', clock' - faults')
  BY <1>1 DEF ExpiryInv, OnTime, Sound, Installing
<1>6. QED
  BY <1>1, <1>4, <1>5 DEF ExpiryInv

LEMMA NextExpiry == ASSUME Renewing, ExpiryInv, [Next]_vars PROVE ExpiryInv'
<1>1. FilesInv'
  BY NextFilesInv DEF ExpiryInv, Renewing
<1>2. ASSUME NEW p \in Run, Start(p) \/ Step(p) \/ EnrollLost(p) \/ Fail(p) \/ Crash(p)
      PROVE  ExpiryInv'
  BY <1>1, <1>2, StartExpiring, CheckExpiring, EnrollExpiring, QuietExpiring, InstallExpiring,
     WriteExpiring, StopExpiring DEF Step
<1>3. CASE Tick
  BY <1>1, <1>3, TickExpiring
<1>4. CASE UNCHANGED vars
  <2>1. UNCHANGED <<clock, disk, faults, ran, run>>
    BY <1>4 DEF vars
  <2>2. WrittenNow' = WrittenNow
    BY <2>1 DEF WrittenNow, AtWork, Cur
  <2>3. QED
    BY <1>1, <2>1, <2>2 DEF ExpiryInv
<1>5. QED
  BY <1>2, <1>3, <1>4 DEF Next, Horizon

(* When runs do not overlap, none is forced and none of the periods passes *)
(* without one: a certificate expires only if as many faults as its renew  *)
(* window has periods struck, or a certificate file of its task is torn.   *)
THEOREM RenewedBeforeExpiry ==
  ASSUME Exclusive, Daily, ForceRenew \subseteq {FALSE}, Window <= Validity
  PROVE  Spec => []NoExpiry
<1>1. CASE Window = 0
  <2>1. TypeOK => NoExpiry
    BY <1>1 DEF NoExpiry, TypeOK
  <2>2. QED
    BY <2>1, TypeCorrect, PTL
<1>2. CASE Window # 0
  <2>0. Renewing
    BY <1>2 DEF Renewing
  <2>1. Init => ExpiryInv
    <3> SUFFICES ASSUME Init PROVE ExpiryInv
      OBVIOUS
    <3> DEFINE first == [id |-> 1, issued |-> 0]
               Files(j) == [x \in Part |-> IF j \in Installed /\ x \in Parts(j) THEN first ELSE Absent]
    <3>1. FilesInv /\ clock = 0 /\ faults = 0 /\ ran = FALSE
      BY InitFilesInv DEF Init
    <3>2. \A p \in Run : run[p].pc = "idle" /\ run[p].force = FALSE
      BY DEF Init, EndRun
    <3>3. \A p \in Run : OnTime(run[p], disk, clock - faults)
      BY <3>2 DEF OnTime, Sound, Installing
    <3>4. first.issued = 0
      OBVIOUS
    <3>5. \A i \in Inst : disk[i] = Files(i)
      BY DEF Init
    <3> HIDE DEF first
    <3>6. \A i \in Inst : disk[i]["cert"] \in {first, Absent}
      <4>1. "cert" \in Part
        BY DEF Part
      <4>2. QED
        BY <3>5, <4>1
    <3>7. InTime(first, clock - faults - 1)
      <4>1. NotAfter(first) = Validity /\ clock - faults - 1 <= Validity - Window
        BY <3>1, <3>4, ConstantsAssumption DEF NotAfter
      <4>2. QED
        BY <4>1 DEF InTime
    <3>8. InTime(Absent, clock - faults - 1)
      BY ConstantsAssumption DEF InTime
    <3>9. \A t \in 1 .. Len(Tasks) : TaskInTime(t, disk, WrittenNow, clock - faults - 1)
      BY <3>6, <3>7, <3>8, PlaybookTables DEF TaskInTime
    <3>10. QED
      BY <3>1, <3>2, <3>3, <3>9 DEF ExpiryInv
  <2>2. ExpiryInv /\ [Next]_vars => ExpiryInv'
    BY <2>0, NextExpiry
  <2>3. ExpiryInv => NoExpiry
    <3> SUFFICES ASSUME ExpiryInv, faults < Window, NEW t \in 1 .. Len(Tasks),
                        \A k \in 1 .. Len(Tasks[t]) : disk[Tasks[t][k]]["cert"] # Torn,
                        NEW k \in 1 .. Len(Tasks[t]), disk[Tasks[t][k]]["cert"] \in Cert
                 PROVE  ~Expired(disk[Tasks[t][k]]["cert"])
      BY DEF NoExpiry
    <3> DEFINE c == disk[Tasks[t][k]]["cert"]
    <3>1. ~Blocked(t, disk, WrittenNow)
      BY DEF Blocked
    <3>2. InTime(c, clock - faults - 1)
      BY <3>1 DEF ExpiryInv, TaskInTime
    <3>3. clock - faults - 1 <= NotAfter(c) - Window
      BY <3>2 DEF InTime
    <3>4. NotAfter(c) \in Int /\ Window \in Int
      BY ConstantsAssumption DEF NotAfter, Cert
    <3>5. clock <= NotAfter(c)
      BY <3>3, <3>4, NumbersOK
    <3>6. QED
      BY <3>4, <3>5, NumbersOK DEF Expired
  <2>4. QED
    BY <2>1, <2>2, <2>3, PTL DEF Spec
<1>3. QED
  BY <1>1, <1>2

-----------------------------------------------------------------------------
(* RenewalRate.  The clock is divided into cycles: a certificate is due in *)
(* the cycle after the one it was issued in, at the earliest.  A task is   *)
(* settled when the certificates of all its installations are from this    *)
(* cycle, those aside that a process has yet to write.  It cannot enroll   *)
(* then, an enrollment settles it, and only a fault unsettles it.          *)

Cycle == Validity - Window + 1

Epoch(now) == now \div Cycle

IssuedIn(c, e) == c \in Cert /\ Epoch(c.issued) = e

(* The installations that r has a certificate for and has not finished.    *)
Ahead(r) ==
  {i \in Inst : /\ r.pc \in Installing
                /\ \E k \in r.inst .. Len(Tasks[r.task]) :
                     /\ i = Tasks[r.task][k]
                     /\ k = r.inst => r.pc \notin {"after", "validate"}}

AheadNow == {i \in Inst : \E p \in Run : i \in Ahead(run[p])}

Settled(files, ahead, e) ==
  {t \in 1 .. Len(Tasks) :
     \A k \in 1 .. Len(Tasks[t]) : Tasks[t][k] \in ahead \/ IssuedIn(files[Tasks[t][k]]["cert"], e)}

RateRun(r, now) == r.force = FALSE /\ (r.pc \in Installing => r.got.issued = now)

Bound(n, f, now, S) == n <= 1 + f + Len(Tasks) * Epoch(now) + Cardinality(S)

RateInv ==
  /\ NeedInv
  /\ \A p \in Run : RateRun(run[p], clock)
  /\ Bound(issued, faults, clock, Settled(disk, AheadNow, Epoch(clock)))

(* One run in each period, and none overlaps or is forced.                 *)
Scheduled == Exclusive /\ Daily /\ ForceRenew = {FALSE} /\ Window <= Validity

LEMMA CycleOK == ASSUME Scheduled PROVE Cycle \in Nat \ {0}
BY ConstantsAssumption DEF Scheduled, Cycle

LEMMA EpochOK ==
  ASSUME Scheduled, NEW a \in Nat
  PROVE  /\ Epoch(a) \in Nat
         /\ \A b \in Nat : a <= b => Epoch(a) <= Epoch(b)
         /\ \A b \in Nat : a + Cycle <= b => Epoch(a) + 1 <= Epoch(b)
<1>1. Cycle \in Nat \ {0}
  BY CycleOK
<1>2. \A D \in Nat \ {0} : a \div D \in Nat
  OBVIOUS
<1>3. \A D \in Nat \ {0} : \A b \in Nat : a <= b => a \div D <= b \div D
  OBVIOUS
<1>4. \A D \in Nat \ {0} : \A b \in Nat : a + D <= b => (a \div D) + 1 <= b \div D
  OBVIOUS
<1>5. QED
  BY <1>1, <1>2, <1>3, <1>4 DEF Epoch

LEMMA UpTo == ASSUME NEW n \in Nat PROVE IsFiniteSet(1 .. n) /\ Cardinality(1 .. n) = n
<1>1. 1 \in Int /\ n \in Int
  OBVIOUS
<1>2. IsFiniteSet(1 .. n) /\ Cardinality(1 .. n) = IF 1 > n THEN 0 ELSE n - 1 + 1
  BY <1>1, FS_Interval, Zenon
<1>3. QED
  BY <1>2

LEMMA SettledOK ==
  ASSUME NEW files, NEW ahead, NEW e
  PROVE  /\ IsFiniteSet(Settled(files, ahead, e)) /\ Cardinality(Settled(files, ahead, e)) \in Nat
         /\ Cardinality(Settled(files, ahead, e)) <= Len(Tasks)
<1>1. Len(Tasks) \in Nat
  BY PlaybookTables
<1>2. IsFiniteSet(1 .. Len(Tasks)) /\ Cardinality(1 .. Len(Tasks)) = Len(Tasks)
  BY <1>1, UpTo, Zenon
<1>3. Settled(files, ahead, e) \subseteq 1 .. Len(Tasks)
  BY DEF Settled
<1>4. QED
  BY <1>1, <1>2, <1>3, FS_Subset, FS_CardinalityType

(* The bound when the tasks that are settled grow, shrink or gain one.     *)
LEMMA BoundKept ==
  ASSUME Scheduled, NEW n \in Nat, NEW f \in Nat, NEW now \in Nat,
         NEW S, IsFiniteSet(S), NEW R, IsFiniteSet(R), Bound(n, f, now, S)
  PROVE  /\ S \subseteq R => Bound(n, f, now, R)
         /\ \A t : S \subseteq R \cup {t} => Bound(n, f + 1, now, R)
         /\ S \subseteq R => Bound(n + 1, f + 1, now, R)
         /\ \A t : t \notin S /\ S \cup {t} \subseteq R => Bound(n + 1, f, now, R)
<1>1. Cardinality(S) \in Nat /\ Cardinality(R) \in Nat
  BY FS_CardinalityType
<1>2. Len(Tasks) * Epoch(now) \in Nat
  <2>1. Len(Tasks) \in Nat /\ Epoch(now) \in Nat
    BY PlaybookTables, EpochOK
  <2>2. QED
    BY <2>1
<1>3. S \subseteq R => Cardinality(S) <= Cardinality(R)
  BY FS_Subset
<1>4. ASSUME NEW t, S \subseteq R \cup {t} PROVE Cardinality(S) <= Cardinality(R) + 1
  <2>1. /\ IsFiniteSet(R \cup {t})
        /\ \/ Cardinality(R \cup {t}) = Cardinality(R)
           \/ Cardinality(R \cup {t}) = Cardinality(R) + 1
    BY FS_AddElement, Zenon
  <2>2. Cardinality(S) <= Cardinality(R \cup {t})
    BY <1>4, <2>1, FS_Subset
  <2>3. Cardinality(R \cup {t}) \in Nat
    BY <2>1, FS_CardinalityType
  <2>4. QED
    BY <1>1, <2>1, <2>2, <2>3
<1>5. ASSUME NEW t, t \notin S, S \cup {t} \subseteq R PROVE Cardinality(S) + 1 <= Cardinality(R)
  <2>1. Cardinality(S \cup {t}) = Cardinality(S) + 1
    BY <1>5, FS_AddElement
  <2>2. QED
    BY <1>5, <2>1, FS_Subset
<1>6. n <= 1 + f + Len(Tasks) * Epoch(now) + Cardinality(S)
  BY DEF Bound
<1>7. S \subseteq R => Bound(n, f, now, R)
  BY <1>1, <1>2, <1>3, <1>6 DEF Bound
<1>8. ASSUME NEW t, S \subseteq R \cup {t} PROVE Bound(n, f + 1, now, R)
  <2>1. Cardinality(S) <= Cardinality(R) + 1
    BY <1>4, <1>8
  <2>2. QED
    BY <1>1, <1>2, <1>6, <2>1 DEF Bound
<1>9. S \subseteq R => Bound(n + 1, f + 1, now, R)
  BY <1>1, <1>2, <1>3, <1>6 DEF Bound
<1>10. \A t : t \notin S /\ S \cup {t} \subseteq R => Bound(n + 1, f, now, R)
  BY <1>1, <1>2, <1>5, <1>6 DEF Bound
<1>11. QED
  BY <1>7, <1>8, <1>9, <1>10

LEMMA BoundNextCycle ==
  ASSUME Scheduled, NEW n \in Nat, NEW f \in Nat, NEW now \in Nat,
         NEW S, Cardinality(S) \in Nat, Cardinality(S) <= Len(Tasks), Bound(n, f, now, S),
         NEW R, Cardinality(R) \in Nat, Epoch(now) + 1 <= Epoch(now + 1)
  PROVE  Bound(n, f, now + 1, R)
<1>1. Len(Tasks) \in Nat /\ Epoch(now) \in Nat /\ Epoch(now + 1) \in Nat
  BY PlaybookTables, EpochOK
<1>2. \A a, b, L \in Nat : a + 1 <= b => L * a + L <= L * b /\ L * a \in Nat /\ L * b \in Nat
  OBVIOUS
<1> DEFINE before == Len(Tasks) * Epoch(now)
           after == Len(Tasks) * Epoch(now + 1)
<1>3. before + Len(Tasks) <= after /\ before \in Nat /\ after \in Nat
  BY <1>1, <1>2
<1>4. n <= 1 + f + before + Cardinality(S)
  BY DEF Bound
<1> HIDE DEF before, after
<1>5. n <= 1 + f + after + Cardinality(R)
  BY <1>1, <1>3, <1>4
<1>6. QED
  BY <1>5 DEF Bound, after

LEMMA AheadOfOne ==
  ASSUME TypeOK, NEW p \in Run, \A q \in Run \ {p} : run[q].pc = "idle"
  PROVE  AheadNow = Ahead(run[p])
<1>1. \A q \in Run \ {p} : Ahead(run[q]) = {}
  BY DEF Ahead, Installing
<1>2. QED
  BY <1>1 DEF AheadNow, Ahead

LEMMA RateStep ==
  ASSUME RateInv, NeedInv', NEW p \in Run, NEW n, Moves(p, n), RateRun(n, clock),
         Bound(issued', faults', clock, Settled(disk', Ahead(n), Epoch(clock)))
  PROVE  RateInv'
<1>1. clock' = clock /\ run'[p] = n /\ \A q \in Run \ {p} : run[q].pc = "idle" /\ run'[q] = run[q]
  BY DEF Moves
<1>2. TypeOK'
  BY DEF NeedInv, FilesInv
<1>3. AheadNow' = Ahead(n)
  <2>1. AheadNow' = {i \in Inst : \E q \in Run : i \in Ahead(run'[q])}
    BY DEF AheadNow, Ahead
  <2>2. \A q \in Run \ {p} : Ahead(run'[q]) = {}
    BY <1>1 DEF Ahead, Installing
  <2>3. QED
    BY <1>1, <2>1, <2>2 DEF Ahead
<1>4. \A q \in Run : RateRun(run'[q], clock')
  <2>1. ASSUME NEW q \in Run PROVE RateRun(run'[q], clock')
    <3>1. CASE q = p
      BY <1>1, <3>1
    <3>2. CASE q # p
      BY <1>1, <3>2 DEF RateInv, RateRun, Installing
    <3>3. QED
      BY <3>1, <3>2
  <2>2. QED
    BY <2>1
<1>5. QED
  BY <1>1, <1>3, <1>4 DEF RateInv

(* What the process that runs has for the step it takes.                   *)
LEMMA RateNow ==
  ASSUME Scheduled, RateInv, NEW p \in Run, NEW n, Moves(p, n)
  PROVE  /\ NeedInv /\ FilesInv /\ TypeOK /\ issued \in Nat /\ faults \in Nat /\ clock \in Nat
         /\ RateRun(run[p], clock)
         /\ Bound(issued, faults, clock, Settled(disk, Ahead(run[p]), Epoch(clock)))
<1>1. NeedInv /\ FilesInv /\ TypeOK
  BY DEF RateInv, NeedInv, FilesInv
<1>2. AheadNow = Ahead(run[p])
  BY <1>1, AheadOfOne DEF Moves
<1>3. QED
  BY <1>1, <1>2 DEF RateInv, TypeOK

(* A step without enrollment or fault: what was settled remains so.        *)
LEMMA RateKept ==
  ASSUME Scheduled, RateInv, NeedInv', NEW p \in Run, NEW n, Moves(p, n), RateRun(n, clock),
         issued' = issued, faults' = faults,
         Settled(disk, Ahead(run[p]), Epoch(clock)) \subseteq Settled(disk', Ahead(n), Epoch(clock))
  PROVE  RateInv'
<1>1. Bound(issued, faults, clock, Settled(disk', Ahead(n), Epoch(clock)))
  BY RateNow, SettledOK, BoundKept
<1>2. QED
  BY <1>1, RateStep

LEMMA SettledMonotonic ==
  ASSUME NEW files, NEW ahead, NEW more, ahead \subseteq more, NEW e
  PROVE  Settled(files, ahead, e) \subseteq Settled(files, more, e)
BY DEF Settled

(* One installation is finished, or its files change while it is ahead.    *)
LEMMA SettledElsewhere ==
  ASSUME NEW files, NEW new, NEW ahead, NEW less, NEW i, NEW e, ahead \ {i} \subseteq less,
         \A j \in Inst \ {i} : new[j] = files[j],
         i \in less \/ IssuedIn(new[i]["cert"], e)
  PROVE  Settled(files, ahead, e) \subseteq Settled(new, less, e)
<1> SUFFICES ASSUME NEW t \in Settled(files, ahead, e), NEW k \in 1 .. Len(Tasks[t])
             PROVE  Tasks[t][k] \in less \/ IssuedIn(new[Tasks[t][k]]["cert"], e)
  BY DEF Settled
<1>1. Tasks[t][k] \in Inst
  BY PlaybookTables DEF Settled
<1>2. Tasks[t][k] \in ahead \/ IssuedIn(files[Tasks[t][k]]["cert"], e)
  BY DEF Settled
<1>3. CASE Tasks[t][k] = i
  BY <1>3
<1>4. CASE Tasks[t][k] # i
  BY <1>1, <1>2, <1>4
<1>5. QED
  BY <1>3, <1>4

(* A process is ahead in its own task only.                                *)
LEMMA SettledOthers ==
  ASSUME NEW r, RunOK(r), NEW files, NEW less, NEW e
  PROVE  Settled(files, Ahead(r), e) \subseteq Settled(files, less, e) \cup {r.task}
<1> SUFFICES ASSUME NEW t \in Settled(files, Ahead(r), e), t # r.task, NEW k \in 1 .. Len(Tasks[t])
             PROVE  IssuedIn(files[Tasks[t][k]]["cert"], e)
  BY DEF Settled
<1>1. t \in 1 .. Len(Tasks) /\ r.task \in 1 .. Len(Tasks)
      /\ (Tasks[t][k] \in Ahead(r) \/ IssuedIn(files[Tasks[t][k]]["cert"], e))
  BY DEF Settled, RunOK
<1>2. ASSUME Tasks[t][k] \in Ahead(r) PROVE FALSE
  <2>1. PICK j \in r.inst .. Len(Tasks[r.task]) : Tasks[t][k] = Tasks[r.task][j]
    BY <1>2 DEF Ahead
  <2>2. j \in 1 .. Len(Tasks[r.task])
    BY <1>1, <2>1, PlaybookTables DEF RunOK
  <2>3. QED
    BY <1>1, <2>1, <2>2, DistinctFilesAssumption
<1>3. QED
  BY <1>1, <1>2

LEMMA AheadSame ==
  ASSUME NEW r, NEW n, SameInst(r, n), r.pc \in Installing, n.pc \in Installing
  PROVE  /\ r.pc \notin {"after", "validate"} /\ n.pc \notin {"after", "validate"} =>
              Ahead(r) \subseteq Ahead(n)
         /\ r.pc \in {"after", "validate"} => Ahead(r) \subseteq Ahead(n)
         /\ Ahead(r) \ {Cur(r)} \subseteq Ahead(n)
BY DEF SameInst, Ahead, Cur

LEMMA AheadNext ==
  ASSUME NEW r, RunOK(r), NEW n, NEW failed, ToInst(r, n, failed)
  PROVE  /\ Ahead(r) \ {Cur(r)} \subseteq Ahead(n)
         /\ r.pc \in {"after", "validate"} => Ahead(r) \subseteq Ahead(n)
<1>1. r.inst \in 1 .. Len(Tasks[r.task]) /\ Len(Tasks[r.task]) \in Nat
  BY PlaybookTables DEF RunOK
<1>2. ASSUME NEW i \in Ahead(r), i # Cur(r) \/ r.pc \in {"after", "validate"}
      PROVE  i \in Ahead(n)
  <2>1. PICK k \in r.inst .. Len(Tasks[r.task]) : i = Tasks[r.task][k] /\ k # r.inst
    BY <1>2 DEF Ahead, Cur
  <2>2. k \in (r.inst + 1) .. Len(Tasks[r.task])
    BY <1>1, <2>1
  <2>3. r.inst # Len(Tasks[r.task])
    BY <1>1, <2>2
  <2>4. n.task = r.task /\ n.inst = r.inst + 1 /\ n.pc \in {"backup", "install"}
    BY <2>3 DEF ToInst
  <2>5. i \in Inst
    BY <1>2 DEF Ahead
  <2>6. QED
    BY <2>1, <2>2, <2>4, <2>5 DEF Ahead, Installing
<1>3. QED
  BY <1>2

LEMMA AheadNone == ASSUME NEW r, r.pc \notin Installing PROVE Ahead(r) = {}
BY DEF Ahead

LEMMA RateRunKept ==
  ASSUME NEW r, NEW n, NEW now, RateRun(r, now),
         \/ SameInst(r, n) /\ r.pc \in Installing
         \/ \E failed : ToTask(r, n, failed)
         \/ r.pc \in Installing /\ \E failed : ToInst(r, n, failed)
  PROVE  RateRun(n, now)
<1>1. \A failed : ToTask(r, n, failed) => n.force = FALSE /\ n.pc \in {"idle", "check"}
  BY DEF ToTask, RateRun
<1>2. ASSUME \E failed : ToTask(r, n, failed) PROVE RateRun(n, now)
  BY <1>1, <1>2 DEF RateRun, Installing
<1>3. ASSUME r.pc \in Installing, n.got = r.got, n.force = r.force PROVE RateRun(n, now)
  BY <1>3 DEF RateRun
<1>4. QED
  BY <1>2, <1>3 DEF SameInst, ToInst

LEMMA CheckRate ==
  ASSUME Scheduled, RateInv, NeedInv', NEW p \in Run, Check(p) PROVE RateInv'
<1> DEFINE r == run[p]
<1>0. FilesInv /\ TypeOK'
  BY DEF RateInv, NeedInv, FilesInv
<1>1. PICK c : c = disk[Cur(r)]["cert"]
  OBVIOUS
<1>2. PICK n : /\ Moves(p, n) /\ UNCHANGED <<issued, disk, bak, faults>>
               /\ r.pc = "check" /\ Checked(r, n, c)
  BY <1>0, <1>1, CheckMoves
<1>3. RateRun(r, clock)
  BY <1>2, RateNow
<1>4. RateRun(n, clock) /\ n.pc \notin Installing
  <2>1. \A failed : ToTask(r, n, failed) => n.force = FALSE /\ n.pc \in {"idle", "check"}
    BY <1>3 DEF ToTask, RateRun
  <2>2. n.force = FALSE /\ n.pc \in {"idle", "check", "enroll"}
    BY <1>2, <1>3, <2>1 DEF Checked, RateRun
  <2>3. QED
    BY <2>2 DEF RateRun, Installing
<1>5. r.pc \notin Installing
  BY <1>2 DEF Installing
<1>6. Ahead(r) = {} /\ Ahead(n) = {}
  BY <1>4, <1>5, AheadNone
<1>7. QED
  BY <1>2, <1>4, <1>6, RateKept

LEMMA EnrollRate ==
  ASSUME Scheduled, RateInv, NeedInv', NEW p \in Run, Enroll(p) PROVE RateInv'
<1> DEFINE r == run[p]
           e == Epoch(clock)
           S == Settled(disk, Ahead(r), e)
<1>0. FilesInv /\ TypeOK'
  BY DEF RateInv, NeedInv, FilesInv
<1>1. PICK n : /\ Moves(p, n) /\ UNCHANGED <<disk, bak, faults>> /\ issued' = issued + 1
               /\ r.pc = "enroll"
               /\ n.task = r.task /\ n.inst = 1 /\ n.part = 1
               /\ n.got \in Cert /\ n.got.issued = clock
               /\ n.force = r.force /\ n.failed = r.failed
               /\ n.pc = IF Conf[Cur(n)].backup THEN "backup" ELSE "install"
  BY <1>0, EnrollMoves
<1> DEFINE R == Settled(disk, Ahead(n), e)
<1>2. /\ NeedInv /\ TypeOK /\ issued \in Nat /\ faults \in Nat /\ clock \in Nat
      /\ RateRun(r, clock) /\ Bound(issued, faults, clock, S) /\ RunOK(r)
  BY <1>1, RateNow DEF Moves
<1>3. n.pc \in {"backup", "install"} /\ r.task \in 1 .. Len(Tasks)
  BY <1>1, <1>2 DEF RunOK
<1>4. RateRun(n, clock)
  BY <1>1, <1>2 DEF RateRun
<1>5. Ahead(r) = {}
  BY <1>1, AheadNone DEF Installing
<1>6. r.task \notin S
  <2>1. PICK k \in 1 .. Len(Tasks[r.task]) : Needs(disk[Tasks[r.task][k]]["cert"], clock)
    BY <1>1, <1>2 DEF NeedInv, NeedRun, RateRun
  <2>2. PICK c : c = disk[Tasks[r.task][k]]["cert"] /\ Needs(c, clock)
    BY <2>1
  <2>3. ~IssuedIn(c, e)
    <3>1. CASE c = Absent
      BY <3>1, ConstantsAssumption DEF IssuedIn
    <3>2. CASE c \in Cert /\ DueAt(c, clock)
      <4>1. c.issued \in Nat /\ clock > c.issued + Validity - Window
        <5>1. c.issued \in Nat
          BY <3>2 DEF Cert
        <5>2. clock > c.issued + Validity - Window
          BY <3>2, <5>1, ConstantsAssumption DEF DueAt, NotAfter
        <5>3. QED
          BY <5>1, <5>2
      <4>2. c.issued + Cycle <= clock
        BY <1>2, <4>1, ConstantsAssumption DEF Cycle
      <4>3. Epoch(c.issued) + 1 <= Epoch(clock) /\ Epoch(c.issued) \in Nat /\ Epoch(clock) \in Nat
        BY <1>2, <4>1, <4>2, EpochOK
      <4>4. QED
        BY <4>3 DEF IssuedIn
    <3>3. QED
      BY <2>2, <3>1, <3>2 DEF Needs
  <2>4. QED
    BY <1>5, <2>2, <2>3 DEF Settled
<1>7. S \cup {r.task} \subseteq R
  <2>1. S \subseteq R
    BY <1>5, SettledMonotonic
  <2>2. \A k \in 1 .. Len(Tasks[r.task]) : Tasks[r.task][k] \in Ahead(n)
    <3>1. n.pc \in Installing /\ n.pc \notin {"after", "validate"}
      BY <1>3 DEF Installing
    <3>2. \A k \in 1 .. Len(Tasks[r.task]) : Tasks[r.task][k] \in Inst /\ k \in n.inst .. Len(Tasks[n.task])
      BY <1>1, <1>3, PlaybookTables
    <3>3. QED
      BY <1>1, <3>1, <3>2 DEF Ahead
  <2>3. QED
    BY <1>3, <2>1, <2>2 DEF Settled
<1>8. Bound(issued + 1, faults, clock, R)
  <2> HIDE DEF S, R
  <2>1. IsFiniteSet(S) /\ IsFiniteSet(R)
    BY SettledOK DEF S, R
  <2>2. QED
    BY <1>2, <1>6, <1>7, <2>1, BoundKept
<1>9. QED
  BY <1>1, <1>4, <1>8, RateStep

(* A fault costs the bound one: it unsettles the task it strikes.          *)
LEMMA FaultRate ==
  ASSUME Scheduled, RateInv, NeedInv', NEW p \in Run, EnrollLost(p) \/ Fail(p) \/ Crash(p)
  PROVE  RateInv'
<1> DEFINE r == run[p]
           e == Epoch(clock)
           S == Settled(disk, Ahead(r), e)
<1>0. FilesInv /\ TypeOK'
  BY DEF RateInv, NeedInv, FilesInv
<1>1. CASE EnrollLost(p)
  <2>1. PICK n : /\ Moves(p, n) /\ UNCHANGED <<disk, bak>>
                 /\ issued' = issued + 1 /\ faults' = faults + 1
                 /\ r.pc = "enroll" /\ ToTask(r, n, TRUE)
    BY <1>0, <1>1, EnrollLostMoves
  <2> DEFINE R == Settled(disk, Ahead(n), e)
  <2>2. /\ issued \in Nat /\ faults \in Nat /\ clock \in Nat
        /\ RateRun(r, clock) /\ Bound(issued, faults, clock, S)
    BY <2>1, RateNow
  <2>3. S \subseteq R
    BY <2>1, AheadNone, SettledMonotonic DEF Installing
  <2>4. Bound(issued + 1, faults + 1, clock, R)
    <3> HIDE DEF S, R
    <3>1. IsFiniteSet(S) /\ IsFiniteSet(R)
      BY SettledOK DEF S, R
    <3>2. QED
      BY <2>2, <2>3, <3>1, BoundKept
  <2>5. RateRun(n, clock)
    BY <2>1, <2>2, RateRunKept
  <2>6. QED
    BY <2>1, <2>4, <2>5, RateStep
<1>2. CASE Fail(p) \/ Crash(p)
  <2>1. PICK n : /\ Moves(p, n) /\ UNCHANGED <<issued, disk>> /\ faults' = faults + 1
                 /\ \/ n.pc = "idle" /\ n.force = FALSE
                    \/ ToTask(r, n, TRUE)
                    \/ r.pc \in Installing /\ ToInst(r, n, TRUE)
    BY <1>0, <1>2, FailMoves, CrashMoves
  <2> DEFINE R == Settled(disk, Ahead(n), e)
  <2>2. /\ issued \in Nat /\ faults \in Nat /\ clock \in Nat
        /\ RateRun(r, clock) /\ Bound(issued, faults, clock, S) /\ RunOK(r)
    BY <2>1, RateNow DEF Moves
  <2>3. S \subseteq R \cup {r.task}
    BY <2>2, SettledOthers
  <2>4. Bound(issued, faults + 1, clock, R)
    <3> HIDE DEF S, R
    <3>1. IsFiniteSet(S) /\ IsFiniteSet(R)
      BY SettledOK DEF S, R
    <3>2. QED
      BY <2>2, <2>3, <3>1, BoundKept
  <2>5. RateRun(n, clock)
    <3>1. CASE n.pc = "idle" /\ n.force = FALSE
      BY <3>1 DEF RateRun, Installing
    <3>2. QED
      BY <2>1, <2>2, <3>1, RateRunKept
  <2>6. QED
    BY <2>1, <2>4, <2>5, RateStep
<1>3. QED
  BY <1>1, <1>2

LEMMA InstallerRate ==
  ASSUME Scheduled, RateInv, NeedInv', NEW p \in Run,
         Backup(p) \/ Copy(p) \/ Install(p) \/ Write(p) \/ After(p) \/ Validate(p)
  PROVE  RateInv'
<1> DEFINE r == run[p]
           e == Epoch(clock)
<1>0. FilesInv /\ TypeOK' /\ TypeOK
  BY DEF RateInv, NeedInv, FilesInv
<1>1. PICK i : i = Cur(r)
  OBVIOUS
<1>2. CASE Backup(p) \/ Copy(p)
  <2>1. PICK n : /\ Moves(p, n) /\ SameInst(r, n) /\ UNCHANGED <<issued, disk, faults>>
                 /\ r.pc \in {"backup", "copy"} /\ n.pc \in {"backup", "copy", "install"}
    BY <1>0, <1>1, <1>2, BackupMoves, CopyMoves DEF BackupTo, CopyTo
  <2>2. /\ r.pc \in Installing /\ n.pc \in Installing
        /\ r.pc \notin {"after", "validate"} /\ n.pc \notin {"after", "validate"}
    BY <2>1 DEF Installing
  <2>3. RateRun(n, clock)
    BY <2>1, <2>2, RateNow, RateRunKept
  <2>4. Ahead(r) \subseteq Ahead(n)
    BY <2>1, <2>2, AheadSame
  <2>5. QED
    BY <2>1, <2>3, <2>4, SettledMonotonic, RateKept
<1>3. CASE Install(p)
  <2>1. PICK n : Moves(p, n) /\ InstallTo(p, n, i)
    BY <1>0, <1>1, <1>3, InstallMoves
  <2>2. /\ SameInst(r, n) /\ r.pc = "install" /\ n.pc = "write" /\ UNCHANGED <<issued, faults>>
        /\ disk' = [disk EXCEPT ![i][CurPart(r)] = Torn]
    BY <2>1 DEF InstallTo
  <2>3. /\ r.pc \in Installing /\ n.pc \in Installing
        /\ r.pc \notin {"after", "validate"} /\ n.pc \notin {"after", "validate"}
    BY <2>2 DEF Installing
  <2>4. RateRun(n, clock)
    BY <2>1, <2>2, <2>3, RateNow, RateRunKept
  <2>5. Ahead(r) \subseteq Ahead(n)
    BY <2>2, <2>3, AheadSame
  <2>6. i \in Ahead(n)
    <3>1. RunOK(n)
      BY <2>1 DEF Moves
    <3>2. n.inst \in n.inst .. Len(Tasks[n.task])
      BY <3>1, PlaybookTables DEF RunOK
    <3>3. i = Tasks[n.task][n.inst] /\ i = Cur(n)
      BY <1>1, <2>2 DEF SameInst, Cur
    <3>4. i \in Inst
      BY <3>1, <3>3, CurOK
    <3>5. QED
      BY <2>3, <3>2, <3>3, <3>4 DEF Ahead
  <2>7. \A j \in Inst \ {i} : disk'[j] = disk[j]
    <3>1. i \in Inst
      BY <1>1, <2>1, CurOK DEF Moves
    <3>2. QED
      BY <1>0, <2>2, <3>1, OthersKept
  <2>8. Settled(disk, Ahead(r), e) \subseteq Settled(disk', Ahead(n), e)
    BY <2>5, <2>6, <2>7, SettledElsewhere
  <2>9. QED
    BY <2>1, <2>2, <2>4, <2>8, RateKept
<1>4. CASE Write(p)
  <2>1. PICK n : Moves(p, n) /\ WriteTo(p, n, i)
    BY <1>0, <1>1, <1>4, WriteMoves
  <2>2. /\ r.pc = "write" /\ UNCHANGED <<issued, faults>>
        /\ disk' = [disk EXCEPT ![i][CurPart(r)] = r.got]
        /\ \A k \in 1 .. r.part : disk'[i][Conf[i].parts[k]] = r.got
        /\ \/ SameInst(r, n) /\ n.pc \in {"install", "after"}
           \/ ToInst(r, n, r.failed)
    BY <2>1 DEF WriteTo
  <2>3. /\ RunOK(r) /\ r.pc \in Installing /\ r.got \in Cert /\ i \in Inst
        /\ r.part \in 1 .. Len(Conf[i].parts) /\ Len(Conf[i].parts) \in Nat
    BY <1>0, <1>1, <2>1, <2>2, CurOK, HasCert, PartsTable DEF Moves, Installing
  <2>4. RateRun(r, clock) /\ RateRun(n, clock)
    BY <2>1, <2>2, <2>3, RateNow, RateRunKept
  <2>5. Ahead(r) \ {i} \subseteq Ahead(n)
    <3>1. CASE SameInst(r, n) /\ n.pc \in {"install", "after"}
      BY <1>1, <2>3, <3>1, AheadSame DEF Installing
    <3>2. CASE ToInst(r, n, r.failed)
      BY <1>1, <2>3, <3>2, AheadNext
    <3>3. QED
      BY <2>2, <3>1, <3>2
  <2>6. IssuedIn(disk'[i]["cert"], e)
    <3>1. 1 \in 1 .. r.part /\ Conf[i].parts[1] = "cert"
      BY <2>3, PartsTable
    <3>2. disk'[i]["cert"] = r.got /\ r.got.issued = clock
      BY <2>2, <2>3, <2>4, <3>1 DEF RateRun
    <3>3. QED
      BY <2>3, <3>2 DEF IssuedIn
  <2>7. \A j \in Inst \ {i} : disk'[j] = disk[j]
    BY <1>0, <2>2, <2>3, OthersKept
  <2>8. Settled(disk, Ahead(r), e) \subseteq Settled(disk', Ahead(n), e)
    BY <2>5, <2>6, <2>7, SettledElsewhere
  <2>9. QED
    BY <2>1, <2>2, <2>4, <2>8, RateKept
<1>5. CASE After(p) \/ Validate(p)
  <2>1. PICK n : /\ Moves(p, n) /\ UNCHANGED <<issued, disk, faults>> /\ r.pc \in {"after", "validate"}
                 /\ \/ SameInst(r, n) /\ n.pc = "validate"
                    \/ ToInst(r, n, r.failed)
    BY <1>0, <1>5, AfterMoves, ValidateMoves
  <2>2. RunOK(r) /\ r.pc \in Installing
    BY <2>1 DEF Moves, Installing
  <2>3. RateRun(n, clock)
    BY <2>1, <2>2, RateNow, RateRunKept
  <2>4. Ahead(r) \subseteq Ahead(n)
    <3>1. CASE SameInst(r, n) /\ n.pc = "validate"
      <4>1. n.pc \in Installing
        BY <3>1 DEF Installing
      <4>2. QED
        BY <2>1, <2>2, <3>1, <4>1, AheadSame
    <3>2. CASE ToInst(r, n, r.failed)
      BY <2>1, <2>2, <3>2, AheadNext
    <3>3. QED
      BY <2>1, <3>1, <3>2
  <2>5. QED
    BY <2>1, <2>3, <2>4, SettledMonotonic, RateKept
<1>6. QED
  BY <1>2, <1>3, <1>4, <1>5

LEMMA StartRate ==
  ASSUME Scheduled, RateInv, NeedInv', NEW p \in Run, Start(p) PROVE RateInv'
<1>0. FilesInv /\ TypeOK' /\ Exclusive
  BY DEF RateInv, NeedInv, FilesInv, Scheduled
<1>1. PICK n : StartTo(p, n)
  BY <1>0, StartMoves
<1>2. /\ UNCHANGED <<issued, disk, clock, faults>> /\ run'[p] = n
      /\ n.pc = IF n.force THEN "enroll" ELSE "check"
      /\ \A q \in Run : run[q].pc = "idle"
      /\ \A q \in Run \ {p} : run'[q] = run[q]
  BY <1>1 DEF StartTo
<1>3. n.force = FALSE
  BY <1>1 DEF StartTo, Scheduled
<1>4. \A q \in Run : run[q].pc \notin Installing /\ run'[q].pc \notin Installing
  BY <1>2 DEF Installing
<1>5. AheadNow = {} /\ AheadNow' = {}
  BY <1>4 DEF AheadNow, Ahead
<1>6. \A q \in Run : RateRun(run'[q], clock')
  BY <1>2, <1>3, <1>4 DEF RateInv, RateRun
<1>7. QED
  BY <1>2, <1>5, <1>6 DEF RateInv

LEMMA TickRate ==
  ASSUME Scheduled, RateInv, NeedInv', Tick PROVE RateInv'
<1>1. /\ \A p \in Run : run[p].pc = "idle"
      /\ clock' = clock + 1 /\ UNCHANGED <<disk, issued, faults, run>>
  BY DEF Tick, Active, Scheduled
<1>2. issued \in Nat /\ faults \in Nat /\ clock \in Nat /\ clock + 1 \in Nat
  BY DEF RateInv, NeedInv, FilesInv, TypeOK
<1>3. AheadNow' = AheadNow
  BY <1>1 DEF AheadNow, Ahead
<1>4. \A p \in Run : RateRun(run'[p], clock')
  BY <1>1 DEF RateInv, RateRun, Installing
<1> DEFINE S == Settled(disk, AheadNow, Epoch(clock))
           R == Settled(disk, AheadNow, Epoch(clock + 1))
<1>5. Bound(issued, faults, clock, S)
  BY DEF RateInv
<1>6. Bound(issued, faults, clock + 1, R)
  <2>1. Epoch(clock) \in Nat /\ Epoch(clock + 1) \in Nat /\ Epoch(clock) <= Epoch(clock + 1)
    <3>1. clock <= clock + 1
      BY <1>2
    <3>2. QED
      BY <1>2, <3>1, EpochOK
  <2>2. CASE Epoch(clock + 1) = Epoch(clock)
    BY <1>5, <2>2 DEF Bound
  <2>3. CASE Epoch(clock + 1) # Epoch(clock)
    <3>1. Epoch(clock) + 1 <= Epoch(clock + 1)
      BY <2>1, <2>3
    <3>2. /\ Cardinality(S) \in Nat /\ Cardinality(S) <= Len(Tasks) /\ Cardinality(R) \in Nat
      BY SettledOK
    <3> HIDE DEF S, R
    <3>3. QED
      BY <1>2, <1>5, <3>1, <3>2, BoundNextCycle
  <2>4. QED
    BY <2>2, <2>3
<1>7. QED
  BY <1>1, <1>3, <1>4, <1>6 DEF RateInv

LEMMA NextRate == ASSUME Scheduled, RateInv, [Next]_vars PROVE RateInv'
<1>1. NeedInv'
  BY NextNeed DEF RateInv, Scheduled
<1>2. ASSUME NEW p \in Run, Start(p) \/ Step(p) \/ EnrollLost(p) \/ Fail(p) \/ Crash(p)
      PROVE  RateInv'
  BY <1>1, <1>2, StartRate, CheckRate, EnrollRate, InstallerRate, FaultRate DEF Step
<1>3. CASE Tick
  BY <1>1, <1>3, TickRate
<1>4. CASE UNCHANGED vars
  <2>1. UNCHANGED <<clock, disk, faults, issued, run>>
    BY <1>4 DEF vars
  <2>2. AheadNow' = AheadNow
    BY <2>1 DEF AheadNow, Ahead
  <2>3. QED
    BY <1>1, <2>1, <2>2 DEF RateInv
<1>5. QED
  BY <1>2, <1>3, <1>4 DEF Next, Horizon

(* When runs do not overlap, none is forced and none of the periods passes *)
(* without one: however often vcert runs, it enrolls once for each task in *)
(* each cycle of Validity - Window + 1 periods, and once for each fault.   *)
THEOREM RenewsOncePerCycle == ASSUME Exclusive, Daily PROVE Spec => []RenewalRate
<1>1. CASE ~(ForceRenew = {FALSE} /\ Window <= Validity)
  <2>1. TypeOK => RenewalRate
    BY <1>1 DEF RenewalRate
  <2>2. QED
    BY <2>1, TypeCorrect, PTL
<1>2. CASE ForceRenew = {FALSE} /\ Window <= Validity
  <2>0. Scheduled
    BY <1>2 DEF Scheduled
  <2>1. Init => RateInv
    <3> SUFFICES ASSUME Init PROVE RateInv
      OBVIOUS
    <3> DEFINE S == Settled(disk, AheadNow, Epoch(clock))
    <3>1. issued = 1 /\ faults = 0 /\ clock = 0
      BY DEF Init
    <3>2. \A p \in Run : run[p].pc = "idle" /\ run[p].force = FALSE
      BY DEF Init, EndRun
    <3>3. NeedInv
      BY <3>2, InitFilesInv DEF NeedInv, NeedRun
    <3>4. \A p \in Run : RateRun(run[p], clock)
      BY <3>2 DEF RateRun, Installing
    <3>5. Cardinality(S) \in Nat
      BY SettledOK
    <3>6. Len(Tasks) * Epoch(clock) \in Nat
      <4>1. Len(Tasks) \in Nat /\ Epoch(clock) \in Nat
        BY <2>0, <3>1, PlaybookTables, EpochOK
      <4>2. QED
        BY <4>1
    <3> HIDE DEF S
    <3>7. Bound(issued, faults, clock, S)
      BY <3>1, <3>5, <3>6 DEF Bound
    <3>8. QED
      BY <3>3, <3>4, <3>7 DEF RateInv, S
  <2>2. RateInv /\ [Next]_vars => RateInv'
    BY <2>0, NextRate
  <2>3. RateInv => RenewalRate
    <3> SUFFICES ASSUME RateInv
                 PROVE  issued <= 1 + Len(Tasks) * (1 + clock \div Cycle) + faults
      BY DEF RenewalRate, Cycle
    <3> DEFINE S == Settled(disk, AheadNow, Epoch(clock))
               e == clock \div Cycle
    <3>1. issued <= 1 + faults + Len(Tasks) * e + Cardinality(S)
      BY DEF RateInv, Bound, Epoch
    <3>2. Cardinality(S) \in Nat /\ Cardinality(S) <= Len(Tasks)
      BY SettledOK
    <3>3. issued \in Nat /\ faults \in Nat /\ clock \in Nat
      BY DEF RateInv, NeedInv, FilesInv, TypeOK
    <3>4. e \in Nat /\ Len(Tasks) \in Nat
      BY <2>0, <3>3, EpochOK, PlaybookTables DEF Epoch
    <3> DEFINE m == Len(Tasks) * (1 + e)
               l == Len(Tasks) * e
    <3> HIDE DEF S, e
    <3>5. m = Len(Tasks) + l /\ l \in Nat
      BY <3>4
    <3>6. issued <= 1 + faults + l + Cardinality(S)
      BY <3>1
    <3> HIDE DEF l, m
    <3>7. issued <= 1 + m + faults
      BY <3>2, <3>3, <3>4, <3>5, <3>6
    <3>8. QED
      BY <3>7 DEF m, e
  <2>4. QED
    BY <2>1, <2>2, <2>3, PTL DEF Spec
<1>3. QED
  BY <1>1, <1>2
=============================================================================
