-------------------------- MODULE EnrollmentProofs --------------------------
(***************************************************************************)
(* Theorems about Enrollment, for any number of processes, requests and    *)
(* faults.                                                                 *)
(***************************************************************************)
EXTENDS Enrollment, TLAPS

(* A command in state r that is about to write a pair has one.             *)
Paired(r) == r.pc = "write" /\ r.cert # 0 /\ r.key # 0 => r.cert = r.key

Sound(r, n) == r \in RunState /\ Fits(r, n) /\ Paired(r)

(* OwnPair is inductive over the types.                                    *)
EnrollInv == TypeOK /\ OwnPair

RequestsOK == requests' \in Seq(Request) /\ Len(requests') >= Len(requests)

FilesOK ==
  /\ file' \in [Slot -> Nat \cup {Absent, Torn}]
  /\ \A s \in Slot : file'[s] \in Nat => file'[s] \in 1 .. Len(requests')

HistoryOK ==
  /\ overlap' \in BOOLEAN /\ loose' \in BOOLEAN /\ faults' \in Nat
  /\ exit' \in {"none", "ok", "error", "timeout"}

-----------------------------------------------------------------------------
LEMMA SoundRuns ==
  ASSUME EnrollInv, NEW p \in Run
  PROVE  Sound(run[p], Len(requests)) /\ run[p] \in RunState
BY DEF EnrollInv, TypeOK, OwnPair, Sound, Paired

LEMMA SoundGrows ==
  ASSUME NEW r, NEW n \in Nat, NEW m \in Nat, Sound(r, n), n <= m
  PROVE  Sound(r, m)
BY DEF Sound, Fits, RunState

LEMMA IdleSound == ASSUME NEW n \in Nat PROVE Sound(Idle, n)
<1>1. Idle \in RunState
  BY DEF Idle, Command, RunState, Csr
<1>2. QED
  BY <1>1 DEF Sound, Fits, Paired, Idle, Command

(* A step of one process keeps the invariant when its parts do.            *)
LEMMA OneRun ==
  ASSUME EnrollInv, NEW p \in Run, NEW r, Sound(r, Len(requests')),
         run' = [run EXCEPT ![p] = r], platform' = platform,
         RequestsOK, FilesOK, HistoryOK
  PROVE  EnrollInv'
<1>0. Len(requests) \in Nat /\ Len(requests') \in Nat /\ Len(requests) <= Len(requests')
  BY DEF EnrollInv, TypeOK, RequestsOK
<1>1. run' \in [Run -> RunState]
  BY DEF EnrollInv, TypeOK, Sound
<1>2. ASSUME NEW q \in Run
      PROVE  Sound(run'[q], Len(requests'))
  <2>1. CASE q = p
    BY <2>1 DEF EnrollInv, TypeOK
  <2>2. CASE q # p
    <3>1. run'[q] = run[q]
      BY <2>2 DEF EnrollInv, TypeOK
    <3>2. QED
      BY <3>1, <1>0, SoundRuns, SoundGrows
  <2>3. QED
    BY <2>1, <2>2
<1>3. \A q \in Run : Fits(run'[q], Len(requests'))
  BY <1>2 DEF Sound
<1>4. OwnPair'
  BY <1>2 DEF Sound, Paired, OwnPair
<1>5. platform' \in {"tpp", "cloud", "firefly"}
  BY DEF EnrollInv, TypeOK
<1>6. TypeOK'
  BY <1>1, <1>3, <1>5 DEF TypeOK, RequestsOK, FilesOK, HistoryOK, Fits
<1>7. QED
  BY <1>4, <1>6 DEF EnrollInv

LEMMA Unchanged ==
  ASSUME EnrollInv
  PROVE  /\ UNCHANGED requests => RequestsOK
         /\ UNCHANGED <<requests, file>> => FilesOK
<1>1. UNCHANGED requests => RequestsOK
  BY DEF EnrollInv, TypeOK, RequestsOK
<1>2. UNCHANGED <<requests, file>> => FilesOK
  BY DEF EnrollInv, TypeOK, FilesOK
<1>3. QED
  BY <1>1, <1>2

LEMMA GoKeeps ==
  ASSUME EnrollInv, NEW p \in Run, NEW r, Sound(r, Len(requests')), Go(p, r),
         platform' = platform, RequestsOK, FilesOK, overlap' = overlap, faults' \in Nat
  PROVE  EnrollInv'
<1>1. HistoryOK
  BY DEF HistoryOK, Go, EnrollInv, TypeOK
<1>2. run' = [run EXCEPT ![p] = r]
  BY DEF Go
<1>3. QED
  BY <1>1, <1>2, OneRun

LEMMA EndKeeps ==
  ASSUME EnrollInv, NEW p \in Run, run' = [run EXCEPT ![p] = Idle], loose' \in BOOLEAN,
         exit' \in {"ok", "error", "timeout"},
         platform' = platform, RequestsOK, FilesOK, overlap' = overlap, faults' \in Nat
  PROVE  EnrollInv'
<1>1. HistoryOK
  BY DEF HistoryOK, EnrollInv, TypeOK
<1>2. Sound(Idle, Len(requests'))
  BY IdleSound DEF RequestsOK
<1>3. QED
  BY <1>1, <1>2, OneRun

LEMMA QuitKeeps ==
  ASSUME EnrollInv, NEW p \in Run, NEW o \in {"ok", "error", "timeout"}, Quit(p, o),
         platform' = platform, RequestsOK, FilesOK, overlap' = overlap, faults' \in Nat
  PROVE  EnrollInv'
<1>1. loose' \in BOOLEAN
  <2>1. (loose /\ run[p].cmd = "pickup") \in BOOLEAN /\ (loose \/ Touched(run[p])) \in BOOLEAN
    OBVIOUS
  <2>2. loose' = (IF o = "ok" THEN loose /\ run[p].cmd = "pickup" ELSE loose \/ Touched(run[p]))
    BY DEF Quit
  <2>3. QED
    BY <2>1, <2>2, Zenon
<1>2. run' = [run EXCEPT ![p] = Idle] /\ exit' = o
  BY DEF Quit
<1>3. QED
  BY <1>1, <1>2, EndKeeps

(* The platform numbers requests one after the other.                      *)
LEMMA Accepted ==
  ASSUME EnrollInv, NEW p \in Run, run[p].pc = "post", Accept(run[p])
  PROVE  /\ Len(requests') = Len(requests) + 1 /\ RequestsOK
         /\ UNCHANGED file => FilesOK
<1> DEFINE r == run[p]
<1> DEFINE root == IF r.cmd = "renew" THEN requests[Named(r.id)].root ELSE Len(requests) + 1
<1> DEFINE status == IF platform = "firefly" THEN "issued" ELSE "pending"
<1>1. Sound(r, Len(requests)) /\ r \in RunState /\ requests \in Seq(Request)
      /\ Len(requests) \in Nat
  BY SoundRuns DEF EnrollInv, TypeOK
<1>2. root \in Nat
  <2>1. CASE r.cmd = "renew"
    <3>1. r.id \in 1 .. Len(requests)
      BY <1>1, <2>1 DEF Sound, Fits, RunState
    <3>2. Named(r.id) \in 1 .. Len(requests)
      BY <1>1, <3>1 DEF Named
    <3>3. requests[Named(r.id)] \in Request
      BY <1>1, <3>2
    <3>4. QED
      BY <2>1, <3>3 DEF Request
  <2>2. CASE r.cmd # "renew"
    BY <1>1, <2>2
  <2>3. QED
    BY <2>1, <2>2
<1>3. [csr |-> r.csr, status |-> status, root |-> root] \in Request
  <2>1. r.csr \in Csr /\ status \in {"pending", "issued", "rejected"}
    BY <1>1 DEF RunState
  <2>2. QED
    BY <1>2, <2>1 DEF Request
<1>4. requests' = Append(requests, [csr |-> r.csr, status |-> status, root |-> root])
  BY DEF Accept
<1> HIDE DEF root, status, r
<1>5. Len(requests') = Len(requests) + 1 /\ requests' \in Seq(Request)
  BY <1>1, <1>3, <1>4
<1>6. RequestsOK
  BY <1>1, <1>5 DEF RequestsOK
<1>7. UNCHANGED file => FilesOK
  BY <1>1, <1>5 DEF EnrollInv, TypeOK, FilesOK
<1>8. QED
  BY <1>5, <1>6, <1>7

LEMMA Collected ==
  ASSUME NEW r \in RunState, NEW n \in Nat, r.id \in 0 .. n,
         NEW c \in 0 .. n, NEW k \in 0 .. n, c # 0 /\ k # 0 => c = k
  PROVE  Sound(Collect(r, c, k), n)
<1>1. Collect(r, c, k) \in RunState
  <2>1. c \in Nat /\ k \in Nat /\ 1 \in 1 .. 3
    OBVIOUS
  <2>2. QED
    BY <2>1 DEF Collect, RunState
<1>2. QED
  BY <1>1 DEF Collect, Sound, Fits, Paired, RunState

LEMMA CheckedKeeps ==
  ASSUME EnrollInv, NEW p \in Run, NEW n \in 1 .. Len(requests), Checked(p, n),
         UNCHANGED <<platform, requests, file, overlap, faults>>
  PROVE  EnrollInv'
<1>1. /\ RequestsOK /\ FilesOK /\ faults' \in Nat /\ Len(requests) \in Nat
      /\ Sound(run[p], Len(requests)) /\ run[p] \in RunState
  BY Unchanged, SoundRuns DEF EnrollInv, TypeOK
<1>2. CASE run[p].key \in {0, n}
  <2>1. Sound(Collect(run[p], n, run[p].key), Len(requests))
    <3>1. /\ run[p].id \in 0 .. Len(requests) /\ run[p].key \in 0 .. Len(requests)
          /\ n \in 0 .. Len(requests)
      BY <1>1 DEF Sound, Fits
    <3>2. n # 0 /\ run[p].key # 0 => n = run[p].key
      BY <1>2
    <3>3. QED
      BY <1>1, <3>1, <3>2, Collected
  <2>2. Go(p, Collect(run[p], n, run[p].key))
    BY <1>2 DEF Checked
  <2>3. QED
    BY <1>1, <2>1, <2>2, GoKeeps
<1>3. CASE run[p].key \notin {0, n}
  BY <1>1, <1>3, QuitKeeps DEF Checked
<1>4. QED
  BY <1>2, <1>3

LEMMA NoKeyKeeps ==
  ASSUME EnrollInv, NEW p \in Run, NoKey(p), run[p].pc = "retrieve",
         UNCHANGED <<platform, requests, file, overlap, faults>>
  PROVE  EnrollInv'
<1>1. /\ RequestsOK /\ FilesOK /\ faults' \in Nat
      /\ Sound(run[p], Len(requests)) /\ run[p] \in RunState
  BY Unchanged, SoundRuns DEF EnrollInv, TypeOK
<1>2. CASE run[p].cmd = "pickup" /\ run[p].auto
  <2>1. [run[p] EXCEPT !.fetch = FALSE] \in RunState
    BY <1>1 DEF RunState
  <2>2. Sound([run[p] EXCEPT !.fetch = FALSE], Len(requests))
    BY <1>1, <2>1 DEF Sound, Fits, Paired, RunState
  <2>3. QED
    BY <1>1, <1>2, <2>2, GoKeeps DEF NoKey
<1>3. CASE ~(run[p].cmd = "pickup" /\ run[p].auto)
  BY <1>1, <1>3, QuitKeeps DEF NoKey
<1>4. QED
  BY <1>2, <1>3

(* The next file, or the end; bad is the outcome so far.                   *)
LEMMA AfterKeeps ==
  ASSUME EnrollInv, NEW p \in Run, NEW bad \in BOOLEAN, After(p, bad), run[p].pc = "write",
         UNCHANGED <<platform, requests, overlap>>, FilesOK, faults' \in Nat
  PROVE  EnrollInv'
<1>1. /\ RequestsOK /\ Sound(run[p], Len(requests)) /\ run[p] \in RunState
  BY Unchanged, SoundRuns
<1>2. CASE run[p].slot < 3
  <2> DEFINE r == [run[p] EXCEPT !.slot = @ + 1, !.bad = bad]
  <2>1. r \in RunState
    <3>1. run[p].slot + 1 \in 1 .. 3
      BY <1>1, <1>2 DEF RunState
    <3>2. QED
      BY <1>1, <3>1 DEF RunState
  <2>2. Sound(r, Len(requests))
    BY <1>1, <2>1 DEF Sound, Fits, Paired, RunState
  <2>3. QED
    BY <1>1, <1>2, <2>2, GoKeeps DEF After
<1>3. CASE ~(run[p].slot < 3)
  <2>1. CASE bad
    BY <1>1, <1>3, <2>1, QuitKeeps DEF After
  <2>2. CASE ~bad
    BY <1>1, <1>3, <2>2, QuitKeeps DEF After
  <2>3. QED
    BY <2>1, <2>2
<1>4. QED
  BY <1>2, <1>3

-----------------------------------------------------------------------------
(* One lemma per action.                                                   *)

LEMMA BeginKeeps ==
  ASSUME EnrollInv, NEW p \in Run, NEW r, Sound(r, Len(requests)), Begin(p, r)
  PROVE  EnrollInv'
<1>1. RequestsOK /\ FilesOK /\ platform' = platform /\ requests' = requests
  BY Unchanged DEF Begin
<1>2. HistoryOK
  <2>1. (overlap \/ \E q \in Run \ {p} : Active(q)) \in BOOLEAN
    OBVIOUS
  <2>2. overlap' = (overlap \/ \E q \in Run \ {p} : Active(q))
    BY DEF Begin
  <2>3. overlap' \in BOOLEAN
    BY <2>1, <2>2, Zenon
  <2>4. QED
    BY <2>3 DEF Begin, HistoryOK, EnrollInv, TypeOK
<1>3. run' = [run EXCEPT ![p] = r]
  BY DEF Begin
<1>4. QED
  BY <1>1, <1>2, <1>3, OneRun

LEMMA StartEnrollKeeps == ASSUME EnrollInv, NEW p \in Run, StartEnroll(p) PROVE EnrollInv'
<1>1. PICK csr \in Csr, noPickup \in BOOLEAN :
        Begin(p, Command("post", "enroll", csr, noPickup, FALSE, csr = "service", 0))
  BY DEF StartEnroll
<1>2. ASSUME NEW fetch \in BOOLEAN
      PROVE  Sound(Command("post", "enroll", csr, noPickup, FALSE, fetch, 0), Len(requests))
  <2>1. Command("post", "enroll", csr, noPickup, FALSE, fetch, 0) \in RunState
    BY DEF Command, RunState
  <2>2. Len(requests) \in Nat
    BY DEF EnrollInv, TypeOK
  <2>3. QED
    BY <2>1, <2>2 DEF Sound, Fits, Paired, Command
<1>3. (csr = "service") \in BOOLEAN
  OBVIOUS
<1>4. Sound(Command("post", "enroll", csr, noPickup, FALSE, csr = "service", 0), Len(requests))
  BY <1>2, <1>3, Zenon
<1>5. QED
  BY <1>1, <1>4, BeginKeeps

LEMMA StartRenewKeeps == ASSUME EnrollInv, NEW p \in Run, StartRenew(p) PROVE EnrollInv'
<1>1. PICK csr \in Csr, noPickup \in BOOLEAN :
        Begin(p, Command("old", "renew", csr, noPickup, FALSE, csr = "service", file["id"]))
  BY DEF StartRenew
<1>2. file["id"] \in 1 .. Len(requests) /\ Len(requests) \in Nat
  BY DEF StartRenew, EnrollInv, TypeOK, Slot
<1>3. ASSUME NEW fetch \in BOOLEAN
      PROVE  Sound(Command("old", "renew", csr, noPickup, FALSE, fetch, file["id"]),
                   Len(requests))
  <2>1. Command("old", "renew", csr, noPickup, FALSE, fetch, file["id"]) \in RunState
    BY <1>2 DEF Command, RunState
  <2>2. QED
    BY <1>2, <2>1 DEF Sound, Fits, Paired, Command
<1>4. (csr = "service") \in BOOLEAN
  OBVIOUS
<1>5. Sound(Command("old", "renew", csr, noPickup, FALSE, csr = "service", file["id"]),
            Len(requests))
  BY <1>3, <1>4, Zenon
<1>6. QED
  BY <1>1, <1>5, BeginKeeps

LEMMA StartPickupKeeps ==
  ASSUME EnrollInv, NEW p \in Run, NEW auto \in BOOLEAN, StartPickup(p, auto)
  PROVE  EnrollInv'
<1>1. file["id"] \in 1 .. Len(requests) /\ Len(requests) \in Nat
  BY DEF StartPickup, EnrollInv, TypeOK, Slot
<1>2. ASSUME NEW fetch \in BOOLEAN
      PROVE  Sound(Command("retrieve", "pickup", "local", FALSE, auto, fetch, file["id"]),
                   Len(requests))
  <2>1. Command("retrieve", "pickup", "local", FALSE, auto, fetch, file["id"]) \in RunState
    BY <1>1 DEF Command, RunState, Csr
  <2>2. QED
    BY <1>1, <2>1 DEF Sound, Fits, Paired, Command
<1>3. (platform = "tpp" \/ ~auto) \in BOOLEAN
  OBVIOUS
<1>4. Sound(Command("retrieve", "pickup", "local", FALSE, auto,
                    platform = "tpp" \/ ~auto, file["id"]), Len(requests))
  BY <1>2, <1>3, Zenon
<1>5. QED
  BY <1>4, BeginKeeps DEF StartPickup

LEMMA FetchOldKeeps == ASSUME EnrollInv, NEW p \in Run, FetchOld(p) PROVE EnrollInv'
<1>1. /\ RequestsOK /\ FilesOK /\ faults' \in Nat /\ platform' = platform
      /\ overlap' = overlap /\ requests' = requests
      /\ Sound(run[p], Len(requests)) /\ run[p] \in RunState
  BY Unchanged, SoundRuns DEF FetchOld, EnrollInv, TypeOK
<1>2. ASSUME NEW pc \in {"current", "post"}
      PROVE  Sound([run[p] EXCEPT !.pc = pc], Len(requests))
  <2>1. [run[p] EXCEPT !.pc = pc] \in RunState
    BY <1>1 DEF RunState
  <2>2. run[p].id # 0
    BY <1>1 DEF FetchOld, Sound, Fits
  <2>3. QED
    BY <1>1, <2>1, <2>2 DEF Sound, Fits, Paired, RunState
<1>3. CASE Issued(Named(run[p].id))
  <2>1. PICK pc \in {"current", "post"} : Go(p, [run[p] EXCEPT !.pc = pc])
    BY <1>3 DEF FetchOld
  <2>2. QED
    BY <1>1, <1>2, <2>1, GoKeeps
<1>4. CASE ~Issued(Named(run[p].id))
  BY <1>1, <1>4, QuitKeeps DEF FetchOld
<1>5. QED
  BY <1>3, <1>4

LEMMA CheckLatestKeeps == ASSUME EnrollInv, NEW p \in Run, CheckLatest(p) PROVE EnrollInv'
<1>1. /\ RequestsOK /\ FilesOK /\ faults' \in Nat /\ platform' = platform
      /\ overlap' = overlap /\ requests' = requests
      /\ Sound(run[p], Len(requests)) /\ run[p] \in RunState
  BY Unchanged, SoundRuns DEF CheckLatest, EnrollInv, TypeOK
<1>2. CASE Latest(run[p].id) /\ run[p].csr = "local"
  <2> DEFINE r == [run[p] EXCEPT !.pc = "post"]
  <2>1. r \in RunState
    BY <1>1 DEF RunState
  <2>2. Sound(r, Len(requests))
    BY <1>1, <2>1 DEF CheckLatest, Sound, Fits, Paired, RunState
  <2>3. Go(p, r)
    BY <1>2 DEF CheckLatest
  <2>4. QED
    BY <1>1, <2>2, <2>3, GoKeeps
<1>3. CASE ~(Latest(run[p].id) /\ run[p].csr = "local")
  BY <1>1, <1>3, QuitKeeps DEF CheckLatest
<1>4. QED
  BY <1>2, <1>3

LEMMA PostKeeps == ASSUME EnrollInv, NEW p \in Run, Post(p) PROVE EnrollInv'
<1> DEFINE r == run[p]
           n == Len(requests) + 1
           held == IF r.csr = "local" THEN n ELSE 0
<1>1. /\ Len(requests') = n /\ RequestsOK /\ FilesOK
  BY Accepted DEF Post
<1>2. /\ Sound(r, Len(requests)) /\ r \in RunState /\ Len(requests) \in Nat
      /\ faults' \in Nat /\ platform' = platform /\ overlap' = overlap
  BY SoundRuns DEF Post, EnrollInv, TypeOK
<1>3. n \in Nat /\ n \in 0 .. n /\ held \in 0 .. n /\ r.id \in 0 .. n /\ n # 0 /\ 0 \in 0 .. n
  BY <1>2 DEF Sound, Fits
<1>4. CASE platform = "firefly"
  <2>1. Sound(Collect(r, n, n), n)
    BY <1>2, <1>3, Collected
  <2>2. Go(p, Collect(r, n, n))
    BY <1>4 DEF Post
  <2>3. QED
    BY <1>1, <1>2, <2>1, <2>2, GoKeeps
<1>5. CASE platform # "firefly" /\ r.noPickup
  <2> DEFINE m == [r EXCEPT !.id = n]
  <2>1. m \in RunState /\ m.id = n
    BY <1>2, <1>3 DEF RunState
  <2>2. Sound(Collect(m, 0, held), n)
    <3> HIDE DEF m, n, held
    <3>1. 0 # 0 /\ held # 0 => 0 = held
      OBVIOUS
    <3>2. QED
      BY <1>3, <2>1, <3>1, Collected
  <2>3. Go(p, Collect(m, 0, held))
    BY <1>5 DEF Post
  <2>4. QED
    BY <1>1, <1>2, <2>2, <2>3, GoKeeps
<1>6. CASE platform # "firefly" /\ ~r.noPickup
  <2> DEFINE m == [r EXCEPT !.pc = "retrieve", !.id = n, !.key = held]
  <2>1. m \in RunState
    BY <1>2, <1>3 DEF RunState
  <2>2. Sound(m, n)
    <3>1. m.pc = "retrieve" /\ m.id = n /\ m.key = held /\ m.cert = r.cert
      BY <1>2 DEF RunState
    <3>2. r.cert \in 0 .. n
      BY <1>2 DEF Sound, Fits
    <3>3. QED
      BY <1>3, <2>1, <3>1, <3>2 DEF Sound, Fits, Paired
  <2>3. Go(p, m)
    BY <1>6 DEF Post
  <2>4. QED
    BY <1>1, <1>2, <2>2, <2>3, GoKeeps
<1>7. QED
  BY <1>4, <1>5, <1>6

LEMMA RefusedKeeps == ASSUME EnrollInv, NEW p \in Run, Refused(p) PROVE EnrollInv'
<1>1. /\ RequestsOK /\ FilesOK /\ faults' \in Nat /\ platform' = platform /\ overlap' = overlap
  BY Unchanged DEF Refused, EnrollInv, TypeOK
<1>2. QED
  BY <1>1, QuitKeeps DEF Refused

LEMMA PostLostKeeps == ASSUME EnrollInv, NEW p \in Run, PostLost(p) PROVE EnrollInv'
<1>1. /\ RequestsOK /\ FilesOK /\ faults' \in Nat /\ platform' = platform /\ overlap' = overlap
      /\ loose' \in BOOLEAN
  BY Accepted DEF PostLost, Fault, EnrollInv, TypeOK
<1>2. QED
  BY <1>1, EndKeeps DEF PostLost

LEMMA RetrieveKeeps == ASSUME EnrollInv, NEW p \in Run, Retrieve(p) PROVE EnrollInv'
<1> DEFINE r == run[p]
           n == Named(r.id)
<1>1. /\ RequestsOK /\ FilesOK /\ faults' \in Nat /\ platform' = platform
      /\ overlap' = overlap /\ requests' = requests /\ file' = file /\ faults' = faults
      /\ Sound(r, Len(requests)) /\ r \in RunState /\ r.pc = "retrieve"
  BY Unchanged, SoundRuns DEF Retrieve, EnrollInv, TypeOK
<1>2. r.id \in 1 .. Len(requests) /\ Len(requests) \in Nat
  BY <1>1 DEF Sound, Fits, RunState, EnrollInv, TypeOK
<1>3. n \in 1 .. Len(requests)
  BY <1>2 DEF Named
<1>4. CASE Quit(p, "error")
  BY <1>1, <1>4, QuitKeeps
<1>5. CASE Go(p, Collect(r, n, n))
  <2>1. Sound(Collect(r, n, n), Len(requests))
    BY <1>1, <1>2, <1>3, Collected
  <2>2. QED
    BY <1>1, <1>5, <2>1, GoKeeps
<1>6. CASE NoKey(p)
  BY <1>1, <1>6, NoKeyKeeps
<1>7. CASE Checked(p, n)
  BY <1>1, <1>3, <1>7, CheckedKeeps
<1>8. QED
  BY <1>4, <1>5, <1>6, <1>7 DEF Retrieve

LEMMA TimeoutKeeps == ASSUME EnrollInv, NEW p \in Run, Timeout(p) PROVE EnrollInv'
<1>1. /\ RequestsOK /\ FilesOK /\ faults' \in Nat /\ platform' = platform /\ overlap' = overlap
  BY Unchanged DEF Timeout, EnrollInv, TypeOK
<1>2. QED
  BY <1>1, QuitKeeps DEF Timeout

(* A file gets the number of a request, or is torn.                        *)
LEMMA FileWritten ==
  ASSUME EnrollInv, requests' = requests, NEW s \in Slot,
         NEW c \in {Torn, file[s]} \cup (1 .. Len(requests)), file' = [file EXCEPT ![s] = c]
  PROVE  FilesOK
<1>1. file \in [Slot -> Nat \cup {Absent, Torn}] /\ Len(requests) \in Nat
      /\ \A t \in Slot : file[t] \in Nat => file[t] \in 1 .. Len(requests)
  BY DEF EnrollInv, TypeOK
<1>2. c \in Nat => c \in 1 .. Len(requests)
  BY <1>1, EnrollmentAssumption
<1>3. c \in Nat \cup {Absent, Torn}
  BY <1>1
<1>4. QED
  BY <1>1, <1>2, <1>3 DEF FilesOK

LEMMA ContentOK ==
  ASSUME EnrollInv, NEW p \in Run
  PROVE  /\ Slots[run[p].slot] \in Slot
         /\ \A s \in Slot : Content(run[p], s) \in 0 .. Len(requests)
<1>1. Sound(run[p], Len(requests)) /\ run[p] \in RunState /\ Len(requests) \in Nat
  BY SoundRuns DEF EnrollInv, TypeOK
<1>2. Slots[run[p].slot] \in Slot
  BY <1>1 DEF RunState, Slots, Slot
<1>3. \A s \in Slot : Content(run[p], s) \in 0 .. Len(requests)
  BY <1>1 DEF Content, Sound, Fits
<1>4. QED
  BY <1>2, <1>3

LEMMA WriteKeeps == ASSUME EnrollInv, NEW p \in Run, Write(p) PROVE EnrollInv'
<1> DEFINE r == run[p]
           s == Slots[r.slot]
           c == Content(r, s)
<1>1. /\ platform' = platform /\ requests' = requests /\ overlap' = overlap
      /\ r.pc = "write" /\ r \in RunState /\ faults \in Nat /\ Len(requests) \in Nat
      /\ s \in Slot /\ c \in 0 .. Len(requests)
  BY SoundRuns, ContentOK DEF Write, EnrollInv, TypeOK
<1>2. r.bad \in BOOLEAN
  BY <1>1 DEF RunState
<1>3. CASE c = 0 /\ After(p, r.bad) /\ UNCHANGED <<file, faults>>
  BY <1>1, <1>2, <1>3, Unchanged, AfterKeeps
<1>4. CASE c # 0 /\ file' = [file EXCEPT ![s] = c] /\ After(p, Errors(r, FALSE)) /\ UNCHANGED faults
  <2>1. FilesOK
    <3>1. c \in {Torn, file[s]} \cup (1 .. Len(requests)) /\ file' = [file EXCEPT ![s] = c]
      BY <1>1, <1>4
    <3> HIDE DEF s, c
    <3>2. QED
      BY <1>1, <3>1, FileWritten
  <2>2. Errors(r, FALSE) \in BOOLEAN
    BY <1>2 DEF Errors
  <2>3. QED
    BY <1>1, <1>4, <2>1, <2>2, AfterKeeps
<1>5. CASE /\ c # 0
           /\ \E f \in {file[s], Torn, c} : file' = [file EXCEPT ![s] = f]
           /\ After(p, Errors(r, TRUE))
           /\ Fault
  <2>1. FilesOK
    <3>1. PICK f \in {file[s], Torn, c} : file' = [file EXCEPT ![s] = f]
      BY <1>5
    <3>2. f \in {Torn, file[s]} \cup (1 .. Len(requests))
      BY <1>1, <1>5
    <3> HIDE DEF s, c
    <3>3. QED
      BY <1>1, <3>1, <3>2, FileWritten
  <2>2. Errors(r, TRUE) \in BOOLEAN
    BY <1>2 DEF Errors
  <2>3. faults' \in Nat
    BY <1>1, <1>5 DEF Fault
  <2>4. QED
    BY <1>1, <1>5, <2>1, <2>2, <2>3, AfterKeeps
<1>6. QED
  BY <1>3, <1>4, <1>5 DEF Write

LEMMA StopKeeps == ASSUME EnrollInv, NEW p \in Run, Stop(p) PROVE EnrollInv'
<1>1. /\ platform' = platform /\ requests' = requests /\ overlap' = overlap
      /\ faults' \in Nat /\ Quit(p, "error") /\ Slots[run[p].slot] \in Slot
  BY ContentOK DEF Stop, Fault, EnrollInv, TypeOK
<1>2. RequestsOK
  BY <1>1, Unchanged
<1>3. FilesOK
  <2>1. CASE UNCHANGED file
    BY <1>1, <2>1, Unchanged
  <2>2. CASE file' = [file EXCEPT ![Slots[run[p].slot]] = Torn]
    BY <1>1, <2>2, FileWritten
  <2>3. QED
    BY <2>1, <2>2 DEF Stop
<1>4. QED
  BY <1>1, <1>2, <1>3, QuitKeeps

LEMMA ProcessKeeps == ASSUME EnrollInv, Process PROVE EnrollInv'
<1>1. PICK n \in 1 .. Len(requests), s \in {"issued", "rejected"} :
        requests' = [requests EXCEPT ![n].status = s]
  BY DEF Process
<1>2. requests \in Seq(Request) /\ requests[n] \in Request
  BY DEF EnrollInv, TypeOK
<1>3. [requests[n] EXCEPT !.status = s] \in Request
  BY <1>2 DEF Request
<1>4. requests' \in Seq(Request) /\ Len(requests') = Len(requests)
  BY <1>1, <1>2, <1>3
<1>5. QED
  BY <1>4 DEF Process, EnrollInv, TypeOK, OwnPair, Fits

-----------------------------------------------------------------------------
LEMMA InitEnrollInv == Init => EnrollInv
<1> SUFFICES ASSUME Init PROVE EnrollInv
  OBVIOUS
<1>1. requests \in Seq(Request) /\ Len(requests) = 0
  BY DEF Init
<1>2. \A p \in Run : run[p] = Idle
  BY DEF Init
<1>3. run \in [Run -> RunState]
  BY IdleSound DEF Init, Sound
<1>4. \A p \in Run : Fits(run[p], Len(requests)) /\ run[p].pc = "idle"
  <2>1. Sound(Idle, Len(requests))
    BY <1>1, IdleSound
  <2>2. Idle.pc = "idle"
    BY DEF Idle, Command
  <2>3. QED
    BY <1>2, <2>1, <2>2 DEF Sound
<1>5. /\ file \in [Slot -> Nat \cup {Absent, Torn}]
      /\ \A s \in Slot : file[s] \in Nat => file[s] \in 1 .. Len(requests)
  BY EnrollmentAssumption DEF Init
<1>6. platform \in {"tpp", "cloud", "firefly"}
  BY EnrollmentAssumption DEF Init
<1>7. TypeOK
  BY <1>1, <1>3, <1>4, <1>5, <1>6 DEF Init, TypeOK
<1>8. QED
  BY <1>4, <1>7 DEF EnrollInv, OwnPair

LEMMA NextEnrollInv == EnrollInv /\ [Next]_vars => EnrollInv'
<1> SUFFICES ASSUME EnrollInv, [Next]_vars PROVE EnrollInv'
  OBVIOUS
<1>1. ASSUME NEW p \in Run, Step(p) PROVE EnrollInv'
  BY <1>1, FetchOldKeeps, CheckLatestKeeps, PostKeeps, RefusedKeeps, RetrieveKeeps,
     TimeoutKeeps, WriteKeeps DEF Step
<1>2. ASSUME NEW p \in Run, StartEnroll(p) \/ StartRenew(p) \/ PostLost(p) \/ Stop(p)
      PROVE  EnrollInv'
  BY <1>2, StartEnrollKeeps, StartRenewKeeps, PostLostKeeps, StopKeeps
<1>3. ASSUME NEW p \in Run, NEW auto \in BOOLEAN, StartPickup(p, auto) PROVE EnrollInv'
  BY <1>3, StartPickupKeeps
<1>4. CASE Process
  BY <1>4, ProcessKeeps
<1>5. CASE UNCHANGED vars
  BY <1>5 DEF vars, EnrollInv, TypeOK, OwnPair, Fits
<1>6. QED
  BY <1>1, <1>2, <1>3, <1>4, <1>5 DEF Next, Horizon

(* Every command is at one of its steps, with ids, certificates and keys   *)
(* of requests the platform has accepted, and no file holds anything else. *)
THEOREM CommandsWellTyped == Spec => []TypeOK
<1>1. EnrollInv => TypeOK
  BY DEF EnrollInv
<1>2. QED
  BY InitEnrollInv, NextEnrollInv, <1>1, PTL DEF Spec

(* However commands overlap and whatever fails, a certificate and a key    *)
(* that a command is about to write belong together.                       *)
THEOREM PairsAreOwn == Spec => []OwnPair
<1>1. EnrollInv => OwnPair
  BY DEF EnrollInv
<1>2. QED
  BY InitEnrollInv, NextEnrollInv, <1>1, PTL DEF Spec

-----------------------------------------------------------------------------
(* Commands that do not overlap.  What the state r of a command says about *)
(* the requests and the files; pf is the platform.                         *)

(* The request an id stands for.                                           *)
Target(pf, reqs, id) == IF pf = "tpp" THEN Len(reqs) ELSE id

(* pickup reads the id and leaves it; it has a key only when the service   *)
(* made it.                                                                *)
PickupGood(r, pf, reqs, f) ==
  /\ pf # "firefly" /\ r.id = f["id"] /\ r.pc \in {"retrieve", "write"}
  /\ r.pc = "retrieve" => r.key = 0
  /\ r.pc = "write" => r.cert = Target(pf, reqs, r.id)
  /\ r.pc = "write" /\ r.key # 0 => reqs[r.cert].csr = "service"

(* enroll and renew have the key of their request or ask for it.           *)
PostGood(r, pf, reqs) ==
  /\ r.pc \in {"old", "current", "post"} => r.csr = "local" \/ r.fetch
  /\ r.pc = "retrieve" => r.fetch \/ r.key # 0
  /\ r.pc = "write" /\ r.cert # 0 => r.key # 0
  /\ r.pc \in {"retrieve", "write"} /\ pf # "firefly" =>
       /\ r.id = Len(reqs) /\ r.id # 0
       /\ reqs[r.id].csr = r.csr
       /\ r.csr = "local" => r.key = r.id

(* The files that Flush has written by now.                                *)
WrittenGood(r, f) ==
  r.pc = "write" /\ ~r.bad =>
    /\ r.slot > 1 /\ r.cert # 0 => f["cert"] = r.cert
    /\ r.slot > 2 /\ r.key # 0 => f["key"] = r.key

Good(r, pf, reqs, f) ==
  r.pc # "idle" =>
    /\ r.cmd = "pickup" => PickupGood(r, pf, reqs, f)
    /\ r.cmd # "pickup" => PostGood(r, pf, reqs)
    /\ WrittenGood(r, f)

(* A request has been posted that may not be on file yet.                  *)
Posted(r) == r.cmd # "pickup" /\ r.pc \in {"retrieve", "write"}

(* The key on file is the one of the request the id on file stands for.    *)
KeyOnFile(pf, reqs, f) ==
  f["id"] \in Nat /\ reqs[Target(pf, reqs, f["id"])].csr = "local" =>
    f["key"] = Target(pf, reqs, f["id"])

AllGood ==
  /\ \A p, q \in Run : Active(p) /\ Active(q) => p = q
  /\ \A p \in Run : Good(run[p], platform, requests, file)
  /\ ~loose /\ platform # "firefly" /\ (\A p \in Run : ~Posted(run[p])) =>
       KeyOnFile(platform, requests, file)

AloneInv == ~overlap => AllGood

PairInv == EnrollInv /\ AloneInv

-----------------------------------------------------------------------------
LEMMA IdleGood ==
  ASSUME NEW pf, NEW reqs, NEW f
  PROVE  Good(Idle, pf, reqs, f) /\ Idle.pc = "idle" /\ ~Posted(Idle)
BY DEF Good, Posted, Idle, Command

(* While a command runs alone, all other processes are idle.               *)
LEMMA OneStep ==
  ASSUME EnrollInv, AllGood, NEW p \in Run, Active(p), NEW r,
         run' = [run EXCEPT ![p] = r], platform' = platform,
         Good(r, platform, requests', file'),
         ~loose' /\ platform # "firefly" /\ ~Posted(r) => KeyOnFile(platform, requests', file')
  PROVE  AllGood'
<1>1. ASSUME NEW q \in Run
      PROVE  /\ q = p => run'[q] = r
             /\ q # p => run'[q] = run[q] /\ run'[q].pc = "idle"
  BY DEF EnrollInv, TypeOK, AllGood, Active
<1>2. \A q \in Run : Good(run'[q], platform, requests', file')
  BY <1>1 DEF Good
<1>3. \A q, t \in Run : run'[q].pc # "idle" /\ run'[t].pc # "idle" => q = t
  BY <1>1
<1>4. (\A q \in Run : ~Posted(run'[q])) => ~Posted(r)
  BY <1>1
<1>5. QED
  BY <1>2, <1>3, <1>4 DEF AllGood, Active

(* A command that is alone is good.                                        *)
LEMMA GoodRun ==
  ASSUME EnrollInv, AllGood, NEW p \in Run, Active(p)
  PROVE  /\ Good(run[p], platform, requests, file) /\ run[p].pc # "idle"
         /\ run[p] \in RunState /\ Sound(run[p], Len(requests))
         /\ ~loose /\ platform # "firefly" /\ ~Posted(run[p]) =>
              KeyOnFile(platform, requests, file)
<1>1. \A q \in Run : q # p => run[q].pc = "idle"
  BY DEF AllGood, Active
<1>2. (\A q \in Run : ~Posted(run[q])) <=> ~Posted(run[p])
  BY <1>1 DEF Posted
<1>3. QED
  BY <1>2, SoundRuns DEF AllGood, Active

(* A command that fails leaves the files as they were, or is marked.       *)
LEMMA QuitAlone ==
  ASSUME EnrollInv, AllGood, NEW p \in Run, Active(p), NEW o, o # "ok", Quit(p, o),
         platform' = platform, requests' = requests, UNCHANGED file \/ run[p].pc = "write"
  PROVE  AllGood'
<1>1. run' = [run EXCEPT ![p] = Idle] /\ (loose' <=> loose \/ Touched(run[p]))
  BY DEF Quit
<1>2. ASSUME ~loose', platform # "firefly" PROVE KeyOnFile(platform, requests', file')
  <2>1. ~loose /\ ~Touched(run[p])
    BY <1>1, <1>2
  <2>2. run[p].pc # "write" /\ ~Posted(run[p])
    BY <2>1 DEF Touched, Posted
  <2>3. QED
    BY <1>2, <2>1, <2>2, GoodRun
<1>3. QED
  BY <1>1, <1>2, IdleGood, OneStep

(* A command goes on and nothing else changes.                             *)
LEMMA GoAlone ==
  ASSUME EnrollInv, AllGood, NEW p \in Run, Active(p), NEW r, Go(p, r),
         Good(r, platform, requests, file), Posted(r) <=> Posted(run[p]),
         UNCHANGED <<platform, requests, file>>
  PROVE  AllGood'
BY GoodRun, OneStep DEF Go

(* A command starts: it runs alone only if nothing else does.              *)
LEMMA BeginAlone ==
  ASSUME EnrollInv, AloneInv, NEW p \in Run, NEW r, Begin(p, r),
         Good(r, platform, requests, file), ~Posted(r)
  PROVE  AloneInv'
<1> SUFFICES ASSUME ~overlap' PROVE AllGood'
  BY DEF AloneInv
<1>1. ~overlap /\ \A q \in Run \ {p} : ~Active(q)
  BY DEF Begin
<1>2. AllGood
  BY <1>1 DEF AloneInv
<1>3. /\ run' = [run EXCEPT ![p] = r] /\ platform' = platform /\ requests' = requests
      /\ file' = file /\ loose' = loose
  BY DEF Begin
<1>4. ASSUME NEW q \in Run
      PROVE  /\ q = p => run'[q] = r
             /\ q # p => run'[q] = run[q] /\ run'[q].pc = "idle"
  BY <1>1, <1>3 DEF EnrollInv, TypeOK, Active
<1>5. \A q \in Run : Good(run'[q], platform, requests', file')
  BY <1>3, <1>4 DEF Good
<1>6. \A q, t \in Run : run'[q].pc # "idle" /\ run'[t].pc # "idle" => q = t
  BY <1>4
<1>7. \A q \in Run : ~Posted(run[q])
  BY <1>1 DEF Begin, Active, Posted
<1>8. ~loose' /\ platform # "firefly" => KeyOnFile(platform, requests', file')
  BY <1>2, <1>3, <1>7 DEF AllGood
<1>9. QED
  BY <1>3, <1>5, <1>6, <1>8 DEF AllGood, Active

LEMMA StartEnrollAlone == ASSUME PairInv, NEW p \in Run, StartEnroll(p) PROVE AloneInv'
<1>1. PICK csr \in Csr, noPickup \in BOOLEAN :
        Begin(p, Command("post", "enroll", csr, noPickup, FALSE, csr = "service", 0))
  BY DEF StartEnroll
<1> DEFINE r == Command("post", "enroll", csr, noPickup, FALSE, csr = "service", 0)
<1>2. r.csr = "local" \/ r.fetch
  BY DEF Command, Csr
<1>3. r.pc = "post" /\ r.cmd = "enroll"
  BY DEF Command
<1> HIDE DEF r
<1>4. Good(r, platform, requests, file) /\ ~Posted(r)
  BY <1>2, <1>3 DEF Good, PostGood, WrittenGood, Posted
<1>5. Begin(p, r)
  BY <1>1 DEF r
<1>6. QED
  BY <1>4, <1>5, BeginAlone DEF PairInv

LEMMA StartRenewAlone == ASSUME PairInv, NEW p \in Run, StartRenew(p) PROVE AloneInv'
<1>1. PICK csr \in Csr, noPickup \in BOOLEAN :
        Begin(p, Command("old", "renew", csr, noPickup, FALSE, csr = "service", file["id"]))
  BY DEF StartRenew
<1> DEFINE r == Command("old", "renew", csr, noPickup, FALSE, csr = "service", file["id"])
<1>2. r.csr = "local" \/ r.fetch
  BY DEF Command, Csr
<1>3. r.pc = "old" /\ r.cmd = "renew"
  BY DEF Command
<1> HIDE DEF r
<1>4. Good(r, platform, requests, file) /\ ~Posted(r)
  BY <1>2, <1>3 DEF Good, PostGood, WrittenGood, Posted
<1>5. Begin(p, r)
  BY <1>1 DEF r
<1>6. QED
  BY <1>4, <1>5, BeginAlone DEF PairInv

LEMMA StartPickupAlone ==
  ASSUME PairInv, NEW p \in Run, NEW auto \in BOOLEAN, StartPickup(p, auto)
  PROVE  AloneInv'
<1> DEFINE r == Command("retrieve", "pickup", "local", FALSE, auto,
                        platform = "tpp" \/ ~auto, file["id"])
<1>1. Begin(p, r) /\ platform # "firefly"
  BY DEF StartPickup
<1>2. r.pc = "retrieve" /\ r.cmd = "pickup" /\ r.id = file["id"] /\ r.key = 0
  BY DEF Command
<1> HIDE DEF r
<1>3. Good(r, platform, requests, file) /\ ~Posted(r)
  BY <1>1, <1>2 DEF Good, PickupGood, WrittenGood, Posted
<1>4. QED
  BY <1>1, <1>3, BeginAlone DEF PairInv

LEMMA FetchOldAlone ==
  ASSUME EnrollInv, AllGood, NEW p \in Run, FetchOld(p) PROVE AllGood'
<1>1. /\ Active(p) /\ run[p] \in RunState /\ run[p].pc = "old"
      /\ Good(run[p], platform, requests, file)
      /\ UNCHANGED <<platform, requests, file>>
  BY GoodRun DEF FetchOld, Active
<1>2. ASSUME NEW pc \in {"current", "post"}, Go(p, [run[p] EXCEPT !.pc = pc]) PROVE AllGood'
  <2> DEFINE r == [run[p] EXCEPT !.pc = pc]
  <2>1. /\ r.pc = pc /\ r.cmd = run[p].cmd /\ r.csr = run[p].csr /\ r.fetch = run[p].fetch
    BY <1>1 DEF RunState
  <2> HIDE DEF r
  <2>2. Good(r, platform, requests, file) /\ ~Posted(r) /\ ~Posted(run[p])
    BY <1>1, <2>1 DEF Good, PickupGood, PostGood, WrittenGood, Posted
  <2>3. Go(p, r)
    BY <1>2 DEF r
  <2>4. QED
    BY <1>1, <2>2, <2>3, GoAlone
<1>3. CASE Issued(Named(run[p].id))
  BY <1>2, <1>3 DEF FetchOld
<1>4. CASE ~Issued(Named(run[p].id))
  BY <1>1, <1>4, QuitAlone DEF FetchOld
<1>5. QED
  BY <1>3, <1>4

LEMMA CheckLatestAlone ==
  ASSUME EnrollInv, AllGood, NEW p \in Run, CheckLatest(p) PROVE AllGood'
<1>1. /\ Active(p) /\ run[p] \in RunState /\ run[p].pc = "current"
      /\ Good(run[p], platform, requests, file)
      /\ UNCHANGED <<platform, requests, file>>
  BY GoodRun DEF CheckLatest, Active
<1>2. CASE Latest(run[p].id) /\ run[p].csr = "local"
  <2> DEFINE r == [run[p] EXCEPT !.pc = "post"]
  <2>1. /\ r.pc = "post" /\ r.cmd = run[p].cmd /\ r.csr = run[p].csr /\ r.fetch = run[p].fetch
    BY <1>1 DEF RunState
  <2>2. Go(p, r)
    BY <1>2 DEF CheckLatest
  <2> HIDE DEF r
  <2>3. Good(r, platform, requests, file) /\ ~Posted(r) /\ ~Posted(run[p])
    BY <1>1, <2>1 DEF Good, PickupGood, PostGood, WrittenGood, Posted
  <2>4. QED
    BY <1>1, <2>2, <2>3, GoAlone
<1>3. CASE ~(Latest(run[p].id) /\ run[p].csr = "local")
  BY <1>1, <1>3, QuitAlone DEF CheckLatest
<1>4. QED
  BY <1>2, <1>3

(* The request that is accepted is the last one and has the kind of key    *)
(* that was asked for.                                                     *)
LEMMA AcceptedCsr ==
  ASSUME EnrollInv, NEW p \in Run, run[p].pc = "post", Accept(run[p])
  PROVE  /\ Len(requests') = Len(requests) + 1 /\ Len(requests) \in Nat
         /\ requests'[Len(requests) + 1].csr = run[p].csr
<1>1. requests \in Seq(Request)
  BY DEF EnrollInv, TypeOK
<1>2. PICK x : requests' = Append(requests, x) /\ x.csr = run[p].csr
  BY DEF Accept
<1>3. QED
  BY <1>1, <1>2

LEMMA PostAlone == ASSUME EnrollInv, AllGood, NEW p \in Run, Post(p) PROVE AllGood'
<1> DEFINE r == run[p]
           n == Len(requests) + 1
           held == IF r.csr = "local" THEN n ELSE 0
<1>1. /\ Active(p) /\ r \in RunState /\ r.pc = "post" /\ Good(r, platform, requests, file)
      /\ platform' = platform /\ file' = file /\ Accept(r)
  BY GoodRun DEF Post, Active
<1>2. /\ Len(requests') = n /\ requests'[n].csr = r.csr /\ n \in Nat /\ n # 0
  BY <1>1, AcceptedCsr
<1>3. r.cmd # "pickup" /\ (r.csr = "local" \/ r.fetch)
  BY <1>1 DEF Good, PickupGood, PostGood
<1>4. ASSUME NEW m, Go(p, m), Good(m, platform, requests', file'), Posted(m)
      PROVE  AllGood'
  BY <1>1, <1>4, OneStep DEF Go
<1>5. CASE platform = "firefly"
  <2> DEFINE m == Collect(r, n, n)
  <2>1. m.pc = "write" /\ m.cmd = r.cmd /\ m.slot = 1 /\ m.cert = n /\ m.key = n
    BY <1>1 DEF Collect, RunState
  <2>2. Go(p, m)
    BY <1>5 DEF Post
  <2> HIDE DEF m, n
  <2>3. Good(m, platform, requests', file') /\ Posted(m)
    BY <1>2, <1>3, <1>5, <2>1 DEF Good, PostGood, WrittenGood, Posted
  <2>4. QED
    BY <1>4, <2>2, <2>3
<1>6. CASE platform # "firefly" /\ r.noPickup
  <2> DEFINE m == Collect([r EXCEPT !.id = n], 0, held)
  <2>1. /\ m.pc = "write" /\ m.cmd = r.cmd /\ m.csr = r.csr /\ m.slot = 1
        /\ m.cert = 0 /\ m.key = held /\ m.id = n
    BY <1>1 DEF Collect, RunState
  <2>2. Go(p, m)
    BY <1>6 DEF Post
  <2>3. r.csr = "local" => held = n
    OBVIOUS
  <2> HIDE DEF m, n, held
  <2>4. Good(m, platform, requests', file') /\ Posted(m)
    BY <1>2, <1>3, <2>1, <2>3 DEF Good, PostGood, WrittenGood, Posted
  <2>5. QED
    BY <1>4, <2>2, <2>4
<1>7. CASE platform # "firefly" /\ ~r.noPickup
  <2> DEFINE m == [r EXCEPT !.pc = "retrieve", !.id = n, !.key = held]
  <2>1. /\ m.pc = "retrieve" /\ m.cmd = r.cmd /\ m.csr = r.csr /\ m.fetch = r.fetch
        /\ m.key = held /\ m.id = n
    BY <1>1 DEF RunState
  <2>2. Go(p, m)
    BY <1>7 DEF Post
  <2>3. r.csr = "local" => held = n
    OBVIOUS
  <2> HIDE DEF m, n, held
  <2>4. Good(m, platform, requests', file') /\ Posted(m)
    BY <1>2, <1>3, <2>1, <2>3 DEF Good, PostGood, WrittenGood, Posted
  <2>5. QED
    BY <1>4, <2>2, <2>4
<1>8. QED
  BY <1>5, <1>6, <1>7

LEMMA PostLostAlone == ASSUME EnrollInv, AllGood, NEW p \in Run, PostLost(p) PROVE AllGood'
<1>1. /\ Active(p) /\ run' = [run EXCEPT ![p] = Idle] /\ loose' /\ platform' = platform
  BY DEF PostLost, Active
<1>2. QED
  BY <1>1, IdleGood, OneStep

LEMMA RetrieveAlone == ASSUME EnrollInv, AllGood, NEW p \in Run, Retrieve(p) PROVE AllGood'
<1> DEFINE r == run[p]
           n == Named(r.id)
<1>1. /\ Active(p) /\ r \in RunState /\ r.pc = "retrieve" /\ Good(r, platform, requests, file)
      /\ UNCHANGED <<platform, requests, file>>
  BY GoodRun DEF Retrieve, Active
<1>2. n = Target(platform, requests, r.id)
  BY DEF Named, Target
<1>3. n # 0
  <2>1. r.id \in 1 .. Len(requests) /\ Len(requests) \in Nat
    BY <1>1, GoodRun DEF Sound, Fits, RunState, EnrollInv, TypeOK
  <2>2. QED
    BY <2>1 DEF Named
<1>4. ASSUME NEW m, Go(p, m), m = Collect(r, n, n), requests[n].csr = "service"
      PROVE  AllGood'
  <2>1. /\ m.pc = "write" /\ m.cmd = r.cmd /\ m.csr = r.csr /\ m.slot = 1
        /\ m.cert = n /\ m.key = n /\ m.id = r.id
    BY <1>1, <1>4 DEF Collect, RunState
  <2> HIDE DEF n
  <2>2. PostGood(m, platform, requests) \/ r.cmd = "pickup"
    <3>1. CASE r.cmd # "pickup" /\ platform # "firefly"
      <4>1. r.id = Len(requests) /\ r.id # 0 /\ requests[r.id].csr = r.csr
        BY <1>1, <3>1 DEF Good, PostGood
      <4>2. r.csr = "service"
        BY <1>2, <1>4, <4>1 DEF Target
      <4>3. QED
        BY <1>3, <2>1, <4>1, <4>2 DEF PostGood
    <3>2. CASE r.cmd # "pickup" /\ platform = "firefly"
      BY <1>3, <2>1, <3>2 DEF PostGood
    <3>3. QED
      BY <3>1, <3>2
  <2>3. PickupGood(m, platform, requests, file) \/ r.cmd # "pickup"
    BY <1>1, <1>2, <1>4, <2>1 DEF Good, PickupGood
  <2>4. WrittenGood(m, file)
    BY <2>1 DEF WrittenGood
  <2>5. Good(m, platform, requests, file) /\ (Posted(m) <=> Posted(r))
    BY <1>1, <2>1, <2>2, <2>3, <2>4 DEF Good, Posted
  <2>6. QED
    BY <1>1, <1>4, <2>5, GoAlone
<1>5. ASSUME ~r.fetch, Checked(p, n) PROVE AllGood'
  <2>1. CASE r.key \in {0, n}
    <3> DEFINE m == Collect(r, n, r.key)
    <3>1. /\ m.pc = "write" /\ m.cmd = r.cmd /\ m.csr = r.csr /\ m.slot = 1
          /\ m.cert = n /\ m.key = r.key /\ m.id = r.id
      BY <1>1 DEF Collect, RunState
    <3>2. Go(p, m)
      BY <1>5, <2>1 DEF Checked
    <3> HIDE DEF n, m
    <3>3. r.cmd # "pickup" => PostGood(m, platform, requests)
      BY <1>1, <1>5, <3>1 DEF Good, PostGood
    <3>4. r.cmd = "pickup" => PickupGood(m, platform, requests, file)
      BY <1>1, <1>2, <3>1 DEF Good, PickupGood
    <3>5. Good(m, platform, requests, file) /\ (Posted(m) <=> Posted(r))
      BY <1>1, <3>1, <3>3, <3>4 DEF Good, Posted, WrittenGood
    <3>6. QED
      BY <1>1, <3>2, <3>5, GoAlone
  <2>2. CASE r.key \notin {0, n}
    BY <1>1, <1>5, <2>2, QuitAlone DEF Checked
  <2>3. QED
    BY <2>1, <2>2
<1>6. ASSUME NoKey(p) PROVE AllGood'
  <2>1. CASE r.cmd = "pickup" /\ r.auto
    <3> DEFINE m == [r EXCEPT !.fetch = FALSE]
    <3>1. m.pc = r.pc /\ m.cmd = r.cmd /\ m.key = r.key /\ m.id = r.id
      BY <1>1 DEF RunState
    <3>2. Go(p, m)
      BY <1>6, <2>1 DEF NoKey
    <3> HIDE DEF m
    <3>3. Good(m, platform, requests, file) /\ (Posted(m) <=> Posted(r))
      BY <1>1, <2>1, <3>1 DEF Good, PickupGood, WrittenGood, Posted
    <3>4. QED
      BY <1>1, <3>2, <3>3, GoAlone
  <2>2. CASE ~(r.cmd = "pickup" /\ r.auto)
    BY <1>1, <1>6, <2>2, QuitAlone DEF NoKey
  <2>3. QED
    BY <2>1, <2>2
<1>7. CASE Quit(p, "error")
  BY <1>1, <1>7, QuitAlone
<1>8. QED
  BY <1>4, <1>5, <1>6, <1>7 DEF Retrieve

LEMMA EndAlone ==
  ASSUME EnrollInv, AllGood, NEW p \in Run, Refused(p) \/ Timeout(p) \/ Stop(p)
  PROVE  AllGood'
<1>1. CASE Refused(p)
  BY <1>1, QuitAlone DEF Refused, Active
<1>2. CASE Timeout(p)
  BY <1>2, QuitAlone DEF Timeout, Active
<1>3. CASE Stop(p)
  BY <1>3, QuitAlone DEF Stop
<1>4. QED
  BY <1>1, <1>2, <1>3

(* What Write does to the files: only the file of this slot changes, and   *)
(* it has its contents unless the outcome is bad.                          *)
Flushed(r, s, c, bad) ==
  /\ \A t \in Slot : t # s => file'[t] = file[t]
  /\ c = 0 => file' = file
  /\ ~bad => ~r.bad /\ (c # 0 => file'[s] = c)

LEMMA WriteFlushes ==
  ASSUME EnrollInv, NEW p \in Run, Write(p)
  PROVE  \E bad \in BOOLEAN :
           /\ After(p, bad)
           /\ Flushed(run[p], Slots[run[p].slot], Content(run[p], Slots[run[p].slot]), bad)
<1> DEFINE r == run[p]
           s == Slots[r.slot]
           c == Content(r, s)
<1>1. r.bad \in BOOLEAN /\ s \in Slot /\ file \in [Slot -> Nat \cup {Absent, Torn}]
  BY SoundRuns, ContentOK DEF RunState, EnrollInv, TypeOK
<1>2. CASE c = 0 /\ After(p, r.bad) /\ UNCHANGED file
  BY <1>1, <1>2 DEF Flushed
<1>3. CASE c # 0 /\ file' = [file EXCEPT ![s] = c] /\ After(p, Errors(r, FALSE))
  <2>1. Errors(r, FALSE) \in BOOLEAN /\ (~Errors(r, FALSE) => ~r.bad)
    BY DEF Errors
  <2> HIDE DEF c, s
  <2>2. Flushed(r, s, c, Errors(r, FALSE))
    BY <1>1, <1>3, <2>1 DEF Flushed
  <2>3. QED
    BY <1>3, <2>1, <2>2 DEF s, c
<1>4. CASE c # 0 /\ (\E f \in {file[s], Torn, c} : file' = [file EXCEPT ![s] = f])
           /\ After(p, Errors(r, TRUE))
  <2>1. Errors(r, TRUE) = TRUE
    BY DEF Errors
  <2> HIDE DEF c, s
  <2>2. Flushed(r, s, c, TRUE)
    BY <1>1, <1>4 DEF Flushed
  <2>3. After(p, TRUE)
    BY <1>4, <2>1
  <2>4. QED
    BY <2>2, <2>3 DEF s, c
<1>5. QED
  BY <1>2, <1>3, <1>4 DEF Write

(* The next file.                                                          *)
LEMMA NextFileAlone ==
  ASSUME EnrollInv, AllGood, NEW p \in Run, run[p].pc = "write", run[p].slot \in {1, 2},
         NEW bad \in BOOLEAN, NEW m, m = [run[p] EXCEPT !.slot = @ + 1, !.bad = bad],
         Go(p, m), UNCHANGED <<platform, requests>>,
         Flushed(run[p], Slots[run[p].slot], Content(run[p], Slots[run[p].slot]), bad)
  PROVE  AllGood'
<1> DEFINE r == run[p]
<1>1. /\ Active(p) /\ r \in RunState /\ Good(r, platform, requests, file)
  BY GoodRun DEF Active
<1>2. /\ m.pc = "write" /\ m.cmd = r.cmd /\ m.csr = r.csr /\ m.id = r.id /\ m.bad = bad
      /\ m.cert = r.cert /\ m.key = r.key /\ m.slot = r.slot + 1
  BY <1>1 DEF RunState
<1>3. /\ r.slot = 1 => /\ Slots[r.slot] = "cert" /\ Content(r, Slots[r.slot]) = r.cert
      /\ r.slot = 2 => /\ Slots[r.slot] = "key" /\ Content(r, Slots[r.slot]) = r.key
  BY DEF Slots, Content
<1>4. /\ file'["id"] = file["id"]
      /\ r.slot = 1 => file'["key"] = file["key"] /\ (r.cert # 0 /\ ~bad => file'["cert"] = r.cert)
      /\ r.slot = 2 => file'["cert"] = file["cert"] /\ (r.key # 0 /\ ~bad => file'["key"] = r.key)
      /\ r.key = 0 => file'["key"] = file["key"]
      /\ ~bad => ~r.bad
  BY <1>3 DEF Flushed, Slot
<1>5. WrittenGood(m, file')
  <2>1. WrittenGood(r, file)
    BY <1>1 DEF Good
  <2>2. CASE r.slot = 1
    BY <1>2, <1>4, <2>2 DEF WrittenGood
  <2>3. CASE r.slot = 2
    BY <1>2, <1>4, <2>1, <2>3 DEF WrittenGood
  <2>4. QED
    BY <2>2, <2>3
<1>6. Good(m, platform, requests', file')
  <2>1. r.cmd = "pickup" => PickupGood(m, platform, requests, file')
    BY <1>1, <1>2, <1>4 DEF Good, PickupGood
  <2>2. r.cmd # "pickup" => PostGood(m, platform, requests)
    BY <1>1, <1>2 DEF Good, PostGood
  <2>3. QED
    BY <1>2, <1>5, <2>1, <2>2 DEF Good
<1>7. ASSUME ~loose', platform # "firefly", ~Posted(m) PROVE KeyOnFile(platform, requests', file')
  <2>1. ~Posted(r) /\ ~loose /\ r.cmd = "pickup"
    BY <1>2, <1>7 DEF Posted, Go
  <2>2. KeyOnFile(platform, requests, file) /\ PickupGood(r, platform, requests, file)
    BY <1>1, <1>7, <2>1, GoodRun DEF Good
  <2>3. requests[Target(platform, requests, file["id"])].csr = "local" => r.key = 0
    BY <2>2 DEF PickupGood
  <2>4. QED
    BY <1>4, <2>2, <2>3 DEF KeyOnFile
<1>8. QED
  BY <1>1, <1>6, <1>7, OneStep DEF Go

(* A command that ends well has left the key of the request whose id it    *)
(* wrote, if it had to.                                                    *)
LEMMA SuccessAlone ==
  ASSUME EnrollInv, AllGood, NEW p \in Run, run[p].pc = "write", run[p].slot = 3,
         Quit(p, "ok"), UNCHANGED <<platform, requests>>,
         Flushed(run[p], "id", Content(run[p], "id"), FALSE)
  PROVE  AllGood'
<1> DEFINE r == run[p]
<1>1. /\ Active(p) /\ r \in RunState /\ Good(r, platform, requests, file)
  BY GoodRun DEF Active
<1>2. run' = [run EXCEPT ![p] = Idle] /\ (loose' <=> loose /\ r.cmd = "pickup")
  BY DEF Quit
<1>3. file'["key"] = file["key"] /\ ~r.bad
  BY DEF Flushed, Slot
<1>4. ASSUME ~loose', platform # "firefly" PROVE KeyOnFile(platform, requests', file')
  <2>1. CASE r.cmd = "pickup"
    <3>1. Content(r, "id") = 0
      BY <2>1 DEF Content
    <3>2. file' = file /\ ~loose /\ ~Posted(r)
      BY <1>2, <1>4, <2>1, <3>1 DEF Flushed, Posted
    <3>3. QED
      BY <1>1, <1>4, <3>2, GoodRun
  <2>2. CASE r.cmd # "pickup"
    <3>1. /\ r.id = Len(requests) /\ r.id # 0 /\ requests[r.id].csr = r.csr
          /\ r.csr = "local" => r.key = r.id
      BY <1>1, <1>4, <2>2 DEF Good, PostGood
    <3>2. file'["id"] = r.id
      BY <2>2, <3>1 DEF Flushed, Content
    <3>3. r.key # 0 => file["key"] = r.key
      BY <1>1, <1>3 DEF Good, WrittenGood
    <3>4. Target(platform, requests, r.id) = r.id
      BY <3>1 DEF Target
    <3>5. QED
      BY <1>3, <3>1, <3>2, <3>3, <3>4 DEF KeyOnFile
  <2>3. QED
    BY <2>1, <2>2
<1>5. QED
  BY <1>1, <1>2, <1>4, IdleGood, OneStep

LEMMA WriteAlone == ASSUME EnrollInv, AllGood, NEW p \in Run, Write(p) PROVE AllGood'
<1>1. /\ Active(p) /\ run[p] \in RunState /\ run[p].pc = "write"
      /\ UNCHANGED <<platform, requests>>
  BY GoodRun DEF Write, Active
<1>2. PICK bad \in BOOLEAN :
        /\ After(p, bad)
        /\ Flushed(run[p], Slots[run[p].slot], Content(run[p], Slots[run[p].slot]), bad)
  BY WriteFlushes
<1>3. CASE run[p].slot \in {1, 2}
  <2>1. Go(p, [run[p] EXCEPT !.slot = @ + 1, !.bad = bad])
    BY <1>2, <1>3 DEF After
  <2>2. QED
    BY <1>1, <1>2, <1>3, <2>1, NextFileAlone
<1>4. CASE run[p].slot = 3 /\ bad
  <2>1. Quit(p, "error")
    BY <1>2, <1>4 DEF After
  <2>2. QED
    BY <1>1, <2>1, QuitAlone
<1>5. CASE run[p].slot = 3 /\ ~bad
  <2>1. Quit(p, "ok") /\ Slots[run[p].slot] = "id"
    BY <1>2, <1>5 DEF After, Slots
  <2>2. Flushed(run[p], "id", Content(run[p], "id"), FALSE)
    BY <1>2, <1>5, <2>1 DEF Flushed
  <2>3. QED
    BY <1>1, <1>5, <2>1, <2>2, SuccessAlone
<1>6. run[p].slot \in 1 .. 3
  BY <1>1 DEF RunState
<1>7. QED
  BY <1>3, <1>4, <1>5, <1>6

LEMMA ProcessAlone == ASSUME EnrollInv, AllGood, Process PROVE AllGood'
<1>1. PICK n \in 1 .. Len(requests), s \in {"issued", "rejected"} :
        requests' = [requests EXCEPT ![n].status = s]
  BY DEF Process
<1>2. requests \in Seq(Request) /\ Len(requests) \in Nat
  BY DEF EnrollInv, TypeOK
<1>3. /\ Len(requests') = Len(requests)
      /\ \A m \in 1 .. Len(requests) : requests'[m].csr = requests[m].csr
  BY <1>1, <1>2 DEF Request
<1>4. \A id : Target(platform, requests', id) = Target(platform, requests, id)
  BY <1>3 DEF Target
<1>5. ASSUME NEW p \in Run PROVE Good(run[p], platform, requests', file)
  <2> DEFINE r == run[p]
  <2>1. Good(r, platform, requests, file) /\ r \in RunState /\ Sound(r, Len(requests))
    BY SoundRuns DEF AllGood
  <2>2. CASE r.pc # "idle" /\ r.cmd = "pickup"
    <3>1. r.pc = "write" => r.cert \in 1 .. Len(requests)
      <4>1. r.id \in 1 .. Len(requests)
        BY <2>1, <2>2 DEF Good, PickupGood, RunState, EnrollInv, TypeOK, Slot
      <4>2. QED
        BY <1>2, <2>1, <2>2, <4>1 DEF Good, PickupGood, Target
    <3>2. PickupGood(r, platform, requests', file)
      BY <1>3, <1>4, <2>1, <2>2, <3>1 DEF Good, PickupGood
    <3>3. QED
      BY <2>1, <2>2, <3>2 DEF Good
  <2>3. CASE r.pc # "idle" /\ r.cmd # "pickup"
    <3>1. PostGood(r, platform, requests)
      BY <2>1, <2>3 DEF Good
    <3>2. r.id \in 0 .. Len(requests)
      BY <2>1 DEF Sound, Fits
    <3>3. PostGood(r, platform, requests')
      BY <1>2, <1>3, <3>1, <3>2 DEF PostGood
    <3>4. QED
      BY <2>1, <2>3, <3>3 DEF Good
  <2>4. QED
    BY <2>2, <2>3 DEF Good
<1>6. ASSUME KeyOnFile(platform, requests, file) PROVE KeyOnFile(platform, requests', file)
  <2>1. file["id"] \in Nat => file["id"] \in 1 .. Len(requests)
    BY DEF EnrollInv, TypeOK, Slot
  <2>2. file["id"] \in Nat => Target(platform, requests, file["id"]) \in 1 .. Len(requests)
    BY <1>2, <2>1 DEF Target
  <2>3. QED
    BY <1>3, <1>4, <1>6, <2>2 DEF KeyOnFile
<1>7. /\ platform' = platform /\ file' = file /\ run' = run /\ loose' = loose
  BY DEF Process
<1>8. QED
  BY <1>5, <1>6, <1>7 DEF AllGood, Active

-----------------------------------------------------------------------------
LEMMA InitPairInv == Init => PairInv
<1> SUFFICES ASSUME Init PROVE PairInv
  OBVIOUS
<1>1. \A p \in Run : run[p] = Idle
  BY DEF Init
<1>2. file["id"] \notin Nat
  BY EnrollmentAssumption DEF Init, Slot
<1>3. AllGood
  BY <1>1, <1>2, IdleGood DEF AllGood, Active, KeyOnFile
<1>4. QED
  BY <1>3, InitEnrollInv DEF PairInv, AloneInv

LEMMA NextPairInv == PairInv /\ [Next]_vars => PairInv'
<1> SUFFICES ASSUME PairInv, [Next]_vars PROVE AloneInv'
  BY NextEnrollInv DEF PairInv
<1>1. ASSUME NEW p \in Run, Step(p) \/ PostLost(p) \/ Stop(p) PROVE AloneInv'
  <2>1. overlap' = overlap
    BY <1>1 DEF Step, FetchOld, CheckLatest, Post, Refused, Retrieve, Timeout, Write, PostLost, Stop
  <2> SUFFICES ASSUME ~overlap PROVE AllGood'
    BY <2>1 DEF AloneInv
  <2>2. EnrollInv /\ AllGood
    BY DEF PairInv, AloneInv
  <2>3. QED
    BY <1>1, <2>2, FetchOldAlone, CheckLatestAlone, PostAlone, RetrieveAlone, WriteAlone,
       EndAlone, PostLostAlone DEF Step
<1>2. ASSUME NEW p \in Run, StartEnroll(p) \/ StartRenew(p) PROVE AloneInv'
  BY <1>2, StartEnrollAlone, StartRenewAlone
<1>3. ASSUME NEW p \in Run, NEW auto \in BOOLEAN, StartPickup(p, auto) PROVE AloneInv'
  BY <1>3, StartPickupAlone
<1>4. CASE Process
  <2>1. overlap' = overlap
    BY <1>4 DEF Process
  <2>2. QED
    BY <1>4, <2>1, ProcessAlone DEF PairInv, AloneInv
<1>5. CASE UNCHANGED vars
  BY <1>5 DEF vars, PairInv, AloneInv, AllGood, Active
<1>6. QED
  BY <1>1, <1>2, <1>3, <1>4, <1>5 DEF Next, Horizon

(* Only the command that has written its last file exits with 0.           *)
LEMMA SuccessIsWrite ==
  ASSUME EnrollInv, Next, NEW p \in Run, Exits(p), exit' = "ok"
  PROVE  /\ run[p].pc = "write" /\ run[p].slot = 3
         /\ Flushed(run[p], "id", Content(run[p], "id"), FALSE)
<1>1. Active(p) /\ run'[p].pc = "idle" /\ run \in [Run -> RunState]
  BY DEF Exits, EnrollInv, TypeOK
<1>2. ASSUME NEW q \in Run, NEW r, Go(q, r), r.pc # "idle" PROVE FALSE
  BY <1>1, <1>2 DEF Go, Active
<1>3. ASSUME NEW q \in Run, NEW r, Begin(q, r) PROVE FALSE
  BY <1>3 DEF Begin
<1>4. ASSUME NEW q \in Run, Quit(q, "error") \/ Quit(q, "timeout") PROVE FALSE
  BY <1>4 DEF Quit
<1>5. ASSUME NEW q \in Run, FetchOld(q) \/ CheckLatest(q) PROVE FALSE
  <2>1. run[q] \in RunState
    BY <1>1
  <2>2. PICK pc \in {"current", "post"} : Go(q, [run[q] EXCEPT !.pc = pc])
    BY <1>4, <1>5 DEF FetchOld, CheckLatest
  <2>3. [run[q] EXCEPT !.pc = pc].pc = pc
    BY <2>1 DEF RunState
  <2>4. QED
    BY <1>2, <2>2, <2>3
<1>6. ASSUME NEW q \in Run, Post(q) PROVE FALSE
  <2>1. run[q] \in RunState
    BY <1>1
  <2> DEFINE n == Len(requests) + 1
             held == IF run[q].csr = "local" THEN n ELSE 0
  <2>2. /\ Collect(run[q], n, n).pc = "write"
        /\ Collect([run[q] EXCEPT !.id = n], 0, held).pc = "write"
        /\ [run[q] EXCEPT !.pc = "retrieve", !.id = n, !.key = held].pc = "retrieve"
    BY <2>1 DEF Collect, RunState
  <2>3. \/ Go(q, Collect(run[q], n, n))
        \/ Go(q, Collect([run[q] EXCEPT !.id = n], 0, held))
        \/ Go(q, [run[q] EXCEPT !.pc = "retrieve", !.id = n, !.key = held])
    <3>1. CASE platform = "firefly"
      BY <1>6, <3>1 DEF Post
    <3>2. CASE platform # "firefly" /\ run[q].noPickup
      BY <1>6, <3>2 DEF Post
    <3>3. CASE platform # "firefly" /\ ~run[q].noPickup
      BY <1>6, <3>3 DEF Post
    <3>4. QED
      BY <3>1, <3>2, <3>3
  <2> HIDE DEF n, held
  <2>4. QED
    BY <1>2, <2>2, <2>3
<1>7. ASSUME NEW q \in Run, Retrieve(q) PROVE FALSE
  <2>1. run[q] \in RunState /\ run[q].pc = "retrieve"
    BY <1>1, <1>7 DEF Retrieve
  <2>2. \A c, k : Collect(run[q], c, k).pc = "write"
    BY <2>1 DEF Collect, RunState
  <2>3. [run[q] EXCEPT !.fetch = FALSE].pc = "retrieve"
    BY <2>1 DEF RunState
  <2>4. ~Checked(q, Named(run[q].id)) /\ ~NoKey(q)
    BY <1>2, <1>4, <2>2, <2>3 DEF Checked, NoKey
  <2>5. QED
    BY <1>2, <1>4, <1>7, <2>2, <2>4 DEF Retrieve
<1>8. ASSUME NEW q \in Run, Refused(q) \/ Timeout(q) \/ Stop(q) PROVE FALSE
  BY <1>4, <1>8 DEF Refused, Timeout, Stop
<1>9. ASSUME NEW q \in Run, PostLost(q) PROVE FALSE
  BY <1>9 DEF PostLost
<1>10. ASSUME NEW q \in Run, Write(q)
       PROVE  /\ run[p].pc = "write" /\ run[p].slot = 3
              /\ Flushed(run[p], "id", Content(run[p], "id"), FALSE)
  <2>1. run[q] \in RunState /\ run[q].pc = "write"
    BY <1>1, <1>10 DEF Write
  <2>2. PICK bad \in BOOLEAN :
          /\ After(q, bad)
          /\ Flushed(run[q], Slots[run[q].slot], Content(run[q], Slots[run[q].slot]), bad)
    BY <1>10, WriteFlushes
  <2>3. ~(run[q].slot < 3)
    <3>1. [run[q] EXCEPT !.slot = @ + 1, !.bad = bad].pc = "write"
      BY <2>1 DEF RunState
    <3>2. QED
      BY <1>2, <2>2, <3>1 DEF After
  <2>4. run[q].slot = 3 /\ Slots[3] = "id"
    BY <2>1, <2>3 DEF RunState, Slots
  <2>5. ~bad
    BY <1>4, <2>2, <2>3 DEF After
  <2>6. Quit(q, "ok")
    BY <2>2, <2>3, <2>5 DEF After
  <2>7. q = p
    BY <1>1, <2>6 DEF Quit, Active
  <2>8. Flushed(run[q], "id", Content(run[q], "id"), FALSE)
    BY <2>2, <2>4, <2>5 DEF Flushed
  <2>9. QED
    BY <2>1, <2>4, <2>7, <2>8
<1>11. ~Process /\ ~Horizon
  BY <1>1 DEF Process, Horizon, vars, Active
<1>12. ~\E q \in Run : \/ StartEnroll(q) \/ StartRenew(q)
                       \/ \E auto \in BOOLEAN : StartPickup(q, auto)
  BY <1>3 DEF StartEnroll, StartRenew, StartPickup
<1>13. QED
  BY <1>5, <1>6, <1>7, <1>8, <1>9, <1>10, <1>11, <1>12 DEF Next, Step

(* The step of PairAfterSuccess.                                           *)
LEMMA SuccessLeavesPair ==
  ASSUME PairInv, Next, NEW p \in Run, Exits(p), exit' = "ok", run[p].cert # 0, ~overlap,
         run[p].cmd = "pickup" =>
           ~loose /\ (run[p].key = 0 => requests[run[p].cert].csr = "local")
  PROVE  file'["cert"] = file'["key"]
<1> DEFINE r == run[p]
<1>1. EnrollInv /\ AllGood /\ Active(p)
  BY DEF PairInv, AloneInv, Exits
<1>2. /\ r.pc = "write" /\ r.slot = 3 /\ Flushed(r, "id", Content(r, "id"), FALSE)
  BY <1>1, SuccessIsWrite
<1>3. file'["cert"] = file["cert"] /\ file'["key"] = file["key"] /\ ~r.bad
  BY <1>2 DEF Flushed, Slot
<1>4. Good(r, platform, requests, file) /\ r \in RunState /\ Paired(r)
  BY <1>1, GoodRun DEF Sound
<1>5. file["cert"] = r.cert /\ (r.key # 0 => file["key"] = r.key)
  BY <1>2, <1>3, <1>4 DEF Good, WrittenGood
<1>6. CASE r.key # 0
  BY <1>2, <1>3, <1>4, <1>5, <1>6 DEF Paired
<1>7. CASE r.key = 0
  <2>1. r.cmd = "pickup"
    BY <1>2, <1>4, <1>7 DEF Good, PostGood
  <2>2. /\ r.id = file["id"] /\ r.cert = Target(platform, requests, r.id) /\ platform # "firefly"
    BY <1>2, <1>4, <2>1 DEF Good, PickupGood
  <2>3. KeyOnFile(platform, requests, file)
    BY <1>1, <2>1, <2>2, GoodRun DEF Posted
  <2>4. r.id \in Nat
    BY <1>4 DEF RunState
  <2>5. QED
    BY <1>3, <1>5, <1>7, <2>1, <2>2, <2>3, <2>4 DEF KeyOnFile
<1>8. QED
  BY <1>6, <1>7

(* After a command that was not overlapped, wrote a certificate and exited *)
(* with 0 the two files are a pair, however many commands were refused,    *)
(* timed out, lost an answer or were killed before; after a pickup only if *)
(* none of them was left half done, and if a key of the service is fetched *)
(* with the certificate (result_writer.go: Flush).                         *)
THEOREM FilesArePaired == Spec => PairAfterSuccess
<1>1. ASSUME PairInv, [Next]_vars
      PROVE  [\A p \in Run :
                /\ Exits(p) /\ exit' = "ok" /\ run[p].cert # 0
                /\ ~overlap
                /\ run[p].cmd = "pickup" =>
                     ~loose /\ (run[p].key = 0 => requests[run[p].cert].csr = "local")
                => file'["cert"] = file'["key"]]_vars
  BY <1>1, SuccessLeavesPair
<1>2. QED
  BY <1>1, InitPairInv, NextPairInv, PTL DEF Spec, PairAfterSuccess
=============================================================================
