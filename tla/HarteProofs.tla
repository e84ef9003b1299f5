----------------------------- MODULE HarteProofs -----------------------------
(***************************************************************************)
(* Proofs about HarteScript, for every list of opcodes, batch size, server *)
(* and processor, and any number of faults: "ALL PASS" is sound, and no    *)
(* case influences the verdict on another.                                 *)
(***************************************************************************)
EXTENDS HarteScript, SequenceTheorems, TLAPS

USE DEF CyclesRead, ClearedBus, OnUnclosed, FailedBatches, Deletes

-----------------------------------------------------------------------------
(* The strengthening. *)
Counters ==
  /\ first \in Nat /\ failures \in Nat /\ failed \in Nat
  /\ at \in Nat \ {0} /\ done \in Nat

(* The runner runs only in phase "run", on the files of the batch. *)
Phases ==
  /\ phase = "run" => files = BatchFiles /\ at <= Len(files) + 1
  /\ reading => runner = "running" /\ at <= Len(files)
  /\ runner = "running" => phase = "run"

(* A file whose array is closed is the server's, also once it is read, *)
(* unless two curls have written it.                                   *)
DiskWhole == \A f \in DOMAIN disk : disk[f].closed => disk[f].cases = suite[f] \/ f \in torn

ClosedIsWhole ==
  /\ DiskWhole
  /\ reading /\ text.closed => text.cases = suite[files[at]] \/ files[at] \in torn

Settled(f) == Compared(f) \/ f \in torn

(* No failure so far: every case before the cursor has passed. *)
FilesCompared ==
  /\ runner = "running" /\ failed = 0 =>
       /\ \A j \in 1 .. at - 1 : Settled(files[j])
       /\ reading => \A k \in 1 .. done : <<files[at], k>> \in passed
  /\ runner = "passed" /\ phase = "run" => \A j \in 1 .. Len(files) : Settled(files[j])

BatchesCompared ==
  failures = 0 /\ phase \in {"batch", "fetch", "run"} =>
    \A n \in DOMAIN Opcodes : n <= first => Settled(Opcodes[n])

AllSettled == phase = "ALL PASS" => \A n \in DOMAIN Opcodes : Settled(Opcodes[n])

Soundness == Counters /\ Phases /\ ClosedIsWhole /\ FilesCompared /\ BatchesCompared /\ AllSettled

(* One job for each file of the batch, and no other before an interrupt. *)
Jobs == [op : STRING, age : Nat, at : {"test", "curl", "open", "overrun"}]

OneEach ==
  /\ downloads \subseteq Jobs /\ interrupts \in Nat
  /\ phase # "fetch" => OfThisRun = {}
  /\ \A d, e \in OfThisRun : d.op = e.op => d = e
  /\ interrupts = 0 => torn = {} /\ \A d \in downloads : d.age = 0

(* What has passed lies before the cursor. *)
NoneAhead ==
  \A n \in DOMAIN Opcodes, k \in Nat :
    <<Opcodes[n], k>> \in passed =>
      \/ n <= first
      \/ phase = "run" /\ n < first + at
      \/ reading /\ n = first + at /\ k <= done
      \/ phase = "run" /\ runner = "aborted" /\ n <= first + Batch

Independence == NoneAhead /\ VerdictsIndependent

-----------------------------------------------------------------------------
(* The files of a batch are its opcodes. *)
LEMMA BatchIndex ==
  ASSUME first \in Nat
  PROVE  /\ Len(BatchFiles) \in Nat /\ Len(BatchFiles) <= Batch
         /\ \A j \in 1 .. Len(BatchFiles) :
              first + j \in DOMAIN Opcodes /\ BatchFiles[j] = Opcodes[first + j]
         /\ \A n \in DOMAIN Opcodes :
              first < n /\ n <= first + Batch => n - first \in 1 .. Len(BatchFiles)
<1> DEFINE m == first + 1
           l == Len(Opcodes)
           e == Smaller(first + Batch, l)
<1>1. /\ l \in Nat /\ DOMAIN Opcodes = 1 .. l
      /\ \A i \in 1 .. l : Opcodes[i] \in STRING
  BY ScriptAssumption
<1>2. Batch \in Nat /\ Batch > 0
  BY ScriptAssumption
<1>3. l \in Nat
  BY <1>1
<1> HIDE DEF l
<1>4. /\ e \in Nat /\ e <= first + Batch /\ e <= l
      /\ e = first + Batch \/ e = l
  BY <1>2, <1>3 DEF Smaller
<1> HIDE DEF e
<1>5. /\ Len(BatchFiles) = IF m <= e THEN e - m + 1 ELSE 0
      /\ \A i \in 1 .. e - m + 1 : BatchFiles[i] = Opcodes[m + i - 1]
  <2>1. m \in Int /\ e \in Int
    BY <1>4
  <2>2. \A i \in m .. e : Opcodes[i] \in STRING
    BY <1>1, <1>3, <1>4
  <2>3. BatchFiles = SubSeq(Opcodes, m, e)
    BY DEF BatchFiles, e, l
  <2> HIDE DEF m
  <2> QED
    BY <2>1, <2>2, <2>3, SubSeqProperties
<1> DEFINE b == Len(BatchFiles)
<1>6. b = IF first < e THEN e - first ELSE 0
  BY <1>4, <1>5
<1> HIDE DEF b
<1>7. b \in Nat /\ b <= Batch
  BY <1>2, <1>4, <1>6
<1>8. ASSUME NEW j \in 1 .. b
      PROVE  first + j \in DOMAIN Opcodes /\ BatchFiles[j] = Opcodes[first + j]
  <2>1. j \in 1 .. e - m + 1 /\ m + j - 1 = first + j
    BY <1>4, <1>6, <1>7
  <2>2. first + j \in 1 .. l
    BY <1>3, <1>4, <1>6, <1>7
  <2> QED
    BY <1>1, <1>5, <2>1, <2>2
<1>9. ASSUME NEW n \in DOMAIN Opcodes, first < n, n <= first + Batch
      PROVE  n - first \in 1 .. b
  <2>1. n \in 1 .. l
    BY <1>1
  <2> QED
    BY <1>2, <1>3, <1>4, <1>6, <1>9, <2>1
<1> QED
  BY <1>7, <1>8, <1>9 DEF b

LEMMA BatchNames ==
  ASSUME first \in Nat, NEW n \in InBatch
  PROVE  Opcodes[n] \in STRING
BY ScriptAssumption DEF InBatch, Smaller

LEMMA Indices ==
  /\ Len(Opcodes) \in Nat /\ DOMAIN Opcodes = 1 .. Len(Opcodes)
  /\ \A n \in DOMAIN Opcodes : n \in Nat /\ n > 0 /\ n <= Len(Opcodes)
BY ScriptAssumption

LEMMA SoundInit == ScriptInit => Soundness
<1> SUFFICES ASSUME ScriptInit PROVE Soundness
  OBVIOUS
<1>1. DOMAIN disk = {}
  BY DEF ScriptInit
<1>2. DOMAIN Opcodes \subseteq Nat \ {0}
  BY ScriptAssumption
<1> QED
  BY <1>1, <1>2
     DEF ScriptInit, RunnerInit, Soundness, Counters, Phases, ClosedIsWhole, DiskWhole, FilesCompared,
         BatchesCompared, AllSettled

(* The jobs and the loop outside the runner: the disk may change, what the  *)
(* runner and the verdicts rest on does not.                                *)
Aside ==
  /\ UNCHANGED <<runnerVars, suite, keep, first, failures>>
  /\ torn \subseteq torn'
  /\ phase' = phase \/ (phase = "batch" /\ phase' = "fetch")

AsideActions ==
  \/ StartJobs
  \/ \E d \in downloads :
       Cached(d) \/ Download(d) \/ Opens(d) \/ Writes(d) \/ Downloaded(d) \/ DownloadFails(d)

LEMMA WriteWhole ==
  ASSUME DiskWhole, suite' = suite, torn \subseteq torn', NEW op, NEW bytes,
         disk' = Written(op, bytes),
         bytes.closed => bytes.cases = suite[op] \/ op \in torn
  PROVE  DiskWhole'
BY DEF DiskWhole, Written

LEMMA AsideStep ==
  ASSUME DiskWhole, AsideActions
  PROVE  Aside /\ DiskWhole'
<1>1. CASE StartJobs
  BY <1>1 DEF StartJobs, Aside, DiskWhole, fixed
<1>2. ASSUME NEW d \in downloads, Cached(d) \/ Download(d) \/ DownloadFails(d)
      PROVE  Aside /\ DiskWhole'
  BY <1>2 DEF Cached, Download, DownloadFails, scriptRest, Aside, DiskWhole, fixed
<1>3. ASSUME NEW d \in downloads, Opens(d) \/ Writes(d) \/ Downloaded(d)
      PROVE  Aside /\ suite' = suite
  BY <1>3 DEF Opens, Writes, Downloaded, scriptRest, Aside, fixed
<1>4. ASSUME NEW d \in downloads, Opens(d)
      PROVE  DiskWhole'
  <2>1. disk' = Written(d.op, Empty) /\ ~Empty.closed
    BY <1>4 DEF Opens, Empty
  <2> QED
    BY <1>3, <1>4, <2>1, WriteWhole DEF Aside
<1>5. ASSUME NEW d \in downloads, Writes(d)
      PROVE  DiskWhole'
  <2>1. PICK bytes : disk' = Written(d.op, bytes) /\ (~bytes.closed \/ d.op \in torn)
    BY <1>5 DEF Writes, Cut
  <2> QED
    BY <1>3, <1>5, <2>1, WriteWhole DEF Aside
<1>6. ASSUME NEW d \in downloads, Downloaded(d)
      PROVE  DiskWhole'
  <2>1. CASE d.at = "open"
    <3>1. disk' = Written(d.op, Whole(d.op)) /\ Whole(d.op).cases = suite[d.op]
      BY <1>6, <2>1 DEF Downloaded, Whole
    <3> QED
      BY <1>3, <1>6, <3>1, WriteWhole DEF Aside
  <2>2. CASE d.at # "open"
    BY <1>3, <1>6, <2>2 DEF Downloaded, Aside, DiskWhole
  <2> QED
    BY <2>1, <2>2
<1> QED
  BY <1>1, <1>2, <1>3, <1>4, <1>5, <1>6 DEF AsideActions

LEMMA SoundAside ==
  ASSUME Soundness, Aside, DiskWhole'
  PROVE  Soundness'
<1> USE DEF Soundness, Aside, runnerVars
<1>1. Counters' /\ Phases'
  BY DEF Counters, Phases, BatchFiles
<1>2. ClosedIsWhole'
  BY DEF ClosedIsWhole
<1>3. \A f : Settled(f) => Settled(f)'
  BY DEF Settled, Compared
<1>4. FilesCompared' /\ BatchesCompared'
  BY <1>3 DEF FilesCompared, BatchesCompared
<1>5. AllSettled'
  BY <1>3 DEF AllSettled, Settled
<1> QED
  BY <1>1, <1>2, <1>4, <1>5
-----------------------------------------------------------------------------
(* The runner. *)
LEMMA SoundWait ==
  ASSUME Soundness, Wait
  PROVE  Soundness'
<1> USE DEF Soundness, Wait, RunnerStart, fixed
<1>1. ~reading
  BY DEF Phases
<1>A. Counters'
  BY <1>1 DEF Counters
<1>B. Phases'
  <2>1. /\ files' = BatchFiles /\ BatchFiles' = BatchFiles /\ at' = 1 /\ reading' = FALSE
        /\ runner' = "running" /\ phase' = "run"
    BY <1>1 DEF BatchFiles
  <2>2. Len(BatchFiles) \in Nat
    BY BatchIndex DEF Counters
  <2>3. 1 <= Len(BatchFiles) + 1
    BY <2>2
  <2> QED
    BY <2>1, <2>3 DEF Phases
<1>C. ClosedIsWhole'
  BY <1>1 DEF ClosedIsWhole, DiskWhole
<1>2. Counters' /\ Phases' /\ ClosedIsWhole'
  BY <1>A, <1>B, <1>C
<1>3. FilesCompared'
  BY <1>1 DEF FilesCompared
<1>4. BatchesCompared' /\ AllSettled'
  BY DEF BatchesCompared, AllSettled, Settled, Compared
<1> QED
  BY <1>2, <1>3, <1>4

(* While it runs the verdicts on the batches before do not change. *)
LEMMA SoundRuns ==
  ASSUME Soundness, Runs
  PROVE  Soundness'
<1>1. /\ phase = "run" /\ phase' = "run" /\ files' = files
      /\ UNCHANGED <<disk, suite, first, failures, torn>>
      /\ passed \subseteq passed'
  BY DEF Runs, RunnerNext, CannotOpen, Open, ShortRead, RunCase, Close, Abort, Exit, fixed
<1>2. BatchesCompared' /\ AllSettled'
  BY <1>1 DEF Soundness, BatchesCompared, AllSettled, Settled, Compared
<1>3. /\ \A f : Settled(f) => Settled(f)'
      /\ files = BatchFiles /\ BatchFiles' = BatchFiles
      /\ at \in Nat \ {0} /\ failed \in Nat /\ done \in Nat /\ Len(files) \in Nat
  BY <1>1, BatchIndex DEF Soundness, Counters, Phases, Settled, Compared, BatchFiles
<1> SUFFICES ASSUME RunnerNext PROVE Counters' /\ Phases' /\ ClosedIsWhole' /\ FilesCompared'
  BY <1>2 DEF Soundness, Runs
<1> USE DEF Soundness
<1>4. CASE CannotOpen
  BY <1>1, <1>3, <1>4 DEF CannotOpen, Counters, Phases, ClosedIsWhole, DiskWhole, FilesCompared
<1>S. CASE ShortRead
  <2>1. failed' # 0
    BY <1>3, <1>S DEF ShortRead, Returned
  <2>2. Counters' /\ Phases' /\ ClosedIsWhole'
    BY <1>1, <1>3, <1>S DEF ShortRead, Returned, Counters, Phases, ClosedIsWhole, DiskWhole
  <2>3. FilesCompared'
    BY <1>1, <1>3, <1>S, <2>1 DEF ShortRead, Returned, FilesCompared, Phases
  <2> QED
    BY <2>2, <2>3
<1>5. CASE Open
  BY <1>1, <1>3, <1>5 DEF Open, Counters, Phases, ClosedIsWhole, DiskWhole, FilesCompared
<1>6. CASE RunCase
  <2>1. /\ done' = done + 1 /\ UNCHANGED <<runner, at, reading, text>> /\ reading
        /\ \/ passed' = passed \cup {<<files[at], done + 1>>} /\ failed' = failed
           \/ failed' = failed + 1
    BY <1>6 DEF RunCase
  <2>2. Counters'
    BY <1>1, <1>3, <2>1 DEF Counters
  <2>3. Phases' /\ ClosedIsWhole'
    BY <1>1, <1>3, <2>1 DEF Phases, ClosedIsWhole, DiskWhole
  <2>4. FilesCompared'
    BY <1>1, <1>3, <2>1 DEF FilesCompared, Phases
  <2> QED
    BY <2>2, <2>3, <2>4
<1>7. CASE Close
  <2>1. runner = "running" /\ failed = 0 => Settled(files[at])
    BY <1>3, <1>7 DEF Close, Returned, Phases, ClosedIsWhole, FilesCompared, Settled, Compared
  <2>2. Counters' /\ Phases' /\ ClosedIsWhole'
    BY <1>1, <1>3, <1>7 DEF Close, Returned, Counters, Phases, ClosedIsWhole, DiskWhole
  <2>3. FilesCompared'
    BY <1>1, <1>3, <1>7, <2>1 DEF Close, Returned, FilesCompared, Phases
  <2> QED
    BY <2>2, <2>3
<1>8. CASE Abort
  BY <1>1, <1>3, <1>8 DEF Abort, Returned, Counters, Phases, ClosedIsWhole, DiskWhole, FilesCompared
<1>9. CASE Exit
  BY <1>1, <1>3, <1>9 DEF Exit, Counters, Phases, ClosedIsWhole, DiskWhole, FilesCompared
<1> QED
  BY <1>4, <1>S, <1>5, <1>6, <1>7, <1>8, <1>9 DEF RunnerNext

LEMMA SoundJudge ==
  ASSUME Soundness, Judge
  PROVE  Soundness'
<1> USE DEF Soundness, fixed, runnerVars
<1>1. /\ phase = "run" /\ phase' = "batch" /\ first' = first + Batch
      /\ suite' = suite /\ torn' = torn /\ UNCHANGED runnerVars /\ runner # "running"
      /\ failures' = IF runner = "passed" THEN failures ELSE failures + 1
  BY DEF Judge
<1>2. DiskWhole'
  BY <1>1 DEF Judge, DiskWhole, ClosedIsWhole
<1>3. Counters' /\ Phases' /\ ClosedIsWhole'
  BY <1>1, <1>2, ScriptAssumption DEF Counters, Phases, ClosedIsWhole, DiskWhole
<1>4. BatchesCompared'
  <2> SUFFICES ASSUME failures' = 0, NEW n \in DOMAIN Opcodes, n <= first'
               PROVE  Settled(Opcodes[n])'
    BY DEF BatchesCompared
  <2>1. Settled(Opcodes[n]) => Settled(Opcodes[n])'
    BY <1>1 DEF Settled, Compared
  <2>2. failures = 0 /\ runner = "passed" /\ first \in Nat
    BY <1>1 DEF Counters
  <2>3. CASE n <= first
    BY <1>1, <2>1, <2>2, <2>3 DEF BatchesCompared
  <2>4. CASE ~(n <= first)
    <3>1. n \in Nat
      BY ScriptAssumption
    <3>2. n - first \in 1 .. Len(files) /\ files[n - first] = Opcodes[first + (n - first)]
      BY <1>1, <2>2, <2>4, <3>1, BatchIndex DEF Phases
    <3>3. Settled(files[n - first])
      BY <1>1, <2>2, <3>2 DEF FilesCompared
    <3>4. first + (n - first) = n
      BY <2>2, <3>1
    <3> QED
      BY <2>1, <3>2, <3>3, <3>4
  <2> QED
    BY <2>3, <2>4
<1>5. FilesCompared' /\ AllSettled'
  BY <1>1 DEF FilesCompared, AllSettled
<1> QED
  BY <1>3, <1>4, <1>5

LEMMA SoundFinish ==
  ASSUME Soundness, Finish
  PROVE  Soundness'
<1>0. ASSUME NEW n \in DOMAIN Opcodes, NEW f \in Nat, f >= Len(Opcodes)
      PROVE  n <= f
  BY <1>0, Indices
<1> USE DEF Soundness, Finish, fixed, runnerVars
<1>1. Counters' /\ Phases' /\ ClosedIsWhole'
  BY DEF Counters, Phases, ClosedIsWhole, DiskWhole
<1>2. FilesCompared' /\ BatchesCompared'
  BY DEF FilesCompared, BatchesCompared, Phases
<1>3. ASSUME failures = 0, NEW n \in DOMAIN Opcodes
      PROVE  Settled(Opcodes[n])'
  <2>1. first >= Len(Opcodes) /\ first \in Nat
    BY DEF Counters
  <2>2. n <= first
    BY <1>0, <2>1
  <2> QED
    BY <1>3, <2>2 DEF BatchesCompared, Settled, Compared
<1>4. AllSettled'
  BY <1>3 DEF AllSettled, Settled
<1> QED
  BY <1>1, <1>2, <1>4

LEMMA SoundAgain ==
  ASSUME Soundness, Again
  PROVE  Soundness'
<1> USE DEF Soundness, Again, Returned, fixed
<1>1. Counters' /\ Phases'
  BY DEF Counters, Phases
<1>4. ClosedIsWhole'
  <2>1. /\ disk' = disk /\ suite' = suite /\ ~reading'
        /\ torn' = {f \in torn \cap DOMAIN disk : disk[f] # Whole(f)}
    OBVIOUS
  <2>2. ASSUME NEW f \in DOMAIN disk, disk[f].closed, f \notin torn'
        PROVE  disk[f].cases = suite[f]
    BY <2>1, <2>2 DEF ClosedIsWhole, DiskWhole, Whole
  <2> QED
    BY <2>1, <2>2 DEF ClosedIsWhole, DiskWhole
<1>2. \A n \in DOMAIN Opcodes : ~(n <= 0)
  BY ScriptAssumption
<1>3. FilesCompared' /\ BatchesCompared' /\ AllSettled'
  BY <1>2 DEF FilesCompared, BatchesCompared, AllSettled
<1> QED
  BY <1>1, <1>3, <1>4

LEMMA SoundStep == Soundness /\ [ScriptNext]_scriptVars => Soundness'
<1> SUFFICES ASSUME Soundness, [ScriptNext]_scriptVars PROVE Soundness'
  OBVIOUS
<1>1. CASE AsideActions
  BY <1>1, AsideStep, SoundAside DEF Soundness, ClosedIsWhole
<1>2. CASE Wait \/ Runs \/ Judge \/ Finish
  BY <1>2, SoundWait, SoundRuns, SoundJudge, SoundFinish
<1>3. CASE Rerun \/ Interrupt
  BY <1>3, SoundAgain DEF Rerun, Interrupt
<1>4. CASE UNCHANGED scriptVars
  <2>1. Aside /\ (DiskWhole => DiskWhole')
    BY <1>4 DEF scriptVars, Aside, DiskWhole, runnerVars
  <2> QED
    BY <2>1, SoundAside DEF Soundness, ClosedIsWhole, DiskWhole
<1> QED
  BY <1>1, <1>2, <1>3, <1>4 DEF ScriptNext, ScriptRuns, Unfair, AsideActions

(* Only an interrupt makes two curls write one file. *)
LEMMA OneEachInit == ScriptInit => OneEach
BY DEF ScriptInit, OneEach, OfThisRun

LEMMA OneEachDownloads ==
  ASSUME OneEach, NEW d \in downloads,
         Cached(d) \/ Download(d) \/ Opens(d) \/ Writes(d) \/ Downloaded(d) \/ DownloadFails(d)
  PROVE  OneEach'
<1>1. phase' = phase /\ interrupts' = interrupts
  BY DEF Cached, Download, Opens, Writes, Downloaded, DownloadFails, scriptRest, faults
<1>2. d \in Jobs /\ \A e \in downloads : e \in Jobs
  BY DEF OneEach
<1>3. CASE Cached(d) \/ Writes(d) \/ Downloaded(d) \/ DownloadFails(d)
  <2>1. downloads' \subseteq downloads /\ torn' = torn
    BY <1>3 DEF Cached, Writes, Downloaded, DownloadFails, Ends
  <2> QED
    BY <1>1, <2>1 DEF OneEach, OfThisRun
<1>4. CASE Download(d)
  <2> DEFINE moved == [d EXCEPT !.at = "curl"]
  <2>1. downloads' = (downloads \ {d}) \cup {moved} /\ torn' = torn
    BY <1>4 DEF Download, Moves
  <2>2. moved \in Jobs /\ moved.op = d.op /\ moved.age = d.age
    BY <1>2 DEF Jobs
  <2> HIDE DEF moved
  <2> QED
    BY <1>1, <2>1, <2>2 DEF OneEach, OfThisRun
<1>5. CASE Opens(d)
  <2> DEFINE others == {e \in downloads \ {d} : e.op = d.op /\ Writing(e)}
             Over(e) == [e EXCEPT !.at = "overrun"]
             moved   == [d EXCEPT !.at = "open"]
  <2>1. /\ downloads' = (downloads \ (others \cup {d})) \cup {Over(e) : e \in others} \cup {moved}
        /\ torn' = (IF others = {} THEN torn ELSE torn \cup {d.op})
    BY <1>5 DEF Opens
  <2>2. moved \in Jobs /\ moved.op = d.op /\ moved.age = d.age
    BY <1>2 DEF Jobs
  <2>3. \A e \in others : e \in downloads /\ e # d /\ e.op = d.op
    OBVIOUS
  <2>4. \A e \in others : Over(e) \in Jobs /\ Over(e).op = e.op /\ Over(e).age = e.age
    BY <1>2, <2>3 DEF Jobs
  <2> HIDE DEF moved, Over, others
  <2>5. downloads' \subseteq Jobs
    BY <2>1, <2>2, <2>4 DEF OneEach
  <2>6. ASSUME NEW x \in downloads'
        PROVE  \/ x \in downloads /\ x # d
               \/ x = moved
               \/ \E e \in others : x = Over(e)
    BY <2>1, <2>6
  <2>7. d.age = 0 => \A e \in others : e.age # 0
    BY <2>3 DEF OneEach, OfThisRun
  <2>8. ASSUME NEW e \in others, d.age # 0, e.age = 0, NEW x \in OfThisRun, x.op = e.op
        PROVE  x = e
    BY <2>3, <2>8 DEF OneEach, OfThisRun
  <2>9. phase' # "fetch" => OfThisRun' = {}
    BY <1>1, <2>2, <2>3, <2>4, <2>6 DEF OneEach, OfThisRun
  <2>10. ASSUME NEW x \in downloads', NEW y \in downloads', x.age = 0, y.age = 0, x.op = y.op
         PROVE  x = y
    <3> DEFINE From(z, e) == e \in downloads /\ e.op = z.op /\ e.age = 0
                 /\ z = (IF e = d THEN moved ELSE IF e \in others THEN Over(e) ELSE e)
    <3>1. \A z \in downloads' : z.age = 0 => \E e : From(z, e)
      <4> SUFFICES ASSUME NEW z \in downloads', z.age = 0 PROVE \E e : From(z, e)
        OBVIOUS
      <4>1. CASE z = moved
        <5>1. From(z, d)
          BY <2>2, <4>1
        <5> QED
          BY <5>1
      <4>2. CASE \E e \in others : z = Over(e)
        <5>1. PICK e \in others : z = Over(e)
          BY <4>2
        <5>2. From(z, e)
          BY <2>3, <2>4, <5>1
        <5> QED
          BY <5>2
      <4>3. CASE z \in downloads /\ z # d /\ z # moved /\ ~\E e \in others : z = Over(e)
        <5>1. z \notin others
          BY <2>1, <4>3
        <5>2. From(z, z)
          BY <4>3, <5>1
        <5> QED
          BY <5>2
      <4> QED
        BY <2>6, <4>1, <4>2, <4>3
    <3>2. PICK u : From(x, u)
      BY <2>10, <3>1
    <3>3. PICK v : From(y, v)
      BY <2>10, <3>1
    <3>4. u = v
      BY <2>10, <3>2, <3>3 DEF OneEach, OfThisRun
    <3> QED
      BY <3>2, <3>3, <3>4
  <2>11. interrupts' = 0 => torn' = {} /\ \A x \in downloads' : x.age = 0
    <3> SUFFICES ASSUME interrupts' = 0 PROVE torn' = {} /\ \A x \in downloads' : x.age = 0
      OBVIOUS
    <3>1. torn = {} /\ \A x \in downloads : x.age = 0
      BY <1>1 DEF OneEach
    <3>2. others = {}
      BY <2>3, <2>7, <3>1
    <3> QED
      BY <2>1, <2>2, <3>1, <3>2
  <2> QED
    BY <1>1, <2>5, <2>9, <2>10, <2>11 DEF OneEach, OfThisRun
<1> QED
  BY <1>3, <1>4, <1>5

LEMMA OneEachStep == Soundness /\ OneEach /\ [ScriptNext]_scriptVars => OneEach'
<1> SUFFICES ASSUME Soundness, OneEach, [ScriptNext]_scriptVars PROVE OneEach'
  OBVIOUS
<1>1. ASSUME NEW d \in downloads,
             Cached(d) \/ Download(d) \/ Opens(d) \/ Writes(d) \/ Downloaded(d) \/ DownloadFails(d)
      PROVE  OneEach'
  BY <1>1, OneEachDownloads
<1>2. CASE StartJobs
  <2> DEFINE new == {Job(Opcodes[n], 0, "test") : n \in InBatch}
  <2>1. /\ downloads' = downloads \cup new /\ phase' = "fetch" /\ OfThisRun = {}
        /\ torn' = torn /\ interrupts' = interrupts
    BY <1>2 DEF StartJobs, OneEach, faults
  <2>2. ASSUME NEW n \in InBatch PROVE Opcodes[n] \in STRING
    BY <2>2, BatchNames DEF Soundness, Counters
  <2>3. ASSUME NEW d \in new
        PROVE  d \in Jobs /\ d.age = 0 /\ d = Job(d.op, 0, "test")
    BY <2>2, <2>3 DEF Jobs, Job
  <2> HIDE DEF new
  <2> QED
    BY <2>1, <2>3 DEF OneEach, OfThisRun
<1>3. CASE Wait \/ Runs \/ Judge \/ Finish
  <2>1. /\ downloads' \subseteq downloads /\ torn' = torn /\ interrupts' = interrupts
        /\ OfThisRun = {} /\ phase' # "fetch"
    BY <1>3 DEF Wait, Runs, Judge, Finish, OneEach, faults
  <2> QED
    BY <2>1 DEF OneEach, OfThisRun
<1>4. CASE Rerun
  <2>1. /\ downloads' = downloads /\ torn' \subseteq torn /\ interrupts' = interrupts
        /\ OfThisRun = {} /\ phase' # "fetch"
    BY <1>4 DEF Rerun, Again, OneEach, faults
  <2> QED
    BY <2>1 DEF OneEach, OfThisRun
<1>5. CASE Interrupt
  <2> DEFINE Older(d) == [d EXCEPT !.age = @ + 1]
  <2>1. /\ downloads' = {Older(d) : d \in downloads} /\ phase' = "batch"
        /\ interrupts' = interrupts + 1
    BY <1>5 DEF Interrupt, Again
  <2>2. \A d \in downloads : Older(d) \in Jobs /\ Older(d).age # 0
    BY DEF OneEach, Jobs
  <2> HIDE DEF Older
  <2>3. downloads' \subseteq Jobs /\ OfThisRun' = {}
    BY <2>1, <2>2 DEF OfThisRun
  <2>4. interrupts' \in Nat /\ interrupts' # 0
    BY <2>1 DEF OneEach
  <2> QED
    BY <2>1, <2>3, <2>4 DEF OneEach
<1>6. CASE UNCHANGED scriptVars
  BY <1>6 DEF scriptVars, OneEach, OfThisRun
<1> QED
  BY <1>1, <1>2, <1>3, <1>4, <1>5, <1>6 DEF ScriptNext, ScriptRuns, Unfair

(* Whatever downloads fail, and whatever an interrupted run left in the     *)
(* cache, is still writing to it or has yet to create there: when the       *)
(* script reports ALL PASS, every case of every opcode was compared in this *)
(* run, and agreed, or two curls, one of them of a run that was interrupted *)
(* before, have had its file open at once.                                  *)
THEOREM AllPassCorrect == ScriptSpec => []AllPassSound
<1>1. ASSUME OneEach, NEW f \in torn
      PROVE  interrupts > 0
  BY <1>1 DEF OneEach
<1>2. Soundness /\ OneEach => AllPassSound
  BY <1>1, Zenon DEF AllPassSound, Soundness, AllSettled, Settled
<1> QED
  BY <1>2, SoundInit, SoundStep, OneEachInit, OneEachStep, PTL DEF ScriptSpec
-----------------------------------------------------------------------------
(* The verdict on a case: whether its file and number are in passed. *)
LEMMA IndependentInit == ScriptInit => Independence
BY DEF ScriptInit, RunnerInit, Independence, NoneAhead, VerdictsIndependent

LEMMA IndependentAside ==
  ASSUME Soundness, Independence, Aside
  PROVE  Independence'
<1> USE DEF Aside, runnerVars
<1>1. NoneAhead'
  BY DEF Independence, NoneAhead
<1>2. VerdictsIndependent'
  BY DEF Independence, VerdictsIndependent
<1> QED
  BY <1>1, <1>2 DEF Independence

(* The runner is not reading: only what has passed matters. *)
LEMMA IndependentBetween ==
  ASSUME Soundness, Independence, Wait \/ Judge \/ Finish \/ Again
  PROVE  Independence'
<1>1. ~reading' /\ (Again \/ ~reading)
  <2>1. Wait \/ Judge \/ Finish => ~reading /\ reading' = reading
    BY DEF Soundness, Phases, Wait, RunnerStart, Judge, Finish, runnerVars
  <2> QED
    BY <2>1 DEF Again, Returned
<1>2. VerdictsIndependent'
  BY <1>1 DEF VerdictsIndependent
<1> SUFFICES NoneAhead'
  BY <1>2 DEF Independence
<1>3. CASE Again
  BY <1>3 DEF Again, NoneAhead
<1> SUFFICES ASSUME ~reading PROVE NoneAhead'
  BY <1>1, <1>3
<1>4. CASE Wait
  <2>1. passed' = passed /\ first' = first /\ phase = "fetch"
    BY <1>4 DEF Wait, RunnerStart
  <2> QED
    BY <2>1 DEF Independence, NoneAhead
<1>5. CASE Judge
  <2>1. passed' = passed /\ first' = first + Batch /\ phase = "run"
    BY <1>5 DEF Judge, runnerVars
  <2>2. first \in Nat /\ at \in Nat /\ Batch \in Nat /\ at <= Len(BatchFiles) + 1
    BY <2>1, ScriptAssumption DEF Soundness, Counters, Phases
  <2>3. Len(BatchFiles) \in Nat /\ Len(BatchFiles) <= Batch
    BY <2>2, BatchIndex
  <2>4. ASSUME NEW n \in DOMAIN Opcodes, n <= first \/ n < first + at \/ n <= first + Batch
        PROVE  n <= first + Batch
    BY <2>2, <2>3, <2>4, Indices
  <2>5. ASSUME NEW n \in DOMAIN Opcodes, NEW k \in Nat, <<Opcodes[n], k>> \in passed
        PROVE  n <= first + Batch
    BY <2>4, <2>5 DEF Independence, NoneAhead
  <2> QED
    BY <2>1, <2>5 DEF NoneAhead
<1>6. CASE Finish
  <2>1. passed' = passed /\ first' = first /\ phase = "batch"
    BY <1>6 DEF Finish, runnerVars
  <2> QED
    BY <2>1 DEF Independence, NoneAhead
<1> QED
  BY <1>3, <1>4, <1>5, <1>6

(* One case: what the TestCase and the bus held before does not matter. *)
LEMMA CaseJudgedAlone ==
  ASSUME NEW case, Complete(case)
  PROVE  LET out == Core(Parsed(case).initial.regs, Stored(ClearedBus, Parsed(case).initial.ram))
         IN  Same(out, Parsed(case).final, Parsed(case).cycles) <=> Agrees(case)
<1>1. /\ {"initial", "final", "cycles"} \subseteq DOMAIN case
      /\ {"regs", "ram"} \subseteq DOMAIN case.initial
      /\ {"regs", "ram"} \subseteq DOMAIN case.final
  BY DEF Complete
<1>2. /\ Parsed(case).initial.regs = case.initial.regs
      /\ Parsed(case).initial.ram = case.initial.ram
      /\ Parsed(case).final.regs = case.final.regs
      /\ Parsed(case).final.ram = case.final.ram
      /\ Parsed(case).cycles = case.cycles
  BY <1>1 DEF Parsed, ParsedState
<1> QED
  BY <1>2, Zenon DEF Same, Agrees

LEMMA IndependentCase ==
  ASSUME Soundness, Independence, Runs, RunCase
  PROVE  Independence'
<1> DEFINE k == done + 1
           case == text.cases[k]
           here == <<files[at], k>>
           out  == Core(test'.initial.regs, Stored(ClearedBus, test'.initial.ram))
<1>1. /\ reading /\ reading' = reading /\ done' = k /\ phase = "run" /\ phase' = "run"
      /\ UNCHANGED <<files, at, text, first>>
  BY DEF Runs, RunCase
<1>2. test' = Parsed(case)
  BY DEF RunCase, Case
<1>3. passed' = IF Same(out, test'.final, test'.cycles) THEN passed \cup {here} ELSE passed
  BY DEF RunCase
<1>4. /\ first \in Nat /\ at \in Nat /\ done \in Nat /\ at \in 1 .. Len(files)
      /\ files = BatchFiles
  BY <1>1, BatchIndex DEF Soundness, Counters, Phases
<1>5. first + at \in DOMAIN Opcodes /\ files[at] = Opcodes[first + at]
  BY <1>4, BatchIndex
<1>6. here \notin passed
  <2> SUFFICES ASSUME <<Opcodes[first + at], k>> \in passed PROVE FALSE
    BY <1>5
  <2>1. first + at <= first \/ first + at < first + at \/ k <= done
    BY <1>1, <1>4, <1>5 DEF Independence, NoneAhead, Soundness, Phases
  <2> QED
    BY <1>4, <2>1
<1>7. NoneAhead'
  <2> SUFFICES ASSUME NEW n \in DOMAIN Opcodes, NEW j \in Nat, <<Opcodes[n], j>> \in passed'
               PROVE  n <= first \/ n < first + at \/ (n = first + at /\ j <= k)
    BY <1>1 DEF NoneAhead
  <2>1. CASE <<Opcodes[n], j>> \in passed
    BY <1>1, <1>4, <2>1 DEF Independence, NoneAhead, Soundness, Phases
  <2>2. CASE <<Opcodes[n], j>> = here
    <3>1. Opcodes[n] = Opcodes[first + at] /\ j = k
      BY <1>5, <2>2
    <3>2. n = first + at
      BY <1>5, <3>1, ScriptAssumption
    <3> QED
      BY <1>4, <3>1, <3>2
  <2> QED
    BY <1>3, <2>1, <2>2
<1>8. VerdictsIndependent'
  <2> DEFINE Judged(j) == <<files[at], j>> \in passed' <=> Agrees(text.cases[j])
  <2>0. /\ \A j : Complete(text.cases[j])' <=> Complete(text.cases[j])
        /\ \A j : Agrees(text.cases[j])' <=> Agrees(text.cases[j])
    BY <1>1 DEF Complete, Agrees, Same, Stored, Zeroed
  <2> SUFFICES ASSUME NEW j \in 1 .. k, Complete(text.cases[j])
               PROVE  Judged(j)
    BY <1>1, <2>0 DEF VerdictsIndependent
  <2>1. CASE j = k
    <3>1. here \in passed' <=> Same(out, test'.final, test'.cycles)
      BY <1>3, <1>6
    <3>2. Same(out, test'.final, test'.cycles) <=> Agrees(case)
      BY <1>2, <2>1, CaseJudgedAlone
    <3> QED
      BY <2>1, <3>1, <3>2
  <2>2. CASE j # k
    <3>1. j \in 1 .. done
      BY <1>4, <2>2
    <3>2. <<files[at], j>> \in passed' <=> <<files[at], j>> \in passed
      BY <1>3, <2>2
    <3> QED
      BY <1>1, <3>1, <3>2 DEF Independence, VerdictsIndependent
  <2> HIDE DEF Judged
  <2> QED
    BY <2>1, <2>2
<1> QED
  BY <1>7, <1>8 DEF Independence

LEMMA IndependentRuns ==
  ASSUME Soundness, Independence, Runs, ~RunCase
  PROVE  Independence'
<1>1. /\ phase = "run" /\ phase' = "run" /\ UNCHANGED <<first, files, passed>>
      /\ CannotOpen \/ Open \/ ShortRead \/ Close \/ Abort \/ Exit
  BY DEF Runs, RunnerNext, CannotOpen, Open, ShortRead, Close, Abort, Exit
<1>2. at \in Nat /\ first \in Nat /\ done \in Nat /\ (reading => at <= Batch)
  <2>1. at \in Nat /\ first \in Nat /\ done \in Nat /\ (reading => at <= Len(BatchFiles))
    BY <1>1 DEF Soundness, Counters, Phases
  <2>2. Len(BatchFiles) \in Nat /\ Len(BatchFiles) <= Batch /\ Batch \in Nat
    BY <2>1, BatchIndex, ScriptAssumption
  <2> QED
    BY <2>1, <2>2
<1>3. \/ at' = at + 1 /\ ~reading' /\ runner = "running"
      \/ at' = at /\ reading' /\ done' = 0 /\ ~reading /\ runner = "running"
      \/ at' = at /\ ~reading' /\ reading /\ runner = "running" /\ runner' = "aborted"
      \/ at' = at /\ ~reading' /\ ~reading /\ runner = "running"
  BY <1>1 DEF CannotOpen, Open, ShortRead, Close, Abort, Exit, Returned, Soundness, Phases
<1>4. VerdictsIndependent'
  BY <1>2, <1>3 DEF VerdictsIndependent
<1>5. NoneAhead'
  <2> SUFFICES ASSUME NEW n \in DOMAIN Opcodes, NEW k \in Nat, <<Opcodes[n], k>> \in passed
               PROVE  \/ n <= first
                      \/ n < first + at'
                      \/ reading' /\ n = first + at' /\ k <= done'
                      \/ runner' = "aborted" /\ n <= first + Batch
    BY <1>1 DEF NoneAhead
  <2>1. n <= first \/ n < first + at \/ (reading /\ n = first + at /\ k <= done)
    BY <1>3 DEF Independence, NoneAhead
  <2>2. n \in Nat /\ Batch \in Nat
    BY Indices, ScriptAssumption
  <2> QED
    BY <1>2, <1>3, <2>1, <2>2
<1> QED
  BY <1>4, <1>5 DEF Independence

LEMMA IndependentStep == Soundness /\ Independence /\ [ScriptNext]_scriptVars => Independence'
<1> SUFFICES ASSUME Soundness, Independence, [ScriptNext]_scriptVars PROVE Independence'
  OBVIOUS
<1>1. CASE AsideActions
  BY <1>1, AsideStep, IndependentAside DEF Soundness, ClosedIsWhole
<1>2. CASE Runs
  BY <1>2, IndependentCase, IndependentRuns
<1>3. CASE Wait \/ Judge \/ Finish \/ Rerun \/ Interrupt
  BY <1>3, IndependentBetween DEF Rerun, Interrupt
<1>4. CASE UNCHANGED scriptVars
  <2>1. Aside
    BY <1>4 DEF scriptVars, Aside, runnerVars
  <2> QED
    BY <2>1, IndependentAside
<1> QED
  BY <1>1, <1>2, <1>3, <1>4 DEF ScriptNext, ScriptRuns, Unfair, AsideActions

(* For every processor and every file: a complete case is counted as passed *)
(* exactly if the processor agrees with it on a machine of its own.         *)
THEOREM VerdictsCorrect == ScriptSpec => []VerdictsIndependent
<1>1. Independence => VerdictsIndependent
  BY DEF Independence
<1> QED
  BY <1>1, SoundInit, SoundStep, IndependentInit, IndependentStep, PTL DEF ScriptSpec
=============================================================================
