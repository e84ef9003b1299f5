----------------------------- MODULE HarteScript -----------------------------
(***************************************************************************)
(* tools/harte.sh around the runner: a batch of downloads in the           *)
(* background, the runner on the batch, the deletion of its files, and so  *)
(* on to the verdict.  Downloads fail, the user interrupts the script, and *)
(* runs it again on the same cache directory.                              *)
(***************************************************************************)
EXTENDS HarteRunner

CONSTANTS
  Opcodes,     \* the command line, a sequence of different names
  Batch,       \* BATCH
  Suites,      \* what the server may hold: for each name its cases
  MaxInterrupts, MaxFailures   \* bounds: of the interrupts, of failed downloads

ASSUME ScriptAssumption ==
  /\ Opcodes \in Seq(STRING) /\ Batch \in Nat \ {0} /\ MaxInterrupts \in Nat /\ MaxFailures \in Nat
  /\ \A m, n \in DOMAIN Opcodes : Opcodes[m] = Opcodes[n] => m = n
  /\ \A s \in Suites : \A n \in DOMAIN Opcodes :
       Opcodes[n] \in DOMAIN s /\ Len(s[Opcodes[n]]) \in Nat

VARIABLES
  suite, keep,   \* the server's files and KEEP=1, fixed
  phase,         \* where the script is
  first,         \* the opcodes before the batch in turn
  downloads,     \* the background jobs, those of interrupted runs too
  torn,          \* the files that two curls have had open at once
  failures,      \* of this run
  interrupts, givenUp   \* how many there were, of the script and of curl

scriptVars == <<disk, runnerVars, suite, keep, phase, first, downloads, torn, failures, interrupts, givenUp>>

Smaller(m, n) == IF m < n THEN m ELSE n
InBatch       == first + 1 .. Smaller(first + Batch, Len(Opcodes))
BatchFiles    == SubSeq(Opcodes, first + 1, Smaller(first + Batch, Len(Opcodes)))

(* A file as the server has it, and one that ends early: the cases that can *)
(* be read before the cursor throws.                                        *)
Whole(op)  == [cases |-> suite[op], closed |-> TRUE, empty |-> FALSE]
Cut(op, n) == [cases |-> SubSeq(suite[op], 1, n), closed |-> FALSE, empty |-> FALSE]

(* Two curls write one file, each at its own offset: behind what the later  *)
(* has written, and before where the earlier goes on, are NUL bytes.  The   *)
(* cursor throws at them, except inside a string, which it ends at the next *)
(* quotation mark: NULs from the name of case m + 1 to the name of case n   *)
(* make one case of the two, case n, and those between them are not there.  *)
Spliced(op, m, n) ==
  [cases |-> SubSeq(suite[op], 1, m) \o SubSeq(suite[op], n, Len(suite[op])),
   closed |-> TRUE, empty |-> FALSE]

TornPieces(op) ==
  {Cut(op, n) : n \in 0 .. Len(suite[op])} \cup
  UNION {{Spliced(op, m, n) : n \in m + 1 .. Len(suite[op])} : m \in 0 .. Len(suite[op])}

Written(op, bytes) == [f \in DOMAIN disk \cup {op} |-> IF f = op THEN bytes ELSE disk[f]]

ScriptInit ==
  /\ RunnerInit
  /\ disk = [f \in {} |-> 0]
  /\ suite \in Suites /\ keep \in BOOLEAN
  /\ phase = "batch" /\ first = 0 /\ downloads = {} /\ torn = {}
  /\ failures = 0 /\ interrupts = 0 /\ givenUp = 0

fixed  == <<suite, keep>>
faults == <<interrupts, givenUp>>

-----------------------------------------------------------------------------
(* A background job: its opcode, how many interrupts of the script it has   *)
(* outlived, and where it is: before [[ -s file ]] ("test"), in curl before *)
(* it has created its file ("curl"), writing to the file it has created     *)
(* ("open"), or to one that another job has emptied since ("overrun").  A   *)
(* job that has ended is no longer there.                                   *)
Job(op, age, at_) == [op |-> op, age |-> age, at |-> at_]
Writing(d)        == d.at \in {"open", "overrun"}
OfThisRun         == {d \in downloads : d.age = 0}

Moves(d, to) == downloads' = (downloads \ {d}) \cup {[d EXCEPT !.at = to]}
Ends(d)      == downloads' = downloads \ {d}

scriptRest == <<runnerVars, fixed, phase, first, failures>>

(* [[ -s file ]]: what is there is used, whole or not. *)
Cached(d) ==
  /\ d.at = "test" /\ d.op \in DOMAIN disk /\ ~disk[d.op].empty
  /\ Ends(d) /\ UNCHANGED <<disk, torn, faults, scriptRest>>

(* There is no file, or an empty one: curl is started. *)
Download(d) ==
  /\ d.at = "test" /\ (d.op \in DOMAIN disk => disk[d.op].empty)
  /\ Moves(d, "curl") /\ UNCHANGED <<disk, torn, faults, scriptRest>>

(* The first bytes arrive: curl creates the file, or empties the one that   *)
(* is there by now, also under another curl that is writing it.             *)
Opens(d) ==
  LET others == {e \in downloads \ {d} : e.op = d.op /\ Writing(e)}
  IN  /\ d.at = "curl"
      /\ disk' = Written(d.op, Empty)
      /\ downloads' = (downloads \ (others \cup {d}))
                         \cup {[e EXCEPT !.at = "overrun"] : e \in others}
                         \cup {[d EXCEPT !.at = "open"]}
      /\ torn' = (IF others = {} THEN torn ELSE torn \cup {d.op})
      /\ UNCHANGED <<faults, scriptRest>>

(* Some more of the file, or the text of an HTTP error, is written.  Where  *)
(* two write, anything may be there until the bytes are complete.           *)
Writes(d) ==
  /\ Writing(d) /\ d.op \in DOMAIN disk /\ disk[d.op] # Whole(d.op)
  /\ \E bytes \in IF d.op \in torn THEN TornPieces(d.op)
                  ELSE {Cut(d.op, n) : n \in Len(disk[d.op].cases) .. Len(suite[d.op])} :
       disk' = Written(d.op, bytes)
  /\ UNCHANGED <<downloads, torn, faults, scriptRest>>

(* The curl that emptied the file last has written all of it; what one it   *)
(* has overrun wrote since are the same bytes, and leaves what is there.    *)
Downloaded(d) ==
  /\ Writing(d) /\ Ends(d)
  /\ disk' = (IF d.at = "open" THEN Written(d.op, Whole(d.op)) ELSE disk)
  /\ UNCHANGED <<torn, faults, scriptRest>>

(* curl gives up, with what it has written or before it wrote anything.     *)
(* The script does not look at its exit status.                             *)
DownloadFails(d) ==
  /\ d.at # "test" /\ givenUp < MaxFailures /\ givenUp' = givenUp + 1
  /\ Ends(d) /\ UNCHANGED <<disk, torn, interrupts, scriptRest>>

-----------------------------------------------------------------------------
(* The loop's body: the jobs are started, and waited for. *)
StartJobs ==
  /\ phase = "batch" /\ first < Len(Opcodes)
  /\ phase' = "fetch"
  /\ downloads' = downloads \cup {Job(Opcodes[n], 0, "test") : n \in InBatch}
  /\ UNCHANGED <<disk, runnerVars, fixed, first, torn, failures, faults>>

Wait ==
  /\ phase = "fetch" /\ OfThisRun = {}
  /\ phase' = "run"
  /\ RunnerStart(BatchFiles)
  /\ UNCHANGED <<disk, fixed, first, downloads, torn, failures, faults>>

Runs ==
  /\ phase = "run" /\ RunnerNext
  /\ UNCHANGED <<disk, fixed, phase, first, downloads, torn, failures, faults>>

(* The pipeline's status, under pipefail, is the runner's.  Mutant: that of *)
(* grep, which has printed something.                                       *)
FailedBatchesWithoutPipefail == failures
FailedBatches == IF runner = "passed" THEN failures ELSE failures + 1

(* Unless KEEP=1 the files of the batch are deleted; mutant: only after a   *)
(* batch that passed.                                                       *)
DeletesPassed == ~keep /\ runner = "passed"
Deletes       == ~keep

(* A curl that has the deleted file open goes on into nowhere; one that has *)
(* not created it yet will.                                                 *)
Judge ==
  /\ phase = "run" /\ runner \in {"passed", "failed", "aborted"}
  /\ failures' = FailedBatches
  /\ IF Deletes
       THEN LET gone == {Opcodes[n] : n \in InBatch}
            IN  /\ disk' = [f \in DOMAIN disk \ gone |-> disk[f]]
                /\ downloads' = {d \in downloads : ~(d.op \in gone /\ Writing(d))}
       ELSE UNCHANGED <<disk, downloads>>
  /\ phase' = "batch" /\ first' = first + Batch
  /\ UNCHANGED <<runnerVars, fixed, torn, faults>>

Finish ==
  /\ phase = "batch" /\ first >= Len(Opcodes)
  /\ phase' = (IF failures = 0 THEN "ALL PASS" ELSE "failures")
  /\ UNCHANGED <<disk, runnerVars, fixed, first, downloads, torn, failures, faults>>

-----------------------------------------------------------------------------
(* The script is started again; the cache directory is what it was. *)
Again ==
  /\ phase' = "batch" /\ first' = 0 /\ failures' = 0
  /\ torn' = {f \in torn \cap DOMAIN disk : disk[f] # Whole(f)}
  /\ runner' = "idle" /\ files' = <<>> /\ at' = 1 /\ failed' = 0 /\ passed' = {} /\ Returned
  /\ UNCHANGED <<disk, fixed>>

Rerun ==
  /\ phase \in {"ALL PASS", "failures"}
  /\ Again /\ UNCHANGED <<downloads, faults>>

(* Ctrl-C: the shell and the runner are gone, but the background jobs       *)
(* ignore the signal, those too that have not come to their test.  (A job   *)
(* the shell had not started yet is one that never does anything.)          *)
Interrupt ==
  /\ phase \notin {"ALL PASS", "failures"} /\ interrupts < MaxInterrupts
  /\ interrupts' = interrupts + 1 /\ UNCHANGED givenUp
  /\ Again
  /\ downloads' = {[d EXCEPT !.age = @ + 1] : d \in downloads}

ScriptRuns ==
  \/ StartJobs \/ Wait \/ Runs \/ Judge \/ Finish \/ Rerun
  \/ \E d \in downloads : Cached(d) \/ Download(d) \/ Opens(d) \/ Downloaded(d)

Unfair == Interrupt \/ \E d \in downloads : Writes(d) \/ DownloadFails(d)

ScriptNext == ScriptRuns \/ Unfair

ScriptSpec     == ScriptInit /\ [][ScriptNext]_scriptVars
FairScriptSpec == ScriptSpec /\ WF_scriptVars(ScriptRuns)

-----------------------------------------------------------------------------
(* Every case of the opcode was compared in this run, and agreed. *)
Compared(op) == \A k \in 1 .. Len(suite[op]) : <<op, k>> \in passed

(* "ALL PASS" means it: whatever downloads failed, whatever an interrupted   *)
(* run left in the cache or still puts there and whatever the runner did     *)
(* with it, every case of every opcode was compared in this very run, and    *)
(* agreed.  Only after an interrupt, and only of a file that two curls have  *)
(* had open at once, may cases be missing without a failure.                 *)
AllPassSound ==
  phase = "ALL PASS" =>
    \A n \in DOMAIN Opcodes :
      Compared(Opcodes[n]) \/ (interrupts > 0 /\ Opcodes[n] \in torn)

(* A bad file does not stay for ever: on a server whose cases all agree,     *)
(* without KEEP=1, running the script again gets to ALL PASS once the faults *)
(* are over.  With KEEP=1 a file cut short is kept, and fails every time.    *)
Agreeable ==
  \A op \in DOMAIN suite : \A k \in DOMAIN suite[op] :
    Complete(suite[op][k]) /\ Agrees(suite[op][k])
RetryHeals == []<>(keep \/ ~Agreeable \/ phase = "ALL PASS")
=============================================================================
