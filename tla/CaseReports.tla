---------------------------- MODULE CaseReports ----------------------------
(***************************************************************************)
(* The persistent output of the design linter: the files of a case root,   *)
(* replaced as a whole by each run in "cases" mode.  New cases are staged  *)
(* in a directory of their own, the previous ones are moved into its       *)
(* backup, the new ones are renamed into place, and a handled failure puts *)
(* everything back.  Any file operation may fail and the process may die   *)
(* between any two of them.                                                *)
(***************************************************************************)
EXTENDS Integers, Sequences, FiniteSets, SequencesExt

CONSTANTS
    Name,        \* file names of cases: numbers, in the order of the names
    Reports,     \* the sequences of findings an analysis may end with
    MaxRuns,     \* bound on the runs of the linter
    MaxFaults,   \* bound on failing file operations and crashes
    NoFile,      \* no entry at a path
    NoStage      \* no staging directory of that number

VARIABLES
    disk,        \* the entries of errors/ and check/
    stages,      \* staging directories, by sequence number
    at,          \* where the running linter stands
    run,         \* runs started so far
    pending,     \* Cases::pending: the text of each case of this run
    previous,    \* owned files found before anything is replaced
    sequence,    \* SEQUENCE of this process
    moved, installed,
    result,      \* what `finish` returns once the staging directory is dropped
    outcome,     \* what the last run ended with
    faults,
    before       \* history: the disk when the run began

vars == <<disk, stages, at, run, pending, previous, sequence, moved, installed, result, outcome, faults, before>>

Queue == {"errors", "check"}
Path == Queue \X Name
Slots == 0..MaxRuns
Note == [marked |-> FALSE, run |-> 0, text |-> "note"]
Case(r, text) == [marked |-> TRUE, run |-> r, text |-> text]
Cases == {Case(0, "old")} \cup {Case(r, f.text) : r \in 1..MaxRuns, f \in UNION {Range(s) : s \in Reports}}
Empty(S) == [p \in S |-> NoFile]
Sorted(S) == SetToSortSeq(S, LAMBDA p, q : (p[1] = "check" /\ q[1] = "errors") \/ (p[1] = q[1] /\ p[2] < q[2]))

\* Types of the state; a staging directory only ever holds marked cases.
TypeOK ==
    /\ disk \in [Path -> Cases \cup {Note, NoFile}]
    /\ \A i \in Slots : stages[i] # NoStage =>
          stages[i] \in [new : [Name -> Cases \cup {NoFile}], backup : [Path -> Cases \cup {NoFile}]]
    /\ DOMAIN pending \subseteq Name
    /\ {moved[i] : i \in DOMAIN moved} \subseteq Path
    /\ outcome \in {"none", "running", "ok", "failed", "stranded", "crashed"}

-----------------------------------------------------------------------------

\* Only an ordinary file that starts with the marker is owned by the linter.
owned(p) == disk[p] # NoFile /\ disk[p].marked

owned_files == Sorted({p \in Path : owned(p)})

\* Cases::finding over all findings: the same name twice must be the same text.
Collides(found) == \E i, j \in DOMAIN found : found[i].name = found[j].name /\ found[i].text # found[j].text
Collected(found) == [n \in {found[i].name : i \in DOMAIN found} |-> found[SelectInSeq(found, LAMBDA f : f.name = n)].text]

Faulty == faults < MaxFaults /\ faults' = faults + 1
Fine == faults' = faults

Names == SetToSortSeq(DOMAIN pending, <)
Stage == stages[sequence]

\* A run that ends without a staging directory.
Fails ==
    /\ outcome' = "failed" /\ at' = "idle"
    /\ UNCHANGED <<disk, stages, run, previous, sequence, moved, installed, result, before>>

\* A run that ends by dropping its staging directory.
Leave(answer) ==
    /\ at' = "drop" /\ result' = answer
    /\ UNCHANGED <<disk, stages, run, pending, previous, sequence, moved, installed, outcome, before>>

-----------------------------------------------------------------------------

\* Linter::run: the analysis is complete, or has failed, before the reporter
\* sees anything; then begin and finding, in memory.
Analyse ==
    /\ at = "idle" /\ run < MaxRuns
    /\ run' = run + 1 /\ before' = disk
    /\ sequence' = 0 /\ moved' = <<>> /\ installed' = <<>>
    /\ \/ outcome' = "failed" /\ pending' = <<>> /\ at' = "idle"
       \/ \E found \in Reports :
             IF Collides(found)
             THEN outcome' = "failed" /\ pending' = <<>> /\ at' = "idle"
             ELSE outcome' = "running" /\ pending' = Collected(found) /\ at' = "inspect"
    /\ UNCHANGED <<disk, stages, previous, result, faults>>

\* Cases::finish up to the staging directory: reads only.
Inspect ==
    /\ at = "inspect"
    /\ \/ /\ Fine
          /\ \A n \in DOMAIN pending : disk[<<"errors", n>>] # NoFile => owned(<<"errors", n>>)
          /\ previous' = owned_files /\ at' = "stage"
          /\ UNCHANGED <<disk, stages, run, pending, sequence, moved, installed, result, outcome, before>>
       \/ /\ Fine
          /\ \E n \in DOMAIN pending : disk[<<"errors", n>>] # NoFile /\ ~ owned(<<"errors", n>>)
          /\ Fails /\ UNCHANGED pending
       \/ Faulty /\ Fails /\ UNCHANGED pending

\* Variant of StagingNew that tries the same name again.
StagingNewSame ==
    /\ at = "stage"
    /\ \/ /\ Fine /\ Stage = NoStage
          /\ stages' = [stages EXCEPT ![sequence] = [new |-> Empty(Name), backup |-> Empty(Path)]]
          /\ at' = "write"
          /\ UNCHANGED <<disk, run, pending, previous, sequence, moved, installed, result, outcome, before>>
       \/ Fine /\ Stage # NoStage /\ UNCHANGED <<disk, stages, at, run, pending, previous, sequence, moved, installed, result, outcome, before>>
       \/ Faulty /\ Fails /\ UNCHANGED pending

\* Staging::new: the first free number; the process identifier may be that of
\* a process that died here.
StagingNew ==
    /\ at = "stage"
    /\ \/ /\ Fine /\ Stage = NoStage
          /\ stages' = [stages EXCEPT ![sequence] = [new |-> Empty(Name), backup |-> Empty(Path)]]
          /\ at' = "write"
          /\ UNCHANGED <<disk, run, pending, previous, sequence, moved, installed, result, outcome, before>>
       \/ /\ Fine /\ Stage # NoStage
          /\ sequence' = sequence + 1
          /\ UNCHANGED <<disk, stages, at, run, pending, previous, moved, installed, result, outcome, before>>
       \/ Faulty /\ Fails /\ UNCHANGED pending

\* One case is written to the staging directory, or all are.
WriteCase ==
    /\ at = "write"
    /\ LET left == SelectSeq(Names, LAMBDA n : Stage.new[n] = NoFile)
       IN  \/ /\ Fine /\ left # <<>>
              /\ stages' = [stages EXCEPT ![sequence].new[Head(left)] = Case(run, pending[Head(left)])]
              /\ UNCHANGED <<disk, at, run, pending, previous, sequence, moved, installed, result, outcome, before>>
           \/ /\ Fine /\ left = <<>>
              /\ at' = "announce"
              /\ UNCHANGED <<disk, stages, run, pending, previous, sequence, moved, installed, result, outcome, before>>
           \/ Faulty /\ left # <<>> /\ Leave("failed")

\* The summary goes out before any persistent report is replaced.
Announce ==
    /\ at = "announce"
    /\ \/ /\ Fine /\ at' = "publish"
          /\ UNCHANGED <<disk, stages, run, pending, previous, sequence, moved, installed, result, outcome, before>>
       \/ Faulty /\ Leave("failed")

\* Staging::publish, first loop: an owned file moves to the backup.
BackUp ==
    /\ at = "publish" /\ Len(moved) < Len(previous)
    /\ LET p == previous[Len(moved) + 1]
       IN  \/ /\ Fine
              /\ stages' = [stages EXCEPT ![sequence].backup[p] = disk[p]]
              /\ disk' = [disk EXCEPT ![p] = NoFile]
              /\ moved' = Append(moved, p)
              /\ UNCHANGED <<at, run, pending, previous, sequence, installed, result, outcome, before>>
           \/ /\ Faulty /\ at' = "restore"
              /\ UNCHANGED <<disk, stages, run, pending, previous, sequence, moved, installed, result, outcome, before>>

\* Staging::publish, second loop: a staged case moves into place.
Install ==
    /\ at = "publish" /\ Len(moved) = Len(previous) /\ Len(installed) < Len(Names)
    /\ LET n == Names[Len(installed) + 1]
       IN  \/ /\ Fine
              /\ disk' = [disk EXCEPT ![<<"errors", n>>] = Stage.new[n]]
              /\ stages' = [stages EXCEPT ![sequence].new[n] = NoFile]
              /\ installed' = Append(installed, <<"errors", n>>)
              /\ UNCHANGED <<at, run, pending, previous, sequence, moved, result, outcome, before>>
           \/ /\ Faulty /\ at' = "restore"
              /\ UNCHANGED <<disk, stages, run, pending, previous, sequence, moved, installed, result, outcome, before>>

Published ==
    /\ at = "publish" /\ Len(moved) = Len(previous) /\ Len(installed) = Len(Names)
    /\ Fine /\ Leave("ok")

\* The rollback fails: the staging directory is retained with its backups.
Strand ==
    /\ Faulty /\ outcome' = "stranded" /\ at' = "idle"
    /\ UNCHANGED <<disk, stages, run, pending, previous, sequence, moved, installed, result, before>>

\* Variant of Restore that leaves what was installed.
RestoreMovedOnly ==
    /\ at = "restore"
    /\ \/ /\ Fine /\ moved # <<>>
          /\ disk' = [disk EXCEPT ![Last(moved)] = Stage.backup[Last(moved)]]
          /\ stages' = [stages EXCEPT ![sequence].backup[Last(moved)] = NoFile]
          /\ moved' = Front(moved)
          /\ UNCHANGED <<at, run, pending, previous, sequence, installed, result, outcome, before>>
       \/ moved = <<>> /\ Fine /\ Leave("failed")
       \/ moved # <<>> /\ Strand

\* Staging::restore: what was installed goes, last first, then what was moved
\* comes back.
Restore ==
    /\ at = "restore"
    /\ \/ /\ Fine /\ installed # <<>>
          /\ disk' = [disk EXCEPT ![Last(installed)] = NoFile]
          /\ installed' = Front(installed)
          /\ UNCHANGED <<stages, at, run, pending, previous, sequence, moved, result, outcome, before>>
       \/ /\ Fine /\ installed = <<>> /\ moved # <<>>
          /\ disk' = [disk EXCEPT ![Last(moved)] = Stage.backup[Last(moved)]]
          /\ stages' = [stages EXCEPT ![sequence].backup[Last(moved)] = NoFile]
          /\ moved' = Front(moved)
          /\ UNCHANGED <<at, run, pending, previous, sequence, installed, result, outcome, before>>
       \/ installed = <<>> /\ moved = <<>> /\ Fine /\ Leave("failed")
       \/ (installed # <<>> \/ moved # <<>>) /\ Strand

\* Drop for Staging: the directory goes; an error is ignored and it stays.
DropStage ==
    /\ at = "drop"
    /\ outcome' = result /\ at' = "idle"
    /\ \/ Fine /\ stages' = [stages EXCEPT ![sequence] = NoStage]
       \/ Faulty /\ UNCHANGED stages
    /\ UNCHANGED <<disk, run, pending, previous, sequence, moved, installed, result, before>>

\* The process dies; nothing is dropped.
Crash ==
    /\ at # "idle"
    /\ Faulty /\ outcome' = "crashed" /\ at' = "idle"
    /\ UNCHANGED <<disk, stages, run, pending, previous, sequence, moved, installed, result, before>>

Init ==
    /\ disk \in [Path -> {NoFile, Note, Case(0, "old")}]
    /\ stages = [i \in Slots |-> NoStage]
    /\ at = "idle" /\ run = 0 /\ sequence = 0
    /\ pending = <<>> /\ previous = <<>> /\ moved = <<>> /\ installed = <<>>
    /\ result = "none" /\ outcome = "none" /\ faults = 0
    /\ before = disk

Work ==
    Inspect \/ StagingNew \/ WriteCase \/ Announce \/ BackUp \/ Install \/ Published \/ Restore \/ DropStage

Next == Analyse \/ Work \/ Crash

\* A started run is scheduled by the operating system until it ends.
Spec == Init /\ [][Next]_vars /\ WF_vars(Work)

-----------------------------------------------------------------------------

\* "Only files carrying its generated ownership marker are replaced or
\* removed": whatever fails, a user's note is there and unchanged.
NotesKept == \A p \in Path : disk[p] = Note => disk'[p] = Note

\* A run that succeeds leaves exactly its own cases beside the notes, whatever
\* earlier runs left behind, stale cases of check/ included; a failure that was
\* handled leaves every file as the run found it.
AllOrNothing ==
    /\ outcome = "ok" =>
          \A p \in Path :
             IF p[1] = "errors" /\ p[2] \in DOMAIN pending THEN disk[p] = Case(run, pending[p[2]])
             ELSE disk[p] = IF before[p] = Note THEN Note ELSE NoFile
    /\ outcome = "failed" => disk = before

\* Until a run has succeeded no case that it found is lost: it is in place or
\* in a backup, after a failed rollback and after a crash too.
NothingLost ==
    outcome \notin {"none", "ok"} /\ (at = "drop" => result # "ok") =>
        \A p \in Path : before[p] \in Cases =>
            disk[p] = before[p] \/ \E i \in Slots : stages[i] # NoStage /\ stages[i].backup[p] = before[p]

=============================================================================
