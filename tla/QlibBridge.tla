----------------------------- MODULE QlibBridge -----------------------------
(***************************************************************************)
(* Evaluation runs handed to the QLIB worker as files.  The service writes *)
(* a package into an inbox directory, a worker (a process of its own, run  *)
(* by hand or as a daemon) copies it, computes and writes an outbox        *)
(* directory, and the service imports that into the row of the run.        *)
(* Nothing is locked: what keeps the parties apart is the order in which   *)
(* files are written.                                                      *)
(***************************************************************************)
EXTENDS Naturals, Sequences

CONSTANTS
    QlibRuns,      \* runs, by the order of their ids: natural numbers
    QlibWorkers    \* worker processes

ASSUME QlibAssumption == QlibRuns \subseteq Nat \ {0}

VARIABLES
    qrow,     \* status of the QlibEvalRunDB row
    imported,   \* the panel behind the row's result_json
    scored,   \* the panel behind the newest QlibEvalMetricsDB row of the run
    sub,      \* where submit_bridge_job is
    inbox,    \* the files of inbox/<run>, or NoDir
    proc,     \* the files of processing/<run>, or NoDir
    outbox,   \* the files of outbox/<run>
    qat,      \* where a worker is; in the outbox: the file it last wrote or writes
    openers,   \* the workers that have opened a file and not written it yet
    task,     \* the run a worker processes
    panel,    \* what a worker read
    doubled   \* history: runs that two workers processed at a time

qlibVars == <<qrow, imported, scored, sub, inbox, proc, outbox, qat, openers, task, panel,
              doubled>>

rowVars == <<qrow, imported, scored>>
fileVars == <<inbox, proc, outbox>>
workerVars == <<qat, openers, task, panel, doubled>>

\* The row of a run by its status, and the newest row of its metrics.
RunRows == {"none", "queued", "failed", "completed"}
MetricsRows == {"none", "part", "whole"}

\* A file is "none", "torn" while it is written, "whole", or the value of a status;
\* what was computed from a torn panel is "part".
NoDir == [csv |-> "no", manifest |-> "no", status |-> "no"]
EmptyDir == [csv |-> "none", manifest |-> "none", status |-> "none"]
NoOutbox == [metrics |-> "none", model_card |-> "none", summary |-> "none",
             predictions |-> "none", status |-> "none"]

QlibInit ==
    /\ qrow = [r \in QlibRuns |-> "none"]
    /\ imported = [r \in QlibRuns |-> "none"] /\ scored = [r \in QlibRuns |-> "none"]
    /\ sub = [r \in QlibRuns |-> "new"]
    /\ inbox = [r \in QlibRuns |-> NoDir] /\ proc = [r \in QlibRuns |-> NoDir]
    /\ outbox = [r \in QlibRuns |-> NoOutbox]
    /\ qat = [w \in QlibWorkers |-> "poll"] /\ openers = {} /\ task = [w \in QlibWorkers |-> 0]
    /\ panel = [w \in QlibWorkers |-> "none"] /\ doubled = {}

-----------------------------------------------------------------------------
(* Submission *)

\* The row is committed, and the panel is built from reports.
SubmitRun(r) ==
    /\ sub[r] = "new" /\ sub' = [sub EXCEPT ![r] = "building"]
    /\ qrow' = [qrow EXCEPT ![r] = "queued"]
    /\ UNCHANGED <<imported, scored, fileVars, workerVars>>

\* The panel is not empty: the directory is made.
MakeInbox(r) ==
    /\ sub[r] = "building" /\ sub' = [sub EXCEPT ![r] = "files"]
    /\ inbox' = [inbox EXCEPT ![r] = EmptyDir]
    /\ UNCHANGED <<rowVars, proc, outbox, workerVars>>

\* The manifest is written before the panel.
PanelLast == <<"manifest", "csv", "status">>

\* The order of the files: the panel, what describes it, the status.
SubmitOrder == <<"csv", "manifest", "status">>

\* A file is opened, which empties it; then its contents are there.
OpenFile(files, f) == [files EXCEPT ![f] = "torn"]
CloseFile(files, f, contents) == [files EXCEPT ![f] = contents]

submit_inbox_package(r) ==
    /\ sub[r] = "files"
    /\ \E n \in 1..3 :
        LET f == SubmitOrder[n]
        IN  /\ \A m \in 1..(n - 1) : inbox[r][SubmitOrder[m]] \notin {"none", "torn"}
            /\ \/ inbox[r][f] = "none" /\ inbox' = [inbox EXCEPT ![r] = OpenFile(@, f)]
                  /\ UNCHANGED sub
               \/ inbox[r][f] = "torn"
                  /\ inbox' = [inbox EXCEPT ![r] =
                         CloseFile(@, f, IF f = "status" THEN "pending" ELSE "whole")]
                  /\ sub' = [sub EXCEPT ![r] = IF f = "status" THEN "filed" ELSE @]
    /\ UNCHANGED <<rowVars, proc, outbox, workerVars>>

\* The row is written once more, whatever was imported in between.
SubmitFiled(r) ==
    /\ sub[r] = "filed" /\ sub' = [sub EXCEPT ![r] = "over"]
    /\ qrow' = [qrow EXCEPT ![r] = "queued"] /\ imported' = [imported EXCEPT ![r] = "none"]
    /\ UNCHANGED <<scored, fileVars, workerVars>>

\* The panel is empty, an exception is raised, or the service dies; the files stay.
SubmitEnds(r) ==
    /\ sub[r] \in {"building", "files", "filed"} /\ sub' = [sub EXCEPT ![r] = "over"]
    /\ \E dies \in BOOLEAN : qrow' = IF dies THEN qrow ELSE [qrow EXCEPT ![r] = "failed"]
    /\ UNCHANGED <<imported, scored, fileVars, workerVars>>

-----------------------------------------------------------------------------
(* The worker *)

\* A directory without a status, or with one that cannot be read, is pending.
PendingInbox == {r \in QlibRuns : inbox[r].status \in {"none", "torn", "pending"}}

Take(w, r) ==
    /\ task' = [task EXCEPT ![w] = r] /\ qat' = [qat EXCEPT ![w] = "copy"]
    /\ doubled' = IF \E v \in QlibWorkers \ {w} : task[v] = r THEN doubled \cup {r} ELSE doubled
    /\ UNCHANGED <<rowVars, sub, fileVars, openers, panel>>

\* The first pending run; or, with --run-id, the one asked for.
Poll(w) ==
    /\ qat[w] = "poll" /\ PendingInbox # {}
    /\ Take(w, CHOOSE r \in PendingInbox : \A s \in PendingInbox : r <= s)

RunById(w) ==
    /\ qat[w] = "poll"
    /\ \E r \in QlibRuns : inbox[r] # NoDir /\ Take(w, r)

\* An earlier copy is removed, the files are listed, and then copied.
CopyStarts(w) ==
    /\ qat[w] = "copy" /\ qat' = [qat EXCEPT ![w] = "copying"]
    /\ proc' = [proc EXCEPT ![task[w]] =
           [f \in {"csv", "manifest", "status"} |->
               IF inbox[task[w]][f] = "none" THEN "none" ELSE "torn"]]
    /\ UNCHANGED <<rowVars, sub, inbox, outbox, openers, task, panel, doubled>>

CopyEnds(w) ==
    /\ qat[w] = "copying" /\ qat' = [qat EXCEPT ![w] = "read"]
    /\ proc[task[w]] # NoDir
    /\ proc' = [proc EXCEPT ![task[w]] =
           [f \in {"csv", "manifest", "status"} |->
               CASE f = "status" -> "processing"
                 [] f # "status" /\ @[f] = "none" -> "none"
                 [] OTHER -> inbox[task[w]][f]]]
    /\ UNCHANGED <<rowVars, sub, inbox, outbox, openers, task, panel, doubled>>

\* The manifest and the panel are read and the experiment is run: on what is
\* there, for a panel cut short is still a panel.
Experiment(w) ==
    /\ qat[w] = "read" /\ proc[task[w]].manifest = "whole" /\ proc[task[w]].csv \in {"torn", "whole"}
    /\ panel' = [panel EXCEPT ![w] = IF proc[task[w]].csv = "whole" THEN "whole" ELSE "part"]
    /\ \E outcome \in {"write", "failed"} : qat' = [qat EXCEPT ![w] = outcome]
    /\ UNCHANGED <<rowVars, sub, fileVars, openers, task, doubled>>

OutOrder == <<"metrics", "model_card", "summary", "predictions", "status">>

OutContents(w, f) == IF f = "status" THEN "completed" ELSE panel[w]

\* The files of the outbox, one after the other.
WriteOutbox(w) ==
    /\ \E n \in 1..5 :
        LET f == OutOrder[n]
        IN  \/ /\ w \notin openers /\ openers' = openers \cup {w}
               /\ qat[w] = (IF n = 1 THEN "write" ELSE OutOrder[n - 1])
               /\ qat' = [qat EXCEPT ![w] = f]
               /\ outbox' = [outbox EXCEPT ![task[w]] = OpenFile(@, f)]
            \/ /\ w \in openers /\ openers' = openers \ {w} /\ qat[w] = f /\ UNCHANGED qat
               /\ outbox' = [outbox EXCEPT ![task[w]] = CloseFile(@, f, OutContents(w, f))]
    /\ UNCHANGED <<rowVars, sub, inbox, proc, task, panel, doubled>>

WorkerIdle(w) ==
    /\ qat' = [qat EXCEPT ![w] = "poll"] /\ task' = [task EXCEPT ![w] = 0]
    /\ panel' = [panel EXCEPT ![w] = "none"] /\ openers' = openers \ {w}

\* The inbox is marked last, and the copy removed.
MarkCompleted(w) ==
    /\ qat[w] = "status" /\ w \notin openers
    /\ inbox' = [inbox EXCEPT ![task[w]].status = "completed"]
    /\ qat' = [qat EXCEPT ![w] = "clean"]
    /\ UNCHANGED <<rowVars, sub, proc, outbox, openers, task, panel, doubled>>

RemoveCopy(w) ==
    /\ qat[w] = "clean" /\ proc' = [proc EXCEPT ![task[w]] = NoDir]
    /\ WorkerIdle(w)
    /\ UNCHANGED <<rowVars, sub, inbox, outbox, doubled>>

\* A failed experiment leaves the copy where it is.
FailOutbox(w) ==
    /\ qat[w] = "failed" /\ qat' = [qat EXCEPT ![w] = "mark"]
    /\ outbox' = [outbox EXCEPT ![task[w]].status = "failed"]
    /\ UNCHANGED <<rowVars, sub, inbox, proc, openers, task, panel, doubled>>

MarkFailed(w) ==
    /\ qat[w] = "mark"
    /\ inbox' = [inbox EXCEPT ![task[w]].status = "failed"]
    /\ WorkerIdle(w)
    /\ UNCHANGED <<rowVars, sub, proc, outbox, doubled>>

\* An exception (no manifest, a copy that another worker removed) ends the process,
\* as a kill does; another one is started.
WorkerDies(w) ==
    /\ task[w] # 0 /\ WorkerIdle(w)
    /\ UNCHANGED <<rowVars, sub, fileVars, doubled>>

-----------------------------------------------------------------------------
(* Import *)

validate_outbox(r) ==
    \A f \in {"metrics", "model_card", "summary", "status"} : outbox[r][f] # "none"

\* An outbox by its id, whatever its status says, or one of those whose status is
\* "completed" (of which it stays one for ever).  A torn file raises.
\* The metrics of the run get a row as well, one at each import.
import_bridge_result(r) ==
    /\ validate_outbox(r)
    /\ outbox[r].metrics # "torn" /\ outbox[r].model_card # "torn"
    /\ qrow' = [qrow EXCEPT ![r] = "completed"]
    /\ imported' = [imported EXCEPT ![r] = outbox[r].metrics]
    /\ scored' = [scored EXCEPT ![r] = imported'[r]]
    /\ UNCHANGED <<sub, fileVars, workerVars>>

QlibNext ==
    \/ \E r \in QlibRuns :
        \/ SubmitRun(r) \/ MakeInbox(r) \/ submit_inbox_package(r) \/ SubmitFiled(r) \/ SubmitEnds(r)
        \/ import_bridge_result(r)
    \/ \E w \in QlibWorkers :
        \/ Poll(w) \/ RunById(w) \/ CopyStarts(w) \/ CopyEnds(w) \/ Experiment(w) \/ WriteOutbox(w)
        \/ MarkCompleted(w) \/ RemoveCopy(w) \/ FailOutbox(w) \/ MarkFailed(w) \/ WorkerDies(w)

QlibSpec == QlibInit /\ [][QlibNext]_qlibVars

-----------------------------------------------------------------------------
(* Properties *)

\* The type of the bridge's state.
QlibTypeOK ==
    /\ qrow \in [QlibRuns -> RunRows]
    /\ imported \in [QlibRuns -> MetricsRows]
    /\ scored \in [QlibRuns -> {"none", "part", "whole"}]
    /\ sub \in [QlibRuns -> {"new", "building", "files", "filed", "over"}]
    /\ \A r \in QlibRuns :
           /\ inbox[r].csv \in {"no", "none", "torn", "whole"}
           /\ outbox[r].metrics \in {"none", "torn", "part", "whole"}
           /\ inbox[r].status \in {"no", "none", "torn", "pending", "completed", "failed"}
           /\ outbox[r].status \in {"none", "torn", "completed", "failed"}
    /\ task \in [QlibWorkers -> QlibRuns \cup {0}]
    /\ openers \subseteq QlibWorkers
    /\ panel \in [QlibWorkers -> {"none", "part", "whole"}] /\ doubled \subseteq QlibRuns

\* What is imported was computed from the whole panel and left nothing out,
\* although workers take packages that are still being written, die at any point
\* and process a run again, and imports do not wait for them - unless two workers
\* had the run at a time.
CompletedFromWhole ==
    \A r \in QlibRuns \ doubled :
        /\ scored[r] \in {"none", "whole"}
        /\ qrow[r] = "completed" =>
               /\ imported[r] = "whole"
               /\ \A f \in {"model_card", "summary"} : outbox[r][f] \in {"torn", "whole"}
=============================================================================
