--------------------------- MODULE FinalizeFiles ---------------------------
(***************************************************************************)
(* The files of one job: Transcode and FinalizeTranscode of                *)
(* internal/ffmpeg/transcode.go and CopyFile of internal/util/file.go, one *)
(* file operation at a time, as Worker.processJob calls them, with         *)
(* operations that fail, crashes of the program at any step, restarts and  *)
(* retries.  WorkerPool has one step, Place, for what is here from the     *)
(* decision for a mode to the removal of the temporary file.               *)
(*                                                                         *)
(* Data.  Of the content of a file only its making matters: Encoded.  The  *)
(* temporary file of an attempt has a random name, so what a crash leaves  *)
(* of it is never written or removed again: it goes to stray.  The status  *)
(* of the job is that in the database, which DurableQueue keeps in step    *)
(* with memory; failed stands for skipped and cancelled too.  That a user  *)
(* adds the file again as another job is not modelled.                     *)
(***************************************************************************)
CONSTANTS
    Modes,      \* what a user sets original_handling to, "replace" or "keep"
    Failing     \* the file operations that may fail

ASSUME FilesAssumptions == Modes \subseteq {"replace", "keep"} /\ Modes # {}

VARIABLES
    fs,         \* [Path -> Content]
    stray,      \* the contents of temporary files left by crashes
    sameName,   \* BOOLEAN: the final path is the path of the input
    mode,       \* the mode finalizeJob read from the configuration
    job,        \* the status of the job
    pc,         \* where the worker is
    harm        \* what has happened to the files (history variable)

vars == <<fs, stray, sameName, mode, job, pc, harm>>

Path    == {"input", "final", "old", "temp"}
None    == "none"
Content == {None, "original", "part", "output", "reencoded", "broken"}
Final   == IF sameName THEN "input" ELSE "final"

\* What ffmpeg makes of a file.
Encoded(c) ==
    CASE c = "original" -> "output"
      [] c \in {"output", "reencoded"} -> "reencoded"
      [] c \in {"part", "broken"} -> "broken"

Holds(p) == fs[p] # None
With(p, c) == fs' = [fs EXCEPT ![p] = c]
Goes(from, to) == pc = from /\ pc' = to
Keeps(jobAndHarm) == UNCHANGED <<stray, sameName, jobAndHarm>>

\* The temporary file is removed; if that fails it stays, and nobody comes back to it.
RemovesTemp ==
    /\ With("temp", None)
    /\ \/ UNCHANGED stray
       \/ /\ "unlink" \in Failing /\ Holds("temp")
          /\ stray' = stray \cup {fs["temp"]}

Init ==
    /\ fs = [p \in Path |-> IF p = "input" THEN "original" ELSE None]
    /\ stray = {}
    /\ sameName \in BOOLEAN
    /\ mode \in Modes
    /\ job = "pending"
    /\ pc = "idle"
    /\ harm = {}

-----------------------------------------------------------------------------
(* Transcode.                                                              *)

\* StartJob; then ffmpeg creates its output, if there is an input.
Starts ==
    /\ job = "pending"
    /\ job' = "running"
    /\ \/ Holds("input") /\ Goes("idle", "encoding") /\ With("temp", "part")
       \/ ~Holds("input") /\ Goes("idle", "cleanup") /\ UNCHANGED fs
    /\ UNCHANGED <<stray, sameName, mode, harm>>

\* ffmpeg ends well, and finalizeJob goes on to the files in the mode set now.
Encodes ==
    /\ Goes("encoding", "stat")
    /\ With("temp", Encoded(fs["input"]))
    /\ mode' \in Modes
    /\ Keeps(<<job, harm>>)

\* ffmpeg fails, or the output is too large, or the job is cancelled: to be recorded
\* as such once the temporary file is removed.
GivesUp ==
    /\ Goes("encoding", "cleanup")
    /\ fs' \in {fs, [fs EXCEPT !["temp"] = Encoded(fs["input"])]}
    /\ Keeps(<<mode, job, harm>>)

\* Mutant: the temporary file is left behind.
InterruptedLeavingTemp ==
    /\ Goes("encoding", "idle")
    /\ job' = "pending"
    /\ UNCHANGED <<fs, stray, sameName, mode, harm>>

\* Pause: the temporary file is removed and the job waits again.
Interrupted ==
    /\ Goes("encoding", "idle")
    /\ RemovesTemp
    /\ job' = "pending"
    /\ UNCHANGED <<sameName, mode, harm>>

-----------------------------------------------------------------------------
(* FinalizeTranscode.                                                      *)

\* Mutant: the modes are swapped, the original is removed to keep it.
SetsAsideSwapped ==
    /\ Goes("stat", "create")
    /\ fs' = IF mode = "keep" THEN [fs EXCEPT !["input"] = None]
             ELSE [fs EXCEPT !["old"] = fs["input"], !["input"] = None]
    /\ harm' = IF mode = "replace" THEN harm \cup {"removed"} ELSE harm
    /\ UNCHANGED <<stray, sameName, mode, job>>

\* The original is removed, or renamed over whatever has the name with .old.
SetsAside ==
    /\ Goes("stat", "create")
    /\ fs' = IF mode = "replace" THEN [fs EXCEPT !["input"] = None]
             ELSE [fs EXCEPT !["old"] = fs["input"], !["input"] = None]
    /\ harm' = IF mode = "replace" THEN harm \cup {"removed"} ELSE harm
    /\ UNCHANGED <<stray, sameName, mode, job>>

\* The stat, the removal or the renaming fails.
StaysThere ==
    /\ "aside" \in Failing
    /\ Goes("stat", "cleanup")
    /\ UNCHANGED fs
    /\ Keeps(<<mode, job, harm>>)

\* CopyFile creates the final file, empty, or truncates the one there is.
CreatesFinal ==
    /\ Goes("create", "copy")
    /\ With(Final, "part")
    /\ Keeps(<<mode, job, harm>>)

\* Mutant: an error of io.Copy is not returned.
CopiesUnchecked ==
    /\ Goes("copy", "unlink")
    /\ fs' \in {fs, [fs EXCEPT ![Final] = fs["temp"]]}
    /\ Keeps(<<mode, job, harm>>)

Copies ==
    /\ Goes("copy", "unlink")
    /\ With(Final, fs["temp"])
    /\ Keeps(<<mode, job, harm>>)

\* The file cannot be created, or not be written to its end.
CopyFails ==
    /\ "copy" \in Failing
    /\ pc \in {"create", "copy"}
    /\ pc' = IF mode = "keep" THEN "restore" ELSE "cleanup"
    /\ harm' = IF mode = "keep" THEN harm ELSE harm \cup {"copy_failed"}
    /\ UNCHANGED <<fs, stray, sameName, mode, job>>

\* Mutant: the original is not renamed back.
RestoresNothing ==
    /\ Goes("restore", "cleanup")
    /\ UNCHANGED fs
    /\ Keeps(<<mode, job, harm>>)

Restores ==
    /\ Goes("restore", "cleanup")
    /\ fs' = [fs EXCEPT !["input"] = fs["old"], !["old"] = None]
    /\ Keeps(<<mode, job, harm>>)

RestoreFails ==
    /\ "restore" \in Failing
    /\ Goes("restore", "cleanup")
    /\ harm' = harm \cup {"restore_failed"}
    /\ UNCHANGED <<fs, stray, sameName, mode, job>>

Unlinks ==
    /\ Goes("unlink", "record")
    /\ RemovesTemp
    /\ UNCHANGED <<sameName, mode, job, harm>>

-----------------------------------------------------------------------------
(* The end of a job, and another try.                                      *)

\* CompleteJob.
Records ==
    /\ Goes("record", "idle")
    /\ job' = "complete"
    /\ UNCHANGED fs
    /\ Keeps(<<mode, harm>>)

\* finalizeJob removes the temporary file, and FailJob, SkipJob or CancelJob.
CleansUp ==
    /\ Goes("cleanup", "idle")
    /\ job' = "failed"
    /\ RemovesTemp
    /\ UNCHANGED <<sameName, mode, harm>>

\* RetryJob: a job that failed, if there is something to probe at its path.
Retries ==
    /\ pc = "idle" /\ job = "failed" /\ Holds("input")
    /\ job' = "pending"
    /\ UNCHANGED <<fs, mode, pc>>
    /\ Keeps(<<harm>>)

\* The program dies and is started again: ResetRunningJobs.
Crash ==
    /\ pc' = "idle"
    /\ job' = IF job = "running" THEN "pending" ELSE job
    /\ stray' = IF Holds("temp") THEN stray \cup {fs["temp"]} ELSE stray
    /\ With("temp", None)
    /\ harm' = harm \cup {"crashed"}
    /\ UNCHANGED <<sameName, mode>>

Next ==
    \/ Starts \/ Encodes \/ GivesUp \/ Interrupted
    \/ SetsAside \/ StaysThere \/ CreatesFinal \/ Copies \/ CopyFails
    \/ Restores \/ RestoreFails \/ Unlinks
    \/ Records \/ CleansUp \/ Retries \/ Crash

Spec == Init /\ [][Next]_vars

-----------------------------------------------------------------------------
(* Properties.                                                             *)

\* Types; and between attempts the job is not running and has no temporary file.
TypeOK ==
    /\ fs \in [Path -> Content]
    /\ stray \subseteq Content \ {None}
    /\ sameName \in BOOLEAN
    /\ mode \in Modes
    /\ job \in {"pending", "running", "complete", "failed"}
    /\ pc \in {"idle", "encoding", "stat", "create", "copy", "restore", "unlink",
               "record", "cleanup"}
    /\ harm \subseteq {"removed", "copy_failed", "restore_failed", "crashed"}
    /\ pc = "idle" => job # "running" /\ ~Holds("temp")

Whole == {"original", "output", "reencoded"}

\* The video is somewhere, whole, at every moment, be it only in the directory of
\* temporary files after a crash: the last whole version is never removed before the
\* next is complete, as long as the copy works, or in keep mode the way back.
NothingLost ==
    harm \cap {"copy_failed", "restore_failed"} = {} =>
        Whole \cap ({fs[p] : p \in Path} \cup stray) # {}

\* Until replace mode removes it the original itself is kept, at its path or beside
\* it with .old, whatever else fails and however often the user retries, unless the
\* program crashes or the renaming back fails.
KeepsOriginal ==
    harm \cap {"removed", "restore_failed", "crashed"} = {} =>
        "original" \in {fs["input"], fs["old"]}

\* A job that did not complete leaves its file as it was: FinalizeTranscode undoes
\* what it did when the copy fails in keep mode, and everything that may fail before
\* comes before it touches the file.
FailedIsUntouched ==
    job = "failed" /\ harm = {} => fs["input"] = "original" /\ fs["old"] = None

\* A job recorded complete has put a whole output in place.
CompleteIsWhole ==
    job = "complete" /\ harm \subseteq {"removed"} => fs[Final] = "output"

\* "keep = rename to .old": in keep mode the original is at its path or at .old.
OriginalIsKept ==
    Modes = {"keep"} => "original" \in {fs["input"], fs["old"]}
=============================================================================
