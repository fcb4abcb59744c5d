------------------------ MODULE FinalizeFilesProofs ------------------------
(***************************************************************************)
(* Theorems about FinalizeFiles, for either mode or both and for any file  *)
(* operations that may fail.                                               *)
(*                                                                         *)
(* That the video is somewhere is not inductive: what the next step leaves *)
(* of it depends on which of the files has it.  The invariant says at each *)
(* point of FinalizeTranscode which file that is: the input until it is    *)
(* set aside, then the temporary file and, in keep mode, the one with .old,*)
(* until the copy is complete; and what a crash leaves of the temporary    *)
(* file is never touched again.                                            *)
(***************************************************************************)
EXTENDS FinalizeFiles, TLAPS

\* Before the original is set aside, and after it is set aside.
Before == {"idle", "encoding", "stat", "cleanup"}
Aside  == {"create", "copy", "restore", "unlink", "record"}

\* What is where at each point: the temporary file, the input that was set aside, the
\* final file, and the mode the way back depends on.
FollowsSteps ==
    /\ pc = "idle" <=> job # "running"
    /\ pc \in {"idle", "record"} => fs["temp"] = None
    /\ pc \in {"encoding", "stat"} => Holds("input")
    /\ pc = "encoding" => fs["temp"] = "part"
    /\ pc = "stat" => fs["temp"] = Encoded(fs["input"])
    /\ pc \in {"create", "copy", "restore", "unlink"} => fs["temp"] \in {"output", "reencoded", "broken"}
    /\ pc = "unlink" => fs[Final] = fs["temp"]
    /\ pc \in Aside /\ ~sameName => fs["input"] = None
    /\ pc \in {"create", "copy"} /\ mode = "replace" => "removed" \in harm
    /\ "copy_failed" \in harm => "removed" \in harm

\* The input is whole, or the final file of another name that took its place.
Remains == fs["input"] \in Whole \/ (~sameName /\ fs["input"] = None /\ fs["final"] \in Whole)

\* Where the video is, unless a copy or the way back has failed.
VideoSurvives ==
    harm \cap {"copy_failed", "restore_failed"} = {} =>
        \/ stray \cap Whole # {}
        \/ /\ pc \in Before => Remains
           /\ pc \in {"create", "copy", "restore"} => fs["temp"] \in Whole
           /\ pc = "restore" \/ (pc \in {"create", "copy"} /\ mode = "keep") => fs["old"] \in Whole
           /\ pc \in {"unlink", "record"} => fs[Final] \in Whole

\* Where the original is.
OriginalStays ==
    harm \cap {"removed", "restore_failed", "crashed"} = {} =>
        IF pc \in Aside \/ job = "complete" THEN fs["old"] = "original"
        ELSE fs["input"] = "original" /\ fs["old"] = None

\* Where the output is on its way to the place of the original.
OutputArrives ==
    harm \subseteq {"removed"} =>
        /\ pc \in Before /\ job # "complete" => fs["input"] = "original" /\ harm = {}
        /\ pc = "restore" \/ (pc \in {"create", "copy"} /\ mode = "keep") => harm = {}
        /\ pc \in {"create", "copy", "restore", "unlink"} => fs["temp"] = "output"
        /\ pc = "record" \/ job = "complete" => fs[Final] = "output"

FilesIInv == TypeOK /\ FollowsSteps /\ VideoSurvives /\ OriginalStays /\ OutputArrives

-----------------------------------------------------------------------------
\* What ffmpeg makes of a whole video is whole, of the original it is the output.
LEMMA EncodedFacts ==
    /\ \A c \in Content \ {None} : /\ Encoded(c) \in {"output", "reencoded", "broken"}
                                   /\ c \in Whole => Encoded(c) \in Whole
    /\ Encoded("original") = "output"
  BY DEF Encoded, Content, None, Whole

\* The removal of the temporary file, whether it works or not.
LEMMA RemovesTempFacts ==
    ASSUME TypeOK, RemovesTemp
    PROVE  /\ fs' \in [Path -> Content]
           /\ fs'["temp"] = None
           /\ \A p \in Path \ {"temp"} : fs'[p] = fs[p]
           /\ stray \subseteq stray' /\ stray' \subseteq Content \ {None}
  BY DEF RemovesTemp, With, TypeOK, Path, Content, None, Holds

\* A job whose file nothing has been done to yet.
LEMMA InitIInv == Init => FilesIInv
  <1> SUFFICES ASSUME Init PROVE FilesIInv
    OBVIOUS
  <1> USE DEF Init
  <1>1. /\ fs \in [Path -> Content]
        /\ fs["input"] = "original" /\ fs["final"] = None /\ fs["old"] = None /\ fs["temp"] = None
    BY DEF Path, Content, None
  <1>2. TypeOK
    BY <1>1 DEF TypeOK, Holds
  <1>3. FollowsSteps
    BY <1>1 DEF FollowsSteps, Aside
  <1>4. VideoSurvives /\ OriginalStays /\ OutputArrives
    BY <1>1 DEF VideoSurvives, OriginalStays, OutputArrives, Remains, Whole, Before, Aside
  <1> QED BY <1>2, <1>3, <1>4 DEF FilesIInv

-----------------------------------------------------------------------------
\* Every step keeps the types.
LEMMA TypeStep == FilesIInv /\ [Next]_vars => TypeOK'
  <1> SUFFICES ASSUME FilesIInv, [Next]_vars PROVE TypeOK'
    OBVIOUS
  <1> USE FilesAssumptions DEF FilesIInv, TypeOK, With, Goes, Keeps, Holds, Path, Content, None
  <1>1. CASE Starts
    BY <1>1 DEF Starts
  <1>2. CASE Encodes
    <2>1. Encoded(fs["input"]) \in Content
      BY <1>2, EncodedFacts DEF Encodes, FollowsSteps
    <2> QED BY <1>2, <2>1 DEF Encodes
  <1>3. CASE GivesUp
    <2>1. Encoded(fs["input"]) \in Content
      BY <1>3, EncodedFacts DEF GivesUp, FollowsSteps
    <2> QED BY <1>3, <2>1 DEF GivesUp
  <1>4. CASE Interrupted \/ Unlinks \/ CleansUp
    BY <1>4, RemovesTempFacts DEF Interrupted, Unlinks, CleansUp
  <1>5. CASE SetsAside \/ StaysThere
    BY <1>5 DEF SetsAside, StaysThere
  <1>6. CASE CreatesFinal \/ Copies
    <2>1. PICK c \in {"part", fs["temp"]} : fs' = [fs EXCEPT ![Final] = c]
      BY <1>6 DEF CreatesFinal, Copies
    <2>2. c \in Content /\ Final \in Path
      BY <2>1 DEF Final
    <2>3. fs' \in [Path -> Content]
      BY <2>1, <2>2 DEF Final
    <2> QED BY <1>6, <2>3 DEF CreatesFinal, Copies
  <1>7. CASE CopyFails
    BY <1>7 DEF CopyFails
  <1>8. CASE Restores \/ RestoreFails
    BY <1>8 DEF Restores, RestoreFails
  <1>9. CASE Records \/ Retries
    BY <1>9 DEF Records, Retries, FollowsSteps
  <1>10. CASE Crash
    <2>1. fs' \in [Path -> Content] /\ fs'["temp"] = None
      BY <1>10 DEF Crash
    <2>2. stray' \subseteq Content \ {None}
      BY <1>10 DEF Crash
    <2>3. job' \in {"pending", "complete", "failed"} /\ pc' = "idle"
      BY <1>10 DEF Crash
    <2> QED BY <1>10, <2>1, <2>2, <2>3 DEF Crash
  <1>11. CASE UNCHANGED vars
    BY <1>11 DEF vars
  <1> QED BY <1>1, <1>2, <1>3, <1>4, <1>5, <1>6, <1>7, <1>8, <1>9, <1>10, <1>11 DEF Next

\* Every step finds the files where the point it starts from says.
LEMMA FollowsStep == FilesIInv /\ [Next]_vars => FollowsSteps'
  <1> SUFFICES ASSUME FilesIInv, [Next]_vars PROVE FollowsSteps'
    OBVIOUS
  <1>0. TypeOK /\ FollowsSteps
    BY DEF FilesIInv
  <1> USE <1>0 DEF FollowsSteps, With, Goes, Keeps, Holds, Aside, Final
  <1>t. fs \in [Path -> Content] /\ fs' \in [Path -> Content] /\ sameName \in BOOLEAN
    BY TypeStep DEF TypeOK
  <1>p. Path = {"input", "final", "old", "temp"}
    BY DEF Path
  <1>1. CASE Starts
    BY <1>1, <1>t, <1>p DEF Starts
  <1>2. CASE Encodes
    BY <1>2, <1>t, <1>p, EncodedFacts DEF Encodes
  <1>3. CASE GivesUp
    BY <1>3, <1>t, <1>p DEF GivesUp
  <1>4. CASE Interrupted \/ CleansUp
    BY <1>4, <1>t, <1>p, RemovesTempFacts DEF Interrupted, CleansUp
  <1>5. CASE Unlinks
    BY <1>5, <1>t, <1>p, RemovesTempFacts DEF Unlinks
  <1>6. CASE SetsAside
    BY <1>6, <1>t, <1>p, EncodedFacts DEF SetsAside
  <1>7. CASE StaysThere
    BY <1>7, <1>t, <1>p DEF StaysThere
  <1>8. CASE CreatesFinal
    BY <1>8, <1>t, <1>p DEF CreatesFinal
  <1>9. CASE Copies
    BY <1>9, <1>t, <1>p DEF Copies
  <1>10. CASE CopyFails
    <2>1. mode = "keep" \/ mode = "replace"
      BY FilesAssumptions DEF TypeOK
    <2> QED BY <1>10, <1>t, <1>p, <2>1 DEF CopyFails
  <1>11. CASE Restores \/ RestoreFails
    BY <1>11, <1>t, <1>p DEF Restores, RestoreFails
  <1>12. CASE Records \/ Retries
    BY <1>12, <1>t, <1>p DEF Records, Retries
  <1>13. CASE Crash
    BY <1>13, <1>t, <1>p DEF Crash
  <1>14. CASE UNCHANGED vars
    BY <1>14 DEF vars
  <1> QED BY <1>1, <1>2, <1>3, <1>4, <1>5, <1>6, <1>7, <1>8, <1>9, <1>10, <1>11, <1>12, <1>13, <1>14
          DEF Next

\* Neither a step, nor its failure, nor a crash takes away the last whole version,
\* unless it is noted as the harm of a copy or of a way back that failed.
LEMMA SurvivesStep == FilesIInv /\ [Next]_vars => VideoSurvives'
  <1> SUFFICES ASSUME FilesIInv, [Next]_vars,
                      harm' \cap {"copy_failed", "restore_failed"} = {},
                      stray' \cap Whole = {}
               PROVE  /\ pc' \in Before => Remains'
                      /\ pc' \in {"create", "copy", "restore"} => fs'["temp"] \in Whole
                      /\ pc' = "restore" \/ (pc' \in {"create", "copy"} /\ mode' = "keep") =>
                             fs'["old"] \in Whole
                      /\ pc' \in {"unlink", "record"} => fs'[Final'] \in Whole
    BY DEF VideoSurvives
  <1>m. harm \subseteq harm' /\ stray \subseteq stray'
    BY RemovesTempFacts
    DEF FilesIInv, Next, Keeps, Starts, Encodes, GivesUp, Interrupted, SetsAside, StaysThere,
        CreatesFinal, Copies, CopyFails, Restores, RestoreFails, Unlinks, Records, CleansUp,
        Retries, Crash, vars
  <1>v. /\ pc \in Before => Remains
        /\ pc \in {"create", "copy", "restore"} => fs["temp"] \in Whole
        /\ pc = "restore" \/ (pc \in {"create", "copy"} /\ mode = "keep") => fs["old"] \in Whole
        /\ pc \in {"unlink", "record"} => fs[Final] \in Whole
    BY <1>m DEF FilesIInv, VideoSurvives
  <1>f. FollowsSteps /\ TypeOK
    BY DEF FilesIInv
  <1>t. fs \in [Path -> Content] /\ fs' \in [Path -> Content] /\ sameName \in BOOLEAN
    BY TypeStep DEF FilesIInv, TypeOK
  <1>p. Path = {"input", "final", "old", "temp"} /\ "part" \notin Whole /\ None \notin Whole
    BY DEF Path, Whole, None
  <1> USE <1>v, <1>f, <1>t, <1>p
      DEF FollowsSteps, With, Goes, Keeps, Holds, Before, Aside, Final, Remains
  <1>1. CASE Starts
    BY <1>1 DEF Starts
  <1>2. CASE Encodes
    BY <1>2 DEF Encodes
  <1>3. CASE GivesUp
    BY <1>3 DEF GivesUp
  <1>4. CASE Interrupted \/ CleansUp
    BY <1>4, RemovesTempFacts DEF Interrupted, CleansUp
  <1>5. CASE Unlinks
    BY <1>5, RemovesTempFacts DEF Unlinks
  <1>6. CASE SetsAside
    BY <1>6, EncodedFacts DEF SetsAside
  <1>7. CASE StaysThere
    BY <1>7 DEF StaysThere
  <1>8. CASE CreatesFinal
    BY <1>8 DEF CreatesFinal
  <1>9. CASE Copies
    BY <1>9 DEF Copies
  <1>10. CASE CopyFails
    <2>1. mode = "keep"
      BY <1>10 DEF CopyFails
    <2> QED BY <1>10, <2>1 DEF CopyFails
  <1>11. CASE Restores
    BY <1>11 DEF Restores
  <1>12. CASE RestoreFails
    BY <1>12 DEF RestoreFails
  <1>13. CASE Records \/ Retries
    BY <1>13 DEF Records, Retries
  <1>14. CASE Crash
    <2>1. fs["temp"] \notin Whole
      BY <1>14 DEF Crash
    <2>2. pc \in Before \cup {"unlink", "record"}
      BY <2>1 DEF TypeOK
    <2> QED BY <1>14, <2>1, <2>2 DEF Crash
  <1>15. CASE UNCHANGED vars
    BY <1>15 DEF vars
  <1> QED BY <1>1, <1>2, <1>3, <1>4, <1>5, <1>6, <1>7, <1>8, <1>9, <1>10, <1>11, <1>12, <1>13,
             <1>14, <1>15 DEF Next

\* The original is set aside once, and comes back when the copy fails in keep mode.
LEMMA OriginalStep == FilesIInv /\ [Next]_vars => OriginalStays'
  <1> SUFFICES ASSUME FilesIInv, [Next]_vars,
                      harm' \cap {"removed", "restore_failed", "crashed"} = {}
               PROVE  IF pc' \in Aside \/ job' = "complete" THEN fs'["old"] = "original"
                      ELSE fs'["input"] = "original" /\ fs'["old"] = None
    BY DEF OriginalStays
  <1>m. harm \subseteq harm'
    BY DEF Next, Keeps, Starts, Encodes, GivesUp, Interrupted, SetsAside, StaysThere,
           CreatesFinal, Copies, CopyFails, Restores, RestoreFails, Unlinks, Records, CleansUp,
           Retries, Crash, vars
  <1>v. IF pc \in Aside \/ job = "complete" THEN fs["old"] = "original"
        ELSE fs["input"] = "original" /\ fs["old"] = None
    BY <1>m DEF FilesIInv, OriginalStays
  <1>f. FollowsSteps /\ TypeOK
    BY DEF FilesIInv
  <1>t. fs \in [Path -> Content] /\ fs' \in [Path -> Content] /\ sameName \in BOOLEAN
    BY TypeStep DEF FilesIInv, TypeOK
  <1>p. Path = {"input", "final", "old", "temp"}
    BY DEF Path
  <1> USE <1>v, <1>f, <1>t, <1>p DEF FollowsSteps, With, Goes, Keeps, Holds, Aside, Final
  <1>1. CASE Starts \/ Encodes \/ GivesUp
    BY <1>1 DEF Starts, Encodes, GivesUp
  <1>2. CASE Interrupted \/ CleansUp \/ Unlinks
    BY <1>2, RemovesTempFacts DEF Interrupted, CleansUp, Unlinks
  <1>3. CASE SetsAside \/ StaysThere
    BY <1>3 DEF SetsAside, StaysThere
  <1>4. CASE CreatesFinal \/ Copies
    BY <1>4 DEF CreatesFinal, Copies
  <1>5. CASE CopyFails
    <2>1. mode = "keep" \/ mode = "replace"
      BY FilesAssumptions DEF TypeOK
    <2> QED BY <1>5, <1>m, <2>1 DEF CopyFails
  <1>6. CASE Restores \/ RestoreFails
    BY <1>6 DEF Restores, RestoreFails
  <1>7. CASE Records \/ Retries
    BY <1>7 DEF Records, Retries
  <1>8. CASE Crash
    BY <1>8 DEF Crash
  <1>9. CASE UNCHANGED vars
    BY <1>9 DEF vars
  <1> QED BY <1>1, <1>2, <1>3, <1>4, <1>5, <1>6, <1>7, <1>8, <1>9 DEF Next

\* The output of the original itself goes where the original was.
LEMMA OutputStep == FilesIInv /\ [Next]_vars => OutputArrives'
  <1> SUFFICES ASSUME FilesIInv, [Next]_vars, harm' \subseteq {"removed"}
               PROVE  /\ pc' \in Before /\ job' # "complete" => fs'["input"] = "original" /\ harm' = {}
                      /\ pc' = "restore" \/ (pc' \in {"create", "copy"} /\ mode' = "keep") => harm' = {}
                      /\ pc' \in {"create", "copy", "restore", "unlink"} => fs'["temp"] = "output"
                      /\ pc' = "record" \/ job' = "complete" => fs'[Final'] = "output"
    BY DEF OutputArrives
  <1>m. harm \subseteq harm'
    BY DEF Next, Keeps, Starts, Encodes, GivesUp, Interrupted, SetsAside, StaysThere,
           CreatesFinal, Copies, CopyFails, Restores, RestoreFails, Unlinks, Records, CleansUp,
           Retries, Crash, vars
  <1>v. /\ pc \in Before /\ job # "complete" => fs["input"] = "original" /\ harm = {}
        /\ pc = "restore" \/ (pc \in {"create", "copy"} /\ mode = "keep") => harm = {}
        /\ pc \in {"create", "copy", "restore", "unlink"} => fs["temp"] = "output"
        /\ pc = "record" \/ job = "complete" => fs[Final] = "output"
    BY <1>m DEF FilesIInv, OutputArrives
  <1>f. FollowsSteps /\ TypeOK /\ OriginalStays
    BY DEF FilesIInv
  <1>t. fs \in [Path -> Content] /\ fs' \in [Path -> Content] /\ sameName \in BOOLEAN
    BY TypeStep DEF FilesIInv, TypeOK
  <1>p. Path = {"input", "final", "old", "temp"}
    BY DEF Path
  <1>k. mode = "keep" \/ mode = "replace"
    BY FilesAssumptions DEF FilesIInv, TypeOK
  <1> USE <1>v, <1>f, <1>t, <1>p DEF FollowsSteps, With, Goes, Keeps, Holds, Before, Aside, Final
  <1>1. CASE Starts \/ Encodes \/ GivesUp
    BY <1>1 DEF Starts, Encodes, GivesUp
  <1>2. CASE Interrupted \/ CleansUp
    BY <1>2, RemovesTempFacts DEF Interrupted, CleansUp
  <1>3. CASE Unlinks
    BY <1>3, RemovesTempFacts DEF Unlinks
  <1>4. CASE SetsAside \/ StaysThere
    BY <1>4, <1>k, EncodedFacts DEF SetsAside, StaysThere
  <1>5. CASE CreatesFinal \/ Copies
    BY <1>5 DEF CreatesFinal, Copies
  <1>6. CASE CopyFails
    BY <1>6, <1>k DEF CopyFails
  <1>7. CASE Restores
    <2>1. harm = {}
      BY <1>7 DEF Restores
    <2>2. fs["old"] = "original"
      BY <1>7, <2>1 DEF Restores, OriginalStays
    <2> QED BY <1>7, <2>1, <2>2 DEF Restores
  <1>8. CASE RestoreFails
    BY <1>8 DEF RestoreFails
  <1>9. CASE Records \/ Retries
    BY <1>9 DEF Records, Retries
  <1>10. CASE Crash
    BY <1>10 DEF Crash
  <1>11. CASE UNCHANGED vars
    BY <1>11 DEF vars
  <1> QED BY <1>1, <1>2, <1>3, <1>4, <1>5, <1>6, <1>7, <1>8, <1>9, <1>10, <1>11 DEF Next

-----------------------------------------------------------------------------
\* Where the versions of the video are at each point, through failures, retries and
\* crashes, in either mode.
THEOREM FilesInductiveInvariant == Spec => []FilesIInv
  <1>1. FilesIInv /\ [Next]_vars => FilesIInv'
    BY TypeStep, FollowsStep, SurvivesStep, OriginalStep, OutputStep DEF FilesIInv
  <1> QED BY <1>1, InitIInv, PTL DEF Spec

\* The types hold, and between attempts nothing runs and no temporary file is there.
THEOREM FilesTypeCorrect == Spec => []TypeOK
  BY FilesInductiveInvariant, PTL DEF FilesIInv

\* As long as the copy works, or in keep mode the way back, the video is somewhere.
THEOREM NothingLostCorrect == Spec => []NothingLost
  <1>1. FilesIInv => NothingLost
    <2> SUFFICES ASSUME FilesIInv, harm \cap {"copy_failed", "restore_failed"} = {},
                        stray \cap Whole = {}
                 PROVE  \E p \in Path : fs[p] \in Whole
      BY DEF NothingLost
    <2>1. Final \in Path /\ {"input", "final", "temp"} \subseteq Path
      BY DEF Final, Path
    <2>2. \/ pc \in Before /\ Remains
          \/ fs["temp"] \in Whole
          \/ fs[Final] \in Whole
      BY DEF FilesIInv, TypeOK, VideoSurvives, Before
    <2> QED BY <2>1, <2>2 DEF Remains
  <1> QED BY <1>1, FilesInductiveInvariant, PTL

\* Until replace mode removes it, and unless a crash or a failed renaming comes between,
\* the original is at its path or at .old.
THEOREM KeepsOriginalCorrect == Spec => []KeepsOriginal
  <1>1. FilesIInv => KeepsOriginal
    BY DEF FilesIInv, OriginalStays, KeepsOriginal
  <1> QED BY <1>1, FilesInductiveInvariant, PTL

\* A job that did not complete has left its file as it was.
THEOREM FailedIsUntouchedCorrect == Spec => []FailedIsUntouched
  <1>1. FilesIInv => FailedIsUntouched
    BY DEF FilesIInv, FollowsSteps, OriginalStays, FailedIsUntouched, Aside
  <1> QED BY <1>1, FilesInductiveInvariant, PTL

\* A job recorded complete has put a whole output in place.
THEOREM CompleteIsWholeCorrect == Spec => []CompleteIsWhole
  <1>1. FilesIInv => CompleteIsWhole
    BY DEF FilesIInv, OutputArrives, CompleteIsWhole
  <1> QED BY <1>1, FilesInductiveInvariant, PTL
=============================================================================
