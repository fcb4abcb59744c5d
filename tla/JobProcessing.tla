--------------------------- MODULE JobProcessing ---------------------------
(***************************************************************************)
(* What a worker does with one job between claiming it and finalizing its  *)
(* files: buildTranscodeOpts with the analysis of a SmartShrink job        *)
(* (QualitySearch), then executeTranscode and tryEncoderFallbacks of       *)
(* internal/jobs/worker.go, each attempt with the command EncodeCommand    *)
(* builds.  WorkerPool has one step, Finalize, for all attempts.           *)
(*                                                                         *)
(* Any attempt may fail, and one whose command cannot run on the frames    *)
(* the decoder delivers does fail.  The user may cancel at any time.       *)
(* Remux jobs encode nothing and are left out.                             *)
(***************************************************************************)
EXTENDS EncodeCommand, QualitySearch

CONSTANTS
    Machines,       \* the sets of encoders that may be usable
    Videos,         \* the sources a job may have
    SourceKbps,     \* their bit rates, 0 for not known
    UserQuality     \* the CRF set in the configuration, 0 for none

ASSUME MachinesAssumption ==
    /\ Machines \subseteq SUBSET HWAccel
    /\ Videos \subseteq Video
    /\ UserQuality \in Nat

VARIABLES
    usable,     \* the encoders DetectEncoders found
    job,        \* the source: video, hdr ("no", "keep" or "tonemap"), short, kbps
    preset,     \* encoder, codec, resize (BOOLEAN), smart (BOOLEAN)
    stage,      \* "new", "analyzing", "encoding" or "done"
    opts,       \* the options of the attempt that runs or ran last
    tried,      \* how often each encoder was tried with each decoder, as
                \* far as 2 (history variable)
    cancelled,  \* BOOLEAN: jobCtx is cancelled
    outcome     \* "none", "encoded", "failed", "skipped" or "cancelled"

jobvars == <<usable, job, preset>>
vars    == <<searchvars, jobvars, stage, opts, tried, cancelled, outcome>>

Attempts == HWAccel \X BOOLEAN      \* encoder and softwareDecode

\* InitPresets: a preset has the best encoder for its codec.
Presets(found) ==
    {[encoder |-> GetBestEncoder(found), codec |-> c, resize |-> r, smart |-> s] :
        c \in Codec, r \in BOOLEAN, s \in BOOLEAN}

\* The downscale presets are HEVC, and a SmartShrink preset does not scale.
IsPreset(p) == p.resize => p.codec = "hevc" /\ ~p.smart

NoOpts == [encoder |-> "none", codec |-> "hevc", softwareDecode |-> FALSE, tonemap |-> FALSE,
           resize |-> FALSE, quality |-> 0, mod |-> 0, kbps |-> 0]

Init ==
    /\ usable \in Machines
    /\ preset \in {p \in Presets(usable) : IsPreset(p)}
    /\ job \in [video : Videos, hdr : {"no", "keep", "tonemap"}, short : BOOLEAN, kbps : SourceKbps]
    /\ SearchInit
    /\ stage = "new"
    /\ opts = NoOpts
    /\ tried = [a \in Attempts |-> 0]
    /\ cancelled = FALSE
    /\ outcome = "none"

Done(how) == stage' = "done" /\ outcome' = how

-----------------------------------------------------------------------------
(* The analysis.                                                           *)

\* runSmartShrinkAnalysis: HDR and short files are not analyzed.
AnalysisSkips ==
    /\ stage = "new" /\ preset.smart
    /\ job.hdr # "no" \/ job.short
    /\ Done("skipped")
    /\ UNCHANGED <<searchvars, jobvars, opts, tried, cancelled>>

\* GetQualityRange.
QualityRange(accel, codec) ==
    IF accel \in UsesBitrate
    THEN [bitrate |-> TRUE, best |-> ModRange(codec).max, smallest |-> ModRange(codec).min]
    ELSE [bitrate |-> FALSE, best |-> CrfRange(codec).min, smallest |-> CrfRange(codec).max]

AnalysisBegins ==
    /\ stage = "new" /\ preset.smart
    /\ job.hdr = "no" /\ ~job.short
    /\ BeginSearch(QualityRange(preset.encoder, preset.codec))
    /\ stage' = "analyzing"
    /\ UNCHANGED <<jobvars, opts, tried, cancelled, outcome>>

\* Analyze: one more quality is encoded and scored.
Analyzes ==
    /\ stage = "analyzing" /\ ~cancelled
    /\ \E score \in Scores : ScoreCRF(score) \/ ScoreModifier(score)
    /\ UNCHANGED <<jobvars, stage, opts, tried, cancelled, outcome>>

\* ffmpeg fails, as it does when it is killed.
AnalysisBreaks ==
    /\ stage = "analyzing"
    /\ SearchFails
    /\ UNCHANGED <<jobvars, stage, opts, tried, cancelled, outcome>>

\* No quality is good enough, or the analysis failed.
AnalysisEnds ==
    /\ stage = "analyzing"
    /\ \/ search = "impossible" /\ Done("skipped")
       \/ search = "failed" /\ Done(IF cancelled THEN "cancelled" ELSE "failed")
    /\ UNCHANGED <<searchvars, jobvars, opts, tried, cancelled>>

-----------------------------------------------------------------------------
(* The attempts.                                                           *)

\* Mutant: the CRF that was selected is not passed on.
OptsUnselected ==
    [encoder |-> preset.encoder, codec |-> preset.codec,
     softwareDecode |-> RequiresSoftwareDecode(job.video, preset.encoder),
     tonemap |-> job.hdr = "tonemap", resize |-> preset.resize, kbps |-> job.kbps,
     quality |-> UserQuality,
     mod |-> IF search = "found" /\ scale.bitrate THEN quality ELSE 0]

\* buildTranscodeOpts: what the search selected goes before what the user set.
Opts ==
    [encoder |-> preset.encoder, codec |-> preset.codec,
     softwareDecode |-> RequiresSoftwareDecode(job.video, preset.encoder),
     tonemap |-> job.hdr = "tonemap", resize |-> preset.resize, kbps |-> job.kbps,
     quality |-> IF search = "found" /\ ~scale.bitrate THEN quality ELSE UserQuality,
     mod |-> IF search = "found" /\ scale.bitrate THEN quality ELSE 0]

Attempt(o) ==
    /\ opts' = o
    /\ stage' = "encoding"
    /\ tried' = [tried EXCEPT ![<<o.encoder, o.softwareDecode>>] = IF @ = 2 THEN 2 ELSE @ + 1]

\* executeTranscode; a context that is done makes Transcode return at once.
BeginsEncoding ==
    /\ \/ stage = "new" /\ ~preset.smart
       \/ stage = "analyzing" /\ search = "found"
    /\ \/ ~cancelled /\ Attempt(Opts) /\ UNCHANGED outcome
       \/ cancelled /\ Done("cancelled") /\ UNCHANGED <<opts, tried>>
    /\ UNCHANGED <<searchvars, jobvars, cancelled>>

\* Transcode ends well.  finalizeJob looks at the context first.
Encodes ==
    /\ stage = "encoding"
    /\ \E memory \in DecodedTo(opts) : CanRun(opts, memory)
    /\ Done(IF cancelled THEN "cancelled" ELSE "encoded")
    /\ UNCHANGED <<searchvars, jobvars, opts, tried, cancelled>>

\* shouldRetryWithSoftwareDecode.
ShouldRetryDecode(o) == ~o.softwareDecode /\ o.encoder # "none"

\* Mutant: the loop does not go on from the encoder that failed.
WithFirstFallback(o) ==
    LET next == GetFallbackEncoder(preset.encoder, usable)
    IN  [o EXCEPT !.encoder = next, !.softwareDecode = RequiresSoftwareDecode(job.video, next)]

\* tryEncoderFallbacks: the next encoder, with the decoder it can use.
WithFallback(o) ==
    LET next == GetFallbackEncoder(o.encoder, usable)
    IN  [o EXCEPT !.encoder = next, !.softwareDecode = RequiresSoftwareDecode(job.video, next)]

\* Transcode fails: the same encoder with software decoding, then the next encoder.
Recovers ==
    /\ stage = "encoding" /\ ~cancelled
    /\ \/ /\ ShouldRetryDecode(opts)
          /\ Attempt([opts EXCEPT !.softwareDecode = TRUE])
          /\ UNCHANGED outcome
       \/ /\ ~ShouldRetryDecode(opts) /\ Fallbacks(opts.encoder, usable) # {}
          /\ Attempt(WithFallback(opts))
          /\ UNCHANGED outcome
       \/ /\ ~ShouldRetryDecode(opts) /\ Fallbacks(opts.encoder, usable) = {}
          /\ Done("failed")
          /\ UNCHANGED <<opts, tried>>
    /\ UNCHANGED <<searchvars, jobvars, cancelled>>

\* ffmpeg is killed: no further attempt.
Interrupted ==
    /\ stage = "encoding" /\ cancelled
    /\ Done("cancelled")
    /\ UNCHANGED <<searchvars, jobvars, opts, tried, cancelled>>

\* CancelJob of the worker, or Pause: the job's context is done.
Cancel ==
    /\ stage # "done" /\ ~cancelled
    /\ cancelled' = TRUE
    /\ UNCHANGED <<searchvars, jobvars, stage, opts, tried, outcome>>

Works ==
    \/ AnalysisSkips \/ AnalysisBegins \/ Analyzes \/ AnalysisBreaks \/ AnalysisEnds
    \/ BeginsEncoding \/ Encodes \/ Recovers \/ Interrupted

\* The worker is free for its next job.
Idle == stage = "done" /\ UNCHANGED vars

Next == Works \/ Cancel \/ Idle

\* ffmpeg ends, well or not, and the worker goes on.
Spec == Init /\ [][Next]_vars /\ WF_vars(Works)

-----------------------------------------------------------------------------
(* Properties.                                                             *)

TypeOK ==
    /\ usable \subseteq HWAccel
    /\ quality \in Nat
    /\ search \in {"on", "found"} => Clamped(quality) = quality
    /\ attempts \subseteq [q : Nat, score : Scores]
    /\ search \in {"off", "on", "found", "impossible", "failed"}
    /\ stage \in {"new", "analyzing", "encoding", "done"}
    /\ tried \in [Attempts -> 0 .. 2]
    /\ cancelled \in BOOLEAN
    /\ outcome \in {"none", "encoded", "failed", "skipped", "cancelled"}

\* What the search finds was scored, passed, and is the smallest that did; and it
\* stopped for a reason: the score is within the tolerance, the next setting that
\* compresses more was scored too low, or there is none.  Only the bit rate search
\* may be cut short by the limit on the runs.  A file is called already optimized only
\* if its best quality was scored too low.  However the scores vary.
SearchIsSharp ==
    /\ search = "found" =>
          \E a \in attempts :
              /\ a.q = quality /\ a.score >= 0
              /\ \A b \in attempts : b.score >= 0 => ~Smaller(b.q, a.q)
              /\ \/ a.score < Cardinality(attempts)
                 \/ \E b \in attempts : b.score < 0 /\ Smaller(b.q, a.q) /\ Adjacent(a.q, b.q)
                 \/ AtEnd(a.q, scale.smallest)
                 \/ scale.bitrate /\ Cardinality(attempts) = maxRuns
    /\ search = "impossible" => \E a \in attempts : a.score < 0 /\ AtEnd(a.q, scale.best)

\* A job fails in encoding only after software and each usable encoder behind its own
\* was tried, the hardware ones with software decoding too; and none more than once.
FailureIsExhaustive ==
    /\ \A a \in Attempts : tried[a] <= 1
    /\ outcome = "failed" /\ search # "failed" =>
          \A e \in usable \cup {"none"} :
              Rank(e) >= Rank(preset.encoder) => tried[<<e, e # "none">>] = 1

\* Whatever decoder is used, the command an attempt runs can take its frames: those
\* on the CPU if it decodes in software, and else those on the GPU.  So each encoder
\* is tried at least once with a command that runs.
CommandFits ==
    stage = "encoding" =>
        CanRun(opts, IF "gpu" \in DecodedTo(opts) THEN "gpu" ELSE "cpu")

\* The file that a SmartShrink job's own encoder makes at a CRF has the quality value
\* of a sample that was scored at or above the threshold.  (With a bit rate, or a
\* fallback encoder, it has not: see the README.)
OutputWasScored ==
    outcome = "encoded" /\ preset.smart /\ opts.encoder = preset.encoder /\ ~scale.bitrate =>
        \E a \in attempts : a.score >= 0 /\
            QualityValue(opts) = QualityValue(ForSample([opts EXCEPT !.quality = a.q]))

\* A job ends, whatever fails: the search is finite, and so are the recoveries.
JobEnds == <>(stage = "done")
=============================================================================
